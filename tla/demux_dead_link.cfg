CONSTANTS
  h264 = h264
  h264b = h264b
  vp8 = vp8
  audio = audio
  NoStream = NoStream
  Streams = {h264}
  VideoStreams <- MCVideoStreams
  BsfStreams <- MCBsfStreams
  ExtradataStreams <- MCExtradataStreams
  AutoReconnect = TRUE
  BsfMayFail = FALSE
  AllocMayFail = FALSE
  MaxSize = 2
  MaxConns = 2
  MaxReads = 2
  Timeout = 1
SPECIFICATION Spec
CHECK_DEADLOCK FALSE
PROPERTIES
  DeadLinkClosed
