CONSTANTS
  h264 = h264
  h264b = h264b
  vp8 = vp8
  audio = audio
  NoStream = NoStream
  Streams = {h264, audio}
  VideoStreams <- MCVideoStreams
  BsfStreams <- MCBsfStreams
  ExtradataStreams <- MCExtradataStreams
  AutoReconnect = FALSE
  BsfMayFail = FALSE
  AllocMayFail = FALSE
  MaxSize = 1
  MaxConns = 1
  MaxReads = 1
  Timeout = 1
SPECIFICATION SafeSpec
CHECK_DEADLOCK FALSE
INVARIANTS
  NoTerminate
