CONSTANTS
  h264 = h264
  h264b = h264b
  vp8 = vp8
  audio = audio
  NoStream = NoStream
  Streams = {h264, vp8, audio}
  VideoStreams <- MCVideoStreams
  BsfStreams <- MCBsfStreams
  ExtradataStreams <- MCExtradataStreams
  AutoReconnect = TRUE
  BsfMayFail = TRUE
  AllocMayFail = FALSE
  MaxSize = 2
  MaxConns = 2
  MaxReads = 3
  Timeout = 2
SPECIFICATION Spec
CHECK_DEADLOCK FALSE
INVARIANTS
  TypeOK
  ReadyMeansInfo
  GapFree
  OneLostPerConnection
  ContextClosed
  StoppedMeansEnded
PROPERTIES
  HeaderFirst
  StopCompletesOrHeld
