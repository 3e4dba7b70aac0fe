CONSTANTS
  h264 = h264
  vp8 = vp8
  audio = audio
  sizeA = sizeA
  sizeB = sizeB
  NoStream = NoStream
  None = None
  Streams = {h264}
  VideoStreams = {h264}
  ExtradataStreams = {h264}
  BsfStreams <- MCBsfStreams
  SizeOf <- MCSizeOf
  IsRejected <- MCRejected
  Resolutions = {sizeA, sizeB}
  AutoReconnect = TRUE
  BsfMayFail = FALSE
  AllocMayFail = FALSE
  InitMayFail = FALSE
  MayFail = FALSE
  MaxSize = 2
  MaxConns = 1
  MaxReads = 1
  NumOutput = 1
  NumCapture = 1
  MaxAllocs = 1
  Timeout = 1
SPECIFICATION Spec
CHECK_DEADLOCK FALSE
PROPERTIES
  ShutdownCompletes
