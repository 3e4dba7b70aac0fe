CONSTANTS
  h264 = h264
  vp8 = vp8
  audio = audio
  sizeA = sizeA
  sizeB = sizeB
  NoStream = NoStream
  None = None
  Streams = {h264, audio}
  VideoStreams = {h264}
  ExtradataStreams = {h264}
  BsfStreams <- MCBsfStreams
  SizeOf <- MCSizeOf
  IsRejected <- MCRejected
  Resolutions = {sizeA, sizeB}
  AutoReconnect = TRUE
  BsfMayFail = TRUE
  AllocMayFail = TRUE
  InitMayFail = TRUE
  MayFail = TRUE
  MaxSize = 1
  MaxConns = 1
  MaxReads = 2
  NumOutput = 1
  NumCapture = 1
  MaxAllocs = 1
  Timeout = 1
SPECIFICATION Spec
CHECK_DEADLOCK FALSE
INVARIANTS
  NoneOutlives

  
