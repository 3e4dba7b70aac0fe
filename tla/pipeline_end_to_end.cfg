CONSTANTS
  h264 = h264
  vp8 = vp8
  audio = audio
  sizeA = sizeA
  sizeB = sizeB
  NoStream = NoStream
  None = None
  Streams = {h264, vp8}
  VideoStreams = {h264, vp8}
  ExtradataStreams = {vp8}
  BsfStreams <- MCBsfStreams
  SizeOf <- MCSizeOf
  IsRejected <- MCRejected
  Resolutions = {sizeA, sizeB}
  AutoReconnect = TRUE
  BsfMayFail = FALSE
  AllocMayFail = FALSE
  InitMayFail = FALSE
  MayFail = FALSE
  MaxSize = 1
  MaxConns = 2
  MaxReads = 2
  NumOutput = 2
  NumCapture = 1
  MaxAllocs = 2
  Timeout = 0
SPECIFICATION Spec
CHECK_DEADLOCK FALSE
INVARIANTS
  SavedInOrder
PROPERTIES
  EndToEnd
