CONSTANTS
  a1 = a1
  a2 = a2
  b1 = b1
  ps = ps
  bad = bad
  None = None
  sizeA = sizeA
  sizeB = sizeB
  Packets = {a1, b1, bad}
  Resolutions = {sizeA, sizeB}
  Resolution <- MCResolution
  Rejected <- MCRejected
  HasFrame <- MCHasFrame
  NumOutput = 1
  NumCapture = 1
  MaxSize = 1
  MaxAllocs = 3
  InitMayFail = TRUE
  MayFail = TRUE
SPECIFICATION SafeSpec
CHECK_DEADLOCK FALSE
INVARIANTS
  NoBufferLeak
  CaptureNotShared
PROPERTIES
  ProcessWhileReady
