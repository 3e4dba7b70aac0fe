CONSTANTS
  a1 = a1
  a2 = a2
  b1 = b1
  ps = ps
  bad = bad
  None = None
  sizeA = sizeA
  sizeB = sizeB
  Packets = {a1, a2, ps}
  Resolutions = {sizeA, sizeB}
  Resolution <- MCResolution
  Rejected <- MCRejected
  HasFrame <- MCHasFrame
  NumOutput = 2
  NumCapture = 2
  MaxSize = 1
  MaxAllocs = 3
  InitMayFail = FALSE
  MayFail = FALSE
SPECIFICATION Spec
CHECK_DEADLOCK FALSE
INVARIANTS
  TypeOK
  OutputOwnedOnce
  CaptureNotShared
  FramesHaveFrameSize
  InOrder
PROPERTIES
  EventuallyDecoded
  StopCompletesOrStarves
