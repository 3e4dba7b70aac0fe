CONSTANTS
  p1 = p1
  p2 = p2
  c1 = c1
  c2 = c2
  m1 = m1
  x1 = x1
  x2 = x2
  x3 = x3
  x4 = x4
  Blank = Blank
  NoThread = NoThread
  Packets <- FourPackets
  Producers <- TwoProducers
  Consumers <- TwoConsumers
  Controllers <- OneController
  MaxSize = 2
  AllocMayFail = FALSE
SPECIFICATION SafeSpec
SYMMETRY Symmetric
INVARIANTS
  TypeOK
  Bounded
  Ownership
  AbortLeavesNoWaiter
  NoLostPopWakeup
  NoLostPushWakeup
