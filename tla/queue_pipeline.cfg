CONSTANTS
  p1 = p1
  p2 = p2
  c1 = c1
  c2 = c2
  m1 = m1
  x1 = x1
  x2 = x2
  x3 = x3
  x4 = x4
  Blank = Blank
  NoThread = NoThread
  Packets <- ThreePackets
  Producers <- OneProducer
  Consumers <- OneConsumer
  Controllers <- OneController
  MaxSize = 2
  AllocMayFail = TRUE
SPECIFICATION Spec
INVARIANTS
  Ownership
PROPERTIES
  ImplementsChannel
