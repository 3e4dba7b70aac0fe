--------------------------- MODULE MCPacketQueue ---------------------------
(* Bounds for PacketQueue.  Each packet is read once, so the number of     *)
(* Packets bounds the pushes of a behaviour; pops, flushes and aborts are  *)
(* not bounded.                                                            *)
EXTENDS PacketQueue, TLC

CONSTANTS p1, p2, c1, c2, m1, x1, x2, x3, x4

OneProducer  == {p1}
TwoProducers == {p1, p2}
OneConsumer  == {c1}
TwoConsumers == {c1, c2}
OneController == {m1}
FourPackets  == {x1, x2, x3, x4}
ThreePackets == {x1, x2, x3}

Symmetric ==
  Permutations(Packets) \cup Permutations(Producers) \cup Permutations(Consumers)
=============================================================================
