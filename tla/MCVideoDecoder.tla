-------------------------- MODULE MCVideoDecoder ---------------------------
(* Packets for VideoDecoder: a1 and a2 are frames of one size, b1 one of   *)
(* another, ps holds the parameter sets of the other size, bad is empty.   *)
EXTENDS VideoDecoder

CONSTANTS a1, a2, b1, ps, bad, sizeA, sizeB

MCResolution(p) == IF p \in {b1, ps} THEN sizeB ELSE sizeA
MCRejected(p)   == p = bad
MCHasFrame(p)   == p # ps
=============================================================================
