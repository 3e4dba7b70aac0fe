--------------------------- MODULE MCFrameSaver ----------------------------
(* Two sizes for FrameSaver; the surfaces of the larger one are padded.    *)
EXTENDS FrameSaver

CONSTANTS small, large, padded

MCActual(s) == IF s = large THEN padded ELSE s
=============================================================================
