--------------------------- MODULE MCElementPlane ---------------------------
(* ElementPlane at two buffers and a counter of two bits, which goes from  *)
(* 0 to 3 as a uint32_t does to 2^32 - 1.                                  *)
EXTENDS ElementPlane
=============================================================================
