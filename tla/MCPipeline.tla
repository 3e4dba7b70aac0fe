---------------------------- MODULE MCPipeline -----------------------------
(* Streams for Pipeline: h264, vp8 with larger frames, and one with sound  *)
(* only.  The first packet after a reconnection to vp8 is too large for    *)
(* the output buffers.                                                     *)
EXTENDS Pipeline

CONSTANTS h264, vp8, audio, sizeA, sizeB

MCSizeOf(s)     == IF s = vp8 THEN sizeB ELSE sizeA
MCBsfStreams    == VideoStreams \ {vp8}
MCRejected(p)   == p.from = vp8 /\ p.conn = 2 /\ p.n = 1
=============================================================================
