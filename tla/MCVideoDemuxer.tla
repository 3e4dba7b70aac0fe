-------------------------- MODULE MCVideoDemuxer ---------------------------
(* Streams for VideoDemuxer: two H264 streams that differ in their         *)
(* parameter sets, a VP8 stream with extradata, and one with no video.     *)
EXTENDS VideoDemuxer

CONSTANTS h264, h264b, vp8, audio

MCVideoStreams     == Streams \ {audio}
MCBsfStreams       == Streams \ {audio, vp8}
MCExtradataStreams == Streams \ {audio}
=============================================================================
