------------------------------ MODULE Pipeline ------------------------------
(***************************************************************************)
(* main.cpp: VideoDemuxer and VideoDecoder around one PacketQueue, created *)
(* in this order, stopped in the other, destroyed when main returns.       *)
(*                                                                         *)
(* The two components are used as they are specified.  The steps of their  *)
(* owners are the statements of main, and the queue of the one is the      *)
(* queue of the other, so that the environments they assume (a decoder     *)
(* that keeps taking packets, a demuxer that pushes and aborts) are gone.  *)
(***************************************************************************)
EXTENDS Naturals, Sequences

CONSTANTS
  Streams, VideoStreams, BsfStreams, ExtradataStreams, NoStream,
  AutoReconnect, BsfMayFail, AllocMayFail, MaxSize, MaxConns, MaxReads, Timeout,
  SizeOf(_),      \* the frame size of a stream
  IsRejected(_),  \* a packet is empty, or larger than the output buffers,
                  \* whose size is taken from the first stream only
  Resolutions, None, NumOutput, NumCapture, MaxAllocs, InitMayFail,
  MayFail

VARIABLES
  queue, abort_request,                                        \* pkt_queue
  demux_running, stream_ready, info, told, frame_count, reads, \* demuxer
  demux_pc, fmt_ctx, link, conns, bsf, filtered, last_conn, joinable, caller,
  demux_dying, elapsed,
  decode_running, decode_pc, packet, index, buffer,            \* decoder
  out_queue, out_done, out_buffers, out_streaming, out_error,
  capture_pc, held, processed,
  empty, filled, cap_streaming, dma_buffer_fd, dma_buffers, undestroyed, kept,
  allocs, frame_size, events, stream_size, processor, owner, decode_dying,
  main,           \* the statement main has reached
  g_running

Demuxer == INSTANCE VideoDemuxer
             WITH running <- demux_running, pc <- demux_pc, dying <- demux_dying

PacketSize(p) == SizeOf(p.from)
IsFrame(p)    == p.n > 0

Decoder == INSTANCE VideoDecoder
             WITH running <- decode_running, dying <- decode_dying,
                  Packets <- Demuxer!Packets, Resolution <- PacketSize,
                  Rejected <- IsRejected, HasFrame <- IsFrame,
                  fed <- <<>>

(* What both of them assume of the constants.                              *)
ASSUME PipelineAssumption ==
  Demuxer!DemuxerAssumption /\ Decoder!DecoderAssumption

queueVars == <<queue, abort_request>>
demuxVars == <<demux_running, stream_ready, info, told, frame_count, reads,
               demux_pc, fmt_ctx, link, conns, bsf, filtered, last_conn,
               joinable, caller, demux_dying, elapsed>>
decodeVars == <<decode_running, decode_pc, packet, index, buffer, out_queue,
                out_done, out_buffers, out_streaming, out_error, capture_pc, held, processed,
                empty, filled, cap_streaming, dma_buffer_fd, dma_buffers,
                undestroyed, kept, allocs, frame_size, events, stream_size,
                processor, owner, decode_dying>>
vars == <<queueVars, demuxVars, decodeVars, main, g_running>>

Init ==
  /\ Demuxer!Init
  /\ Decoder!Init
  /\ main = "demuxer" /\ g_running = TRUE

-----------------------------------------------------------------------------
(* main.                                                                   *)

(* A statement of main that calls the demuxer, or the decoder.             *)
CallsDemuxer(from, step, to) ==
  /\ main = from /\ step /\ main' = to
  /\ UNCHANGED <<decodeVars, g_running>>

CallsDecoder(from, step, to) ==
  /\ main = from /\ step /\ main' = to
  /\ UNCHANGED <<demuxVars, g_running>>

StartDemuxer == CallsDemuxer("demuxer", Demuxer!Start, "wait")

WaitForStream ==
  \/ CallsDemuxer("wait", Demuxer!Wait, "waiting")
  \/ CallsDemuxer("waiting", Demuxer!WaitSleeps \/ Demuxer!WaitReturns, "waiting")

StreamReady ==
  caller = "ready" /\ CallsDemuxer("waiting", Demuxer!Proceed, "decoder")

(* "Failed to get video stream": return -1.                                *)
NoStreamFound ==
  caller = "timeout" /\ CallsDemuxer("waiting", Demuxer!Proceed, "unwind demuxer")

CreateDecoder ==
  CallsDecoder("decoder", Decoder!InitDecoder,
               IF owner' = "idle" THEN "start" ELSE "unwind decoder")

StartDecoder == CallsDecoder("start", Decoder!Start, "run")

(* The signal handler, and the loop of main that looks at g_running.       *)
Signal ==
  /\ g_running' = FALSE
  /\ UNCHANGED <<queueVars, demuxVars, decodeVars, main>>

StopDecoder ==
  \/ ~g_running /\ CallsDecoder("run", Decoder!Stop(FALSE), "stop decoder")
  \/ CallsDecoder("stop decoder", Decoder!StopSteps, "stop decoder")

StopDemuxer ==
  \/ owner = "idle"
       /\ CallsDemuxer("stop decoder", Demuxer!Stop(FALSE), "stop demuxer")
  \/ CallsDemuxer("stop demuxer", Demuxer!StopSteps, "stop demuxer")

(* main has returned: its variables are destroyed, the last one first.     *)
DestroyDecoder ==
  \/ caller = "idle"
       /\ CallsDecoder("stop demuxer", Decoder!Stop(TRUE), "unwind demuxer")
  \/ CallsDecoder("unwind decoder", Decoder!Stop(TRUE), "unwind demuxer")

DestroyDemuxer ==
  \/ caller = "idle"
       /\ CallsDemuxer("unwind demuxer", Demuxer!Stop(TRUE), "unwind queue")
  \/ CallsDemuxer("unwind queue", Demuxer!StopSteps, "unwind queue")

(* ~PacketQueue: abort, then flush.                                        *)
DestroyQueue ==
  /\ main = "unwind queue" /\ caller = "destroyed"
  /\ main' = "returned"
  /\ abort_request' = TRUE /\ queue' = <<>>
  /\ UNCHANGED <<demuxVars, decodeVars, g_running>>

Main ==
  \/ StartDemuxer \/ WaitForStream \/ StreamReady \/ NoStreamFound
  \/ CreateDecoder \/ StartDecoder
  \/ StopDecoder \/ StopDemuxer
  \/ DestroyDecoder \/ DestroyDemuxer \/ DestroyQueue

-----------------------------------------------------------------------------
(* The threads, and what is outside of the program.                        *)

DemuxThread   == Demuxer!DemuxThread /\ UNCHANGED <<decodeVars, main, g_running>>
DecodeThread  == Decoder!DecodeThread /\ UNCHANGED <<demuxVars, main, g_running>>
CaptureThread == Decoder!CaptureThread /\ UNCHANGED <<demuxVars, main, g_running>>
Driver        == Decoder!Driver /\ UNCHANGED <<demuxVars, main, g_running>>
LinkDown      == Demuxer!LinkDown /\ UNCHANGED <<decodeVars, main, g_running>>

Next ==
  Main \/ DemuxThread \/ DecodeThread \/ CaptureThread \/ Driver
    \/ Signal \/ LinkDown

SafeSpec == Init /\ [][Next]_vars

(* Every thread is scheduled and the driver works.  Nothing makes the      *)
(* network answer, a signal arrive or a link fail.                         *)
Fairness ==
  /\ WF_vars(Main)
  /\ WF_vars(DemuxThread) /\ WF_vars(DecodeThread) /\ WF_vars(CaptureThread)
  /\ WF_vars(Driver)

Spec == SafeSpec /\ Fairness
-----------------------------------------------------------------------------
(* Properties.                                                             *)

(* Frames are saved in the order in which their packets were read, across  *)
(* reconnections, and none is saved twice.                                 *)
SavedInOrder ==
  \A i, j \in DOMAIN processed : i < j => processed[i].n < processed[j].n

(* No thread outlives what it uses: the queue is destroyed after the       *)
(* demux thread and the decode thread have ended, the decoder after both   *)
(* of its threads.                                                         *)
NoneOutlives ==
  /\ main = "returned" =>
       /\ demux_pc \in {"none", "ended"}
       /\ decode_pc = "none" /\ capture_pc = "none"
  /\ owner = "destroyed" => decode_pc = "none" /\ capture_pc = "none"

Awaited(n) ==
  /\ main = "run" /\ ~out_error
  /\ \E i \in DOMAIN queue : queue[i].n = n /\ ~IsRejected(queue[i])

Saved(n) == \E i \in DOMAIN processed : processed[i].n = n

(* The frame of packet n waits to be dequeued while a resolution change is *)
(* to be handled: the STREAMOFF that handles it may drop the frame.        *)
Overtaken(n) ==
  events > 0 /\ \E i \in DOMAIN filled : filled[i].packet.n = n

(* Each rejected packet costs an output buffer.  When it has cost them all *)
(* the decode thread waits for one that does not come.                     *)
NoOutputBuffer ==
  decode_pc = "buffer" /\ index = out_buffers /\ out_queue = <<>> /\ out_done = <<>>

(* What the demuxer pushes is saved, as long as the program runs and is    *)
(* not told to stop: every packet in the queue reaches the processor, if   *)
(* it is not rejected and no resolution change overtakes its frame, until  *)
(* rejected packets have cost all the output buffers.  Init's calls on the *)
(* output plane have succeeded.                                            *)
EndToEnd ==
  \A n \in 1..MaxReads :
    Awaited(n) ~> Saved(n) \/ Overtaken(n) \/ NoOutputBuffer \/ ~g_running

(* "Signal handling and graceful shutdown": once it is told to stop, the   *)
(* running program returns from decoder.Stop(), demuxer.Stop() and main.   *)
ShutdownCompletes == main = "run" /\ ~g_running ~> main = "returned"

(* What a shutdown can hang on.  decoder.Stop() joins a decode thread that *)
(* is in pop() on an empty queue, which only demuxer.Stop() would abort,   *)
(* or in dqBuffer(-1) without a capture thread to serve the driver;        *)
(* demuxer.Stop() joins, before it aborts, a demux thread that is in       *)
(* push() on a full queue which nobody empties any more.                   *)
HeldInPop == owner = "join decode" /\ decode_pc = "pop" /\ queue = <<>>

HeldInDequeue == owner = "join decode" /\ Decoder!StarvedOfOutput

HeldInPush == caller = "joining" /\ Demuxer!Pushing /\ Len(queue) = MaxSize

(* The ways main comes to an end: a signal, no stream within the timeout,  *)
(* a decoder that cannot be initialised.                                   *)
Ending == main \in {"unwind decoder", "unwind demuxer"} \/ (main = "run" /\ ~g_running)

=============================================================================
