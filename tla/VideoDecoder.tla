---------------------------- MODULE VideoDecoder ----------------------------
(***************************************************************************)
(* core/VideoDecoder: a decode thread that pops packets and feeds them to  *)
(* the output plane of the V4L2 decoder, a capture thread that takes the   *)
(* decoded frames from the capture plane, has them processed and gives the *)
(* buffers back, and the calls of the thread that owns the object.         *)
(*                                                                         *)
(* The V4L2 driver is the environment.  It decodes the buffers of the      *)
(* output plane in order, each into an empty buffer of the capture plane;  *)
(* when the resolution of the stream changes it sends an event and waits   *)
(* until the capture plane streams with buffers of the new size.  It sends *)
(* no end-of-stream event: Init subscribes to resolution changes only.     *)
(* The queue is used by its promise (module PacketChannel).                *)
(***************************************************************************)
EXTENDS Naturals, Sequences, FiniteSets

CONSTANTS
  Packets,        \* what the demuxer pushes
  Resolution(_),  \* the frame size of a packet's stream
  Rejected(_),    \* the packet is empty, or larger than an output buffer
  HasFrame(_),    \* whether a packet holds a frame, or only parameter sets
  Resolutions,
  None,           \* no packet, no frame, no resolution
  NumOutput,      \* bound: config_.num_buffers, of which the driver grants some
  NumCapture,     \* num_buffers_ of an allocation
  MaxSize,        \* max_size_ of the queue
  MaxAllocs,      \* bound: allocations of capture buffers
  InitMayFail,    \* whether Init can fail
  MayFail         \* whether later V4L2 and NvBufSurface calls can fail

NoPacket     == None
NoResolution == None
NoFrame      == None
NoBuffer     == 0
OutBuffers   == 1..NumOutput
Fds          == (1..MaxAllocs) \X (1..NumCapture)
Frames       == [fd : Fds, packet : Packets, size : Resolutions]

ASSUME DecoderAssumption ==
  /\ None \notin Packets \cup Resolutions \cup Frames
  /\ \A p \in Packets : Resolution(p) \in Resolutions
  /\ NumOutput \in Nat \ {0} /\ NumCapture \in Nat \ {0} /\ MaxSize \in Nat \ {0}
  /\ MaxAllocs \in Nat
  /\ InitMayFail \in BOOLEAN /\ MayFail \in BOOLEAN

VARIABLES
  running,        \* running_
  queue, abort_request,
  fed,            \* the packets the demuxer has pushed, in order
  decode_pc,      \* where DecodeThreadFunc is
  packet,         \* packet
  index,          \* index: output buffers used so far
  buffer,         \* buffer_proxy
  out_queue,      \* buffers of the output plane the driver has to decode
  out_done,       \* those it has decoded
  out_buffers,    \* output_plane.num_buffers
  out_streaming,
  out_error,      \* output_plane.is_in_error
  capture_pc,     \* where CaptureThreadFunc is
  held,           \* the frame dequeued by CaptureThreadFunc
  empty,          \* buffers of the capture plane the driver can fill
  filled,         \* frames it has filled
  cap_streaming,
  dma_buffer_fd,  \* dma_buffer_fd_: the DMA buffers the object knows
  dma_buffers,    \* the DMA buffers that exist
  undestroyed,    \* history: those a destroy has failed for
  kept,           \* history: those the driver was asked for and did not give back
  allocs,         \* allocations so far
  frame_size,     \* width_ x height_
  events,         \* resolution events not yet dequeued
  stream_size,    \* the resolution the driver has found in the stream
  processed,      \* packets whose frame went to processor_
  processor,      \* "ready" or "deinit"
  owner,          \* where the owner's call is
  dying           \* the call is the destructor's

decodeVars  == <<decode_pc, packet, index, buffer>>
outVars     == <<out_queue, out_done, out_buffers, out_streaming, out_error>>
captureVars == <<capture_pc, held, processed>>
capVars     == <<empty, filled, cap_streaming>>
bufferVars  == <<dma_buffer_fd, dma_buffers, undestroyed, kept, allocs,
                 frame_size>>
driverVars  == <<events, stream_size>>
ownerVars   == <<processor, owner, dying>>
vars == <<running, queue, abort_request, fed, decodeVars, outVars, captureVars,
          capVars, bufferVars, driverVars, ownerVars>>

(* Types of the decoder's state.                                           *)
TypeOK ==
  /\ running \in BOOLEAN /\ abort_request \in BOOLEAN /\ out_streaming \in BOOLEAN
  /\ out_error \in BOOLEAN /\ cap_streaming \in BOOLEAN /\ dying \in BOOLEAN
  /\ queue \in Seq(Packets) /\ fed \in Seq(Packets)
  /\ decode_pc \in {"none", "loop", "pop", "buffer", "fill", "ended"}
  /\ packet \in Packets \cup {NoPacket}
  /\ out_buffers \in 0..NumOutput
  /\ index \in 0..out_buffers
  /\ buffer \in OutBuffers \cup {NoBuffer}
  /\ out_queue \in Seq([buffer : OutBuffers, packet : Packets])
  /\ out_done \in Seq(OutBuffers)
  /\ capture_pc \in {"none", "first", "first event", "loop", "event", "dequeue",
                     "process", "requeue", "ended"}
  /\ held \in Frames \cup {NoFrame}
  /\ processed \in Seq(Packets)
  /\ empty \subseteq Fds
  /\ filled \in Seq(Frames)
  /\ dma_buffer_fd \subseteq Fds /\ dma_buffers \subseteq Fds
  /\ undestroyed \subseteq Fds /\ kept \subseteq Fds
  /\ allocs \in 0..MaxAllocs
  /\ frame_size \in Resolutions \cup {NoResolution}
  /\ events \in Nat
  /\ stream_size \in Resolutions \cup {NoResolution}
  /\ processor \in {"ready", "deinit"}
  /\ owner \in {"new", "failed", "idle", "stopping", "join decode",
                "join capture", "release", "destroyed"}

(* The object after its constructor, SetInputQueue and SetFrameProcessor.  *)
Init ==
  /\ running = FALSE
  /\ queue = <<>> /\ abort_request = FALSE /\ fed = <<>>
  /\ decode_pc = "none" /\ packet = NoPacket /\ index = 0 /\ buffer = NoBuffer
  /\ out_queue = <<>> /\ out_done = <<>>
  /\ out_buffers = 0 /\ out_streaming = FALSE /\ out_error = FALSE
  /\ capture_pc = "none" /\ held = NoFrame /\ processed = <<>>
  /\ empty = {} /\ filled = <<>> /\ cap_streaming = FALSE
  /\ dma_buffer_fd = {} /\ dma_buffers = {} /\ undestroyed = {} /\ kept = {}
  /\ allocs = 0 /\ frame_size = NoResolution
  /\ events = 0 /\ stream_size = NoResolution
  /\ processor = "ready" /\ owner = "new" /\ dying = FALSE

-----------------------------------------------------------------------------
(* DecodeThreadFunc.                                                       *)

Decoding(from, to) ==
  /\ decode_pc = from
  /\ decode_pc' = to
  /\ UNCHANGED <<running, abort_request, fed, captureVars, capVars, bufferVars,
                 driverVars, ownerVars>>

DecodeLoop ==
  /\ Decoding("loop", IF running THEN "pop" ELSE "ended")
  /\ UNCHANGED <<queue, packet, index, buffer, outVars>>

Pop ==
  /\ Decoding("pop", "buffer")
  /\ ~abort_request /\ queue # <<>>
  /\ packet' = Head(queue)
  /\ queue' = Tail(queue)
  /\ UNCHANGED <<index, buffer, outVars>>

(* Defect: the loop goes on after a pop() that failed.                     *)
PopRefusedGoesOn ==
  /\ Decoding("pop", "pop")
  /\ abort_request
  /\ UNCHANGED <<queue, packet, index, buffer, outVars>>

(* pop() returned false: the loop goes on while running_ is set.           *)
PopRefused ==
  /\ Decoding("pop", IF running THEN "loop" ELSE "ended")
  /\ abort_request
  /\ UNCHANGED <<queue, packet, index, buffer, outVars>>

(* Defect: off by one.                                                     *)
NthBufferOneMore ==
  /\ Decoding("buffer", "fill")
  /\ index <= out_buffers
  /\ index' = index + 1
  /\ buffer' = index + 1
  /\ UNCHANGED <<queue, packet, outVars>>

(* Defect: the buffers are used in turn, and never asked back.             *)
NthBufferInTurn ==
  /\ Decoding("buffer", "fill")
  /\ index' = (index % out_buffers) + 1
  /\ buffer' = index'
  /\ UNCHANGED <<queue, packet, outVars>>

(* Initial phase: the buffers of the output plane, one after the other.    *)
NthBuffer ==
  /\ Decoding("buffer", "fill")
  /\ index < out_buffers
  /\ index' = index + 1
  /\ buffer' = index + 1
  /\ UNCHANGED <<queue, packet, outVars>>

(* Circular phase: dqBuffer(-1) blocks until the driver gives one back.    *)
DequeueOutput ==
  /\ Decoding("buffer", "fill")
  /\ index = out_buffers
  /\ out_streaming /\ out_done # <<>>
  /\ buffer' = Head(out_done)
  /\ out_done' = Tail(out_done)
  /\ UNCHANGED <<queue, packet, index, out_queue, out_buffers, out_streaming, out_error>>

(* A plane that does not stream is an error, and after an error dqBuffer   *)
(* no longer retries: the packet is dropped.                               *)
DequeueOutputFails ==
  /\ Decoding("buffer", "loop")
  /\ index = out_buffers
  /\ ~out_streaming \/ (out_error /\ out_done = <<>>) \/ MayFail
  /\ out_error' = TRUE
  /\ packet' = NoPacket
  /\ UNCHANGED <<queue, index, buffer, out_queue, out_done, out_buffers,
                 out_streaming>>

(* The packet is dropped, and its buffer with it: it is neither queued nor *)
(* kept for the next packet.                                               *)
RejectPacket ==
  /\ Decoding("fill", "loop")
  /\ Rejected(packet)
  /\ packet' = NoPacket
  /\ buffer' = NoBuffer
  /\ UNCHANGED <<queue, index, outVars>>

QueueOutput ==
  /\ Decoding("fill", "loop")
  /\ ~Rejected(packet)
  /\ out_queue' = Append(out_queue, [buffer |-> buffer, packet |-> packet])
  /\ packet' = NoPacket
  /\ buffer' = NoBuffer
  /\ UNCHANGED <<queue, index, out_done, out_buffers, out_streaming, out_error>>

QueueOutputFails ==
  /\ Decoding("fill", "loop")
  /\ ~Rejected(packet)
  /\ MayFail
  /\ out_error' = TRUE
  /\ packet' = NoPacket
  /\ buffer' = NoBuffer
  /\ UNCHANGED <<queue, index, out_queue, out_done, out_buffers, out_streaming>>

DecodeThread ==
  \/ DecodeLoop \/ Pop \/ PopRefused
  \/ NthBuffer \/ DequeueOutput \/ DequeueOutputFails
  \/ RejectPacket \/ QueueOutput \/ QueueOutputFails

-----------------------------------------------------------------------------
(* CaptureThreadFunc.                                                      *)

Capturing(from, to) ==
  /\ capture_pc = from
  /\ capture_pc' = to
  /\ UNCHANGED <<running, queue, abort_request, fed, decodeVars, outVars,
                 stream_size, ownerVars>>

NewBuffers == {allocs + 1} \X (1..NumCapture)

(* Those that reach the driver: nobody looks at the result of a qBuffer.   *)
Queued(buffers) == IF MayFail THEN SUBSET buffers ELSE {buffers}

(* Those that stay when buffers are destroyed: NvDestroy has to get each   *)
(* surface from its fd and may destroy nothing.                            *)
NotDestroyed(buffers) == IF MayFail THEN SUBSET buffers ELSE {{}}

(* Whether the driver gives the buffers of the capture plane back.  Nobody *)
(* looks at the results: STREAMOFF is tried several times and REQBUFS(0)   *)
(* after it, which the driver refuses while the plane streams.             *)
GivesBack == IF MayFail THEN BOOLEAN ELSE {TRUE}

InCapture == empty \cup {filled[i].fd : i \in DOMAIN filled}

(* The driver is asked for its buffers, and gets others.                   *)
Exchange(back, fresh) ==
  /\ empty' = fresh \cup (IF back THEN {} ELSE empty)
  /\ filled' = IF back THEN <<>> ELSE filled

Keeps(back) == kept' = IF back THEN {} ELSE InCapture

(* The object gives up the buffers it knows: left of them go on existing.  *)
GivesUp(left) == undestroyed' = undestroyed \cup left

(* Defect: the frames of the old buffers are still there to be dequeued.   *)
AllocateOverFrames(old, back) ==
  /\ allocs < MaxAllocs
  /\ allocs' = allocs + 1
  /\ frame_size' = stream_size
  /\ dma_buffer_fd' = NewBuffers
  /\ dma_buffers' = old \cup NewBuffers
  /\ empty' = NewBuffers
  /\ UNCHANGED filled
  /\ cap_streaming' = TRUE

(* AllocateCaptureBuffers, when old are the DMA buffers that exist before  *)
(* and back tells whether the driver has given its buffers back: read the  *)
(* format, allocate, queue all the buffers and start streaming.            *)
AllocateCaptureBuffers(old, back) ==
  /\ allocs < MaxAllocs
  /\ allocs' = allocs + 1
  /\ frame_size' = stream_size
  /\ dma_buffer_fd' = NewBuffers
  /\ dma_buffers' = old \cup NewBuffers
  /\ \E queued \in Queued(NewBuffers) : Exchange(back, queued)
  /\ cap_streaming' = TRUE

(* It fails before it has the buffers (even to read the format) or after,  *)
(* with the buffers in the driver or not; a plane that does not stream is  *)
(* left so.                                                                *)
AllocationFails(old, back) ==
  /\ MayFail
  /\ \/ /\ frame_size' \in {stream_size, NoResolution}
        /\ dma_buffer_fd' = {} /\ dma_buffers' = old
        /\ Exchange(back, {})
        /\ UNCHANGED allocs
     \/ /\ allocs < MaxAllocs
        /\ allocs' = allocs + 1
        /\ frame_size' = stream_size
        /\ dma_buffer_fd' = NewBuffers /\ dma_buffers' = old \cup NewBuffers
        /\ \E queued \in Queued(NewBuffers) : Exchange(back, queued)
  /\ cap_streaming' = (cap_streaming /\ ~back)

(* Defect: the buffers are destroyed while the plane streams.              *)
DeallocateStreaming ==
  /\ UNCHANGED <<cap_streaming, empty, filled, kept, undestroyed>>
  /\ dma_buffers' = dma_buffers \ dma_buffer_fd
  /\ dma_buffer_fd' = {}

(* DeallocateCaptureBuffers: the plane is taken back from the driver,      *)
(* frames included, and whether or not that worked the buffers are         *)
(* destroyed and forgotten, those included that could not be destroyed.    *)
DeallocateCaptureBuffers ==
  /\ \E back \in GivesBack :
       /\ Exchange(back, {}) /\ Keeps(back)
       /\ cap_streaming' = (cap_streaming /\ ~back)
  /\ \E left \in NotDestroyed(dma_buffer_fd) :
       /\ dma_buffers' = dma_buffers \ (dma_buffer_fd \ left)
       /\ GivesUp(left)
  /\ dma_buffer_fd' = {}

FirstLoop ==
  /\ Capturing("first", IF running THEN "first event" ELSE "loop")
  /\ UNCHANGED <<held, processed, capVars, bufferVars, events>>

FirstNoEvent ==
  /\ Capturing("first event", "first")
  /\ events = 0
  /\ UNCHANGED <<held, processed, capVars, bufferVars, events>>

(* dqEvent failed for another reason than its timeout.                     *)
FirstEventFails ==
  /\ Capturing("first event", "loop")
  /\ MayFail
  /\ UNCHANGED <<held, processed, capVars, bufferVars, events>>

FirstEvent ==
  /\ Capturing("first event", "loop")
  /\ events > 0
  /\ events' = events - 1
  /\ AllocateCaptureBuffers(dma_buffers, FALSE)
  /\ UNCHANGED <<held, processed, kept, undestroyed>>

(* What was allocated, if anything, is deallocated, and another event is   *)
(* waited for.                                                             *)
FirstAllocationFails ==
  /\ Capturing("first event", "first")
  /\ events > 0
  /\ events' = events - 1
  /\ MayFail
  /\ \/ /\ frame_size' \in {stream_size, NoResolution}
        /\ DeallocateCaptureBuffers
        /\ UNCHANGED allocs
     \/ /\ allocs < MaxAllocs
        /\ allocs' = allocs + 1
        /\ frame_size' = stream_size
        /\ \E back \in BOOLEAN, queued \in SUBSET NewBuffers :
             /\ Exchange(back, IF back THEN {} ELSE queued)
             /\ kept' = IF back THEN {} ELSE InCapture \cup queued
             /\ cap_streaming' = (cap_streaming /\ ~back)
        /\ \E left \in SUBSET NewBuffers :
             dma_buffers' = dma_buffers \cup left /\ GivesUp(left)
        /\ UNCHANGED dma_buffer_fd
  /\ UNCHANGED <<held, processed>>

CaptureLoop ==
  /\ Capturing("loop", IF running THEN "event" ELSE "ended")
  /\ UNCHANGED <<held, processed, capVars, bufferVars, events>>

(* Defect: a resolution change does not deallocate.                        *)
HandleResolutionChangeLeaks ==
  /\ Capturing("event", "loop")
  /\ events > 0
  /\ events' = events - 1
  /\ \E back \in GivesBack :
       /\ \/ AllocateCaptureBuffers(dma_buffers, back)
          \/ AllocationFails(dma_buffers, back)
       /\ Keeps(back)
  /\ UNCHANGED <<held, processed, undestroyed>>

(* Defect: a resolution change deallocates and does not allocate.          *)
HandleResolutionChangeStops ==
  /\ Capturing("event", "loop")
  /\ events > 0
  /\ events' = events - 1
  /\ DeallocateCaptureBuffers
  /\ UNCHANGED <<held, processed, allocs, frame_size>>

(* Streaming off, deallocation, allocation, none of which is looked at for *)
(* its result.                                                             *)
HandleResolutionChange ==
  /\ Capturing("event", "loop")
  /\ events > 0
  /\ events' = events - 1
  /\ \E back \in GivesBack, left \in NotDestroyed(dma_buffer_fd) :
       /\ LET old == dma_buffers \ (dma_buffer_fd \ left)
          IN  AllocateCaptureBuffers(old, back) \/ AllocationFails(old, back)
       /\ Keeps(back) /\ GivesUp(left)
  /\ UNCHANGED <<held, processed>>

NoEvent ==
  /\ Capturing("event", IF running THEN "dequeue" ELSE "ended")
  /\ events = 0 \/ MayFail
  /\ UNCHANGED <<held, processed, capVars, bufferVars, events>>

(* Defect: the buffer is given back before it is processed.                *)
DequeueCaptureShared ==
  /\ Capturing("dequeue", "process")
  /\ cap_streaming /\ filled # <<>>
  /\ held' = Head(filled)
  /\ filled' = Tail(filled)
  /\ empty' = empty \cup {Head(filled).fd}
  /\ UNCHANGED <<processed, cap_streaming, bufferVars, events>>

(* Defect: the newest frame first.                                         *)
DequeueCaptureNewest ==
  /\ Capturing("dequeue", "process")
  /\ cap_streaming /\ filled # <<>>
  /\ held' = filled[Len(filled)]
  /\ filled' = SubSeq(filled, 1, Len(filled) - 1)
  /\ UNCHANGED <<processed, empty, cap_streaming, bufferVars, events>>

DequeueCapture ==
  /\ Capturing("dequeue", "process")
  /\ cap_streaming /\ filled # <<>>
  /\ held' = Head(filled)
  /\ filled' = Tail(filled)
  /\ UNCHANGED <<processed, empty, cap_streaming, bufferVars, events>>

(* No frame within the 100 tries of dqBuffer, no streaming, or an error.   *)
DequeueCaptureFails ==
  /\ Capturing("dequeue", "loop")
  /\ filled = <<>> \/ MayFail
  /\ UNCHANGED <<held, processed, capVars, bufferVars, events>>

(* Defect: a frame is processed twice.                                     *)
ProcessTwice ==
  /\ Capturing("process", "requeue")
  /\ processed' = processed \o <<held.packet, held.packet>>
  /\ UNCHANGED <<held, capVars, bufferVars, events>>

Process ==
  /\ Capturing("process", "requeue")
  /\ processed' = Append(processed, held.packet)
  /\ UNCHANGED <<held, capVars, bufferVars, events>>

Requeue ==
  /\ Capturing("requeue", "loop")
  /\ empty' = empty \cup {held.fd}
  /\ held' = NoFrame
  /\ UNCHANGED <<processed, filled, cap_streaming, bufferVars, events>>

RequeueFails ==
  /\ Capturing("requeue", "loop")
  /\ MayFail
  /\ held' = NoFrame
  /\ UNCHANGED <<processed, capVars, bufferVars, events>>

CaptureThread ==
  \/ FirstLoop \/ FirstNoEvent \/ FirstEventFails \/ FirstEvent
  \/ FirstAllocationFails
  \/ CaptureLoop \/ HandleResolutionChange \/ NoEvent
  \/ DequeueCapture \/ DequeueCaptureFails \/ Process \/ Requeue \/ RequeueFails

-----------------------------------------------------------------------------
(* The V4L2 driver.                                                        *)

application == <<running, queue, abort_request, fed, decodeVars, captureVars,
                 bufferVars, ownerVars>>

HeadPacket(q) == Head(q).packet

(* The next packet is of another size than the driver decodes.             *)
DriverFindsSize ==
  /\ out_streaming /\ out_queue # <<>>
  /\ stream_size # Resolution(HeadPacket(out_queue))
  /\ stream_size' = Resolution(HeadPacket(out_queue))
  /\ events' = events + 1
  /\ UNCHANGED <<application, outVars, capVars>>

DriverConsumes ==
  /\ out_streaming /\ out_queue # <<>>
  /\ stream_size = Resolution(HeadPacket(out_queue))
  /\ out_queue' = Tail(out_queue)
  /\ out_done' = Append(out_done, Head(out_queue).buffer)
  /\ UNCHANGED <<application, out_buffers, out_streaming, out_error, driverVars>>

DriverParses ==
  /\ DriverConsumes
  /\ ~HasFrame(HeadPacket(out_queue))
  /\ UNCHANGED capVars

DriverDecodes ==
  /\ DriverConsumes
  /\ HasFrame(HeadPacket(out_queue))
  /\ cap_streaming /\ frame_size = stream_size
  /\ \E fd \in empty :
       /\ empty' = empty \ {fd}
       /\ filled' = Append(filled, [fd |-> fd, packet |-> HeadPacket(out_queue),
                                   size |-> stream_size])
  /\ UNCHANGED cap_streaming

Driver == DriverFindsSize \/ DriverParses \/ DriverDecodes

-----------------------------------------------------------------------------
(* The owner: one thread that makes one call at a time.                    *)

others == <<queue, abort_request, fed, captureVars, driverVars>>

(* Defect: the output plane is not switched on.                            *)
InitNotStreaming ==
  /\ owner = "new"
  /\ owner' = "idle"
  /\ out_buffers' \in OutBuffers
  /\ UNCHANGED <<running, others, decodeVars, out_queue, out_done, out_streaming,
                 out_error, capVars, bufferVars, processor, dying>>

(* Init.  What the calls on the output plane return is not looked at: any  *)
(* of them may fail, and leave it without buffers or not streaming.        *)
InitDecoder ==
  /\ owner = "new"
  /\ \/ /\ owner' = "idle"
        /\ out_streaming' = TRUE
        /\ out_buffers' \in OutBuffers
        /\ UNCHANGED out_error
     \/ /\ InitMayFail
        /\ owner' = "failed"
        /\ UNCHANGED <<out_buffers, out_streaming, out_error>>
     \/ /\ InitMayFail
        /\ owner' = "idle"
        /\ out_streaming' \in BOOLEAN
        /\ out_buffers' \in 0..NumOutput
        /\ out_error' = TRUE
  /\ UNCHANGED <<running, others, decodeVars, out_queue, out_done, capVars,
                 bufferVars, processor, dying>>

Start ==
  /\ owner = "idle" /\ ~running
  /\ running' = TRUE
  /\ decode_pc' = "loop" /\ packet' = NoPacket /\ index' = 0 /\ buffer' = NoBuffer
  /\ capture_pc' = "first"
  /\ UNCHANGED <<queue, abort_request, fed, outVars, held, processed, capVars,
                 bufferVars, driverVars, ownerVars>>

AfterStop(destructor) == IF destructor THEN "destroyed" ELSE "idle"

(* Stop, up to its first test; the destructor calls it too.                *)
Stop(destructor) ==
  /\ owner \in {"idle", "failed"}
  /\ dying' = destructor
  /\ owner' = IF running THEN "stopping" ELSE AfterStop(destructor)
  /\ UNCHANGED <<running, others, decodeVars, outVars, capVars, bufferVars,
                 processor>>

StopStore ==
  /\ owner = "stopping"
  /\ running' = FALSE
  /\ owner' = "join decode"
  /\ UNCHANGED <<others, decodeVars, outVars, capVars, bufferVars, processor,
                 dying>>

JoinDecode ==
  /\ owner = "join decode"
  /\ decode_pc = "ended"
  /\ decode_pc' = "none"
  /\ owner' = "join capture"
  /\ UNCHANGED <<running, others, packet, index, buffer, outVars, capVars,
                 bufferVars, processor, dying>>

(* Defect: detach instead of join.                                         *)
DetachCapture ==
  /\ owner = "join capture"
  /\ owner' = "release"
  /\ UNCHANGED <<running, others, decodeVars, outVars, capVars, bufferVars,
                 processor, dying>>

JoinCapture ==
  /\ owner = "join capture"
  /\ capture_pc = "ended"
  /\ capture_pc' = "none"
  /\ owner' = "release"
  /\ UNCHANGED <<running, queue, abort_request, fed, decodeVars, outVars, held,
                 processed, capVars, bufferVars, driverVars, processor, dying>>

(* The output plane gives its buffers back, unless it did not stream, or   *)
(* STREAMOFF fails, which nobody looks at.                                 *)
StopOutput ==
  \/ /\ out_streaming
     /\ out_queue' = <<>> /\ out_done' = <<>> /\ out_streaming' = FALSE
     /\ UNCHANGED out_error
  \/ /\ ~out_streaming
     /\ UNCHANGED <<out_queue, out_done, out_streaming, out_error>>
  \/ /\ out_streaming /\ MayFail
     /\ out_error' = TRUE
     /\ UNCHANGED <<out_queue, out_done, out_streaming>>

Release ==
  /\ owner = "release"
  /\ StopOutput
  /\ DeallocateCaptureBuffers
  /\ processor' = "deinit"
  /\ owner' = AfterStop(dying)
  /\ UNCHANGED <<running, others, decodeVars, out_buffers, allocs, frame_size,
                 dying>>

StopSteps == StopStore \/ JoinDecode \/ JoinCapture \/ Release

Owner ==
  \/ InitDecoder \/ Start \/ Stop(FALSE) \/ Stop(TRUE) \/ StopSteps

-----------------------------------------------------------------------------
(* The demuxer, as the decoder sees it: it pushes packets, and its Stop    *)
(* aborts the queue.                                                       *)

decoder == <<running, decodeVars, outVars, captureVars, capVars, bufferVars,
             driverVars, ownerVars>>

Fed == {fed[i] : i \in DOMAIN fed}

Feed ==
  /\ ~abort_request /\ Len(queue) < MaxSize
  /\ \E p \in Packets \ Fed :
       /\ queue' = Append(queue, p)
       /\ fed' = Append(fed, p)
  /\ UNCHANGED <<abort_request, decoder>>

AbortQueue ==
  /\ ~abort_request
  /\ abort_request' = TRUE
  /\ UNCHANGED <<queue, fed, decoder>>

Next ==
  DecodeThread \/ CaptureThread \/ Driver \/ Owner \/ Feed \/ AbortQueue

SafeSpec == Init /\ [][Next]_vars

(* The threads are scheduled, the driver works, and a call the owner has   *)
(* begun goes on.  While the owner is in Stop() another thread aborts the  *)
(* queue; otherwise nothing makes the demuxer or the owner act.            *)
Fairness ==
  /\ WF_vars(DecodeThread) /\ WF_vars(CaptureThread)
  /\ WF_vars(Driver)
  /\ WF_vars(StopSteps)
  /\ WF_vars(AbortQueue /\ owner = "join decode")

Spec == SafeSpec /\ Fairness

-----------------------------------------------------------------------------
(* Properties.                                                             *)

Positions(seq, x) == {i \in DOMAIN seq : seq[i] = x}

(* While the output plane streams, the decode thread never writes into a   *)
(* buffer of it that the driver has, the driver has no buffer twice, and   *)
(* no buffer the running thread has begun to use is lost (RejectPacket and *)
(* QueueOutputFails lose one each: this holds without them only).  After a *)
(* Stop() the plane does not stream: Start() does not switch it on again,  *)
(* and what a thread started then queues is never decoded.                 *)
OutputOwnedOnce ==
  \A b \in OutBuffers :
    LET owners == Cardinality({i \in DOMAIN out_queue : out_queue[i].buffer = b})
                    + Cardinality(Positions(out_done, b))
                    + (IF buffer = b THEN 1 ELSE 0)
    IN  out_streaming =>
          /\ owners <= 1
          /\ decode_pc # "none" /\ b <= index => owners = 1

(* A buffer of the capture plane is either the driver's or the capture     *)
(* thread's, and exists: no resolution change, no failing allocation and   *)
(* no Stop() destroys a buffer that the driver or the thread has, but      *)
(* those the driver was asked for and did not give back.                   *)
CaptureNotShared ==
  LET done == {filled[i].fd : i \in DOMAIN filled}
      mine == IF held = NoFrame THEN {} ELSE {held.fd}
  IN  /\ Cardinality(done) = Len(filled)
      /\ done \cap empty = {} /\ mine \cap (empty \cup done) = {}
      /\ (empty \cup done \cup mine) \ kept \subseteq dma_buffers

(* The width and height that FrameInfo announces are those of the frame,   *)
(* whenever the resolution changes while frames are under way; a frame in  *)
(* a buffer the driver did not give back at a change is excepted.          *)
FramesHaveFrameSize ==
  /\ held # NoFrame => held.size = frame_size \/ held.fd \in kept
  /\ \A i \in DOMAIN filled :
       filled[i].size = frame_size \/ filled[i].fd \in kept

(* Frames reach the processor in the order of their packets, none twice.   *)
InOrder ==
  \A i, j \in DOMAIN processed : i < j =>
    \E m, n \in DOMAIN fed :
      m < n /\ fed[m] = processed[i] /\ fed[n] = processed[j]

(* No DMA buffer is just forgotten: those that exist are known to the      *)
(* object, or a destroy was tried on them and failed; a destroyed decoder  *)
(* has tried it on all of them.                                            *)
NoBufferLeak ==
  /\ dma_buffers = dma_buffer_fd \cup undestroyed
  /\ owner = "destroyed" => dma_buffers \subseteq undestroyed

(* processor_ is not called after its Deinit(): Deinit comes after the     *)
(* capture thread, and a thread started again gets no frame, unless one of *)
(* the planes could not be stopped.                                        *)
ProcessWhileReady ==
  [][processed' # processed =>
       processor = "ready" \/ out_streaming \/ held.fd \in kept]_vars

Waiting(p) == \E i \in DOMAIN out_queue : out_queue[i].packet = p

(* While the decoder runs, what it feeds to the driver is decoded: every   *)
(* resolution change the driver waits for is handled, and capture buffers  *)
(* keep coming back to it.                                                 *)
EventuallyDecoded ==
  \A p \in Packets : Waiting(p) /\ out_streaming ~> ~Waiting(p) \/ ~running

(* Stop() returns, if the queue is aborted while it waits.  One thing can  *)
(* hold it: dqBuffer(-1), which does not look at running_, while the       *)
(* driver has no output buffer to give back since the capture thread, the  *)
(* first to see that running_ is false, no longer serves it.               *)
StarvedOfOutput ==
  /\ decode_pc = "buffer" /\ index = out_buffers /\ out_done = <<>>
  /\ capture_pc = "ended"

StopCompletesOrStarves ==
  owner = "stopping" ~> owner \in {"idle", "destroyed"} \/ []StarvedOfOutput
=============================================================================
