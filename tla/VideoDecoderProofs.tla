------------------------- MODULE VideoDecoderProofs -------------------------
(* Theorems about VideoDecoder, for any packets, sizes, numbers of buffers *)
(* and bounds, with calls that fail or not.                                *)
EXTENDS VideoDecoder, FiniteSetTheorems, FunctionTheorems, TLAPS

-----------------------------------------------------------------------------
(* Where the three threads are.                                            *)

Places ==
  /\ decode_pc \in {"none", "loop", "pop", "buffer", "fill", "ended"}
  /\ capture_pc \in {"none", "first", "first event", "loop", "event", "dequeue",
                     "process", "requeue", "ended"}
  /\ owner \in {"new", "failed", "idle", "stopping", "join decode",
                "join capture", "release", "destroyed"}
  /\ processor \in {"ready", "deinit"}

Flags ==
  /\ running \in BOOLEAN /\ abort_request \in BOOLEAN /\ out_streaming \in BOOLEAN
  /\ out_error \in BOOLEAN /\ cap_streaming \in BOOLEAN /\ dying \in BOOLEAN

Stopped == owner = "idle" /\ ~running

(* The threads exist from Start until Stop has joined them.                *)
Threads ==
  /\ running => owner \in {"idle", "stopping"}
  /\ owner = "stopping" => running
  /\ Stopped \/ owner \in {"new", "failed", "release", "destroyed"}
       => decode_pc = "none" /\ capture_pc = "none"
  /\ owner = "join capture" => decode_pc = "none"

ControlInv == Places /\ Flags /\ Threads

LEMMA ControlInit == Init => ControlInv
  BY DEF Init, ControlInv, Places, Flags, Threads, Stopped

LEMMA ControlStep == ControlInv /\ [Next]_vars => ControlInv'
<1> SUFFICES ASSUME ControlInv, [Next]_vars PROVE ControlInv'
  OBVIOUS
<1> USE DecoderAssumption DEF ControlInv, decodeVars, outVars, captureVars, capVars,
      bufferVars, driverVars, ownerVars
<1>1. CASE DecodeThread
  <2> USE <1>1 DEF DecodeThread, DecodeLoop, Pop, PopRefused, NthBuffer, DequeueOutput,
          DequeueOutputFails, RejectPacket, QueueOutput, QueueOutputFails, Decoding
  <2>1. /\ decode_pc # "none"
        /\ decode_pc' \in {"loop", "pop", "buffer", "fill", "ended"}
        /\ UNCHANGED <<running, owner, capture_pc, processor>>
    OBVIOUS
  <2>2. Flags'
    BY DEF Flags
  <2>3. Places' /\ Threads'
    BY ONLY ControlInv, <2>1 DEF Places, Threads, Stopped, ControlInv
  <2> QED BY <2>2, <2>3
<1>2. CASE CaptureThread
  <2> USE <1>2 DEF CaptureThread, FirstLoop, FirstNoEvent, FirstEventFails, FirstEvent,
          FirstAllocationFails, CaptureLoop, HandleResolutionChange, NoEvent,
          DequeueCapture, DequeueCaptureFails, Process, Requeue, RequeueFails,
          Capturing
  <2>1. /\ capture_pc # "none"
        /\ capture_pc' \in {"first", "first event", "loop", "event", "dequeue",
                            "process", "requeue", "ended"}
        /\ UNCHANGED <<running, owner, decode_pc, processor>>
    OBVIOUS
  <2>2. cap_streaming' \in BOOLEAN
    BY DEF Flags, AllocateCaptureBuffers, AllocationFails, DeallocateCaptureBuffers
  <2>3. Flags'
    BY <2>2 DEF Flags
  <2>4. Places' /\ Threads'
    BY ONLY ControlInv, <2>1 DEF Places, Threads, Stopped, ControlInv
  <2> QED BY <2>3, <2>4
<1>3. CASE Owner
  <2> USE <1>3 DEF Owner, InitDecoder, Start, Stop, StopSteps, StopStore, JoinDecode,
          JoinCapture, Release, AfterStop, StopOutput, DeallocateCaptureBuffers,
          others
  <2>1. UNCHANGED decode_pc \/ decode_pc' \in {"none", "loop"}
    OBVIOUS
  <2>2. UNCHANGED capture_pc \/ capture_pc' \in {"none", "first"}
    OBVIOUS
  <2>3. owner' \in {"new", "failed", "idle", "stopping", "join decode",
                    "join capture", "release", "destroyed"}
    BY DEF Places
  <2>4. UNCHANGED processor \/ processor' = "deinit"
    OBVIOUS
  <2>5. Flags'
    BY DEF Flags
  <2>6. Threads'
    <3>1. CASE InitDecoder
      BY ONLY ControlInv, <3>1 DEF InitDecoder, ControlInv, Threads, Stopped, others,
         decodeVars, captureVars
    <3>2. CASE Start
      BY ONLY ControlInv, <3>2 DEF Start, ControlInv, Threads, Stopped, ownerVars
    <3>3. CASE Stop(FALSE) \/ Stop(TRUE)
      <4>1. /\ owner \in {"idle", "failed"}
            /\ owner' \in IF running THEN {"stopping"} ELSE {"idle", "destroyed"}
            /\ UNCHANGED <<running, decode_pc, capture_pc>>
        BY ONLY <3>3 DEF Stop, AfterStop, others, decodeVars, captureVars
      <4> QED BY ONLY ControlInv, <4>1 DEF ControlInv, Threads, Stopped
    <3>4. CASE StopStore
      BY ONLY <3>4 DEF StopStore, Threads, Stopped
    <3>5. CASE JoinDecode
      <4>1. /\ owner = "join decode" /\ owner' = "join capture"
            /\ decode_pc' = "none" /\ UNCHANGED running
        BY ONLY <3>5 DEF JoinDecode
      <4>2. running \in BOOLEAN /\ ~running
        BY ONLY ControlInv, <4>1 DEF ControlInv, Threads, Flags
      <4> QED BY ONLY <4>1, <4>2 DEF Threads, Stopped
    <3>6. CASE JoinCapture
      <4>1. /\ owner = "join capture" /\ owner' = "release" /\ capture_pc' = "none"
            /\ UNCHANGED <<running, decode_pc>>
        BY ONLY <3>6 DEF JoinCapture, decodeVars
      <4> QED BY ONLY ControlInv, <4>1 DEF ControlInv, Threads, Stopped
    <3>7. CASE Release
      <4>1. /\ owner = "release" /\ owner' \in {"idle", "destroyed"}
            /\ UNCHANGED <<running, decode_pc, capture_pc>>
        BY ONLY <3>7 DEF Release, AfterStop, others, decodeVars, captureVars
      <4> QED BY ONLY ControlInv, <4>1 DEF ControlInv, Threads, Stopped
    <3> QED BY <3>1, <3>2, <3>3, <3>4, <3>5, <3>6, <3>7
  <2> QED BY <2>1, <2>2, <2>3, <2>4, <2>5, <2>6 DEF Places
<1>4. CASE Driver \/ Feed \/ AbortQueue \/ UNCHANGED vars
  <2> USE <1>4 DEF Driver, DriverFindsSize, DriverConsumes, DriverParses, DriverDecodes,
          Feed, AbortQueue, application, decoder, vars
  <2>1. UNCHANGED <<running, owner, decode_pc, capture_pc, processor>>
    OBVIOUS
  <2>2. Flags'
    BY DEF Flags
  <2>3. Places' /\ Threads'
    BY ONLY ControlInv, <2>1 DEF Places, Threads, Stopped, ControlInv
  <2> QED BY <2>2, <2>3
<1> QED BY <1>1, <1>2, <1>3, <1>4 DEF Next

LEMMA Control == SafeSpec => []ControlInv
  BY ControlInit, ControlStep, PTL DEF SafeSpec
-----------------------------------------------------------------------------
(* What the threads and the driver hold.                                   *)

OutEntry == [buffer : OutBuffers, packet : Packets]

Decoded ==
  /\ queue \in Seq(Packets) /\ fed \in Seq(Packets)
  /\ packet \in Packets \cup {NoPacket}
  /\ decode_pc \in {"buffer", "fill"} => packet \in Packets
  /\ buffer \in OutBuffers \cup {NoBuffer}
  /\ decode_pc = "fill" => buffer \in OutBuffers

OutPlane == out_queue \in Seq(OutEntry) /\ out_done \in Seq(OutBuffers)

Counters ==
  /\ index \in Nat /\ out_buffers \in Nat
  /\ index <= out_buffers /\ out_buffers <= NumOutput
  /\ owner = "new" => decode_pc = "none" /\ index = 0
  /\ events \in Nat

Captured ==
  /\ held \in Frames \cup {NoFrame}
  /\ held # NoFrame <=> capture_pc \in {"process", "requeue"}
  /\ processed \in Seq(Packets)

CapPlane ==
  /\ empty \subseteq Fds /\ filled \in Seq(Frames)
  /\ dma_buffer_fd \subseteq Fds /\ dma_buffers \subseteq Fds
  /\ undestroyed \subseteq Fds /\ kept \subseteq Fds
  /\ allocs \in Nat /\ allocs <= MaxAllocs

Sizes ==
  /\ stream_size \in Resolutions \cup {NoResolution}
  /\ frame_size \in Resolutions \cup {NoResolution}

DataInv == Decoded /\ OutPlane /\ Counters /\ Captured /\ CapPlane /\ Sizes

LEMMA HeadTail ==
  ASSUME NEW S, NEW s \in Seq(S), s # <<>>
  PROVE  Head(s) \in S /\ Tail(s) \in Seq(S)
  OBVIOUS

LEMMA Appended ==
  ASSUME NEW S, NEW s \in Seq(S), NEW e \in S
  PROVE  Append(s, e) \in Seq(S)
  OBVIOUS

LEMMA NewBuffersTyped ==
  ASSUME CapPlane, allocs < MaxAllocs
  PROVE  NewBuffers \subseteq Fds /\ allocs + 1 \in Nat /\ allocs + 1 <= MaxAllocs
<1>1. allocs + 1 \in 1..MaxAllocs
  BY DecoderAssumption DEF CapPlane
<1> QED BY <1>1 DEF NewBuffers, Fds

LEMMA FrameNotNone == NoFrame \notin Frames
  BY DecoderAssumption DEF NoFrame

LEMMA DataInit == Init => DataInv
<1> SUFFICES ASSUME Init PROVE DataInv
  OBVIOUS
<1> USE DecoderAssumption DEF Init
<1>1. Decoded /\ OutPlane
  BY DEF Decoded, OutPlane
<1>2. Counters /\ Sizes
  BY DEF Counters, Sizes
<1>3. Captured /\ CapPlane
  BY DEF Captured, CapPlane
<1> QED BY <1>1, <1>2, <1>3 DEF DataInv

LEMMA DataDecode == DataInv /\ DecodeThread => DataInv'
<1> SUFFICES ASSUME DataInv, DecodeThread PROVE DataInv'
  OBVIOUS
<1> USE DecoderAssumption DEF DataInv, Decoding, captureVars, capVars, bufferVars,
      driverVars, ownerVars
<1>1. Captured' /\ CapPlane' /\ Sizes'
  <2>1. /\ UNCHANGED <<captureVars, capVars, bufferVars, driverVars>>
    BY DEF DecodeThread, DecodeLoop, Pop, PopRefused, NthBuffer, DequeueOutput,
       DequeueOutputFails, RejectPacket, QueueOutput, QueueOutputFails
  <2> QED BY <2>1 DEF Captured, CapPlane, Sizes
<1>2. CASE DecodeLoop \/ PopRefused \/ DequeueOutputFails
  BY <1>1, <1>2 DEF DecodeLoop, PopRefused, DequeueOutputFails, Decoded, OutPlane,
     Counters, outVars
<1>3. CASE Pop
  <2>1. Head(queue) \in Packets /\ Tail(queue) \in Seq(Packets)
    BY <1>3, HeadTail DEF Pop, Decoded
  <2> QED BY <1>1, <1>3, <2>1 DEF Pop, Decoded, OutPlane, Counters, outVars
<1>4. CASE NthBuffer
  <2>1. index' = index + 1 /\ index' \in Nat /\ index' <= out_buffers
        /\ buffer' = index' /\ UNCHANGED outVars /\ decode_pc = "buffer"
    BY <1>4 DEF NthBuffer, Counters
  <2>2. buffer' \in OutBuffers
    BY <2>1 DEF OutBuffers, Counters
  <2>3. Decoded'
    BY <1>4, <2>2 DEF NthBuffer, Decoded
  <2>4. Counters'
    BY <1>4, <2>1 DEF NthBuffer, Counters, outVars
  <2> QED BY <1>1, <2>1, <2>3, <2>4 DEF OutPlane, outVars
<1>5. CASE DequeueOutput
  <2>1. Head(out_done) \in OutBuffers /\ Tail(out_done) \in Seq(OutBuffers)
    BY <1>5, HeadTail DEF DequeueOutput, OutPlane
  <2> QED BY <1>1, <1>5, <2>1 DEF DequeueOutput, Decoded, OutPlane, Counters
<1>6. CASE RejectPacket \/ QueueOutputFails
  BY <1>1, <1>6 DEF RejectPacket, QueueOutputFails, Decoded, OutPlane, Counters, outVars
<1>7. CASE QueueOutput
  <2>1. [buffer |-> buffer, packet |-> packet] \in OutEntry
    BY <1>7 DEF QueueOutput, Decoded, OutEntry
  <2>2. out_queue' \in Seq(OutEntry)
    BY <1>7, <2>1, Appended DEF QueueOutput, OutPlane
  <2> QED BY <1>1, <1>7, <2>2 DEF QueueOutput, Decoded, OutPlane, Counters
<1> QED BY <1>2, <1>3, <1>4, <1>5, <1>6, <1>7 DEF DecodeThread

LEMMA InCaptureTyped == CapPlane => InCapture \subseteq Fds
<1> SUFFICES ASSUME CapPlane PROVE InCapture \subseteq Fds
  OBVIOUS
<1>1. \A i \in DOMAIN filled : filled[i] \in Frames
  BY DEF CapPlane
<1>2. \A frame \in Frames : frame.fd \in Fds
  BY DEF Frames
<1> QED BY <1>1, <1>2 DEF CapPlane, InCapture

(* What the driver has after it has been asked for its buffers.            *)
LEMMA ExchangeTyped ==
  ASSUME CapPlane, NEW back, NEW fresh, fresh \subseteq Fds, Exchange(back, fresh)
  PROVE  empty' \subseteq Fds /\ filled' \in Seq(Frames) /\ InCapture \subseteq Fds
<1>1. filled' \in {filled, <<>>} /\ empty' \subseteq Fds
  BY DEF Exchange, CapPlane
<1>2. InCapture \subseteq Fds
  BY InCaptureTyped
<1>3. <<>> \in Seq(Frames)
  OBVIOUS
<1> QED BY <1>1, <1>2, <1>3, Zenon DEF CapPlane

(* An allocation, whether it succeeds or fails.                            *)
LEMMA AllocationTyped ==
  ASSUME CapPlane, Sizes, NEW old, old \subseteq Fds, NEW back, UNCHANGED stream_size,
         undestroyed' \subseteq Fds, UNCHANGED kept \/ Keeps(back),
         AllocateCaptureBuffers(old, back) \/ AllocationFails(old, back)
  PROVE  CapPlane' /\ Sizes'
<1>1. CASE UNCHANGED allocs /\ AllocationFails(old, back)
  <2>1. Exchange(back, {})
    BY <1>1 DEF AllocationFails, CapPlane
  <2>2. empty' \subseteq Fds /\ filled' \in Seq(Frames) /\ InCapture \subseteq Fds
    BY <2>1, ExchangeTyped
  <2> QED BY <1>1, <2>2 DEF AllocationFails, CapPlane, Sizes, Keeps
<1>2. CASE allocs < MaxAllocs /\ allocs' = allocs + 1
  <2>1. /\ NewBuffers \subseteq Fds /\ allocs' \in Nat /\ allocs' <= MaxAllocs
    BY <1>2, NewBuffersTyped
  <2>2. dma_buffer_fd' \subseteq Fds /\ dma_buffers' \subseteq Fds
    BY <1>2, <2>1 DEF AllocateCaptureBuffers, AllocationFails, CapPlane
  <2>3. PICK queued \in SUBSET NewBuffers : Exchange(back, queued)
    BY <1>2 DEF AllocateCaptureBuffers, AllocationFails, Queued, CapPlane
  <2>4. empty' \subseteq Fds /\ filled' \in Seq(Frames) /\ InCapture \subseteq Fds
    BY <2>1, <2>3, ExchangeTyped
  <2>5. Sizes'
    BY DEF AllocateCaptureBuffers, AllocationFails, Sizes
  <2> QED BY <2>1, <2>2, <2>4, <2>5 DEF CapPlane, Keeps
<1> QED BY <1>1, <1>2 DEF AllocateCaptureBuffers, AllocationFails

LEMMA DeallocationTyped ==
  ASSUME CapPlane, DeallocateCaptureBuffers, UNCHANGED allocs
  PROVE  CapPlane'
<1>1. PICK back : Exchange(back, {}) /\ Keeps(back)
  BY DEF DeallocateCaptureBuffers
<1>2. PICK left \in SUBSET dma_buffer_fd :
        /\ dma_buffers' = dma_buffers \ (dma_buffer_fd \ left)
        /\ undestroyed' = undestroyed \cup left
  BY DEF DeallocateCaptureBuffers, NotDestroyed, GivesUp
<1>3. empty' \subseteq Fds /\ filled' \in Seq(Frames) /\ InCapture \subseteq Fds
  BY <1>1, ExchangeTyped
<1> QED BY <1>1, <1>2, <1>3 DEF CapPlane, Keeps, DeallocateCaptureBuffers

(* The first allocation fails, and what it allocated is deallocated.       *)
LEMMA FirstFailureTyped ==
  ASSUME CapPlane, Sizes, UNCHANGED stream_size, FirstAllocationFails
  PROVE  CapPlane' /\ Sizes'
<1>1. Sizes'
  BY DEF FirstAllocationFails, Sizes
<1>2. CASE UNCHANGED allocs /\ DeallocateCaptureBuffers
  BY <1>1, <1>2, DeallocationTyped
<1>3. CASE allocs < MaxAllocs /\ allocs' = allocs + 1
  <2>1. /\ NewBuffers \subseteq Fds /\ allocs' \in Nat /\ allocs' <= MaxAllocs
    BY <1>3, NewBuffersTyped
  <2>2. allocs' # allocs
    BY <1>3 DEF CapPlane
  <2>3. PICK back \in BOOLEAN, queued \in SUBSET NewBuffers :
          /\ Exchange(back, IF back THEN {} ELSE queued)
          /\ kept' = IF back THEN {} ELSE InCapture \cup queued
    BY <2>2, Zenon DEF FirstAllocationFails
  <2>4. PICK left \in SUBSET NewBuffers :
          /\ dma_buffers' = dma_buffers \cup left
          /\ undestroyed' = undestroyed \cup left
          /\ UNCHANGED dma_buffer_fd
    BY <2>2, Zenon DEF FirstAllocationFails, GivesUp
  <2>5. empty' \subseteq Fds /\ filled' \in Seq(Frames) /\ InCapture \subseteq Fds
    BY <2>1, <2>3, ExchangeTyped
  <2> QED BY <1>1, <2>1, <2>3, <2>4, <2>5 DEF CapPlane
<1> QED BY <1>2, <1>3 DEF FirstAllocationFails

LEMMA DataCapture == DataInv /\ CaptureThread => DataInv'
<1> SUFFICES ASSUME DataInv, CaptureThread PROVE DataInv'
  OBVIOUS
<1> USE DecoderAssumption DEF DataInv, Capturing, capVars, bufferVars
<1>1. /\ UNCHANGED <<queue, fed, decodeVars, outVars, stream_size, owner>>
  BY DEF CaptureThread, FirstLoop, FirstNoEvent, FirstEventFails, FirstEvent,
     FirstAllocationFails, CaptureLoop, HandleResolutionChange, NoEvent,
     DequeueCapture, DequeueCaptureFails, Process, Requeue, RequeueFails, ownerVars
<1>2. events' \in Nat
  <2>1. UNCHANGED events \/ (events > 0 /\ events' = events - 1)
    BY DEF CaptureThread, FirstLoop, FirstNoEvent, FirstEventFails, FirstEvent,
       FirstAllocationFails, CaptureLoop, HandleResolutionChange, NoEvent,
       DequeueCapture, DequeueCaptureFails, Process, Requeue, RequeueFails
  <2>2. events \in Nat
    BY DEF Counters
  <2> QED BY ONLY <2>1, <2>2
<1>3. Decoded' /\ OutPlane' /\ Counters'
  BY <1>1, <1>2 DEF Decoded, OutPlane, Counters, decodeVars, outVars
<1>4. CASE \/ FirstLoop \/ FirstNoEvent \/ FirstEventFails
           \/ CaptureLoop \/ NoEvent \/ DequeueCaptureFails
  <2>1. CapPlane' /\ Sizes'
    BY <1>1, <1>4 DEF FirstLoop, FirstNoEvent, FirstEventFails,
       CaptureLoop, NoEvent, DequeueCaptureFails, CapPlane, Sizes
  <2>2. Captured'
    BY <1>4 DEF FirstLoop, FirstNoEvent, FirstEventFails,
       CaptureLoop, NoEvent, DequeueCaptureFails, Captured
  <2> QED BY <1>3, <2>1, <2>2
<1>5. CASE FirstEvent \/ HandleResolutionChange
  <2>1. Captured'
    BY <1>5 DEF FirstEvent, HandleResolutionChange, Captured
  <2>2. PICK old, back :
          /\ old \subseteq dma_buffers
          /\ AllocateCaptureBuffers(old, back) \/ AllocationFails(old, back)
          /\ UNCHANGED kept \/ Keeps(back)
    BY <1>5 DEF FirstEvent, HandleResolutionChange
  <2>3. old \subseteq Fds
    BY <2>2 DEF CapPlane
  <2>4. undestroyed' \subseteq Fds
    BY <1>5 DEF FirstEvent, HandleResolutionChange, NotDestroyed, GivesUp, CapPlane
  <2>5. CapPlane' /\ Sizes'
    BY <1>1, <2>2, <2>3, <2>4, AllocationTyped
  <2> QED BY <1>3, <2>1, <2>5
<1>6. CASE DequeueCapture
  <2>1. Head(filled) \in Frames /\ Tail(filled) \in Seq(Frames)
    BY <1>6, HeadTail DEF DequeueCapture, CapPlane
  <2>2. Captured'
    BY <1>6, <2>1, FrameNotNone DEF DequeueCapture, Captured
  <2>3. CapPlane' /\ Sizes'
    BY <1>1, <1>6, <2>1 DEF DequeueCapture, CapPlane, Sizes
  <2> QED BY <1>3, <2>2, <2>3
<1>7. CASE Process
  <2>1. held.packet \in Packets
    BY <1>7 DEF Process, Captured, Frames
  <2>2. Captured'
    BY <1>7, <2>1, Appended DEF Process, Captured
  <2>3. CapPlane' /\ Sizes'
    BY <1>1, <1>7 DEF Process, CapPlane, Sizes
  <2> QED BY <1>3, <2>2, <2>3
<1>8. CASE Requeue \/ RequeueFails
  <2>1. held.fd \in Fds
    BY <1>8 DEF Requeue, RequeueFails, Captured, Frames
  <2>2. Captured'
    BY <1>8 DEF Requeue, RequeueFails, Captured
  <2>3. CapPlane' /\ Sizes'
    BY <1>1, <1>8, <2>1 DEF Requeue, RequeueFails, CapPlane, Sizes
  <2> QED BY <1>3, <2>2, <2>3
<1>9. CASE FirstAllocationFails
  <2>1. Captured'
    BY <1>9 DEF FirstAllocationFails, Captured
  <2> QED BY <1>1, <1>3, <1>9, <2>1, FirstFailureTyped
<1> QED BY <1>4, <1>5, <1>6, <1>7, <1>8, <1>9 DEF CaptureThread

(* The frame the driver makes of the first packet of the output plane.     *)
LEMMA HeadDecoded ==
  ASSUME DataInv, out_queue # <<>>
  PROVE  /\ HeadPacket(out_queue) \in Packets /\ Head(out_queue).buffer \in OutBuffers
         /\ Tail(out_queue) \in Seq(OutEntry)
         /\ Resolution(HeadPacket(out_queue)) \in Resolutions
<1>1. Head(out_queue) \in OutEntry /\ Tail(out_queue) \in Seq(OutEntry)
  BY HeadTail DEF DataInv, OutPlane
<1> QED BY <1>1, DecoderAssumption DEF HeadPacket, OutEntry

LEMMA DataDriver == DataInv /\ Driver => DataInv'
<1> SUFFICES ASSUME DataInv, Driver PROVE DataInv'
  OBVIOUS
<1> USE DecoderAssumption DEF application, decodeVars, captureVars, ownerVars
<1>1. out_queue # <<>>
  BY DEF Driver, DriverFindsSize, DriverConsumes, DriverParses, DriverDecodes
<1>2. /\ HeadPacket(out_queue) \in Packets /\ Head(out_queue).buffer \in OutBuffers
      /\ Tail(out_queue) \in Seq(OutEntry)
      /\ Resolution(HeadPacket(out_queue)) \in Resolutions
  BY <1>1, HeadDecoded
<1> USE DEF DataInv
<1>3. Decoded' /\ Captured'
  BY DEF Driver, DriverFindsSize, DriverConsumes, DriverParses, DriverDecodes,
     Decoded, Captured
<1>4. CASE DriverFindsSize
  BY <1>2, <1>3, <1>4 DEF DriverFindsSize, OutPlane, Counters, CapPlane, Sizes,
     outVars, capVars, bufferVars
<1>5. CASE DriverConsumes /\ (UNCHANGED capVars \/ DriverDecodes)
  <2>1. Append(out_done, Head(out_queue).buffer) \in Seq(OutBuffers)
    BY <1>2, Appended DEF OutPlane
  <2>2. OutPlane' /\ Counters' /\ Sizes'
    BY <1>2, <1>5, <2>1 DEF DriverConsumes, OutPlane, Counters, Sizes, bufferVars,
       driverVars
  <2>3. CapPlane'
    <3>1. CASE UNCHANGED capVars
      BY <1>5, <3>1 DEF DriverConsumes, CapPlane, capVars, bufferVars
    <3>2. CASE DriverDecodes
      <4>1. PICK fd \in empty :
              /\ empty' = empty \ {fd}
              /\ filled' = Append(filled, [fd |-> fd, packet |-> HeadPacket(out_queue),
                                          size |-> stream_size])
        BY <3>2 DEF DriverDecodes
      <4>2. stream_size \in Resolutions
        BY <1>2, <1>5 DEF DriverConsumes
      <4>3. [fd |-> fd, packet |-> HeadPacket(out_queue), size |-> stream_size] \in Frames
        BY <1>2, <4>2 DEF CapPlane, Frames
      <4>4. filled' \in Seq(Frames)
        BY <4>1, <4>3, Appended DEF CapPlane
      <4> QED BY <1>5, <4>1, <4>4 DEF DriverConsumes, CapPlane, bufferVars
    <3> QED BY <1>5, <3>1, <3>2
  <2> QED BY <1>3, <2>2, <2>3
<1> QED BY <1>4, <1>5 DEF Driver, DriverParses, DriverDecodes
LEMMA DataOwner == DataInv /\ ControlInv /\ Owner => DataInv'
<1> SUFFICES ASSUME DataInv, ControlInv, Owner PROVE DataInv'
  OBVIOUS
<1> USE DecoderAssumption DEF DataInv, others, decodeVars, outVars, capVars,
      bufferVars, driverVars, captureVars
<1>1. Sizes'
  BY DEF Owner, InitDecoder, Start, Stop, StopSteps, StopStore, JoinDecode, JoinCapture,
     Release, Sizes
<1>2. CASE InitDecoder
  <2>1. Decoded' /\ OutPlane' /\ Captured' /\ CapPlane'
    BY <1>2 DEF InitDecoder, Decoded, OutPlane, Captured, CapPlane
  <2>2. out_buffers' \in 0..NumOutput \/ UNCHANGED out_buffers
    BY <1>2 DEF InitDecoder, OutBuffers
  <2>3. index = 0 /\ UNCHANGED <<index, events>> /\ owner' # "new"
    BY <1>2 DEF InitDecoder, Counters
  <2>4. Counters'
    BY <2>2, <2>3 DEF Counters
  <2> QED BY <1>1, <2>1, <2>4
<1>3. CASE Start
  <2>1. Decoded'
    BY <1>3 DEF Start, Decoded
  <2>2. OutPlane' /\ CapPlane'
    BY <1>3 DEF Start, OutPlane, CapPlane
  <2>3. Counters'
    BY <1>3 DEF Start, Counters, ownerVars
  <2>4. Captured'
    <3>1. capture_pc = "none"
      BY <1>3 DEF Start, ControlInv, Threads, Stopped
    <3> QED BY <1>3, <3>1 DEF Start, Captured
  <2> QED BY <1>1, <2>1, <2>2, <2>3, <2>4
<1>4. CASE Stop(FALSE) \/ Stop(TRUE) \/ StopStore
  <2>1. owner' # "new"
    BY <1>4 DEF Stop, StopStore, AfterStop
  <2> QED BY <1>1, <1>4, <2>1 DEF Stop, StopStore, Decoded, OutPlane, Captured, CapPlane,
      Counters
<1>5. CASE JoinDecode \/ JoinCapture
  BY <1>1, <1>5 DEF JoinDecode, JoinCapture, Decoded, OutPlane, Captured, CapPlane, Counters
<1>6. CASE Release
  <2>1. /\ owner' # "new"
        /\ out_queue' \in {out_queue, <<>>} /\ out_done' \in {out_done, <<>>}
    BY <1>6 DEF Release, AfterStop, StopOutput
  <2>2. OutPlane'
    <3>1. <<>> \in Seq(OutEntry) /\ <<>> \in Seq(OutBuffers)
      OBVIOUS
    <3> QED BY <2>1, <3>1, Zenon DEF OutPlane
  <2>3. CapPlane'
    BY <1>6, DeallocationTyped DEF Release
  <2>4. Decoded' /\ Captured' /\ Counters'
    BY <1>6, <2>1 DEF Release, Decoded, Captured, Counters
  <2> QED BY <1>1, <2>2, <2>3, <2>4
<1> QED BY <1>2, <1>3, <1>4, <1>5, <1>6 DEF Owner, StopSteps

LEMMA DataStep == DataInv /\ ControlInv /\ [Next]_vars => DataInv'
<1> SUFFICES ASSUME DataInv, ControlInv, [Next]_vars PROVE DataInv'
  OBVIOUS
<1>1. CASE Feed
  <2>1. PICK p \in Packets :
          queue' = Append(queue, p) /\ fed' = Append(fed, p)
    BY <1>1 DEF Feed
  <2>2. queue' \in Seq(Packets) /\ fed' \in Seq(Packets)
    BY <2>1, Appended DEF DataInv, Decoded
  <2> QED BY <1>1, <2>2 DEF Feed, decoder, decodeVars, outVars, captureVars, capVars,
      bufferVars, driverVars, ownerVars, DataInv, Decoded, OutPlane, Counters, Captured,
      CapPlane, Sizes
<1>2. CASE AbortQueue \/ UNCHANGED vars
  BY <1>2 DEF AbortQueue, vars, decoder, decodeVars, outVars, captureVars, capVars,
     bufferVars, driverVars, ownerVars, DataInv, Decoded, OutPlane, Counters, Captured,
     CapPlane, Sizes
<1> QED BY <1>1, <1>2, DataDecode, DataCapture, DataDriver, DataOwner DEF Next

LEMMA Data == SafeSpec => []DataInv
  BY DataInit, DataStep, Control, PTL DEF SafeSpec

(* Types of the decoder's state.                                           *)
THEOREM TypeCorrect == SafeSpec => []TypeOK
<1>1. ControlInv /\ DataInv => TypeOK
  <2> SUFFICES ASSUME ControlInv, DataInv PROVE TypeOK
    OBVIOUS
  <2>1. Places /\ Flags
    BY DEF ControlInv
  <2>2. index \in 0..out_buffers /\ out_buffers \in 0..NumOutput /\ events \in Nat
    BY DecoderAssumption DEF DataInv, Counters
  <2>3. allocs \in 0..MaxAllocs
    BY DecoderAssumption DEF DataInv, CapPlane
  <2>4. Decoded /\ OutPlane /\ Captured /\ CapPlane /\ Sizes
    BY DEF DataInv
  <2> QED BY <2>1, <2>2, <2>3, <2>4 DEF TypeOK, Places, Flags, Decoded, OutPlane,
      OutEntry, Captured, CapPlane, Sizes
<1> QED BY <1>1, Control, Data, PTL
-----------------------------------------------------------------------------
(* The buffers of the capture plane.                                       *)

(* Before the first resolution event, and after Stop(), the object knows   *)
(* no buffers, and the driver has those only that it did not give back.    *)
AtRest ==
  \/ Stopped \/ owner \in {"new", "failed", "destroyed"}
  \/ capture_pc \in {"first", "first event"}
  => dma_buffer_fd = {} /\ InCapture \subseteq kept

Known ==
  /\ dma_buffers = dma_buffer_fd \cup undestroyed
  /\ dma_buffer_fd \cap undestroyed = {}

(* Once the processor is gone, what comes out of the decoder is in buffers *)
(* of a plane that could not be stopped.                                   *)
Deinit ==
  processor = "deinit" =>
    /\ owner # "new"
    /\ \/ out_streaming
       \/ /\ \A i \in DOMAIN filled : filled[i].fd \in kept
          /\ capture_pc = "process" => held.fd \in kept

FilledFds == {filled[i].fd : i \in DOMAIN filled}

(* CaptureNotShared, without counting.                                     *)
Owned ==
  /\ \A i, j \in DOMAIN filled : filled[i].fd = filled[j].fd => i = j
  /\ \A i \in DOMAIN filled : filled[i].fd \notin empty
  /\ InCapture \ kept \subseteq dma_buffers
  /\ held # NoFrame =>
       /\ held.fd \in dma_buffers \cup kept
       /\ held.fd \notin InCapture

(* A new allocation is of buffers that nobody has.                         *)
Numbered ==
  /\ \A fd \in InCapture \cup dma_buffers : fd[1] <= allocs
  /\ held # NoFrame => held.fd[1] <= allocs

CaptureInv ==
  AtRest /\ Known /\ Deinit /\ FramesHaveFrameSize /\ Owned /\ Numbered

LEMMA OwnedIsCaptureNotShared == Owned /\ CapPlane => CaptureNotShared
<1> SUFFICES ASSUME Owned, CapPlane PROVE CaptureNotShared
  OBVIOUS
<1> DEFINE f == [i \in 1..Len(filled) |-> filled[i].fd]
<1>1. filled \in Seq(Frames) /\ Len(filled) \in Nat /\ DOMAIN filled = 1..Len(filled)
  BY DEF CapPlane
<1>2. f \in [1..Len(filled) -> FilledFds]
  BY <1>1 DEF FilledFds
<1>3. \A a, b \in 1..Len(filled) : f[a] = f[b] => a = b
  BY <1>1 DEF Owned
<1>4. \A t \in FilledFds : \E a \in 1..Len(filled) : f[a] = t
  BY <1>1 DEF FilledFds
<1> HIDE DEF f
<1>5. f \in Bijection(1..Len(filled), FilledFds)
  BY <1>2, <1>3, <1>4, Fun_IsBij
<1>6. Cardinality(FilledFds) = Len(filled)
  BY <1>1, <1>5, FS_CountingElements, Fun_ExistsBij
<1>7. /\ InCapture = empty \cup FilledFds /\ FilledFds \cap empty = {}
      /\ InCapture \ kept \subseteq dma_buffers
      /\ held # NoFrame => held.fd \notin InCapture /\ held.fd \in dma_buffers \cup kept
  BY <1>1 DEF FilledFds, InCapture, Owned
<1> QED BY <1>6, <1>7 DEF CaptureNotShared, FilledFds

LEMMA CaptureInit == Init => CaptureInv
<1> SUFFICES ASSUME Init PROVE CaptureInv
  OBVIOUS
<1>1. held = NoFrame /\ DOMAIN filled = {} /\ empty = {}
  BY DEF Init
<1>2. InCapture = {}
  BY <1>1 DEF InCapture
<1>3. AtRest /\ Known /\ Deinit /\ Numbered
  BY <1>1, <1>2 DEF Init, AtRest, Known, Deinit, Numbered
<1> QED BY <1>1, <1>2, <1>3 DEF CaptureInv, FramesHaveFrameSize, Owned

(* What the driver has after it has been asked for its buffers: those it   *)
(* had, or none, and fresh ones.                                           *)
LEMMA Exchanged ==
  ASSUME CaptureInv, CapPlane, NEW back, NEW fresh, Exchange(back, fresh),
         fresh \cap InCapture = {}
  PROVE  /\ InCapture' = fresh \cup (IF back THEN {} ELSE InCapture)
         /\ \A i, j \in DOMAIN filled' : filled'[i].fd = filled'[j].fd => i = j
         /\ \A i \in DOMAIN filled' : filled'[i].fd \notin empty'
         /\ \A i \in DOMAIN filled' : ~back /\ filled'[i].fd \in InCapture
<1>1. CASE back
  <2>1. empty' = fresh /\ filled' = <<>> /\ DOMAIN filled' = {}
    BY <1>1 DEF Exchange
  <2> QED BY <1>1, <2>1 DEF InCapture
<1>2. CASE ~back
  <2>1. empty' = fresh \cup empty /\ filled' = filled
    BY <1>2 DEF Exchange
  <2>2. InCapture' = fresh \cup InCapture
    BY <2>1 DEF InCapture
  <2>3. \A i \in DOMAIN filled : filled[i].fd \in InCapture /\ filled[i].fd \notin empty'
    BY <2>1 DEF InCapture, CaptureInv, Owned
  <2> QED BY <1>2, <2>1, <2>2, <2>3 DEF CaptureInv, Owned
<1> QED BY <1>1, <1>2

LEMMA NewBuffersFresh ==
  ASSUME CaptureInv, CapPlane
  PROVE  NewBuffers \cap (InCapture \cup dma_buffers) = {}
<1>1. \A fd \in NewBuffers : fd[1] = allocs + 1
  BY DEF NewBuffers
<1> QED BY <1>1 DEF CaptureInv, CapPlane, Numbered

(* The buffers change hands while the capture thread holds no frame: of    *)
(* those that are made, fresh ones go to the driver and the object gets to *)
(* know some; of the others left could not be destroyed.                   *)
LEMMA ChangeHands ==
  ASSUME CaptureInv, CapPlane, CapPlane', held = NoFrame, held' = NoFrame,
         NEW back, NEW made \in {{}, NewBuffers}, NEW fresh \in SUBSET made,
         NEW known \in SUBSET made, NEW left \in SUBSET (dma_buffer_fd \cup (made \ known)),
         Exchange(back, fresh),
         back \/ InCapture \subseteq kept',
         fresh \subseteq known \cup kept',
         allocs' = IF made = {} THEN allocs ELSE allocs + 1,
         undestroyed' = undestroyed \cup left,
         dma_buffer_fd' = known,
         dma_buffers' = known \cup undestroyed'
  PROVE  /\ Known' /\ FramesHaveFrameSize' /\ Owned' /\ Numbered'
         /\ \A i \in DOMAIN filled' : filled'[i].fd \in kept'
         /\ InCapture' \subseteq known \cup kept'
<1>1. NewBuffers \cap (InCapture \cup dma_buffers) = {}
  BY NewBuffersFresh
<1>2. fresh \cap InCapture = {}
  BY <1>1
<1>3. /\ InCapture' = fresh \cup (IF back THEN {} ELSE InCapture)
      /\ \A i, j \in DOMAIN filled' : filled'[i].fd = filled'[j].fd => i = j
      /\ \A i \in DOMAIN filled' : filled'[i].fd \notin empty'
      /\ \A i \in DOMAIN filled' : ~back /\ filled'[i].fd \in InCapture
  BY <1>2, Exchanged
<1>4. Known' /\ dma_buffers' \subseteq dma_buffers \cup made
  <2>1. dma_buffers = dma_buffer_fd \cup undestroyed
    BY DEF CaptureInv, Known
  <2>2. known \cap dma_buffers = {}
    BY <1>1
  <2>3. undestroyed' \subseteq dma_buffers \cup (made \ known)
    BY <2>1
  <2> QED BY <2>2, <2>3 DEF Known
<1>5. \A i \in DOMAIN filled' : filled'[i].fd \in kept'
  BY <1>3
<1>6. InCapture' \subseteq known \cup kept'
  BY <1>3
<1>7. FramesHaveFrameSize'
  BY <1>5 DEF FramesHaveFrameSize
<1>8. Owned'
  <2>1. InCapture' \ kept' \subseteq dma_buffers'
    BY <1>6
  <2> QED BY <1>3, <2>1 DEF Owned
<1>9. Numbered'
  <2>1. \A fd \in NewBuffers : fd[1] = allocs + 1
    BY DEF NewBuffers
  <2>2. \A fd \in InCapture \cup dma_buffers : fd[1] <= allocs
    BY DEF CaptureInv, Numbered
  <2>3. InCapture' \cup dma_buffers' \subseteq InCapture \cup dma_buffers \cup made
    BY <1>3, <1>4
  <2>4. CASE made = {}
    BY <2>2, <2>3, <2>4 DEF Numbered
  <2>5. CASE made # {}
    <3>1. allocs' = allocs + 1 /\ allocs \in Nat /\ made = NewBuffers
      BY <2>5 DEF CapPlane
    <3>2. \A fd \in InCapture \cup dma_buffers : fd[1] \in Nat
      <4>1. InCapture \cup dma_buffers \subseteq Fds
        BY InCaptureTyped DEF CapPlane
      <4>2. \A fd \in Fds : fd[1] \in Nat
        BY DEF Fds
      <4> QED BY <4>1, <4>2
    <3>3. \A fd \in InCapture' \cup dma_buffers' : fd[1] <= allocs'
      BY <2>1, <2>2, <2>3, <3>1, <3>2
    <3> QED BY <3>3 DEF Numbered
  <2> QED BY <2>4, <2>5
<1> QED BY <1>4, <1>5, <1>6, <1>7, <1>8, <1>9

(* The object gives up the buffers it knows.                               *)
LEMMA GivenUp ==
  ASSUME CaptureInv, NEW left \in SUBSET dma_buffer_fd
  PROVE  dma_buffers \ (dma_buffer_fd \ left) = undestroyed \cup left
  BY DEF CaptureInv, Known

LEMMA Deallocated ==
  ASSUME CaptureInv, CapPlane, CapPlane', held = NoFrame, held' = NoFrame,
         DeallocateCaptureBuffers, UNCHANGED allocs
  PROVE  /\ Known' /\ FramesHaveFrameSize' /\ Owned' /\ Numbered'
         /\ \A i \in DOMAIN filled' : filled'[i].fd \in kept'
         /\ dma_buffer_fd' = {} /\ InCapture' \subseteq kept'
<1>1. PICK back : Exchange(back, {}) /\ Keeps(back)
  BY DEF DeallocateCaptureBuffers
<1>2. PICK left \in SUBSET dma_buffer_fd :
        /\ dma_buffers' = dma_buffers \ (dma_buffer_fd \ left)
        /\ undestroyed' = undestroyed \cup left
  BY DEF DeallocateCaptureBuffers, NotDestroyed, GivesUp
<1>3. dma_buffer_fd' = {}
  BY DEF DeallocateCaptureBuffers
<1> DEFINE none == {}
<1>4. /\ none \in {{}, NewBuffers} /\ none \in SUBSET none
      /\ left \in SUBSET (dma_buffer_fd \cup (none \ none))
      /\ Exchange(back, none)
      /\ back \/ InCapture \subseteq kept'
      /\ none \subseteq none \cup kept'
      /\ allocs' = IF none = {} THEN allocs ELSE allocs + 1
      /\ dma_buffer_fd' = none
      /\ dma_buffers' = none \cup undestroyed'
  BY <1>1, <1>2, <1>3, GivenUp DEF Keeps
<1>5. /\ Known' /\ FramesHaveFrameSize' /\ Owned' /\ Numbered'
      /\ \A i \in DOMAIN filled' : filled'[i].fd \in kept'
      /\ InCapture' \subseteq none \cup kept'
  <2> HIDE DEF none
  <2> QED BY <1>2, <1>4, ChangeHands
<1> QED BY <1>3, <1>5

(* The steps that touch none of it.                                        *)
LEMMA CaptureUntouched ==
  ASSUME CaptureInv, UNCHANGED <<capVars, bufferVars, held, processor>>,
         UNCHANGED <<running, owner>>,
         UNCHANGED out_streaming,
         capture_pc' \in {"first", "first event"} => capture_pc \in {"first", "first event"},
         capture_pc' = "process" => capture_pc = "process"
  PROVE  CaptureInv'
<1> USE DEF CaptureInv, capVars, bufferVars
<1>1. AtRest' /\ Numbered'
  BY DEF AtRest, InCapture, Stopped, Numbered
<1>2. Known'
  BY DEF Known
<1>3. Deinit'
  BY DEF Deinit
<1>4. FramesHaveFrameSize'
  BY DEF FramesHaveFrameSize
<1>5. Owned'
  BY DEF Owned, InCapture
<1> QED BY <1>1, <1>2, <1>3, <1>4, <1>5

LEMMA CaptureDecode == CaptureInv /\ DecodeThread => CaptureInv'
<1> SUFFICES ASSUME CaptureInv, DecodeThread PROVE CaptureInv'
  OBVIOUS
<1>1. UNCHANGED <<running, captureVars, capVars, bufferVars, ownerVars>>
  BY DEF DecodeThread, DecodeLoop, Pop, PopRefused, NthBuffer, DequeueOutput,
     DequeueOutputFails, RejectPacket, QueueOutput, QueueOutputFails, Decoding
<1>2. UNCHANGED out_streaming
  BY DEF DecodeThread, DecodeLoop, Pop, PopRefused, NthBuffer, DequeueOutput,
     DequeueOutputFails, RejectPacket, QueueOutput, QueueOutputFails, outVars
<1> QED BY <1>1, <1>2, CaptureUntouched DEF captureVars, ownerVars

LEMMA CaptureCapture ==
  CaptureInv /\ ControlInv /\ DataInv /\ CaptureThread => CaptureInv'
<1> SUFFICES ASSUME CaptureInv, ControlInv, DataInv, CaptureThread PROVE CaptureInv'
  OBVIOUS
<1>1. UNCHANGED <<running, owner, processor, out_streaming>> /\ capture_pc # "none"
  BY DEF CaptureThread, FirstLoop, FirstNoEvent, FirstEventFails, FirstEvent,
     FirstAllocationFails, CaptureLoop, HandleResolutionChange, NoEvent,
     DequeueCapture, DequeueCaptureFails, Process, Requeue, RequeueFails,
     Capturing, ownerVars, outVars
<1>2. ~Stopped /\ owner \notin {"new", "failed", "release", "destroyed"}
  BY <1>1 DEF ControlInv, Threads
<1>3. ~Stopped' /\ owner' \notin {"new", "failed", "release", "destroyed"}
  BY <1>1, <1>2 DEF Stopped
<1>4. held # NoFrame <=> capture_pc \in {"process", "requeue"}
  BY DEF DataInv, Captured
<1>5. CASE \/ FirstLoop \/ FirstNoEvent \/ FirstEventFails
           \/ CaptureLoop \/ NoEvent \/ DequeueCaptureFails \/ Process
  <2>1. /\ UNCHANGED <<capVars, bufferVars, held>>
        /\ capture_pc' \in {"first", "first event"}
             => capture_pc \in {"first", "first event"}
        /\ capture_pc' # "process"
    BY <1>5 DEF FirstLoop, FirstNoEvent, FirstEventFails, CaptureLoop, NoEvent,
       DequeueCaptureFails, Process, Capturing
  <2> QED BY <1>1, <2>1, CaptureUntouched
<1>10. CapPlane /\ CapPlane'
  BY DataCapture DEF DataInv
<1>6. CASE FirstAllocationFails
  <2>1. /\ capture_pc = "first event" /\ capture_pc' = "first" /\ UNCHANGED held
        /\ dma_buffer_fd = {}
    BY <1>6 DEF FirstAllocationFails, Capturing, CaptureInv, AtRest
  <2>2. held = NoFrame /\ held' = NoFrame
    BY <1>4, <2>1
  <2>3. /\ Known' /\ FramesHaveFrameSize' /\ Owned' /\ Numbered'
        /\ \A i \in DOMAIN filled' : filled'[i].fd \in kept'
        /\ dma_buffer_fd' = {} /\ InCapture' \subseteq kept'
    <3>1. CASE DeallocateCaptureBuffers /\ UNCHANGED allocs
      BY <1>10, <2>2, <3>1, Deallocated
    <3>2. CASE ~(DeallocateCaptureBuffers /\ UNCHANGED allocs)
      <4>1. /\ allocs' = allocs + 1 /\ UNCHANGED dma_buffer_fd
            /\ \E back \in BOOLEAN, queued \in SUBSET NewBuffers :
                 /\ Exchange(back, IF back THEN {} ELSE queued)
                 /\ kept' = IF back THEN {} ELSE InCapture \cup queued
            /\ \E left \in SUBSET NewBuffers :
                 dma_buffers' = dma_buffers \cup left /\ undestroyed' = undestroyed \cup left
        BY <1>6, <3>2 DEF FirstAllocationFails, GivesUp
      <4>2. PICK back \in BOOLEAN, queued \in SUBSET NewBuffers :
              /\ Exchange(back, IF back THEN {} ELSE queued)
              /\ kept' = IF back THEN {} ELSE InCapture \cup queued
        BY <4>1
      <4>3. PICK left \in SUBSET NewBuffers :
              dma_buffers' = dma_buffers \cup left /\ undestroyed' = undestroyed \cup left
        BY <4>1
      <4>4. PICK fresh \in SUBSET NewBuffers :
              /\ Exchange(back, fresh) /\ fresh \subseteq kept'
              /\ back \/ InCapture \subseteq kept'
        BY <4>2
      <4>5. dma_buffers' = undestroyed' /\ dma_buffer_fd' = {}
        BY <2>1, <4>1, <4>3 DEF CaptureInv, Known
      <4>6. NewBuffers # {}
        <5>1. <<allocs + 1, 1>> \in NewBuffers
          BY DecoderAssumption DEF NewBuffers
        <5> QED BY <5>1
      <4> DEFINE none == {} made == NewBuffers
      <4>7. /\ made \in {{}, NewBuffers} /\ fresh \in SUBSET made /\ none \in SUBSET made
            /\ left \in SUBSET (dma_buffer_fd \cup (made \ none))
            /\ fresh \subseteq none \cup kept'
            /\ allocs' = IF made = {} THEN allocs ELSE allocs + 1
            /\ dma_buffer_fd' = none
            /\ dma_buffers' = none \cup undestroyed'
        BY <4>1, <4>4, <4>5, <4>6
      <4>8. /\ Known' /\ FramesHaveFrameSize' /\ Owned' /\ Numbered'
            /\ \A i \in DOMAIN filled' : filled'[i].fd \in kept'
            /\ InCapture' \subseteq none \cup kept'
        <5> HIDE DEF none, made
        <5> QED BY <1>10, <2>2, <4>3, <4>4, <4>7, ChangeHands
      <4> QED BY <4>5, <4>8
    <3> QED BY <3>1, <3>2
  <2>4. AtRest'
    BY <2>3 DEF AtRest
  <2>5. Deinit'
    BY <1>1, <2>1, <2>3 DEF CaptureInv, Deinit
  <2> QED BY <2>3, <2>4, <2>5 DEF CaptureInv
<1>7. CASE FirstEvent \/ HandleResolutionChange
  <2>1. /\ capture_pc \in {"first event", "event"} /\ capture_pc' = "loop"
        /\ UNCHANGED held
    BY <1>7 DEF FirstEvent, HandleResolutionChange, Capturing
  <2>2. held = NoFrame /\ held' = NoFrame
    BY <1>4, <2>1
  <2>3. PICK back \in BOOLEAN, left \in SUBSET dma_buffer_fd :
          /\ \/ AllocateCaptureBuffers(undestroyed \cup left, back)
             \/ AllocationFails(undestroyed \cup left, back)
          /\ undestroyed' = undestroyed \cup left
          /\ back \/ InCapture \subseteq kept'
    <3>1. CASE HandleResolutionChange
      <4>1. PICK back \in BOOLEAN, left \in SUBSET dma_buffer_fd :
              /\ \/ AllocateCaptureBuffers(dma_buffers \ (dma_buffer_fd \ left), back)
                 \/ AllocationFails(dma_buffers \ (dma_buffer_fd \ left), back)
              /\ Keeps(back) /\ GivesUp(left)
        BY <3>1 DEF HandleResolutionChange, NotDestroyed, GivesBack
      <4> QED BY <4>1, GivenUp DEF Keeps, GivesUp
    <3>2. CASE FirstEvent
      <4>1. dma_buffer_fd = {} /\ InCapture \subseteq kept /\ dma_buffers = undestroyed
        BY <3>2 DEF FirstEvent, Capturing, CaptureInv, AtRest, Known
      <4>2. AllocateCaptureBuffers(dma_buffers, FALSE) /\ UNCHANGED <<kept, undestroyed>>
        BY <3>2 DEF FirstEvent
      <4>3. undestroyed \cup {} = dma_buffers /\ {} \in SUBSET dma_buffer_fd
        BY <4>1
      <4> QED BY <4>1, <4>2, <4>3
    <3> QED BY <1>7, <3>1, <3>2
  <2>4. PICK made \in {{}, NewBuffers} :
          /\ dma_buffer_fd' = made /\ dma_buffers' = undestroyed' \cup made
          /\ allocs' = IF made = {} THEN allocs ELSE allocs + 1
          /\ \E fresh \in SUBSET made : Exchange(back, fresh)
    <3>1. NewBuffers # {}
      <4>1. <<allocs + 1, 1>> \in NewBuffers
        BY DecoderAssumption DEF NewBuffers
      <4> QED BY <4>1
    <3>2. CASE allocs' = allocs + 1 /\ dma_buffer_fd' = NewBuffers
      BY <2>3, <3>1, <3>2 DEF AllocateCaptureBuffers, AllocationFails, Queued
    <3>3. CASE UNCHANGED allocs /\ dma_buffer_fd' = {} /\ dma_buffers' = undestroyed'
               /\ Exchange(back, {})
      <4>1. {} \in SUBSET {} /\ undestroyed' \cup {} = undestroyed'
        OBVIOUS
      <4> QED BY <3>3, <4>1
    <3> QED BY <2>3, <3>2, <3>3 DEF AllocateCaptureBuffers, AllocationFails
  <2>5. PICK fresh \in SUBSET made : Exchange(back, fresh)
    BY <2>4
  <2>6. dma_buffers' = made \cup undestroyed'
    BY <2>3, <2>4
  <2>7. left \in SUBSET (dma_buffer_fd \cup (made \ made)) /\ fresh \subseteq made \cup kept'
    OBVIOUS
  <2>8. /\ Known' /\ FramesHaveFrameSize' /\ Owned' /\ Numbered'
        /\ \A i \in DOMAIN filled' : filled'[i].fd \in kept'
    BY <1>10, <2>2, <2>3, <2>4, <2>5, <2>6, <2>7, ChangeHands
  <2>9. AtRest'
    BY <1>3, <2>1 DEF AtRest
  <2>10. Deinit'
    BY <1>1, <2>1, <2>8 DEF CaptureInv, Deinit
  <2> QED BY <2>8, <2>9, <2>10 DEF CaptureInv
<1>8. CASE DequeueCapture
  <2>1. /\ filled # <<>> /\ held' = Head(filled) /\ filled' = Tail(filled)
        /\ UNCHANGED <<empty, cap_streaming, bufferVars>>
        /\ capture_pc = "dequeue" /\ capture_pc' = "process"
    BY <1>8 DEF DequeueCapture, Capturing
  <2>2. /\ 1 \in DOMAIN filled /\ held' = filled[1]
        /\ \A i \in DOMAIN filled' :
             i + 1 \in DOMAIN filled /\ i + 1 # 1 /\ filled'[i] = filled[i + 1]
        /\ \A i, j \in DOMAIN filled' : i + 1 = j + 1 => i = j
    BY <2>1 DEF DataInv, CapPlane
  <2>3. InCapture' \subseteq InCapture /\ held'.fd \in InCapture /\ held'.fd \notin InCapture'
    BY <2>1, <2>2 DEF CaptureInv, Owned, InCapture
  <2>4. AtRest'
    BY <1>3, <2>1 DEF AtRest
  <2>5. Known'
    BY <2>1 DEF CaptureInv, Known, bufferVars
  <2>6. Deinit'
    BY <1>1, <2>1, <2>2 DEF CaptureInv, Deinit, bufferVars
  <2>7. FramesHaveFrameSize'
    BY <2>1, <2>2 DEF CaptureInv, FramesHaveFrameSize, bufferVars
  <2>8. Owned'
    BY <2>1, <2>2, <2>3 DEF CaptureInv, Owned, bufferVars
  <2>9. Numbered'
    BY <2>1, <2>3 DEF CaptureInv, Numbered, bufferVars
  <2> QED BY <2>4, <2>5, <2>6, <2>7, <2>8, <2>9 DEF CaptureInv
<1>9. CASE Requeue \/ RequeueFails
  <2>1. /\ capture_pc = "requeue" /\ capture_pc' = "loop" /\ held' = NoFrame
        /\ empty' \in {empty, empty \cup {held.fd}}
        /\ UNCHANGED <<filled, cap_streaming, bufferVars>>
    BY <1>9 DEF Requeue, RequeueFails, Capturing, capVars
  <2>2. held # NoFrame
    BY <1>4, <2>1
  <2>3. InCapture' \subseteq InCapture \cup {held.fd}
    BY <2>1 DEF InCapture
  <2>4. \A i \in DOMAIN filled : filled[i].fd # held.fd
    BY <2>2 DEF CaptureInv, Owned, InCapture
  <2>5. AtRest'
    BY <1>3, <2>1 DEF AtRest
  <2>6. Known'
    BY <2>1 DEF CaptureInv, Known, bufferVars
  <2>7. Deinit'
    BY <1>1, <2>1 DEF CaptureInv, Deinit, bufferVars
  <2>8. FramesHaveFrameSize'
    BY <2>1 DEF CaptureInv, FramesHaveFrameSize, bufferVars
  <2>9. Owned'
    BY <2>1, <2>2, <2>3, <2>4 DEF CaptureInv, Owned, bufferVars
  <2>10. Numbered'
    BY <2>1, <2>2, <2>3 DEF CaptureInv, Numbered, bufferVars
  <2> QED BY <2>5, <2>6, <2>7, <2>8, <2>9, <2>10 DEF CaptureInv
<1> QED BY <1>5, <1>6, <1>7, <1>8, <1>9 DEF CaptureThread

LEMMA CaptureDriver ==
  CaptureInv /\ ControlInv /\ DataInv /\ Driver => CaptureInv'
<1> SUFFICES ASSUME CaptureInv, ControlInv, DataInv, Driver PROVE CaptureInv'
  OBVIOUS
<1>1. UNCHANGED <<running, captureVars, bufferVars, ownerVars>>
  BY DEF Driver, DriverFindsSize, DriverConsumes, DriverParses, DriverDecodes, application
<1>2. UNCHANGED out_streaming /\ out_streaming
  BY DEF Driver, DriverFindsSize, DriverConsumes, DriverParses, DriverDecodes, outVars
<1>3. CASE UNCHANGED capVars
  BY <1>1, <1>2, <1>3, CaptureUntouched DEF captureVars, ownerVars
<1>4. CASE DriverDecodes
  <2>1. PICK fd \in empty :
          /\ empty' = empty \ {fd}
          /\ filled' = Append(filled, [fd |-> fd, packet |-> HeadPacket(out_queue),
                                      size |-> stream_size])
    BY <1>4 DEF DriverDecodes
  <2> DEFINE frame == [fd |-> fd, packet |-> HeadPacket(out_queue), size |-> stream_size]
  <2>2. frame.fd = fd /\ frame.size = stream_size
    OBVIOUS
  <2>3. filled' = Append(filled, frame)
    BY <2>1
  <2> HIDE DEF frame
  <2>4. cap_streaming /\ frame_size = stream_size /\ UNCHANGED cap_streaming
    BY <1>4 DEF DriverDecodes
  <2>5. /\ DOMAIN filled = 1..Len(filled) /\ Len(filled) \in Nat
        /\ DOMAIN filled' = 1..(Len(filled) + 1)
        /\ \A i \in DOMAIN filled : filled'[i] = filled[i]
        /\ filled'[Len(filled) + 1] = frame
    BY <2>3 DEF DataInv, CapPlane
  <2>6. \A i \in DOMAIN filled' :
          (i \in DOMAIN filled /\ filled'[i] = filled[i])
          \/ (i = Len(filled) + 1 /\ filled'[i] = frame)
    BY <2>5
  <2>7. InCapture' = InCapture
    <3>1. \A i \in DOMAIN filled' : filled'[i].fd \in InCapture
      BY <2>1, <2>2, <2>6 DEF InCapture
    <3>2. \A i \in DOMAIN filled : \E j \in DOMAIN filled' : filled'[j].fd = filled[i].fd
      BY <2>5
    <3>3. \E j \in DOMAIN filled' : filled'[j].fd = fd
      BY <2>2, <2>5
    <3> QED BY <2>1, <3>1, <3>2, <3>3 DEF InCapture
  <2>8. fd \in InCapture
    BY DEF InCapture
  <2>9. AtRest' /\ Numbered' /\ Known'
    BY <1>1, <2>7 DEF CaptureInv, AtRest, Numbered, Known, Stopped, captureVars, ownerVars,
       bufferVars
  <2>10. Deinit'
    BY <1>1, <1>2 DEF CaptureInv, Deinit, ownerVars
  <2>11. FramesHaveFrameSize'
    BY <1>1, <2>2, <2>4, <2>6 DEF CaptureInv, FramesHaveFrameSize, captureVars, bufferVars
  <2>12. Owned'
    <3>1. \A i, j \in DOMAIN filled' : filled'[i].fd = filled'[j].fd => i = j
      BY <2>2, <2>6 DEF CaptureInv, Owned
    <3>2. \A i \in DOMAIN filled' : filled'[i].fd \notin empty'
      BY <2>1, <2>2, <2>6 DEF CaptureInv, Owned
    <3> QED BY <1>1, <2>7, <3>1, <3>2 DEF CaptureInv, Owned, bufferVars, captureVars
  <2> QED BY <2>9, <2>10, <2>11, <2>12 DEF CaptureInv
<1> QED BY <1>3, <1>4 DEF Driver, DriverFindsSize, DriverParses

LEMMA CaptureOwner ==
  CaptureInv /\ ControlInv /\ DataInv /\ Owner => CaptureInv'
<1> SUFFICES ASSUME CaptureInv, ControlInv, DataInv, Owner PROVE CaptureInv'
  OBVIOUS
<1>1. CASE Release
  <2>1. /\ DeallocateCaptureBuffers /\ UNCHANGED <<allocs, held, capture_pc>>
        /\ owner' # "new"
    BY <1>1 DEF Release, AfterStop, others, captureVars
  <2>2. capture_pc = "none" /\ held = NoFrame /\ held' = NoFrame
    BY <1>1, <2>1 DEF Release, ControlInv, Threads, DataInv, Captured
  <2>3. CapPlane /\ CapPlane'
    BY DataOwner DEF DataInv
  <2>4. /\ Known' /\ FramesHaveFrameSize' /\ Owned' /\ Numbered'
        /\ \A i \in DOMAIN filled' : filled'[i].fd \in kept'
        /\ dma_buffer_fd' = {} /\ InCapture' \subseteq kept'
    BY <2>1, <2>2, <2>3, Deallocated
  <2>5. AtRest' /\ Deinit'
    BY <2>1, <2>2, <2>4 DEF AtRest, Deinit
  <2> QED BY <2>4, <2>5 DEF CaptureInv
<1>2. CASE ~Release
  <2>1. UNCHANGED <<capVars, bufferVars, held, processor>>
    BY <1>2 DEF Owner, InitDecoder, Start, Stop, StopSteps, StopStore, JoinDecode,
       JoinCapture, others, captureVars, ownerVars
  <2>2. Known' /\ FramesHaveFrameSize' /\ Owned' /\ Numbered'
    BY <2>1 DEF CaptureInv, Known, FramesHaveFrameSize, Owned, Numbered, InCapture,
       capVars, bufferVars
  <2>3. Deinit'
    <3>1. owner # "new" => owner' # "new" /\ UNCHANGED out_streaming
      BY <1>2 DEF Owner, InitDecoder, Start, Stop, AfterStop, StopSteps, StopStore,
         JoinDecode, JoinCapture, others, outVars, ownerVars
    <3>2. UNCHANGED capture_pc \/ capture_pc' \in {"none", "first"}
      BY <1>2 DEF Owner, InitDecoder, Start, Stop, StopSteps, StopStore,
         JoinDecode, JoinCapture, others, captureVars
    <3> QED BY <2>1, <3>1, <3>2 DEF CaptureInv, Deinit, capVars, bufferVars
  <2>4. AtRest'
    <3>1. CASE owner \in {"new", "failed"} \/ Stopped
      BY <2>1, <3>1 DEF CaptureInv, AtRest, InCapture, capVars, bufferVars
    <3>2. CASE owner \notin {"new", "failed"} /\ ~Stopped
      <4>1. /\ owner' \in {"stopping", "join decode", "join capture", "release"}
            /\ UNCHANGED capture_pc \/ capture_pc' = "none"
        BY <1>2, <3>2 DEF Owner, InitDecoder, Start, Stop, AfterStop, StopSteps,
           StopStore, JoinDecode, JoinCapture, Stopped, others, captureVars
      <4> QED BY <2>1, <4>1 DEF CaptureInv, AtRest, InCapture, Stopped, capVars, bufferVars
    <3> QED BY <3>1, <3>2
  <2> QED BY <2>2, <2>3, <2>4 DEF CaptureInv
<1> QED BY <1>1, <1>2

LEMMA CaptureStep ==
  CaptureInv /\ ControlInv /\ DataInv /\ [Next]_vars => CaptureInv'
<1> SUFFICES ASSUME CaptureInv, ControlInv, DataInv, [Next]_vars PROVE CaptureInv'
  OBVIOUS
<1>1. CASE Feed \/ AbortQueue \/ UNCHANGED vars
  <2>1. UNCHANGED <<running, owner, processor, out_streaming, capture_pc, held,
                    capVars, bufferVars>>
    BY <1>1 DEF Feed, AbortQueue, vars, decoder, captureVars, ownerVars, outVars
  <2> QED BY <2>1, CaptureUntouched
<1> QED BY <1>1, CaptureDecode, CaptureCapture, CaptureDriver, CaptureOwner DEF Next

LEMMA Capture == SafeSpec => []CaptureInv
  BY CaptureInit, CaptureStep, Control, Data, PTL DEF SafeSpec

(* A buffer of the capture plane is the driver's or the capture thread's,  *)
(* and neither is left with one that has been destroyed, but those that    *)
(* the driver was asked for and did not give back.                         *)
THEOREM CaptureNotSharedCorrect == SafeSpec => []CaptureNotShared
<1>1. CaptureInv /\ DataInv => CaptureNotShared
  BY OwnedIsCaptureNotShared DEF CaptureInv, DataInv
<1> QED BY <1>1, Capture, Data, PTL

(* FrameInfo has the size of the frame it goes with, unless the driver did *)
(* not give the frame's buffer back at a resolution change.                *)
THEOREM FramesHaveFrameSizeCorrect == SafeSpec => []FramesHaveFrameSize
<1>1. CaptureInv => FramesHaveFrameSize
  BY DEF CaptureInv
<1> QED BY <1>1, Capture, PTL

(* No DMA buffer is forgotten before a destroy was tried on it, and those  *)
(* only for which it failed are left.                                      *)
THEOREM NoBufferLeakCorrect == SafeSpec => []NoBufferLeak
<1>1. CaptureInv => NoBufferLeak
  BY DEF CaptureInv, Known, AtRest, NoBufferLeak
<1> QED BY <1>1, Capture, PTL

(* processor_ is called after its Deinit() with frames only of a plane     *)
(* that could not be stopped.                                              *)
THEOREM ProcessWhileReadyCorrect == SafeSpec => ProcessWhileReady
<1> DEFINE Allowed == processor = "ready" \/ out_streaming \/ held.fd \in kept
<1>1. ControlInv /\ CaptureInv /\ [Next]_vars => [processed' # processed => Allowed]_vars
  <2> SUFFICES ASSUME ControlInv, CaptureInv, Next, processed' # processed
               PROVE  Allowed
    BY DEF vars
  <2>1. Process
    BY DEF Next, DecodeThread, DecodeLoop, Pop, PopRefused, NthBuffer, DequeueOutput,
       DequeueOutputFails, RejectPacket, QueueOutput, QueueOutputFails, Decoding,
       CaptureThread, FirstLoop, FirstNoEvent, FirstEventFails, FirstEvent,
       FirstAllocationFails, CaptureLoop, HandleResolutionChange, NoEvent,
       DequeueCapture, DequeueCaptureFails, Requeue, RequeueFails,
       Driver, DriverFindsSize, DriverConsumes, DriverParses, DriverDecodes, application,
       Owner, InitDecoder, Start, Stop, StopSteps, StopStore, JoinDecode, JoinCapture,
       Release, others, Feed, AbortQueue, decoder, captureVars
  <2>2. capture_pc = "process"
    BY <2>1 DEF Process, Capturing
  <2> QED BY <2>2 DEF ControlInv, Places, CaptureInv, Deinit
<1> QED BY <1>1, Control, Capture, PTL DEF SafeSpec, ProcessWhileReady
=============================================================================
