--------------------------- MODULE PipelineProofs ---------------------------
(***************************************************************************)
(* Theorems about Pipeline, for any streams and bounds and with failures   *)
(* or without.                                                             *)
(*                                                                         *)
(* What is proved of VideoDemuxer and of VideoDecoder on their own, under  *)
(* environments that take packets and feed them, is used here: the modules *)
(* of their proofs are instantiated on the variables of the program, every *)
(* step of which is shown to be one that those proofs allow.               *)
(***************************************************************************)
EXTENDS Pipeline, TLAPS

DemProofs == INSTANCE VideoDemuxerProofs
             WITH running <- demux_running, pc <- demux_pc, dying <- demux_dying

DecProofs == INSTANCE VideoDecoderOrderProofs
             WITH running <- decode_running, dying <- decode_dying,
                  Packets <- Demuxer!Packets, Resolution <- PacketSize,
                  Rejected <- IsRejected, HasFrame <- IsFrame,
                  fed <- <<>>

-----------------------------------------------------------------------------
(* The steps of the program are steps of the components.                   *)

LEMMA DemuxAssumption == DemProofs!DemuxerAssumption
  BY PipelineAssumption DEF Demuxer!DemuxerAssumption, DemProofs!DemuxerAssumption

LEMMA DecodeAssumption == DecProofs!DecoderAssumption
  BY PipelineAssumption
  DEF Decoder!DecoderAssumption, Decoder!Frames, Decoder!Fds,
      DecProofs!DecoderAssumption, DecProofs!Frames, DecProofs!Fds

LEMMA DemuxInit == Demuxer!Init => DemProofs!Init
  BY DEF Demuxer!Init, DemProofs!Init

LEMMA DemuxThreadStep == Demuxer!DemuxThread => DemProofs!DemuxThread
  BY DEF Demuxer!DemuxThread, Demuxer!LoopCheck, Demuxer!OpenFails, Demuxer!Opens,
     Demuxer!FindVideo, Demuxer!FindNoVideo, Demuxer!Notify, Demuxer!NeedsFilter,
     Demuxer!BsfInit, Demuxer!BsfInitFails, Demuxer!PushExtradata,
     Demuxer!NeedsExtradata, Demuxer!Extradata, Demuxer!InnerCheck,
     Demuxer!ReadVideo, Demuxer!ReadAgain, Demuxer!ReadEof, Demuxer!PushPacket,
     Demuxer!PushPacketRefused, Demuxer!ThisPacket, Demuxer!FilterSend,
     Demuxer!FilterSendFails, Demuxer!FilterReceive, Demuxer!FilterDone,
     Demuxer!Close, Demuxer!Exit, Demuxer!Go, Demuxer!NextRound, Demuxer!Pushed,
     Demuxer!PushRefused, Demuxer!announced, Demuxer!counters,
     Demuxer!connection, Demuxer!filter, Demuxer!sent, Demuxer!owner,
     DemProofs!DemuxThread, DemProofs!LoopCheck, DemProofs!OpenFails, DemProofs!Opens,
     DemProofs!FindVideo, DemProofs!FindNoVideo, DemProofs!Notify,
     DemProofs!NeedsFilter, DemProofs!BsfInit, DemProofs!BsfInitFails,
     DemProofs!PushExtradata, DemProofs!NeedsExtradata, DemProofs!Extradata,
     DemProofs!InnerCheck, DemProofs!ReadVideo, DemProofs!ReadAgain,
     DemProofs!ReadEof, DemProofs!PushPacket, DemProofs!PushPacketRefused,
     DemProofs!ThisPacket, DemProofs!FilterSend, DemProofs!FilterSendFails,
     DemProofs!FilterReceive, DemProofs!FilterDone, DemProofs!Close, DemProofs!Exit,
     DemProofs!Go, DemProofs!NextRound, DemProofs!Pushed, DemProofs!PushRefused,
     DemProofs!announced, DemProofs!counters, DemProofs!connection,
     DemProofs!filter, DemProofs!sent, DemProofs!owner

LEMMA DemuxOwnerStep ==
  \/ Demuxer!Start \/ Demuxer!Wait \/ Demuxer!WaitSleeps \/ Demuxer!WaitReturns
  \/ Demuxer!Proceed \/ Demuxer!Stop(FALSE) \/ Demuxer!Stop(TRUE) \/ Demuxer!StopSteps
  => DemProofs!Owner
  BY DEF Demuxer!Start, Demuxer!Wait, Demuxer!WaitSleeps, Demuxer!WaitReturns,
     Demuxer!Proceed, Demuxer!Stop, Demuxer!AfterStop, Demuxer!StopSteps,
     Demuxer!StopStore, Demuxer!StopJoin, Demuxer!StopAbort, Demuxer!thread,
     Demuxer!announced, Demuxer!counters, Demuxer!connection, Demuxer!filter,
     Demuxer!sent, DemProofs!Owner, DemProofs!Start, DemProofs!Wait, DemProofs!WaitSleeps,
     DemProofs!WaitReturns, DemProofs!Proceed, DemProofs!Stop, DemProofs!AfterStop,
     DemProofs!StopSteps, DemProofs!StopStore, DemProofs!StopJoin,
     DemProofs!StopAbort, DemProofs!thread, DemProofs!announced,
     DemProofs!counters, DemProofs!connection, DemProofs!filter, DemProofs!sent

LEMMA LinkStep == Demuxer!LinkDown => DemProofs!LinkDown
  BY DEF Demuxer!LinkDown, Demuxer!announced, Demuxer!counters, Demuxer!filter,
     Demuxer!sent, Demuxer!owner, DemProofs!LinkDown, DemProofs!announced,
     DemProofs!counters, DemProofs!filter, DemProofs!sent, DemProofs!owner

LEMMA DecodeInit == Decoder!Init => DecProofs!Init
  BY DEF Decoder!Init, Decoder!NoPacket, Decoder!NoFrame, Decoder!NoResolution,
     Decoder!NoBuffer, DecProofs!Init, DecProofs!NoPacket, DecProofs!NoFrame,
     DecProofs!NoResolution, DecProofs!NoBuffer

LEMMA DecodeThreadStep == Decoder!DecodeThread => DecProofs!DecodeThread
  BY DEF Decoder!DecodeThread, Decoder!DecodeLoop, Decoder!Pop, Decoder!PopRefused,
     Decoder!NthBuffer, Decoder!DequeueOutput, Decoder!DequeueOutputFails,
     Decoder!RejectPacket, Decoder!QueueOutput, Decoder!QueueOutputFails,
     Decoder!Decoding, Decoder!NoPacket, Decoder!NoBuffer, Decoder!outVars,
     Decoder!captureVars, Decoder!capVars, Decoder!bufferVars, Decoder!driverVars,
     Decoder!ownerVars,
     DecProofs!DecodeThread, DecProofs!DecodeLoop, DecProofs!Pop,
     DecProofs!PopRefused, DecProofs!NthBuffer, DecProofs!DequeueOutput,
     DecProofs!DequeueOutputFails, DecProofs!RejectPacket, DecProofs!QueueOutput,
     DecProofs!QueueOutputFails, DecProofs!Decoding, DecProofs!NoPacket,
     DecProofs!NoBuffer, DecProofs!outVars, DecProofs!captureVars,
     DecProofs!capVars, DecProofs!bufferVars, DecProofs!driverVars,
     DecProofs!ownerVars

LEMMA CaptureThreadStep == Decoder!CaptureThread => DecProofs!CaptureThread
  BY DEF Decoder!CaptureThread, Decoder!FirstLoop, Decoder!FirstNoEvent,
     Decoder!FirstEventFails, Decoder!FirstEvent, Decoder!FirstAllocationFails,
     Decoder!CaptureLoop, Decoder!HandleResolutionChange, Decoder!NoEvent,
     Decoder!DequeueCapture, Decoder!DequeueCaptureFails, Decoder!Process,
     Decoder!Requeue, Decoder!RequeueFails, Decoder!Capturing,
     Decoder!AllocateCaptureBuffers, Decoder!AllocationFails,
     Decoder!DeallocateCaptureBuffers, Decoder!Exchange, Decoder!Keeps,
     Decoder!GivesUp, Decoder!GivesBack, Decoder!NotDestroyed, Decoder!InCapture,
     Decoder!NewBuffers, Decoder!Queued, Decoder!NoFrame, Decoder!NoResolution, Decoder!decodeVars,
     Decoder!outVars, Decoder!capVars, Decoder!bufferVars, Decoder!ownerVars,
     DecProofs!CaptureThread, DecProofs!FirstLoop, DecProofs!FirstNoEvent,
     DecProofs!FirstEventFails, DecProofs!FirstEvent,
     DecProofs!FirstAllocationFails, DecProofs!CaptureLoop,
     DecProofs!HandleResolutionChange, DecProofs!NoEvent,
     DecProofs!DequeueCapture, DecProofs!DequeueCaptureFails, DecProofs!Process,
     DecProofs!Requeue, DecProofs!RequeueFails, DecProofs!Capturing,
     DecProofs!AllocateCaptureBuffers, DecProofs!AllocationFails,
     DecProofs!DeallocateCaptureBuffers, DecProofs!Exchange, DecProofs!Keeps,
     DecProofs!GivesUp, DecProofs!GivesBack, DecProofs!NotDestroyed,
     DecProofs!InCapture, DecProofs!NewBuffers, DecProofs!Queued, DecProofs!NoFrame,
     DecProofs!NoResolution, DecProofs!decodeVars, DecProofs!outVars,
     DecProofs!capVars, DecProofs!bufferVars, DecProofs!ownerVars

LEMMA DriverStep == Decoder!Driver => DecProofs!Driver
  BY DEF Decoder!Driver, Decoder!DriverFindsSize, Decoder!DriverConsumes,
     Decoder!DriverParses, Decoder!DriverDecodes, Decoder!HeadPacket,
     Decoder!application, Decoder!decodeVars, Decoder!captureVars,
     Decoder!bufferVars, Decoder!ownerVars, Decoder!outVars, Decoder!capVars,
     Decoder!driverVars,
     DecProofs!Driver, DecProofs!DriverFindsSize, DecProofs!DriverConsumes,
     DecProofs!DriverParses, DecProofs!DriverDecodes, DecProofs!HeadPacket,
     DecProofs!application, DecProofs!decodeVars, DecProofs!captureVars,
     DecProofs!bufferVars, DecProofs!ownerVars, DecProofs!outVars,
     DecProofs!capVars, DecProofs!driverVars

LEMMA DecodeOwnerStep ==
  \/ Decoder!InitDecoder \/ Decoder!Start \/ Decoder!Stop(FALSE) \/ Decoder!Stop(TRUE)
  \/ Decoder!StopSteps
  => DecProofs!Owner
  BY DEF Decoder!InitDecoder, Decoder!Start, Decoder!Stop, Decoder!AfterStop,
     Decoder!StopSteps, Decoder!StopStore, Decoder!JoinDecode,
     Decoder!JoinCapture, Decoder!Release, Decoder!StopOutput,
     Decoder!DeallocateCaptureBuffers, Decoder!Exchange, Decoder!Keeps,
     Decoder!GivesUp, Decoder!GivesBack, Decoder!NotDestroyed, Decoder!InCapture,
     Decoder!OutBuffers, Decoder!NoPacket, Decoder!NoBuffer, Decoder!others,
     Decoder!decodeVars, Decoder!captureVars, Decoder!bufferVars,
     Decoder!ownerVars, Decoder!outVars, Decoder!capVars, Decoder!driverVars,
     DecProofs!Owner, DecProofs!InitDecoder, DecProofs!Start, DecProofs!Stop,
     DecProofs!AfterStop, DecProofs!StopSteps, DecProofs!StopStore,
     DecProofs!JoinDecode, DecProofs!JoinCapture, DecProofs!Release,
     DecProofs!StopOutput, DecProofs!DeallocateCaptureBuffers,
     DecProofs!Exchange, DecProofs!Keeps, DecProofs!GivesUp,
     DecProofs!GivesBack, DecProofs!NotDestroyed, DecProofs!InCapture,
     DecProofs!OutBuffers,
     DecProofs!NoPacket, DecProofs!NoBuffer, DecProofs!others,
     DecProofs!decodeVars, DecProofs!captureVars, DecProofs!bufferVars,
     DecProofs!ownerVars, DecProofs!outVars, DecProofs!capVars,
     DecProofs!driverVars

DemuxerSteps ==
  /\ DemProofs!DemuxThread \/ DemProofs!Owner \/ DemProofs!LinkDown
  /\ UNCHANGED decodeVars

DecoderSteps ==
  /\ \/ DecProofs!DecodeThread \/ DecProofs!CaptureThread
     \/ DecProofs!Driver \/ DecProofs!Owner
  /\ UNCHANGED demuxVars

Idle == UNCHANGED <<queueVars, demuxVars, decodeVars>>

(* A step is one component's, or it destroys the queue.                    *)
LEMMA StepOfOne ==
  [Next]_vars => DemuxerSteps \/ DecoderSteps \/ DestroyQueue \/ Idle
<1> SUFFICES ASSUME [Next]_vars
             PROVE  DemuxerSteps \/ DecoderSteps \/ DestroyQueue \/ Idle
  OBVIOUS
<1>1. CASE \/ StartDemuxer \/ WaitForStream \/ StreamReady \/ NoStreamFound
           \/ StopDemuxer \/ DestroyDemuxer
  BY <1>1, DemuxOwnerStep DEF StartDemuxer, WaitForStream, StreamReady, NoStreamFound,
     StopDemuxer, DestroyDemuxer, CallsDemuxer, DemuxerSteps
<1>2. CASE CreateDecoder \/ StartDecoder \/ StopDecoder \/ DestroyDecoder
  BY <1>2, DecodeOwnerStep DEF CreateDecoder, StartDecoder, StopDecoder, DestroyDecoder,
     CallsDecoder, DecoderSteps
<1>3. CASE DemuxThread \/ LinkDown
  BY <1>3, DemuxThreadStep, LinkStep DEF DemuxThread, LinkDown, DemuxerSteps
<1>4. CASE DecodeThread \/ CaptureThread \/ Driver
  BY <1>4, DecodeThreadStep, CaptureThreadStep, DriverStep
  DEF DecodeThread, CaptureThread, Driver, DecoderSteps
<1>5. CASE Signal \/ UNCHANGED vars
  BY <1>5 DEF Signal, vars, Idle
<1> QED BY <1>1, <1>2, <1>3, <1>4, <1>5 DEF Next, Main

(* What the decoder does to the queue is what the demuxer expects.         *)
LEMMA DecoderTakes ==
  DecoderSteps => DemProofs!Taken \/ UNCHANGED <<queueVars, demuxVars>>
<1> SUFFICES ASSUME DecoderSteps
             PROVE  DemProofs!Taken \/ UNCHANGED <<queueVars, demuxVars>>
  OBVIOUS
<1>1. UNCHANGED demuxVars
  BY DEF DecoderSteps
<1>2. CASE DecProofs!Pop
  BY <1>1, <1>2 DEF DecProofs!Pop, DecProofs!Decoding, DemProofs!Taken,
     DemProofs!announced, DemProofs!counters, DemProofs!connection,
     DemProofs!filter, DemProofs!owner, demuxVars
<1>3. CASE DecProofs!DecodeThread /\ ~DecProofs!Pop
  BY <1>1, <1>3 DEF DecProofs!DecodeThread, DecProofs!DecodeLoop,
     DecProofs!PopRefused, DecProofs!NthBuffer, DecProofs!DequeueOutput,
     DecProofs!DequeueOutputFails, DecProofs!RejectPacket, DecProofs!QueueOutput,
     DecProofs!QueueOutputFails, DecProofs!Decoding, queueVars
<1>4. CASE DecProofs!CaptureThread
  BY <1>1, <1>4 DEF DecProofs!CaptureThread, DecProofs!FirstLoop,
     DecProofs!FirstNoEvent, DecProofs!FirstEventFails, DecProofs!FirstEvent,
     DecProofs!FirstAllocationFails, DecProofs!CaptureLoop,
     DecProofs!HandleResolutionChange, DecProofs!NoEvent,
     DecProofs!DequeueCapture, DecProofs!DequeueCaptureFails, DecProofs!Process,
     DecProofs!Requeue, DecProofs!RequeueFails, DecProofs!Capturing, queueVars
<1>5. CASE DecProofs!Driver
  BY <1>1, <1>5 DEF DecProofs!Driver, DecProofs!DriverFindsSize,
     DecProofs!DriverConsumes, DecProofs!DriverParses, DecProofs!DriverDecodes,
     DecProofs!application, queueVars
<1>6. CASE DecProofs!Owner
  BY <1>1, <1>6 DEF DecProofs!Owner, DecProofs!InitDecoder, DecProofs!Start,
     DecProofs!Stop, DecProofs!StopSteps, DecProofs!StopStore,
     DecProofs!JoinDecode, DecProofs!JoinCapture, DecProofs!Release,
     DecProofs!others, queueVars
<1> QED BY <1>2, <1>3, <1>4, <1>5, <1>6 DEF DecoderSteps

-----------------------------------------------------------------------------
(* The invariants of the components hold in the program.                   *)

DemInv == DemProofs!ControlInv /\ DemProofs!CountInv /\ DemProofs!QueueInv
DecInv == DecProofs!ControlInv /\ DecProofs!DataInv /\ DecProofs!CaptureInv

LEMMA ComponentsInit == Init => DemInv /\ DecInv
<1> SUFFICES ASSUME Init PROVE DemInv /\ DecInv
  OBVIOUS
<1>1. DemProofs!Init /\ DecProofs!Init
  BY DemuxInit, DecodeInit DEF Init
<1>2. DemInv
  BY <1>1, DemuxAssumption, DemProofs!ControlInit, DemProofs!CountInit,
     DemProofs!QueueInit DEF DemInv
<1>3. DecInv
  BY <1>1, DecodeAssumption, DecProofs!ControlInit, DecProofs!DataInit,
     DecProofs!CaptureInit DEF DecInv
<1> QED BY <1>2, <1>3

LEMMA NextOfDemuxer ==
  [Next]_vars /\ ~DestroyQueue => [DemProofs!Next]_(DemProofs!vars)
  BY StepOfOne, DecoderTakes
  DEF DemuxerSteps, Idle, DemProofs!Next, DemProofs!vars, DemProofs!announced,
      DemProofs!counters, DemProofs!connection, DemProofs!filter, DemProofs!sent,
      DemProofs!owner, queueVars, demuxVars

LEMMA DemuxerStep == DemInv /\ [Next]_vars => DemInv'
<1> SUFFICES ASSUME DemInv, [Next]_vars PROVE DemInv'
  OBVIOUS
<1>1. CASE DestroyQueue
  <2>1. queue' = <<>> /\ abort_request' = TRUE /\ UNCHANGED demuxVars /\ Len(queue') = 0
    BY <1>1 DEF DestroyQueue
  <2>2. DemProofs!ControlInv'
    BY <2>1 DEF DemInv, DemProofs!ControlInv, DemProofs!Places, DemProofs!Flags,
       DemProofs!Objects, DemProofs!Connected, DemProofs!ContextClosed,
       DemProofs!Ended, DemProofs!StoppedMeansEnded, DemProofs!Ready,
       DemProofs!ReadyMeansInfo, demuxVars
  <2>3. DemProofs!CountInv'
    BY <2>1 DEF DemInv, DemProofs!CountInv, DemProofs!Counts, DemProofs!InHand,
       DemProofs!Lost, demuxVars
  <2>4. DemProofs!QueueInv'
    BY <2>1 DEF DemInv, DemProofs!QueueInv, DemProofs!Queued, DemProofs!Last,
       DemProofs!Filter, DemProofs!NewestOlder, DemProofs!NewestHere, DemProofs!GapFree, demuxVars
  <2> QED BY <2>2, <2>3, <2>4 DEF DemInv
<1>2. CASE ~DestroyQueue
  <2>1. [DemProofs!Next]_(DemProofs!vars)
    BY <1>2, NextOfDemuxer
  <2> QED BY <2>1, DemuxAssumption, DemProofs!ControlStep, DemProofs!CountStep,
          DemProofs!QueueStep DEF DemInv
<1> QED BY <1>1, <1>2

(* The decoder does not notice what happens to the queue, as long as       *)
(* packets are in it.                                                      *)
LEMMA DecoderKept ==
  ASSUME DecInv, UNCHANGED decodeVars,
         queue' \in Seq(Demuxer!Packets), abort_request' \in BOOLEAN
  PROVE  DecInv'
<1> USE DEF decodeVars
<1>1. DecProofs!ControlInv'
  <2> USE DEF DecInv, DecProofs!ControlInv
  <2>1. DecProofs!Places'
    BY DEF DecProofs!Places
  <2>2. DecProofs!Flags'
    BY DEF DecProofs!Flags
  <2>3. DecProofs!Threads'
    BY DEF DecProofs!Threads, DecProofs!Stopped
  <2> QED BY <2>1, <2>2, <2>3
<1>2. DecProofs!DataInv'
  BY DEF DecInv, DecProofs!DataInv, DecProofs!Decoded, DecProofs!OutPlane,
     DecProofs!Counters, DecProofs!Captured, DecProofs!CapPlane, DecProofs!Sizes
<1>3. DecProofs!CaptureInv'
  <2>1. DecProofs!InCapture' = DecProofs!InCapture
    BY DEF DecProofs!InCapture
  <2> USE <2>1 DEF DecInv, DecProofs!CaptureInv
  <2>2. DecProofs!AtRest' /\ DecProofs!Known'
    BY DEF DecProofs!AtRest, DecProofs!Known, DecProofs!Stopped
  <2>3. DecProofs!Deinit' /\ DecProofs!FramesHaveFrameSize'
    BY DEF DecProofs!Deinit, DecProofs!FramesHaveFrameSize, DecProofs!NoFrame
  <2>4. DecProofs!Owned' /\ DecProofs!Numbered'
    BY DEF DecProofs!Owned, DecProofs!Numbered, DecProofs!NoFrame
  <2> QED BY <2>2, <2>3, <2>4
<1> QED BY <1>1, <1>2, <1>3 DEF DecInv

LEMMA DecoderStep == DemInv /\ DecInv /\ [Next]_vars => DecInv'
<1> SUFFICES ASSUME DemInv, DecInv, [Next]_vars PROVE DecInv'
  OBVIOUS
<1>1. DemInv'
  BY DemuxerStep
<1>2. CASE DecoderSteps
  <2>1. [DecProofs!Next]_(DecProofs!vars)
    BY <1>2 DEF DecoderSteps, DecProofs!Next
  <2> QED BY <2>1, DecodeAssumption, DecProofs!ControlStep, DecProofs!DataStep,
          DecProofs!CaptureStep DEF DecInv
<1>3. CASE ~DecoderSteps
  <2>1. UNCHANGED decodeVars
    BY <1>3, StepOfOne DEF DemuxerSteps, DestroyQueue, Idle
  <2>2. queue' \in Seq(Demuxer!Packets) /\ abort_request' \in BOOLEAN
    BY <1>1 DEF DemInv, DemProofs!QueueInv, DemProofs!Queued, DemProofs!ControlInv,
       DemProofs!Flags, DemProofs!Packets, Demuxer!Packets
  <2> QED BY <2>1, <2>2, DecoderKept
<1> QED BY <1>2, <1>3

LEMMA Components == SafeSpec => [](DemInv /\ DecInv)
  BY ComponentsInit, DemuxerStep, DecoderStep, PTL DEF SafeSpec
-----------------------------------------------------------------------------
(* Where main is tells where the calls it makes of the decoder are, and    *)
(* main returns when the destructor of the demuxer has.                    *)

MainInv ==
  /\ main \in {"demuxer", "wait", "waiting", "decoder"} => owner = "new"
  /\ main = "unwind decoder" => owner = "failed"
  /\ main = "stop decoder" => (decode_running => owner = "stopping")
  /\ main = "stop demuxer" => owner = "idle" /\ ~decode_running
  /\ main \in {"unwind demuxer", "unwind queue", "returned"}
       => owner \in {"new", "destroyed"}
  /\ main = "returned" => caller = "destroyed"

LEMMA MainInit == Init => MainInv
  BY DecodeInit DEF Init, DecProofs!Init, MainInv

(* The threads leave to main what is main's.                               *)
LEMMA ThreadsLeaveMain ==
  DemuxThread \/ DecodeThread \/ CaptureThread \/ Driver \/ Signal \/ LinkDown
  => UNCHANGED <<main, owner, decode_running, caller>>
<1>1. DemuxThread \/ LinkDown => UNCHANGED <<main, owner, decode_running, caller>>
  <2>1. DemProofs!DemuxThread \/ DemProofs!LinkDown => UNCHANGED caller
    BY DEF DemProofs!DemuxThread, DemProofs!LoopCheck, DemProofs!OpenFails,
       DemProofs!Opens, DemProofs!FindVideo, DemProofs!FindNoVideo,
       DemProofs!Notify, DemProofs!BsfInit, DemProofs!BsfInitFails,
       DemProofs!PushExtradata, DemProofs!InnerCheck, DemProofs!ReadVideo,
       DemProofs!ReadAgain, DemProofs!ReadEof, DemProofs!PushPacket,
       DemProofs!PushPacketRefused, DemProofs!FilterSend,
       DemProofs!FilterSendFails, DemProofs!FilterReceive,
       DemProofs!FilterDone, DemProofs!Close, DemProofs!Exit, DemProofs!Go,
       DemProofs!LinkDown, DemProofs!owner
  <2> QED BY <2>1, DemuxThreadStep, LinkStep DEF DemuxThread, LinkDown, decodeVars
<1>2. DecodeThread \/ CaptureThread \/ Driver
      => UNCHANGED <<main, owner, decode_running, caller>>
  <2>1. DecProofs!DecodeThread => UNCHANGED <<owner, decode_running>>
    BY DEF DecProofs!DecodeThread, DecProofs!DecodeLoop, DecProofs!Pop,
       DecProofs!PopRefused, DecProofs!NthBuffer, DecProofs!DequeueOutput,
       DecProofs!DequeueOutputFails, DecProofs!RejectPacket,
       DecProofs!QueueOutput, DecProofs!QueueOutputFails, DecProofs!Decoding,
       DecProofs!ownerVars
  <2>2. DecProofs!CaptureThread => UNCHANGED <<owner, decode_running>>
    BY DEF DecProofs!CaptureThread, DecProofs!FirstLoop,
       DecProofs!FirstNoEvent, DecProofs!FirstEventFails, DecProofs!FirstEvent,
       DecProofs!FirstAllocationFails, DecProofs!CaptureLoop,
       DecProofs!HandleResolutionChange, DecProofs!NoEvent,
       DecProofs!DequeueCapture, DecProofs!DequeueCaptureFails,
       DecProofs!Process, DecProofs!Requeue, DecProofs!RequeueFails,
       DecProofs!Capturing, DecProofs!ownerVars
  <2>3. DecProofs!Driver => UNCHANGED <<owner, decode_running>>
    BY DEF DecProofs!Driver, DecProofs!DriverFindsSize,
       DecProofs!DriverConsumes, DecProofs!DriverParses,
       DecProofs!DriverDecodes, DecProofs!application, DecProofs!ownerVars
  <2> QED BY <2>1, <2>2, <2>3, DecodeThreadStep, CaptureThreadStep, DriverStep
          DEF DecodeThread, CaptureThread, Driver, demuxVars
<1> QED BY <1>1, <1>2 DEF Signal, demuxVars, decodeVars

LEMMA MainStep == DecInv /\ MainInv /\ [Next]_vars => MainInv'
<1> SUFFICES ASSUME DecInv, MainInv, [Next]_vars PROVE MainInv'
  OBVIOUS
<1> USE DEF MainInv
<1>1. CASE StartDemuxer \/ WaitForStream \/ StreamReady \/ NoStreamFound
  BY <1>1 DEF StartDemuxer, WaitForStream, StreamReady, NoStreamFound, CallsDemuxer,
     decodeVars
<1>2. CASE CreateDecoder
  BY <1>2 DEF CreateDecoder, CallsDecoder, Decoder!InitDecoder
<1>3. CASE StartDecoder
  BY <1>3 DEF StartDecoder, CallsDecoder
<1>4. CASE StopDecoder
  <2>1. main' = "stop decoder"
    BY <1>4 DEF StopDecoder, CallsDecoder
  <2>2. decode_running' => owner' = "stopping"
    <3>1. CASE Decoder!Stop(FALSE)
      BY ONLY <3>1 DEF Decoder!Stop
    <3>2. CASE main = "stop decoder" /\ Decoder!StopSteps
      <4>1. decode_running => owner = "stopping"
        BY <3>2
      <4> QED BY ONLY <3>2, <4>1 DEF Decoder!StopSteps, Decoder!StopStore,
              Decoder!JoinDecode, Decoder!JoinCapture, Decoder!Release
    <3> QED BY <1>4, <3>1, <3>2 DEF StopDecoder, CallsDecoder
  <2> QED BY <2>1, <2>2
<1>5. CASE StopDemuxer
  <2>1. /\ main' = "stop demuxer" /\ UNCHANGED <<owner, decode_running>>
        /\ (main = "stop decoder" /\ owner = "idle") \/ main = "stop demuxer"
    BY <1>5 DEF StopDemuxer, CallsDemuxer, decodeVars
  <2> QED BY <2>1
<1>6. CASE DestroyDecoder
  <2>1. /\ main \in {"stop demuxer", "unwind decoder"} /\ main' = "unwind demuxer"
        /\ Decoder!Stop(TRUE)
    BY <1>6 DEF DestroyDecoder, CallsDecoder
  <2>2. ~decode_running
    BY <2>1 DEF DecInv, DecProofs!ControlInv, DecProofs!Threads, DecProofs!Flags
  <2>3. owner' = "destroyed"
    BY <2>1, <2>2 DEF Decoder!Stop, Decoder!AfterStop
  <2> QED BY <2>1, <2>3
<1>7. CASE DestroyDemuxer
  BY <1>7 DEF DestroyDemuxer, CallsDemuxer, decodeVars
<1>8. CASE DestroyQueue
  BY <1>8 DEF DestroyQueue, decodeVars, demuxVars
<1>9. CASE ~Main
  <2>1. UNCHANGED <<main, owner, decode_running, caller>>
    BY <1>9, ThreadsLeaveMain DEF Next, vars, decodeVars, demuxVars
  <2> QED BY <2>1
<1> QED BY <1>1, <1>2, <1>3, <1>4, <1>5, <1>6, <1>7, <1>8, <1>9 DEF Main

LEMMA MainGoes == SafeSpec => []MainInv
  BY MainInit, MainStep, Components, PTL DEF SafeSpec

(* No thread outlives what it uses, whichever way main comes to its end:   *)
(* the queue is destroyed after the threads have ended, and the decoder    *)
(* after both of its own.                                                  *)
THEOREM NoneOutlivesCorrect == SafeSpec => []NoneOutlives
<1>1. DemInv /\ DecInv /\ MainInv => NoneOutlives
  <2> SUFFICES ASSUME DemInv, DecInv, MainInv PROVE NoneOutlives
    OBVIOUS
  <2>1. caller = "destroyed" => demux_pc \in {"none", "ended"}
    BY DEF DemInv, DemProofs!ControlInv, DemProofs!Ended, DemProofs!StoppedMeansEnded
  <2>2. owner \in {"new", "destroyed"} => decode_pc = "none" /\ capture_pc = "none"
    BY DEF DecInv, DecProofs!ControlInv, DecProofs!Threads
  <2> QED BY <2>1, <2>2 DEF MainInv, NoneOutlives
<1> QED BY <1>1, MainGoes, Components, PTL
-----------------------------------------------------------------------------
(* The packets in line from the queue to the processor.                    *)

(* x was read before y, or y holds parameter sets.                         *)
Before == {xy \in Demuxer!Packets \X Demuxer!Packets :
             xy[2].n = 0 \/ xy[1].n < xy[2].n}

(* The demuxer has a packet that it has not pushed yet.                    *)
Fresh == demux_pc \in {"push", "filter"} \/ (demux_pc = "receive" /\ filtered)

Seen == {p \in Demuxer!Packets : p.n <= reads /\ (Fresh => p.n < reads)}

OrderInv == DecProofs!InLine(Seen, Before, DecProofs!Lines) /\ DecProofs!Framed

LEMMA OrderInit == Init => OrderInv
<1> SUFFICES ASSUME Init PROVE OrderInv
  OBVIOUS
<1>1. DecProofs!Init
  BY DecodeInit DEF Init
<1>2. DecProofs!InLine(Seen, Before, DecProofs!Lines)
  BY <1>1, DecodeAssumption, DecProofs!LinesEmpty
<1>3. DecProofs!Framed
  BY <1>1, DecodeAssumption, DecProofs!FramedInit
<1> QED BY <1>2, <1>3 DEF OrderInv

(* A step of the demuxer leaves what it has pushed among the packets seen. *)
LEMMA SeenGrows ==
  ASSUME DemInv, DemuxerSteps
  PROVE  Seen \subseteq Seen'
<1>1. reads \in Nat /\ \A p \in Demuxer!Packets : p.n \in Nat
  BY DemuxAssumption DEF DemInv, DemProofs!CountInv, DemProofs!Counts, Demuxer!Packets,
     DemProofs!DemuxerAssumption
<1>2. \/ reads' = reads /\ (Fresh' => Fresh)
      \/ reads' = reads + 1
  <2>1. CASE DemProofs!DemuxThread
    <3>1. DemProofs!Filter
      BY DEF DemInv, DemProofs!QueueInv
    <3> QED BY <2>1, <3>1
    DEF Fresh, DemProofs!Filter, DemProofs!DemuxThread, DemProofs!LoopCheck,
       DemProofs!OpenFails, DemProofs!Opens, DemProofs!FindVideo,
       DemProofs!FindNoVideo, DemProofs!Notify, DemProofs!BsfInit,
       DemProofs!BsfInitFails, DemProofs!PushExtradata,
       DemProofs!InnerCheck, DemProofs!ReadVideo, DemProofs!ReadAgain,
       DemProofs!ReadEof, DemProofs!PushPacket, DemProofs!PushPacketRefused,
       DemProofs!FilterSend, DemProofs!FilterSendFails,
       DemProofs!FilterReceive, DemProofs!FilterDone, DemProofs!Close,
       DemProofs!Exit, DemProofs!Go, DemProofs!NextRound,
       DemProofs!counters, DemProofs!filter
  <2>2. CASE DemProofs!Owner \/ DemProofs!LinkDown
    <3>1. /\ UNCHANGED <<reads, filtered>>
          /\ UNCHANGED demux_pc \/ demux_pc' = "loop"
      BY <2>2 DEF DemProofs!Owner, DemProofs!Start, DemProofs!Wait,
         DemProofs!WaitSleeps, DemProofs!WaitReturns, DemProofs!Proceed,
         DemProofs!Stop, DemProofs!StopSteps, DemProofs!StopStore,
         DemProofs!StopJoin, DemProofs!StopAbort, DemProofs!LinkDown,
         DemProofs!thread, DemProofs!counters, DemProofs!filter
    <3> QED BY <3>1 DEF Fresh
  <2> QED BY <2>1, <2>2 DEF DemuxerSteps
<1> QED BY <1>1, <1>2 DEF Seen

(* What the demuxer does to the queue: nothing, or it appends a packet     *)
(* that comes after those seen.                                            *)
LEMMA DemuxerAppends ==
  ASSUME DemInv, DemuxerSteps, queue' # queue
  PROVE  \E p \in Seen' : /\ queue' = Append(queue, p)
                          /\ \A x \in Seen : <<x, p>> \in Before
<1> USE DEF DemProofs!announced, DemProofs!counters, DemProofs!connection,
        DemProofs!filter, DemProofs!sent, DemProofs!owner
<1>1. CASE DemProofs!PushPacket \/ DemProofs!FilterReceive
  <2> DEFINE p == DemProofs!ThisPacket
  <2>1. /\ demux_pc \in {"push", "receive"} /\ Fresh /\ ~Fresh' /\ reads' = reads
        /\ queue' = Append(queue, p)
    BY <1>1 DEF DemProofs!PushPacket, DemProofs!FilterReceive, DemProofs!Go,
       DemProofs!Pushed, DemProofs!PushRefused, Fresh
  <2>2. p \in Demuxer!Packets /\ p.n = reads
    BY <2>1, DemuxAssumption, DemProofs!PacketsMade
    DEF DemInv, DemProofs!ThisPacket, DemProofs!Packets, Demuxer!Packets
  <2>3. p \in Seen'
    BY <2>1, <2>2, DemuxAssumption DEF Seen, DemInv, DemProofs!CountInv, DemProofs!Counts
  <2>4. \A x \in Seen : <<x, p>> \in Before
    BY <2>1, <2>2 DEF Seen, Before
  <2> QED BY <2>1, <2>3, <2>4
<1>2. CASE DemProofs!PushExtradata
  <2> DEFINE p == DemProofs!Extradata
  <2>1. /\ demux_pc = "extradata" /\ ~Fresh' /\ reads' = reads
        /\ queue' = Append(queue, p)
    BY <1>2 DEF DemProofs!PushExtradata, DemProofs!Go, DemProofs!Pushed,
       DemProofs!PushRefused, Fresh
  <2>2. p \in Demuxer!Packets /\ p.n = 0
    BY <2>1, DemuxAssumption, DemProofs!PacketsMade
    DEF DemInv, DemProofs!Extradata, DemProofs!Packets, Demuxer!Packets
  <2>3. p \in Seen'
    BY <2>1, <2>2, DemuxAssumption DEF Seen, DemInv, DemProofs!CountInv, DemProofs!Counts
  <2>4. \A x \in Seen : <<x, p>> \in Before
    BY <2>2 DEF Seen, Before
  <2> QED BY <2>1, <2>3, <2>4
<1>3. DemProofs!PushPacket \/ DemProofs!FilterReceive \/ DemProofs!PushExtradata
  BY DEF DemuxerSteps, DemProofs!DemuxThread, DemProofs!LoopCheck,
     DemProofs!OpenFails, DemProofs!Opens, DemProofs!FindVideo,
     DemProofs!FindNoVideo, DemProofs!Notify, DemProofs!BsfInit,
     DemProofs!BsfInitFails, DemProofs!InnerCheck, DemProofs!ReadVideo,
     DemProofs!ReadAgain, DemProofs!ReadEof, DemProofs!PushPacketRefused,
     DemProofs!PushRefused, DemProofs!FilterSend, DemProofs!FilterSendFails,
     DemProofs!FilterDone, DemProofs!Close, DemProofs!Exit,
     DemProofs!Owner, DemProofs!Start, DemProofs!Wait,
     DemProofs!WaitSleeps, DemProofs!WaitReturns, DemProofs!Proceed,
     DemProofs!Stop, DemProofs!StopSteps, DemProofs!StopStore,
     DemProofs!StopJoin, DemProofs!StopAbort, DemProofs!LinkDown,
     DemProofs!thread
<1> QED BY <1>1, <1>2, <1>3

(* All lines but the queue are the decoder's.                              *)
LEMMA OtherLines ==
  ASSUME UNCHANGED decodeVars
  PROVE  /\ \A k \in 1..5 : DecProofs!Lines'[k] = DecProofs!Lines[k]
         /\ DecProofs!Lines[6] = queue /\ DecProofs!Lines'[6] = queue'
         /\ queue' = queue => DecProofs!Lines' = DecProofs!Lines
         /\ DecProofs!Framed => DecProofs!Framed'
<1>1. UNCHANGED <<processed, DecProofs!HeldLine, DecProofs!PacketsOf(filled),
                  DecProofs!PacketsOf(out_queue), DecProofs!HandLine>>
  BY DEF decodeVars, DecProofs!HeldLine, DecProofs!HandLine, DecProofs!PacketsOf
<1>2. DecProofs!Framed => DecProofs!Framed'
  BY DEF decodeVars, DecProofs!Framed
<1> QED BY <1>1, <1>2 DEF DecProofs!Lines

LEMMA OrderStep == DemInv /\ DecInv /\ OrderInv /\ [Next]_vars => OrderInv'
<1> SUFFICES ASSUME DemInv, DecInv, OrderInv, [Next]_vars PROVE OrderInv'
  OBVIOUS
<1>1. /\ DecProofs!InLine(Seen, Before, DecProofs!Lines) /\ DecProofs!Framed
      /\ DecProofs!DataInv
  BY DEF OrderInv, DecInv
<1>2. DecProofs!LineTypes(DecProofs!Lines)
  BY <1>1, DecodeAssumption, DecProofs!LinesTyped
<1>3. Before' = Before
  BY DEF Before, Demuxer!Packets
<1>4. CASE DecoderSteps
  <2>1. DecProofs!Advances
    BY <1>1, <1>4, DecodeAssumption, DecProofs!DecodeAdvances,
       DecProofs!CaptureAdvances, DecProofs!DriverAdvances, DecProofs!OwnerAdvances
    DEF DecoderSteps
  <2>2. DecProofs!InLine(Seen, Before, DecProofs!Lines')
    BY <1>1, <2>1, DecodeAssumption, DecProofs!AdvanceKeepsLines
  <2>3. Seen' = Seen
    BY <1>4 DEF DecoderSteps, demuxVars, Seen, Fresh, Demuxer!Packets
  <2>4. DecProofs!Framed'
    BY <1>1, <1>4, DecodeAssumption, DecProofs!FramedStep DEF DecoderSteps, DecProofs!Next
  <2> QED BY <1>3, <2>2, <2>3, <2>4 DEF OrderInv
<1>5. CASE DemuxerSteps
  <2>1. Seen \subseteq Seen' /\ UNCHANGED decodeVars
    BY <1>5, SeenGrows DEF DemuxerSteps
  <2>2. DecProofs!InLine(Seen', Before, DecProofs!Lines')
    <3>1. CASE queue' = queue
      BY <1>1, <2>1, <3>1, OtherLines, DecodeAssumption, DecProofs!WiderKeepsLines
    <3>2. CASE queue' # queue
      <4>1. PICK p \in Seen' : /\ queue' = Append(queue, p)
                               /\ \A x \in Seen : <<x, p>> \in Before
        BY <1>5, <3>2, DemuxerAppends
      <4>2. p \in Demuxer!Packets
        BY DEF Seen, Demuxer!Packets
      <4> QED BY <1>1, <1>2, <2>1, <4>1, <4>2, OtherLines, DecodeAssumption,
              DecProofs!FeedKeepsLines
    <3> QED BY <3>1, <3>2
  <2>3. DecProofs!Framed'
    BY <1>1, <2>1, OtherLines
  <2> QED BY <1>3, <2>2, <2>3 DEF OrderInv
<1>6. CASE DestroyQueue \/ Idle
  <2>1. UNCHANGED <<demuxVars, decodeVars>> /\ queue' \in {queue, <<>>}
    BY <1>6 DEF DestroyQueue, Idle, queueVars
  <2>2. Seen' = Seen
    BY <2>1 DEF demuxVars, Seen, Fresh, Demuxer!Packets
  <2>3. DecProofs!Drops(DecProofs!Lines, DecProofs!Lines')
    <3>1. /\ \A k \in 1..5 : DecProofs!Lines'[k] = DecProofs!Lines[k]
          /\ DecProofs!Lines'[6] \in {DecProofs!Lines[6], <<>>}
      BY <2>1, OtherLines
    <3> QED BY <3>1 DEF DecProofs!Drops
  <2>4. DecProofs!InLine(Seen, Before, DecProofs!Lines')
    BY <1>1, <1>2, <2>3, DecodeAssumption, DecProofs!DropKeepsLines
  <2>5. DecProofs!Framed'
    BY <1>1, <2>1, OtherLines
  <2> QED BY <1>3, <2>2, <2>4, <2>5 DEF OrderInv
<1> QED BY <1>4, <1>5, <1>6, StepOfOne

(* Frames are saved in the order in which their packets were read, across  *)
(* reconnections, and none is saved twice.                                 *)
THEOREM SavedInOrderCorrect == SafeSpec => []SavedInOrder
<1>1. OrderInv /\ DecInv => SavedInOrder
  <2> SUFFICES ASSUME OrderInv, DecInv,
                      NEW i \in DOMAIN processed, NEW j \in DOMAIN processed, i < j
               PROVE  processed[i].n < processed[j].n
    BY DEF SavedInOrder
  <2>1. /\ DecProofs!Lines[1] = processed
        /\ i \in 1..Len(processed) /\ j \in 1..Len(processed)
    BY DEF DecProofs!Lines, DecInv, DecProofs!DataInv, DecProofs!Captured
  <2>2. <<processed[i], processed[j]>> \in Before
    BY <2>1 DEF OrderInv, DecProofs!InLine
  <2>3. processed[j].n > 0
    BY <2>1 DEF OrderInv, DecProofs!Framed, IsFrame
  <2> QED BY <2>2, <2>3 DEF Before
<1> QED BY <1>1, OrderInit, OrderStep, Components, PTL DEF SafeSpec
-----------------------------------------------------------------------------
(* What the components guarantee, in the program.                          *)

(* The program uses the demuxer, and its decoder takes packets, as         *)
(* VideoDemuxer allows: but for ~PacketQueue, which comes when the demuxer *)
(* has been destroyed, every behaviour of the program is one of it.        *)
THEOREM DemuxerImplemented ==
  SafeSpec => /\ Demuxer!Init
              /\ [][Demuxer!Next \/ (DestroyQueue /\ caller = "destroyed")]_(Demuxer!vars)
<1>1. Init => Demuxer!Init
  BY DEF Init
<1>2. [Next]_vars
      => [Demuxer!Next \/ (DestroyQueue /\ caller = "destroyed")]_(Demuxer!vars)
  <2> SUFFICES ASSUME [Next]_vars
               PROVE  \/ Demuxer!Next \/ (DestroyQueue /\ caller = "destroyed")
                      \/ UNCHANGED Demuxer!vars
    OBVIOUS
  <2>1. UNCHANGED <<queueVars, demuxVars>> => UNCHANGED Demuxer!vars
    BY DEF queueVars, demuxVars, Demuxer!vars, Demuxer!announced, Demuxer!counters,
       Demuxer!connection, Demuxer!filter, Demuxer!sent, Demuxer!owner
  <2>2. CASE \/ StartDemuxer \/ WaitForStream \/ StreamReady \/ NoStreamFound
             \/ StopDemuxer \/ DestroyDemuxer \/ DemuxThread \/ LinkDown
    BY <2>2 DEF StartDemuxer, WaitForStream, StreamReady, NoStreamFound, StopDemuxer,
       DestroyDemuxer, CallsDemuxer, DemuxThread, LinkDown, Demuxer!Next,
       Demuxer!Owner
  <2>3. CASE \/ CreateDecoder \/ StartDecoder \/ StopDecoder \/ DestroyDecoder
             \/ DecodeThread \/ CaptureThread \/ Driver
    <3>1. DecoderSteps
      BY <2>3, DecodeOwnerStep, DecodeThreadStep, CaptureThreadStep, DriverStep
      DEF CreateDecoder, StartDecoder, StopDecoder, DestroyDecoder, CallsDecoder,
          DecodeThread, CaptureThread, Driver, DecoderSteps
    <3>2. DemProofs!Taken => Demuxer!Taken
      BY DEF Demuxer!Taken, Demuxer!announced, Demuxer!counters,
         Demuxer!connection, Demuxer!filter, Demuxer!owner, DemProofs!Taken,
         DemProofs!announced, DemProofs!counters, DemProofs!connection,
         DemProofs!filter, DemProofs!owner
    <3> QED BY <2>1, <3>1, <3>2, DecoderTakes DEF Demuxer!Next
  <2>4. CASE DestroyQueue
    BY <2>4 DEF DestroyQueue
  <2>5. CASE Signal \/ UNCHANGED vars
    BY <2>1, <2>5 DEF Signal, vars
  <2> QED BY <2>2, <2>3, <2>4, <2>5 DEF Next, Main
<1> QED BY <1>1, <1>2, PTL DEF SafeSpec

(* The types of the state, that of both components.                        *)
THEOREM TypeCorrect == SafeSpec => [](Demuxer!TypeOK /\ Decoder!TypeOK)
<1>1. DemInv => Demuxer!TypeOK
  <2> SUFFICES ASSUME DemInv PROVE Demuxer!TypeOK
    OBVIOUS
  <2>1. /\ frame_count \in 0..MaxReads /\ reads \in 0..MaxReads
        /\ conns \in 0..MaxConns
    BY DemuxAssumption
    DEF DemInv, DemProofs!CountInv, DemProofs!Counts, DemProofs!DemuxerAssumption
  <2>2. queue \in Seq(Demuxer!Packets)
    BY DEF DemInv, DemProofs!QueueInv, DemProofs!Queued, DemProofs!Packets,
       Demuxer!Packets
  <2>3. DemProofs!Places /\ DemProofs!Flags /\ DemProofs!Objects
    BY DEF DemInv, DemProofs!ControlInv
  <2>4. last_conn \in 0..MaxConns
    BY DemuxAssumption
    DEF DemInv, DemProofs!QueueInv, DemProofs!Last, DemProofs!DemuxerAssumption
  <2> QED BY <2>1, <2>2, <2>3, <2>4
          DEF Demuxer!TypeOK, DemProofs!Places, DemProofs!Flags, DemProofs!Objects
<1>2. DecInv => Decoder!TypeOK
  <2> SUFFICES ASSUME DecInv PROVE Decoder!TypeOK
    OBVIOUS
  <2>1. DecProofs!Places /\ DecProofs!Flags
    BY DEF DecInv, DecProofs!ControlInv
  <2>2. index \in 0..out_buffers /\ out_buffers \in 0..NumOutput /\ events \in Nat
    BY DecodeAssumption
    DEF DecInv, DecProofs!DataInv, DecProofs!Counters, DecProofs!DecoderAssumption
  <2>3. allocs \in 0..MaxAllocs
    BY DecodeAssumption
    DEF DecInv, DecProofs!DataInv, DecProofs!CapPlane, DecProofs!DecoderAssumption
  <2>4. /\ DecProofs!Decoded /\ DecProofs!OutPlane /\ DecProofs!Captured
        /\ DecProofs!CapPlane /\ DecProofs!Sizes
    BY DEF DecInv, DecProofs!DataInv
  <2>5. <<>> \in Seq(Demuxer!Packets)
    OBVIOUS
  <2> QED BY <2>1, <2>2, <2>3, <2>4, <2>5
          DEF Decoder!TypeOK, Decoder!OutBuffers, Decoder!NoPacket,
              Decoder!NoBuffer, Decoder!NoFrame, Decoder!NoResolution,
              Decoder!Frames, Decoder!Fds, DecProofs!Places, DecProofs!Flags,
              DecProofs!Decoded, DecProofs!OutPlane, DecProofs!OutEntry,
              DecProofs!OutBuffers, DecProofs!Captured, DecProofs!CapPlane,
              DecProofs!Sizes, DecProofs!NoPacket, DecProofs!NoBuffer,
              DecProofs!NoFrame, DecProofs!NoResolution, DecProofs!Frames,
              DecProofs!Fds
<1> QED BY <1>1, <1>2, Components, PTL

(* What VideoDemuxer guarantees of the connection, the counters and the    *)
(* queue holds with main and the decoder around it.                        *)
THEOREM DemuxerGuarantees ==
  SafeSpec => []( /\ Demuxer!ReadyMeansInfo /\ Demuxer!ContextClosed
                  /\ Demuxer!StoppedMeansEnded /\ Demuxer!OneLostPerConnection
                  /\ Demuxer!GapFree )
<1>1. DemInv => /\ Demuxer!ReadyMeansInfo /\ Demuxer!ContextClosed
                /\ Demuxer!StoppedMeansEnded
  BY DEF DemInv, DemProofs!ControlInv, DemProofs!Ready, DemProofs!ReadyMeansInfo,
     DemProofs!ContextClosed, DemProofs!Ended, DemProofs!StoppedMeansEnded,
     Demuxer!ReadyMeansInfo, Demuxer!ContextClosed, Demuxer!StoppedMeansEnded
<1>2. DemInv => Demuxer!OneLostPerConnection
  BY DEF DemInv, DemProofs!CountInv, DemProofs!Counts, DemProofs!Lost,
     Demuxer!OneLostPerConnection
<1>3. DemInv => Demuxer!GapFree
  BY DEF DemInv, DemProofs!QueueInv, DemProofs!GapFree, Demuxer!GapFree
<1> QED BY <1>1, <1>2, <1>3, Components, PTL

(* Each instance of a module that extends FiniteSets has its Cardinality.  *)
LEMMA SameCardinality ==
  ASSUME NEW S
  PROVE  Decoder!Cardinality(S) = DecProofs!Cardinality(S)
  BY DEF Decoder!Cardinality, DecProofs!Cardinality

(* What VideoDecoder guarantees of the capture buffers and their frames    *)
(* holds for the packets of the demuxer.                                   *)
THEOREM DecoderGuarantees ==
  SafeSpec => []( /\ Decoder!CaptureNotShared /\ Decoder!FramesHaveFrameSize
                  /\ Decoder!NoBufferLeak )
<1>1. DecInv => Decoder!CaptureNotShared
  <2> SUFFICES ASSUME DecInv PROVE Decoder!CaptureNotShared
    OBVIOUS
  <2>1. DecProofs!CaptureNotShared
    BY DecodeAssumption, DecProofs!OwnedIsCaptureNotShared
    DEF DecInv, DecProofs!CaptureInv, DecProofs!DataInv
  <2> QED BY <2>1, SameCardinality DEF DecProofs!CaptureNotShared, DecProofs!NoFrame,
                      Decoder!CaptureNotShared, Decoder!NoFrame
<1>2. DecInv => Decoder!FramesHaveFrameSize /\ Decoder!NoBufferLeak
  BY DEF DecInv, DecProofs!CaptureInv, DecProofs!FramesHaveFrameSize, DecProofs!Known,
     DecProofs!AtRest, DecProofs!NoFrame,
     Decoder!FramesHaveFrameSize, Decoder!NoBufferLeak, Decoder!NoFrame
<1> QED BY <1>1, <1>2, Components, PTL

(* processor_ is not called after its Deinit().                            *)
THEOREM ProcessWhileReadyHolds == SafeSpec => Decoder!ProcessWhileReady
<1> DEFINE Allowed == processor = "ready" \/ out_streaming \/ held.fd \in kept
<1>1. DecInv /\ [Next]_vars => [processed' # processed => Allowed]_(Decoder!vars)
  <2> SUFFICES ASSUME DecInv, [Next]_vars, processed' # processed
               PROVE  Allowed
    OBVIOUS
  <2>1. DecoderSteps
    BY StepOfOne DEF DemuxerSteps, DestroyQueue, Idle, decodeVars
  <2>2. DecProofs!Process
    BY <2>1 DEF DecoderSteps, DecProofs!DecodeThread, DecProofs!DecodeLoop,
       DecProofs!Pop, DecProofs!PopRefused, DecProofs!NthBuffer,
       DecProofs!DequeueOutput, DecProofs!DequeueOutputFails,
       DecProofs!RejectPacket, DecProofs!QueueOutput,
       DecProofs!QueueOutputFails, DecProofs!Decoding,
       DecProofs!CaptureThread, DecProofs!FirstLoop, DecProofs!FirstNoEvent,
       DecProofs!FirstEventFails, DecProofs!FirstEvent,
       DecProofs!FirstAllocationFails, DecProofs!CaptureLoop,
       DecProofs!HandleResolutionChange, DecProofs!NoEvent,
       DecProofs!DequeueCapture, DecProofs!DequeueCaptureFails,
       DecProofs!Requeue, DecProofs!RequeueFails, DecProofs!Driver,
       DecProofs!DriverFindsSize, DecProofs!DriverConsumes,
       DecProofs!DriverParses, DecProofs!DriverDecodes,
       DecProofs!application, DecProofs!Owner, DecProofs!InitDecoder,
       DecProofs!Start, DecProofs!Stop, DecProofs!StopSteps,
       DecProofs!StopStore, DecProofs!JoinDecode, DecProofs!JoinCapture,
       DecProofs!Release, DecProofs!others, DecProofs!captureVars
  <2>3. capture_pc = "process"
    BY <2>2 DEF DecProofs!Process, DecProofs!Capturing
  <2> QED BY <2>3 DEF DecInv, DecProofs!ControlInv, DecProofs!Places,
                      DecProofs!CaptureInv, DecProofs!Deinit
<1> QED BY <1>1, Components, PTL DEF SafeSpec, Decoder!ProcessWhileReady

(* While memory lasts, the first packet of every connection is its         *)
(* parameter sets, when its frames do not pass the filter.                 *)
THEOREM HeaderFirstHolds ==
  ASSUME ~AllocMayFail
  PROVE  SafeSpec => Demuxer!HeaderFirst
<1> DEFINE Before1 ==
      \A p \in Demuxer!Packets :
        /\ queue' = Append(queue, p)
        /\ p.n > 0 /\ p.bsf = NoStream /\ p.from \in ExtradataStreams
        => last_conn = p.conn
<1>1. Init => DemProofs!HeaderSent
  BY DemuxInit, DemuxAssumption, DemProofs!HeaderInit DEF Init
<1>2. DemInv /\ DemProofs!HeaderSent /\ [Next]_vars
      => DemProofs!HeaderSent' /\ [Before1]_(Demuxer!vars)
  <2> SUFFICES ASSUME DemInv, DemProofs!HeaderSent, [Next]_vars
               PROVE  DemProofs!HeaderSent' /\ Before1
    OBVIOUS
  <2>1. CASE DestroyQueue
    <3>1. queue' = <<>> /\ abort_request'
      BY <2>1 DEF DestroyQueue
    <3>2. \A p \in Demuxer!Packets : queue' # Append(queue, p)
      <4> SUFFICES ASSUME NEW p \in Demuxer!Packets, queue' = Append(queue, p)
                   PROVE  FALSE
        OBVIOUS
      <4>1. queue \in Seq(DemProofs!Packets)
        BY DEF DemInv, DemProofs!QueueInv, DemProofs!Queued
      <4>2. Append(queue, p) # <<>>
        BY <4>1
      <4> QED BY <3>1, <4>2
    <3> QED BY <3>1, <3>2 DEF DemProofs!HeaderSent
  <2>2. CASE ~DestroyQueue
    <3>1. [DemProofs!Next]_(DemProofs!vars)
      BY <2>2, NextOfDemuxer
    <3>2. DemProofs!HeaderSent' /\ DemProofs!HeaderBefore
      BY <3>1, DemuxAssumption, DemProofs!HeaderStep DEF DemInv
    <3> QED BY <3>2 DEF DemProofs!HeaderBefore, DemProofs!Packets, Demuxer!Packets
  <2> QED BY <2>1, <2>2
<1> QED BY <1>1, <1>2, Components, PTL DEF SafeSpec, Demuxer!HeaderFirst

(* main never destroys a joinable std::thread while the demux thread ends  *)
(* only when it is told to.                                                *)
THEOREM NoTerminateHolds ==
  ASSUME DemProofs!EndsOnlyWhenTold
  PROVE  SafeSpec => []Demuxer!NoTerminate
<1>1. Init => DemProofs!UntilStopped
  BY DemuxInit, DemuxAssumption, DemProofs!UntilStoppedInit DEF Init
<1>2. DemInv /\ DemProofs!UntilStopped /\ [Next]_vars => DemProofs!UntilStopped'
  <2> SUFFICES ASSUME DemInv, DemProofs!UntilStopped, [Next]_vars
               PROVE  DemProofs!UntilStopped'
    OBVIOUS
  <2>1. CASE DestroyQueue
    BY <2>1 DEF DestroyQueue, demuxVars, DemProofs!UntilStopped
  <2>2. CASE ~DestroyQueue
    <3>1. [DemProofs!Next]_(DemProofs!vars)
      BY <2>2, NextOfDemuxer
    <3> QED BY <3>1, DemuxAssumption, DemProofs!UntilStoppedStep DEF DemInv
  <2> QED BY <2>1, <2>2
<1>3. DemProofs!UntilStopped => Demuxer!NoTerminate
  BY DEF DemProofs!UntilStopped, Demuxer!NoTerminate
<1> QED BY <1>1, <1>2, <1>3, Components, PTL DEF SafeSpec

(* A buffer of the output plane is in one place, and none that the decode  *)
(* thread has begun to use is lost, as long as no call fails and every     *)
(* packet of the demuxer fits in the buffers.                              *)
THEOREM OutputOwnedOnceHolds ==
  ASSUME ~MayFail, \A p \in Demuxer!Packets : ~IsRejected(p)
  PROVE  SafeSpec => []Decoder!OutputOwnedOnce
<1>1. DecProofs!NoneLost
  BY DEF DecProofs!NoneLost
<1>2. Init => DecProofs!OutInv
  BY DecodeInit, DecodeAssumption, DecProofs!OutInit DEF Init
<1>3. DecInv /\ DecProofs!OutInv /\ [Next]_vars => DecProofs!OutInv'
  <2> SUFFICES ASSUME DecInv, DecProofs!OutInv, [Next]_vars PROVE DecProofs!OutInv'
    OBVIOUS
  <2>1. CASE DecoderSteps
    <3>1. [DecProofs!Next]_(DecProofs!vars)
      BY <2>1 DEF DecoderSteps, DecProofs!Next
    <3> QED BY <1>1, <3>1, DecodeAssumption, DecProofs!OutStep DEF DecInv
  <2>2. CASE ~DecoderSteps
    <3>1. UNCHANGED decodeVars
      BY <2>2, StepOfOne DEF DemuxerSteps, DestroyQueue, Idle
    <3>2. UNCHANGED <<out_queue, out_done, out_streaming, buffer, index, decode_pc, owner>>
      BY <3>1 DEF decodeVars
    <3> QED BY <3>2, DecodeAssumption, DecProofs!OutUntouched DEF DecProofs!OutInv
  <2> QED BY <2>1, <2>2
<1>4. DecInv /\ DecProofs!OutInv => Decoder!OutputOwnedOnce
  <2> SUFFICES ASSUME DecInv, DecProofs!OutInv PROVE Decoder!OutputOwnedOnce
    OBVIOUS
  <2>1. DecProofs!OutputOwnedOnce
    BY DecodeAssumption, DecProofs!OnceIsOwnedOnce DEF DecInv
  <2> QED BY <2>1, SameCardinality
          DEF DecProofs!OutputOwnedOnce, DecProofs!OutBuffers, DecProofs!Positions,
              Decoder!OutputOwnedOnce, Decoder!OutBuffers, Decoder!Positions
<1> QED BY <1>2, <1>3, <1>4, Components, PTL DEF SafeSpec
-----------------------------------------------------------------------------
(* Where a shutdown hangs for good.  HeldInPop, HeldInDequeue and          *)
(* HeldInPush can pass, as long as someone else works; not in these states *)
(* of them, each of which TLC finds the program in.                        *)

(* Nobody pushes any more, and nobody has aborted the queue.               *)
StuckInPop ==
  /\ HeldInPop
  /\ main = "stop decoder" /\ demux_pc = "ended" /\ ~abort_request

(* The driver has no buffer for the frame that it has to decode next.      *)
StuckInDequeue ==
  /\ HeldInDequeue
  /\ main = "stop decoder" /\ ~MayFail /\ out_streaming /\ ~out_error
  /\ out_queue # <<>> /\ IsFrame(Decoder!HeadPacket(out_queue)) /\ empty = {}

(* Nobody takes packets any more from the full queue.                      *)
StuckInPush ==
  /\ HeldInPush
  /\ main = "stop demuxer" /\ ~abort_request

Stuck == StuckInPop \/ StuckInDequeue \/ StuckInPush

(* Stop of the decoder goes no further while the decode thread runs, and   *)
(* main no further than it.                                                *)
LEMMA JoinHolds ==
  ASSUME main = "stop decoder", owner = "join decode", decode_pc # "ended", Main
  PROVE  FALSE
  BY DEF Main, StartDemuxer, WaitForStream, StreamReady, NoStreamFound, CreateDecoder,
     StartDecoder, StopDecoder, StopDemuxer, DestroyDecoder, DestroyDemuxer,
     DestroyQueue, CallsDemuxer, CallsDecoder, Decoder!StopSteps, Decoder!StopStore,
     Decoder!JoinDecode, Decoder!JoinCapture, Decoder!Release

LEMMA StuckInPopStays == StuckInPop /\ [Next]_vars => StuckInPop'
<1> SUFFICES ASSUME StuckInPop, [Next]_vars PROVE StuckInPop'
  OBVIOUS
<1> USE DEF StuckInPop, HeldInPop
<1> DEFINE unmoved == <<owner, decode_pc, queue, abort_request, main, demux_pc>>
<1>1. ~Main
  BY JoinHolds
<1>2. ~DemuxThread
  BY DEF DemuxThread, Demuxer!DemuxThread, Demuxer!LoopCheck, Demuxer!OpenFails,
     Demuxer!Opens, Demuxer!FindVideo, Demuxer!FindNoVideo, Demuxer!Notify,
     Demuxer!BsfInit, Demuxer!BsfInitFails, Demuxer!PushExtradata,
     Demuxer!InnerCheck, Demuxer!ReadVideo, Demuxer!ReadAgain, Demuxer!ReadEof,
     Demuxer!PushPacket, Demuxer!PushPacketRefused, Demuxer!FilterSend,
     Demuxer!FilterSendFails, Demuxer!FilterReceive, Demuxer!FilterDone,
     Demuxer!Close, Demuxer!Exit, Demuxer!Go
<1>3. ~DecodeThread
  BY DEF DecodeThread, Decoder!DecodeThread, Decoder!DecodeLoop, Decoder!Pop,
     Decoder!PopRefused, Decoder!NthBuffer, Decoder!DequeueOutput,
     Decoder!DequeueOutputFails, Decoder!RejectPacket, Decoder!QueueOutput,
     Decoder!QueueOutputFails, Decoder!Decoding
<1>4. CaptureThread \/ Driver => UNCHANGED unmoved
  BY DEF CaptureThread, Decoder!CaptureThread, Decoder!FirstLoop,
     Decoder!FirstNoEvent, Decoder!FirstEventFails, Decoder!FirstEvent,
     Decoder!FirstAllocationFails, Decoder!CaptureLoop,
     Decoder!HandleResolutionChange, Decoder!NoEvent, Decoder!DequeueCapture,
     Decoder!DequeueCaptureFails, Decoder!Process, Decoder!Requeue,
     Decoder!RequeueFails, Decoder!Capturing, Decoder!decodeVars, Decoder!ownerVars,
     Driver, Decoder!Driver, Decoder!DriverFindsSize, Decoder!DriverConsumes,
     Decoder!DriverParses, Decoder!DriverDecodes, Decoder!application, demuxVars
<1>5. Signal \/ LinkDown \/ UNCHANGED vars => UNCHANGED unmoved
  BY DEF Signal, LinkDown, Demuxer!LinkDown, Demuxer!sent, vars, queueVars, demuxVars,
     decodeVars
<1>6. UNCHANGED unmoved
  BY <1>1, <1>2, <1>3, <1>4, <1>5 DEF Next
<1> QED BY <1>6

LEMMA StuckInDequeueStays ==
  DecInv /\ StuckInDequeue /\ [Next]_vars => StuckInDequeue'
<1> SUFFICES ASSUME DecInv, StuckInDequeue, [Next]_vars PROVE StuckInDequeue'
  OBVIOUS
<1> USE DEF StuckInDequeue, HeldInDequeue, Decoder!StarvedOfOutput
<1> DEFINE unmoved == <<owner, decode_pc, index, out_buffers, out_done, capture_pc, main,
                     out_streaming, out_error, out_queue, empty>>
<1>1. ~Main
  BY JoinHolds
<1>2. out_buffers \in Nat /\ index = out_buffers
  BY DEF DecInv, DecProofs!DataInv, DecProofs!Counters
<1>3. ~(index < out_buffers)
  BY ONLY <1>2
<1>4. ~DecodeThread
  BY <1>3 DEF DecodeThread, Decoder!DecodeThread, Decoder!DecodeLoop, Decoder!Pop,
     Decoder!PopRefused, Decoder!NthBuffer, Decoder!DequeueOutput,
     Decoder!DequeueOutputFails, Decoder!RejectPacket, Decoder!QueueOutput,
     Decoder!QueueOutputFails, Decoder!Decoding
<1>5. ~CaptureThread
  BY DEF CaptureThread, Decoder!CaptureThread, Decoder!FirstLoop,
     Decoder!FirstNoEvent, Decoder!FirstEventFails, Decoder!FirstEvent,
     Decoder!FirstAllocationFails, Decoder!CaptureLoop,
     Decoder!HandleResolutionChange, Decoder!NoEvent, Decoder!DequeueCapture,
     Decoder!DequeueCaptureFails, Decoder!Process, Decoder!Requeue,
     Decoder!RequeueFails, Decoder!Capturing
<1>6. ~Decoder!DriverParses /\ ~Decoder!DriverDecodes
  BY DEF Decoder!DriverParses, Decoder!DriverDecodes
<1>7. Driver => UNCHANGED unmoved
  BY <1>6 DEF Driver, Decoder!Driver, Decoder!DriverFindsSize, Decoder!application,
     Decoder!decodeVars, Decoder!captureVars, Decoder!ownerVars, Decoder!outVars,
     Decoder!capVars
<1>8. DemuxThread \/ Signal \/ LinkDown \/ UNCHANGED vars => UNCHANGED unmoved
  BY DEF DemuxThread, Signal, LinkDown, vars, decodeVars
<1>9. UNCHANGED unmoved
  BY <1>1, <1>4, <1>5, <1>7, <1>8 DEF Next
<1>10. Decoder!HeadPacket(out_queue)' = Decoder!HeadPacket(out_queue)
  BY <1>9 DEF Decoder!HeadPacket
<1> QED BY <1>9, <1>10 DEF IsFrame

LEMMA StuckInPushStays ==
  DemInv /\ DecInv /\ MainInv /\ StuckInPush /\ [Next]_vars => StuckInPush'
<1> SUFFICES ASSUME DemInv, DecInv, MainInv, StuckInPush, [Next]_vars
             PROVE  StuckInPush'
  OBVIOUS
<1> USE DEF StuckInPush, HeldInPush, Demuxer!Pushing
<1> DEFINE unmoved == <<caller, demux_pc, queue, abort_request, main, filtered, bsf, fmt_ctx>>
<1>1. joinable /\ demux_pc # "ended"
  BY DEF DemInv, DemProofs!ControlInv, DemProofs!Ended, DemProofs!StoppedMeansEnded
<1>2. decode_pc = "none" /\ owner = "idle"
  BY DEF MainInv, DecInv, DecProofs!ControlInv, DecProofs!Threads, DecProofs!Stopped
<1>3. ~Main
  BY <1>1 DEF Main, StartDemuxer, WaitForStream, StreamReady, NoStreamFound,
     CreateDecoder, StartDecoder, StopDecoder, StopDemuxer, DestroyDecoder,
     DestroyDemuxer, DestroyQueue, CallsDemuxer, CallsDecoder, Demuxer!StopSteps,
     Demuxer!StopStore, Demuxer!StopJoin, Demuxer!StopAbort
<1>4. ~DecodeThread
  BY <1>2 DEF DecodeThread, Decoder!DecodeThread, Decoder!DecodeLoop, Decoder!Pop,
     Decoder!PopRefused, Decoder!NthBuffer, Decoder!DequeueOutput,
     Decoder!DequeueOutputFails, Decoder!RejectPacket, Decoder!QueueOutput,
     Decoder!QueueOutputFails, Decoder!Decoding
<1>5. MaxSize \in Nat /\ Len(queue) = MaxSize
  BY PipelineAssumption DEF Demuxer!DemuxerAssumption
<1>6. (\A p : ~Demuxer!Pushed(p)) /\ ~Demuxer!PushRefused
  <2>1. ~(Len(queue) < MaxSize)
    BY ONLY <1>5
  <2> QED BY <2>1 DEF Demuxer!Pushed, Demuxer!PushRefused
<1>7. ~DemuxThread
  BY <1>6 DEF DemuxThread, Demuxer!DemuxThread, Demuxer!LoopCheck, Demuxer!OpenFails,
     Demuxer!Opens, Demuxer!FindVideo, Demuxer!FindNoVideo, Demuxer!Notify,
     Demuxer!BsfInit, Demuxer!BsfInitFails, Demuxer!PushExtradata,
     Demuxer!InnerCheck, Demuxer!ReadVideo, Demuxer!ReadAgain, Demuxer!ReadEof,
     Demuxer!PushPacket, Demuxer!PushPacketRefused, Demuxer!FilterSend,
     Demuxer!FilterSendFails, Demuxer!FilterReceive, Demuxer!FilterDone,
     Demuxer!Close, Demuxer!Exit, Demuxer!Go
<1>8. CaptureThread \/ Driver => UNCHANGED unmoved
  BY DEF CaptureThread, Decoder!CaptureThread, Decoder!FirstLoop,
     Decoder!FirstNoEvent, Decoder!FirstEventFails, Decoder!FirstEvent,
     Decoder!FirstAllocationFails, Decoder!CaptureLoop,
     Decoder!HandleResolutionChange, Decoder!NoEvent, Decoder!DequeueCapture,
     Decoder!DequeueCaptureFails, Decoder!Process, Decoder!Requeue,
     Decoder!RequeueFails, Decoder!Capturing,
     Driver, Decoder!Driver, Decoder!DriverFindsSize, Decoder!DriverConsumes,
     Decoder!DriverParses, Decoder!DriverDecodes, Decoder!application, demuxVars
<1>9. Signal \/ LinkDown \/ UNCHANGED vars => UNCHANGED unmoved
  BY DEF Signal, LinkDown, Demuxer!LinkDown, Demuxer!filter, Demuxer!sent, Demuxer!owner,
     vars, queueVars, demuxVars
<1>10. UNCHANGED unmoved
  BY <1>3, <1>4, <1>7, <1>8, <1>9 DEF Next
<1> QED BY <1>10 DEF Demuxer!NeedsExtradata

(* A shutdown that has come to one of these states is never completed: the *)
(* program stays in it, whatever its threads, the driver and the network   *)
(* do, and main does not return.                                           *)
THEOREM HeldForGood == SafeSpec => [](Stuck => []Stuck /\ [](main # "returned"))
<1>1. DemInv /\ DecInv /\ MainInv /\ Stuck /\ [Next]_vars => Stuck'
  BY StuckInPopStays, StuckInDequeueStays, StuckInPushStays DEF Stuck
<1>2. Stuck => main # "returned"
  BY DEF Stuck, StuckInPop, StuckInDequeue, StuckInPush
<1> QED BY <1>1, <1>2, Components, MainGoes, PTL DEF SafeSpec
=============================================================================
