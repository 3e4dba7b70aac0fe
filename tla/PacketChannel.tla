--------------------------- MODULE PacketChannel ---------------------------
(***************************************************************************)
(* What core/PacketQueue.h promises its callers, with no mutex and no      *)
(* condition variable in sight: a bounded FIFO of AVPackets whose every    *)
(* operation takes effect in one indivisible step between its call and its *)
(* return, and whose abort() releases every caller.                        *)
(*                                                                         *)
(* A packet is always owned by exactly one party: it is still to be read   *)
(* (fresh), in the AVPacket of a calling thread (pkt), in the queue, or    *)
(* released (freed).  av_packet_move_ref moves it, av_packet_unref and     *)
(* av_packet_free release it.                                              *)
(***************************************************************************)
EXTENDS Naturals, Sequences, FiniteSets

CONSTANTS
  Packets,       \* the contents an AVPacket can refer to
  Blank,         \* an AVPacket that refers to nothing
  Producers,     \* threads that push
  Consumers,     \* threads that pop
  Controllers,   \* threads that flush and abort
  MaxSize,       \* max_size_
  AllocMayFail   \* whether av_packet_alloc and std::queue::push can fail

Threads == Producers \cup Consumers \cup Controllers

VARIABLES
  queue,          \* queue_
  abort_request,  \* abort_request_
  call,           \* what each thread asked for, or the answer it got
  pkt,            \* the AVPacket each thread passes
  fresh,          \* packets nobody has read yet
  freed           \* packets released

channelVars == <<queue, abort_request, call, pkt, fresh, freed>>

PopCalls == {"pop", "trypop"}                      \* pop(pkt), pop(pkt, false)
Calls    == {"push", "flush", "abort"} \cup PopCalls
Answers  == {"true", "false"}

(* The packets an AVPacket's content stands for: none when it is blank.    *)
Content(x) == {x} \ {Blank}

Contents(q) == {q[i] : i \in DOMAIN q}

(* Types of the channel's state.                                           *)
TypeOK ==
  /\ queue \in Seq(Packets)
  /\ abort_request \in BOOLEAN
  /\ call \in [Threads -> {"idle"} \cup Calls \cup Answers]
  /\ pkt \in [Threads -> Packets \cup {Blank}]
  /\ fresh \in SUBSET Packets
  /\ freed \in SUBSET Packets

Init ==
  /\ queue = <<>>
  /\ abort_request = FALSE
  /\ call = [t \in Threads |-> "idle"]
  /\ pkt = [t \in Threads |-> Blank]
  /\ fresh = Packets
  /\ freed = {}

-----------------------------------------------------------------------------
(* The callers, as VideoDemuxer::DemuxLoop, VideoDecoder::DecodeThreadFunc *)
(* and main use the queue.                                                 *)

(* A producer has read a packet and pushes it.                             *)
AskPush(t) ==
  /\ t \in Producers
  /\ call[t] = "idle"
  /\ \E p \in fresh :
       /\ pkt' = [pkt EXCEPT ![t] = p]
       /\ fresh' = fresh \ {p}
  /\ call' = [call EXCEPT ![t] = "push"]
  /\ UNCHANGED <<queue, abort_request, freed>>

AskPop(t, kind) ==
  /\ t \in Consumers
  /\ call[t] = "idle"
  /\ call' = [call EXCEPT ![t] = kind]
  /\ UNCHANGED <<queue, abort_request, pkt, fresh, freed>>

AskControl(t, kind) ==
  /\ t \in Controllers
  /\ call[t] = "idle"
  /\ call' = [call EXCEPT ![t] = kind]
  /\ UNCHANGED <<queue, abort_request, pkt, fresh, freed>>

(* The caller has seen the answer.  A producer that was refused and a      *)
(* consumer that was served both av_packet_unref what they hold.           *)
Finish(t) ==
  /\ call[t] \in Answers
  /\ call' = [call EXCEPT ![t] = "idle"]
  /\ pkt' = [pkt EXCEPT ![t] = Blank]
  /\ freed' = freed \cup Content(pkt[t])
  /\ UNCHANGED <<queue, abort_request, fresh>>

Caller(t) ==
  \/ AskPush(t)
  \/ \E kind \in PopCalls : AskPop(t, kind)
  \/ \E kind \in {"flush", "abort"} : AskControl(t, kind)
  \/ Finish(t)

-----------------------------------------------------------------------------
(* The operations, each one indivisible step.                              *)

Push(t) ==
  /\ call[t] = "push"
  /\ ~abort_request
  /\ Len(queue) < MaxSize
  /\ queue' = Append(queue, pkt[t])
  /\ pkt' = [pkt EXCEPT ![t] = Blank]
  /\ call' = [call EXCEPT ![t] = "true"]
  /\ UNCHANGED <<abort_request, fresh, freed>>

(* A push is refused when the queue is aborted, or when memory runs out;   *)
(* the packet stays with the caller.                                       *)
PushRefused(t) ==
  /\ call[t] = "push"
  /\ abort_request \/ (AllocMayFail /\ Len(queue) < MaxSize)
  /\ call' = [call EXCEPT ![t] = "false"]
  /\ UNCHANGED <<queue, abort_request, pkt, fresh, freed>>

(* std::queue::push threw: the packet had already moved, and is released.  *)
PushDropped(t) ==
  /\ call[t] = "push"
  /\ AllocMayFail
  /\ ~abort_request
  /\ Len(queue) < MaxSize
  /\ call' = [call EXCEPT ![t] = "false"]
  /\ pkt' = [pkt EXCEPT ![t] = Blank]
  /\ freed' = freed \cup Content(pkt[t])
  /\ UNCHANGED <<queue, abort_request, fresh>>

Pop(t) ==
  /\ call[t] \in PopCalls
  /\ ~abort_request
  /\ queue # <<>>
  /\ queue' = Tail(queue)
  /\ pkt' = [pkt EXCEPT ![t] = Head(queue)]
  /\ freed' = freed \cup Content(pkt[t])
  /\ call' = [call EXCEPT ![t] = "true"]
  /\ UNCHANGED <<abort_request, fresh>>

(* A pop fails after abort(), and a non-blocking one on an empty queue.    *)
PopRefused(t) ==
  /\ call[t] \in PopCalls
  /\ abort_request \/ (call[t] = "trypop" /\ queue = <<>>)
  /\ call' = [call EXCEPT ![t] = "false"]
  /\ UNCHANGED <<queue, abort_request, pkt, fresh, freed>>

Flush(t) ==
  /\ call[t] = "flush"
  /\ freed' = freed \cup Contents(queue)
  /\ queue' = <<>>
  /\ call' = [call EXCEPT ![t] = "idle"]
  /\ UNCHANGED <<abort_request, pkt, fresh>>

Abort(t) ==
  /\ call[t] = "abort"
  /\ abort_request' = TRUE
  /\ call' = [call EXCEPT ![t] = "idle"]
  /\ UNCHANGED <<queue, pkt, fresh, freed>>

Operation(t) ==
  \/ Push(t) \/ PushRefused(t) \/ PushDropped(t)
  \/ Pop(t) \/ PopRefused(t)
  \/ Flush(t) \/ Abort(t)

Next == \E t \in Threads : Caller(t) \/ Operation(t)

SafeSpec == Init /\ [][Next]_channelVars

(* With one thread on each side, as in main.cpp, no call blocks for longer *)
(* than what it waits for: an operation that stays possible is performed,  *)
(* and after abort() every pending call is answered.                       *)
Spec == SafeSpec /\ \A t \in Threads : WF_channelVars(Operation(t))

-----------------------------------------------------------------------------
(* Properties.                                                             *)

Distinct(q) == \A i, j \in DOMAIN q : q[i] = q[j] => i = j

(* No packet is in two places: of two owners, one would free what the      *)
(* other still uses.                                                       *)
InOnePlace ==
  /\ fresh \cap freed = {}
  /\ (fresh \cup freed) \cap Contents(queue) = {}
  /\ Distinct(queue)
  /\ \A t \in Threads : pkt[t] # Blank =>
       /\ pkt[t] \notin fresh \cup freed \cup Contents(queue)
       /\ \A u \in Threads : pkt[u] = pkt[t] => u = t

(* Every packet is in some place: one that nobody owns has leaked.         *)
Placed ==
  \A p \in Packets :
    \/ p \in fresh \cup freed \cup Contents(queue)
    \/ \E t \in Threads : pkt[t] = p
=============================================================================
