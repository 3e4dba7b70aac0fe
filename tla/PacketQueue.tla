---------------------------- MODULE PacketQueue ----------------------------
(***************************************************************************)
(* core/PacketQueue.h: the queue between the demux thread and the decode   *)
(* thread, as it is built from one mutex (mutex_) and two condition        *)
(* variables (cond_push_, cond_pop_).                                      *)
(*                                                                         *)
(* A thread inside an operation is "entering" (it wants mutex_, for the    *)
(* first time or after a wake-up), "holding" (it owns mutex_) or "waiting" *)
(* (blocked on the condition variable of its operation, mutex_ released).  *)
(* Everything a thread does while it holds the mutex, up to the unlock or  *)
(* to the wait, is one action.  wait(lock, pred) evaluates pred again      *)
(* after every wake-up, wake-ups can be spurious, and notify_one wakes any *)
(* one waiter.                                                             *)
(*                                                                         *)
(* The state shared with PacketChannel has the same names there, so that   *)
(* the refinement mapping is the identity: it forgets pc and mutex.        *)
(***************************************************************************)
EXTENDS Naturals, Sequences, FiniteSets

CONSTANTS
  Packets, Blank, Producers, Consumers, Controllers, MaxSize, AllocMayFail,
  NoThread       \* the owner of a free mutex

VARIABLES
  queue, abort_request, call, pkt, fresh, freed,
  mutex,         \* the thread that owns mutex_, or NoThread
  pc             \* where each thread is in its operation

Channel == INSTANCE PacketChannel

Threads == Producers \cup Consumers \cup Controllers

ASSUME QueueAssumption ==
  /\ MaxSize \in Nat \ {0}
  /\ Blank \notin Packets
  /\ AllocMayFail \in BOOLEAN
  /\ Producers \cap Consumers = {}
  /\ (Producers \cup Consumers) \cap Controllers = {}
  /\ NoThread \notin Threads

vars == <<queue, abort_request, call, pkt, fresh, freed, mutex, pc>>

(* Types of the queue's state and of the threads' places.                  *)
TypeOK ==
  /\ Channel!TypeOK
  /\ mutex \in Threads \cup {NoThread}
  /\ pc \in [Threads -> {"outside", "entering", "holding", "waiting"}]

Init ==
  /\ Channel!Init
  /\ mutex = NoThread
  /\ pc = [t \in Threads |-> "outside"]

-----------------------------------------------------------------------------
(* Calling and returning.                                                  *)

Ask(t) ==
  /\ \/ Channel!AskPush(t)
     \/ \E kind \in {"pop", "trypop"} : Channel!AskPop(t, kind)
     \/ \E kind \in {"flush", "abort"} : Channel!AskControl(t, kind)
  /\ pc' = [pc EXCEPT ![t] = "entering"]
  /\ UNCHANGED mutex

Finish(t) == Channel!Finish(t) /\ UNCHANGED <<mutex, pc>>

-----------------------------------------------------------------------------
(* mutex_ and the condition variables.                                     *)

(* std::unique_lock lock(mutex_), and the re-acquisition inside wait().    *)
Acquire(t) ==
  /\ pc[t] = "entering"
  /\ mutex = NoThread
  /\ mutex' = t
  /\ pc' = [pc EXCEPT ![t] = "holding"]
  /\ UNCHANGED <<queue, abort_request, call, pkt, fresh, freed>>

WaitingPush == {t \in Producers : pc[t] = "waiting"}
WaitingPop  == {t \in Consumers : pc[t] = "waiting"}

(* The operation of t is over: its lock is released, and the threads in    *)
(* woken, which it has notified, go for the mutex.                         *)
Leave(t, woken) ==
  /\ mutex' = NoThread
  /\ pc' = [u \in Threads |-> IF u = t THEN "outside"
                              ELSE IF u \in woken THEN "entering"
                              ELSE pc[u]]

(* Defect: the notification is left out.                                   *)
NotifyNobody(waiters) == {{}}

(* notify_one wakes one waiter, whichever, if there is any.                *)
NotifyOne(waiters) == IF waiters = {} THEN {{}} ELSE {{w} : w \in waiters}

(* The wait of cond_push_ or cond_pop_: release the mutex and block.       *)
Block(t) ==
  /\ mutex' = NoThread
  /\ pc' = [pc EXCEPT ![t] = "waiting"]
  /\ UNCHANGED <<queue, abort_request, call, pkt, fresh, freed>>

Spurious(t) ==
  /\ pc[t] = "waiting"
  /\ pc' = [pc EXCEPT ![t] = "entering"]
  /\ UNCHANGED <<queue, abort_request, call, pkt, fresh, freed, mutex>>

-----------------------------------------------------------------------------
(* push(), pop(), flush() and abort(), with the mutex held.                *)

Holding(t) == pc[t] = "holding"

(* Defect: off by one.                                                     *)
MayPushOneMore == Len(queue) <= MaxSize \/ abort_request

MayPush == Len(queue) < MaxSize \/ abort_request
MayPop  == queue # <<>> \/ abort_request

PushBlock(t) == Holding(t) /\ call[t] = "push" /\ ~MayPush /\ Block(t)

PushAborted(t) ==
  /\ Holding(t) /\ call[t] = "push" /\ MayPush
  /\ abort_request
  /\ call' = [call EXCEPT ![t] = "false"]
  /\ Leave(t, {})
  /\ UNCHANGED <<queue, abort_request, pkt, fresh, freed>>

(* av_packet_alloc() returned null.                                        *)
PushNoPacket(t) ==
  /\ Holding(t) /\ call[t] = "push" /\ MayPush
  /\ ~abort_request
  /\ AllocMayFail
  /\ call' = [call EXCEPT ![t] = "false"]
  /\ Leave(t, {})
  /\ UNCHANGED <<queue, abort_request, pkt, fresh, freed>>

(* Defect: new_pkt is not freed when queue_.push throws.                   *)
PushThrowsLeaks(t) ==
  /\ Holding(t) /\ call[t] = "push" /\ MayPush
  /\ ~abort_request
  /\ AllocMayFail
  /\ call' = [call EXCEPT ![t] = "false"]
  /\ pkt' = [pkt EXCEPT ![t] = Blank]
  /\ Leave(t, {})
  /\ UNCHANGED <<queue, abort_request, fresh, freed>>

(* queue_.push threw after av_packet_move_ref: av_packet_free(&new_pkt).   *)
PushThrows(t) ==
  /\ Holding(t) /\ call[t] = "push" /\ MayPush
  /\ ~abort_request
  /\ AllocMayFail
  /\ call' = [call EXCEPT ![t] = "false"]
  /\ pkt' = [pkt EXCEPT ![t] = Blank]
  /\ freed' = freed \cup Channel!Content(pkt[t])
  /\ Leave(t, {})
  /\ UNCHANGED <<queue, abort_request, fresh>>

(* Defect: the AVPacket that was moved from is queued.                     *)
PushDoneMovedFrom(t) ==
  /\ Holding(t) /\ call[t] = "push" /\ MayPush
  /\ ~abort_request
  /\ queue' = Append(queue, Blank)
  /\ pkt' = [pkt EXCEPT ![t] = Blank]
  /\ call' = [call EXCEPT ![t] = "true"]
  /\ \E woken \in NotifyOne(WaitingPop) : Leave(t, woken)
  /\ UNCHANGED <<abort_request, fresh, freed>>

PushDone(t) ==
  /\ Holding(t) /\ call[t] = "push" /\ MayPush
  /\ ~abort_request
  /\ queue' = Append(queue, pkt[t])
  /\ pkt' = [pkt EXCEPT ![t] = Blank]
  /\ call' = [call EXCEPT ![t] = "true"]
  /\ \E woken \in NotifyOne(WaitingPop) : Leave(t, woken)
  /\ UNCHANGED <<abort_request, fresh, freed>>

PopBlock(t) == Holding(t) /\ call[t] = "pop" /\ ~MayPop /\ Block(t)

PopRefused(t) ==
  /\ Holding(t)
  /\ call[t] = "trypop" \/ (call[t] = "pop" /\ MayPop)
  /\ abort_request \/ queue = <<>>
  /\ call' = [call EXCEPT ![t] = "false"]
  /\ Leave(t, {})
  /\ UNCHANGED <<queue, abort_request, pkt, fresh, freed>>

PopDone(t) ==
  /\ Holding(t)
  /\ call[t] = "trypop" \/ (call[t] = "pop" /\ MayPop)
  /\ ~abort_request /\ queue # <<>>
  /\ queue' = Tail(queue)
  /\ pkt' = [pkt EXCEPT ![t] = Head(queue)]
  /\ freed' = freed \cup Channel!Content(pkt[t])
  /\ call' = [call EXCEPT ![t] = "true"]
  /\ \E woken \in NotifyOne(WaitingPush) : Leave(t, woken)
  /\ UNCHANGED <<abort_request, fresh>>

(* Defect: notify_one instead of notify_all.                               *)
FlushNotifiesOne(t) ==
  /\ Holding(t) /\ call[t] = "flush"
  /\ freed' = freed \cup Channel!Contents(queue)
  /\ queue' = <<>>
  /\ call' = [call EXCEPT ![t] = "idle"]
  /\ \E woken \in NotifyOne(WaitingPush) : Leave(t, woken)
  /\ UNCHANGED <<abort_request, pkt, fresh>>

Flush(t) ==
  /\ Holding(t) /\ call[t] = "flush"
  /\ freed' = freed \cup Channel!Contents(queue)
  /\ queue' = <<>>
  /\ call' = [call EXCEPT ![t] = "idle"]
  /\ Leave(t, WaitingPush)
  /\ UNCHANGED <<abort_request, pkt, fresh>>

(* Defect: abort() notifies cond_pop_ only.                                *)
AbortPopOnly(t) ==
  /\ Holding(t) /\ call[t] = "abort"
  /\ abort_request' = TRUE
  /\ call' = [call EXCEPT ![t] = "idle"]
  /\ Leave(t, WaitingPop)
  /\ UNCHANGED <<queue, pkt, fresh, freed>>

Abort(t) ==
  /\ Holding(t) /\ call[t] = "abort"
  /\ abort_request' = TRUE
  /\ call' = [call EXCEPT ![t] = "idle"]
  /\ Leave(t, WaitingPop \cup WaitingPush)
  /\ UNCHANGED <<queue, pkt, fresh, freed>>

(* What a thread does with the mutex in hand.                              *)
Critical(t) ==
  \/ PushBlock(t) \/ PushAborted(t) \/ PushNoPacket(t) \/ PushThrows(t)
  \/ PushDone(t)
  \/ PopBlock(t) \/ PopRefused(t) \/ PopDone(t)
  \/ Flush(t) \/ Abort(t)

Next ==
  \E t \in Threads :
    Ask(t) \/ Finish(t) \/ Acquire(t) \/ Spurious(t) \/ Critical(t)

(* A thread that owns the mutex is scheduled; one that competes for it is  *)
(* not passed over for ever.  Nothing makes a caller call.                 *)
Fairness ==
  \A t \in Threads : WF_vars(Critical(t)) /\ SF_vars(Acquire(t))

SafeSpec == Init /\ [][Next]_vars

Spec == SafeSpec /\ Fairness

-----------------------------------------------------------------------------
(* Properties.                                                             *)

(* The queue never exceeds max_size_, whatever wakes the pushers up.       *)
Bounded == Len(queue) <= MaxSize

(* Ownership: a packet is in one place only (no double free, no use after  *)
(* free) and always in some place (no leak), whichever of the paths of     *)
(* push(), pop() and flush() its callers took.                             *)
Ownership == Channel!InOnePlace /\ Channel!Placed

(* Once abort() has run nobody is blocked on either condition variable.    *)
AbortLeavesNoWaiter == abort_request => WaitingPush \cup WaitingPop = {}

(* No lost wake-up: while a thread is blocked in pop() there are at least  *)
(* as many consumers on their way to the queue as there are packets in it, *)
(* and while one is blocked in push() as many producers as free places.    *)
(* (A push that runs out of memory uses up a wake-up: with AllocMayFail    *)
(* the second half needs a single producer, as in main.cpp.)               *)
Coming(S) == {t \in S : pc[t] \in {"entering", "holding"}}

NoLostPopWakeup ==
  ~abort_request /\ WaitingPop # {} => Len(queue) <= Cardinality(Coming(Consumers))

NoLostPushWakeup ==
  ~abort_request /\ WaitingPush # {}
    => MaxSize - Len(queue) <= Cardinality(Coming(Producers))

(* The implementation keeps the promise of PacketChannel: its operations   *)
(* are indivisible for the callers, abort() releases all of them, and with *)
(* one producer and one consumer no wake-up goes astray: a push() that     *)
(* finds room, or a pop() that finds a packet, returns.                    *)
ImplementsChannel == Channel!Spec
=============================================================================
