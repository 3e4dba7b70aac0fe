---------------------- MODULE PacketQueueWakeupProofs ----------------------
(***************************************************************************)
(* No wake-up of PacketQueue is lost, for any capacity and any finite      *)
(* number of threads.  The argument counts the threads on their way to the *)
(* queue: each step that makes a packet (or a place) available while       *)
(* somebody sleeps sends one of the sleepers on its way, and each thread   *)
(* that arrives takes one, or finds that there is none.                    *)
(***************************************************************************)
EXTENDS PacketQueueProofs

LEMMA ComingFinite ==
  ASSUME NEW S, IsFiniteSet(S)
  PROVE  /\ IsFiniteSet(Coming(S)) /\ Cardinality(Coming(S)) \in Nat
         /\ IsFiniteSet(Coming(S)') /\ Cardinality(Coming(S)') \in Nat
<1>1. Coming(S) \in SUBSET S /\ Coming(S)' \in SUBSET S
  BY DEF Coming
<1> QED BY <1>1, FS_Subset, FS_CardinalityType

(* More threads come, or the same.                                         *)
LEMMA MoreComing ==
  ASSUME NEW S, IsFiniteSet(S), Coming(S) \subseteq Coming(S)'
  PROVE  Cardinality(Coming(S)) <= Cardinality(Coming(S)')
<1>1. Coming(S) \in SUBSET Coming(S)'
  OBVIOUS
<1> QED BY <1>1, ComingFinite, FS_Subset

(* A thread that leaves is one less, and one that it wakes one more.       *)
LEMMA OneLeaves ==
  ASSUME NEW S \in SUBSET Threads, IsFiniteSet(S), TypeOK, NEW t \in S, Holding(t),
         NEW woken, Leave(t, woken)
  PROVE  Cardinality(Coming(S)) - 1 <= Cardinality(Coming(S)')
<1>1. t \in Coming(S)
  BY DEF Coming, Holding
<1>2. Coming(S) \ {t} \in SUBSET Coming(S)'
  BY LeavePc DEF Coming
<1>3. Cardinality(Coming(S) \ {t}) = Cardinality(Coming(S)) - 1
  BY <1>1, ComingFinite, FS_RemoveElement
<1>4. Cardinality(Coming(S) \ {t}) <= Cardinality(Coming(S)')
  BY <1>2, ComingFinite, FS_Subset
<1> QED BY <1>3, <1>4

LEMMA OneComes ==
  ASSUME NEW S \in SUBSET Threads, IsFiniteSet(S), TypeOK, NEW t \in Threads \ S,
         NEW waiters, waiters = {u \in S : pc[u] = "waiting"}, waiters # {},
         NEW woken \in NotifyOne(waiters), Leave(t, woken)
  PROVE  Cardinality(Coming(S)) + 1 <= Cardinality(Coming(S)')
<1>1. PICK w \in waiters : woken = {w}
  BY DEF NotifyOne
<1>2. w \in S /\ w \notin Coming(S)
  BY <1>1 DEF Coming
<1>3. Coming(S) \cup {w} \in SUBSET Coming(S)'
  BY <1>1, <1>2, LeavePc DEF Coming
<1>4. Cardinality(Coming(S) \cup {w}) = Cardinality(Coming(S)) + 1
  BY <1>2, ComingFinite, FS_AddElement
<1>5. Cardinality(Coming(S) \cup {w}) <= Cardinality(Coming(S)')
  BY <1>3, ComingFinite, FS_Subset
<1> QED BY <1>4, <1>5

(* Somebody else leaves: nobody of S is lost on the way.                   *)
LEMMA OtherLeaves ==
  ASSUME NEW S \in SUBSET Threads, IsFiniteSet(S), TypeOK, NEW t \in Threads \ S,
         NEW woken, Leave(t, woken)
  PROVE  Cardinality(Coming(S)) <= Cardinality(Coming(S)')
<1>1. Coming(S) \subseteq Coming(S)'
  BY LeavePc DEF Coming
<1> QED BY <1>1, MoreComing

(* Calling, returning, taking the mutex and waking up on one's own.        *)
LEMMA OnTheWay ==
  ASSUME NEW S \in SUBSET Threads, TypeOK, NEW t \in Threads,
         Ask(t) \/ Finish(t) \/ Acquire(t) \/ Spurious(t)
  PROVE  /\ Coming(S) \subseteq Coming(S)'
         /\ {u \in S : pc'[u] = "waiting"} \subseteq {u \in S : pc[u] = "waiting"}
         /\ UNCHANGED <<queue, abort_request>>
<1>1. UNCHANGED <<queue, abort_request>>
  BY DEF Ask, Channel!AskPush, Channel!AskPop, Channel!AskControl, Finish,
     Channel!Finish, Acquire, Spurious
<1>2. UNCHANGED pc \/ pc' = [pc EXCEPT ![t] = "entering"]
      \/ (pc[t] = "entering" /\ pc' = [pc EXCEPT ![t] = "holding"])
  BY DEF Ask, Finish, Acquire, Spurious
<1> QED BY <1>1, <1>2 DEF Coming, TypeOK

-----------------------------------------------------------------------------
(* The consumers.                                                          *)

LEMMA NobodyStartsWaiting ==
  ASSUME NEW S \in SUBSET Threads, TypeOK, NEW t \in Threads, NEW woken, Leave(t, woken)
  PROVE  {u \in S : pc'[u] = "waiting"} \subseteq {u \in S : pc[u] = "waiting"} \ woken
  BY LeavePc

LEMMA PopStep ==
  ASSUME IsFiniteSet(Consumers)
  PROVE  TypeInv /\ NoLostPopWakeup /\ [Next]_vars => NoLostPopWakeup'
<1> SUFFICES ASSUME TypeInv, NoLostPopWakeup, [Next]_vars,
                    ~abort_request', WaitingPop' # {}
             PROVE  Len(queue') <= Cardinality(Coming(Consumers)')
  BY DEF NoLostPopWakeup
<1>t. /\ TypeOK /\ queue \in Seq(Packets) /\ Len(queue) \in Nat
      /\ Consumers \in SUBSET Threads
      /\ \A t \in Threads : call[t] \in {"pop", "trypop"} => t \in Consumers
      /\ \A t \in Threads : call[t] = "push" => t \notin Consumers
  <2>1. TypeOK /\ queue \in Seq(Packets) /\ Len(queue) \in Nat
    BY DEF TypeInv, TypeOK, Channel!TypeOK
  <2>2. \A t \in Threads : call[t] \in {"pop", "trypop"} => t \in Consumers
    BY DEF TypeInv, Roles, Channel!PopCalls
  <2>3. \A t \in Threads : call[t] = "push" => t \notin Consumers
    BY QueueAssumption DEF TypeInv, Roles
  <2> QED BY <2>1, <2>2, <2>3 DEF Threads
<1>c. Cardinality(Coming(Consumers)) \in Nat /\ Cardinality(Coming(Consumers)') \in Nat
  BY ComingFinite
<1>0. ASSUME ~abort_request, WaitingPop # {}
      PROVE  Len(queue) <= Cardinality(Coming(Consumers))
  BY <1>0 DEF NoLostPopWakeup
<1>1. ASSUME NEW t \in Threads, Ask(t) \/ Finish(t) \/ Acquire(t) \/ Spurious(t)
      PROVE  Len(queue') <= Cardinality(Coming(Consumers)')
  <2>1. /\ Coming(Consumers) \subseteq Coming(Consumers)' /\ WaitingPop' \subseteq WaitingPop
        /\ UNCHANGED <<queue, abort_request>>
    <3>1. /\ Coming(Consumers) \subseteq Coming(Consumers)'
          /\ {u \in Consumers : pc'[u] = "waiting"}
               \subseteq {u \in Consumers : pc[u] = "waiting"}
          /\ UNCHANGED <<queue, abort_request>>
      BY <1>1, <1>t, OnTheWay
    <3> QED BY <3>1 DEF WaitingPop
  <2>2. Len(queue) <= Cardinality(Coming(Consumers))
    BY <2>1, <1>0
  <2>3. Cardinality(Coming(Consumers)) <= Cardinality(Coming(Consumers)')
    BY <2>1, MoreComing
  <2> QED BY <2>1, <2>2, <2>3, <1>t, <1>c
<1>2. ASSUME NEW t \in Threads, NEW woken, Leave(t, woken), ~abort_request
      PROVE  Len(queue) <= Cardinality(Coming(Consumers))
  <2>1. WaitingPop' \subseteq WaitingPop
    BY <1>2, <1>t, NobodyStartsWaiting DEF WaitingPop
  <2> QED BY <1>0, <1>2, <2>1
<1>3. ASSUME NEW t \in Threads, Critical(t)
      PROVE  Len(queue') <= Cardinality(Coming(Consumers)')
  <2>1. CASE PushBlock(t)
    <3>1. Coming(Consumers)' = Coming(Consumers) /\ WaitingPop' = WaitingPop
          /\ UNCHANGED <<queue, abort_request>>
      BY <2>1, <1>t DEF PushBlock, Block, Coming, WaitingPop, TypeOK
    <3> QED BY <3>1, <1>0
  <2>2. CASE PopBlock(t)
    BY <2>2, <1>c DEF PopBlock, Block, MayPop
  <2>3. CASE PushAborted(t) \/ PushNoPacket(t) \/ PushThrows(t)
    <3>1. /\ t \notin Consumers /\ Leave(t, {}) /\ UNCHANGED <<queue, abort_request>>
      BY <2>3, <1>t DEF PushAborted, PushNoPacket, PushThrows
    <3>2. Cardinality(Coming(Consumers)) <= Cardinality(Coming(Consumers)')
      BY <3>1, <1>t, OtherLeaves
    <3> QED BY <3>1, <3>2, <1>2, <1>t, <1>c
  <2>4. CASE PushDone(t)
    <3>1. PICK woken \in NotifyOne(WaitingPop) : Leave(t, woken)
      BY <2>4 DEF PushDone
    <3>2. t \notin Consumers /\ queue' = Append(queue, pkt[t]) /\ ~abort_request
      BY <2>4, <1>t DEF PushDone
    <3>3. Len(queue') = Len(queue) + 1
      BY <3>2, <1>t
    <3>4. WaitingPop # {}
      BY <3>1, <1>t, NobodyStartsWaiting DEF WaitingPop
    <3>5. Cardinality(Coming(Consumers)) + 1 <= Cardinality(Coming(Consumers)')
      BY <3>1, <3>2, <3>4, <1>t, OneComes DEF WaitingPop
    <3>6. Len(queue) <= Cardinality(Coming(Consumers))
      BY <3>1, <3>2, <1>2
    <3> QED BY <3>3, <3>5, <3>6, <1>t, <1>c
  <2>5. CASE PopRefused(t)
    <3>1. ~abort_request
      BY <2>5 DEF PopRefused
    <3>2. Len(queue') = 0
      BY <2>5, <3>1 DEF PopRefused
    <3> QED BY <3>2, <1>c
  <2>6. CASE PopDone(t)
    <3>1. PICK woken : Leave(t, woken)
      BY <2>6 DEF PopDone
    <3>2. t \in Consumers /\ Holding(t) /\ ~abort_request /\ queue' = Tail(queue)
          /\ queue # <<>>
      BY <2>6, <1>t DEF PopDone
    <3>3. Len(queue') = Len(queue) - 1
      BY <3>2, <1>t
    <3>4. Cardinality(Coming(Consumers)) - 1 <= Cardinality(Coming(Consumers)')
      BY <3>1, <3>2, <1>t, OneLeaves
    <3>5. Len(queue) <= Cardinality(Coming(Consumers))
      BY <3>1, <3>2, <1>2
    <3> QED BY <3>3, <3>4, <3>5, <1>t, <1>c
  <2>7. CASE Flush(t)
    <3>1. Len(queue') = 0
      BY <2>7 DEF Flush
    <3> QED BY <3>1, <1>c
  <2>8. CASE Abort(t)
    BY <2>8 DEF Abort
  <2> QED BY <1>3, <2>1, <2>2, <2>3, <2>4, <2>5, <2>6, <2>7, <2>8 DEF Critical
<1>4. CASE UNCHANGED vars
  <2>1. Coming(Consumers)' = Coming(Consumers) /\ WaitingPop' = WaitingPop
        /\ UNCHANGED <<queue, abort_request>>
    BY <1>4 DEF vars, Coming, WaitingPop
  <2> QED BY <2>1, <1>0
<1> QED BY <1>1, <1>3, <1>4 DEF Next

(* While a thread is blocked in pop(), as many consumers are on their way  *)
(* to the queue as there are packets in it.                                *)
THEOREM NoLostPopWakeupCorrect ==
  ASSUME IsFiniteSet(Consumers)
  PROVE  SafeSpec => []NoLostPopWakeup
<1>1. Init => NoLostPopWakeup
  <2>1. ASSUME Init PROVE WaitingPop = {}
    BY <2>1 DEF Init, WaitingPop, Threads
  <2> QED BY <2>1 DEF NoLostPopWakeup
<1>2. TypeInv /\ NoLostPopWakeup /\ [Next]_vars => NoLostPopWakeup'
  BY PopStep
<1> QED BY <1>1, <1>2, Typing, PTL DEF SafeSpec
-----------------------------------------------------------------------------
(* The producers.  A push that runs out of memory takes a wake-up and no   *)
(* place: either none does, or there is nobody else to be awakened.        *)

LEMMA PushStep ==
  ASSUME IsFiniteSet(Producers),
         ~AllocMayFail \/ \A p, r \in Producers : p = r
  PROVE  TypeInv /\ NoLostPushWakeup /\ [Next]_vars => NoLostPushWakeup'
<1> SUFFICES ASSUME TypeInv, NoLostPushWakeup, [Next]_vars,
                    ~abort_request', WaitingPush' # {}
             PROVE  MaxSize - Len(queue') <= Cardinality(Coming(Producers)')
  BY DEF NoLostPushWakeup
<1>t. /\ TypeOK /\ queue \in Seq(Packets) /\ Len(queue) \in Nat /\ MaxSize \in Nat
      /\ Producers \in SUBSET Threads
      /\ \A t \in Threads : call[t] = "push" => t \in Producers
      /\ \A t \in Threads :
           call[t] \in {"pop", "trypop"} => t \notin Producers
  <2>1. TypeOK /\ queue \in Seq(Packets) /\ Len(queue) \in Nat
    BY DEF TypeInv, TypeOK, Channel!TypeOK
  <2>2. \A t \in Threads : call[t] = "push" => t \in Producers
    BY DEF TypeInv, Roles
  <2>3. \A t \in Threads : call[t] \in {"pop", "trypop"} => t \notin Producers
    BY QueueAssumption DEF TypeInv, Roles, Channel!PopCalls
  <2> QED BY <2>1, <2>2, <2>3, QueueAssumption DEF Threads
<1>c. Cardinality(Coming(Producers)) \in Nat /\ Cardinality(Coming(Producers)') \in Nat
  BY ComingFinite
<1>0. ASSUME ~abort_request, WaitingPush # {}
      PROVE  MaxSize - Len(queue) <= Cardinality(Coming(Producers))
  BY <1>0 DEF NoLostPushWakeup
<1>1. ASSUME NEW t \in Threads, Ask(t) \/ Finish(t) \/ Acquire(t) \/ Spurious(t)
      PROVE  MaxSize - Len(queue') <= Cardinality(Coming(Producers)')
  <2>1. /\ Coming(Producers) \subseteq Coming(Producers)'
        /\ WaitingPush' \subseteq WaitingPush
        /\ UNCHANGED <<queue, abort_request>>
    <3>1. /\ Coming(Producers) \subseteq Coming(Producers)'
          /\ {u \in Producers : pc'[u] = "waiting"}
               \subseteq {u \in Producers : pc[u] = "waiting"}
          /\ UNCHANGED <<queue, abort_request>>
      BY <1>1, <1>t, OnTheWay
    <3> QED BY <3>1 DEF WaitingPush
  <2>2. MaxSize - Len(queue) <= Cardinality(Coming(Producers))
    BY <2>1, <1>0
  <2>3. Cardinality(Coming(Producers)) <= Cardinality(Coming(Producers)')
    BY <2>1, MoreComing
  <2> QED BY <2>1, <2>2, <2>3, <1>t, <1>c
<1>2. ASSUME NEW t \in Threads, NEW woken, Leave(t, woken), ~abort_request
      PROVE  MaxSize - Len(queue) <= Cardinality(Coming(Producers))
  <2>1. WaitingPush' \subseteq WaitingPush
    BY <1>2, <1>t, NobodyStartsWaiting DEF WaitingPush
  <2> QED BY <1>0, <1>2, <2>1
<1>3. ASSUME NEW t \in Threads, Critical(t)
      PROVE  MaxSize - Len(queue') <= Cardinality(Coming(Producers)')
  <2>1. CASE PopBlock(t)
    <3>1. Coming(Producers)' = Coming(Producers) /\ WaitingPush' = WaitingPush
          /\ UNCHANGED <<queue, abort_request>>
      BY <2>1, <1>t DEF PopBlock, Block, Coming, WaitingPush, TypeOK
    <3> QED BY <3>1, <1>0
  <2>2. CASE PushBlock(t)
    <3>1. ~(Len(queue) < MaxSize) /\ UNCHANGED queue
      BY <2>2 DEF PushBlock, Block, MayPush
    <3> QED BY <3>1, <1>t, <1>c
  <2>3. CASE PushAborted(t)
    BY <2>3 DEF PushAborted
  <2>4. CASE PushNoPacket(t) \/ PushThrows(t)
    <3>1. t \in Producers /\ Leave(t, {}) /\ AllocMayFail
      BY <2>4, <1>t DEF PushNoPacket, PushThrows
    <3>2. pc'[t] = "outside"
      BY <3>1, <1>t, LeavePc
    <3>3. PICK w \in Producers : pc'[w] = "waiting"
      BY DEF WaitingPush
    <3>4. w = t
      BY <3>1
    <3> QED BY <3>2, <3>3, <3>4
  <2>5. CASE PushDone(t)
    <3>1. PICK woken : Leave(t, woken)
      BY <2>5 DEF PushDone
    <3>2. t \in Producers /\ Holding(t) /\ ~abort_request
          /\ queue' = Append(queue, pkt[t])
      BY <2>5, <1>t DEF PushDone
    <3>3. Len(queue') = Len(queue) + 1
      BY <3>2, <1>t
    <3>4. Cardinality(Coming(Producers)) - 1 <= Cardinality(Coming(Producers)')
      BY <3>1, <3>2, <1>t, OneLeaves
    <3>5. MaxSize - Len(queue) <= Cardinality(Coming(Producers))
      BY <3>1, <3>2, <1>2
    <3> QED BY <3>3, <3>4, <3>5, <1>t, <1>c
  <2>6. CASE PopRefused(t)
    <3>1. /\ t \notin Producers /\ Leave(t, {}) /\ UNCHANGED <<queue, abort_request>>
      BY <2>6, <1>t DEF PopRefused
    <3>2. Cardinality(Coming(Producers)) <= Cardinality(Coming(Producers)')
      BY <3>1, <1>t, OtherLeaves
    <3> QED BY <3>1, <3>2, <1>2, <1>t, <1>c
  <2>7. CASE PopDone(t)
    <3>1. PICK woken \in NotifyOne(WaitingPush) : Leave(t, woken)
      BY <2>7 DEF PopDone
    <3>2. t \notin Producers /\ queue' = Tail(queue) /\ queue # <<>> /\ ~abort_request
      BY <2>7, <1>t DEF PopDone
    <3>3. Len(queue') = Len(queue) - 1
      BY <3>2, <1>t
    <3>4. WaitingPush # {}
      BY <3>1, <1>t, NobodyStartsWaiting DEF WaitingPush
    <3>5. Cardinality(Coming(Producers)) + 1 <= Cardinality(Coming(Producers)')
      BY <3>1, <3>2, <3>4, <1>t, OneComes DEF WaitingPush
    <3>6. MaxSize - Len(queue) <= Cardinality(Coming(Producers))
      BY <3>1, <3>2, <1>2
    <3> QED BY <3>3, <3>5, <3>6, <1>t, <1>c
  <2>8. CASE Flush(t)
    <3>1. Leave(t, WaitingPush)
      BY <2>8 DEF Flush
    <3>2. WaitingPush' = {}
      BY <3>1, <1>t, NobodyStartsWaiting DEF WaitingPush
    <3> QED BY <3>2
  <2>9. CASE Abort(t)
    BY <2>9 DEF Abort
  <2> QED BY <1>3, <2>1, <2>2, <2>3, <2>4, <2>5, <2>6, <2>7, <2>8, <2>9 DEF Critical
<1>4. CASE UNCHANGED vars
  <2>1. Coming(Producers)' = Coming(Producers) /\ WaitingPush' = WaitingPush
        /\ UNCHANGED <<queue, abort_request>>
    BY <1>4 DEF vars, Coming, WaitingPush
  <2> QED BY <2>1, <1>0
<1> QED BY <1>1, <1>3, <1>4 DEF Next

(* While a thread is blocked in push(), as many producers are on their way *)
(* to the queue as it has free places.                                     *)
THEOREM NoLostPushWakeupCorrect ==
  ASSUME IsFiniteSet(Producers),
         ~AllocMayFail \/ \A p, r \in Producers : p = r
  PROVE  SafeSpec => []NoLostPushWakeup
<1>1. Init => NoLostPushWakeup
  <2>1. ASSUME Init PROVE WaitingPush = {}
    BY <2>1 DEF Init, WaitingPush, Threads
  <2> QED BY <2>1 DEF NoLostPushWakeup
<1>2. TypeInv /\ NoLostPushWakeup /\ [Next]_vars => NoLostPushWakeup'
  BY PushStep
<1> QED BY <1>1, <1>2, Typing, PTL DEF SafeSpec
=============================================================================
