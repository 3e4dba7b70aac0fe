------------------------- MODULE PacketQueueProofs -------------------------
(***************************************************************************)
(* Proofs about PacketQueue, for any number of threads, any capacity and   *)
(* any set of packets.                                                     *)
(***************************************************************************)
EXTENDS PacketQueue, FiniteSetTheorems, TLAPS

(* Which thread makes which call, and that a push carries a packet: what   *)
(* the types need in order to be inductive.                                *)
Roles ==
  \A t \in Threads :
    /\ call[t] = "push" => t \in Producers /\ pkt[t] \in Packets
    /\ call[t] \in Channel!PopCalls => t \in Consumers

TypeInv == TypeOK /\ Roles

USE DEF Threads, Channel!Threads

(* What Leave does to pc and to the mutex, whoever is woken.               *)
LEMMA LeavePc ==
  ASSUME TypeOK, NEW t \in Threads, NEW woken, Leave(t, woken)
  PROVE  /\ pc' \in [Threads -> {"outside", "entering", "holding", "waiting"}]
         /\ mutex' = NoThread
         /\ pc'[t] = "outside"
         /\ \A u \in Threads \ {t} :
              pc'[u] = IF u \in woken THEN "entering" ELSE pc[u]
  BY DEF Leave, TypeOK

(* notify_one wakes nobody that does not wait.                             *)
LEMMA NotifiedWait ==
  ASSUME NEW waiters, NEW woken \in NotifyOne(waiters)
  PROVE  woken \subseteq waiters
  BY DEF NotifyOne

LEMMA InitType == Init => TypeInv
<1> SUFFICES ASSUME Init PROVE TypeInv
  OBVIOUS
<1> USE DEF Init, Channel!Init
<1>1. Channel!TypeOK
  <2>1. queue \in Seq(Packets)
    OBVIOUS
  <2>2. call \in [Channel!Threads -> {"idle"} \cup Channel!Calls \cup Channel!Answers]
    OBVIOUS
  <2>3. pkt \in [Channel!Threads -> Packets \cup {Blank}]
    OBVIOUS
  <2> QED BY <2>1, <2>2, <2>3 DEF Channel!TypeOK
<1>2. TypeOK
  BY <1>1 DEF TypeOK
<1>3. Roles
  BY DEF Roles, Channel!PopCalls
<1> QED BY <1>2, <1>3 DEF TypeInv

(* Every action but the calls is a step of a thread on its own call.       *)
LEMMA TypeStep == TypeInv /\ [Next]_vars => TypeInv'
<1> SUFFICES ASSUME TypeInv, [Next]_vars PROVE TypeInv'
  OBVIOUS
<1> USE DEF TypeInv, TypeOK, Channel!TypeOK, Roles, Channel!PopCalls,
           Channel!Calls, Channel!Answers
<1>1. ASSUME NEW t \in Threads, Ask(t) PROVE TypeInv'
  BY <1>1, QueueAssumption
     DEF Ask, Channel!AskPush, Channel!AskPop, Channel!AskControl
<1>2. ASSUME NEW t \in Threads, Finish(t) PROVE TypeInv'
  BY <1>2, QueueAssumption DEF Finish, Channel!Finish, Channel!Content
<1>3. ASSUME NEW t \in Threads, Acquire(t) PROVE TypeInv'
  BY <1>3 DEF Acquire
<1>4. ASSUME NEW t \in Threads, Spurious(t) PROVE TypeInv'
  BY <1>4 DEF Spurious
<1>5. ASSUME NEW t \in Threads, Critical(t) PROVE TypeInv'
  <2>1. CASE PushBlock(t) \/ PopBlock(t)
    BY <2>1 DEF PushBlock, PopBlock, Block
  <2>2. CASE PushAborted(t) \/ PushNoPacket(t)
    BY <2>2, LeavePc DEF PushAborted, PushNoPacket
  <2>3. CASE PushThrows(t)
    BY <2>3, LeavePc DEF PushThrows, Channel!Content
  <2>4. CASE PushDone(t)
    <3>1. queue' \in Seq(Packets)
      BY <2>4 DEF PushDone
    <3> QED BY <2>4, <3>1, LeavePc DEF PushDone
  <2>5. CASE PopRefused(t)
    BY <2>5, LeavePc DEF PopRefused
  <2>6. CASE PopDone(t)
    <3>1. queue' \in Seq(Packets) /\ Head(queue) \in Packets
      BY <2>6 DEF PopDone
    <3> QED BY <2>6, <3>1, LeavePc DEF PopDone, Channel!Content
  <2>7. CASE Flush(t)
    <3>1. Channel!Contents(queue) \subseteq Packets
      BY DEF Channel!Contents
    <3> QED BY <2>7, <3>1, LeavePc DEF Flush
  <2>8. CASE Abort(t)
    BY <2>8, LeavePc DEF Abort
  <2> QED BY <1>5, <2>1, <2>2, <2>3, <2>4, <2>5, <2>6, <2>7, <2>8 DEF Critical
<1>6. CASE UNCHANGED vars
  BY <1>6 DEF vars
<1> QED BY <1>1, <1>2, <1>3, <1>4, <1>5, <1>6 DEF Next

LEMMA Typing == SafeSpec => []TypeInv
<1> QED BY InitType, TypeStep, PTL DEF SafeSpec

(* The types hold in every state.                                          *)
THEOREM TypeCorrect == SafeSpec => []TypeOK
<1>1. TypeInv => TypeOK
  BY DEF TypeInv
<1> QED BY <1>1, Typing, PTL

-----------------------------------------------------------------------------
(* The places of the threads, the owner of mutex_ and the pending calls    *)
(* agree: bookkeeping that the theorem on abort() rests on.                *)
MutexOwner ==
  \A t \in Threads :
    /\ mutex = t <=> pc[t] = "holding"
    /\ pc[t] # "outside" <=> call[t] \in Channel!Calls

LEMMA MutexStep == TypeInv /\ MutexOwner /\ [Next]_vars => MutexOwner'
<1> SUFFICES ASSUME TypeInv, MutexOwner, [Next]_vars PROVE MutexOwner'
  OBVIOUS
<1> USE DEF TypeInv, TypeOK, Channel!TypeOK, MutexOwner
<1>1. ASSUME NEW t \in Threads, Ask(t) PROVE MutexOwner'
  BY <1>1, QueueAssumption
     DEF Ask, Channel!AskPush, Channel!AskPop, Channel!AskControl,
         Channel!Calls, Channel!PopCalls
<1>2. ASSUME NEW t \in Threads, Finish(t) PROVE MutexOwner'
  BY <1>2 DEF Finish, Channel!Finish, Channel!Answers, Channel!Calls,
              Channel!PopCalls
<1>3. ASSUME NEW t \in Threads, Acquire(t) PROVE MutexOwner'
  BY <1>3, QueueAssumption DEF Acquire
<1>4. ASSUME NEW t \in Threads, Spurious(t) PROVE MutexOwner'
  BY <1>4, QueueAssumption DEF Spurious
<1>5. ASSUME NEW t \in Threads, NEW woken,
             woken \subseteq WaitingPush \cup WaitingPop,
             Holding(t), Leave(t, woken),
             call'[t] \notin Channel!Calls,
             \A u \in Threads \ {t} : call'[u] = call[u]
      PROVE  MutexOwner'
  <2>1. /\ pc'[t] = "outside" /\ mutex' = NoThread
        /\ \A u \in Threads \ {t} :
             pc'[u] = IF u \in woken THEN "entering" ELSE pc[u]
    BY <1>5, LeavePc
  <2>2. \A u \in Threads \ {t} : pc[u] # "holding"
    BY <1>5, QueueAssumption DEF Holding
  <2>3. \A u \in woken : pc[u] = "waiting"
    BY <1>5 DEF WaitingPush, WaitingPop
  <2> QED BY <1>5, <2>1, <2>2, <2>3, QueueAssumption
<1>6. ASSUME NEW t \in Threads, Critical(t) PROVE MutexOwner'
  <2>1. CASE PushBlock(t) \/ PopBlock(t)
    BY <2>1, QueueAssumption DEF PushBlock, PopBlock, Block, Holding
  <2> USE DEF Channel!Calls, Channel!PopCalls
  <2>2. CASE PushAborted(t) \/ PushNoPacket(t) \/ PushThrows(t)
    BY <2>2, <1>5 DEF PushAborted, PushNoPacket, PushThrows
  <2>3. CASE PushDone(t)
    BY <2>3, <1>5, NotifiedWait DEF PushDone
  <2>4. CASE PopRefused(t)
    BY <2>4, <1>5 DEF PopRefused
  <2>5. CASE PopDone(t)
    BY <2>5, <1>5, NotifiedWait DEF PopDone
  <2>6. CASE Flush(t) \/ Abort(t)
    BY <2>6, <1>5 DEF Flush, Abort
  <2> QED BY <1>6, <2>1, <2>2, <2>3, <2>4, <2>5, <2>6 DEF Critical
<1>7. CASE UNCHANGED vars
  BY <1>7 DEF vars
<1> QED BY <1>1, <1>2, <1>3, <1>4, <1>6, <1>7 DEF Next

(* mutex_ excludes: one thread at a time is between the lock and the       *)
(* unlock or the wait of an operation.                                     *)
LEMMA MutexOwned == SafeSpec => []MutexOwner
<1>1. Init => MutexOwner
  BY QueueAssumption DEF Init, Channel!Init, MutexOwner, Channel!Calls, Channel!PopCalls
<1> QED BY <1>1, Typing, MutexStep, PTL DEF SafeSpec

-----------------------------------------------------------------------------
(* The bound, and what abort() leaves behind.                              *)

LEMMA BoundedStep == TypeInv /\ Bounded /\ [Next]_vars => Bounded'
<1> SUFFICES ASSUME TypeInv, Bounded, [Next]_vars PROVE Bounded'
  OBVIOUS
<1> USE DEF TypeInv, TypeOK, Channel!TypeOK, Bounded
<1>1. queue \in Seq(Packets) /\ MaxSize \in Nat
  BY QueueAssumption
<1>2. CASE UNCHANGED queue
  BY <1>2
<1>3. ASSUME NEW t \in Threads, PushDone(t) PROVE Bounded'
  <2>1. Len(queue) < MaxSize
    BY <1>3 DEF PushDone, MayPush
  <2>2. Len(queue') = Len(queue) + 1
    BY <1>1, <1>3 DEF PushDone
  <2> QED BY <1>1, <2>1, <2>2
<1>4. ASSUME NEW t \in Threads, PopDone(t) PROVE Bounded'
  BY <1>1, <1>4 DEF PopDone
<1>5. ASSUME NEW t \in Threads, Flush(t) PROVE Bounded'
  BY <1>1, <1>5 DEF Flush
<1>6. UNCHANGED queue \/ \E t \in Threads : PushDone(t) \/ PopDone(t) \/ Flush(t)
  BY DEF Next, vars, Ask, Channel!AskPush, Channel!AskPop, Channel!AskControl,
         Finish, Channel!Finish, Acquire, Spurious, Critical, PushBlock, PopBlock,
         Block, PushAborted, PushNoPacket, PushThrows, PopRefused, Abort
<1> QED BY <1>2, <1>3, <1>4, <1>5, <1>6

(* The queue never holds more than max_size_ packets.                      *)
THEOREM BoundedCorrect == SafeSpec => []Bounded
<1>1. Init => Bounded
  BY QueueAssumption DEF Init, Channel!Init, Bounded
<1> QED BY <1>1, Typing, BoundedStep, PTL DEF SafeSpec

LEMMA AbortStep ==
  TypeInv /\ AbortLeavesNoWaiter /\ [Next]_vars => AbortLeavesNoWaiter'
<1> SUFFICES ASSUME TypeInv, AbortLeavesNoWaiter, [Next]_vars
             PROVE  AbortLeavesNoWaiter'
  OBVIOUS
<1> USE DEF TypeInv, TypeOK, Channel!TypeOK, AbortLeavesNoWaiter, WaitingPush,
           WaitingPop
<1>1. ASSUME NEW t \in Threads, Ask(t) \/ Finish(t) \/ Acquire(t) \/ Spurious(t)
      PROVE  AbortLeavesNoWaiter'
  BY <1>1 DEF Ask, Channel!AskPush, Channel!AskPop, Channel!AskControl,
              Finish, Channel!Finish, Acquire, Spurious
<1>2. ASSUME NEW t \in Threads, NEW woken, Leave(t, woken),
             UNCHANGED abort_request
      PROVE  AbortLeavesNoWaiter'
  BY <1>2, LeavePc
<1>3. ASSUME NEW t \in Threads, Abort(t) PROVE AbortLeavesNoWaiter'
  BY <1>3, LeavePc DEF Abort
<1>4. ASSUME NEW t \in Threads, PushBlock(t) \/ PopBlock(t)
      PROVE  AbortLeavesNoWaiter'
  BY <1>4 DEF PushBlock, PopBlock, Block, MayPush, MayPop
<1>5. ASSUME NEW t \in Threads, Critical(t) PROVE AbortLeavesNoWaiter'
  BY <1>5, <1>2, <1>3, <1>4
     DEF Critical, PushAborted, PushNoPacket, PushThrows, PushDone, PopRefused,
         PopDone, Flush
<1>6. CASE UNCHANGED vars
  BY <1>6 DEF vars
<1> QED BY <1>1, <1>5, <1>6 DEF Next

(* Once abort() has run, no thread is blocked in push() or pop().          *)
THEOREM AbortCorrect == SafeSpec => []AbortLeavesNoWaiter
<1>1. Init => AbortLeavesNoWaiter
  BY DEF Init, Channel!Init, AbortLeavesNoWaiter
<1> QED BY <1>1, Typing, AbortStep, PTL DEF SafeSpec

-----------------------------------------------------------------------------
(* Refinement of PacketChannel.  Waiting, waking up and acquiring the      *)
(* mutex change nothing that PacketChannel has; each other step is the     *)
(* step of the same call there.                                            *)

LEMMA QueueStep == [Next]_vars => [Channel!Next]_(Channel!channelVars)
<1> SUFFICES ASSUME [Next]_vars PROVE [Channel!Next]_(Channel!channelVars)
  OBVIOUS
<1> USE DEF Channel!channelVars
<1>1. ASSUME NEW t \in Threads, Ask(t) PROVE Channel!Next
  BY <1>1 DEF Ask, Channel!Next, Channel!Caller, Channel!PopCalls
<1>2. ASSUME NEW t \in Threads, Finish(t) PROVE Channel!Next
  BY <1>2 DEF Finish, Channel!Next, Channel!Caller
<1>3. ASSUME NEW t \in Threads,
             Acquire(t) \/ Spurious(t) \/ PushBlock(t) \/ PopBlock(t)
      PROVE  UNCHANGED Channel!channelVars
  BY <1>3 DEF Acquire, Spurious, PushBlock, PopBlock, Block
<1>4. ASSUME NEW t \in Threads,
             PushAborted(t) \/ PushNoPacket(t) \/ PushThrows(t) \/ PushDone(t)
      PROVE  Channel!Operation(t)
  <2>1. CASE PushAborted(t)
    BY <2>1 DEF PushAborted, Channel!Operation, Channel!PushRefused
  <2>2. CASE PushNoPacket(t)
    BY <2>2 DEF PushNoPacket, MayPush, Channel!Operation, Channel!PushRefused
  <2>3. CASE PushThrows(t)
    BY <2>3 DEF PushThrows, MayPush, Channel!Operation, Channel!PushDropped
  <2>4. CASE PushDone(t)
    BY <2>4 DEF PushDone, MayPush, Channel!Operation, Channel!Push
  <2> QED BY <1>4, <2>1, <2>2, <2>3, <2>4
<1>5. ASSUME NEW t \in Threads,
             PopRefused(t) \/ PopDone(t) \/ Flush(t) \/ Abort(t)
      PROVE  Channel!Operation(t)
  <2>1. CASE PopRefused(t)
    BY <2>1 DEF PopRefused, MayPop, Channel!Operation, Channel!PopRefused,
                Channel!PopCalls
  <2>2. CASE PopDone(t)
    BY <2>2 DEF PopDone, Channel!Operation, Channel!Pop, Channel!PopCalls
  <2>3. CASE Flush(t)
    BY <2>3 DEF Flush, Channel!Operation, Channel!Flush
  <2>4. CASE Abort(t)
    BY <2>4 DEF Abort, Channel!Operation, Channel!Abort
  <2> QED BY <1>5, <2>1, <2>2, <2>3, <2>4
<1>6. CASE UNCHANGED vars
  BY <1>6 DEF vars
<1> QED BY <1>1, <1>2, <1>3, <1>4, <1>5, <1>6 DEF Next, Critical, Channel!Next

(* The queue is linearizable: whatever the threads do with the mutex and   *)
(* the condition variables, the calls behave as the indivisible operations *)
(* of PacketChannel.                                                       *)
THEOREM QueueRefinesChannel == SafeSpec => Channel!SafeSpec
<1>1. Init => Channel!Init
  BY DEF Init
<1> QED BY <1>1, QueueStep, PTL DEF SafeSpec, Channel!SafeSpec

-----------------------------------------------------------------------------
(* Ownership, proved on the steps of PacketChannel.                        *)

LEMMA ContentsOfAppend ==
  ASSUME NEW q \in Seq(Packets), NEW p \in Packets
  PROVE  /\ Channel!Contents(Append(q, p)) = Channel!Contents(q) \cup {p}
         /\ Channel!Distinct(q) /\ p \notin Channel!Contents(q)
              => Channel!Distinct(Append(q, p))
<1> DEFINE r == Append(q, p)
<1>1. /\ Len(q) \in Nat /\ DOMAIN q = 1..Len(q)
      /\ DOMAIN r = 1..(Len(q) + 1)
      /\ r[Len(q) + 1] = p
      /\ \A i \in 1..Len(q) : r[i] = q[i]
  OBVIOUS
<1> HIDE DEF r
<1>2. Channel!Contents(r) = Channel!Contents(q) \cup {p}
  <2>1. \A i \in DOMAIN r : r[i] \in Channel!Contents(q) \cup {p}
    BY <1>1 DEF Channel!Contents
  <2>2. \A i \in DOMAIN q : i \in DOMAIN r /\ r[i] = q[i]
    BY <1>1
  <2>3. p \in Channel!Contents(r)
    BY <1>1 DEF Channel!Contents
  <2> QED BY <2>1, <2>2, <2>3 DEF Channel!Contents
<1>3. ASSUME Channel!Distinct(q), p \notin Channel!Contents(q)
      PROVE  Channel!Distinct(r)
  <2>1. \A i \in DOMAIN q : q[i] # p
    BY <1>3 DEF Channel!Contents
  <2> QED BY <1>1, <1>3, <2>1 DEF Channel!Distinct
<1> QED BY <1>2, <1>3 DEF r

LEMMA ContentsOfTail ==
  ASSUME NEW q \in Seq(Packets), q # <<>>, Channel!Distinct(q)
  PROVE  /\ Head(q) \in Packets
         /\ Channel!Contents(q) = Channel!Contents(Tail(q)) \cup {Head(q)}
         /\ Head(q) \notin Channel!Contents(Tail(q))
         /\ Channel!Distinct(Tail(q))
<1>1. /\ Len(q) \in Nat /\ Len(q) # 0 /\ DOMAIN q = 1..Len(q)
      /\ Head(q) = q[1] /\ Head(q) \in Packets
  OBVIOUS
<1>2. /\ DOMAIN Tail(q) = 1..(Len(q) - 1)
      /\ \A i \in 1..(Len(q) - 1) : Tail(q)[i] = q[i + 1]
  BY <1>1
<1>3. Channel!Contents(q) = Channel!Contents(Tail(q)) \cup {Head(q)}
  <2>1. \A i \in DOMAIN q : q[i] \in Channel!Contents(Tail(q)) \cup {Head(q)}
    <3> SUFFICES ASSUME NEW i \in DOMAIN q, i # 1
                 PROVE  q[i] \in Channel!Contents(Tail(q))
      BY <1>1
    <3>1. i - 1 \in DOMAIN Tail(q) /\ Tail(q)[i - 1] = q[i]
      BY <1>1, <1>2
    <3> QED BY <3>1 DEF Channel!Contents
  <2>2. \A i \in DOMAIN Tail(q) : Tail(q)[i] \in Channel!Contents(q)
    <3> SUFFICES ASSUME NEW i \in DOMAIN Tail(q)
                 PROVE  Tail(q)[i] \in Channel!Contents(q)
      OBVIOUS
    <3>1. i + 1 \in DOMAIN q /\ Tail(q)[i] = q[i + 1]
      BY <1>1, <1>2
    <3> QED BY <3>1 DEF Channel!Contents
  <2>3. Head(q) \in Channel!Contents(q)
    BY <1>1 DEF Channel!Contents
  <2> QED BY <2>1, <2>2, <2>3 DEF Channel!Contents
<1>4. Head(q) \notin Channel!Contents(Tail(q))
  BY <1>1, <1>2 DEF Channel!Contents, Channel!Distinct
<1>5. Channel!Distinct(Tail(q))
  BY <1>1, <1>2 DEF Channel!Distinct
<1> QED BY <1>1, <1>3, <1>4, <1>5

(* What ownership needs in order to be inductive: a thread that has        *)
(* nothing to pass holds nothing, so no AVPacket is overwritten.           *)
HandsEmpty ==
  \A t \in Threads : call[t] \in {"idle", "flush", "abort"} => pkt[t] = Blank

OwnInv == Channel!InOnePlace /\ Channel!Placed /\ HandsEmpty

LEMMA InitOwn == Init => OwnInv
  BY DEF Init, Channel!Init, OwnInv, HandsEmpty, Channel!InOnePlace,
         Channel!Placed, Channel!Contents, Channel!Distinct

LEMMA OwnStep == TypeInv /\ OwnInv /\ [Channel!Next]_(Channel!channelVars) => OwnInv'
<1> SUFFICES ASSUME TypeInv, OwnInv, [Channel!Next]_(Channel!channelVars)
             PROVE  OwnInv'
  OBVIOUS
<1> USE DEF OwnInv, HandsEmpty, Channel!InOnePlace, Channel!Placed
<1>t. /\ queue \in Seq(Packets)
      /\ pkt \in [Threads -> Packets \cup {Blank}]
      /\ call \in [Threads -> {"idle"} \cup Channel!Calls \cup Channel!Answers]
      /\ fresh \subseteq Packets /\ freed \subseteq Packets
      /\ \A t \in Threads : call[t] = "push" => pkt[t] \in Packets
      /\ Blank \notin Packets
  BY QueueAssumption DEF TypeInv, TypeOK, Channel!TypeOK, Roles
<1>c. Channel!Contents(queue) \subseteq Packets
  BY <1>t DEF Channel!Contents
<1> HIDE DEF OwnInv
<1>0. ASSUME UNCHANGED <<queue, pkt, fresh, freed>>, HandsEmpty'
      PROVE  OwnInv'
  BY <1>0 DEF OwnInv, Channel!Contents, Channel!Distinct
<1>1. ASSUME NEW t \in Threads, Channel!Caller(t) PROVE OwnInv'
  <2>1. CASE Channel!AskPush(t)
    <3>1. PICK p \in fresh : pkt' = [pkt EXCEPT ![t] = p] /\ fresh' = fresh \ {p}
      BY <2>1 DEF Channel!AskPush
    <3>2. pkt[t] = Blank /\ queue' = queue /\ freed' = freed
      BY <2>1 DEF Channel!AskPush, OwnInv
    <3>3. Channel!Contents(queue') = Channel!Contents(queue)
          /\ (Channel!Distinct(queue') <=> Channel!Distinct(queue))
      BY <3>2
    <3>4. HandsEmpty'
      BY <2>1, <3>1, <1>t DEF Channel!AskPush, OwnInv
    <3>5. Channel!InOnePlace'
      BY <3>1, <3>2, <3>3, <1>t, <1>c DEF OwnInv
    <3>6. Channel!Placed'
      BY <3>1, <3>2, <3>3, <1>t DEF OwnInv
    <3> QED BY <3>4, <3>5, <3>6 DEF OwnInv
  <2>2. CASE \E kind \in Channel!PopCalls : Channel!AskPop(t, kind)
    BY <2>2, <1>0, <1>t DEF Channel!AskPop, Channel!PopCalls, OwnInv
  <2>3. CASE \E kind \in {"flush", "abort"} : Channel!AskControl(t, kind)
    BY <2>3, <1>0, <1>t DEF Channel!AskControl, OwnInv
  <2>4. CASE Channel!Finish(t)
    <3>1. HandsEmpty'
      BY <2>4, <1>t DEF Channel!Finish, OwnInv
    <3>2. Channel!InOnePlace'
      BY <2>4, <1>t, <1>c DEF Channel!Finish, Channel!Content, OwnInv
    <3>3. Channel!Placed'
      BY <2>4, <1>t DEF Channel!Finish, Channel!Content, OwnInv
    <3> QED BY <3>1, <3>2, <3>3 DEF OwnInv
  <2> QED BY <1>1, <2>1, <2>2, <2>3, <2>4 DEF Channel!Caller
<1>2. ASSUME NEW t \in Threads, Channel!Operation(t) PROVE OwnInv'
  <2>1. CASE Channel!Push(t)
    <3>1. /\ pkt[t] \in Packets /\ pkt[t] \notin Channel!Contents(queue)
          /\ queue' = Append(queue, pkt[t])
          /\ pkt' = [pkt EXCEPT ![t] = Blank]
          /\ fresh' = fresh /\ freed' = freed
      BY <2>1, <1>t DEF Channel!Push, OwnInv
    <3>2. /\ Channel!Contents(queue') = Channel!Contents(queue) \cup {pkt[t]}
          /\ Channel!Distinct(queue')
      BY <3>1, <1>t, ContentsOfAppend DEF OwnInv
    <3>3. HandsEmpty'
      BY <2>1, <1>t DEF Channel!Push, OwnInv
    <3>4. Channel!InOnePlace'
      BY <3>1, <3>2, <1>t DEF OwnInv
    <3>5. Channel!Placed'
      BY <3>1, <3>2, <1>t DEF OwnInv
    <3> QED BY <3>3, <3>4, <3>5 DEF OwnInv
  <2>2. CASE Channel!PushRefused(t) \/ Channel!PopRefused(t)
    BY <2>2, <1>0, <1>t DEF Channel!PushRefused, Channel!PopRefused, OwnInv
  <2>3. CASE Channel!PushDropped(t)
    <3>1. HandsEmpty'
      BY <2>3, <1>t DEF Channel!PushDropped, OwnInv
    <3>2. Channel!InOnePlace'
      BY <2>3, <1>t, <1>c DEF Channel!PushDropped, Channel!Content, OwnInv
    <3>3. Channel!Placed'
      BY <2>3, <1>t DEF Channel!PushDropped, Channel!Content, OwnInv
    <3> QED BY <3>1, <3>2, <3>3 DEF OwnInv
  <2>4. CASE Channel!Pop(t)
    <3>1. /\ queue # <<>> /\ queue' = Tail(queue)
          /\ pkt' = [pkt EXCEPT ![t] = Head(queue)]
          /\ freed' = freed \cup Channel!Content(pkt[t]) /\ fresh' = fresh
      BY <2>4 DEF Channel!Pop
    <3>2. /\ Head(queue) \in Packets
          /\ Channel!Contents(queue) = Channel!Contents(queue') \cup {Head(queue)}
          /\ Head(queue) \notin Channel!Contents(queue')
          /\ Channel!Distinct(queue')
      BY <3>1, <1>t, ContentsOfTail DEF OwnInv
    <3>3. HandsEmpty'
      BY <2>4, <1>t DEF Channel!Pop, OwnInv
    <3>4. Channel!InOnePlace'
      BY <3>1, <3>2, <1>t, <1>c DEF Channel!Content, OwnInv
    <3>5. Channel!Placed'
      BY <3>1, <3>2, <1>t DEF Channel!Content, OwnInv
    <3> QED BY <3>3, <3>4, <3>5 DEF OwnInv
  <2>5. CASE Channel!Flush(t)
    <3>1. /\ queue' = <<>> /\ freed' = freed \cup Channel!Contents(queue)
          /\ UNCHANGED <<pkt, fresh>>
      BY <2>5 DEF Channel!Flush
    <3>2. Channel!Contents(queue') = {} /\ Channel!Distinct(queue')
      BY <3>1 DEF Channel!Contents, Channel!Distinct
    <3>3. HandsEmpty'
      BY <2>5, <1>t DEF Channel!Flush, OwnInv
    <3> QED BY <3>1, <3>2, <3>3 DEF OwnInv
  <2>6. CASE Channel!Abort(t)
    BY <2>6, <1>0, <1>t DEF Channel!Abort, OwnInv
  <2> QED BY <1>2, <2>1, <2>2, <2>3, <2>4, <2>5, <2>6 DEF Channel!Operation
<1>3. CASE UNCHANGED Channel!channelVars
  BY <1>3, <1>0 DEF Channel!channelVars, OwnInv
<1> QED BY <1>1, <1>2, <1>3 DEF Channel!Next

(* No packet is freed twice or used after it is freed, and none leaks:     *)
(* not on the refused, the out-of-memory or the exception path of push(),  *)
(* and not in flush().                                                     *)
THEOREM OwnershipCorrect == SafeSpec => []Ownership
<1>1. OwnInv => Ownership
  BY DEF OwnInv, Ownership
<1> QED BY InitType, TypeStep, InitOwn, QueueStep, OwnStep, <1>1, PTL DEF SafeSpec
=============================================================================
