------------------------- MODULE ElementPlaneProofs -------------------------
(* Theorems about ElementPlane, for any number of buffers and any width of *)
(* the counter.                                                            *)
EXTENDS ElementPlane, FiniteSetTheorems, TLAPS

-----------------------------------------------------------------------------
(* The inductive invariant.  The types are taken apart, for the provers.   *)

Flags ==
  /\ blocking \in BOOLEAN /\ driver_streaming \in BOOLEAN /\ streamon \in BOOLEAN
  /\ is_in_error \in BOOLEAN /\ stop_dqthread \in BOOLEAN
  /\ dqthread_running \in BOOLEAN /\ deinit \in BOOLEAN /\ woken \in BOOLEAN
  /\ lost \in BOOLEAN

Bufs ==
  /\ num_buffers \in 0..MaxBuffers
  /\ queued \subseteq Buffers /\ done \subseteq Buffers

Count == num_queued_buffers \in 0..(Width - 1)

Pcs ==
  /\ pc \in [Threads -> AppStates \cup DqStates]
  /\ pc["app"] \in AppStates /\ pc["dq"] \in DqStates

Takes == taken \in [Threads -> Buffers \cup {NoBuffer}]

(* A thread has a buffer from its ioctl to the end of its use of it.       *)
Holding ==
  \A t \in Threads : pc[t] \in {"count", "callback"} <=> taken[t] # NoBuffer

(* The flag is up while the dequeue thread lives, and buffers are freed    *)
(* when it does not.                                                       *)
Running ==
  /\ pc["dq"] \notin {"none", "ended"} => dqthread_running
  /\ pc["app"] = "free" => pc["dq"] \in {"none", "ended"}

IInv == Flags /\ Bufs /\ Count /\ Pcs /\ Takes /\ Holding /\ Running /\ NoMissedWakeup

LEMMA InitInv == Init => IInv
<1> SUFFICES ASSUME Init PROVE IInv
  OBVIOUS
<1> USE PlaneAssumption DEF Init
<1>1. Flags /\ NoMissedWakeup
  BY DEF Flags, NoMissedWakeup
<1>2. Bufs /\ Count
  BY DEF Bufs, Count
<1>3. Pcs
  BY DEF Pcs, Threads, AppStates, DqStates
<1>4. Takes
  BY DEF Takes, Threads, NoBuffer
<1>5. Holding /\ Running
  BY DEF Holding, Running, Threads
<1> QED BY <1>1, <1>2, <1>3, <1>4, <1>5 DEF IInv

(* qBuffer, whichever thread calls it: it tells a waiter what it changes.  *)
LEMMA QBufferKeeps ==
  ASSUME IInv, NEW b \in Buffers, QBuffer(b)
  PROVE  /\ Flags' /\ Bufs' /\ Count'
         /\ num_buffers' = num_buffers /\ dqthread_running' = dqthread_running
         /\ woken' \/ (woken' = woken /\ num_queued_buffers' = num_queued_buffers)
<1> USE PlaneAssumption DEF QBuffer, Broadcast, planeVars, threadVars
<1>1. Flags'
  BY DEF IInv, Flags
<1>2. Bufs'
  BY DEF IInv, Bufs, Buffers
<1>3. Count'
  BY DEF IInv, Count
<1> QED BY <1>1, <1>2, <1>3

LEMMA StepInv == IInv /\ [Next]_vars => IInv'
<1> SUFFICES ASSUME IInv, [Next]_vars PROVE IInv'
  OBVIOUS
<1> USE PlaneAssumption DEF IInv, driverVars, planeVars, threadVars, Moves, Broadcast
<1>0. 0 \in 0..(Width - 1)
  OBVIOUS
<1>1. CASE \/ Dequeue \/ DeinitPlane \/ StopDQThread
           \/ (\E for \in Waits : Wait(for)) \/ TimedOut \/ WaitLoop
  <2> USE <1>1 DEF Dequeue, DeinitPlane, StopDQThread, Wait, Waits, TimedOut,
          WaitLoop, App
  <2>1. Flags'
    BY DEF Flags
  <2>2. Count'
    BY DEF Count
  <2>3. Bufs'
    BY DEF Bufs, Buffers
  <2>4. Pcs'
    BY DEF Pcs, Threads, AppStates, DqStates
  <2>5. Takes'
    BY DEF Takes, Buffers, NoBuffer, Threads
  <2>6. Holding'
    BY DEF Holding, Running, Takes, NoBuffer, Pcs, Threads, AppStates, DqStates
  <2>7. Running'
    BY DEF Running, Pcs, Threads, AppStates, DqStates
  <2>8. NoMissedWakeup'
    BY DEF NoMissedWakeup, MustWait, Flags, Pcs, Threads, AppStates, DqStates
  <2> QED BY <2>1, <2>2, <2>3, <2>4, <2>5, <2>6, <2>7, <2>8
<1>2. CASE SetStreamStatus \/ StoreStatus
  <2> USE <1>2 DEF SetStreamStatus, StreamUnchanged, StreamIoctl, StoreStatus,
          StreamSet, App
  <2>1. Flags'
    <3>1. /\ UNCHANGED <<threadVars, blocking, deinit>>
          /\ is_in_error' \in BOOLEAN /\ woken' \in BOOLEAN
      BY DEF Flags
    <3>2. driver_streaming' \in BOOLEAN /\ streamon' \in BOOLEAN
      BY DEF Flags
    <3> QED BY <3>1, <3>2 DEF Flags
  <2>2. Count'
    BY <1>0 DEF Count
  <2>3. Bufs'
    BY DEF Bufs, Buffers
  <2>4. Pcs'
    BY DEF Pcs, Threads, AppStates, DqStates
  <2>5. Takes'
    BY DEF Takes, Buffers, NoBuffer, Threads
  <2>6. Holding'
    BY DEF Holding, Running, Takes, NoBuffer, Pcs, Threads, AppStates, DqStates
  <2>7. Running'
    BY DEF Running, Pcs, Threads, AppStates, DqStates
  <2>8. NoMissedWakeup'
    BY DEF NoMissedWakeup, MustWait, Flags, Pcs, Threads, AppStates, DqStates
  <2> QED BY <2>1, <2>2, <2>3, <2>4, <2>5, <2>6, <2>7, <2>8
<1>3. CASE Join
  <2> USE <1>3 DEF Join, Joined
  <2>1. Flags'
    BY DEF Flags
  <2>2. Count'
    BY DEF Count
  <2>3. Bufs'
    BY DEF Bufs, Buffers
  <2>4. Pcs'
    BY DEF Pcs, Threads, AppStates, DqStates
  <2>5. Takes'
    BY DEF Takes, Buffers, NoBuffer, Threads
  <2>6. Holding'
    BY DEF Holding, Running, Takes, NoBuffer, Pcs, Threads, AppStates, DqStates
  <2>7. Running'
    BY DEF Running, Pcs, Threads, AppStates, DqStates
  <2>8. NoMissedWakeup'
    BY DEF NoMissedWakeup, MustWait, Flags, Pcs, Threads, AppStates, DqStates
  <2> QED BY <2>1, <2>2, <2>3, <2>4, <2>5, <2>6, <2>7, <2>8
<1>4. CASE StartDQThread
  <2> USE <1>4 DEF StartDQThread
  <2>1. Flags'
    BY DEF Flags
  <2>2. Count'
    BY DEF Count
  <2>3. Bufs'
    BY DEF Bufs, Buffers
  <2>4. Pcs'
    BY DEF Pcs, Threads, AppStates, DqStates
  <2>5. Takes'
    BY DEF Takes, Buffers, NoBuffer, Threads
  <2>6. Holding'
    BY DEF Holding, Running, Takes, NoBuffer, Pcs, Threads, AppStates, DqStates
  <2>7. Running'
    BY DEF Running, Pcs, Threads, AppStates, DqStates
  <2>8. NoMissedWakeup'
    BY DEF NoMissedWakeup, MustWait, Flags, Pcs, Threads, AppStates, DqStates
  <2> QED BY <2>1, <2>2, <2>3, <2>4, <2>5, <2>6, <2>7, <2>8
<1>5. CASE SetupPlane \/ FreeBuffers
  <2> USE <1>5 DEF SetupPlane, FreeBuffers, App
  <2>1. Flags'
    BY DEF Flags
  <2>2. Count'
    BY DEF Count
  <2>3. Bufs'
    <3>1. CASE SetupPlane
      <4>1. queued = {} /\ done = {}
        BY <3>1 DEF Bufs, Buffers
      <4> QED BY <3>1, <4>1 DEF Bufs, Buffers
    <3>2. CASE FreeBuffers
      BY <3>2, 0 \in 0..MaxBuffers DEF Bufs, Buffers
    <3> QED BY <3>1, <3>2
  <2>4. Pcs'
    BY DEF Pcs, Threads, AppStates, DqStates
  <2>5. Takes'
    <3>1. taken \in [Threads -> {NoBuffer}]
      BY DEF Takes, Holding, Running, Bufs, Buffers, NoBuffer, Threads
    <3> QED BY <3>1 DEF Takes, Threads
  <2>6. Holding'
    BY DEF Holding, Running, Takes, NoBuffer, Pcs, Threads, AppStates, DqStates
  <2>7. Running'
    BY DEF Running, Pcs, Threads, AppStates, DqStates
  <2>8. NoMissedWakeup'
    BY DEF NoMissedWakeup, MustWait, Flags, Pcs, Threads, AppStates, DqStates
  <2> QED BY <2>1, <2>2, <2>3, <2>4, <2>5, <2>6, <2>7, <2>8
<1>6. CASE \/ TakeBuffer("app") \/ CountBuffer("app")
           \/ DequeueFails("app") \/ DequeueFault("app")
  <2> USE <1>6 DEF TakeBuffer, CountBuffer, DequeueFails, DequeueFault,
          AfterDequeue, AfterFailure
  <2>1. Flags'
    BY DEF Flags
  <2>2. Count'
    BY DEF Count
  <2>3. Bufs'
    BY DEF Bufs, Buffers
  <2>4. Pcs'
    BY DEF Pcs, Threads, AppStates, DqStates
  <2>5. Takes'
    BY DEF Takes, Bufs, Buffers, NoBuffer, Threads
  <2>6. Holding'
    <3>1. ASSUME NEW t \in Threads, TakeBuffer(t) PROVE Holding'
      BY <3>1 DEF Holding, Bufs, Buffers, Takes, NoBuffer, Threads, Pcs
    <3>2. ASSUME NEW t \in Threads, CountBuffer(t) PROVE Holding'
      BY <3>2 DEF Holding, Takes, NoBuffer, Threads, Pcs
    <3>3. ASSUME NEW t \in Threads, DequeueFails(t) \/ DequeueFault(t)
          PROVE  Holding'
      BY <3>3 DEF Holding, Takes, NoBuffer, Threads, Pcs
    <3> QED BY <3>1, <3>2, <3>3 DEF Threads
  <2>7. Running'
    BY DEF Running, Pcs, Threads, AppStates, DqStates
  <2>8. NoMissedWakeup'
    BY DEF NoMissedWakeup, MustWait, Flags, Pcs, Threads, AppStates, DqStates
  <2> QED BY <2>1, <2>2, <2>3, <2>4, <2>5, <2>6, <2>7, <2>8
<1>7. CASE \/ TakeBuffer("dq") \/ CountBuffer("dq")
           \/ DequeueFails("dq") \/ DequeueFault("dq")
  <2> USE <1>7 DEF TakeBuffer, CountBuffer, DequeueFails, DequeueFault,
          AfterDequeue, AfterFailure
  <2>1. Flags'
    BY DEF Flags
  <2>2. Count'
    BY DEF Count
  <2>3. Bufs'
    BY DEF Bufs, Buffers
  <2>4. Pcs'
    BY DEF Pcs, Threads, AppStates, DqStates
  <2>5. Takes'
    BY DEF Takes, Bufs, Buffers, NoBuffer, Threads
  <2>6. Holding'
    <3>1. ASSUME NEW t \in Threads, TakeBuffer(t) PROVE Holding'
      BY <3>1 DEF Holding, Bufs, Buffers, Takes, NoBuffer, Threads, Pcs
    <3>2. ASSUME NEW t \in Threads, CountBuffer(t) PROVE Holding'
      BY <3>2 DEF Holding, Takes, NoBuffer, Threads, Pcs
    <3>3. ASSUME NEW t \in Threads, DequeueFails(t) \/ DequeueFault(t)
          PROVE  Holding'
      BY <3>3 DEF Holding, Takes, NoBuffer, Threads, Pcs
    <3> QED BY <3>1, <3>2, <3>3 DEF Threads
  <2>7. Running'
    BY DEF Running, Pcs, Threads, AppStates, DqStates
  <2>8. NoMissedWakeup'
    BY DEF NoMissedWakeup, MustWait, Flags, Pcs, Threads, AppStates, DqStates
  <2> QED BY <2>1, <2>2, <2>3, <2>4, <2>5, <2>6, <2>7, <2>8
<1>8. CASE DqStart \/ DqTest \/ DqCallbackNull \/ DqCheck \/ DqExit \/ DqEnd
  <2> USE <1>8 DEF DqStart, DqTest, DqCallbackNull, DqCheck, DqExit, DqEnd, Dq
  <2>1. Flags'
    BY DEF Flags
  <2>2. Count'
    BY DEF Count
  <2>3. Bufs'
    BY DEF Bufs, Buffers
  <2>4. Pcs'
    BY DEF Pcs, Threads, AppStates, DqStates
  <2>5. Takes'
    BY DEF Takes, Buffers, NoBuffer, Threads
  <2>6. Holding'
    BY DEF Holding, Running, Takes, NoBuffer, Pcs, Threads, AppStates, DqStates
  <2>7. Running'
    BY DEF Running, Pcs, Threads, AppStates, DqStates
  <2>8. NoMissedWakeup'
    BY DEF NoMissedWakeup, MustWait, Flags, Pcs, Threads, AppStates, DqStates
  <2> QED BY <2>1, <2>2, <2>3, <2>4, <2>5, <2>6, <2>7, <2>8
<1>9. CASE Driver \/ UNCHANGED vars
  <2> USE <1>9 DEF Driver, vars
  <2>1. Flags'
    BY DEF Flags
  <2>2. Count'
    BY DEF Count
  <2>3. Bufs'
    BY DEF Bufs, Buffers
  <2>4. Pcs'
    BY DEF Pcs, Threads, AppStates, DqStates
  <2>5. Takes'
    BY DEF Takes, Buffers, NoBuffer, Threads
  <2>6. Holding'
    BY DEF Holding, Running, Takes, NoBuffer, Pcs, Threads, AppStates, DqStates
  <2>7. Running'
    BY DEF Running, Pcs, Threads, AppStates, DqStates
  <2>8. NoMissedWakeup'
    BY DEF NoMissedWakeup, MustWait, Flags, Pcs, Threads, AppStates, DqStates
  <2> QED BY <2>1, <2>2, <2>3, <2>4, <2>5, <2>6, <2>7, <2>8
<1>10. CASE QueueOwn
  <2>1. PICK b \in Buffers : QBuffer(b)
    BY <1>10 DEF QueueOwn
  <2>2. pc' = pc /\ taken' = taken /\ pc["app"] = "idle"
    BY <1>10 DEF QueueOwn, App, Pcs, Threads
  <2>3. Flags' /\ Bufs' /\ Count' /\ Pcs' /\ Takes' /\ Holding' /\ Running'
    BY <2>1, <2>2, QBufferKeeps DEF Pcs, Takes, Holding, Running, Buffers
  <2>4. NoMissedWakeup'
    BY <2>1, <2>2, QBufferKeeps DEF NoMissedWakeup, MustWait
  <2> QED BY <2>3, <2>4
<1>11. CASE DqCallback
  <2> USE <1>11 DEF DqCallback
  <2>1. taken["dq"] \in Buffers
    BY DEF Holding, Takes, Threads, NoBuffer
  <2>2. /\ Flags' /\ Bufs' /\ Count'
        /\ num_buffers' = num_buffers /\ dqthread_running' = dqthread_running
        /\ woken' \/ (woken' = woken /\ num_queued_buffers' = num_queued_buffers)
    <3>1. CASE QBuffer(taken["dq"])
      BY <2>1, <3>1, QBufferKeeps
    <3>2. CASE UNCHANGED <<driverVars, planeVars, num_queued_buffers, is_in_error,
                           threadVars, deinit, woken>>
      BY <3>2 DEF Flags, Bufs, Buffers, Count
    <3> QED BY <3>1, <3>2
  <2>3. Pcs' /\ pc'["app"] = pc["app"]
    BY DEF Pcs, Threads, AppStates, DqStates
  <2>4. Takes'
    BY <2>2 DEF Takes, Buffers, Threads
  <2>5. Holding'
    BY DEF Holding, Takes, NoBuffer, Threads, Pcs
  <2>6. Running'
    BY <2>2 DEF Running, Pcs, Threads, AppStates
  <2>7. NoMissedWakeup'
    <3> HIDE <1>11 DEF DqCallback
    <3> SUFFICES ASSUME ~woken' PROVE MustWait'
      BY DEF NoMissedWakeup
    <3>1. MustWait /\ num_queued_buffers' = num_queued_buffers
      BY <2>2 DEF NoMissedWakeup
    <3> QED BY <2>2, <2>3, <3>1 DEF MustWait
  <2> QED BY <2>2, <2>3, <2>4, <2>5, <2>6, <2>7
<1> QED
  BY <1>1, <1>2, <1>3, <1>4, <1>5, <1>6, <1>7, <1>8, <1>9, <1>10, <1>11
  DEF Next, AppCalls, AppGoesOn, DqThread, Threads

-----------------------------------------------------------------------------
(* The theorems.                                                           *)

LEMMA Inductive == SafeSpec => []IInv
  BY InitInv, StepInv, PTL DEF SafeSpec

(* The types of the plane's state hold.                                    *)
THEOREM TypeCorrect == SafeSpec => []TypeOK
<1>1. IInv => TypeOK
  BY DEF IInv, TypeOK, Flags, Bufs, Count, Pcs, Takes
<1> QED BY <1>1, Inductive, PTL

(* Neither thread indexes a buffer that has been freed, however deinitPlane *)
(* falls into the steps of the dequeue thread.                             *)
THEOREM BuffersAliveCorrect == SafeSpec => []BuffersAlive
<1>1. IInv => BuffersAlive
  BY DEF IInv, Takes, Holding, BuffersAlive, Threads, NoBuffer
<1> QED BY <1>1, Inductive, PTL

(* No change that ends one of the three waits goes untold.                 *)
THEOREM NoMissedWakeupCorrect == SafeSpec => []NoMissedWakeup
<1>1. IInv => NoMissedWakeup
  BY DEF IInv
<1> QED BY <1>1, Inductive, PTL
-----------------------------------------------------------------------------
(* The counter, modulo Width.  A buffer is counted out as often as it is   *)
(* counted in because it is in one place at a time: with the driver, or    *)
(* with one of the threads.                                                *)

LEMMA SameRemainder ==
  ASSUME NEW w \in Nat, w > 0, NEW a \in 0..(3 * w - 1), NEW b \in 0..(3 * w - 1),
         b = a \/ b = a + w \/ a = b + w
  PROVE  a % w = b % w
<1>1. \A n \in 0..(w - 1) : n % w = n
  OBVIOUS
<1>2. \A n \in w..(2 * w - 1) : n % w = n - w
  OBVIOUS
<1>3. \A n \in (2 * w)..(3 * w - 1) : n % w = n - 2 * w
  OBVIOUS
<1> QED BY <1>1, <1>2, <1>3

LEMMA WidthPositive == Width \in Nat /\ Width > 0
  BY PlaneAssumption

LEMMA CountUp ==
  ASSUME NEW q \in 0..(Width - 1)
  PROVE  (q + 1) % Width = IF q = Width - 1 THEN 0 ELSE q + 1
<1>1. \A n \in 0..(Width - 1) : n % Width = n
  BY WidthPositive
<1>2. \A n \in Width..(2 * Width - 1) : n % Width = n - Width
  BY WidthPositive
<1> QED BY <1>1, <1>2, WidthPositive

LEMMA CountDown ==
  ASSUME NEW q \in 0..(Width - 1)
  PROVE  (q + Width - 1) % Width = IF q = 0 THEN Width - 1 ELSE q - 1
<1>1. \A n \in 0..(Width - 1) : n % Width = n
  BY WidthPositive
<1>2. \A n \in Width..(2 * Width - 1) : n % Width = n - Width
  BY WidthPositive
<1> QED BY <1>1, <1>2, WidthPositive

(* What the driver and the threads have is finite, and small enough.       *)
LEMMA Sizes ==
  ASSUME IInv
  PROVE  /\ IsFiniteSet(InDriver) /\ Cardinality(InDriver) \in 0..(Width - 1)
         /\ IsFiniteSet(Counting) /\ Cardinality(Counting) \in 0..2
<1>1. num_buffers \in Nat /\ num_buffers < Width /\ InDriver \in SUBSET (1..num_buffers)
  BY PlaneAssumption DEF IInv, Bufs, Buffers, InDriver
<1>2. IsFiniteSet(1..num_buffers) /\ Cardinality(1..num_buffers) <= num_buffers
  BY <1>1, FS_Interval
<1>3. IsFiniteSet(InDriver) /\ Cardinality(InDriver) <= Cardinality(1..num_buffers)
  BY <1>1, <1>2, FS_Subset
<1>4. Cardinality(InDriver) \in Nat /\ Cardinality(1..num_buffers) \in Nat
  BY <1>2, <1>3, FS_CardinalityType
<1>5. Counting \in SUBSET ({"app"} \cup {"dq"})
  BY DEF Counting, Threads
<1>6. IsFiniteSet({"app"} \cup {"dq"}) /\ Cardinality({"app"} \cup {"dq"}) = 2
  <2>1. IsFiniteSet({"app"}) /\ Cardinality({"app"}) = 1 /\ "dq" \notin {"app"}
    BY FS_Singleton
  <2> QED BY <2>1, FS_AddElement
<1>7. IsFiniteSet(Counting) /\ Cardinality(Counting) <= 2
  BY <1>5, <1>6, FS_Subset
<1>8. Cardinality(Counting) \in Nat
  BY <1>7, FS_CardinalityType
<1> QED BY <1>1, <1>2, <1>3, <1>4, <1>7, <1>8, PlaneAssumption

(* The excess stays when the counter and what it counts change together.   *)
LEMMA ExcessKept ==
  ASSUME IInv, IInv',
         \/ /\ num_queued_buffers' = num_queued_buffers
            /\ Cardinality(InDriver)' + Cardinality(Counting)'
                 = Cardinality(InDriver) + Cardinality(Counting)
         \/ /\ num_queued_buffers' = (num_queued_buffers + 1) % Width
            /\ Cardinality(InDriver)' = Cardinality(InDriver) + 1
            /\ Cardinality(Counting)' = Cardinality(Counting)
         \/ /\ num_queued_buffers' = (num_queued_buffers + Width - 1) % Width
            /\ Cardinality(InDriver)' = Cardinality(InDriver)
            /\ Cardinality(Counting)' = Cardinality(Counting) - 1
  PROVE  Excess' = Excess
<1> DEFINE sum == num_queued_buffers + Width - Cardinality(InDriver)
                    + Width - Cardinality(Counting)
<1>1. /\ num_queued_buffers \in 0..(Width - 1)
      /\ Cardinality(InDriver) \in 0..(Width - 1) /\ Cardinality(Counting) \in 0..2
  BY Sizes DEF IInv, Count
<1>2. /\ num_queued_buffers' \in 0..(Width - 1)
      /\ Cardinality(InDriver)' \in 0..(Width - 1) /\ Cardinality(Counting)' \in 0..2
  <2>1. (Cardinality(InDriver) \in 0..(Width - 1) /\ Cardinality(Counting) \in 0..2)'
    BY Sizes, PTL
  <2> QED BY <2>1 DEF IInv, Count
<1>3. sum \in 0..(3 * Width - 1)
  BY <1>1, WidthPositive
<1>4. sum' \in 0..(3 * Width - 1)
  BY <1>2, WidthPositive
<1>5. sum' = sum \/ sum' = sum + Width \/ sum = sum' + Width
  <2>1. /\ (num_queued_buffers + 1) % Width =
             IF num_queued_buffers = Width - 1 THEN 0 ELSE num_queued_buffers + 1
        /\ (num_queued_buffers + Width - 1) % Width =
             IF num_queued_buffers = 0 THEN Width - 1 ELSE num_queued_buffers - 1
    BY <1>1, CountUp, CountDown
  <2> DEFINE up == (num_queued_buffers + 1) % Width
             down == (num_queued_buffers + Width - 1) % Width
  <2> HIDE DEF up, down
  <2>2. /\ up = IF num_queued_buffers = Width - 1 THEN 0 ELSE num_queued_buffers + 1
        /\ down = IF num_queued_buffers = 0 THEN Width - 1 ELSE num_queued_buffers - 1
    BY <2>1 DEF up, down
  <2>3. \/ /\ num_queued_buffers' = num_queued_buffers
           /\ Cardinality(InDriver)' + Cardinality(Counting)'
                = Cardinality(InDriver) + Cardinality(Counting)
        \/ /\ num_queued_buffers' = up
           /\ Cardinality(InDriver)' = Cardinality(InDriver) + 1
           /\ Cardinality(Counting)' = Cardinality(Counting)
        \/ /\ num_queued_buffers' = down
           /\ Cardinality(InDriver)' = Cardinality(InDriver)
           /\ Cardinality(Counting)' = Cardinality(Counting) - 1
    BY DEF up, down
  <2> QED BY <1>1, <1>2, <2>2, <2>3, WidthPositive
<1>6. Excess = sum % Width /\ Excess' = sum' % Width
  BY DEF Excess
<1> HIDE DEF sum
<1> QED BY <1>3, <1>4, <1>5, <1>6, WidthPositive, SameRemainder

-----------------------------------------------------------------------------
(* A buffer is in one place, and streamon is what the driver was told last *)
(* except between the ioctl and the assignment.                            *)

Apart ==
  /\ queued \cap done = {}
  /\ \A t \in Threads : taken[t] \notin InDriver
  /\ taken["app"] = taken["dq"] => taken["app"] = NoBuffer

Told == pc["app"] = "store" <=> streamon # driver_streaming

CountInv == Apart /\ Told

LEMMA CountInit == Init => CountInv
  BY DEF Init, CountInv, Apart, Told, InDriver, NoBuffer, Threads

(* A buffer that is with nobody is queued.                                 *)
LEMMA QBufferApart ==
  ASSUME Apart, NEW b \in Buffers, QBuffer(b), b \notin InDriver,
         taken' \in [Threads -> Nat],
         \A t \in Threads : taken'[t] \in {NoBuffer, taken[t]} /\ taken'[t] # b,
         NoBuffer \notin InDriver
  PROVE  Apart'
<1>1. b \in Nat /\ b # 0
  BY DEF Buffers
<1> QED BY <1>1 DEF QBuffer, Apart, InDriver, Threads, NoBuffer

LEMMA CountStep == IInv /\ CountInv /\ [Next]_vars => CountInv'
<1> SUFFICES ASSUME IInv, CountInv, [Next]_vars PROVE CountInv'
  OBVIOUS
<1> USE DEF CountInv, driverVars, planeVars, threadVars, Moves
<1>0. /\ NoBuffer \notin InDriver /\ taken \in [Threads -> Buffers \cup {NoBuffer}]
      /\ Buffers \subseteq Nat /\ NoBuffer \in Nat
      /\ pc \in [Threads -> AppStates \cup DqStates]
      /\ \A t \in Threads : pc[t] \notin {"count", "callback"} => taken[t] = NoBuffer
  BY DEF IInv, Bufs, InDriver, Buffers, NoBuffer, Takes, Pcs, Holding
<1>1. CASE QueueOwn
  <2>1. PICK b \in Buffers \ (InDriver \cup {taken["dq"]}) : QBuffer(b)
    BY <1>1 DEF QueueOwn
  <2>2. /\ pc["app"] = "idle" /\ pc'["app"] = "idle" /\ UNCHANGED taken
        /\ UNCHANGED <<streamon, driver_streaming>>
    BY <1>0, <1>1, <2>1 DEF QueueOwn, App, QBuffer, Threads
  <2>3. taken["app"] = NoBuffer /\ b # NoBuffer
    BY <1>0, <2>2 DEF Threads, Buffers, NoBuffer
  <2>4. Apart'
    BY <1>0, <2>1, <2>2, <2>3, QBufferApart DEF Threads
  <2> QED BY <2>2, <2>4 DEF Told
<1>2. CASE DqCallback
  <2>1. /\ pc["dq"] = "callback" /\ taken' = [taken EXCEPT !["dq"] = NoBuffer]
        /\ pc'["app"] = pc["app"]
        /\ UNCHANGED <<streamon, driver_streaming>>
    BY <1>0, <1>2 DEF DqCallback, QBuffer, Threads
  <2>2. taken["dq"] # NoBuffer /\ taken["dq"] \in Buffers
    BY <1>0, <2>1 DEF IInv, Holding, Threads
  <2>3. CASE QBuffer(taken["dq"])
    <3>1. Apart'
      BY <1>0, <2>1, <2>2, <2>3, QBufferApart DEF Apart, Threads
    <3> QED BY <2>1, <3>1 DEF Told
  <2>4. CASE UNCHANGED driverVars
    BY <1>0, <2>1, <2>4 DEF Apart, Told, InDriver, Threads
  <2> QED BY <1>2, <2>3, <2>4 DEF DqCallback
<1>3. ASSUME NEW t \in Threads, TakeBuffer(t)
      PROVE  CountInv'
  <2>1. PICK b \in done : done' = done \ {b} /\ taken' = [taken EXCEPT ![t] = b]
    BY <1>3 DEF TakeBuffer
  <2>2. b # NoBuffer /\ taken[t] = NoBuffer /\ queued' = queued
    BY <1>0, <1>3, <2>1 DEF TakeBuffer, InDriver
  <2>3. Apart'
    BY <1>0, <2>1, <2>2 DEF Apart, InDriver, Threads
  <2>4. Told'
    BY <1>0, <1>3 DEF TakeBuffer, Told, Threads
  <2> QED BY <2>3, <2>4
<1>4. ASSUME NEW t \in Threads, CountBuffer(t)
      PROVE  CountInv'
  BY <1>0, <1>4 DEF CountBuffer, AfterDequeue, Apart, Told, Threads, InDriver
<1>5. ASSUME NEW t \in Threads, DequeueFails(t) \/ DequeueFault(t)
      PROVE  CountInv'
  BY <1>0, <1>5 DEF DequeueFails, DequeueFault, AfterFailure, Apart, Told, Threads, InDriver
<1>6. CASE SetStreamStatus
  <2> DEFINE Unchanged(from) == \E status \in BOOLEAN : StreamUnchanged(from, status)
             Ioctl(from) == \E status \in BOOLEAN : StreamIoctl(from, status)
  <2>1. PICK from \in {"idle", "deinit"} : Unchanged(from) \/ Ioctl(from)
    BY <1>6 DEF SetStreamStatus
  <2>2. CASE Unchanged(from)
    BY <1>0, <2>2 DEF StreamUnchanged, App, StreamSet, Apart, Told, Threads, InDriver
  <2>3. CASE Ioctl(from)
    BY <1>0, <2>3 DEF StreamIoctl, App, Apart, Told, Threads, InDriver, IInv, Flags
  <2> QED BY <2>1, <2>2, <2>3
<1>7. CASE StoreStatus
  BY <1>0, <1>7 DEF StoreStatus, App, StreamSet, Apart, Told, Threads, InDriver, IInv, Flags
<1>8. CASE FreeBuffers
  BY <1>0, <1>8 DEF FreeBuffers, App, Apart, Told, Threads, InDriver
<1>9. CASE Driver
  BY <1>0, <1>9 DEF Driver, Apart, Told, Threads, InDriver
<1>10. CASE Dequeue \/ SetupPlane \/ DeinitPlane \/ StopDQThread
              \/ (\E for \in Waits : Wait(for)) \/ TimedOut
  BY <1>0, <1>10 DEF Dequeue, SetupPlane, DeinitPlane, StopDQThread, Wait, Waits,
     TimedOut, App, Apart, Told, Threads, InDriver
<1>11. CASE StartDQThread \/ WaitLoop \/ Join
  BY <1>0, <1>11 DEF StartDQThread, WaitLoop, Waits, Join, Joined, Apart, Told, Threads,
     InDriver
<1>12. CASE DqStart \/ DqTest \/ DqCallbackNull \/ DqCheck \/ DqExit \/ DqEnd
  BY <1>0, <1>12 DEF DqStart, DqTest, DqCallbackNull, DqCheck, DqExit, DqEnd, Dq,
     Apart, Told, Threads, InDriver
<1>13. CASE UNCHANGED vars
  BY <1>13 DEF vars, Apart, Told, InDriver
<1> QED BY <1>1, <1>2, <1>3, <1>4, <1>5, <1>6, <1>7, <1>8, <1>9, <1>10, <1>11, <1>12,
       <1>13 DEF Next, AppCalls, AppGoesOn, DqThread, Threads

-----------------------------------------------------------------------------
(* The steps that keep the count.                                          *)

Stopped == \/ driver_streaming /\ ~driver_streaming'
           \/ streamon /\ ~streamon'
           \/ num_buffers' < num_buffers

LEMMA NothingCounted ==
  ASSUME UNCHANGED <<num_queued_buffers, queued, done>>, Counting' = Counting
  PROVE  Excess' = Excess
  BY DEF Excess, InDriver

LEMMA QBufferCounted ==
  ASSUME IInv, IInv', NEW b \in Buffers \ InDriver, QBuffer(b), Counting' = Counting
  PROVE  Excess' = Excess
<1>1. CASE UNCHANGED <<queued, num_queued_buffers>>
  BY <1>1, NothingCounted DEF QBuffer
<1>2. CASE /\ queued' = queued \cup {b}
           /\ num_queued_buffers' = (num_queued_buffers + 1) % Width
  <2>1. InDriver' = InDriver \cup {b}
    BY <1>2 DEF QBuffer, InDriver
  <2>2. Cardinality(InDriver)' = Cardinality(InDriver) + 1
    BY <2>1, Sizes, FS_AddElement
  <2> QED BY <1>2, <2>2, ExcessKept
<1> QED BY <1>1, <1>2 DEF QBuffer

LEMMA ExcessStep == IInv /\ IInv' /\ CountInv /\ [Next]_vars => Excess' = Excess \/ Stopped
<1> SUFFICES ASSUME IInv, IInv', CountInv, [Next]_vars, ~Stopped
             PROVE  Excess' = Excess
  OBVIOUS
<1> USE DEF driverVars, planeVars, threadVars, Moves
<1>0. pc \in [Threads -> AppStates \cup DqStates]
  BY DEF IInv, Pcs
<1>1. CASE QueueOwn
  <2>1. PICK b \in Buffers \ (InDriver \cup {taken["dq"]}) : QBuffer(b)
    BY <1>1 DEF QueueOwn
  <2>2. Counting' = Counting
    BY <1>0, <1>1 DEF QueueOwn, App, Counting, Threads
  <2> QED BY <2>1, <2>2, QBufferCounted
<1>2. CASE DqCallback
  <2>1. pc["dq"] = "callback" /\ Counting' = Counting
    BY <1>0, <1>2 DEF DqCallback, Counting, Threads
  <2>2. taken["dq"] \in Buffers \ InDriver
    BY <2>1 DEF IInv, Holding, Takes, CountInv, Apart, Threads
  <2> QED BY <1>2, <2>1, <2>2, QBufferCounted, NothingCounted DEF DqCallback
<1>3. ASSUME NEW t \in Threads, TakeBuffer(t)
      PROVE  Excess' = Excess
  <2>1. PICK b \in done : done' = done \ {b}
    BY <1>3 DEF TakeBuffer
  <2>2. b \in InDriver /\ InDriver' = InDriver \ {b}
    BY <1>3, <2>1 DEF TakeBuffer, InDriver, CountInv, Apart
  <2>3. t \notin Counting /\ Counting' = Counting \cup {t}
    BY <1>0, <1>3 DEF TakeBuffer, Counting
  <2>4. Cardinality(InDriver)' = Cardinality(InDriver) - 1
    BY <2>2, Sizes, FS_RemoveElement
  <2>5. Cardinality(Counting)' = Cardinality(Counting) + 1
    BY <2>3, Sizes, FS_AddElement
  <2>6. Cardinality(InDriver)' + Cardinality(Counting)'
          = Cardinality(InDriver) + Cardinality(Counting)
    BY <2>4, <2>5, Sizes
  <2> QED BY <1>3, <2>6, ExcessKept DEF TakeBuffer
<1>4. ASSUME NEW t \in Threads, CountBuffer(t)
      PROVE  Excess' = Excess
  <2>1. t \in Counting /\ Counting' = Counting \ {t}
    BY <1>0, <1>4 DEF CountBuffer, AfterDequeue, Counting
  <2>2. Cardinality(Counting)' = Cardinality(Counting) - 1
    BY <2>1, Sizes, FS_RemoveElement
  <2>3. InDriver' = InDriver
    BY <1>4 DEF CountBuffer, InDriver
  <2> QED BY <1>4, <2>2, <2>3, ExcessKept DEF CountBuffer
<1>5. ASSUME NEW t \in Threads, DequeueFails(t) \/ DequeueFault(t)
      PROVE  Excess' = Excess
  <2>1. Counting' = Counting
    BY <1>0, <1>5 DEF DequeueFails, DequeueFault, AfterFailure, Counting
  <2> QED BY <1>5, <2>1, NothingCounted DEF DequeueFails, DequeueFault
<1>6. CASE SetStreamStatus
  <2>1. PICK from \in {"idle", "deinit"}, status \in BOOLEAN :
          StreamUnchanged(from, status) \/ StreamIoctl(from, status)
    BY <1>6 DEF SetStreamStatus
  <2>2. Counting' = Counting
    BY <1>0, <2>1 DEF StreamUnchanged, StreamIoctl, App, StreamSet, Counting, Threads
  <2>3. UNCHANGED <<num_queued_buffers, queued, done>>
    BY <2>1 DEF StreamUnchanged, StreamIoctl, App, Stopped, CountInv, Told, IInv, Flags
  <2> QED BY <2>2, <2>3, NothingCounted
<1>7. CASE StoreStatus
  <2>1. UNCHANGED <<num_queued_buffers, queued, done>>
    BY <1>7 DEF StoreStatus, Stopped
  <2>2. Counting' = Counting
    BY <1>0, <1>7 DEF StoreStatus, App, StreamSet, Counting, Threads
  <2> QED BY <2>1, <2>2, NothingCounted
<1>8. CASE FreeBuffers
  <2>1. UNCHANGED <<num_queued_buffers, queued, done>>
    <3>1. num_buffers = 0 => queued = {} /\ done = {}
      BY DEF IInv, Bufs, Buffers
    <3>2. num_buffers' = 0 => num_buffers = 0
      BY PlaneAssumption DEF Stopped, IInv, Bufs
    <3> QED BY <1>8, <3>1, <3>2 DEF FreeBuffers
  <2>2. Counting' = Counting
    BY <1>0, <1>8 DEF FreeBuffers, App, Counting, Threads
  <2> QED BY <2>1, <2>2, NothingCounted
<1>9. CASE Driver
  <2>1. InDriver' = InDriver /\ Counting' = Counting
    BY <1>9 DEF Driver, InDriver, Counting
  <2> QED BY <1>9, <2>1 DEF Driver, Excess
<1>10. CASE Dequeue \/ SetupPlane \/ DeinitPlane \/ StopDQThread
              \/ (\E for \in Waits : Wait(for)) \/ TimedOut
  <2> USE <1>10 DEF Dequeue, SetupPlane, DeinitPlane, StopDQThread, Wait, Waits,
          TimedOut, App
  <2>1. UNCHANGED <<num_queued_buffers, queued, done>>
    OBVIOUS
  <2>2. Counting' = Counting
    BY <1>0 DEF Counting, Threads
  <2> QED BY <2>1, <2>2, NothingCounted
<1>11. CASE StartDQThread \/ WaitLoop \/ Join
  <2> USE <1>11 DEF StartDQThread, WaitLoop, Waits, Join, Joined
  <2>1. UNCHANGED <<num_queued_buffers, queued, done>>
    OBVIOUS
  <2>2. Counting' = Counting
    BY <1>0 DEF Counting, Threads, IInv, Running, Pcs, DqStates
  <2> QED BY <2>1, <2>2, NothingCounted
<1>12. CASE DqStart \/ DqTest \/ DqCallbackNull \/ DqCheck \/ DqExit \/ DqEnd
  <2> USE <1>12 DEF DqStart, DqTest, DqCallbackNull, DqCheck, DqExit, DqEnd, Dq
  <2>1. UNCHANGED <<num_queued_buffers, queued, done>>
    OBVIOUS
  <2>2. Counting' = Counting
    BY <1>0 DEF Counting, Threads
  <2> QED BY <2>1, <2>2, NothingCounted
<1>13. CASE UNCHANGED vars
  <2>1. Counting' = Counting
    BY <1>13 DEF vars, Counting
  <2> QED BY <1>13, <2>1, NothingCounted DEF vars
<1> QED BY <1>1, <1>2, <1>3, <1>4, <1>5, <1>6, <1>7, <1>8, <1>9, <1>10, <1>11, <1>12,
       <1>13 DEF Next, AppCalls, AppGoesOn, DqThread, Threads

(* num_queued_buffers keeps its distance to the buffers that are with the  *)
(* driver or on their way from it, until the stream is switched off or     *)
(* buffers are freed: qBuffer, dqBuffer and STREAMON keep it, whatever the *)
(* two threads do at once and however the counter wraps.                   *)
THEOREM DriftCorrect == SafeSpec => DriftOnlyWhenStopped
<1>1. IInv /\ IInv' /\ CountInv /\ [Next]_vars
        => [Excess' # Excess => \/ driver_streaming /\ ~driver_streaming'
                                \/ streamon /\ ~streamon'
                                \/ num_buffers' < num_buffers]_vars
  BY ExcessStep DEF Stopped
<1> QED BY <1>1, CountInit, CountStep, Inductive, PTL DEF SafeSpec, DriftOnlyWhenStopped
=============================================================================
