---------------------------- MODULE ElementPlane ----------------------------
(***************************************************************************)
(* NvV4l2ElementPlane: one plane of a V4L2 device, used by one thread of   *)
(* the application and by the dequeue thread the plane can start.          *)
(*                                                                         *)
(* What is done under plane_lock is one step, with two exceptions the      *)
(* dequeue thread can see: dqBuffer takes the lock only after its ioctl,   *)
(* and setStreamStatus holds it from its ioctl to the assignment of        *)
(* streamon, which the dequeue thread reads without it.                    *)
(*                                                                         *)
(* The driver is the environment: it holds the buffers that are queued,    *)
(* hands back those that are done while it streams, and may fail any call. *)
(***************************************************************************)
EXTENDS Naturals, FiniteSets

CONSTANTS
  MaxBuffers,    \* bound: the most buffers the driver grants
  Width          \* one more than the largest uint32_t

ASSUME PlaneAssumption ==
  /\ MaxBuffers \in Nat /\ Width \in Nat
  /\ MaxBuffers < Width

VARIABLES
  blocking,            \* the device was opened without O_NONBLOCK
  num_buffers,         \* the length of buffers[], which is NULL when it is 0
  queued, done,        \* buffers the driver has, to work on and to hand back
  driver_streaming,
  streamon,
  num_queued_buffers,
  is_in_error,
  stop_dqthread, dqthread_running,
  lost,                \* history: a request to stop was cleared unseen, at start
  pc,                  \* where the application and the dequeue thread are
  taken,               \* the buffer a thread has from the driver
  deinit,              \* the application's call is deinitPlane
  woken                \* the application is not asleep on plane_cond

driverVars == <<queued, done, driver_streaming>>
planeVars  == <<blocking, num_buffers, streamon>>
threadVars == <<stop_dqthread, dqthread_running, lost>>
vars == <<driverVars, planeVars, num_queued_buffers, is_in_error, threadVars,
          pc, taken, deinit, woken>>

Threads  == {"app", "dq"}
Buffers  == 1..num_buffers
NoBuffer == 0
InDriver == queued \cup done

AppStates == {"idle", "dequeue", "count", "deinit", "store", "wait queued",
              "wait dequeued", "wait thread", "join", "free", "crashed"}
DqStates  == {"none", "start", "test", "dequeue", "count", "callback", "failed",
              "check", "exit", "ending", "ended"}

(* Types.                                                                  *)
TypeOK ==
  /\ num_buffers \in 0..MaxBuffers
  /\ queued \subseteq Buffers /\ done \subseteq Buffers
  /\ blocking \in BOOLEAN /\ driver_streaming \in BOOLEAN /\ streamon \in BOOLEAN
  /\ is_in_error \in BOOLEAN /\ stop_dqthread \in BOOLEAN
  /\ dqthread_running \in BOOLEAN /\ deinit \in BOOLEAN /\ woken \in BOOLEAN
  /\ lost \in BOOLEAN
  /\ num_queued_buffers \in 0..(Width - 1)
  /\ pc \in [Threads -> AppStates \cup DqStates]
  /\ pc["app"] \in AppStates /\ pc["dq"] \in DqStates
  /\ taken \in [Threads -> Buffers \cup {NoBuffer}]

Init ==
  /\ blocking \in BOOLEAN
  /\ num_buffers = 0 /\ queued = {} /\ done = {}
  /\ driver_streaming = FALSE /\ streamon = FALSE
  /\ num_queued_buffers = 0 /\ is_in_error = FALSE
  /\ stop_dqthread = FALSE /\ dqthread_running = FALSE /\ lost = FALSE
  /\ pc = [t \in Threads |-> IF t = "app" THEN "idle" ELSE "none"]
  /\ taken = [t \in Threads |-> NoBuffer]
  /\ deinit = FALSE /\ woken = TRUE

Moves(t, from, to) == pc[t] = from /\ pc' = [pc EXCEPT ![t] = to]

Locked == pc["app"] = "store"

Broadcast == woken' = TRUE

-----------------------------------------------------------------------------
(* qBuffer and dqBuffer, called by either thread.                          *)

(* Defect: the buffer counts as queued whether or not the driver took it.  *)
QBufferCountsAnyway(b) ==
  /\ ~Locked
  /\ num_queued_buffers' = (num_queued_buffers + 1) % Width
  /\ Broadcast
  /\ \/ queued' = queued \cup {b} /\ UNCHANGED is_in_error
     \/ is_in_error' = TRUE /\ UNCHANGED queued
  /\ UNCHANGED <<done, driver_streaming, planeVars, threadVars, deinit>>

QBuffer(b) ==
  /\ ~Locked
  /\ \/ /\ queued' = queued \cup {b}
        /\ num_queued_buffers' = (num_queued_buffers + 1) % Width
        /\ Broadcast
        /\ UNCHANGED is_in_error
     \/ /\ is_in_error' = TRUE
        /\ UNCHANGED <<queued, num_queued_buffers, woken>>
  /\ UNCHANGED <<done, driver_streaming, planeVars, threadVars, deinit>>

(* VIDIOC_DQBUF, without the lock ...                                      *)
TakeBuffer(t) ==
  /\ Moves(t, "dequeue", "count")
  /\ driver_streaming
  /\ \E b \in done : done' = done \ {b} /\ taken' = [taken EXCEPT ![t] = b]
  /\ UNCHANGED <<queued, driver_streaming, planeVars, num_queued_buffers,
                 is_in_error, threadVars, deinit, woken>>

AfterDequeue(t) == IF t = "app" THEN "idle" ELSE "callback"
AfterFailure(t) == IF t = "app" THEN "idle" ELSE "failed"

(* Defects: the count is not that of a uint32_t; nobody is told.           *)
CountBufferBelowZero(t) ==
  /\ Moves(t, "count", AfterDequeue(t))
  /\ ~Locked
  /\ num_queued_buffers' = IF num_queued_buffers = 0 THEN Width
                           ELSE num_queued_buffers - 1
  /\ Broadcast
  /\ taken' = IF t = "app" THEN [taken EXCEPT !["app"] = NoBuffer] ELSE taken
  /\ UNCHANGED <<driverVars, planeVars, is_in_error, threadVars, deinit>>

CountBufferSilently(t) ==
  /\ Moves(t, "count", AfterDequeue(t))
  /\ ~Locked
  /\ num_queued_buffers' = (num_queued_buffers + Width - 1) % Width
  /\ taken' = IF t = "app" THEN [taken EXCEPT !["app"] = NoBuffer] ELSE taken
  /\ UNCHANGED <<driverVars, planeVars, is_in_error, threadVars, deinit, woken>>

(* ... and then, under the lock, buffers[index] and the count.             *)
CountBuffer(t) ==
  /\ Moves(t, "count", AfterDequeue(t))
  /\ ~Locked
  /\ num_queued_buffers' = (num_queued_buffers + Width - 1) % Width
  /\ Broadcast
  /\ taken' = IF t = "app" THEN [taken EXCEPT !["app"] = NoBuffer] ELSE taken
  /\ UNCHANGED <<driverVars, planeVars, is_in_error, threadVars, deinit>>

(* The driver refuses while it does not stream; EAGAIN is tried again in   *)
(* blocking mode.                                                          *)
DequeueFails(t) ==
  /\ Moves(t, "dequeue", AfterFailure(t))
  /\ \/ ~driver_streaming /\ is_in_error' = TRUE
     \/ driver_streaming /\ done = {} /\ ~blocking /\ UNCHANGED is_in_error
  /\ UNCHANGED <<driverVars, planeVars, num_queued_buffers, threadVars, taken,
                 deinit, woken>>

(* Not bound to happen: an error of the driver, or EAGAIN which is not     *)
(* tried again: the last buffer is out, is_in_error is set or the retries  *)
(* have run out.                                                           *)
DequeueFault(t) ==
  /\ Moves(t, "dequeue", AfterFailure(t))
  /\ driver_streaming
  /\ is_in_error' = TRUE \/ (done = {} /\ UNCHANGED is_in_error)
  /\ UNCHANGED <<driverVars, planeVars, num_queued_buffers, threadVars, taken,
                 deinit, woken>>

-----------------------------------------------------------------------------
(* The application.                                                        *)

App(from, to) == Moves("app", from, to) /\ UNCHANGED taken

QueueOwn ==
  /\ App("idle", "idle")
  /\ \E b \in Buffers \ (InDriver \cup {taken["dq"]}) : QBuffer(b)

Dequeue ==
  /\ App("idle", "dequeue")
  /\ num_buffers > 0
  /\ UNCHANGED <<driverVars, planeVars, num_queued_buffers, is_in_error,
                 threadVars, deinit, woken>>

(* setupPlane: REQBUFS, then the memory of each buffer.  What fails leads  *)
(* to deinitPlane.                                                         *)
SetupPlane ==
  /\ num_buffers = 0
  /\ num_buffers' \in 0..MaxBuffers
  /\ \/ App("idle", "idle") /\ UNCHANGED <<is_in_error, deinit>>
     \/ App("idle", "deinit") /\ is_in_error' = TRUE /\ deinit' = TRUE
  /\ UNCHANGED <<driverVars, blocking, streamon, num_queued_buffers, threadVars,
                 woken>>

DeinitPlane ==
  /\ App("idle", "deinit")
  /\ deinit' = TRUE
  /\ UNCHANGED <<driverVars, planeVars, num_queued_buffers, is_in_error,
                 threadVars, woken>>

(* Defect: deinitPlane does not wait for the dequeue thread.               *)
StreamSetAtOnce == IF deinit THEN "free" ELSE "idle"

(* Where the caller of setStreamStatus goes on.                            *)
StreamSet == IF deinit THEN "wait thread" ELSE "idle"

(* Nothing to do, or the ioctl fails.                                      *)
StreamUnchanged(from, status) ==
  /\ App(from, StreamSet)
  /\ \/ status = streamon /\ UNCHANGED is_in_error
     \/ status # streamon /\ is_in_error' = TRUE
  /\ UNCHANGED <<driverVars, planeVars, num_queued_buffers, threadVars, deinit,
                 woken>>

(* STREAMOFF gives all the buffers back.                                   *)
StreamIoctl(from, status) ==
  /\ App(from, "store")
  /\ status # streamon
  /\ driver_streaming' = status
  /\ IF status THEN num_buffers > 0 /\ UNCHANGED <<queued, done>>
               ELSE queued' = {} /\ done' = {}
  /\ UNCHANGED <<planeVars, num_queued_buffers, is_in_error, threadVars, deinit,
                 woken>>

StoreStatus ==
  /\ App("store", StreamSet)
  /\ streamon' = ~streamon
  /\ IF streamon THEN num_queued_buffers' = 0 /\ Broadcast
                 ELSE UNCHANGED <<num_queued_buffers, woken>>
  /\ UNCHANGED <<driverVars, blocking, num_buffers, is_in_error, threadVars, deinit>>

SetStreamStatus ==
  \/ \E status \in BOOLEAN :
       StreamUnchanged("idle", status) \/ StreamIoctl("idle", status)
  \/ StreamUnchanged("deinit", FALSE) \/ StreamIoctl("deinit", FALSE)

(* The result of pthread_create is not looked at.                          *)
StartDQThread ==
  /\ pc["app"] = "idle" /\ ~dqthread_running
  /\ dqthread_running' = TRUE
  /\ \E created \in {"start", "none"} : pc' = [pc EXCEPT !["dq"] = created]
  /\ UNCHANGED <<driverVars, planeVars, num_queued_buffers, is_in_error,
                 stop_dqthread, lost, taken, deinit, woken>>

StopDQThread ==
  /\ App("idle", "join")
  /\ ~blocking
  /\ stop_dqthread' = TRUE
  /\ UNCHANGED <<driverVars, planeVars, num_queued_buffers, is_in_error,
                 dqthread_running, lost, deinit, woken>>

(* The three waits on plane_cond.                                          *)
Wait(for) ==
  /\ App("idle", for)
  /\ UNCHANGED <<driverVars, planeVars, num_queued_buffers, is_in_error,
                 threadVars, deinit, woken>>

MustWait ==
  \/ pc["app"] = "wait queued"   /\ num_queued_buffers < num_buffers
  \/ pc["app"] = "wait dequeued" /\ num_queued_buffers # 0
  \/ pc["app"] = "wait thread"   /\ dqthread_running

Waits == {"wait queued", "wait dequeued", "wait thread"}

WaitLoop ==
  /\ pc["app"] \in Waits /\ woken
  /\ IF MustWait
       THEN woken' = FALSE /\ UNCHANGED pc
       ELSE /\ pc' = [pc EXCEPT !["app"] = IF @ = "wait thread" THEN "join" ELSE "idle"]
            /\ UNCHANGED woken
  /\ UNCHANGED <<driverVars, planeVars, num_queued_buffers, is_in_error,
                 threadVars, taken, deinit>>

(* The -1 that deinitPlane passes is 49 days.                              *)
TimedOut ==
  /\ ~deinit
  /\ \E for \in Waits : App(for, "idle")
  /\ woken' = TRUE
  /\ UNCHANGED <<driverVars, planeVars, num_queued_buffers, is_in_error,
                 threadVars, deinit>>

Joined == IF deinit THEN "free" ELSE "idle"

(* pthread_join on a thread, or on what is no thread (any longer): that is *)
(* undefined, and returns or crashes.                                      *)
Join ==
  /\ pc["app"] = "join"
  /\ \/ /\ pc["dq"] \in {"ended", "none"}
        /\ pc' = [pc EXCEPT !["app"] = Joined, !["dq"] = "none"]
     \/ pc["dq"] = "none" /\ pc' = [pc EXCEPT !["app"] = "crashed"]
  /\ UNCHANGED <<driverVars, planeVars, num_queued_buffers, is_in_error,
                 threadVars, taken, deinit, woken>>

(* reqbufs(0) frees buffers[]; the driver refuses while it streams.        *)
FreeBuffers ==
  /\ App("free", "idle")
  /\ deinit' = FALSE
  /\ \/ /\ ~driver_streaming
        /\ num_buffers' = 0 /\ queued' = {} /\ done' = {}
        /\ UNCHANGED is_in_error
     \/ is_in_error' = TRUE /\ UNCHANGED <<num_buffers, queued, done>>
  /\ UNCHANGED <<driver_streaming, blocking, streamon, num_queued_buffers,
                 threadVars, woken>>

AppCalls ==
  \/ QueueOwn \/ Dequeue \/ SetupPlane \/ DeinitPlane
  \/ StartDQThread \/ StopDQThread
  \/ \E for \in Waits : Wait(for)
  \/ TimedOut

AppGoesOn == SetStreamStatus \/ StoreStatus \/ WaitLoop \/ Join \/ FreeBuffers
               \/ TakeBuffer("app") \/ CountBuffer("app") \/ DequeueFails("app")

-----------------------------------------------------------------------------
(* The dequeue thread.                                                     *)

Dq(from, to) ==
  /\ Moves("dq", from, to)
  /\ UNCHANGED <<driverVars, planeVars, num_queued_buffers, is_in_error,
                 dqthread_running, deinit>>

(* Whatever was asked of the thread before it got here is forgotten.       *)
DqStart ==
  /\ Dq("start", "test")
  /\ stop_dqthread' = FALSE
  /\ lost' = stop_dqthread
  /\ UNCHANGED <<taken, woken>>

(* Defect: the loop is left by the stream only.                            *)
DqTestNothing ==
  /\ Dq("test", "dequeue")
  /\ UNCHANGED <<stop_dqthread, lost, taken, woken>>

DqTest ==
  /\ Dq("test", IF stop_dqthread THEN "exit" ELSE "dequeue")
  /\ UNCHANGED <<stop_dqthread, lost, taken, woken>>

(* callback(NULL) returns FALSE or TRUE.  It is not called after EAGAIN on *)
(* a plane that does not stream; ret then has no value, which is either.   *)
DqCallbackNull ==
  /\ Dq("failed", "check") \/ Dq("failed", "exit")
  /\ UNCHANGED <<stop_dqthread, lost, taken, woken>>

(* Defect: the loop is left when the callback says so only.                *)
DqCheckNothing ==
  /\ Dq("check", "test")
  /\ UNCHANGED <<stop_dqthread, lost, taken, woken>>

DqCheck ==
  /\ Dq("check", IF streamon THEN "test" ELSE "exit")
  /\ UNCHANGED <<stop_dqthread, lost, taken, woken>>

(* callback(buffer) queues the buffer again or keeps it, and returns TRUE  *)
(* or FALSE.                                                               *)
DqCallback ==
  /\ Moves("dq", "callback", "test") \/ Moves("dq", "callback", "exit")
  /\ taken' = [taken EXCEPT !["dq"] = NoBuffer]
  /\ \/ QBuffer(taken["dq"])
     \/ UNCHANGED <<driverVars, planeVars, num_queued_buffers, is_in_error,
                    threadVars, deinit, woken>>

DqExit ==
  /\ Dq("exit", "ending")
  /\ stop_dqthread' = FALSE
  /\ UNCHANGED <<lost, taken, woken>>

DqEnd ==
  /\ Moves("dq", "ending", "ended")
  /\ ~Locked
  /\ dqthread_running' = FALSE
  /\ Broadcast
  /\ UNCHANGED <<driverVars, planeVars, num_queued_buffers, is_in_error,
                 stop_dqthread, lost, taken, deinit>>

DqThread ==
  \/ DqStart \/ DqTest \/ DqCallbackNull \/ DqCheck \/ DqCallback \/ DqExit \/ DqEnd
  \/ TakeBuffer("dq") \/ CountBuffer("dq") \/ DequeueFails("dq")

-----------------------------------------------------------------------------
(* The driver is done with a buffer.                                       *)
Driver ==
  /\ driver_streaming
  /\ \E b \in queued : queued' = queued \ {b} /\ done' = done \cup {b}
  /\ UNCHANGED <<driver_streaming, planeVars, num_queued_buffers, is_in_error,
                 threadVars, pc, taken, deinit, woken>>

Next ==
  \/ AppCalls \/ AppGoesOn \/ DqThread \/ Driver
  \/ \E t \in Threads : DequeueFault(t)

SafeSpec == Init /\ [][Next]_vars

(* Both threads are scheduled.  Nothing makes the application call, the    *)
(* driver deliver, a wait time out or a call fail.                         *)
Fairness == WF_vars(AppGoesOn /\ pc["app"] # "idle") /\ WF_vars(DqThread)

Spec == SafeSpec /\ Fairness
-----------------------------------------------------------------------------
(* Properties.                                                             *)

(* buffers[] is not freed under the dequeue thread, which indexes it after *)
(* its ioctl and gives its element to the callback.                        *)
BuffersAlive ==
  \A t \in Threads : pc[t] \in {"count", "callback"} => taken[t] \in Buffers

(* A thread asleep on plane_cond has something to wait for: every change   *)
(* that ends one of the three waits is told to it.                         *)
NoMissedWakeup == ~woken => MustWait

(* By how much num_queued_buffers exceeds the buffers that are with the    *)
(* driver or on their way from it, modulo Width.                           *)
Counting == {t \in Threads : pc[t] = "count"}
Excess ==
  (num_queued_buffers + Width - Cardinality(InDriver) + Width - Cardinality(Counting))
    % Width

(* The counter goes wrong only when the stream is switched off or the      *)
(* buffers are freed: qBuffer, dqBuffer, the driver and STREAMON keep it.  *)
DriftOnlyWhenStopped ==
  [][Excess' # Excess => \/ driver_streaming /\ ~driver_streaming'
                         \/ streamon /\ ~streamon'
                         \/ num_buffers' < num_buffers]_vars

(* deinitPlane gets past its wait for the dequeue thread, unless the       *)
(* stream could not be switched off or the thread could not be created.    *)
DeinitCompletesOrHeld ==
  deinit /\ pc["app"] = "wait thread"
    ~> pc["app"] # "wait thread" \/ []streamon \/ [](dqthread_running /\ pc["dq"] = "none")

(* stopDQThread returns, and so does the join of waitForDQThread, unless   *)
(* the request came while the thread was only just starting, which cleared *)
(* it unseen, and the thread never leaves its loop by itself.              *)
InLoop == pc["dq"] \in {"test", "dequeue", "count", "callback", "failed", "check"}

StopCompletesOrLost ==
  pc["app"] = "join" ~> pc["app"] # "join" \/ [](lost /\ InLoop)
=============================================================================
