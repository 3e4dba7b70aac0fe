---------------------------- MODULE VideoDemuxer ----------------------------
(***************************************************************************)
(* core/VideoDemuxer: a thread (DemuxLoop) that opens a stream with        *)
(* FFmpeg, announces it, reads it and pushes its video packets to the      *)
(* queue, and the calls of the thread that owns the object: Start,         *)
(* WaitForStreamReady, Stop and the destructor.                            *)
(*                                                                         *)
(* FFmpeg and the network are the environment: opening can fail, any of    *)
(* the Streams can answer, reading ends, fails for now, or fails for good  *)
(* once the connection is down.  The queue is used by its promise (module  *)
(* PacketChannel, the call and the return of an operation in one step).    *)
(* A packet is the number of its connection, its place among the packets   *)
(* read (0: the parameter sets), the stream it is from and the stream the  *)
(* bit stream filter took its parameter sets from.                         *)
(***************************************************************************)
EXTENDS Naturals, Sequences

CONSTANTS
  Streams,            \* the streams the URL can answer with
  VideoStreams,       \* those with a video track
  BsfStreams,         \* those in H264 or HEVC, which go through a filter
  ExtradataStreams,   \* those whose codecpar has extradata
  NoStream,
  AutoReconnect,      \* config_.auto_reconnect
  BsfMayFail,         \* whether av_bsf_alloc, _init or the filtering can fail
  AllocMayFail,       \* whether a push can run out of memory
  MaxSize,            \* max_size_ of the queue
  MaxConns,           \* bound: streams opened
  MaxReads,           \* bound: video packets read
  Timeout             \* timeout_ms of WaitForStreamReady, in polls of 50 ms

ASSUME DemuxerAssumption ==
  /\ VideoStreams \subseteq Streams
  /\ BsfStreams \subseteq VideoStreams
  /\ ExtradataStreams \subseteq VideoStreams
  /\ NoStream \notin Streams
  /\ {AutoReconnect, BsfMayFail, AllocMayFail} \subseteq BOOLEAN
  /\ MaxSize \in Nat \ {0}
  /\ MaxConns \in Nat /\ MaxReads \in Nat /\ Timeout \in Nat

VARIABLES
  running,        \* running_
  stream_ready,   \* stream_ready_
  info,           \* the stream width_, height_ and codec_id_ were taken from
  told,           \* the streams stream_callback_ was called with
  frame_count,    \* frame_count_
  reads,          \* video packets read
  pc,             \* where DemuxLoop is
  fmt_ctx,        \* the stream fmt_ctx has open
  link,           \* "up", or "down" when the connection is lost for good
  conns,          \* streams opened
  bsf,            \* the stream bsf_wrapper was initialised from
  filtered,       \* the filter has a packet to give
  queue, abort_request,
  last_conn,      \* history: the connection of the packet pushed last
  joinable,       \* demux_thread_.joinable()
  caller,         \* where the owner's call is
  dying,          \* the call is the destructor's
  elapsed         \* polls made by WaitForStreamReady

announced  == <<stream_ready, info, told>>
counters   == <<frame_count, reads>>
connection == <<fmt_ctx, link, conns>>
filter     == <<bsf, filtered>>
sent       == <<queue, last_conn>>
owner      == <<joinable, caller, dying, elapsed>>
vars == <<running, announced, counters, pc, connection, filter, sent,
          abort_request, owner>>

Packets == [conn : 1..MaxConns, n : 0..MaxReads, from : Streams,
            bsf : Streams \cup {NoStream}]

(* Types of the demuxer's state.                                           *)
TypeOK ==
  /\ running \in BOOLEAN /\ stream_ready \in BOOLEAN /\ filtered \in BOOLEAN
  /\ joinable \in BOOLEAN /\ dying \in BOOLEAN /\ abort_request \in BOOLEAN
  /\ info \in VideoStreams \cup {NoStream}
  /\ told \subseteq VideoStreams
  /\ frame_count \in 0..MaxReads /\ reads \in 0..MaxReads
  /\ pc \in {"none", "loop", "open", "find", "notify", "bsf", "extradata",
             "inner", "read", "push", "filter", "receive", "close", "exit",
             "ended"}
  /\ fmt_ctx \in Streams \cup {NoStream}
  /\ link \in {"up", "down"}
  /\ conns \in 0..MaxConns /\ last_conn \in 0..MaxConns
  /\ bsf \in BsfStreams \cup {NoStream}
  /\ queue \in Seq(Packets)
  /\ caller \in {"idle", "waiting", "ready", "timeout", "stopping", "joining",
                 "aborting", "destroyed", "terminated"}
  /\ elapsed \in 0..Timeout

Init ==
  /\ running = FALSE /\ stream_ready = FALSE
  /\ info = NoStream /\ told = {}
  /\ frame_count = 0 /\ reads = 0
  /\ pc = "none"
  /\ fmt_ctx = NoStream /\ link = "up" /\ conns = 0
  /\ bsf = NoStream /\ filtered = FALSE
  /\ queue = <<>> /\ abort_request = FALSE /\ last_conn = 0
  /\ joinable = FALSE /\ caller = "idle" /\ dying = FALSE /\ elapsed = 0

-----------------------------------------------------------------------------
(* PacketQueue::push as DemuxLoop sees it.                                 *)

Pushed(p) ==
  /\ ~abort_request
  /\ Len(queue) < MaxSize
  /\ queue' = Append(queue, p)
  /\ last_conn' = p.conn

PushRefused ==
  /\ abort_request \/ (AllocMayFail /\ Len(queue) < MaxSize)
  /\ UNCHANGED sent

-----------------------------------------------------------------------------
(* DemuxLoop.                                                              *)

(* The thread passes from one place of the loop to another; nothing runs   *)
(* after std::terminate.                                                   *)
Go(from, to) ==
  /\ pc = from /\ caller # "terminated"
  /\ pc' = to
  /\ UNCHANGED <<abort_request, owner>>

NextRound == IF AutoReconnect THEN "loop" ELSE "exit"

LoopCheck ==
  /\ Go("loop", IF running THEN "open" ELSE "exit")
  /\ UNCHANGED <<running, announced, counters, connection, filter, sent>>

OpenFails ==
  /\ Go("open", NextRound)
  /\ UNCHANGED <<running, announced, counters, connection, filter, sent>>

Opens ==
  /\ Go("open", "find")
  /\ conns < MaxConns
  /\ conns' = conns + 1
  /\ fmt_ctx' \in Streams
  /\ link' = "up"
  /\ UNCHANGED <<running, announced, counters, filter, sent>>

(* Defect: the flag is set before the information is there.                *)
FindVideoFlagFirst ==
  /\ Go("find", "notify")
  /\ fmt_ctx \in VideoStreams
  /\ stream_ready' = TRUE
  /\ UNCHANGED <<running, info, told, counters, connection, filter, sent>>

FindVideo ==
  /\ Go("find", "notify")
  /\ fmt_ctx \in VideoStreams
  /\ info' = fmt_ctx
  /\ UNCHANGED <<running, stream_ready, told, counters, connection, filter, sent>>

(* Defect: an early return without avformat_close_input.                   *)
FindNoVideoLeaks ==
  /\ Go("find", "exit")
  /\ fmt_ctx \notin VideoStreams
  /\ UNCHANGED <<running, announced, counters, connection, filter, sent>>

FindNoVideo ==
  /\ Go("find", "exit")
  /\ fmt_ctx \notin VideoStreams
  /\ fmt_ctx' = NoStream
  /\ UNCHANGED <<running, announced, counters, link, conns, filter, sent>>

(* NotifyStreamInfo: only the first stream is announced.                   *)
Notify ==
  /\ Go("notify", "bsf")
  /\ stream_ready' = TRUE
  /\ told' = IF stream_ready THEN told ELSE told \cup {info}
  /\ UNCHANGED <<running, info, counters, connection, filter, sent>>

(* BSFWrapper::Init: an initialised filter is kept as it is, and a codec   *)
(* that needs none gets none.                                              *)
NeedsFilter == bsf = NoStream /\ info \in BsfStreams

BsfInit ==
  /\ Go("bsf", "extradata")
  /\ bsf' = IF NeedsFilter THEN fmt_ctx ELSE bsf
  /\ UNCHANGED <<running, announced, counters, connection, filtered, sent>>

BsfInitFails ==
  /\ Go("bsf", "exit")
  /\ BsfMayFail /\ NeedsFilter
  /\ fmt_ctx' = NoStream
  /\ UNCHANGED <<running, announced, counters, link, conns, filter, sent>>

(* Defect: the parameter sets are sent after a reconnection only.          *)
NeedsExtradataLater ==
  bsf = NoStream /\ fmt_ctx \in ExtradataStreams /\ conns > 1

(* The parameter sets go first, when no filter adds them to the frames.    *)
NeedsExtradata == bsf = NoStream /\ fmt_ctx \in ExtradataStreams

Extradata == [conn |-> conns, n |-> 0, from |-> fmt_ctx, bsf |-> NoStream]

PushExtradata ==
  /\ Go("extradata", "inner")
  /\ IF NeedsExtradata THEN Pushed(Extradata) \/ PushRefused
                       ELSE UNCHANGED sent
  /\ UNCHANGED <<running, announced, counters, connection, filter>>

(* Defect: the reading loop does not look at running_.                     *)
InnerNoCheck ==
  /\ Go("inner", "read")
  /\ UNCHANGED <<running, announced, counters, connection, filter, sent>>

InnerCheck ==
  /\ Go("inner", IF running THEN "read" ELSE "close")
  /\ UNCHANGED <<running, announced, counters, connection, filter, sent>>

ReadVideo ==
  /\ Go("read", IF bsf = NoStream THEN "push" ELSE "filter")
  /\ link = "up" /\ reads < MaxReads
  /\ reads' = reads + 1
  /\ UNCHANGED <<running, announced, frame_count, connection, filter, sent>>

(* A packet of another track, EAGAIN, or an error: sleep and read again.   *)
(* It is the only thing that can come of a connection that is down, which  *)
(* is an error without end of file (avio_feof of an RTSP context is 0).    *)
ReadAgain ==
  /\ Go("read", "inner")
  /\ UNCHANGED <<running, announced, counters, connection, filter, sent>>

ReadEof ==
  /\ Go("read", "close")
  /\ link = "up"
  /\ UNCHANGED <<running, announced, counters, connection, filter, sent>>

ThisPacket == [conn |-> conns, n |-> reads, from |-> fmt_ctx, bsf |-> bsf]

(* Defect: a packet that finds the queue full is skipped.                  *)
PushPacketOrSkip ==
  /\ Go("push", "inner")
  /\ Pushed(ThisPacket) \/ (Len(queue) = MaxSize /\ UNCHANGED sent)
  /\ frame_count' = frame_count + 1
  /\ UNCHANGED <<running, announced, reads, connection, filter>>

PushPacket ==
  /\ Go("push", "inner")
  /\ Pushed(ThisPacket)
  /\ frame_count' = frame_count + 1
  /\ UNCHANGED <<running, announced, reads, connection, filter>>

(* Defect: a failed push does not end the connection.                      *)
PushPacketIgnored ==
  /\ Go("push", "inner")
  /\ PushRefused
  /\ UNCHANGED <<running, announced, counters, connection, filter>>

PushPacketRefused ==
  /\ Go("push", "close")
  /\ PushRefused
  /\ UNCHANGED <<running, announced, counters, connection, filter>>

(* BSFWrapper::Process: a filter makes one packet of one packet; it can    *)
(* reject it, or give nothing for it, which Process does not report.       *)
FilterSend ==
  /\ Go("filter", "receive")
  /\ filtered' \in IF BsfMayFail THEN BOOLEAN ELSE {TRUE}
  /\ UNCHANGED <<running, announced, counters, connection, bsf, sent>>

FilterSendFails ==
  /\ Go("filter", "close")
  /\ BsfMayFail
  /\ UNCHANGED <<running, announced, counters, connection, filter, sent>>

FilterReceive ==
  /\ filtered
  /\ filtered' = FALSE
  /\ \/ Go("receive", "receive") /\ Pushed(ThisPacket)
     \/ Go("receive", "close") /\ PushRefused
  /\ UNCHANGED <<running, announced, counters, connection, bsf>>

FilterDone ==
  /\ Go("receive", "inner")
  /\ ~filtered
  /\ frame_count' = frame_count + 1
  /\ UNCHANGED <<running, announced, reads, connection, filter, sent>>

Close ==
  /\ Go("close", NextRound)
  /\ fmt_ctx' = NoStream
  /\ UNCHANGED <<running, announced, counters, link, conns, filter, sent>>

(* The wrapper is destroyed with the thread's stack.                       *)
Exit ==
  /\ Go("exit", "ended")
  /\ running' = FALSE
  /\ bsf' = NoStream
  /\ UNCHANGED <<announced, counters, connection, filtered, sent>>

DemuxThread ==
  \/ LoopCheck \/ OpenFails \/ Opens \/ FindVideo \/ FindNoVideo \/ Notify
  \/ BsfInit \/ BsfInitFails \/ PushExtradata
  \/ InnerCheck \/ ReadVideo \/ ReadAgain \/ ReadEof
  \/ PushPacket \/ PushPacketRefused
  \/ FilterSend \/ FilterSendFails \/ FilterReceive \/ FilterDone
  \/ Close \/ Exit

-----------------------------------------------------------------------------
(* The owner: one thread that makes one call at a time.                    *)

thread == <<announced, counters, connection, filter, sent>>

(* Assigning to a std::thread that is joinable calls std::terminate.       *)
Start ==
  /\ caller = "idle" /\ ~running
  /\ IF joinable
       THEN /\ caller' = "terminated"
            /\ UNCHANGED <<pc, joinable>>
       ELSE /\ joinable' = TRUE
            /\ pc' = "loop"
            /\ UNCHANGED caller
  /\ running' = TRUE
  /\ UNCHANGED <<thread, abort_request, dying, elapsed>>

Wait ==
  /\ caller = "idle"
  /\ caller' = "waiting"
  /\ elapsed' = 0
  /\ UNCHANGED <<running, thread, pc, abort_request, joinable, dying>>

(* Defect: off by one.                                                     *)
WaitSleepsOnceMore ==
  /\ caller = "waiting"
  /\ elapsed <= Timeout /\ ~stream_ready
  /\ elapsed' = elapsed + 1
  /\ UNCHANGED <<running, thread, pc, abort_request, joinable, caller, dying>>

WaitSleeps ==
  /\ caller = "waiting"
  /\ elapsed < Timeout /\ ~stream_ready
  /\ elapsed' = elapsed + 1
  /\ UNCHANGED <<running, thread, pc, abort_request, joinable, caller, dying>>

WaitReturns ==
  /\ caller = "waiting"
  /\ elapsed = Timeout \/ stream_ready
  /\ caller' = IF stream_ready THEN "ready" ELSE "timeout"
  /\ UNCHANGED <<running, thread, pc, abort_request, joinable, dying, elapsed>>

(* The owner goes on to another call.                                      *)
Proceed ==
  /\ caller \in {"ready", "timeout"}
  /\ caller' = "idle"
  /\ UNCHANGED <<running, thread, pc, abort_request, joinable, dying, elapsed>>

(* Where the caller is when Stop returns: the destructor goes on to        *)
(* destroy demux_thread_, which calls std::terminate if it is joinable.    *)
AfterStop(destructor) ==
  IF ~destructor THEN "idle" ELSE IF joinable THEN "terminated" ELSE "destroyed"

(* Stop, up to its first test; the destructor calls it too.                *)
Stop(destructor) ==
  /\ caller = "idle"
  /\ dying' = destructor
  /\ caller' = IF running THEN "stopping" ELSE AfterStop(destructor)
  /\ UNCHANGED <<running, thread, pc, abort_request, joinable, elapsed>>

StopStore ==
  /\ caller = "stopping"
  /\ running' = FALSE
  /\ caller' = "joining"
  /\ UNCHANGED <<thread, pc, abort_request, joinable, dying, elapsed>>

(* Defect: detach instead of join.                                         *)
StopDetach ==
  /\ caller = "joining"
  /\ joinable' = FALSE
  /\ caller' = "aborting"
  /\ UNCHANGED <<running, thread, pc, abort_request, dying, elapsed>>

StopJoin ==
  /\ caller = "joining"
  /\ joinable => pc = "ended"
  /\ joinable' = FALSE
  /\ caller' = "aborting"
  /\ UNCHANGED <<running, thread, pc, abort_request, dying, elapsed>>

StopAbort ==
  /\ caller = "aborting"
  /\ abort_request' = TRUE
  /\ caller' = AfterStop(dying)
  /\ UNCHANGED <<running, thread, pc, joinable, dying, elapsed>>

StopSteps == StopStore \/ StopJoin \/ StopAbort

Owner ==
  \/ Start \/ Wait \/ WaitSleeps \/ WaitReturns \/ Proceed
  \/ Stop(FALSE) \/ Stop(TRUE) \/ StopSteps

-----------------------------------------------------------------------------
(* The environment: the decoder takes packets, and a connection dies.      *)

Taken ==
  /\ queue # <<>> /\ ~abort_request
  /\ queue' = Tail(queue)
  /\ UNCHANGED <<running, announced, counters, pc, connection, filter,
                 last_conn, abort_request, owner>>

LinkDown ==
  /\ fmt_ctx # NoStream /\ link = "up"
  /\ link' = "down"
  /\ UNCHANGED <<running, announced, counters, pc, fmt_ctx, conns, filter, sent,
                 abort_request, owner>>

Next == DemuxThread \/ Owner \/ Taken \/ LinkDown

SafeSpec == Init /\ [][Next]_vars

(* The thread is scheduled, and FFmpeg's calls return (the "timeout"       *)
(* option bounds them).  A call the owner has begun goes on; nothing makes *)
(* it call.  That the decoder takes packets is not assumed: main stops it  *)
(* before it stops the demuxer.                                            *)
Fairness == WF_vars(DemuxThread) /\ WF_vars(StopSteps)

Spec == SafeSpec /\ Fairness

-----------------------------------------------------------------------------
(* Properties.                                                             *)

(* WaitForStreamReady says yes only once the size and the codec of a       *)
(* stream are there for GetWidth, GetHeight and GetPixFormat to read.      *)
ReadyMeansInfo == caller = "ready" => info # NoStream

(* The queue gets the video packets in reading order, and within a         *)
(* connection without gaps, those the filter swallowed excepted: a packet  *)
(* that cannot be pushed ends the connection.                              *)
GapFree ==
  \A i \in 1..Len(queue) - 1 :
    /\ queue[i].conn <= queue[i + 1].conn
    /\ queue[i].n > 0 /\ queue[i].conn = queue[i + 1].conn
         => IF queue[i].bsf = NoStream THEN queue[i + 1].n = queue[i].n + 1
                                       ELSE queue[i + 1].n > queue[i].n

(* The first packet of every connection, the first connection included, is *)
(* its parameter sets, when its frames do not pass the filter: a frame is  *)
(* only pushed when a packet of its connection has been pushed before it.  *)
HeaderFirst ==
  [][ \A p \in Packets :
        /\ queue' = Append(queue, p)
        /\ p.n > 0 /\ p.bsf = NoStream /\ p.from \in ExtradataStreams
        => last_conn = p.conn ]_vars

(* frame_count_ misses at most one packet per connection: whatever goes    *)
(* wrong while a packet is pushed ends the connection.                     *)
OneLostPerConnection ==
  reads - frame_count <= conns

(* The AVFormatContext of a connection is closed before another is opened  *)
(* and before the thread ends, on every path out of the loop.              *)
ContextClosed ==
  pc \in {"none", "loop", "open", "exit", "ended"} => fmt_ctx = NoStream

(* No step of the thread runs on an object whose Stop() has returned or    *)
(* that is destroyed.                                                      *)
StoppedMeansEnded ==
  /\ caller \in {"aborting", "destroyed"} => pc \in {"none", "ended"}
  /\ ~joinable => pc \in {"none", "ended"}

(* The destructor releases all resources: it never meets a demux_thread_   *)
(* that has not been joined, and neither does a second Start().            *)
NoTerminate == caller # "terminated"

(* Stop() returns, unless the thread is held in a push for ever: the queue *)
(* is full and nobody takes a packet, while the abort that would release   *)
(* it comes only after the join.                                           *)
Pushing ==
  \/ pc = "extradata" /\ NeedsExtradata
  \/ pc = "push"
  \/ pc = "receive" /\ filtered

StopCompletesOrHeld ==
  caller = "stopping"
    ~> caller \in {"idle", "destroyed"} \/ [](Pushing /\ Len(queue) = MaxSize)

(* Auto-reconnect: a connection that died is closed, for another to be     *)
(* opened, unless the demuxer is stopped.                                  *)
DeadLinkClosed ==
  link = "down" /\ fmt_ctx # NoStream ~> fmt_ctx = NoStream \/ ~running
=============================================================================
