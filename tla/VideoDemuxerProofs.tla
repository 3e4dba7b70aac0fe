------------------------- MODULE VideoDemuxerProofs -------------------------
(* Theorems about VideoDemuxer, for any streams, any bounds and any        *)
(* configuration.                                                          *)
EXTENDS VideoDemuxer, TLAPS

-----------------------------------------------------------------------------
(* Where the thread and its owner are, and what they have.                 *)

Places ==
  /\ pc \in {"none", "loop", "open", "find", "notify", "bsf", "extradata",
             "inner", "read", "push", "filter", "receive", "close", "exit",
             "ended"}
  /\ caller \in {"idle", "waiting", "ready", "timeout", "stopping", "joining",
                 "aborting", "destroyed", "terminated"}

Flags ==
  /\ running \in BOOLEAN /\ stream_ready \in BOOLEAN /\ filtered \in BOOLEAN
  /\ joinable \in BOOLEAN /\ dying \in BOOLEAN /\ abort_request \in BOOLEAN

Objects ==
  /\ info \in VideoStreams \cup {NoStream}
  /\ told \subseteq VideoStreams
  /\ fmt_ctx \in Streams \cup {NoStream}
  /\ link \in {"up", "down"}
  /\ bsf \in BsfStreams \cup {NoStream}
  /\ elapsed \in 0..Timeout

(* From FindVideo on the open stream is the one whose data is stored.      *)
Connected ==
  pc \in {"notify", "bsf", "extradata", "inner", "read", "push", "filter", "receive"}
    => info = fmt_ctx /\ fmt_ctx \in VideoStreams

Ended ==
  /\ StoppedMeansEnded
  /\ caller \in {"aborting", "destroyed"} => ~joinable

Ready ==
  /\ ReadyMeansInfo
  /\ stream_ready => info # NoStream

ControlInv ==
  Places /\ Flags /\ Objects /\ Connected /\ ContextClosed /\ Ended /\ Ready

LEMMA ControlInit == Init => ControlInv
<1> SUFFICES ASSUME Init PROVE ControlInv
  OBVIOUS
<1> USE DemuxerAssumption DEF Init
<1>1. Places /\ Flags
  BY DEF Places, Flags
<1>0. 0 \in 0..Timeout
  OBVIOUS
<1>3. Objects
  BY <1>0 DEF Objects
<1>2. Connected /\ ContextClosed /\ Ended /\ Ready
  BY DEF Connected, ContextClosed, Ended, StoppedMeansEnded, Ready, ReadyMeansInfo
<1> QED BY <1>1, <1>2, <1>3 DEF ControlInv

LEMMA ControlStep == ControlInv /\ [Next]_vars => ControlInv'
<1> SUFFICES ASSUME ControlInv, [Next]_vars PROVE ControlInv'
  OBVIOUS
<1> USE DemuxerAssumption DEF ControlInv, announced, counters, connection, filter,
      owner, thread
<1>1. CASE \/ LoopCheck \/ OpenFails \/ InnerCheck
           \/ ReadVideo \/ ReadAgain \/ ReadEof
  <2> USE <1>1 DEF LoopCheck, OpenFails, InnerCheck, ReadVideo, ReadAgain, ReadEof,
          Go, NextRound
  <2>1. Places'
    BY DEF Places
  <2>2. Flags'
    BY DEF Flags
  <2>3. Objects'
    BY DEF Objects, Connected
  <2>4. Connected'
    BY DEF Connected, Objects, Places
  <2>5. ContextClosed'
    BY DEF ContextClosed, Ended, StoppedMeansEnded
  <2>6. Ended'
    BY DEF Ended, StoppedMeansEnded, Places
  <2>7. Ready'
    BY DEF Ready, ReadyMeansInfo, Connected
  <2> QED BY <2>1, <2>2, <2>3, <2>4, <2>5, <2>6, <2>7
<1>2. CASE \/ Opens \/ FindVideo \/ FindNoVideo \/ Notify
           \/ BsfInit \/ BsfInitFails
  <2> USE <1>2 DEF Opens, FindVideo, FindNoVideo, Notify, BsfInit, BsfInitFails,
          NeedsFilter, Go
  <2>1. Places'
    BY DEF Places
  <2>2. Flags'
    BY DEF Flags
  <2>3. Objects'
    BY DEF Objects, Connected
  <2>4. Connected'
    BY DEF Connected, Objects, Places
  <2>5. ContextClosed'
    BY DEF ContextClosed, Ended, StoppedMeansEnded
  <2>6. Ended'
    BY DEF Ended, StoppedMeansEnded, Places
  <2>7. Ready'
    BY DEF Ready, ReadyMeansInfo, Connected
  <2> QED BY <2>1, <2>2, <2>3, <2>4, <2>5, <2>6, <2>7
<1>3. CASE \/ PushExtradata \/ PushPacket \/ PushPacketRefused
           \/ FilterSend \/ FilterSendFails \/ FilterReceive \/ FilterDone
  <2> USE <1>3 DEF PushExtradata, PushPacket, PushPacketRefused, FilterSend,
          FilterSendFails, FilterReceive, FilterDone, Go
  <2>1. Places'
    BY DEF Places
  <2>2. Flags'
    BY DEF Flags
  <2>3. Objects'
    BY DEF Objects, Connected
  <2>4. Connected'
    BY DEF Connected, Objects, Places
  <2>5. ContextClosed'
    BY DEF ContextClosed, Ended, StoppedMeansEnded
  <2>6. Ended'
    BY DEF Ended, StoppedMeansEnded, Places
  <2>7. Ready'
    BY DEF Ready, ReadyMeansInfo, Connected
  <2> QED BY <2>1, <2>2, <2>3, <2>4, <2>5, <2>6, <2>7
<1>4. CASE Close \/ Exit
  <2> USE <1>4 DEF Close, Exit, Go, NextRound
  <2>1. Places'
    BY DEF Places
  <2>2. Flags'
    BY DEF Flags
  <2>3. Objects'
    BY DEF Objects, Connected
  <2>4. Connected'
    BY DEF Connected, Objects, Places
  <2>5. ContextClosed'
    BY DEF ContextClosed, Ended, StoppedMeansEnded
  <2>6. Ended'
    BY DEF Ended, StoppedMeansEnded, Places
  <2>7. Ready'
    BY DEF Ready, ReadyMeansInfo, Connected
  <2> QED BY <2>1, <2>2, <2>3, <2>4, <2>5, <2>6, <2>7
<1>5. CASE Start \/ Wait \/ WaitSleeps \/ WaitReturns \/ Proceed
  <2> USE <1>5 DEF Start, Wait, WaitSleeps, WaitReturns, Proceed
  <2>1. Places'
    BY DEF Places
  <2>2. Flags'
    BY DEF Flags
  <2>3. Objects'
    BY DEF Objects, Connected
  <2>4. Connected'
    BY DEF Connected, Objects, Places
  <2>5. ContextClosed'
    BY DEF ContextClosed, Ended, StoppedMeansEnded
  <2>6. Ended'
    BY DEF Ended, StoppedMeansEnded, Places
  <2>7. Ready'
    BY DEF Ready, ReadyMeansInfo, Connected
  <2> QED BY <2>1, <2>2, <2>3, <2>4, <2>5, <2>6, <2>7
<1>6. CASE Stop(FALSE) \/ Stop(TRUE) \/ StopSteps
  <2> USE <1>6 DEF Stop, StopSteps, StopStore, StopJoin, StopAbort, AfterStop
  <2>1. Places'
    BY DEF Places
  <2>2. Flags'
    BY DEF Flags
  <2>3. Objects'
    BY DEF Objects, Connected
  <2>4. Connected'
    BY DEF Connected, Objects, Places
  <2>5. ContextClosed'
    BY DEF ContextClosed, Ended, StoppedMeansEnded
  <2>6. Ended'
    BY DEF Ended, StoppedMeansEnded, Places
  <2>7. Ready'
    BY DEF Ready, ReadyMeansInfo, Connected
  <2> QED BY <2>1, <2>2, <2>3, <2>4, <2>5, <2>6, <2>7
<1>7. CASE Taken \/ LinkDown \/ UNCHANGED vars
  <2> USE <1>7 DEF Taken, LinkDown, vars
  <2>1. Places'
    BY DEF Places
  <2>2. Flags'
    BY DEF Flags
  <2>3. Objects'
    BY DEF Objects, Connected
  <2>4. Connected'
    BY DEF Connected, Objects, Places
  <2>5. ContextClosed'
    BY DEF ContextClosed, Ended, StoppedMeansEnded
  <2>6. Ended'
    BY DEF Ended, StoppedMeansEnded, Places
  <2>7. Ready'
    BY DEF Ready, ReadyMeansInfo, Connected
  <2> QED BY <2>1, <2>2, <2>3, <2>4, <2>5, <2>6, <2>7
<1> QED
  BY <1>1, <1>2, <1>3, <1>4, <1>5, <1>6, <1>7 DEF Next, DemuxThread, Owner

LEMMA Control == SafeSpec => []ControlInv
  BY ControlInit, ControlStep, PTL DEF SafeSpec

(* WaitForStreamReady never says yes before the data of a stream is there. *)
THEOREM ReadyMeansInfoCorrect == SafeSpec => []ReadyMeansInfo
<1>1. ControlInv => ReadyMeansInfo
  BY DEF ControlInv, Ready
<1> QED BY <1>1, Control, PTL

(* No path out of the loop leaves a context open.                          *)
THEOREM ContextClosedCorrect == SafeSpec => []ContextClosed
<1>1. ControlInv => ContextClosed
  BY DEF ControlInv
<1> QED BY <1>1, Control, PTL

(* No step of the thread comes after Stop() has joined it, or on an object *)
(* that is destroyed.                                                      *)
THEOREM StoppedMeansEndedCorrect == SafeSpec => []StoppedMeansEnded
<1>1. ControlInv => StoppedMeansEnded
  BY DEF ControlInv, Ended
<1> QED BY <1>1, Control, PTL
-----------------------------------------------------------------------------
(* What has been read, counted and lost.                                   *)

Counts ==
  /\ conns \in Nat /\ conns <= MaxConns
  /\ reads \in Nat /\ reads <= MaxReads
  /\ frame_count \in Nat /\ frame_count <= reads

(* A packet that is being pushed is not counted yet.                       *)
InHand == pc \in {"push", "filter", "receive"} => frame_count < reads

(* Whoever reads on the open connection has not lost a packet of it.       *)
Lost ==
  /\ reads <= frame_count + conns
  /\ pc \in {"find", "notify", "bsf", "extradata", "inner", "read"}
       => reads < frame_count + conns

CountInv == Counts /\ InHand /\ Lost

LEMMA CountInit == Init => CountInv
  BY DemuxerAssumption DEF Init, CountInv, Counts, InHand, Lost

LEMMA CountStep == CountInv /\ [Next]_vars => CountInv'
<1> SUFFICES ASSUME CountInv, [Next]_vars PROVE CountInv'
  OBVIOUS
<1> USE DemuxerAssumption DEF CountInv, announced, counters, connection, filter,
      owner, thread
<1>1. CASE \/ LoopCheck \/ OpenFails \/ InnerCheck \/ Close \/ Exit
           \/ ReadVideo \/ ReadAgain \/ ReadEof
  <2> USE <1>1 DEF LoopCheck, OpenFails, InnerCheck, Close, Exit, ReadVideo,
          ReadAgain, ReadEof, Go, NextRound
  <2>1. Counts'
    BY DEF Counts
  <2>2. InHand'
    BY DEF Counts, InHand
  <2>3. Lost'
    BY DEF Counts, Lost
  <2> QED BY <2>1, <2>2, <2>3
<1>2. CASE \/ Opens \/ FindVideo \/ FindNoVideo \/ Notify
           \/ BsfInit \/ BsfInitFails
  <2> USE <1>2 DEF Opens, FindVideo, FindNoVideo, Notify, BsfInit, BsfInitFails, Go
  <2>1. Counts'
    BY DEF Counts
  <2>2. InHand'
    BY DEF Counts, InHand
  <2>3. Lost'
    BY DEF Counts, Lost
  <2> QED BY <2>1, <2>2, <2>3
<1>3. CASE \/ PushExtradata \/ PushPacketRefused
           \/ FilterSend \/ FilterSendFails \/ FilterReceive
  <2> USE <1>3 DEF PushExtradata, PushPacketRefused, FilterSend, FilterSendFails,
          FilterReceive, Go
  <2>1. Counts'
    BY DEF Counts
  <2>2. InHand'
    BY DEF Counts, InHand
  <2>3. Lost'
    BY DEF Counts, Lost
  <2> QED BY <2>1, <2>2, <2>3
<1>5. CASE PushPacket \/ FilterDone
  <2>0. /\ pc \in {"push", "receive"} /\ pc' = "inner"
        /\ frame_count' = frame_count + 1
        /\ UNCHANGED <<reads, conns>>
    BY <1>5 DEF PushPacket, FilterDone, Go
  <2>1. Counts'
    BY <2>0 DEF Counts, InHand
  <2>2. InHand'
    BY <2>0 DEF InHand
  <2>3. Lost'
    BY <2>0 DEF Counts, Lost
  <2> QED BY <2>1, <2>2, <2>3
<1>4. CASE Owner \/ Taken \/ LinkDown \/ UNCHANGED vars
  <2> USE <1>4 DEF Owner, Start, Wait, WaitSleeps, WaitReturns, Proceed, Stop,
          StopSteps, StopStore, StopJoin, StopAbort, Taken, LinkDown, vars
  <2>1. Counts'
    BY DEF Counts
  <2>2. InHand'
    BY DEF Counts, InHand
  <2>3. Lost'
    BY DEF Counts, Lost
  <2> QED BY <2>1, <2>2, <2>3
<1> QED
  BY <1>1, <1>2, <1>3, <1>4, <1>5 DEF Next, DemuxThread

LEMMA Counting == SafeSpec => []CountInv
  BY CountInit, CountStep, PTL DEF SafeSpec

(* frame_count_ misses at most one packet per connection.                  *)
THEOREM OneLostPerConnectionCorrect == SafeSpec => []OneLostPerConnection
<1>1. CountInv => OneLostPerConnection
  BY DEF CountInv, Counts, Lost, OneLostPerConnection
<1> QED BY <1>1, Counting, PTL
-----------------------------------------------------------------------------
(* The queue.  Only its newest packet and the packet in hand have to be    *)
(* looked at when one is appended.                                         *)

LEMMA AppendFacts ==
  ASSUME NEW S, NEW s \in Seq(S), NEW p \in S
  PROVE  LET t == Append(s, p) IN
         /\ t \in Seq(S) /\ Len(t) = Len(s) + 1 /\ Len(s) \in Nat /\ t # <<>>
         /\ \A i \in 1..Len(s) : t[i] = s[i]
         /\ t[Len(t)] = p
  OBVIOUS

LEMMA TailFacts ==
  ASSUME NEW S, NEW s \in Seq(S), s # <<>>
  PROVE  LET t == Tail(s) IN
         /\ t \in Seq(S) /\ Len(t) = Len(s) - 1 /\ Len(s) \in Nat
         /\ \A i \in 1..Len(t) : t[i] = s[i + 1]
         /\ t # <<>> => Len(t) > 0
  OBVIOUS

Newest == queue[Len(queue)]

Queued == queue \in Seq(Packets)

(* The filter has a packet only while it is emptied.                       *)
Filter ==
  /\ filtered => pc = "receive"
  /\ pc \in {"filter", "receive"} => bsf # NoStream
  /\ pc = "push" => bsf = NoStream

(* The newest packet is older than the one in hand.                        *)
NewestOlder ==
  queue # <<>> =>
    /\ Newest.conn <= conns /\ Newest.n <= reads
    /\ pc \in {"push", "filter"} \/ filtered => Newest.n < reads

(* A packet of the open connection: the thread has come to reading, with   *)
(* the filter it has now, and without a filter no packet is missing.       *)
NewestHere ==
  queue # <<>> /\ Newest.conn = conns =>
    /\ pc \notin {"find", "notify", "bsf", "extradata"}
    /\ pc \in {"inner", "read", "push", "filter", "receive"} /\ Newest.n > 0 =>
         /\ Newest.bsf = bsf
         /\ bsf = NoStream => Newest.n = IF pc = "push" THEN reads - 1 ELSE reads

(* The history of the connections.                                         *)
Last == last_conn \in Nat /\ last_conn <= MaxConns

QueueInv == Queued /\ Last /\ Filter /\ NewestOlder /\ NewestHere /\ GapFree

LEMMA QueueInit == Init => QueueInv
  BY DemuxerAssumption DEF Init, QueueInv, Queued, Last, Filter, NewestOlder, NewestHere, GapFree

LEMMA PacketsMade ==
  ASSUME ControlInv, CountInv,
         pc \in {"extradata", "push", "filter", "receive"}
  PROVE  Extradata \in Packets /\ ThisPacket \in Packets
<1> USE DemuxerAssumption
<1>1. fmt_ctx \in Streams /\ bsf \in Streams \cup {NoStream}
  BY DEF ControlInv, Connected, Objects
<1>2. conns \in 1..MaxConns /\ reads \in 0..MaxReads /\ 0 \in 0..MaxReads
  BY DEF CountInv, Counts, InHand, Lost
<1> QED BY <1>1, <1>2 DEF Packets, Extradata, ThisPacket

(* The order of the packets under an append and under a removal.           *)
LEMMA GapFreeAppend ==
  ASSUME Queued, GapFree, NEW p \in Packets, queue' = Append(queue, p),
         queue # <<>> =>
           /\ Newest.conn <= p.conn
           /\ Newest.n > 0 /\ Newest.conn = p.conn
                => IF Newest.bsf = NoStream THEN p.n = Newest.n + 1
                                            ELSE p.n > Newest.n
  PROVE  GapFree'
<1>1. /\ Len(queue') = Len(queue) + 1 /\ Len(queue) \in Nat
      /\ \A i \in 1..Len(queue) : queue'[i] = queue[i]
      /\ queue'[Len(queue')] = p
  BY AppendFacts DEF Queued
<1> SUFFICES ASSUME NEW i \in 1..Len(queue') - 1
             PROVE  /\ queue'[i].conn <= queue'[i + 1].conn
                    /\ queue'[i].n > 0 /\ queue'[i].conn = queue'[i + 1].conn
                         => IF queue'[i].bsf = NoStream
                              THEN queue'[i + 1].n = queue'[i].n + 1
                              ELSE queue'[i + 1].n > queue'[i].n
  BY DEF GapFree
<1>2. CASE i = Len(queue)
  <2>1. queue # <<>> /\ queue'[i] = Newest /\ queue'[i + 1] = p
    BY <1>1, <1>2 DEF Newest
  <2> QED BY <2>1
<1>3. CASE i # Len(queue)
  <2>1. i \in 1..Len(queue) - 1 /\ queue'[i] = queue[i] /\ queue'[i + 1] = queue[i + 1]
    BY <1>1, <1>3
  <2> QED BY <2>1 DEF GapFree
<1> QED BY <1>2, <1>3

LEMMA GapFreeTail ==
  ASSUME Queued, GapFree, queue # <<>>, queue' = Tail(queue)
  PROVE  GapFree'
<1>1. /\ Len(queue') = Len(queue) - 1 /\ Len(queue) \in Nat
      /\ \A i \in 1..Len(queue') : queue'[i] = queue[i + 1]
  BY TailFacts DEF Queued
<1>2. \A i \in 1..Len(queue') - 1 :
        /\ i + 1 \in 1..Len(queue) - 1
        /\ queue'[i] = queue[i + 1] /\ queue'[i + 1] = queue[(i + 1) + 1]
  BY <1>1
<1> QED BY <1>2 DEF GapFree
(* A step that appends p, the packet in hand, and one that removes.        *)
LEMMA QueueAppends ==
  ASSUME QueueInv, CountInv, ControlInv,
         \/ PushExtradata /\ NeedsExtradata /\ Pushed(Extradata)
         \/ PushPacket
         \/ FilterReceive /\ Pushed(ThisPacket)
  PROVE  QueueInv'
<1> DEFINE p == IF pc = "extradata" THEN Extradata ELSE ThisPacket
<1>0. /\ pc \in {"extradata", "push", "receive"}
      /\ queue' = Append(queue, p) /\ last_conn' = p.conn
      /\ UNCHANGED <<conns, reads, bsf>>
      /\ filtered' => pc' = "receive"
      /\ pc = "extradata" => pc' = "inner" /\ bsf = NoStream
      /\ pc = "push" => pc' = "inner"
      /\ pc = "receive" => filtered /\ pc' = "receive" /\ ~filtered'
      /\ pc # "receive" => UNCHANGED filtered
  <2>1. CASE PushExtradata /\ NeedsExtradata /\ Pushed(Extradata)
    BY <2>1 DEF PushExtradata, Go, Pushed, NeedsExtradata, connection, filter,
       counters, QueueInv, Filter
  <2>2. CASE PushPacket
    BY <2>2 DEF PushPacket, Go, Pushed, connection, filter, counters, QueueInv, Filter
  <2>3. CASE FilterReceive /\ Pushed(ThisPacket)
    <3>1. pc = "receive" /\ filtered /\ ~filtered' /\ UNCHANGED <<conns, reads, bsf>>
      BY <2>3 DEF FilterReceive, Go, connection, counters
    <3>2. queue' = Append(queue, ThisPacket) /\ last_conn' = ThisPacket.conn
      BY <2>3 DEF Pushed
    <3>3. pc' = "receive"
      BY <2>3 DEF FilterReceive, Go, Pushed, PushRefused, sent
    <3> QED BY <3>1, <3>2, <3>3
  <2> QED BY <2>1, <2>2, <2>3
<1>1. p \in Packets
  BY <1>0, PacketsMade
<1>2. p.conn = conns /\ p.n = IF pc = "extradata" THEN 0 ELSE reads
  BY DEF Extradata, ThisPacket
<1>3. p.bsf = bsf
  BY <1>0 DEF Extradata, ThisPacket
<1> HIDE DEF p
<1> USE DEF QueueInv
<1>4. /\ queue' \in Seq(Packets) /\ queue' # <<>> /\ Newest' = p
  BY <1>0, <1>1, AppendFacts DEF Queued, Newest
<1>5. Queued' /\ Last'
  BY <1>0, <1>2, <1>4 DEF Queued, Last, CountInv, Counts
<1>6. Filter'
  BY <1>0 DEF Filter
<1>7. conns \in Nat /\ reads \in Nat /\ (pc \in {"push", "receive"} => reads > 0)
  BY DEF CountInv, Counts, InHand
<1>8. NewestOlder'
  BY <1>0, <1>2, <1>4, <1>7 DEF NewestOlder
<1>9. NewestHere'
  BY <1>0, <1>2, <1>3, <1>4, <1>7 DEF NewestHere
<1>10. queue # <<>> =>
         /\ Newest.conn <= p.conn
         /\ Newest.n > 0 /\ Newest.conn = p.conn
              => IF Newest.bsf = NoStream THEN p.n = Newest.n + 1
                                          ELSE p.n > Newest.n
  <2> SUFFICES ASSUME queue # <<>>
               PROVE  /\ Newest.conn <= conns
                      /\ Newest.n > 0 /\ Newest.conn = conns
                           => IF Newest.bsf = NoStream THEN p.n = Newest.n + 1
                                                       ELSE p.n > Newest.n
    BY <1>2
  <2>1. Newest.conn <= conns
    BY DEF NewestOlder
  <2> SUFFICES ASSUME Newest.n > 0, Newest.conn = conns
               PROVE  IF Newest.bsf = NoStream THEN p.n = Newest.n + 1
                                               ELSE p.n > Newest.n
    BY <2>1
  <2>2. pc \in {"push", "receive"} /\ Newest.bsf = bsf /\ p.n = reads
    BY <1>0, <1>2 DEF NewestHere
  <2>3. CASE pc = "push"
    BY <2>2, <2>3, <1>7 DEF NewestHere, Filter
  <2>4. CASE pc = "receive"
    BY <2>2, <2>4, <1>0 DEF NewestOlder, Filter
  <2> QED BY <2>2, <2>3, <2>4
<1>11. GapFree'
  BY <1>0, <1>1, <1>10, GapFreeAppend
<1> QED BY <1>5, <1>6, <1>8, <1>9, <1>11

LEMMA QueueRemoves ==
  ASSUME QueueInv, Taken
  PROVE  QueueInv'
<1>0. /\ queue # <<>> /\ queue' = Tail(queue) /\ UNCHANGED last_conn
      /\ UNCHANGED <<pc, conns, reads, bsf, filtered>>
  BY DEF Taken, connection, counters, filter
<1> USE DEF QueueInv
<1>1. /\ queue' \in Seq(Packets) /\ Len(queue') = Len(queue) - 1 /\ Len(queue) \in Nat
      /\ \A i \in 1..Len(queue') : queue'[i] = queue[i + 1]
      /\ queue' # <<>> => Len(queue') > 0
  BY <1>0, TailFacts DEF Queued
<1>2. queue' # <<>> => Newest' = Newest
  <2> SUFFICES ASSUME queue' # <<>> PROVE Newest' = Newest
    OBVIOUS
  <2>1. Len(queue') \in 1..Len(queue') /\ Len(queue') + 1 = Len(queue)
    BY <1>1
  <2> QED BY <1>1, <2>1 DEF Newest
<1>3. Queued' /\ Last'
  BY <1>0, <1>1 DEF Queued, Last
<1>4. Filter'
  BY <1>0 DEF Filter
<1>5. NewestOlder'
  BY <1>0, <1>2 DEF NewestOlder
<1>6. NewestHere'
  BY <1>0, <1>2 DEF NewestHere
<1>7. GapFree'
  BY <1>0, GapFreeTail
<1> QED BY <1>3, <1>4, <1>5, <1>6, <1>7
(* The steps that leave the queue alone.                                   *)
LEMMA QueueStays ==
  ASSUME QueueInv, CountInv, ControlInv, [Next]_vars, UNCHANGED sent,
         ~PushPacket, ~Taken
  PROVE  QueueInv'
<1> USE DEF QueueInv, announced, counters, connection, filter, sent, owner, thread
<1>1. Queued' /\ Last' /\ GapFree'
  BY DEF Queued, Last, GapFree
<1>2. UNCHANGED Newest
  BY DEF Newest
<1>3. conns \in Nat /\ reads \in Nat
  BY DEF CountInv, Counts
<1>4. queue # <<>> => Newest.n \in Nat /\ Newest.conn \in Nat
  <2> SUFFICES ASSUME queue # <<>> PROVE Newest \in Packets
    BY DEF Packets
  <2>1. Len(queue) \in 1..Len(queue)
    BY DEF Queued
  <2> QED BY <2>1 DEF Queued, Newest
<1>5. CASE \/ LoopCheck \/ OpenFails \/ InnerCheck \/ Close \/ Exit
           \/ ReadVideo \/ ReadAgain \/ ReadEof
  <2> USE <1>5 DEF LoopCheck, OpenFails, InnerCheck, Close, Exit, ReadVideo,
          ReadAgain, ReadEof, Go, NextRound
  <2>1. Filter'
    BY DEF Filter
  <2>2. NewestOlder'
    BY <1>2, <1>3, <1>4 DEF NewestOlder, Filter
  <2>3. NewestHere'
    BY <1>2, <1>3, <1>4 DEF NewestHere
  <2> QED BY <1>1, <2>1, <2>2, <2>3
<1>6. CASE \/ Opens \/ FindVideo \/ FindNoVideo \/ Notify
           \/ BsfInit \/ BsfInitFails
  <2> USE <1>6 DEF Opens, FindVideo, FindNoVideo, Notify, BsfInit, BsfInitFails, Go
  <2>1. Filter'
    BY DEF Filter
  <2>2. NewestOlder'
    BY <1>2, <1>3, <1>4 DEF NewestOlder
  <2>3. NewestHere'
    BY <1>2, <1>3, <1>4 DEF NewestHere, NewestOlder
  <2> QED BY <1>1, <2>1, <2>2, <2>3
<1>7. CASE \/ PushExtradata \/ PushPacketRefused
           \/ FilterSend \/ FilterSendFails \/ FilterReceive \/ FilterDone
  <2> USE <1>7 DEF PushExtradata, PushPacketRefused, FilterSend, FilterSendFails,
          FilterReceive, FilterDone, Go
  <2>1. Filter'
    <3>1. filtered' => pc' = "receive"
      BY DEF Filter
    <3>2. pc' \in {"filter", "receive"} => bsf' # NoStream
      BY DEF Filter
    <3>3. pc' # "push"
      OBVIOUS
    <3> QED BY <3>1, <3>2, <3>3 DEF Filter
  <2>2. NewestOlder'
    BY <1>2 DEF NewestOlder, Filter
  <2>3. NewestHere'
    BY <1>2 DEF NewestHere, Filter
  <2> QED BY <1>1, <2>1, <2>2, <2>3
<1>8. CASE Owner \/ LinkDown \/ UNCHANGED vars
  <2>1. /\ UNCHANGED <<conns, reads, bsf, filtered>>
        /\ UNCHANGED pc \/ (Start /\ pc' = "loop" /\ ~joinable)
    BY <1>8 DEF Owner, Start, Wait, WaitSleeps, WaitReturns, Proceed, Stop,
       StopSteps, StopStore, StopJoin, StopAbort, LinkDown, vars
  <2>2. ~joinable => pc \in {"none", "ended"}
    BY DEF ControlInv, Ended, StoppedMeansEnded
  <2>3. Filter'
    BY <2>1, <2>2 DEF Filter
  <2>4. NewestOlder'
    BY <1>2, <2>1, <2>2 DEF NewestOlder
  <2>5. NewestHere'
    BY <1>2, <2>1, <2>2 DEF NewestHere
  <2> QED BY <1>1, <2>3, <2>4, <2>5
<1> QED
  BY <1>5, <1>6, <1>7, <1>8 DEF Next, DemuxThread

LEMMA QueueStep ==
  QueueInv /\ CountInv /\ ControlInv /\ [Next]_vars => QueueInv'
<1> SUFFICES ASSUME QueueInv, CountInv, ControlInv, [Next]_vars PROVE QueueInv'
  OBVIOUS
<1>1. CASE PushPacket
  BY <1>1, QueueAppends
<1>2. CASE Taken
  BY <1>2, QueueRemoves
<1>3. CASE PushExtradata
  <2>1. (NeedsExtradata /\ Pushed(Extradata)) \/ UNCHANGED sent
    BY <1>3 DEF PushExtradata, PushRefused
  <2> QED BY <1>1, <1>2, <1>3, <2>1, QueueAppends, QueueStays
<1>4. CASE FilterReceive
  <2>1. Pushed(ThisPacket) \/ UNCHANGED sent
    BY <1>4 DEF FilterReceive, PushRefused
  <2> QED BY <1>1, <1>2, <1>4, <2>1, QueueAppends, QueueStays
<1>5. CASE ~PushPacket /\ ~Taken /\ ~PushExtradata /\ ~FilterReceive
  <2>1. CASE DemuxThread
    <3>1. UNCHANGED sent
      BY <1>5, <2>1 DEF DemuxThread, LoopCheck, OpenFails, Opens, FindVideo, FindNoVideo,
         Notify, BsfInit, BsfInitFails, InnerCheck, ReadVideo, ReadAgain, ReadEof,
         PushPacketRefused, PushRefused, FilterSend, FilterSendFails, FilterDone,
         Close, Exit
    <3> QED BY <1>5, <3>1, QueueStays
  <2>2. CASE Owner \/ LinkDown \/ UNCHANGED vars
    <3>1. UNCHANGED sent
      BY <2>2 DEF Owner, Start, Wait, WaitSleeps, WaitReturns, Proceed, Stop,
         StopSteps, StopStore, StopJoin, StopAbort, LinkDown, vars, sent, thread
    <3> QED BY <1>5, <3>1, QueueStays
  <2> QED BY <1>5, <2>1, <2>2 DEF Next
<1> QED BY <1>1, <1>2, <1>3, <1>4, <1>5

LEMMA Queueing == SafeSpec => []QueueInv
  BY QueueInit, QueueStep, Control, Counting, PTL DEF SafeSpec

(* The queue gets the video packets in reading order and, within a         *)
(* connection, without gaps.                                               *)
THEOREM GapFreeCorrect == SafeSpec => []GapFree
<1>1. QueueInv => GapFree
  BY DEF QueueInv
<1> QED BY <1>1, Queueing, PTL

(* Types of the demuxer's state.                                           *)
THEOREM TypeCorrect == SafeSpec => []TypeOK
<1>1. ControlInv /\ CountInv /\ QueueInv => TypeOK
  <2> SUFFICES ASSUME ControlInv, CountInv, QueueInv PROVE TypeOK
    OBVIOUS
  <2>1. /\ frame_count \in 0..MaxReads /\ reads \in 0..MaxReads
        /\ conns \in 0..MaxConns
    BY DemuxerAssumption DEF CountInv, Counts
  <2>2. queue \in Seq(Packets) /\ last_conn \in 0..MaxConns
    BY DemuxerAssumption DEF QueueInv, Queued, Last
  <2>3. Places /\ Flags /\ Objects
    BY DEF ControlInv
  <2> QED BY <2>1, <2>2, <2>3 DEF TypeOK, Places, Flags, Objects
<1> QED BY <1>1, Control, Counting, Queueing, PTL
-----------------------------------------------------------------------------
(* The parameter sets.                                                     *)

(* Whoever reads frames that need parameter sets has sent them.            *)
HeaderSent ==
  /\ pc \in {"inner", "read", "push"} /\ bsf = NoStream
  /\ fmt_ctx \in ExtradataStreams /\ ~abort_request
  => last_conn = conns

(* What HeaderFirst says of a step.                                        *)
HeaderBefore ==
  \A p \in Packets :
    /\ queue' = Append(queue, p)
    /\ p.n > 0 /\ p.bsf = NoStream /\ p.from \in ExtradataStreams
    => last_conn = p.conn

LEMMA HeaderInit == Init => HeaderSent
  BY DEF Init, HeaderSent

(* What is not appended to is no longer: a step that shortens the queue or *)
(* leaves it alone has nothing to answer for.                              *)
LEMMA NothingAppended ==
  ASSUME Queued, queue' = queue \/ (queue # <<>> /\ queue' = Tail(queue))
  PROVE  HeaderBefore
<1> SUFFICES ASSUME NEW p \in Packets, queue' = Append(queue, p) PROVE FALSE
  BY DEF HeaderBefore
<1>1. Len(queue') = Len(queue) + 1 /\ Len(queue) \in Nat
  BY AppendFacts DEF Queued
<1>2. CASE queue' = queue
  BY <1>1, <1>2
<1>3. CASE queue # <<>> /\ queue' = Tail(queue)
  <2>1. Len(queue') = Len(queue) - 1
    BY <1>3, TailFacts DEF Queued
  <2> QED BY <1>1, <2>1
<1> QED BY <1>2, <1>3

(* Of two appends to the same queue with the same result, the packets are  *)
(* the same.                                                               *)
LEMMA OneAppended ==
  ASSUME Queued, NEW p \in Packets, queue' = Append(queue, p),
         /\ p.n > 0 /\ p.bsf = NoStream /\ p.from \in ExtradataStreams
         => last_conn = p.conn
  PROVE  HeaderBefore
<1>1. ASSUME NEW o \in Packets, queue' = Append(queue, o)
      PROVE  queue'[Len(queue')] = o
  BY <1>1, AppendFacts DEF Queued
<1>2. queue'[Len(queue')] = p
  BY <1>1
<1> SUFFICES ASSUME NEW o \in Packets, queue' = Append(queue, o) PROVE o = p
  BY DEF HeaderBefore
<1> QED BY <1>1, <1>2

(* A push can only be refused once the queue is aborted, and then none     *)
(* succeeds any more.                                                      *)
LEMMA HeaderStep ==
  ASSUME ~AllocMayFail
  PROVE  /\ HeaderSent /\ QueueInv /\ CountInv /\ ControlInv /\ [Next]_vars
         => HeaderSent' /\ HeaderBefore
<1> SUFFICES ASSUME HeaderSent, QueueInv, CountInv, ControlInv, [Next]_vars
             PROVE  HeaderSent' /\ HeaderBefore
  OBVIOUS
<1> USE DEF announced, counters, connection, filter, sent, owner, thread
<1>1. Queued
  BY DEF QueueInv
<1>2. CASE PushPacket
  <2>1. /\ pc = "push" /\ pc' = "inner" /\ queue' = Append(queue, ThisPacket)
        /\ last_conn' = ThisPacket.conn /\ ~abort_request
        /\ UNCHANGED <<bsf, fmt_ctx, abort_request, conns>>
    BY <1>2 DEF PushPacket, Go, Pushed
  <2>2. ThisPacket \in Packets
    BY <2>1, PacketsMade
  <2>3. ThisPacket.conn = conns /\ ThisPacket.bsf = bsf /\ ThisPacket.from = fmt_ctx
    BY DEF ThisPacket
  <2>4. HeaderSent'
    BY <2>1, <2>3 DEF HeaderSent
  <2>5. bsf = NoStream /\ fmt_ctx \in ExtradataStreams => last_conn = conns
    BY <2>1 DEF HeaderSent
  <2>6. HeaderBefore
    BY <1>1, <2>1, <2>2, <2>3, <2>5, OneAppended
  <2> QED BY <2>4, <2>6
<1>3. CASE FilterReceive /\ Pushed(ThisPacket)
  <2>1. pc = "receive" /\ pc' = "receive" /\ queue' = Append(queue, ThisPacket)
    BY <1>3 DEF FilterReceive, Go, Pushed, PushRefused
  <2>2. ThisPacket \in Packets
    BY <2>1, PacketsMade
  <2>3. ThisPacket.bsf # NoStream
    BY <2>1 DEF ThisPacket, QueueInv, Filter
  <2>4. HeaderSent'
    BY <2>1 DEF HeaderSent
  <2>5. HeaderBefore
    BY <1>1, <2>1, <2>2, <2>3, OneAppended
  <2> QED BY <2>4, <2>5
<1>4. CASE PushExtradata /\ NeedsExtradata /\ Pushed(Extradata)
  <2>1. /\ pc = "extradata" /\ queue' = Append(queue, Extradata)
        /\ last_conn' = Extradata.conn
        /\ UNCHANGED conns
    BY <1>4 DEF PushExtradata, Go, Pushed
  <2>2. Extradata \in Packets
    BY <2>1, PacketsMade
  <2>3. Extradata.n = 0 /\ Extradata.conn = conns
    BY DEF Extradata
  <2>4. HeaderSent'
    BY <2>1, <2>3 DEF HeaderSent
  <2>5. HeaderBefore
    BY <1>1, <2>1, <2>2, <2>3, OneAppended
  <2> QED BY <2>4, <2>5
<1>5. CASE PushExtradata /\ ~(NeedsExtradata /\ Pushed(Extradata))
  <2>1. /\ UNCHANGED <<sent, bsf, fmt_ctx, abort_request>>
        /\ ~NeedsExtradata \/ abort_request
    BY <1>5 DEF PushExtradata, PushRefused, Go
  <2>2. HeaderSent'
    BY <2>1 DEF HeaderSent, NeedsExtradata
  <2> QED BY <1>1, <2>1, <2>2, NothingAppended
<1>6. CASE Taken
  <2>1. /\ queue # <<>> /\ queue' = Tail(queue)
        /\ UNCHANGED <<pc, bsf, fmt_ctx, abort_request, conns, last_conn>>
    BY <1>6 DEF Taken
  <2>2. HeaderSent'
    BY <2>1 DEF HeaderSent
  <2> QED BY <1>1, <2>1, <2>2, NothingAppended
<1>7. CASE DemuxThread /\ ~PushPacket /\ ~PushExtradata
           /\ ~(FilterReceive /\ Pushed(ThisPacket))
  <2>1. /\ UNCHANGED <<queue, last_conn, abort_request>>
        /\ pc' \in {"inner", "read", "push"} =>
             \/ pc \in {"inner", "read", "receive"}
        /\ pc \in {"inner", "read", "receive"} => UNCHANGED <<bsf, fmt_ctx, conns>>
    BY <1>7 DEF DemuxThread, LoopCheck, OpenFails, Opens, FindVideo, FindNoVideo,
       Notify, BsfInit, BsfInitFails, InnerCheck, ReadVideo, ReadAgain, ReadEof,
       PushPacketRefused, PushRefused, FilterSend, FilterSendFails, FilterReceive,
       FilterDone, Close, Exit, Go, NextRound
  <2>2. pc = "receive" => bsf # NoStream
    BY DEF QueueInv, Filter
  <2>3. HeaderSent'
    BY <2>1, <2>2 DEF HeaderSent
  <2> QED BY <1>1, <2>1, <2>3, NothingAppended
<1>8. CASE Owner \/ LinkDown \/ UNCHANGED vars
  <2>1. /\ UNCHANGED <<queue, last_conn, bsf, fmt_ctx, conns>>
        /\ UNCHANGED abort_request \/ abort_request' = TRUE
        /\ UNCHANGED pc \/ pc' = "loop"
    BY <1>8 DEF Owner, Start, Wait, WaitSleeps, WaitReturns, Proceed, Stop,
       StopSteps, StopStore, StopJoin, StopAbort, LinkDown, vars
  <2>2. HeaderSent'
    BY <2>1 DEF HeaderSent
  <2> QED BY <1>1, <2>1, <2>2, NothingAppended
<1> QED
  BY <1>2, <1>3, <1>4, <1>5, <1>6, <1>7, <1>8 DEF Next

(* While memory lasts, the first packet of every connection whose frames   *)
(* do not pass the filter is its parameter sets, the first connection      *)
(* included.                                                               *)
THEOREM HeaderFirstCorrect ==
  ASSUME ~AllocMayFail
  PROVE  SafeSpec => HeaderFirst
<1>1. HeaderSent /\ QueueInv /\ CountInv /\ ControlInv /\ [Next]_vars
        => HeaderSent' /\ [HeaderBefore]_vars
  BY HeaderStep
<1>2. [HeaderBefore]_vars
        => [ \A p \in Packets :
               /\ queue' = Append(queue, p)
               /\ p.n > 0 /\ p.bsf = NoStream /\ p.from \in ExtradataStreams
               => last_conn = p.conn ]_vars
  BY DEF HeaderBefore
<1> QED BY <1>1, <1>2, HeaderInit, Control, Counting, Queueing, PTL
        DEF SafeSpec, HeaderFirst
-----------------------------------------------------------------------------
(* When no std::thread is destroyed or assigned to while joinable.         *)

(* What ends the demux thread without Stop() is excluded: a connection     *)
(* that is lost, a stream without video, a filter that is not initialised. *)
EndsOnlyWhenTold == AutoReconnect /\ ~BsfMayFail /\ Streams \subseteq VideoStreams

(* The thread leaves its loop only after Stop() has cleared running_, and  *)
(* Stop() has not yet joined it.                                           *)
UntilStopped ==
  /\ joinable => running \/ caller = "joining"
  /\ pc = "exit" => ~running
  /\ pc = "find" => fmt_ctx \in Streams
  /\ caller # "terminated"

LEMMA UntilStoppedInit == Init => UntilStopped
  BY DEF Init, UntilStopped

LEMMA UntilStoppedStep ==
  EndsOnlyWhenTold /\ ControlInv /\ UntilStopped /\ [Next]_vars => UntilStopped'
<1> SUFFICES ASSUME EndsOnlyWhenTold, ControlInv, UntilStopped, [Next]_vars PROVE UntilStopped'
  OBVIOUS
<1> USE DEF UntilStopped
<1>1. CASE LoopCheck
  BY <1>1 DEF LoopCheck, Go, owner
<1>2. CASE FindNoVideo \/ BsfInitFails
  BY <1>2 DEF FindNoVideo, BsfInitFails, Go, EndsOnlyWhenTold
<1>3. CASE Exit
  BY <1>3 DEF Exit, Go, owner
<1>4. CASE DemuxThread /\ ~LoopCheck /\ ~FindNoVideo /\ ~BsfInitFails /\ ~Exit
  <2>1. /\ pc' # "exit" /\ UNCHANGED <<running, joinable, caller>>
        /\ pc' = "find" => fmt_ctx' \in Streams
    BY <1>4 DEF DemuxThread, OpenFails, Opens, FindVideo, Notify, BsfInit,
       PushExtradata, InnerCheck, ReadVideo, ReadAgain, ReadEof, PushPacket,
       PushPacketRefused, FilterSend, FilterSendFails, FilterReceive, FilterDone,
       Close, Go, NextRound, owner, EndsOnlyWhenTold
  <2> QED BY <2>1
<1>5. CASE Start
  BY <1>5 DEF Start, thread, connection
<1>6. CASE Wait \/ WaitSleeps \/ WaitReturns \/ Proceed
  <2>1. UNCHANGED <<pc, fmt_ctx, running, joinable>>
        /\ caller # "joining" /\ caller' # "terminated"
    BY <1>6 DEF Wait, WaitSleeps, WaitReturns, Proceed, thread, connection
  <2> QED BY <2>1
<1>7. CASE Stop(FALSE) \/ Stop(TRUE)
  <2>1. caller = "idle" /\ UNCHANGED <<pc, fmt_ctx, running, joinable>>
        /\ (caller' = "terminated" => ~running /\ joinable)
    BY <1>7 DEF Stop, AfterStop, thread, connection
  <2> QED BY <2>1
<1>8. CASE StopSteps
  <2>1. caller = "aborting" => ~joinable
    BY DEF ControlInv, Ended
  <2> QED BY <1>8, <2>1 DEF StopSteps, StopStore, StopJoin, StopAbort, AfterStop,
          ControlInv, Flags, thread, connection
<1>9. CASE Taken \/ LinkDown \/ UNCHANGED vars
  BY <1>9 DEF Taken, LinkDown, connection, owner, vars
<1> QED BY <1>1, <1>2, <1>3, <1>4, <1>5, <1>6, <1>7, <1>8, <1>9 DEF Next, Owner

(* As long as the demux thread ends only when it is told to, the           *)
(* destructor and Start never meet a thread that has not been joined: the  *)
(* three ways in which it ends by itself are all there are.                *)
THEOREM NoTerminateCorrect ==
  ASSUME EndsOnlyWhenTold
  PROVE  SafeSpec => []NoTerminate
<1>1. UntilStopped => NoTerminate
  BY DEF UntilStopped, NoTerminate
<1>2. ControlInv /\ UntilStopped /\ [Next]_vars => UntilStopped'
  BY UntilStoppedStep
<1> QED BY <1>1, <1>2, UntilStoppedInit, Control, PTL DEF SafeSpec
=============================================================================
