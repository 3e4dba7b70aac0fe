---------------------- MODULE VideoDecoderOrderProofs ----------------------
(***************************************************************************)
(* What stands in line in VideoDecoder: packets and frames, which reach    *)
(* the processor in order, and the buffers of the output plane.            *)
(*                                                                         *)
(* Whatever has not been processed stands in one of six lines, from the    *)
(* queue to the processor, and each step of a thread or of the driver      *)
(* takes the first of a line to the end of the next one, or drops          *)
(* something.                                                              *)
(***************************************************************************)
EXTENDS VideoDecoderProofs

PacketsOf(s) == [i \in 1..Len(s) |-> s[i].packet]

HeldLine == IF capture_pc = "process" THEN <<held.packet>> ELSE <<>>
HandLine == IF decode_pc \in {"buffer", "fill"} THEN <<packet>> ELSE <<>>

Lines == <<processed, HeldLine, PacketsOf(filled), PacketsOf(out_queue), HandLine, queue>>

LineTypes(L) == \A k \in 1..6 : L[k] \in Seq(Packets)

(* All that stand in line are in S, and R relates each of them to those    *)
(* behind it, in its own line and in the later ones.                       *)
InLine(S, R, L) ==
  /\ \A k \in 1..6 : \A i \in 1..Len(L[k]) : L[k][i] \in S
  /\ \A k \in 1..6 : \A i, j \in 1..Len(L[k]) : i < j => <<L[k][i], L[k][j]>> \in R
  /\ \A k, l \in 1..6 : k < l =>
       \A i \in 1..Len(L[k]), j \in 1..Len(L[l]) : <<L[k][i], L[l][j]>> \in R

(* The first of a line goes to the end of the next one.                    *)
MovesUp(L, M, k) ==
  /\ L[k + 1] # <<>>
  /\ M[k] = Append(L[k], Head(L[k + 1]))
  /\ M[k + 1] = Tail(L[k + 1])
  /\ \A l \in 1..6 : l # k /\ l # k + 1 => M[l] = L[l]

(* Something is dropped, or nothing happens.                               *)
Drops(L, M) ==
  \A l \in 1..6 : \/ M[l] = L[l] \/ M[l] = <<>>
                  \/ L[l] # <<>> /\ M[l] = Tail(L[l])

LEMMA AppendOf ==
  ASSUME NEW S, NEW s \in Seq(S), NEW e \in S
  PROVE  /\ Append(s, e) \in Seq(S) /\ Len(Append(s, e)) = Len(s) + 1
         /\ Len(s) \in Nat /\ Append(s, e)[Len(s) + 1] = e
         /\ \A i \in 1..Len(s) : Append(s, e)[i] = s[i]
         /\ DOMAIN s = 1..Len(s)
  OBVIOUS

LEMMA TailOf ==
  ASSUME NEW S, NEW s \in Seq(S), s # <<>>
  PROVE  /\ Tail(s) \in Seq(S) /\ Len(Tail(s)) = Len(s) - 1
         /\ Len(s) \in Nat /\ Len(s) > 0 /\ Head(s) = s[1] /\ Head(s) \in S
         /\ \A i \in 1..Len(s) - 1 : Tail(s)[i] = s[i + 1]
  OBVIOUS

LEMMA MoveKeepsLines ==
  ASSUME NEW S, NEW R, NEW L, NEW M, NEW k \in 1..5, LineTypes(L), InLine(S, R, L), MovesUp(L, M, k)
  PROVE  InLine(S, R, M)
<1> DEFINE x == Head(L[k + 1])
<1>1. /\ k \in 1..6 /\ k + 1 \in 1..6 /\ k < k + 1
      /\ L[k] \in Seq(Packets) /\ L[k + 1] \in Seq(Packets) /\ L[k + 1] # <<>>
  BY DEF LineTypes, MovesUp
<1>2. /\ x = L[k + 1][1] /\ x \in Packets /\ 1 \in 1..Len(L[k + 1])
      /\ Len(L[k + 1]) \in Nat
      /\ Len(M[k + 1]) = Len(L[k + 1]) - 1
      /\ \A i \in 1..Len(M[k + 1]) :
           /\ i + 1 \in 1..Len(L[k + 1]) /\ i + 1 > 1
           /\ M[k + 1][i] = L[k + 1][i + 1]
  BY <1>1, TailOf DEF MovesUp
<1>3. /\ Len(L[k]) \in Nat /\ Len(M[k]) = Len(L[k]) + 1
      /\ M[k][Len(L[k]) + 1] = x
      /\ \A i \in 1..Len(L[k]) : M[k][i] = L[k][i]
  BY <1>1, <1>2, AppendOf DEF MovesUp
<1> HIDE DEF x
(* Where an element of M was in L.                                         *)
<1>4. \A i \in 1..Len(M[k]) :
        \/ i \in 1..Len(L[k]) /\ M[k][i] = L[k][i]
        \/ i = Len(L[k]) + 1 /\ M[k][i] = x
  BY <1>3
<1>5. \A l \in 1..6 : l # k /\ l # k + 1 => M[l] = L[l]
  BY DEF MovesUp
(* What is known of x in L.                                                *)
<1>6. /\ x \in S
      /\ \A j \in 1..Len(L[k + 1]) : 1 < j => <<x, L[k + 1][j]>> \in R
      /\ \A l \in 1..6 : k + 1 < l => \A j \in 1..Len(L[l]) : <<x, L[l][j]>> \in R
  BY <1>1, <1>2 DEF InLine
<1>7. \A l \in 1..6 : \A i \in 1..Len(M[l]) : M[l][i] \in S
  <2> SUFFICES ASSUME NEW l \in 1..6, NEW i \in 1..Len(M[l])
               PROVE  M[l][i] \in S
    OBVIOUS
  <2>1. CASE l = k
    <3>1. CASE i \in 1..Len(L[k]) /\ M[k][i] = L[k][i]
      BY <2>1, <3>1, <1>1 DEF InLine
    <3>2. CASE M[k][i] = x
      BY <2>1, <3>2, <1>6
    <3> QED BY <2>1, <3>1, <3>2, <1>4
  <2>2. CASE l = k + 1
    BY <2>2, <1>1, <1>2 DEF InLine
  <2>3. CASE l # k /\ l # k + 1
    BY <2>3, <1>5 DEF InLine
  <2> QED BY <2>1, <2>2, <2>3
<1>8. \A l \in 1..6 : \A i, j \in 1..Len(M[l]) : i < j => <<M[l][i], M[l][j]>> \in R
  <2> SUFFICES ASSUME NEW l \in 1..6, NEW i \in 1..Len(M[l]), NEW j \in 1..Len(M[l]), i < j
               PROVE  <<M[l][i], M[l][j]>> \in R
    OBVIOUS
  <2>1. CASE l = k
    <3>1. i \in 1..Len(L[k]) /\ M[k][i] = L[k][i]
      BY <2>1, <1>3, <1>4
    <3>2. CASE j \in 1..Len(L[k]) /\ M[k][j] = L[k][j]
      BY <2>1, <3>1, <3>2, <1>1 DEF InLine
    <3>3. CASE M[k][j] = x
      BY <2>1, <3>1, <3>3, <1>1, <1>2 DEF InLine
    <3> QED BY <2>1, <3>2, <3>3, <1>4
  <2>2. CASE l = k + 1
    <3>1. i + 1 < j + 1
      OBVIOUS
    <3> QED BY <2>2, <3>1, <1>1, <1>2 DEF InLine
  <2>3. CASE l # k /\ l # k + 1
    BY <2>3, <1>5 DEF InLine
  <2> QED BY <2>1, <2>2, <2>3
<1>9. \A h, l \in 1..6 : h < l =>
        \A i \in 1..Len(M[h]), j \in 1..Len(M[l]) : <<M[h][i], M[l][j]>> \in R
  <2> SUFFICES ASSUME NEW h \in 1..6, NEW l \in 1..6, h < l,
                      NEW i \in 1..Len(M[h]), NEW j \in 1..Len(M[l])
               PROVE  <<M[h][i], M[l][j]>> \in R
    OBVIOUS
  <2>1. CASE h = k /\ l = k + 1
    <3>1. CASE i \in 1..Len(L[k]) /\ M[k][i] = L[k][i]
      BY <2>1, <3>1, <1>1, <1>2 DEF InLine
    <3>2. CASE M[k][i] = x
      BY <2>1, <3>2, <1>2, <1>6
    <3> QED BY <2>1, <3>1, <3>2, <1>4
  <2>2. CASE h = k /\ l # k + 1
    <3>1. M[l] = L[l] /\ k + 1 < l
      BY <2>2, <1>5
    <3>2. CASE i \in 1..Len(L[k]) /\ M[k][i] = L[k][i]
      BY <2>2, <3>1, <3>2, <1>1 DEF InLine
    <3>3. CASE M[k][i] = x
      BY <2>2, <3>1, <3>3, <1>6
    <3> QED BY <2>2, <3>2, <3>3, <1>4
  <2>3. CASE h = k + 1
    <3>1. M[l] = L[l]
      BY <2>3, <1>5
    <3> QED BY <2>3, <3>1, <1>1, <1>2 DEF InLine
  <2>4. CASE h # k /\ h # k + 1 /\ l = k
    <3>1. M[h] = L[h] /\ h < k + 1
      BY <2>4, <1>5
    <3>2. CASE j \in 1..Len(L[k]) /\ M[k][j] = L[k][j]
      BY <2>4, <3>1, <3>2, <1>1 DEF InLine
    <3>3. CASE M[k][j] = x
      BY <2>4, <3>1, <3>3, <1>1, <1>2 DEF InLine
    <3> QED BY <2>4, <3>2, <3>3, <1>4
  <2>5. CASE h # k /\ h # k + 1 /\ l = k + 1
    <3>1. M[h] = L[h]
      BY <2>5, <1>5
    <3> QED BY <2>5, <3>1, <1>1, <1>2 DEF InLine
  <2>6. CASE h # k /\ h # k + 1 /\ l # k /\ l # k + 1
    BY <2>6, <1>5 DEF InLine
  <2> QED BY <2>1, <2>2, <2>3, <2>4, <2>5, <2>6
<1> QED BY <1>7, <1>8, <1>9 DEF InLine

LEMMA DropKeepsLines ==
  ASSUME NEW S, NEW R, NEW L, NEW M, LineTypes(L), InLine(S, R, L), Drops(L, M)
  PROVE  InLine(S, R, M)
<1>1. \A l \in 1..6 : \E d \in {0, 1} : \A i \in 1..Len(M[l]) :
        i + d \in 1..Len(L[l]) /\ M[l][i] = L[l][i + d]
  <2> SUFFICES ASSUME NEW l \in 1..6
               PROVE  \E d \in {0, 1} : \A i \in 1..Len(M[l]) :
                        i + d \in 1..Len(L[l]) /\ M[l][i] = L[l][i + d]
    OBVIOUS
  <2>1. L[l] \in Seq(Packets)
    BY DEF LineTypes
  <2>2. CASE M[l] = L[l]
    BY <2>1, <2>2
  <2>3. CASE M[l] = <<>>
    BY <2>3
  <2>4. CASE L[l] # <<>> /\ M[l] = Tail(L[l])
    <3>1. \A i \in 1..Len(M[l]) : i + 1 \in 1..Len(L[l]) /\ M[l][i] = L[l][i + 1]
      BY <2>1, <2>4, TailOf
    <3> QED BY <3>1
  <2> QED BY <2>2, <2>3, <2>4 DEF Drops
<1>2. PICK d \in [1..6 -> {0, 1}] : \A l \in 1..6 : \A i \in 1..Len(M[l]) :
        i + d[l] \in 1..Len(L[l]) /\ M[l][i] = L[l][i + d[l]]
  <2> DEFINE P(l, c) == \A i \in 1..Len(M[l]) :
                          i + c \in 1..Len(L[l]) /\ M[l][i] = L[l][i + c]
             d == [l \in 1..6 |-> CHOOSE c \in {0, 1} : P(l, c)]
  <2>1. \A l \in 1..6 : d[l] \in {0, 1} /\ P(l, d[l])
    BY <1>1
  <2>2. d \in [1..6 -> {0, 1}]
    BY <2>1
  <2> QED BY <2>1, <2>2
<1>3. \A l \in 1..6 : \A i \in 1..Len(M[l]) : M[l][i] \in S
  <2> SUFFICES ASSUME NEW l \in 1..6, NEW i \in 1..Len(M[l])
               PROVE  M[l][i] \in S
    OBVIOUS
  <2>1. i + d[l] \in 1..Len(L[l]) /\ M[l][i] = L[l][i + d[l]]
    BY <1>2
  <2> QED BY <2>1 DEF InLine
<1>4. \A l \in 1..6 : \A i, j \in 1..Len(M[l]) : i < j => <<M[l][i], M[l][j]>> \in R
  <2> SUFFICES ASSUME NEW l \in 1..6, NEW i \in 1..Len(M[l]), NEW j \in 1..Len(M[l]), i < j
               PROVE  <<M[l][i], M[l][j]>> \in R
    OBVIOUS
  <2>1. i + d[l] < j + d[l]
    OBVIOUS
  <2> QED BY <1>2, <2>1 DEF InLine
<1>5. \A h, l \in 1..6 : h < l =>
        \A i \in 1..Len(M[h]), j \in 1..Len(M[l]) : <<M[h][i], M[l][j]>> \in R
  <2> SUFFICES ASSUME NEW h \in 1..6, NEW l \in 1..6, h < l,
                      NEW i \in 1..Len(M[h]), NEW j \in 1..Len(M[l])
               PROVE  <<M[h][i], M[l][j]>> \in R
    OBVIOUS
  <2>1. /\ i + d[h] \in 1..Len(L[h]) /\ M[h][i] = L[h][i + d[h]]
        /\ j + d[l] \in 1..Len(L[l]) /\ M[l][j] = L[l][j + d[l]]
    BY <1>2
  <2> QED BY <2>1 DEF InLine
<1> QED BY <1>3, <1>4, <1>5 DEF InLine

(* What is new comes last.                                                 *)
LEMMA FeedKeepsLines ==
  ASSUME NEW S, NEW R, NEW T, NEW Q, S \subseteq T, R \subseteq Q,
         NEW p \in Packets, p \in T, \A x \in S : <<x, p>> \in Q,
         NEW L, NEW M, LineTypes(L), InLine(S, R, L),
         M[6] = Append(L[6], p), \A l \in 1..5 : M[l] = L[l]
  PROVE  InLine(T, Q, M)
<1>1. /\ Len(L[6]) \in Nat /\ Len(M[6]) = Len(L[6]) + 1 /\ M[6][Len(L[6]) + 1] = p
      /\ \A i \in 1..Len(L[6]) : M[6][i] = L[6][i]
  BY AppendOf DEF LineTypes
<1>2. \A l \in 1..6 : \A i \in 1..Len(M[l]) :
        \/ i \in 1..Len(L[l]) /\ M[l][i] = L[l][i]
        \/ l = 6 /\ i = Len(L[6]) + 1 /\ M[l][i] = p
  <2> SUFFICES ASSUME NEW l \in 1..6, NEW i \in 1..Len(M[l])
               PROVE  \/ i \in 1..Len(L[l]) /\ M[l][i] = L[l][i]
                      \/ l = 6 /\ i = Len(L[6]) + 1 /\ M[l][i] = p
    OBVIOUS
  <2>1. CASE l = 6
    <3>1. i \in 1..Len(L[6]) \/ i = Len(L[6]) + 1
      BY <2>1, <1>1
    <3> QED BY <2>1, <3>1, <1>1
  <2>2. CASE l # 6
    BY <2>2
  <2> QED BY <2>1, <2>2
<1>3. \A l \in 1..6 : \A i \in 1..Len(M[l]) : M[l][i] \in T
  BY <1>2 DEF InLine
<1>4. \A l \in 1..6 : \A i, j \in 1..Len(M[l]) : i < j => <<M[l][i], M[l][j]>> \in Q
  <2> SUFFICES ASSUME NEW l \in 1..6, NEW i \in 1..Len(M[l]), NEW j \in 1..Len(M[l]), i < j
               PROVE  <<M[l][i], M[l][j]>> \in Q
    OBVIOUS
  <2>1. i \in 1..Len(L[l]) /\ M[l][i] = L[l][i]
    <3>1. CASE l = 6 /\ i = Len(L[6]) + 1
      <4>1. j \in 1..(Len(L[6]) + 1)
        BY <3>1, <1>1
      <4> QED BY <3>1, <4>1, <1>1
    <3> QED BY <3>1, <1>2
  <2>2. CASE j \in 1..Len(L[l]) /\ M[l][j] = L[l][j]
    BY <2>1, <2>2 DEF InLine
  <2>3. CASE M[l][j] = p
    BY <2>1, <2>3 DEF InLine
  <2> QED BY <2>2, <2>3, <1>2
<1>5. \A h, l \in 1..6 : h < l =>
        \A i \in 1..Len(M[h]), j \in 1..Len(M[l]) : <<M[h][i], M[l][j]>> \in Q
  <2> SUFFICES ASSUME NEW h \in 1..6, NEW l \in 1..6, h < l,
                      NEW i \in 1..Len(M[h]), NEW j \in 1..Len(M[l])
               PROVE  <<M[h][i], M[l][j]>> \in Q
    OBVIOUS
  <2>1. i \in 1..Len(L[h]) /\ M[h][i] = L[h][i]
    BY <1>2
  <2>2. CASE j \in 1..Len(L[l]) /\ M[l][j] = L[l][j]
    BY <2>1, <2>2 DEF InLine
  <2>3. CASE M[l][j] = p
    BY <2>1, <2>3 DEF InLine
  <2> QED BY <2>2, <2>3, <1>2
<1> QED BY <1>3, <1>4, <1>5 DEF InLine

(* The lines stay in order as more is known of what stands in them.        *)
LEMMA WiderKeepsLines ==
  ASSUME NEW S, NEW R, NEW T, S \subseteq T, NEW L, InLine(S, R, L)
  PROVE  InLine(T, R, L)
  BY DEF InLine

-----------------------------------------------------------------------------
(* The lines of the decoder.                                               *)

LEMMA PacketsOfFacts ==
  ASSUME NEW S, \A r \in S : r.packet \in Packets, NEW s \in Seq(S)
  PROVE  /\ PacketsOf(s) \in Seq(Packets)
         /\ \A e \in S : PacketsOf(Append(s, e)) = Append(PacketsOf(s), e.packet)
         /\ s # <<>> => /\ PacketsOf(s) # <<>> /\ Head(PacketsOf(s)) = Head(s).packet
                        /\ PacketsOf(Tail(s)) = Tail(PacketsOf(s))
  BY DEF PacketsOf

LEMMA EmptyPackets == PacketsOf(<<>>) = <<>>
  BY DEF PacketsOf

LEMMA LinesTyped == DataInv => LineTypes(Lines)
<1> SUFFICES ASSUME DataInv PROVE LineTypes(Lines)
  OBVIOUS
<1> USE DEF DataInv
<1>1. processed \in Seq(Packets) /\ queue \in Seq(Packets)
  BY DEF Captured, Decoded
<1>2. HeldLine \in Seq(Packets)
  <2>1. capture_pc = "process" => held.packet \in Packets
    BY DEF Captured, Frames
  <2> QED BY <2>1 DEF HeldLine
<1>3. HandLine \in Seq(Packets)
  BY DEF HandLine, Decoded
<1>4. PacketsOf(filled) \in Seq(Packets)
  <2>1. \A r \in Frames : r.packet \in Packets
    BY DEF Frames
  <2> QED BY <2>1, PacketsOfFacts DEF CapPlane
<1>5. PacketsOf(out_queue) \in Seq(Packets)
  <2>1. \A r \in OutEntry : r.packet \in Packets
    BY DEF OutEntry
  <2> QED BY <2>1, PacketsOfFacts DEF OutPlane
<1> QED BY <1>1, <1>2, <1>3, <1>4, <1>5 DEF LineTypes, Lines

(* What a step that moves nothing from line to line does.                  *)
LEMMA LinesDropped ==
  ASSUME UNCHANGED <<processed, queue>>,
         HeldLine' \in {HeldLine, <<>>}, HandLine' \in {HandLine, <<>>},
         filled' \in {filled, <<>>}, out_queue' \in {out_queue, <<>>}
  PROVE  Drops(Lines, Lines')
<1>1. PacketsOf(filled)' \in {PacketsOf(filled), <<>>}
      /\ PacketsOf(out_queue)' \in {PacketsOf(out_queue), <<>>}
  BY EmptyPackets
<1> QED BY <1>1 DEF Drops, Lines

(* What the threads, the driver and the owner do to the lines.             *)
Advances == Drops(Lines, Lines') \/ \E k \in 1..5 : MovesUp(Lines, Lines', k)

LEMMA AdvanceKeepsLines ==
  ASSUME NEW S, NEW R, DataInv, InLine(S, R, Lines), Advances
  PROVE  InLine(S, R, Lines')
  BY LinesTyped, DropKeepsLines, MoveKeepsLines DEF Advances

LEMMA LinesEmpty == Init => \A S, R : InLine(S, R, Lines)
<1> SUFFICES ASSUME Init, NEW S, NEW R PROVE InLine(S, R, Lines)
  OBVIOUS
<1>1. Lines = <<<<>>, <<>>, <<>>, <<>>, <<>>, <<>>>>
  BY EmptyPackets DEF Init, Lines, HeldLine, HandLine
<1>2. \A k \in 1..6 : Len(Lines[k]) = 0
  BY <1>1
<1> QED BY <1>2 DEF InLine

LEMMA DecodeAdvances == DataInv /\ DecodeThread => Advances
<1> SUFFICES ASSUME DataInv, DecodeThread PROVE Advances
  OBVIOUS
<1>1. UNCHANGED <<processed, HeldLine, filled>>
  BY DEF DecodeThread, DecodeLoop, Pop, PopRefused, NthBuffer, DequeueOutput,
     DequeueOutputFails, RejectPacket, QueueOutput, QueueOutputFails, Decoding,
     captureVars, capVars, HeldLine
<1>2. CASE \/ DecodeLoop \/ PopRefused \/ NthBuffer \/ DequeueOutput
           \/ DequeueOutputFails \/ RejectPacket \/ QueueOutputFails
  <2>1. UNCHANGED <<queue, out_queue>> /\ HandLine' \in {HandLine, <<>>}
    BY <1>2 DEF DecodeLoop, PopRefused, NthBuffer, DequeueOutput, DequeueOutputFails,
       RejectPacket, QueueOutputFails, Decoding, outVars, HandLine
  <2>2. Drops(Lines, Lines')
    BY <1>1, <2>1, LinesDropped
  <2> QED BY <2>2 DEF Advances
<1>3. CASE Pop
  <2>1. /\ queue # <<>> /\ queue' = Tail(queue) /\ UNCHANGED out_queue
        /\ HandLine = <<>> /\ HandLine' = <<Head(queue)>>
    BY <1>3 DEF Pop, Decoding, outVars, HandLine
  <2>2. HandLine' = Append(HandLine, Head(queue))
    BY <2>1
  <2>3. MovesUp(Lines, Lines', 5)
    BY <1>1, <2>1, <2>2 DEF MovesUp, Lines
  <2> QED BY <2>3 DEF Advances
<1>4. CASE QueueOutput
  <2>1. /\ out_queue' = Append(out_queue, [buffer |-> buffer, packet |-> packet])
        /\ HandLine = <<packet>> /\ HandLine' = <<>> /\ UNCHANGED queue
    BY <1>4 DEF QueueOutput, Decoding, HandLine
  <2>2. [buffer |-> buffer, packet |-> packet] \in OutEntry
        /\ \A r \in OutEntry : r.packet \in Packets
    BY <1>4 DEF QueueOutput, Decoding, DataInv, Decoded, OutEntry
  <2>3. PacketsOf(out_queue)' = Append(PacketsOf(out_queue), packet)
    BY <2>1, <2>2, PacketsOfFacts DEF DataInv, OutPlane
  <2>4. HandLine # <<>> /\ Head(HandLine) = packet /\ HandLine' = Tail(HandLine)
    BY <2>1
  <2>5. MovesUp(Lines, Lines', 4)
    BY <1>1, <2>1, <2>3, <2>4 DEF MovesUp, Lines
  <2> QED BY <2>5 DEF Advances
<1> QED BY <1>2, <1>3, <1>4 DEF DecodeThread

LEMMA CaptureAdvances == DataInv /\ CaptureThread => Advances
<1> SUFFICES ASSUME DataInv, CaptureThread PROVE Advances
  OBVIOUS
<1>1. UNCHANGED <<queue, HandLine, out_queue>>
  BY DEF CaptureThread, FirstLoop, FirstNoEvent, FirstEventFails, FirstEvent,
     FirstAllocationFails, CaptureLoop, HandleResolutionChange, NoEvent, DequeueCapture,
     DequeueCaptureFails, Process, Requeue, RequeueFails, Capturing, decodeVars,
     outVars, HandLine
<1>2. CASE \/ FirstLoop \/ FirstNoEvent \/ FirstEventFails \/ FirstEvent
           \/ FirstAllocationFails \/ CaptureLoop \/ HandleResolutionChange \/ NoEvent
           \/ DequeueCaptureFails \/ Requeue \/ RequeueFails
  <2>1. /\ filled' \in {filled, <<>>} /\ UNCHANGED processed
        /\ capture_pc' # "process"
    BY <1>2 DEF FirstLoop, FirstNoEvent, FirstEventFails, FirstEvent,
       FirstAllocationFails, CaptureLoop, HandleResolutionChange, NoEvent,
       DequeueCaptureFails, Requeue, RequeueFails, Capturing, capVars,
       AllocateCaptureBuffers, AllocationFails, DeallocateCaptureBuffers, Exchange
  <2>2. Drops(Lines, Lines')
    BY <1>1, <2>1, LinesDropped DEF HeldLine
  <2> QED BY <2>2 DEF Advances
<1>3. CASE DequeueCapture
  <2>1. /\ filled # <<>> /\ filled' = Tail(filled) /\ UNCHANGED processed
        /\ HeldLine = <<>> /\ HeldLine' = <<Head(filled).packet>>
    BY <1>3 DEF DequeueCapture, Capturing, HeldLine
  <2>2. \A r \in Frames : r.packet \in Packets
    BY DEF Frames
  <2>3. /\ PacketsOf(filled) # <<>> /\ Head(PacketsOf(filled)) = Head(filled).packet
        /\ PacketsOf(filled)' = Tail(PacketsOf(filled))
    BY <2>1, <2>2, PacketsOfFacts DEF DataInv, CapPlane
  <2>4. HeldLine' = Append(HeldLine, Head(PacketsOf(filled)))
    BY <2>1, <2>3
  <2>5. MovesUp(Lines, Lines', 2)
    BY <1>1, <2>1, <2>3, <2>4 DEF MovesUp, Lines
  <2> QED BY <2>5 DEF Advances
<1>4. CASE Process
  <2>1. /\ HeldLine = <<held.packet>> /\ HeldLine' = <<>>
        /\ processed' = Append(processed, held.packet) /\ UNCHANGED filled
    BY <1>4 DEF Process, Capturing, capVars, HeldLine
  <2>2. HeldLine # <<>> /\ Head(HeldLine) = held.packet /\ HeldLine' = Tail(HeldLine)
    BY <2>1
  <2>3. MovesUp(Lines, Lines', 1)
    BY <1>1, <2>1, <2>2 DEF MovesUp, Lines
  <2> QED BY <2>3 DEF Advances
<1> QED BY <1>2, <1>3, <1>4 DEF CaptureThread

LEMMA DriverAdvances == DataInv /\ Driver => Advances
<1> SUFFICES ASSUME DataInv, Driver PROVE Advances
  OBVIOUS
<1>1. UNCHANGED <<queue, HandLine, HeldLine, processed>>
  BY DEF Driver, DriverFindsSize, DriverConsumes, DriverParses, DriverDecodes,
     application, decodeVars, captureVars, HandLine, HeldLine
<1>2. CASE DriverFindsSize
  <2>1. UNCHANGED <<filled, out_queue>>
    BY <1>2 DEF DriverFindsSize, outVars, capVars
  <2>2. Drops(Lines, Lines')
    BY <1>1, <2>1, LinesDropped
  <2> QED BY <2>2 DEF Advances
<1>3. CASE DriverParses \/ DriverDecodes
  <2>1. /\ out_queue # <<>> /\ out_queue' = Tail(out_queue)
    BY <1>3 DEF DriverParses, DriverDecodes, DriverConsumes
  <2>2. \A r \in OutEntry : r.packet \in Packets
    BY DEF OutEntry
  <2>3. /\ PacketsOf(out_queue) # <<>>
        /\ Head(PacketsOf(out_queue)) = HeadPacket(out_queue)
        /\ PacketsOf(out_queue)' = Tail(PacketsOf(out_queue))
    BY <2>1, <2>2, PacketsOfFacts DEF DataInv, OutPlane, HeadPacket
  <2>4. CASE DriverParses
    <3>1. UNCHANGED filled
      BY <2>4 DEF DriverParses, capVars
    <3>2. /\ Lines[4] # <<>> /\ Lines'[4] = Tail(Lines[4])
          /\ \A l \in 1..6 : l # 4 => Lines'[l] = Lines[l]
      BY <1>1, <2>3, <3>1 DEF Lines
    <3>3. Drops(Lines, Lines')
      BY <3>2 DEF Drops
    <3> QED BY <3>3 DEF Advances
  <2>5. CASE DriverDecodes
    <3>1. PICK fd \in empty :
            filled' = Append(filled, [fd |-> fd, packet |-> HeadPacket(out_queue),
                                      size |-> stream_size])
      BY <2>5 DEF DriverDecodes
    <3>2. /\ HeadPacket(out_queue) \in Packets /\ stream_size \in Resolutions
      BY <2>1, <2>5, HeadDecoded DEF DriverDecodes, DriverConsumes
    <3>3. /\ [fd |-> fd, packet |-> HeadPacket(out_queue), size |-> stream_size] \in Frames
          /\ \A r \in Frames : r.packet \in Packets
      BY <3>2 DEF Frames, DataInv, CapPlane
    <3>4. PacketsOf(filled)' = Append(PacketsOf(filled), HeadPacket(out_queue))
      BY <3>1, <3>3, PacketsOfFacts DEF DataInv, CapPlane
    <3>5. MovesUp(Lines, Lines', 3)
      BY <1>1, <2>3, <3>4 DEF MovesUp, Lines
    <3> QED BY <3>5 DEF Advances
  <2> QED BY <1>3, <2>4, <2>5
<1> QED BY <1>2, <1>3 DEF Driver

LEMMA OwnerAdvances == Owner => Advances
<1> SUFFICES ASSUME Owner PROVE Advances
  OBVIOUS
<1>1. /\ UNCHANGED <<queue, processed>>
      /\ filled' \in {filled, <<>>} /\ out_queue' \in {out_queue, <<>>}
  BY DEF Owner, InitDecoder, Start, Stop, StopSteps, StopStore, JoinDecode,
     JoinCapture, Release, StopOutput, DeallocateCaptureBuffers, Exchange, others,
     captureVars, capVars, outVars
<1>2. HeldLine' \in {HeldLine, <<>>} /\ HandLine' \in {HandLine, <<>>}
  BY DEF Owner, InitDecoder, Start, Stop, StopSteps, StopStore, JoinDecode,
     JoinCapture, Release, others, captureVars, decodeVars, HeldLine, HandLine
<1> QED BY <1>1, <1>2, LinesDropped DEF Advances

(* x was fed before y.                                                     *)
Earlier(f, x, y) ==
  \E m, n \in DOMAIN f : m < n /\ f[m] = x /\ f[n] = y

FedBefore(f) == {xy \in Packets \X Packets : Earlier(f, xy[1], xy[2])}

OrderInv == InLine(Fed, FedBefore(fed), Lines)

LEMMA OrderStep ==
  DataInv /\ OrderInv /\ [Next]_vars => OrderInv'
<1> SUFFICES ASSUME DataInv, OrderInv, [Next]_vars PROVE OrderInv'
  OBVIOUS
<1>1. CASE DecodeThread \/ CaptureThread \/ Driver \/ Owner
  <2>1. Advances
    BY <1>1, DecodeAdvances, CaptureAdvances, DriverAdvances, OwnerAdvances
  <2>2. fed' = fed
    BY <1>1 DEF DecodeThread, DecodeLoop, Pop, PopRefused, NthBuffer, DequeueOutput,
       DequeueOutputFails, RejectPacket, QueueOutput, QueueOutputFails, Decoding,
       CaptureThread, FirstLoop, FirstNoEvent, FirstEventFails, FirstEvent,
       FirstAllocationFails, CaptureLoop, HandleResolutionChange, NoEvent,
       DequeueCapture, DequeueCaptureFails, Process, Requeue, RequeueFails, Capturing,
       Driver, DriverFindsSize, DriverConsumes, DriverParses, DriverDecodes, application,
       Owner, InitDecoder, Start, Stop, StopSteps, StopStore, JoinDecode, JoinCapture,
       Release, others
  <2>3. InLine(Fed, FedBefore(fed), Lines')
    BY <2>1, AdvanceKeepsLines DEF OrderInv
  <2> QED BY <2>2, <2>3 DEF OrderInv, Fed
<1>2. CASE Feed
  <2>1. PICK p \in Packets : queue' = Append(queue, p) /\ fed' = Append(fed, p)
    BY <1>2 DEF Feed
  <2>2. UNCHANGED <<processed, HeldLine, HandLine, filled, out_queue>>
    BY <1>2 DEF Feed, decoder, captureVars, decodeVars, capVars, outVars, HeldLine,
       HandLine
  <2>3. Lines'[6] = Append(Lines[6], p) /\ \A l \in 1..5 : Lines'[l] = Lines[l]
    BY <2>1, <2>2 DEF Lines
  <2>4. /\ Len(fed) \in Nat /\ DOMAIN fed = 1..Len(fed) /\ DOMAIN fed' = 1..(Len(fed) + 1)
        /\ fed'[Len(fed) + 1] = p /\ \A m \in 1..Len(fed) : fed'[m] = fed[m]
        /\ \A m \in 1..Len(fed) : fed[m] \in Packets
    BY <2>1, AppendOf DEF DataInv, Decoded
  <2>5. p \in Fed' /\ Fed \subseteq Fed' /\ Fed \subseteq Packets
    BY <2>4 DEF Fed
  <2>6. FedBefore(fed) \subseteq FedBefore(fed)'
    BY <2>4 DEF FedBefore, Earlier
  <2>7. \A x \in Fed : <<x, p>> \in FedBefore(fed)'
    BY <2>4, <2>5 DEF Fed, FedBefore, Earlier
  <2> QED BY <2>3, <2>5, <2>6, <2>7, LinesTyped, FeedKeepsLines DEF OrderInv
<1>3. CASE AbortQueue \/ UNCHANGED vars
  <2>1. UNCHANGED <<fed, Lines>>
    BY <1>3 DEF AbortQueue, decoder, vars, captureVars, decodeVars, capVars, outVars,
       Lines, HeldLine, HandLine
  <2> QED BY <2>1 DEF OrderInv, Fed
<1> QED BY <1>1, <1>2, <1>3 DEF Next

(* Frames reach the processor in the order of their packets, none twice.   *)
THEOREM InOrderCorrect == SafeSpec => []InOrder
<1>1. Init => OrderInv
  BY LinesEmpty DEF OrderInv
<1>2. OrderInv /\ DataInv => InOrder
  <2> SUFFICES ASSUME OrderInv, DataInv, NEW i \in DOMAIN processed,
                      NEW j \in DOMAIN processed, i < j
               PROVE  Earlier(fed, processed[i], processed[j])
    BY DEF InOrder, Earlier
  <2>1. Lines[1] = processed /\ i \in 1..Len(processed) /\ j \in 1..Len(processed)
    BY DEF Lines, DataInv, Captured
  <2>2. <<processed[i], processed[j]>> \in FedBefore(fed)
    BY <2>1 DEF OrderInv, InLine
  <2> QED BY <2>2 DEF FedBefore
<1> QED BY <1>1, <1>2, OrderStep, Data, PTL DEF SafeSpec

(* Packets without a frame, parameter sets for instance, end in the        *)
(* driver: the capture side has none.                                      *)
Framed ==
  /\ \A i \in 1..Len(processed) : HasFrame(processed[i])
  /\ held # NoFrame => HasFrame(held.packet)
  /\ \A i \in 1..Len(filled) : HasFrame(filled[i].packet)

LEMMA FramedInit == Init => Framed
<1> SUFFICES ASSUME Init PROVE Framed
  OBVIOUS
<1>1. Len(processed) = 0 /\ held = NoFrame /\ Len(filled) = 0
  BY DEF Init
<1> QED BY <1>1 DEF Framed

LEMMA FramedStep == DataInv /\ Framed /\ [Next]_vars => Framed'
<1> SUFFICES ASSUME DataInv, Framed, [Next]_vars PROVE Framed'
  OBVIOUS
<1>1. filled \in Seq(Frames) /\ processed \in Seq(Packets)
  BY DEF DataInv, CapPlane, Captured
<1>2. CASE DequeueCapture
  <2>1. filled # <<>> /\ held' = Head(filled) /\ filled' = Tail(filled) /\ processed' = processed
    BY <1>2 DEF DequeueCapture
  <2>2. /\ held' = filled[1] /\ 1 \in 1..Len(filled)
        /\ \A i \in 1..Len(filled') : i + 1 \in 1..Len(filled) /\ filled'[i] = filled[i + 1]
    BY <1>1, <2>1, TailOf
  <2> QED BY <2>1, <2>2 DEF Framed
<1>3. CASE Process
  <2>1. processed' = Append(processed, held.packet) /\ UNCHANGED <<held, filled>>
    BY <1>3 DEF Process, capVars
  <2>2. held # NoFrame /\ held.packet \in Packets
    BY <1>3 DEF Process, Capturing, DataInv, Captured, Frames
  <2>3. \A i \in 1..Len(processed') :
          \/ i \in 1..Len(processed) /\ processed'[i] = processed[i]
          \/ processed'[i] = held.packet
    BY <1>1, <2>1, <2>2, AppendOf
  <2> QED BY <2>1, <2>2, <2>3 DEF Framed
<1>4. CASE DriverDecodes
  <2>1. PICK fd \in empty :
          filled' = Append(filled, [fd |-> fd, packet |-> HeadPacket(out_queue),
                                    size |-> stream_size])
    BY <1>4 DEF DriverDecodes
  <2> DEFINE f == [fd |-> fd, packet |-> HeadPacket(out_queue), size |-> stream_size]
  <2>2. HasFrame(HeadPacket(out_queue)) /\ UNCHANGED <<held, processed>>
    BY <1>4 DEF DriverDecodes, DriverConsumes, application, captureVars
  <2>3. HeadPacket(out_queue) \in Packets /\ stream_size \in Resolutions
    BY <1>4, HeadDecoded DEF DriverDecodes, DriverConsumes
  <2>4. f \in Frames /\ f.packet = HeadPacket(out_queue)
    BY <2>3 DEF Frames, DataInv, CapPlane
  <2> HIDE DEF f
  <2>5. \A i \in 1..Len(filled') :
          \/ i \in 1..Len(filled) /\ filled'[i] = filled[i]
          \/ filled'[i] = f
    BY <1>1, <2>1, <2>4, AppendOf DEF f
  <2> QED BY <2>2, <2>4, <2>5 DEF Framed
<1>5. CASE ~DequeueCapture /\ ~Process /\ ~DriverDecodes
  <2>1. /\ processed' = processed
        /\ held' \in {held, NoFrame}
        /\ filled' \in {filled, <<>>}
    BY <1>5 DEF Next, DecodeThread, DecodeLoop, Pop, PopRefused, NthBuffer, DequeueOutput,
       DequeueOutputFails, RejectPacket, QueueOutput, QueueOutputFails, Decoding,
       CaptureThread, FirstLoop, FirstNoEvent, FirstEventFails, FirstEvent,
       FirstAllocationFails, CaptureLoop, HandleResolutionChange, NoEvent,
       DequeueCaptureFails, Requeue, RequeueFails, Capturing,
       AllocateCaptureBuffers, AllocationFails, Exchange,
       Driver, DriverFindsSize, DriverConsumes, DriverParses, application,
       Owner, InitDecoder, Start, Stop, StopSteps, StopStore, JoinDecode, JoinCapture,
       Release, DeallocateCaptureBuffers, others, Feed, AbortQueue, decoder,
       captureVars, capVars, vars
  <2>2. Len(<<>>) = 0
    OBVIOUS
  <2> QED BY <2>1, <2>2 DEF Framed
<1> QED BY <1>2, <1>3, <1>4, <1>5

-----------------------------------------------------------------------------
(* The buffers of the output plane while it streams, when no packet is     *)
(* rejected and no call fails.                                             *)

NoneLost == ~MayFail /\ \A p \in Packets : ~Rejected(p)

(* No buffer is in two places.                                             *)
Once ==
  /\ \A i, j \in 1..Len(out_queue) : out_queue[i].buffer = out_queue[j].buffer => i = j
  /\ \A i, j \in 1..Len(out_done) : out_done[i] = out_done[j] => i = j
  /\ \A i \in 1..Len(out_queue), j \in 1..Len(out_done) : out_queue[i].buffer # out_done[j]
  /\ \A i \in 1..Len(out_queue) : out_queue[i].buffer # buffer
  /\ \A j \in 1..Len(out_done) : out_done[j] # buffer

(* Those the decode thread has begun to use are all there is.              *)
Begun ==
  decode_pc # "none" =>
    /\ \A i \in 1..Len(out_queue) : out_queue[i].buffer <= index
    /\ \A j \in 1..Len(out_done) : out_done[j] <= index
    /\ buffer <= index

Kept ==
  decode_pc # "none" =>
    \A b \in 1..index : \/ b = buffer
                        \/ \E i \in 1..Len(out_queue) : out_queue[i].buffer = b
                        \/ \E j \in 1..Len(out_done) : out_done[j] = b

(* What a stopped decoder leaves to the next Start.                        *)
Cleared ==
  decode_pc = "none" /\ owner \notin {"join capture", "release"}
    => out_queue = <<>> /\ out_done = <<>>

InHand == decode_pc # "fill" => buffer = NoBuffer

OutNow == Once /\ Begun /\ Kept /\ Cleared /\ InHand

OutInv == out_streaming \/ owner = "new" => OutNow

LEMMA OutInit == Init => OutInv
<1> SUFFICES ASSUME Init PROVE OutInv
  OBVIOUS
<1>1. Len(out_queue) = 0 /\ Len(out_done) = 0 /\ decode_pc = "none" /\ buffer = NoBuffer
      /\ out_queue = <<>> /\ out_done = <<>>
  BY DEF Init
<1> QED BY <1>1 DEF OutInv, OutNow, Once, Begun, Kept, Cleared, InHand

(* Nothing but the places of the threads changes.                          *)
LEMMA OutUntouched ==
  ASSUME OutNow, UNCHANGED <<out_queue, out_done, buffer, index>>,
         decode_pc = "none" => decode_pc' = "none",
         decode_pc' = "none" => decode_pc = "none" \/ owner' = "join capture",
         decode_pc = "fill" <=> decode_pc' = "fill",
         owner \in {"join capture", "release"} => owner' \in {"join capture", "release"}
  PROVE  OutNow'
<1>1. Once' /\ InHand'
  BY DEF OutNow, Once, InHand
<1>2. Begun' /\ Kept'
  BY DEF OutNow, Begun, Kept
<1>3. Cleared'
  BY DEF OutNow, Cleared
<1> QED BY <1>1, <1>2, <1>3 DEF OutNow

LEMMA OutDecode ==
  ASSUME NoneLost, DataInv, OutNow, DecodeThread
  PROVE  OutNow'
<1>1. /\ decode_pc # "none" /\ decode_pc' # "none" /\ UNCHANGED owner
  BY DEF DecodeThread, DecodeLoop, Pop, PopRefused, NthBuffer, DequeueOutput,
     DequeueOutputFails, RejectPacket, QueueOutput, QueueOutputFails, Decoding, ownerVars
<1>2. /\ out_queue \in Seq(OutEntry) /\ out_done \in Seq(OutBuffers)
      /\ Len(out_queue) \in Nat /\ Len(out_done) \in Nat
      /\ index \in Nat /\ buffer \in Nat
      /\ \A i \in 1..Len(out_queue) : out_queue[i].buffer \in OutBuffers
      /\ \A j \in 1..Len(out_done) : out_done[j] \in OutBuffers
      /\ NumOutput \in Nat
  <2>1. NumOutput \in Nat /\ OutBuffers \subseteq Nat
    BY DecoderAssumption DEF OutBuffers
  <2>2. buffer \in Nat /\ index \in Nat
    BY <2>1 DEF DataInv, Counters, Decoded, NoBuffer
  <2>3. out_queue \in Seq(OutEntry) /\ out_done \in Seq(OutBuffers)
    BY DEF DataInv, OutPlane
  <2>4. \A i \in 1..Len(out_queue) : out_queue[i] \in OutEntry
    BY <2>3
  <2> QED BY <2>1, <2>2, <2>3, <2>4 DEF OutEntry
<1>3. CASE DecodeLoop \/ Pop \/ PopRefused \/ DequeueOutputFails
  <2>1. /\ UNCHANGED <<out_queue, out_done, buffer, index>>
        /\ decode_pc # "fill" /\ decode_pc' # "fill"
    BY <1>3 DEF DecodeLoop, Pop, PopRefused, DequeueOutputFails, Decoding, outVars
  <2> QED BY <1>1, <2>1, OutUntouched
<1>4. CASE NthBuffer
  <2>1. /\ decode_pc = "buffer" /\ decode_pc' = "fill" /\ index' = index + 1
        /\ buffer' = index + 1 /\ UNCHANGED <<out_queue, out_done>>
        /\ buffer = NoBuffer
    BY <1>4 DEF NthBuffer, Decoding, outVars, OutNow, InHand
  <2>2. /\ \A i \in 1..Len(out_queue) : out_queue[i].buffer <= index
        /\ \A j \in 1..Len(out_done) : out_done[j] <= index
    BY <1>1 DEF OutNow, Begun
  <2>3. Once'
    BY <1>2, <2>1, <2>2 DEF OutNow, Once, OutBuffers
  <2>4. Begun'
    <3>1. index <= index + 1 /\ \A n \in Nat : n <= index => n <= index + 1
      BY <1>2
    <3>2. OutBuffers \subseteq Nat
      BY <1>2 DEF OutBuffers
    <3>3. \A i \in 1..Len(out_queue) : out_queue[i].buffer <= index + 1
      BY <1>2, <2>2, <3>1, <3>2
    <3>4. \A j \in 1..Len(out_done) : out_done[j] <= index + 1
      BY <1>2, <2>2, <3>1, <3>2
    <3>5. index + 1 <= index + 1
      BY <1>2
    <3> QED BY <2>1, <3>3, <3>4, <3>5 DEF Begun
  <2>5. Kept'
    <3> SUFFICES ASSUME NEW b \in 1..(index + 1)
                 PROVE  \/ b = buffer'
                        \/ \E i \in 1..Len(out_queue) : out_queue[i].buffer = b
                        \/ \E j \in 1..Len(out_done) : out_done[j] = b
      BY <2>1 DEF Kept
    <3>1. b = index + 1 \/ b \in 1..index
      BY <1>2
    <3> QED BY <1>1, <2>1, <3>1 DEF OutNow, Kept, NoBuffer
  <2> QED BY <2>1, <2>3, <2>4, <2>5 DEF OutNow, Cleared, InHand
<1>5. CASE DequeueOutput
  <2>1. /\ decode_pc = "buffer" /\ decode_pc' = "fill" /\ out_done # <<>>
        /\ buffer' = Head(out_done) /\ out_done' = Tail(out_done)
        /\ UNCHANGED <<out_queue, index>> /\ buffer = NoBuffer
    BY <1>5 DEF DequeueOutput, Decoding, OutNow, InHand
  <2>2. /\ Len(out_done') = Len(out_done) - 1 /\ Len(out_done) > 0
        /\ buffer' = out_done[1] /\ out_done[1] \in OutBuffers
        /\ \A i \in 1..Len(out_done) - 1 : out_done'[i] = out_done[i + 1]
    BY <1>2, <2>1, TailOf
  <2>3. Once'
    BY <1>2, <2>1, <2>2 DEF OutNow, Once
  <2>4. Begun'
    BY <1>1, <1>2, <2>1, <2>2 DEF OutNow, Begun
  <2>5. Kept'
    <3> SUFFICES ASSUME NEW b \in 1..index
                 PROVE  \/ b = buffer'
                        \/ \E i \in 1..Len(out_queue) : out_queue[i].buffer = b
                        \/ \E j \in 1..Len(out_done') : out_done'[j] = b
      BY <2>1 DEF Kept
    <3>1. ASSUME NEW j \in 1..Len(out_done), out_done[j] = b
          PROVE  b = buffer' \/ \E h \in 1..Len(out_done') : out_done'[h] = b
      <4>1. CASE j = 1
        BY <3>1, <4>1, <2>2
      <4>2. CASE j # 1
        <5>1. j - 1 \in 1..Len(out_done) - 1 /\ (j - 1) + 1 = j
          BY <1>2, <4>2
        <5> QED BY <3>1, <5>1, <2>2
      <4> QED BY <4>1, <4>2
    <3> QED BY <1>1, <2>1, <3>1 DEF OutNow, Kept, NoBuffer
  <2> QED BY <2>1, <2>3, <2>4, <2>5 DEF OutNow, Cleared, InHand
<1>6. CASE QueueOutput
  <2> DEFINE e == [buffer |-> buffer, packet |-> packet]
  <2>1. /\ decode_pc = "fill" /\ decode_pc' = "loop" /\ buffer' = NoBuffer
        /\ out_queue' = Append(out_queue, e) /\ UNCHANGED <<out_done, index>>
    BY <1>6 DEF QueueOutput, Decoding
  <2>2. e \in OutEntry /\ e.buffer = buffer /\ buffer \in OutBuffers
    BY <2>1 DEF DataInv, Decoded, OutEntry
  <2>3. /\ Len(out_queue') = Len(out_queue) + 1
        /\ out_queue'[Len(out_queue) + 1].buffer = buffer
        /\ \A i \in 1..Len(out_queue) : out_queue'[i].buffer = out_queue[i].buffer
    BY <1>2, <2>1, <2>2, AppendOf
  <2>4. \A i \in 1..Len(out_queue') :
          i \in 1..Len(out_queue) \/ i = Len(out_queue) + 1
    BY <1>2, <2>3
  <2> HIDE DEF e
  <2>5. Once'
    <3>1. \A i, j \in 1..Len(out_queue') :
            out_queue'[i].buffer = out_queue'[j].buffer => i = j
      BY <2>3, <2>4 DEF OutNow, Once
    <3>2. \A i \in 1..Len(out_queue'), j \in 1..Len(out_done) :
            out_queue'[i].buffer # out_done[j]
      BY <2>3, <2>4 DEF OutNow, Once
    <3>3. /\ \A i \in 1..Len(out_queue') : out_queue'[i].buffer # buffer'
          /\ \A j \in 1..Len(out_done) : out_done[j] # buffer'
      BY <1>2, <2>1, <2>2, <2>3, <2>4 DEF OutBuffers, NoBuffer
    <3> QED BY <2>1, <3>1, <3>2, <3>3 DEF OutNow, Once
  <2>6. Begun'
    BY <1>1, <1>2, <2>1, <2>3, <2>4 DEF OutNow, Begun, NoBuffer
  <2>7. Kept'
    <3> SUFFICES ASSUME NEW b \in 1..index
                 PROVE  \/ \E i \in 1..Len(out_queue') : out_queue'[i].buffer = b
                        \/ \E j \in 1..Len(out_done) : out_done[j] = b
      BY <2>1 DEF Kept
    <3>1. CASE b = buffer
      <4>1. Len(out_queue) + 1 \in 1..Len(out_queue')
        BY <1>2, <2>3
      <4> QED BY <3>1, <4>1, <2>3
    <3>2. ASSUME NEW i \in 1..Len(out_queue), out_queue[i].buffer = b
          PROVE  i \in 1..Len(out_queue') /\ out_queue'[i].buffer = b
      BY <1>2, <2>3, <3>2
    <3> QED BY <1>1, <3>1, <3>2 DEF OutNow, Kept
  <2> QED BY <2>1, <2>5, <2>6, <2>7 DEF OutNow, Cleared, InHand
<1>7. ~RejectPacket /\ ~QueueOutputFails
  BY DEF NoneLost, RejectPacket, QueueOutputFails, Decoding, DataInv, Decoded
<1> QED BY <1>3, <1>4, <1>5, <1>6, <1>7 DEF DecodeThread

(* The driver is done with the first of its buffers.                       *)
LEMMA OutDriver ==
  ASSUME DataInv, OutNow, Driver
  PROVE  OutNow'
<1>1. UNCHANGED <<decode_pc, owner, buffer, index>>
  BY DEF Driver, DriverFindsSize, DriverConsumes, DriverParses, DriverDecodes,
     application, decodeVars, ownerVars
<1>2. CASE DriverFindsSize
  BY <1>1, <1>2, OutUntouched DEF DriverFindsSize, outVars
<1>3. CASE DriverConsumes
  <2> DEFINE c == Head(out_queue).buffer
  <2>1. /\ out_queue # <<>> /\ out_queue' = Tail(out_queue)
        /\ out_done' = Append(out_done, c)
    BY <1>3 DEF DriverConsumes
  <2>2. c \in OutBuffers
    BY <2>1, HeadDecoded
  <2>3. /\ out_queue \in Seq(OutEntry) /\ out_done \in Seq(OutBuffers)
        /\ index \in Nat /\ buffer \in Nat
    BY DecoderAssumption DEF DataInv, OutPlane, Counters, Decoded, OutBuffers, NoBuffer
  <2>4. /\ Len(out_queue) \in Nat /\ Len(out_queue) > 0
        /\ Len(out_queue') = Len(out_queue) - 1 /\ c = out_queue[1].buffer
        /\ \A i \in 1..Len(out_queue) - 1 : out_queue'[i] = out_queue[i + 1]
    BY <2>1, <2>3, TailOf
  <2>5. /\ Len(out_done) \in Nat /\ Len(out_done') = Len(out_done) + 1
        /\ out_done'[Len(out_done) + 1] = c
        /\ \A j \in 1..Len(out_done) : out_done'[j] = out_done[j]
    BY <2>1, <2>2, <2>3, AppendOf
  <2> HIDE DEF c
  <2>6. \A i \in 1..Len(out_queue') :
          /\ i + 1 \in 1..Len(out_queue) /\ i + 1 # 1
          /\ out_queue'[i].buffer = out_queue[i + 1].buffer
    BY <2>4
  <2>7. \A j \in 1..Len(out_done') :
          \/ j \in 1..Len(out_done) /\ out_done'[j] = out_done[j]
          \/ j = Len(out_done) + 1 /\ out_done'[j] = c
    BY <2>5
  <2>8. 1 \in 1..Len(out_queue)
    BY <2>4
  <2>9. Once'
    <3>1. \A i, j \in 1..Len(out_queue') :
            out_queue'[i].buffer = out_queue'[j].buffer => i = j
      <4> SUFFICES ASSUME NEW i \in 1..Len(out_queue'), NEW j \in 1..Len(out_queue'),
                          out_queue'[i].buffer = out_queue'[j].buffer
                   PROVE  i = j
        OBVIOUS
      <4>1. i + 1 = j + 1
        BY <2>6 DEF OutNow, Once
      <4> QED BY <4>1
    <3>2. \A i, j \in 1..Len(out_done') : out_done'[i] = out_done'[j] => i = j
      BY <2>4, <2>7, <2>8 DEF OutNow, Once
    <3>3. \A i \in 1..Len(out_queue'), j \in 1..Len(out_done') :
            out_queue'[i].buffer # out_done'[j]
      BY <2>4, <2>6, <2>7, <2>8 DEF OutNow, Once
    <3>4. /\ \A i \in 1..Len(out_queue') : out_queue'[i].buffer # buffer
          /\ \A j \in 1..Len(out_done') : out_done'[j] # buffer
      <4>1. c # buffer
        BY <2>4, <2>8 DEF OutNow, Once
      <4>2. \A i \in 1..Len(out_queue') : out_queue'[i].buffer # buffer
        BY <2>6 DEF OutNow, Once
      <4> QED BY <4>1, <4>2, <2>7 DEF OutNow, Once
    <3> QED BY <1>1, <3>1, <3>2, <3>3, <3>4 DEF Once
  <2>10. Begun'
    BY <1>1, <2>4, <2>6, <2>7, <2>8 DEF OutNow, Begun
  <2>11. Kept'
    <3> SUFFICES ASSUME decode_pc # "none", NEW b \in 1..index
                 PROVE  \/ b = buffer
                        \/ \E i \in 1..Len(out_queue') : out_queue'[i].buffer = b
                        \/ \E j \in 1..Len(out_done') : out_done'[j] = b
      BY <1>1 DEF Kept
    <3>1. ASSUME NEW i \in 1..Len(out_queue), out_queue[i].buffer = b
          PROVE  \/ \E h \in 1..Len(out_queue') : out_queue'[h].buffer = b
                 \/ \E j \in 1..Len(out_done') : out_done'[j] = b
      <4>1. CASE i = 1
        <5>1. Len(out_done) + 1 \in 1..Len(out_done')
          BY <2>5
        <5> QED BY <3>1, <4>1, <5>1, <2>4, <2>5
      <4>2. CASE i # 1
        <5>1. i - 1 \in 1..Len(out_queue') /\ (i - 1) + 1 = i
          BY <2>4, <4>2
        <5> QED BY <3>1, <5>1, <2>6
      <4> QED BY <4>1, <4>2
    <3>2. ASSUME NEW j \in 1..Len(out_done), out_done[j] = b
          PROVE  j \in 1..Len(out_done') /\ out_done'[j] = b
      BY <2>5, <3>2
    <3> QED BY <3>1, <3>2 DEF OutNow, Kept
  <2>12. Cleared' /\ InHand'
    BY <1>1, <2>1 DEF OutNow, Cleared, InHand
  <2> QED BY <2>9, <2>10, <2>11, <2>12 DEF OutNow
<1> QED BY <1>2, <1>3 DEF Driver, DriverParses, DriverDecodes

LEMMA OutOwner ==
  ASSUME NoneLost, ControlInv, OutNow, Owner, out_streaming' \/ owner' = "new"
  PROVE  OutNow'
<1>1. CASE InitDecoder \/ Stop(TRUE) \/ Stop(FALSE) \/ StopStore \/ JoinDecode \/ JoinCapture
  <2>1. /\ UNCHANGED <<out_queue, out_done, buffer, index>>
        /\ \/ decode_pc' = decode_pc
           \/ decode_pc = "ended" /\ decode_pc' = "none" /\ owner' = "join capture"
        /\ owner \in {"join capture", "release"} => owner' = "release"
    <3>1. CASE InitDecoder \/ Stop(TRUE) \/ Stop(FALSE) \/ StopStore
      <4>1. UNCHANGED <<out_queue, out_done, decode_pc, buffer, index>>
        BY <3>1 DEF InitDecoder, Stop, StopStore, outVars, decodeVars
      <4>2. owner \notin {"join capture", "release"}
        BY <3>1 DEF InitDecoder, Stop, StopStore
      <4> QED BY <4>1, <4>2
    <3>2. CASE JoinDecode
      BY <3>2 DEF JoinDecode, outVars
    <3>3. CASE JoinCapture
      <4>1. /\ UNCHANGED <<out_queue, out_done, decode_pc, buffer, index>>
            /\ owner' = "release"
        BY <3>3 DEF JoinCapture, decodeVars, outVars
      <4> QED BY <4>1
    <3> QED BY <1>1, <3>1, <3>2, <3>3
  <2> QED BY <2>1, OutUntouched
<1>2. CASE Start
  <2>1. /\ owner = "idle" /\ decode_pc = "none"
        /\ index' = 0 /\ buffer' = NoBuffer /\ decode_pc' = "loop"
        /\ UNCHANGED <<out_queue, out_done>>
    BY <1>2 DEF Start, outVars, ControlInv, Threads, Stopped
  <2>2. Len(out_queue) = 0 /\ Len(out_done) = 0
    BY <2>1 DEF OutNow, Cleared
  <2> QED BY <2>1, <2>2 DEF OutNow, Once, Begun, Kept, Cleared, InHand, NoBuffer
<1>3. ~Release
  BY DEF NoneLost, Release, StopOutput, AfterStop
<1> QED BY <1>1, <1>2, <1>3 DEF Owner, StopSteps

(* Only Init, the first call, switches the plane on.                       *)
LEMMA OutStreams ==
  ASSUME [Next]_vars, out_streaming' \/ owner' = "new"
  PROVE  out_streaming \/ owner = "new"
<1>1. CASE DecodeThread
  BY <1>1 DEF DecodeThread, DecodeLoop, Pop, PopRefused, NthBuffer, DequeueOutput,
     DequeueOutputFails, RejectPacket, QueueOutput, QueueOutputFails, Decoding, outVars,
     ownerVars
<1>2. CASE CaptureThread
  BY <1>2 DEF CaptureThread, FirstLoop, FirstNoEvent, FirstEventFails, FirstEvent,
     FirstAllocationFails, CaptureLoop, HandleResolutionChange, NoEvent,
     DequeueCapture, DequeueCaptureFails, Process, Requeue, RequeueFails, Capturing,
     outVars, ownerVars
<1>3. CASE Driver \/ Feed \/ AbortQueue \/ UNCHANGED vars
  BY <1>3 DEF Driver, DriverFindsSize, DriverConsumes, DriverParses, DriverDecodes,
     application, Feed, AbortQueue, decoder, vars, outVars, ownerVars
<1>4. CASE Owner
  <2>1. CASE InitDecoder
    BY <2>1 DEF InitDecoder
  <2>2. CASE ~InitDecoder
    <3>1. owner' # "new" \/ UNCHANGED owner
      BY <1>4, <2>2 DEF Owner, Start, Stop, StopSteps, StopStore, JoinDecode, JoinCapture,
         Release, AfterStop, ownerVars
    <3>2. out_streaming' = out_streaming \/ out_streaming' = FALSE
      BY <1>4, <2>2 DEF Owner, Start, Stop, StopSteps, StopStore, JoinDecode, JoinCapture,
         Release, StopOutput, outVars
    <3> QED BY <3>1, <3>2
  <2> QED BY <2>1, <2>2
<1> QED BY <1>1, <1>2, <1>3, <1>4 DEF Next

LEMMA OutStep ==
  ASSUME NoneLost, DataInv, ControlInv, OutInv, [Next]_vars
  PROVE  OutInv'
<1> SUFFICES ASSUME out_streaming' \/ owner' = "new" PROVE OutNow'
  BY DEF OutInv
<1>1. OutNow
  BY OutStreams DEF OutInv
<1>2. CASE CaptureThread \/ Feed \/ AbortQueue \/ UNCHANGED vars
  <2>1. UNCHANGED <<out_queue, out_done, buffer, index, decode_pc, owner>>
    BY <1>2 DEF CaptureThread, FirstLoop, FirstNoEvent, FirstEventFails, FirstEvent,
       FirstAllocationFails, CaptureLoop, HandleResolutionChange, NoEvent,
       DequeueCapture, DequeueCaptureFails, Process, Requeue, RequeueFails, Capturing,
       Feed, AbortQueue, decoder, vars, decodeVars, outVars, ownerVars
  <2> QED BY <1>1, <2>1, OutUntouched
<1> QED BY <1>1, <1>2, OutDecode, OutDriver, OutOwner DEF Next

(* The positions of a buffer are one, or none.                             *)
LEMMA AtMostOne ==
  ASSUME NEW S, \A x, y \in S : x = y
  PROVE  /\ S = {} => Cardinality(S) = 0
         /\ S # {} => Cardinality(S) = 1
<1>1. CASE S = {}
  BY <1>1, FS_EmptySet
<1>2. CASE S # {}
  <2>1. PICK x \in S : TRUE
    BY <1>2
  <2>2. S = {x}
    BY <2>1
  <2> QED BY <2>2, <1>2, FS_Singleton
<1> QED BY <1>1, <1>2

LEMMA OnceIsOwnedOnce == OutInv /\ DataInv => OutputOwnedOnce
<1> SUFFICES ASSUME OutInv, DataInv, NEW b \in OutBuffers, out_streaming
             PROVE  LET owners == Cardinality({i \in DOMAIN out_queue : out_queue[i].buffer = b})
                                    + Cardinality(Positions(out_done, b))
                                    + (IF buffer = b THEN 1 ELSE 0)
                    IN  /\ owners <= 1
                        /\ decode_pc # "none" /\ b <= index => owners = 1
  BY DEF OutputOwnedOnce
<1> DEFINE Q == {i \in DOMAIN out_queue : out_queue[i].buffer = b}
           R == Positions(out_done, b)
<1>1. DOMAIN out_queue = 1..Len(out_queue) /\ DOMAIN out_done = 1..Len(out_done)
  BY DEF DataInv, OutPlane
<1>2. \A i, j \in Q : i = j
  BY <1>1 DEF OutInv, OutNow, Once
<1>3. \A i, j \in R : i = j
  BY <1>1 DEF OutInv, OutNow, Once, Positions
<1>4. /\ Q = {} \/ R = {}
      /\ buffer = b => Q = {} /\ R = {}
  BY <1>1 DEF OutInv, OutNow, Once, Positions
<1>5. decode_pc # "none" /\ b <= index => buffer = b \/ Q # {} \/ R # {}
  <2> SUFFICES ASSUME decode_pc # "none", b <= index
               PROVE  buffer = b \/ Q # {} \/ R # {}
    OBVIOUS
  <2>1. b \in 1..index
    BY DecoderAssumption DEF OutBuffers, DataInv, Counters
  <2> QED BY <1>1, <2>1 DEF OutInv, OutNow, Kept, Positions
<1>6. /\ Q = {} => Cardinality(Q) = 0
      /\ Q # {} => Cardinality(Q) = 1
  BY <1>2, AtMostOne
<1>7. /\ R = {} => Cardinality(R) = 0
      /\ R # {} => Cardinality(R) = 1
  BY <1>3, AtMostOne
<1> HIDE DEF Q, R
<1>8. LET owners == Cardinality(Q) + Cardinality(R) + (IF buffer = b THEN 1 ELSE 0)
      IN  /\ owners <= 1
          /\ decode_pc # "none" /\ b <= index => owners = 1
  BY <1>4, <1>5, <1>6, <1>7
<1> QED BY <1>8 DEF Q, R

(* While the output plane streams a buffer of it is in one place, and one  *)
(* that the decode thread has begun to use is in some place, as long as no *)
(* packet is rejected and no later call than Init's fails: RejectPacket    *)
(* and QueueOutputFails lose one each.                                     *)
THEOREM OutputOwnedOnceCorrect ==
  ASSUME NoneLost
  PROVE  SafeSpec => []OutputOwnedOnce
<1>1. OutInv /\ DataInv /\ ControlInv /\ [Next]_vars => OutInv'
  BY OutStep
<1> QED BY <1>1, OutInit, OnceIsOwnedOnce, Control, Data, PTL DEF SafeSpec
=============================================================================
