-------------------------- MODULE TcpSocketProofs --------------------------
(***************************************************************************)
(* What holds of TcpSocket for every number of workers, every set of       *)
(* messages, every stream of frames and every size of the buffers.  The    *)
(* sending half comes first, then the parse, then the receiving half.      *)
(***************************************************************************)
EXTENDS TcpSocket, SequenceLemmas

(* The variables of the sending half have their types. *)
SendTyped ==
    /\ m_send_buf \in Seq(Bytes)
    /\ wire \in Seq(Bytes)
    /\ given \in Seq(Bytes)
    /\ used \in 0 .. SndBuf

IInv == SendTyped /\ SentInOrder

-----------------------------------------------------------------------------
(* A sequence cut in two is the two parts, one after the other. *)
LEMMA CutFacts ==
    ASSUME NEW S, NEW s \in Seq(S), NEW n \in 0 .. Len(s)
    PROVE  /\ First(n, s) \in Seq(S)
           /\ Without(n, s) \in Seq(S)
           /\ First(n, s) \o Without(n, s) = s
<1>1. Len(s) \in Nat /\ \A i \in 1 .. Len(s) : s[i] \in S BY LenProperties, ElementOfSeq
<1>2. First(n, s) \in Seq(S)
  <2>1. \A i \in 1 .. n : s[i] \in S BY <1>1
  <2>2. QED BY <1>1, <2>1, SubSeqProperties DEF First
<1>3. Without(n, s) \in Seq(S)
  <2>1. \A i \in n + 1 .. Len(s) : s[i] \in S BY <1>1
  <2>2. QED BY <1>1, <2>1, SubSeqProperties DEF Without
<1>4. First(n, s) \o Without(n, s) = s
  <2>1. /\ 1 \in 1 .. Len(s) + 1
        /\ n \in 1 - 1 .. Len(s)
        /\ Len(s) \in n .. Len(s)
    BY <1>1
  <2>2. SubSeq(s, 1, n) \o SubSeq(s, n + 1, Len(s)) = SubSeq(s, 1, Len(s))
    BY <2>1, ConcatAdjacentSubSeq
  <2>3. QED BY <2>2, SubSeqFull DEF First, Without
<1>5. QED BY <1>2, <1>3, <1>4

(* Bytes put together from the left or from the right are the same. *)
LEMMA Associative ==
    \A s, t, u \in Seq(Bytes) : (s \o t) \o u = s \o (t \o u)
BY ConcatAssociative

(* What the kernel takes is part of what it is given and fits. *)
LEMMA TakenFacts ==
    ASSUME NEW S, NEW s \in Seq(S), used \in 0 .. SndBuf
    PROVE  /\ AtMost(SndBuf - used, s) \in 0 .. Len(s)
           /\ used + AtMost(SndBuf - used, s) \in 0 .. SndBuf
BY LenProperties, TcpAssumption DEF AtMost

(* The initial state. *)
LEMMA Start == Init => IInv
<1>1. SUFFICES ASSUME Init PROVE IInv OBVIOUS
<1>2. <<>> \in Seq(Bytes) /\ <<>> \o <<>> = <<>> BY EmptySeq, ConcatEmptySeq
<1>3. QED BY <1>1, <1>2, TcpAssumption DEF Init, IInv, SendTyped, SentInOrder

(* Every step appends to the wire what it removes from the buffer. *)
LEMMA Step == IInv /\ [Next]_vars => IInv'
<1>1. SUFFICES ASSUME IInv, [Next]_vars PROVE IInv' OBVIOUS
<1> USE <1>1 DEF IInv, SendTyped, SentInOrder
<1>2. ASSUME UNCHANGED <<m_send_buf, used, wire, given>> PROVE IInv' BY <1>2
<1>3. ASSUME NEW w \in Workers, NEW d \in Messages, SendBuffered(w, d) PROVE IInv'
  <2>1. d \in Seq(Bytes) BY TcpAssumption
  <2>2. m_send_buf \o d \in Seq(Bytes) /\ given \o d \in Seq(Bytes)
    BY <2>1, ConcatProperties
  <2>3. wire \o (m_send_buf \o d) = (wire \o m_send_buf) \o d
    BY <2>1, Associative
  <2>4. QED BY <1>3, <2>2, <2>3 DEF SendBuffered
<1>4. ASSUME NEW w \in Workers, NEW d \in Messages, SendNow(w, d) PROVE IInv'
  <2> DEFINE n == AtMost(SndBuf - used, d)
  <2>1. d \in Seq(Bytes) BY TcpAssumption
  <2>2. n \in 0 .. Len(d) /\ used + n \in 0 .. SndBuf BY <2>1, TakenFacts
  <2>3. /\ m_send_buf = <<>>
        /\ m_send_buf' = Without(n, d)
        /\ wire' = wire \o First(n, d)
        /\ given' = given \o d
        /\ used' = used + n
    BY <1>4 DEF SendNow
  <2> HIDE DEF n
  <2>4. /\ First(n, d) \in Seq(Bytes) /\ Without(n, d) \in Seq(Bytes)
        /\ First(n, d) \o Without(n, d) = d
    BY <2>1, <2>2, CutFacts
  <2>5. wire' \in Seq(Bytes) /\ given' \in Seq(Bytes) /\ m_send_buf' \in Seq(Bytes)
    BY <2>1, <2>3, <2>4, ConcatProperties
  <2>6. wire = given BY <2>3, ConcatEmptySeq
  <2>7. (wire \o First(n, d)) \o Without(n, d) = wire \o d
    <3>1. wire \in Seq(Bytes) OBVIOUS
    <3>2. (wire \o First(n, d)) \o Without(n, d) = wire \o (First(n, d) \o Without(n, d))
      BY <3>1, <2>4, Associative
    <3>3. QED BY <3>2, <2>4
  <2>8. QED BY <2>2, <2>3, <2>5, <2>6, <2>7
<1>5. CASE Flush
  <2> DEFINE n == AtMost(SndBuf - used, m_send_buf)
  <2>1. n \in 0 .. Len(m_send_buf) /\ used + n \in 0 .. SndBuf BY TakenFacts
  <2>2. /\ m_send_buf' = Without(n, m_send_buf)
        /\ wire' = wire \o First(n, m_send_buf)
        /\ given' = given
        /\ used' = used + n
    BY <1>5 DEF Flush
  <2> HIDE DEF n
  <2>3. /\ First(n, m_send_buf) \in Seq(Bytes) /\ Without(n, m_send_buf) \in Seq(Bytes)
        /\ First(n, m_send_buf) \o Without(n, m_send_buf) = m_send_buf
    BY <2>1, CutFacts
  <2>4. wire' \in Seq(Bytes) BY <2>2, <2>3, ConcatProperties
  <2>5. (wire \o First(n, m_send_buf)) \o Without(n, m_send_buf) = wire \o m_send_buf
    <3>1. wire \in Seq(Bytes) OBVIOUS
    <3>2. (wire \o First(n, m_send_buf)) \o Without(n, m_send_buf) = wire \o (First(n, m_send_buf) \o Without(n, m_send_buf))
      BY <3>1, <2>3, Associative
    <3>3. QED BY <3>2, <2>3
  <2>6. QED BY <2>1, <2>2, <2>3, <2>4, <2>5
<1>6. ASSUME NEW m \in 1 .. SndBuf, Drain(m) PROVE IInv'
  <2>1. used' \in 0 .. SndBuf BY <1>6, TcpAssumption DEF Drain
  <2>2. QED BY <1>6, <2>1 DEF Drain
<1>7. ASSUME NEW w \in Workers, Arm(w) PROVE IInv' BY <1>2, <1>7 DEF Arm
<1>8. ASSUME NEW w \in Workers, Recv(w) PROVE IInv' BY <1>2, <1>8 DEF Recv, sendVars
<1>9. ASSUME NEW w \in Workers, Insert(w) PROVE IInv' BY <1>2, <1>9 DEF Insert, sendVars
<1>10. ASSUME NEW m \in 1 .. Len(Stream), Arrive(m) PROVE IInv'
  BY <1>2, <1>10 DEF Arrive, sendVars
<1>11. CASE Report BY <1>2, <1>11 DEF Report, sendVars
<1>12. CASE DropInterest BY <1>2, <1>12 DEF DropInterest
<1>13. CASE UNCHANGED vars BY <1>2, <1>13 DEF vars, sendVars
<1>14. QED
  BY <1>3, <1>4, <1>5, <1>6, <1>7, <1>8, <1>9, <1>10, <1>11, <1>12, <1>13
     DEF Next, MainStep, Handler, Kernel

(* However sends, partial sends and flushes interleave, the wire carries the *)
(* messages in the order of the calls and unbroken, with the rest buffered.  *)
THEOREM InOrder == Spec => []SentInOrder
<1>1. IInv => SentInOrder BY DEF IInv
<1>2. QED BY Start, Step, <1>1, PTL DEF Spec

-----------------------------------------------------------------------------
(* f[n] is where jumping from n on, by g while in P, comes to an end. *)
Jumps(f, L, P, g) == f = [n \in 0 .. L |-> IF n \in P THEN f[g[n]] ELSE n]

(* A chain of jumps that only go up ends: such a function exists ...         *)
LEMMA JumpsEnd ==
    ASSUME NEW L \in Nat, NEW P \in SUBSET (0 .. L), NEW g,
           \A n \in P : g[n] \in n + 1 .. L
    PROVE  \E f : Jumps(f, L, P, g)
<1> USE DEF Jumps
<1> DEFINE T == {m \in Nat : m <= L =>
                    \E f : f = [n \in L - m .. L |-> IF n \in P THEN f[g[n]] ELSE n]}
<1>1. 0 \in T
  <2> DEFINE f == [n \in L - 0 .. L |-> n]
  <2>1. L \notin P OBVIOUS
  <2>2. \A n \in L - 0 .. L : n = L OBVIOUS
  <2>3. f = [n \in L - 0 .. L |-> IF n \in P THEN f[g[n]] ELSE n] BY <2>1, <2>2
  <2>4. QED BY <2>3
<1>2. ASSUME NEW m \in Nat, m \in T PROVE m + 1 \in T
  <2>1. SUFFICES ASSUME m + 1 <= L
                 PROVE  \E f : f = [n \in L - (m + 1) .. L |-> IF n \in P THEN f[g[n]] ELSE n]
    OBVIOUS
  <2>2. PICK h : h = [n \in L - m .. L |-> IF n \in P THEN h[g[n]] ELSE n] BY <1>2, <2>1
  <2> DEFINE f == [n \in L - (m + 1) .. L |->
                      IF n \in P THEN h[g[n]] ELSE n]
  <2>3. \A n \in L - m .. L : f[n] = h[n] BY <2>2
  <2>4. \A n \in L - (m + 1) .. L : n \in P => g[n] \in L - m .. L OBVIOUS
  <2>5. f = [n \in L - (m + 1) .. L |-> IF n \in P THEN f[g[n]] ELSE n]
    <3>1. \A n \in L - (m + 1) .. L : n \in P => f[g[n]] = h[g[n]] BY <2>3, <2>4
    <3> DEFINE e == [n \in L - (m + 1) .. L |-> IF n \in P THEN f[g[n]] ELSE n]
    <3>2. \A n \in L - (m + 1) .. L : e[n] = IF n \in P THEN f[g[n]] ELSE n OBVIOUS
    <3>3. \A n \in L - (m + 1) .. L : f[n] = IF n \in P THEN h[g[n]] ELSE n OBVIOUS
    <3>4. f = [n \in L - (m + 1) .. L |-> f[n]] OBVIOUS
    <3>5. e = [n \in L - (m + 1) .. L |-> e[n]] OBVIOUS
    <3> HIDE DEF e, f
    <3>6. \A n \in L - (m + 1) .. L : f[n] = e[n] BY <3>1, <3>2, <3>3
    <3>7. f = e BY <3>4, <3>5, <3>6
    <3>8. QED BY <3>7 DEF e
  <2>6. QED BY <2>5
<1> HIDE DEF T
<1>3. L \in T BY <1>1, <1>2, SetInduction
<1>4. QED BY <1>3 DEF T

(* ... and its values are among the places. *)
LEMMA JumpsStay ==
    ASSUME NEW L \in Nat, NEW P \in SUBSET (0 .. L), NEW g,
           \A n \in P : g[n] \in n + 1 .. L,
           NEW f, \A n \in 0 .. L : f[n] = IF n \in P THEN f[g[n]] ELSE n
    PROVE  \A n \in 0 .. L : f[n] \in 0 .. L
<1>1. \A n \in 0 .. L : f[n] = IF n \in P THEN f[g[n]] ELSE n OBVIOUS
<1> DEFINE T == {m \in Nat : m <= L => \A n \in L - m .. L : f[n] \in 0 .. L}
<1>2. 0 \in T
  <2>1. L \notin P OBVIOUS
  <2>2. \A n \in L - 0 .. L : n = L OBVIOUS
  <2>3. f[L] = L BY <1>1, <2>1
  <2>4. QED BY <2>2, <2>3
<1>3. ASSUME NEW m \in Nat, m \in T PROVE m + 1 \in T
  <2>1. SUFFICES ASSUME m + 1 <= L, NEW n \in L - (m + 1) .. L PROVE f[n] \in 0 .. L OBVIOUS
  <2>2. \A k \in L - m .. L : f[k] \in 0 .. L BY <1>3, <2>1
  <2>3. CASE n \in P
    <3>1. g[n] \in L - m .. L BY <2>1, <2>3
    <3>2. f[n] = f[g[n]] BY <1>1, <2>1, <2>3
    <3>3. QED BY <2>2, <3>1, <3>2
  <2>4. CASE n \notin P
    <3>1. f[n] = n BY <1>1, <2>1, <2>4
    <3>2. QED BY <2>1, <3>1
  <2>5. QED BY <2>3, <2>4
<1> HIDE DEF T
<1>4. L \in T BY <1>2, <1>3, SetInduction
<1>5. QED BY <1>1, <1>4 DEF T

-----------------------------------------------------------------------------
(* The parse goes from frame to frame, as long as there is a whole one.      *)
MoreFrames(s, n, junk) == n < Len(s) /\ n + FrameLength(s, n, junk) <= Len(s)

(* A frame is at least as long as its length field. *)
LEMMA FrameLengthType ==
    ASSUME NEW s \in Seq(Bytes), NEW junk \in Bytes, NEW n \in 0 .. Len(s), n < Len(s)
    PROVE  FrameLength(s, n, junk) \in Nat /\ FrameLength(s, n, junk) >= 2
<1>1. Len(s) \in Nat /\ \A i \in 1 .. Len(s) : s[i] \in Bytes BY LenProperties, ElementOfSeq
<1>2. s[n + 1] \in Bytes BY <1>1
<1>3. n + 2 <= Len(s) => s[n + 2] \in Bytes BY <1>1
<1> DEFINE x == IF n + 2 <= Len(s) THEN s[n + 2] ELSE junk
<1>4. x \in Bytes BY <1>3
<1> DEFINE y == s[n + 1]
<1>5. FrameLength(s, n, junk) = y * 256 + x + 2 BY DEF FrameLength
<1>6. y \in Bytes BY <1>2
<1> HIDE DEF x, y
<1>7. x \in Nat /\ y \in Nat BY <1>4, <1>6 DEF Bytes
<1>8. y * 256 \in Nat BY <1>7
<1>9. QED BY <1>5, <1>7, <1>8

(* f[n] is where the parse ends from n on: FramesEnd's recursive function    *)
(* exists, is what its definition says, and stays within s.                  *)
LEMMA FramesEndFacts ==
    ASSUME NEW s \in Seq(Bytes), NEW junk \in Bytes
    PROVE  \E f :
              /\ FramesEnd(s, junk) = f[0]
              /\ \A n \in 0 .. Len(s) :
                    /\ f[n] \in 0 .. Len(s)
                    /\ f[n] = IF MoreFrames(s, n, junk) THEN f[n + FrameLength(s, n, junk)] ELSE n
<1> DEFINE L == Len(s)
           P == {n \in 0 .. L : MoreFrames(s, n, junk)}
           g == [n \in 0 .. L |-> n + FrameLength(s, n, junk)]
           Eq(f) == f = [n \in 0 .. L |-> IF n < Len(s) /\ n + FrameLength(s, n, junk) <= Len(s)
                                          THEN f[n + FrameLength(s, n, junk)]
                                          ELSE n]
           e == CHOOSE f : Eq(f)
<1>1. L \in Nat BY LenProperties
<1>2. \A n \in P : g[n] \in n + 1 .. L BY <1>1, FrameLengthType DEF MoreFrames
<1>3. P \in SUBSET (0 .. L) OBVIOUS
<1>4. \A f : Eq(f) <=> Jumps(f, L, P, g) BY DEF Jumps, MoreFrames
<1>5. \E f : Jumps(f, L, P, g)
  <2> HIDE DEF P, g, L
  <2>1. QED BY <1>1, <1>2, <1>3, JumpsEnd
<1>6. Eq(e) 
  <2> HIDE DEF Eq, P, g, L
  <2>1. QED BY <1>4, <1>5
<1>7. FramesEnd(s, junk) = e[0] BY DEF FramesEnd
<1>8. \A n \in 0 .. L : e[n] \in 0 .. L
  <2>1. \A n \in 0 .. L : e[n] = IF n \in P THEN e[g[n]] ELSE n
    <3>1. Jumps(e, L, P, g) BY <1>4, <1>6
    <3> HIDE DEF e, P, g
    <3>2. QED BY <3>1 DEF Jumps
  <2> HIDE DEF P, g, L, e
  <2>2. QED BY <1>1, <1>2, <1>3, <2>1, JumpsStay
<1>9. \A n \in 0 .. L :
         e[n] = IF MoreFrames(s, n, junk) THEN e[n + FrameLength(s, n, junk)] ELSE n
  <2> HIDE DEF e
  <2>1. QED BY <1>6 DEF MoreFrames
<1> HIDE DEF e
<1>10. QED BY <1>7, <1>8, <1>9

-----------------------------------------------------------------------------
(* The first k frames, and the bytes of the stream from i, exclusive, to j.  *)
Whole(k)      == FlattenSeq(SubSeq(Frames, 1, k))
Segment(i, j) == SubSeq(Stream, i + 1, j)

(* The frames in one, recursively; all of them are the stream. *)
LEMMA WholeFacts ==
    /\ Len(Frames) \in Nat
    /\ Whole(0) = <<>>
    /\ \A k \in 0 .. Len(Frames) : Whole(k) \in Seq(Bytes)
    /\ \A k \in 1 .. Len(Frames) : Whole(k) = Whole(k - 1) \o Frames[k]
    /\ Stream = Whole(Len(Frames))
<1>1. Frames \in Seq(Seq(Bytes)) BY TcpAssumption
<1>2. Len(Frames) \in Nat /\ \A n \in 1 .. Len(Frames) : Frames[n] \in Seq(Bytes)
  BY <1>1, LenProperties, ElementOfSeq
<1>3. PICK g : Flat(g, Bytes, Frames, Len(Frames)) BY <1>1, FlatExists
<1>4. ASSUME NEW k \in 0 .. Len(Frames) PROVE Whole(k) = g[k]
  <2> DEFINE G == SubSeq(Frames, 1, k)
  <2>1. \A n \in 1 .. k : Frames[n] \in Seq(Bytes) BY <1>2
  <2>2. G \in Seq(Seq(Bytes)) /\ Len(G) = k /\ \A n \in 1 .. k : G[n] = Frames[n]
    <3>1. /\ G \in Seq(Seq(Bytes))
          /\ Len(G) = IF 1 <= k THEN k - 1 + 1 ELSE 0
          /\ \A n \in 1 .. k - 1 + 1 : G[n] = Frames[1 + n - 1]
      BY <1>2, <2>1, SubSeqProperties
    <3> HIDE DEF G
    <3>2. QED BY <1>2, <3>1
  <2> HIDE DEF G
  <2>3. \A n \in 0 .. k : n \in 0 .. Len(Frames) BY <1>2
  <2>4. Flat(g, Bytes, G, Len(G))
    <3>1. \A n \in 1 .. k : n \in 1 .. Len(Frames) BY <1>2
    <3>2. \A n \in 1 .. k : g[n] = g[n - 1] \o Frames[n] BY <1>3, <3>1 DEF Flat
    <3>3. \A n \in 1 .. k : g[n] = g[n - 1] \o G[n] BY <2>2, <3>2
    <3>4. g[0] = <<>> /\ \A n \in 0 .. k : g[n] \in Seq(Bytes) BY <1>3, <2>3 DEF Flat
    <3>5. QED BY <2>2, <3>3, <3>4 DEF Flat
  <2>5. FlattenSeq(G) = g[k] BY <2>2, <2>4, FlattenIsFlat
  <2>6. QED BY <2>5 DEF Whole, G
<1>5. Whole(0) = <<>> BY <1>2, <1>3, <1>4 DEF Flat
<1>6. \A k \in 0 .. Len(Frames) : Whole(k) \in Seq(Bytes) BY <1>3, <1>4 DEF Flat
<1>7. ASSUME NEW k \in 1 .. Len(Frames) PROVE Whole(k) = Whole(k - 1) \o Frames[k]
  <2>1. k \in 0 .. Len(Frames) /\ k - 1 \in 0 .. Len(Frames) BY <1>2
  <2>2. g[k] = g[k - 1] \o Frames[k] BY <1>3 DEF Flat
  <2>3. QED BY <1>4, <2>1, <2>2
<1>8. Stream = Whole(Len(Frames)) BY <1>1, SubSeqFull DEF Stream, Whole
<1>9. QED BY <1>2, <1>5, <1>6, <1>7, <1>8

LEMMA StreamType == Stream \in Seq(Bytes) /\ Len(Stream) \in Nat
BY WholeFacts, LenProperties

(* What follows the first k frames. *)
LEMMA WholeStartsStream ==
    ASSUME NEW k \in 0 .. Len(Frames)
    PROVE  \E u \in Seq(Bytes) : Stream = Whole(k) \o u
<1> DEFINE T == {m \in Nat : m <= Len(Frames) =>
                    \E u \in Seq(Bytes) : Stream = Whole(Len(Frames) - m) \o u}
<1>1. Len(Frames) \in Nat BY WholeFacts
<1>2. 0 \in T
  <2>1. <<>> \in Seq(Bytes) /\ Stream \o <<>> = Stream
    BY StreamType, EmptySeq, ConcatEmptySeq
  <2>2. Len(Frames) - 0 = Len(Frames) BY <1>1
  <2>3. QED BY <2>1, <2>2, WholeFacts
<1>3. ASSUME NEW m \in Nat, m \in T PROVE m + 1 \in T
  <2>1. SUFFICES ASSUME m + 1 <= Len(Frames)
                 PROVE  \E u \in Seq(Bytes) : Stream = Whole(Len(Frames) - (m + 1)) \o u
    OBVIOUS
  <2>2. PICK u \in Seq(Bytes) : Stream = Whole(Len(Frames) - m) \o u BY <1>1, <1>3, <2>1
  <2> DEFINE j == Len(Frames) - m
  <2>3. j \in 1 .. Len(Frames) /\ j - 1 \in 0 .. Len(Frames) /\ j - 1 = Len(Frames) - (m + 1)
    BY <1>1, <2>1
  <2> HIDE DEF T
  <2>4. Whole(j) = Whole(j - 1) \o Frames[j] /\ Whole(j - 1) \in Seq(Bytes)
    BY <2>3, WholeFacts
  <2>5. Frames[j] \in Seq(Bytes) BY <2>3, TcpAssumption, ElementOfSeq
  <2>6. Frames[j] \o u \in Seq(Bytes) BY <2>5, ConcatProperties
  <2>7. (Whole(j - 1) \o Frames[j]) \o u = Whole(j - 1) \o (Frames[j] \o u)
    BY <2>4, <2>5, Associative
  <2>8. QED BY <2>2, <2>3, <2>4, <2>6, <2>7
<1> HIDE DEF T
<1>4. Len(Frames) - k \in Nat BY <1>1
<1>5. Nat \subseteq T BY <1>2, <1>3, SetInduction
<1>6. Len(Frames) - (Len(Frames) - k) = k BY <1>1
<1>7. \E u \in Seq(Bytes) : Stream = Whole(Len(Frames) - (Len(Frames) - k)) \o u
  <2>1. Len(Frames) - k \in T /\ Len(Frames) - k <= Len(Frames) BY <1>1, <1>4, <1>5
  <2>2. QED BY <2>1 DEF T
<1>8. QED BY <1>6, <1>7

(* A segment of the stream has its bytes. *)
LEMMA SegmentFacts ==
    ASSUME NEW i \in 0 .. Len(Stream), NEW j \in i .. Len(Stream)
    PROVE  /\ Segment(i, j) \in Seq(Bytes)
           /\ Len(Segment(i, j)) = j - i
           /\ \A n \in 1 .. j - i : Segment(i, j)[n] = Stream[i + n]
<1>1. Stream \in Seq(Bytes) /\ Len(Stream) \in Nat BY StreamType
<1>2. \A n \in 1 .. Len(Stream) : Stream[n] \in Bytes BY <1>1, ElementOfSeq
<1>3. \A n \in i + 1 .. j : Stream[n] \in Bytes BY <1>1, <1>2
<1>4. /\ SubSeq(Stream, i + 1, j) \in Seq(Bytes)
      /\ Len(SubSeq(Stream, i + 1, j)) = IF i + 1 <= j THEN j - (i + 1) + 1 ELSE 0
      /\ \A n \in 1 .. j - (i + 1) + 1 : SubSeq(Stream, i + 1, j)[n] = Stream[i + 1 + n - 1]
  BY <1>1, <1>3, SubSeqProperties
<1>5. QED BY <1>1, <1>4 DEF Segment

(* A segment cut in two is two segments ... *)
LEMMA SegmentCut ==
    ASSUME NEW i \in 0 .. Len(Stream), NEW j \in i .. Len(Stream), NEW n \in 0 .. j - i
    PROVE  /\ First(n, Segment(i, j)) = Segment(i, i + n)
           /\ Without(n, Segment(i, j)) = Segment(i + n, j)
<1>1. Stream \in Seq(Bytes) /\ Len(Stream) \in Nat BY StreamType
<1>2. Segment(i, j) \in Seq(Bytes) /\ Len(Segment(i, j)) = j - i BY SegmentFacts
<1>3. First(n, Segment(i, j)) = Segment(i, i + n)
  <2>1. CASE n = 0
    <3>1. SubSeq(Segment(i, j), 1, 0) = <<>> /\ SubSeq(Stream, i + 1, i) = <<>>
      BY <1>1, SubSeqEmpty
    <3>2. QED BY <1>1, <2>1, <3>1 DEF First, Segment
  <2>2. CASE n # 0
    <3>1. /\ i + 1 \in 1 .. Len(Stream) /\ j \in 1 .. Len(Stream)
          /\ 1 \in 1 .. j - (i + 1) + 1 /\ n \in 1 .. j - (i + 1) + 1
      BY <1>1, <2>2
    <3>2. SubSeq(SubSeq(Stream, i + 1, j), 1, n) = SubSeq(Stream, (i + 1) + 1 - 1, (i + 1) + n - 1)
      BY <1>1, <3>1, SubSeqOfSubSeq
    <3>3. (i + 1) + 1 - 1 = i + 1 /\ (i + 1) + n - 1 = i + n BY <1>1
    <3>4. QED BY <3>2, <3>3 DEF First, Segment
  <2>3. QED BY <2>1, <2>2
<1>4. Without(n, Segment(i, j)) = Segment(i + n, j)
  <2>1. CASE n = j - i
    <3>1. SubSeq(Segment(i, j), n + 1, n) = <<>> /\ SubSeq(Stream, j + 1, j) = <<>>
      BY <1>1, SubSeqEmpty
    <3>2. i + n = j BY <1>1, <2>1
    <3>3. QED BY <1>2, <2>1, <3>1, <3>2 DEF Without, Segment
  <2>2. CASE n # j - i
    <3>1. /\ i + 1 \in 1 .. Len(Stream) /\ j \in 1 .. Len(Stream)
          /\ n + 1 \in 1 .. j - (i + 1) + 1 /\ j - i \in 1 .. j - (i + 1) + 1
      BY <1>1, <2>2
    <3>2. SubSeq(SubSeq(Stream, i + 1, j), n + 1, j - i)
            = SubSeq(Stream, (i + 1) + (n + 1) - 1, (i + 1) + (j - i) - 1)
      BY <1>1, <3>1, SubSeqOfSubSeq
    <3>3. (i + 1) + (n + 1) - 1 = (i + n) + 1 /\ (i + 1) + (j - i) - 1 = j BY <1>1
    <3>4. QED BY <1>2, <3>2, <3>3 DEF Without, Segment
  <2>3. QED BY <2>1, <2>2
<1>5. QED BY <1>3, <1>4

(* ... and two that meet are one. *)
LEMMA SegmentJoin ==
    ASSUME NEW i \in 0 .. Len(Stream), NEW j \in i .. Len(Stream), NEW k \in j .. Len(Stream)
    PROVE  Segment(i, j) \o Segment(j, k) = Segment(i, k)
<1>1. Stream \in Seq(Bytes) /\ Len(Stream) \in Nat BY StreamType
<1>2. i + 1 \in 1 .. Len(Stream) + 1 /\ j \in (i + 1) - 1 .. Len(Stream) BY <1>1
<1>3. QED BY <1>1, <1>2, ConcatAdjacentSubSeq DEF Segment

(* Where the frames are in the stream. *)
LEMMA FrameFacts ==
    ASSUME NEW k \in 0 .. Len(Frames) - 1
    PROVE  /\ Frames[k + 1] \in Seq(Bytes)
           /\ Len(Frames[k + 1]) \in Nat /\ Len(Frames[k + 1]) >= 2
           /\ Len(Frames[k + 1]) = Frames[k + 1][1] * 256 + Frames[k + 1][2] + 2
           /\ Len(Whole(k)) \in Nat
           /\ Len(Whole(k + 1)) = Len(Whole(k)) + Len(Frames[k + 1])
           /\ Len(Whole(k + 1)) <= Len(Stream)
           /\ Frames[k + 1] = Segment(Len(Whole(k)), Len(Whole(k + 1)))
<1> DEFINE F == Frames[k + 1]
           v == Whole(k)
           w == Whole(k + 1)
<1>1. Len(Frames) \in Nat BY WholeFacts
<1>2. k + 1 \in 1 .. Len(Frames) /\ k \in 0 .. Len(Frames) /\ k + 1 \in 0 .. Len(Frames)
      /\ (k + 1) - 1 = k
  BY <1>1
<1>3. F \in Seq(Bytes) BY <1>2, TcpAssumption, ElementOfSeq
<1>4. DOMAIN Frames = 1 .. Len(Frames) BY TcpAssumption, LenProperties
<1>5. Len(F) \in Nat /\ Len(F) >= 2 /\ Len(F) = F[1] * 256 + F[2] + 2
  BY <1>2, <1>3, <1>4, TcpAssumption, LenProperties
<1>6. v \in Seq(Bytes) /\ w \in Seq(Bytes) /\ w = v \o F BY <1>2, WholeFacts
<1>7. PICK u \in Seq(Bytes) : Stream = w \o u BY <1>2, WholeStartsStream
<1> HIDE DEF F, v, w
<1>8. /\ Len(v) \in Nat /\ Len(w) \in Nat /\ Len(u) \in Nat
      /\ Len(w) = Len(v) + Len(F) /\ Len(Stream) = Len(w) + Len(u)
  BY <1>3, <1>6, <1>7, LenProperties, ConcatProperties
<1>9. SubSeq(Stream, Len(v) + 1, Len(w)) = SubSeq(w, Len(v) + 1, Len(w))
  <2>1. Len(v) + 1 \in 1 .. Len(w) /\ Len(w) \in 1 .. Len(w) BY <1>5, <1>8
  <2>2. QED BY <1>6, <1>7, <2>1, SubSeqOfConcat1
<1>10. SubSeq(w, Len(v) + 1, Len(w)) = SubSeq(F, 1, Len(F))
  <2>1. /\ Len(v) + 1 \in Len(v) + 1 .. Len(v) + Len(F)
        /\ Len(w) \in Len(v) + 1 .. Len(v) + Len(F)
        /\ (Len(v) + 1) - Len(v) = 1 /\ Len(w) - Len(v) = Len(F)
    BY <1>5, <1>8
  <2>2. SubSeq(v \o F, Len(v) + 1, Len(w)) = SubSeq(F, (Len(v) + 1) - Len(v), Len(w) - Len(v))
    BY <1>3, <1>6, <2>1, SubSeqOfConcat2
  <2>3. QED BY <1>6, <2>1, <2>2
<1>11. SubSeq(F, 1, Len(F)) = F BY <1>3, SubSeqFull
<1>12. F = Segment(Len(v), Len(w)) BY <1>9, <1>10, <1>11 DEF Segment
<1>13. QED BY <1>3, <1>5, <1>8, <1>12 DEF F, v, w

(* The first k frames are the beginning of the stream. *)
LEMMA WholeIsSegment ==
    ASSUME NEW k \in 0 .. Len(Frames)
    PROVE  /\ Len(Whole(k)) \in 0 .. Len(Stream)
           /\ Whole(k) = Segment(0, Len(Whole(k)))
<1> DEFINE v == Whole(k)
<1>1. v \in Seq(Bytes) BY WholeFacts
<1>2. PICK u \in Seq(Bytes) : Stream = v \o u BY WholeStartsStream
<1> HIDE DEF v
<1>3. Len(v) \in Nat /\ Len(u) \in Nat /\ Len(Stream) = Len(v) + Len(u)
  BY <1>1, <1>2, LenProperties, ConcatProperties
<1>4. v = SubSeq(Stream, 1, Len(v))
  <2>1. CASE Len(v) = 0
    <3>1. v = <<>> BY <1>1, <2>1, EmptySeq, LenProperties
    <3>2. SubSeq(Stream, 1, 0) = <<>> BY SubSeqEmpty
    <3>3. QED BY <2>1, <3>1, <3>2
  <2>2. CASE Len(v) # 0
    <3>1. 1 \in 1 .. Len(v) /\ Len(v) \in 1 .. Len(v) BY <1>3, <2>2
    <3>2. SubSeq(v \o u, 1, Len(v)) = SubSeq(v, 1, Len(v)) BY <1>1, <3>1, SubSeqOfConcat1
    <3>3. SubSeq(v, 1, Len(v)) = v BY <1>1, SubSeqFull
    <3>4. QED BY <1>2, <3>2, <3>3
  <2>3. QED BY <2>1, <2>2
<1>5. 0 + 1 = 1 OBVIOUS
<1>6. QED BY <1>3, <1>4, <1>5 DEF Segment, v

-----------------------------------------------------------------------------
(* With both its length bytes at hand, a frame's length is read, not guessed. *)
LEMMA FrameLengthIsRead ==
    ASSUME NEW d \in 0 .. Len(Stream), NEW e \in d .. Len(Stream), NEW junk,
           NEW j \in 0 .. Len(Frames) - 1, Len(Whole(j)) >= d, Len(Whole(j)) + 2 <= e
    PROVE  FrameLength(Segment(d, e), Len(Whole(j)) - d, junk) = Len(Frames[j + 1])
<1> DEFINE F == Frames[j + 1]
           v == Len(Whole(j))
           n == v - d
           s == Segment(d, e)
<1>1. /\ Len(F) \in Nat /\ Len(F) >= 2 /\ Len(F) = F[1] * 256 + F[2] + 2
      /\ v \in Nat /\ v + Len(F) <= Len(Stream)
      /\ F = Segment(v, v + Len(F))
  BY FrameFacts
<1>2. Len(Stream) \in Nat BY StreamType
<1> HIDE DEF F, v
<1>3. v \in 0 .. Len(Stream) /\ v + Len(F) \in v .. Len(Stream) BY <1>1, <1>2
<1>4. \A i \in 1 .. (v + Len(F)) - v : Segment(v, v + Len(F))[i] = Stream[v + i]
  BY <1>3, SegmentFacts
<1>5. F[1] = Stream[v + 1] /\ F[2] = Stream[v + 2] BY <1>1, <1>4
<1>6. Len(s) = e - d /\ \A i \in 1 .. e - d : s[i] = Stream[d + i] BY SegmentFacts
<1> HIDE DEF s
<1>7. /\ n + 1 \in 1 .. e - d /\ n + 2 \in 1 .. e - d
      /\ d + (n + 1) = v + 1 /\ d + (n + 2) = v + 2
  BY <1>1, <1>2 DEF v
<1>8. s[n + 1] = F[1] /\ s[n + 2] = F[2] /\ n + 2 <= Len(s)
  <2>1. s[n + 1] = Stream[d + (n + 1)] /\ s[n + 2] = Stream[d + (n + 2)] BY <1>6, <1>7
  <2>2. s[n + 1] = F[1] /\ s[n + 2] = F[2] BY <1>5, <1>7, <2>1
  <2>3. n + 2 <= e - d BY <1>7
  <2>4. QED BY <1>6, <2>2, <2>3
<1>9. FrameLength(s, n, junk) = F[1] * 256 + F[2] + 2 BY <1>8 DEF FrameLength
<1>10. QED BY <1>1, <1>9 DEF F, v, s

(* From the end of one frame, the parse of what has arrived gets to the end  *)
(* of another, with less than a frame left.                                  *)
LEMMA ParseFacts ==
    ASSUME NEW k \in 0 .. Len(Frames), NEW e \in Len(Whole(k)) .. Len(Stream),
           NEW junk \in Bytes
    PROVE  \E j \in k .. Len(Frames) :
              /\ Len(Whole(j)) \in Len(Whole(k)) .. e
              /\ FramesEnd(Segment(Len(Whole(k)), e), junk) = Len(Whole(j)) - Len(Whole(k))
              /\ j = Len(Frames) => e = Len(Whole(j))
              /\ j < Len(Frames) => e < Len(Whole(j + 1))
<1> DEFINE d == Len(Whole(k))
           s == Segment(d, e)
<1>1. Len(Frames) \in Nat /\ Len(Stream) \in Nat BY WholeFacts, StreamType
<1>2. d \in 0 .. Len(Stream) BY WholeIsSegment
<1>3. s \in Seq(Bytes) /\ Len(s) = e - d BY <1>2, SegmentFacts
<1>4. PICK f : /\ FramesEnd(s, junk) = f[0]
               /\ \A n \in 0 .. Len(s) :
                     /\ f[n] \in 0 .. Len(s)
                     /\ f[n] = IF MoreFrames(s, n, junk) THEN f[n + FrameLength(s, n, junk)] ELSE n
  BY <1>3, FramesEndFacts
<1> DEFINE In(m) == k + m <= Len(Frames) /\ Len(Whole(k + m)) <= e
           T == {m \in Nat : In(m) => Len(Whole(k + m)) >= d /\ f[0] = f[Len(Whole(k + m)) - d]}
<1>5. 0 \in T
  <2>1. k + 0 = k BY <1>1
  <2>2. d - d = 0 BY <1>1, <1>2
  <2>3. d >= d BY <1>1, <1>2
  <2>4. QED BY <2>1, <2>2, <2>3
<1>6. ASSUME NEW m \in Nat, m \in T PROVE m + 1 \in T
  <2> DEFINE j == k + m
             v == Len(Whole(j))
             w == Len(Whole(j + 1))
             n == v - d
  <2>1. k + (m + 1) = j + 1 BY <1>1
  <2>2. SUFFICES ASSUME j + 1 <= Len(Frames), w <= e
                 PROVE  w >= d /\ f[0] = f[w - d]
    BY <2>1
  <2>3. j \in 0 .. Len(Frames) - 1 BY <1>1, <2>2
  <2>4. /\ v \in Nat /\ Len(Frames[j + 1]) \in Nat /\ Len(Frames[j + 1]) >= 2
        /\ w = v + Len(Frames[j + 1]) /\ w <= Len(Stream)
    BY <2>3, FrameFacts
  <2>5. v <= e /\ v + 2 <= e
    <3>1. e \in Int /\ w <= e BY <1>1, <1>2, <2>2
    <3> HIDE DEF v, w
    <3>2. QED BY <2>4, <3>1
  <2>6. v >= d /\ f[0] = f[n] BY <1>1, <1>6, <2>3, <2>5
  <2>7. FrameLength(s, n, junk) = Len(Frames[j + 1])
    BY <1>2, <2>3, <2>5, <2>6, FrameLengthIsRead
  <2> HIDE DEF v, w, T, s
  <2>8. n \in 0 .. Len(s) BY <1>1, <1>2, <1>3, <2>4, <2>5, <2>6
  <2>9. n + Len(Frames[j + 1]) = w - d /\ n < Len(s) /\ w - d <= Len(s) /\ w >= d
    BY <1>1, <1>2, <1>3, <2>2, <2>4, <2>5, <2>6
  <2>10. MoreFrames(s, n, junk) BY <2>7, <2>9 DEF MoreFrames
  <2>11. f[n] = f[w - d] BY <1>4, <2>7, <2>8, <2>9, <2>10
  <2>12. QED BY <2>6, <2>9, <2>11
<1>7. Nat \subseteq T
  <2> HIDE DEF T
  <2>1. QED BY <1>5, <1>6, SetInduction
<1>8. PICK m \in Nat : In(m) /\ ~In(m + 1)
  <2> DEFINE C == {m \in Nat : ~In(m)}
  <2>1. Len(Frames) + 1 \in C BY <1>1
  <2>2. PICK x \in C : \A y \in C : x <= y
    <3>1. C \in SUBSET Nat /\ C # {} BY <2>1
    <3> HIDE DEF C
    <3>2. QED BY <3>1, Least
  <2>3. k + 0 = k BY <1>1
  <2>4. In(0) BY <1>1, <2>3
  <2>5. x # 0 /\ x \in Nat BY <2>2, <2>4
  <2>6. x - 1 \in Nat /\ ~(x <= x - 1) /\ (x - 1) + 1 = x BY <2>5
  <2>7. x - 1 \notin C BY <2>2, <2>6
  <2>8. QED BY <2>2, <2>6, <2>7
<1> DEFINE j == k + m
           v == Len(Whole(j))
           n == v - d
<1>9. j \in k .. Len(Frames) /\ v <= e BY <1>1, <1>8
<1>10. v >= d /\ f[0] = f[n] BY <1>7, <1>8
<1>11. v \in Nat BY <1>1, <1>9, WholeIsSegment
<1>12. n \in 0 .. Len(s)
  <2> HIDE DEF v, d, s
  <2>1. QED BY <1>1, <1>2, <1>3, <1>9, <1>10, <1>11
<1>13. j = Len(Frames) => e = v
  <2>1. j = Len(Frames) => v = Len(Stream) BY WholeFacts
  <2> HIDE DEF v
  <2>2. QED BY <1>1, <1>9, <1>11, <2>1
<1>14. j < Len(Frames) => e < Len(Whole(j + 1))
  <2>1. k + (m + 1) = j + 1 /\ j + 1 \in Int BY <1>1
  <2>2. SUFFICES ASSUME j < Len(Frames) PROVE e < Len(Whole(j + 1)) OBVIOUS
  <2>3. j + 1 <= Len(Frames) BY <1>1, <1>9, <2>2
  <2>4. ~(Len(Whole(j + 1)) <= e) BY <1>8, <2>1, <2>3
  <2>5. Len(Whole(j + 1)) \in Nat
    <3>1. j + 1 \in 0 .. Len(Frames) BY <1>1, <1>9, <2>3
    <3>2. QED BY <1>1, <3>1, WholeIsSegment
  <2>6. e \in Int BY <1>1, <1>2
  <2>7. QED BY <2>4, <2>5, <2>6
<1>15. ~MoreFrames(s, n, junk)
  <2>1. SUFFICES ASSUME n < Len(s), n + FrameLength(s, n, junk) <= Len(s) PROVE FALSE
    BY DEF MoreFrames
  <2>2. FrameLength(s, n, junk) \in Nat /\ FrameLength(s, n, junk) >= 2
    <3> HIDE DEF s, n
    <3>1. QED BY <1>3, <1>12, <2>1, FrameLengthType
  <2>3. v < e /\ v + 2 <= e
    <3> HIDE DEF v, d, s
    <3>1. QED BY <1>1, <1>2, <1>3, <1>9, <1>11, <2>1, <2>2
  <2>4. j \in 0 .. Len(Frames) - 1 BY <1>1, <1>9, <1>13, <2>3, <1>11, <1>2
  <2>5. FrameLength(s, n, junk) = Len(Frames[j + 1])
    BY <1>2, <1>10, <2>3, <2>4, FrameLengthIsRead
  <2>6. Len(Whole(j + 1)) = v + Len(Frames[j + 1]) /\ Len(Frames[j + 1]) \in Nat
    BY <2>4, FrameFacts
  <2>7. e < Len(Whole(j + 1)) BY <1>1, <1>14, <2>4
  <2> HIDE DEF v, d, s
  <2>8. QED BY <1>1, <1>2, <1>3, <1>11, <2>1, <2>5, <2>6, <2>7
<1>16. f[n] = n BY <1>4, <1>12, <1>15
<1>17. FramesEnd(s, junk) = n BY <1>4, <1>10, <1>16
<1>18. v \in d .. e
  <2> HIDE DEF v, d
  <2>1. QED BY <1>1, <1>2, <1>9, <1>10, <1>11
<1>19. QED BY <1>9, <1>13, <1>14, <1>17, <1>18

-----------------------------------------------------------------------------
(* A worker's buf has bytes only between its recv and its insert.            *)
BufInUse == \A w \in Workers : pc[w] # "insert" => buf[w] = <<>>

ParsedTo == Len(delivered) + Len(m_recv_buf)
TakenTo  == arrived - Len(inbox)

(* Without overlaps, what has been received lies in the stream in one piece: *)
(* handed out, left over, in one worker's buf, and still in the socket.      *)
ReceivedInOrder ==
    ~overlapped =>
        /\ delivered = Segment(0, Len(delivered))
        /\ m_recv_buf = Segment(Len(delivered), ParsedTo)
        /\ inbox = Segment(TakenTo, arrived)
        /\ \A w \in Workers : buf[w] # <<>> =>
              /\ buf[w] = Segment(ParsedTo, TakenTo)
              /\ \A v \in Workers : buf[v] # <<>> => v = w
        /\ ParsedTo <= TakenTo
        /\ (\A w \in Workers : buf[w] = <<>>) => ParsedTo = TakenTo

RInv == TypeOK /\ SentInOrder /\ BufInUse /\ ReceivedInOrder /\ FramesUnlessOverlapped


-----------------------------------------------------------------------------
(* recv fills buf or empties the socket. *)
LEMMA RecvTakes == ASSUME NEW s \in Seq(Bytes) PROVE AtMost(BufSize, s) \in 0 .. Len(s)
BY LenProperties, TcpAssumption DEF AtMost

(* The parse ends within the buffer. *)
LEMMA FramesEndType ==
    ASSUME NEW s \in Seq(Bytes), NEW junk \in Bytes
    PROVE  FramesEnd(s, junk) \in 0 .. Len(s)
<1>1. PICK f : /\ FramesEnd(s, junk) = f[0]
               /\ \A n \in 0 .. Len(s) : f[n] \in 0 .. Len(s)
  BY FramesEndFacts
<1>2. 0 \in 0 .. Len(s) BY LenProperties
<1>3. QED BY <1>1, <1>2

(* What the three steps of the receiving half do to it, typed.               *)
LEMMA ArriveFacts ==
    ASSUME TypeOK, NEW n \in 1 .. Len(Stream), Arrive(n)
    PROVE  /\ arrived' = arrived + n /\ arrived' \in 0 .. Len(Stream) /\ arrived \in 0 .. arrived'
           /\ inbox' = inbox \o Segment(arrived, arrived')
           /\ inbox' \in Seq(Bytes)
           /\ Len(inbox') = Len(inbox) + n
           /\ UNCHANGED <<buf, m_recv_buf, delivered, overlapped, pc>>
<1>1. Len(Stream) \in Nat BY StreamType
<1>2. arrived' = arrived + n /\ arrived' \in 0 .. Len(Stream) /\ arrived \in 0 .. arrived'
  BY <1>1 DEF TypeOK, Arrive
<1>3. inbox' = inbox \o Segment(arrived, arrived') BY <1>2 DEF Arrive, Segment
<1>4. PICK a \in 0 .. Len(Stream), b \in 0 .. Len(Stream) : a = arrived /\ b = arrived'
  BY <1>1, <1>2
<1>5. Segment(a, b) \in Seq(Bytes) /\ Len(Segment(a, b)) = b - a
  BY <1>1, <1>2, <1>4, SegmentFacts
<1>6. inbox' \in Seq(Bytes) /\ Len(inbox') = Len(inbox) + (b - a)
  <2>1. inbox' = inbox \o Segment(a, b) BY <1>3, <1>4
  <2>2. inbox \in Seq(Bytes) BY DEF TypeOK
  <2>3. QED BY <1>5, <2>1, <2>2, ConcatProperties
<1>7. b - a = n BY <1>1, <1>2, <1>4
<1>8. QED BY <1>2, <1>3, <1>6, <1>7 DEF Arrive

LEMMA RecvFacts ==
    ASSUME TypeOK, NEW w \in Workers, Recv(w)
    PROVE  \E n \in 0 .. Len(inbox) :
              /\ pc[w] = "idle"
              /\ buf' = [buf EXCEPT ![w] = First(n, inbox)] /\ First(n, inbox) \in Seq(Bytes)
              /\ inbox' = Without(n, inbox) /\ inbox' \in Seq(Bytes)
              /\ overlapped' = (overlapped \/ (n > 0 /\ \E v \in Workers : buf[v] # <<>>))
              /\ pc' = [pc EXCEPT ![w] = "insert"]
              /\ UNCHANGED <<m_recv_buf, delivered, arrived>>
<1> DEFINE n == AtMost(BufSize, inbox)
<1>1. n \in 0 .. Len(inbox) BY RecvTakes DEF TypeOK
<1>2. First(n, inbox) \in Seq(Bytes) /\ Without(n, inbox) \in Seq(Bytes)
  <2> HIDE DEF n
  <2>1. QED BY <1>1, CutFacts DEF TypeOK
<1>3. QED BY <1>1, <1>2 DEF Recv

LEMMA InsertFacts ==
    ASSUME TypeOK, NEW w \in Workers, Insert(w)
    PROVE  \E junk \in Bytes, n \in 0 .. Len(m_recv_buf \o buf[w]) :
              /\ n = FramesEnd(m_recv_buf \o buf[w], junk)
              /\ m_recv_buf' = Without(n, m_recv_buf \o buf[w]) /\ m_recv_buf' \in Seq(Bytes)
              /\ delivered' = delivered \o First(n, m_recv_buf \o buf[w])
              /\ delivered' \in Seq(Bytes)
              /\ buf' = [buf EXCEPT ![w] = <<>>]
              /\ pc' = [pc EXCEPT ![w] = "idle"]
              /\ UNCHANGED <<inbox, overlapped, arrived>>
<1> DEFINE all == m_recv_buf \o buf[w]
<1>1. PICK junk \in Junk :
         /\ m_recv_buf' = Without(FramesEnd(all, junk), all)
         /\ delivered' = delivered \o First(FramesEnd(all, junk), all)
  BY DEF Insert
<1>2. all \in Seq(Bytes) BY ConcatProperties DEF TypeOK
<1>3. junk \in Bytes BY TcpAssumption
<1> DEFINE n == FramesEnd(all, junk)
<1>4. n \in 0 .. Len(all)
  <2> HIDE DEF all
  <2>1. QED BY <1>2, <1>3, FramesEndType
<1>5. First(n, all) \in Seq(Bytes) /\ Without(n, all) \in Seq(Bytes)
  <2> HIDE DEF all, n
  <2>1. QED BY <1>2, <1>4, CutFacts
<1>6. delivered \o First(n, all) \in Seq(Bytes)
  <2> HIDE DEF all, n
  <2>1. QED BY <1>5, ConcatProperties DEF TypeOK
<1>7. QED BY <1>1, <1>3, <1>4, <1>5, <1>6 DEF Insert

(* The other steps leave the receiving half alone. *)
LEMMA OtherSteps ==
    ASSUME TypeOK, [Next]_vars
    PROVE  \/ \E n \in 1 .. Len(Stream) : Arrive(n)
           \/ \E w \in Workers : Recv(w) \/ Insert(w)
           \/ /\ UNCHANGED <<buf, m_recv_buf, inbox, delivered, overlapped, arrived>>
              /\ pc' \in [Workers -> {"idle", "arm", "insert"}]
              /\ \A w \in Workers : pc'[w] # "insert" => pc[w] # "insert"
<1> DEFINE Rest ==
              /\ UNCHANGED <<buf, m_recv_buf, inbox, delivered, overlapped, arrived>>
              /\ pc' \in [Workers -> {"idle", "arm", "insert"}]
              /\ \A w \in Workers : pc'[w] # "insert" => pc[w] # "insert"
<1> USE DEF recvVars, TypeOK
<1>1. ASSUME NEW w \in Workers, NEW d \in Messages, SendBuffered(w, d) PROVE Rest
  BY <1>1 DEF SendBuffered
<1>2. ASSUME NEW w \in Workers, NEW d \in Messages, SendNow(w, d) PROVE Rest
  BY <1>2 DEF SendNow
<1>3. ASSUME NEW w \in Workers, Arm(w) PROVE Rest BY <1>3 DEF Arm
<1>4. CASE MainStep BY <1>4 DEF MainStep, Report, Flush, DropInterest
<1>5. ASSUME NEW n \in 1 .. SndBuf, Drain(n) PROVE Rest BY <1>5 DEF Drain
<1>6. CASE UNCHANGED vars BY <1>6 DEF vars
<1> HIDE DEF Rest
<1>7. QED BY <1>1, <1>2, <1>3, <1>4, <1>5, <1>6 DEF Next, Handler, Kernel, Rest

-----------------------------------------------------------------------------
(* The initial state. *)
LEMMA TypeInit == Init => TypeOK
<1>1. SUFFICES ASSUME Init PROVE TypeOK OBVIOUS
<1>2. <<>> \in Seq(Bytes) BY EmptySeq
<1>3. Len(Stream) \in Nat BY StreamType
<1>4. 0 \in 0 .. SndBuf /\ 0 \in 0 .. Len(Stream) BY <1>3, TcpAssumption
<1>5. QED BY <1>1, <1>2, <1>4 DEF Init, TypeOK

(* The rest of the types, by halves: the event loop, and the receiving half. *)
LoopTyped ==
    /\ todo \subseteq Messages
    /\ run \in {"wait", "flush", "drop"}
    /\ interest \in BOOLEAN
    /\ ready \in BOOLEAN
    /\ jobs \in Nat

RecvTyped ==
    /\ pc \in [Workers -> {"idle", "arm", "insert"}]
    /\ buf \in [Workers -> Seq(Bytes)]
    /\ m_recv_buf \in Seq(Bytes)
    /\ arrived \in 0 .. Len(Stream)
    /\ inbox \in Seq(Bytes)
    /\ delivered \in Seq(Bytes)
    /\ overlapped \in BOOLEAN

(* Types through every step. *)
LEMMA LoopStep == ASSUME TypeOK, [Next]_vars PROVE LoopTyped'
<1> USE DEF TypeOK, LoopTyped, sendVars
<1>1. ASSUME NEW w \in Workers, NEW d \in Messages, SendBuffered(w, d) PROVE LoopTyped'
  BY <1>1 DEF SendBuffered
<1>2. ASSUME NEW w \in Workers, NEW d \in Messages, SendNow(w, d) PROVE LoopTyped'
  BY <1>2 DEF SendNow
<1>3. ASSUME NEW w \in Workers, Arm(w) PROVE LoopTyped' BY <1>3 DEF Arm, Modify
<1>4. ASSUME NEW w \in Workers, Recv(w) PROVE LoopTyped' BY <1>4 DEF Recv
<1>5. ASSUME NEW w \in Workers, Insert(w) PROVE LoopTyped' BY <1>5 DEF Insert
<1>6. CASE Report
  <2>1. jobs' \in Nat BY <1>6 DEF Report
  <2>2. run' \in {"wait", "flush", "drop"} BY <1>6 DEF Report
  <2>3. QED BY <1>6, <2>1, <2>2 DEF Report
<1>7. CASE Flush BY <1>7 DEF Flush
<1>8. CASE DropInterest BY <1>8 DEF DropInterest, Modify
<1>9. ASSUME NEW n \in 1 .. SndBuf, Drain(n) PROVE LoopTyped' BY <1>9 DEF Drain
<1>10. ASSUME NEW n \in 1 .. Len(Stream), Arrive(n) PROVE LoopTyped' BY <1>10 DEF Arrive
<1>11. CASE UNCHANGED vars BY <1>11 DEF vars
<1>12. QED
  BY <1>1, <1>2, <1>3, <1>4, <1>5, <1>6, <1>7, <1>8, <1>9, <1>10, <1>11
     DEF Next, MainStep, Handler, Kernel

LEMMA TypeStep == ASSUME TypeOK, SentInOrder, [Next]_vars PROVE TypeOK'
<1>1. IInv' BY Step DEF TypeOK, IInv, SendTyped
<1>2. LoopTyped' BY LoopStep
<1>3. RecvTyped'
  <2>1. ASSUME NEW n \in 1 .. Len(Stream), Arrive(n) PROVE RecvTyped'
    BY <2>1, ArriveFacts DEF TypeOK, RecvTyped
  <2>2. ASSUME NEW w \in Workers, Recv(w) PROVE RecvTyped'
    BY <2>2, RecvFacts DEF TypeOK, RecvTyped
  <2>3. ASSUME NEW w \in Workers, Insert(w) PROVE RecvTyped'
    <3>1. <<>> \in Seq(Bytes) BY EmptySeq
    <3>2. QED BY <2>3, <3>1, InsertFacts DEF TypeOK, RecvTyped
  <2>4. QED BY <2>1, <2>2, <2>3, OtherSteps DEF TypeOK, RecvTyped
<1>4. QED BY <1>1, <1>2, <1>3 DEF IInv, SendTyped, LoopTyped, RecvTyped, TypeOK

(* However sends, flushes, receives and parses interleave, every buffer is   *)
(* a sequence of bytes: the parse of Receive (tcpsocket.cpp:65-67) never     *)
(* ends beyond the buffer, whatever lies there.                              *)
THEOREM TypeCorrect == Spec => []TypeOK
<1> DEFINE Inv == TypeOK /\ SentInOrder
<1>1. Init => Inv BY TypeInit, Start DEF IInv
<1>2. Inv /\ [Next]_vars => Inv' BY TypeStep, Step DEF IInv, TypeOK, SendTyped
<1>3. QED BY <1>1, <1>2, PTL DEF Spec


-----------------------------------------------------------------------------
(* recv is always followed by an insert. *)
LEMMA BufInUseStep == ASSUME TypeOK, BufInUse, [Next]_vars PROVE BufInUse'
<1>1. ASSUME NEW w \in Workers, Recv(w) PROVE BufInUse'
  BY <1>1, RecvFacts DEF TypeOK, BufInUse
<1>2. ASSUME NEW w \in Workers, Insert(w) PROVE BufInUse'
  BY <1>2, InsertFacts DEF TypeOK, BufInUse
<1>3. ASSUME NEW n \in 1 .. Len(Stream), Arrive(n) PROVE BufInUse'
  BY <1>3, ArriveFacts DEF BufInUse
<1>4. QED BY <1>1, <1>2, <1>3, OtherSteps DEF BufInUse

(* The places in the stream that the pieces meet at are in order.            *)
LEMMA PlaceFacts ==
    ASSUME TypeOK, ReceivedInOrder, ~overlapped
    PROVE  /\ Len(delivered) \in Nat /\ Len(m_recv_buf) \in Nat /\ Len(inbox) \in Nat
           /\ Len(delivered) <= ParsedTo /\ ParsedTo \in Nat
           /\ TakenTo \in ParsedTo .. arrived
           /\ arrived \in 0 .. Len(Stream)
           /\ Len(Stream) \in Nat
BY StreamType, LenProperties DEF TypeOK, ReceivedInOrder, ParsedTo, TakenTo

(* Arrive and Recv move bytes from one piece to the next. *)
LEMMA ArriveInOrder ==
    ASSUME TypeOK, ReceivedInOrder, NEW n \in 1 .. Len(Stream), Arrive(n)
    PROVE  ReceivedInOrder'
<1>1. SUFFICES ASSUME ~overlapped PROVE ReceivedInOrder'
  BY ArriveFacts DEF ReceivedInOrder
<1>2. /\ TakenTo \in 0 .. Len(Stream) /\ arrived \in TakenTo .. Len(Stream)
      /\ Len(inbox) \in Nat /\ arrived \in Nat /\ Len(Stream) \in Nat
  BY <1>1, PlaceFacts
<1>3. /\ arrived' = arrived + n /\ arrived' \in 0 .. Len(Stream) /\ arrived \in 0 .. arrived'
      /\ inbox' = inbox \o Segment(arrived, arrived')
      /\ Len(inbox') = Len(inbox) + n
      /\ UNCHANGED <<buf, m_recv_buf, delivered, overlapped>>
  BY ArriveFacts
<1>4. PICK k, a, b \in 0 .. Len(Stream) :
         /\ a \in k .. Len(Stream) /\ b \in a .. Len(Stream)
         /\ k = TakenTo /\ a = arrived /\ b = arrived'
  <2>1. arrived' \in arrived .. Len(Stream) BY <1>2, <1>3
  <2>2. QED BY <1>2, <2>1
<1>5. Segment(k, a) \o Segment(a, b) = Segment(k, b) BY <1>4, SegmentJoin
<1>6. inbox' = Segment(TakenTo, arrived') BY <1>1, <1>3, <1>4, <1>5 DEF ReceivedInOrder
<1>7. TakenTo' = TakenTo
  <2>1. arrived' = arrived + n /\ Len(inbox') = Len(inbox) + n /\ n \in Int BY <1>3
  <2> DEFINE x == Len(inbox)
             y == Len(inbox')
  <2>2. x \in Nat /\ y = x + n BY <1>2, <2>1
  <2> HIDE DEF x, y
  <2>3. (arrived + n) - y = arrived - x BY <1>2, <2>1, <2>2
  <2>4. QED BY <2>1, <2>3 DEF TakenTo, x, y
<1>8. ParsedTo' = ParsedTo BY <1>3 DEF ParsedTo
<1>9. QED BY <1>1, <1>3, <1>6, <1>7, <1>8 DEF ReceivedInOrder

LEMMA RecvInOrder ==
    ASSUME TypeOK, BufInUse, ReceivedInOrder, NEW w \in Workers, Recv(w)
    PROVE  ReceivedInOrder'
<1>1. PICK n \in 0 .. Len(inbox) :
              /\ pc[w] = "idle"
              /\ buf' = [buf EXCEPT ![w] = First(n, inbox)]
              /\ inbox' = Without(n, inbox)
              /\ overlapped' = (overlapped \/ (n > 0 /\ \E v \in Workers : buf[v] # <<>>))
              /\ UNCHANGED <<m_recv_buf, delivered, arrived>>
  BY RecvFacts
<1>2. SUFFICES ASSUME ~overlapped, n > 0 => \A v \in Workers : buf[v] = <<>>
               PROVE  ReceivedInOrder'
  BY <1>1 DEF ReceivedInOrder, TypeOK
<1>3. /\ ParsedTo \in Nat /\ TakenTo \in ParsedTo .. arrived /\ Len(inbox) \in Nat
      /\ arrived \in 0 .. Len(Stream) /\ Len(Stream) \in Nat /\ TakenTo = arrived - Len(inbox)
  BY <1>2, PlaceFacts DEF TakenTo
<1>4. PICK k, a \in 0 .. Len(Stream) :
         a \in k .. Len(Stream) /\ k = TakenTo /\ a = arrived
  <2>1. TakenTo \in 0 .. Len(Stream) /\ arrived \in TakenTo .. Len(Stream) BY <1>3
  <2>2. QED BY <1>3, <2>1
<1>5. n \in 0 .. a - k /\ inbox = Segment(k, a) BY <1>2, <1>3, <1>4 DEF ReceivedInOrder
<1>6. First(n, inbox) = Segment(k, k + n) /\ Without(n, inbox) = Segment(k + n, a)
  BY <1>5, SegmentCut
<1>7. Len(Segment(k + n, a)) = a - (k + n) /\ Len(Segment(k, k + n)) = n
  <2>1. /\ k + n \in 0 .. Len(Stream) /\ a \in k + n .. Len(Stream)
        /\ k + n \in k .. Len(Stream) /\ (k + n) - k = n
    BY <1>3, <1>4, <1>5
  <2>2. QED BY <2>1, SegmentFacts
<1>8. TakenTo' = k + n
  BY <1>1, <1>3, <1>4, <1>6, <1>7 DEF TakenTo
<1>9. ParsedTo' = ParsedTo BY <1>1 DEF ParsedTo
<1>10. buf[w] = <<>> BY <1>1 DEF BufInUse
<1>11. inbox' = Segment(TakenTo', arrived') BY <1>1, <1>4, <1>6, <1>8
<1>12. \A v \in Workers : buf'[v] = IF v = w THEN Segment(k, k + n) ELSE buf[v]
  BY <1>1, <1>6 DEF TypeOK
<1>13. CASE n = 0
  <2>1. Segment(k, k + n) = <<>>
    <3>1. Segment(k, k + n) \in Seq(Bytes)
      <4>1. k + n \in k .. Len(Stream) BY <1>3, <1>4, <1>5
      <4>2. QED BY <4>1, SegmentFacts
    <3>2. QED BY <1>7, <1>13, <3>1, EmptySeq, LenProperties
  <2>2. \A v \in Workers : buf'[v] = buf[v] BY <1>10, <1>12, <2>1
  <2>3. TakenTo' = TakenTo BY <1>3, <1>4, <1>8, <1>13
  <2>4. QED BY <1>1, <1>2, <1>9, <1>11, <2>2, <2>3 DEF ReceivedInOrder
<1>14. CASE n > 0
  <2>1. ParsedTo = k BY <1>2, <1>4, <1>14 DEF ReceivedInOrder
  <2>2. \A v \in Workers : buf'[v] # <<>> => v = w BY <1>2, <1>12, <1>14
  <2>3. buf'[w] = Segment(ParsedTo', TakenTo') BY <1>8, <1>9, <1>12, <2>1
  <2>4. buf'[w] # <<>>
    <3>1. Len(<<>>) = 0 BY EmptySeq
    <3>2. QED BY <1>7, <1>12, <1>14, <3>1
  <2>5. ParsedTo' <= TakenTo' BY <1>3, <1>4, <1>8, <1>9, <2>1
  <2>6. QED BY <1>1, <1>2, <1>9, <1>11, <2>2, <2>3, <2>4, <2>5 DEF ReceivedInOrder
<1>15. QED BY <1>13, <1>14, <1>3

(* Insert parses a segment that begins where a frame does.                   *)
LEMMA InsertInOrder ==
    ASSUME TypeOK, BufInUse, ReceivedInOrder, FramesUnlessOverlapped, ~overlapped,
           NEW w \in Workers, Insert(w)
    PROVE  ReceivedInOrder' /\ FramesUnlessOverlapped'
<1>1. PICK junk \in Bytes, n \in 0 .. Len(m_recv_buf \o buf[w]) :
              /\ n = FramesEnd(m_recv_buf \o buf[w], junk)
              /\ m_recv_buf' = Without(n, m_recv_buf \o buf[w])
              /\ delivered' = delivered \o First(n, m_recv_buf \o buf[w])
              /\ buf' = [buf EXCEPT ![w] = <<>>]
              /\ UNCHANGED <<inbox, overlapped, arrived>>
  BY InsertFacts
<1>2. PICK k \in 0 .. Len(Frames) : delivered = Whole(k)
  BY DEF FramesUnlessOverlapped, Whole
<1>3. /\ Len(delivered) \in Nat /\ ParsedTo \in Len(delivered) .. TakenTo
      /\ TakenTo \in 0 .. arrived /\ arrived \in 0 .. Len(Stream) /\ Len(Stream) \in Nat
  BY PlaceFacts
<1>4. PICK d, r, t \in 0 .. Len(Stream) :
         /\ r \in d .. Len(Stream) /\ t \in r .. Len(Stream)
         /\ d = Len(delivered) /\ r = ParsedTo /\ t = TakenTo
  BY <1>3
<1>5. PICK e \in {r, t} : /\ m_recv_buf \o buf[w] = Segment(d, e)
                          /\ buf[w] = <<>> => e = r
                          /\ buf[w] # <<>> => e = t
  <2>1. m_recv_buf = Segment(d, r) /\ m_recv_buf \in Seq(Bytes)
    BY <1>4 DEF ReceivedInOrder, TypeOK
  <2>2. CASE buf[w] = <<>> BY <2>1, <2>2, ConcatEmptySeq
  <2>3. CASE buf[w] # <<>>
    <3>1. buf[w] = Segment(r, t) BY <1>4, <2>3 DEF ReceivedInOrder
    <3>2. Segment(d, r) \o Segment(r, t) = Segment(d, t) BY <1>4, SegmentJoin
    <3>3. QED BY <2>1, <2>3, <3>1, <3>2
  <2>4. QED BY <2>2, <2>3
<1>6. e \in d .. Len(Stream) /\ e \in r .. t BY <1>3, <1>4
<1>7. PICK j \in k .. Len(Frames) :
              /\ Len(Whole(j)) \in d .. e
              /\ n = Len(Whole(j)) - d
              /\ j = Len(Frames) => e = Len(Whole(j))
              /\ j < Len(Frames) => e < Len(Whole(j + 1))
  <2>1. d = Len(Whole(k)) BY <1>2, <1>4
  <2>2. QED BY <1>1, <1>5, <1>6, <2>1, ParseFacts
<1>8. Len(Frames) \in Nat /\ j \in 0 .. Len(Frames) BY <1>7, WholeFacts
<1>9. PICK c \in d .. e : c = Len(Whole(j)) BY <1>7
<1>10. n = c - d /\ n \in 0 .. e - d /\ d + n = c BY <1>3, <1>4, <1>6, <1>7, <1>9
<1>11. First(n, Segment(d, e)) = Segment(d, c) /\ Without(n, Segment(d, e)) = Segment(c, e)
  BY <1>6, <1>10, SegmentCut
<1>12. c \in 0 .. Len(Stream) /\ c \in d .. Len(Stream) /\ e \in c .. Len(Stream)
  BY <1>3, <1>4, <1>6, <1>9
<1>13. delivered' = Segment(0, c)
  <2>1. delivered = Segment(0, d) BY <1>4 DEF ReceivedInOrder
  <2>2. 0 \in 0 .. Len(Stream) BY <1>3
  <2>3. Segment(0, d) \o Segment(d, c) = Segment(0, c) BY <1>3, <1>12, <2>2, SegmentJoin
  <2>4. QED BY <1>1, <1>5, <1>11, <2>1, <2>3
<1>14. delivered' = Whole(j) BY <1>8, <1>9, <1>13, WholeIsSegment
<1>15. m_recv_buf' = Segment(c, e) BY <1>1, <1>5, <1>11
<1>16. Len(delivered') = c /\ Len(m_recv_buf') = e - c
  BY <1>9, <1>12, <1>14, <1>15, SegmentFacts
<1>17. ParsedTo' = e /\ TakenTo' = TakenTo
  BY <1>1, <1>12, <1>3, <1>16 DEF ParsedTo, TakenTo
<1>18. ReceivedInOrder'
  <2>1. \A v \in Workers : buf'[v] = IF v = w THEN <<>> ELSE buf[v] BY <1>1 DEF TypeOK
  <2>2. delivered' = Segment(0, Len(delivered')) /\ m_recv_buf' = Segment(Len(delivered'), ParsedTo')
    BY <1>13, <1>15, <1>16, <1>17
  <2>3. inbox' = Segment(TakenTo', arrived') BY <1>1, <1>17 DEF ReceivedInOrder
  <2>4. ParsedTo' <= TakenTo' BY <1>3, <1>4, <1>6, <1>17
  <2>5. CASE buf[w] = <<>>
    <3>1. ParsedTo' = ParsedTo /\ \A v \in Workers : buf'[v] = buf[v]
      BY <1>4, <1>5, <1>17, <2>1, <2>5
    <3>2. QED BY <1>17, <2>2, <2>3, <2>4, <3>1 DEF ReceivedInOrder
  <2>6. CASE buf[w] # <<>>
    <3>1. \A v \in Workers : buf'[v] = <<>> BY <2>1, <2>6 DEF ReceivedInOrder
    <3>2. ParsedTo' = TakenTo' BY <1>4, <1>5, <1>17, <2>6
    <3>3. QED BY <2>2, <2>3, <2>4, <3>1, <3>2 DEF ReceivedInOrder
  <2>7. QED BY <2>5, <2>6
<1>19. CASE j = Len(Frames)
  <2>1. e - c = 0 BY <1>7, <1>9, <1>12, <1>19
  <2>2. m_recv_buf' = <<>>
    BY <1>12, <1>15, <1>16, <2>1, SegmentFacts, EmptySeq, LenProperties
  <2>3. QED BY <1>8, <1>14, <1>18, <1>19, <2>2 DEF FramesUnlessOverlapped, Whole
<1>20. CASE j # Len(Frames)
  <2>1. j \in 0 .. Len(Frames) - 1 /\ j < Len(Frames) BY <1>8, <1>20
  <2> DEFINE F == Frames[j + 1]
  <2>2. PICK x \in c .. Len(Stream) : x = Len(Whole(j + 1)) /\ F = Segment(c, x)
    <3>1. /\ Len(F) \in Nat /\ Len(Whole(j + 1)) = c + Len(F)
          /\ Len(Whole(j + 1)) <= Len(Stream)
          /\ F = Segment(c, Len(Whole(j + 1)))
      BY <1>9, <2>1, FrameFacts
    <3> HIDE DEF F
    <3>2. QED BY <1>3, <1>12, <3>1
  <2> HIDE DEF F
  <2>3. e < x BY <1>7, <2>1, <2>2
  <2>4. Len(F) = x - c /\ F \in Seq(Bytes) BY <1>12, <2>2, SegmentFacts
  <2>5. SubSeq(F, 1, e - c) = Segment(c, e)
    <3>1. e - c \in 0 .. x - c /\ c + (e - c) = e BY <1>12, <2>3
    <3>2. First(e - c, Segment(c, x)) = Segment(c, e) BY <1>12, <2>2, <3>1, SegmentCut
    <3>3. QED BY <2>2, <3>2 DEF First
  <2>6. Segment(c, e) \in Seq(Bytes) /\ Len(Segment(c, e)) = e - c BY <1>12, SegmentFacts
  <2>7. SubSeq(Segment(c, e), 1, Len(Segment(c, e))) = Segment(c, e) BY <2>6, SubSeqFull
  <2>8. Len(Segment(c, e)) <= Len(F) /\ Segment(c, e) # F BY <1>12, <2>3, <2>4, <2>6
  <2>9. IsStrictPrefix(m_recv_buf', F)
    BY <1>15, <2>5, <2>6, <2>7, <2>8 DEF IsStrictPrefix, IsPrefix
  <2>10. QED BY <1>8, <1>14, <1>18, <1>20, <2>9 DEF FramesUnlessOverlapped, Whole, F
<1>21. QED BY <1>18, <1>19, <1>20

(* Every step of the connection. *)
LEMMA RecvStep ==
    RInv /\ [Next]_vars => RInv'
<1>1. SUFFICES ASSUME RInv, [Next]_vars PROVE ReceivedInOrder' /\ FramesUnlessOverlapped'
  BY TypeStep, BufInUseStep, Step DEF RInv, IInv, TypeOK, SendTyped
<1> USE <1>1 DEF RInv
<1>2. ASSUME NEW n \in 1 .. Len(Stream), Arrive(n)
      PROVE  ReceivedInOrder' /\ FramesUnlessOverlapped'
  <2>1. UNCHANGED <<m_recv_buf, delivered, overlapped>> BY <1>2, ArriveFacts
  <2>2. QED BY <1>2, <2>1, ArriveInOrder DEF FramesUnlessOverlapped
<1>3. ASSUME NEW w \in Workers, Recv(w)
      PROVE  ReceivedInOrder' /\ FramesUnlessOverlapped'
  <2>1. UNCHANGED <<m_recv_buf, delivered>> /\ (overlapped => overlapped')
    BY <1>3, RecvFacts
  <2>2. QED BY <1>3, <2>1, RecvInOrder DEF FramesUnlessOverlapped
<1>4. ASSUME NEW w \in Workers, Insert(w)
      PROVE  ReceivedInOrder' /\ FramesUnlessOverlapped'
  <2>1. CASE overlapped
    <3>1. overlapped' BY <1>4, <2>1, InsertFacts
    <3>2. QED BY <3>1 DEF ReceivedInOrder, FramesUnlessOverlapped
  <2>2. CASE ~overlapped BY <1>4, <2>2, InsertInOrder
  <2>3. QED BY <2>1, <2>2
<1>5. CASE UNCHANGED <<buf, m_recv_buf, inbox, delivered, overlapped, arrived>>
  BY <1>5 DEF ReceivedInOrder, FramesUnlessOverlapped, ParsedTo, TakenTo
<1>6. QED BY <1>2, <1>3, <1>4, <1>5, OtherSteps

LEMMA RecvInit == Init => RInv
<1>1. SUFFICES ASSUME Init PROVE RInv OBVIOUS
<1>2. TypeOK /\ SentInOrder BY <1>1, TypeInit, Start DEF IInv
<1>3. BufInUse BY <1>1 DEF Init, BufInUse
<1>4. Len(<<>>) = 0 BY EmptySeq
<1>5. Segment(0, 0) = <<>>
  <2>1. SubSeq(Stream, 1, 0) = <<>> BY SubSeqEmpty
  <2>2. 0 + 1 = 1 OBVIOUS
  <2>3. QED BY <2>1, <2>2 DEF Segment
<1>6. ReceivedInOrder
  <2>1. Len(delivered) = 0 /\ Len(m_recv_buf) = 0 /\ Len(inbox) = 0 /\ arrived = 0
    BY <1>1, <1>4 DEF Init
  <2>2. ParsedTo = 0 /\ TakenTo = 0
    <3> DEFINE a == Len(delivered)
               b == Len(m_recv_buf)
               c == Len(inbox)
    <3>1. a = 0 /\ b = 0 /\ c = 0 BY <2>1
    <3> HIDE DEF a, b, c
    <3>2. a + b = 0 /\ arrived - c = 0 BY <2>1, <3>1
    <3>3. QED BY <3>2 DEF ParsedTo, TakenTo, a, b, c
  <2>3. QED BY <1>1, <1>4, <1>5, <2>1, <2>2 DEF Init, ReceivedInOrder
<1>7. FramesUnlessOverlapped
  <2>1. 0 \in 0 .. Len(Frames) BY WholeFacts
  <2>2. delivered = Whole(0) BY <1>1, WholeFacts DEF Init
  <2>3. Len(Frames) # 0 => IsStrictPrefix(<<>>, Frames[0 + 1])
    <3>1. SUFFICES ASSUME Len(Frames) # 0 PROVE IsStrictPrefix(<<>>, Frames[0 + 1]) OBVIOUS
    <3>2. 0 \in 0 .. Len(Frames) - 1 BY <3>1, WholeFacts
    <3>3. Len(Frames[0 + 1]) \in Nat /\ Len(Frames[0 + 1]) >= 2 BY <3>2, FrameFacts
    <3>4. SubSeq(<<>>, 1, 0) = <<>> /\ SubSeq(Frames[0 + 1], 1, 0) = <<>> BY SubSeqEmpty
    <3>5. <<>> # Frames[0 + 1] BY <1>4, <3>3
    <3>6. QED BY <1>4, <3>3, <3>4, <3>5 DEF IsStrictPrefix, IsPrefix
  <2>4. QED BY <1>1, <2>1, <2>2, <2>3 DEF Init, FramesUnlessOverlapped, Whole
<1>8. QED BY <1>2, <1>3, <1>6, <1>7 DEF RInv

(* However the peer's bytes are cut up on their way, Receive hands out its   *)
(* frames, whole and in order, and leaves less than a frame: the loop over   *)
(* m_recv_buf (tcpsocket.cpp:56-74) - until two workers' receives overlap.   *)
THEOREM FramesInOrder == Spec => []FramesUnlessOverlapped
<1>1. RInv => FramesUnlessOverlapped BY DEF RInv
<1>2. QED BY RecvInit, RecvStep, <1>1, PTL DEF Spec
=============================================================================
