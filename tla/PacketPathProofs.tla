-------------------------- MODULE PacketPathProofs --------------------------
(***************************************************************************)
(* What holds of the bytes on their way through the handlers, for every    *)
(* set of names, records, flags and ids.                                   *)
(***************************************************************************)
EXTENDS PacketPath, SequenceLemmas

(* ParseName's function, on the bytes of s.                                  *)
ParseEq(f, s) ==
    f = [i \in Nat \ {0} |->
            IF i > Len(s)           THEN [value |-> <<>>, next |-> i]
            ELSE IF IsPointer(s[i]) THEN [value |-> SubSeq(s, i, i + 1), next |-> i + 2]
            ELSE IF s[i] = 0        THEN [value |-> <<>>, next |-> i + 1]
            ELSE [value |-> SubSeq(s, i + 1, i + s[i]) \o <<Dot>> \o f[i + s[i] + 1].value,
                  next  |-> f[i + s[i] + 1].next]]

LEMMA ParseExists == ASSUME NEW s \in Seq(Bytes) PROVE \E f : ParseEq(f, s)
<1> DEFINE L == Len(s)
           D == Nat \ {0}
           A == Bytes \cup {s[k] : k \in 1 .. L + 256}
           V == [value : Seq(A), next : D]
           rank == [i \in D |-> IF i <= L THEN L + 1 - i ELSE 0]
           P == {i \in D : i <= L /\ ~IsPointer(s[i]) /\ s[i] # 0}
           g == [i \in P |-> i + s[i] + 1]
           base == [i \in D |->
                      IF i > L THEN [value |-> <<>>, next |-> i]
                      ELSE IF IsPointer(s[i]) THEN [value |-> SubSeq(s, i, i + 1), next |-> i + 2]
                      ELSE [value |-> <<>>, next |-> i + 1]]
           H(i, x) == [value |-> SubSeq(s, i + 1, i + s[i]) \o <<Dot>> \o x.value, next |-> x.next]
           G == [i \in P |-> [x \in V |-> H(i, x)]]
<1>1. L \in Nat /\ \A i \in 1 .. L : s[i] \in Bytes BY LenProperties, ElementOfSeq
<1>2. ASSUME NEW i \in P PROVE i \in 1 .. L /\ s[i] \in Nat /\ s[i] <= 255 /\ s[i] # 0
  <2>1. i \in 1 .. L /\ s[i] # 0 BY <1>1
  <2>2. s[i] \in Bytes BY <1>1, <2>1
  <2>3. \A b \in Bytes : b \in Nat /\ b <= 255 BY DEF Bytes
  <2> HIDE DEF P
  <2>4. QED BY <2>1, <2>2, <2>3
<1>3. rank \in [D -> 0 .. L] BY <1>1
<1>4. g \in [P -> D] BY <1>2
<1>5. ASSUME NEW i \in P PROVE rank[g[i]] < rank[i]
  <2>1. i \in D /\ i <= L /\ rank[i] = L + 1 - i BY <1>2
  <2>2. i + s[i] + 1 \in D /\ i + s[i] + 1 > i BY <1>2
  <2>3. rank[i + s[i] + 1] < L + 1 - i BY <1>1, <2>1, <2>2
  <2>4. QED BY <2>1, <2>3
<1>6. \A i, j \in Int : i >= 1 /\ j <= L + 256 => SubSeq(s, i, j) \in Seq(A)
  <2>1. SUFFICES ASSUME NEW i \in Int, NEW j \in Int, i >= 1, j <= L + 256
                 PROVE  SubSeq(s, i, j) \in Seq(A)
    OBVIOUS
  <2>2. \A k \in i .. j : s[k] \in A
    <3>1. \A k \in i .. j : k \in 1 .. L + 256 BY <1>1, <2>1
    <3>2. QED BY <3>1
  <2>3. QED BY <2>2, SubSeqProperties
<1>7. <<>> \in Seq(A) /\ <<Dot>> \in Seq(A)
  <2>1. Dot \in A BY DEF Dot, Bytes
  <2>2. QED BY <2>1, EmptySeq
<1>8. base \in [D -> V]
  <2>1. SUFFICES ASSUME NEW i \in D PROVE base[i] \in V OBVIOUS
  <2>2. i <= L => SubSeq(s, i, i + 1) \in Seq(A) BY <1>1, <1>6
  <2> HIDE DEF A
  <2>3. QED BY <1>7, <2>2
<1>9. G \in [P -> [V -> V]]
  <2>1. ASSUME NEW i \in P, NEW x \in V PROVE H(i, x) \in V
    <3>1. SubSeq(s, i + 1, i + s[i]) \in Seq(A)
      <4>1. i + 1 \in Int /\ i + s[i] \in Int /\ i + 1 >= 1 /\ i + s[i] <= L + 256
        BY <1>1, <1>2
      <4>2. QED BY <1>6, <4>1
    <3> HIDE DEF A
    <3>2. x.value \in Seq(A) /\ x.next \in D OBVIOUS
    <3>3. SubSeq(s, i + 1, i + s[i]) \o <<Dot>> \o x.value \in Seq(A)
      BY <1>7, <3>1, <3>2, ConcatProperties
    <3> HIDE DEF P, D
    <3>4. QED BY <3>2, <3>3
  <2> HIDE DEF P, V, H
  <2>2. QED BY <2>1
<1>10. P \in SUBSET D OBVIOUS
<1> HIDE DEF rank, g, base, G, V, P
<1>11. PICK f : Recurs(f, D, V, P, g, base, G)
  <2>1. IsRecursion(D, V, L, rank, P, g, base, G)
    BY <1>1, <1>3, <1>4, <1>5, <1>8, <1>9, <1>10 DEF IsRecursion
  <2>2. QED BY <2>1, RecursiveFunction
<1>12. ASSUME NEW i \in P
       PROVE  f[i] = [value |-> SubSeq(s, i + 1, i + s[i]) \o <<Dot>> \o f[i + s[i] + 1].value,
                      next  |-> f[i + s[i] + 1].next]
  <2>1. g[i] = i + s[i] + 1 /\ g[i] \in D BY <1>4 DEF g
  <2>2. f[g[i]] \in V /\ f[i] = G[i][f[g[i]]] BY <1>10, <1>11, <2>1 DEF Recurs
  <2>3. QED BY <2>1, <2>2 DEF G
<1>13. ASSUME NEW i \in D
       PROVE  f[i] = IF i > Len(s)           THEN [value |-> <<>>, next |-> i]
                     ELSE IF IsPointer(s[i]) THEN [value |-> SubSeq(s, i, i + 1), next |-> i + 2]
                     ELSE IF s[i] = 0        THEN [value |-> <<>>, next |-> i + 1]
                     ELSE [value |-> SubSeq(s, i + 1, i + s[i]) \o <<Dot>> \o f[i + s[i] + 1].value,
                           next  |-> f[i + s[i] + 1].next]
  <2>1. CASE i \in P
    <3>1. ~(i > Len(s)) /\ ~IsPointer(s[i]) /\ s[i] # 0 BY <1>1, <2>1 DEF P
    <3>2. QED BY <1>12, <2>1, <3>1
  <2>2. CASE i \notin P
    <3>1. f[i] = base[i] BY <1>11, <2>2 DEF Recurs
    <3>2. i > L \/ IsPointer(s[i]) \/ s[i] = 0 BY <1>1, <2>2 DEF P
    <3>3. QED BY <3>1, <3>2 DEF base
  <2>3. QED BY <2>1, <2>2
<1>14. ParseEq(f, s) BY <1>11, <1>13 DEF ParseEq, Recurs
<1>15. QED BY <1>14

(* ParseName calls itself behind each label. *)
LEMMA ParseNameStep ==
    ASSUME NEW s \in Seq(Bytes), NEW i \in Nat \ {0}
    PROVE  i <= Len(s) =>
              ParseName(s, i) =
                 IF IsPointer(s[i]) THEN [value |-> SubSeq(s, i, i + 1), next |-> i + 2]
                 ELSE IF s[i] = 0   THEN [value |-> <<>>, next |-> i + 1]
                 ELSE [value |-> SubSeq(s, i + 1, i + s[i]) \o <<Dot>>
                                    \o ParseName(s, i + s[i] + 1).value,
                       next  |-> ParseName(s, i + s[i] + 1).next]
<1> DEFINE e == CHOOSE f : ParseEq(f, s)
<1>1. ParseEq(e, s) BY ParseExists
<1>2. \A p : ParseName(s, p) = e[p] BY DEF ParseName, ParseEq
<1> HIDE DEF e
<1>3. e[i] = IF i > Len(s)           THEN [value |-> <<>>, next |-> i]
              ELSE IF IsPointer(s[i]) THEN [value |-> SubSeq(s, i, i + 1), next |-> i + 2]
              ELSE IF s[i] = 0        THEN [value |-> <<>>, next |-> i + 1]
              ELSE [value |-> SubSeq(s, i + 1, i + s[i]) \o <<Dot>> \o e[i + s[i] + 1].value,
                    next  |-> e[i + s[i] + 1].next]
  BY <1>1, Zenon DEF ParseEq
<1>4. i <= Len(s) => ~(i > Len(s)) BY LenProperties
<1>5. QED BY <1>2, <1>3, <1>4, Zenon

-----------------------------------------------------------------------------
(* The dot behind position i, or the end. *)
IsDotFrom(j, text, i) ==
    /\ j \in i .. Len(text) + 1
    /\ j <= Len(text) => text[j] = Dot
    /\ \A k \in i .. j - 1 : text[k] # Dot

LEMMA DotFromFacts ==
    ASSUME NEW text \in Seq(Bytes), NEW i \in 1 .. Len(text)
    PROVE  IsDotFrom(DotFrom(text, i), text, i)
<1>1. Len(text) \in Nat BY LenProperties
<1> DEFINE T == {j \in i .. Len(text) + 1 : j <= Len(text) => text[j] = Dot}
<1>2. Len(text) + 1 \in T BY <1>1
<1>3. T \in SUBSET Nat BY <1>1
<1>4. PICK j \in T : \A k \in T : j <= k
  <2> HIDE DEF T
  <2>1. QED BY <1>2, <1>3, Least
<1>5. ASSUME NEW k \in i .. j - 1 PROVE text[k] # Dot
  <2>1. k \in i .. Len(text) + 1 /\ ~(j <= k) BY <1>1, <1>4
  <2>2. k \notin T BY <1>4, <2>1
  <2>3. QED BY <2>1, <2>2
<1>6. IsDotFrom(j, text, i) BY <1>4, <1>5 DEF IsDotFrom
<1>7. DotFrom(text, i) = CHOOSE n \in i .. Len(text) + 1 : IsDotFrom(n, text, i)
  BY DEF DotFrom, IsDotFrom
<1>8. QED BY <1>6, <1>7 DEF IsDotFrom

(* There is one such position. *)
LEMMA DotFromIs ==
    ASSUME NEW text \in Seq(Bytes), NEW i \in 1 .. Len(text), NEW j, IsDotFrom(j, text, i)
    PROVE  DotFrom(text, i) = j
<1> DEFINE d == DotFrom(text, i)
<1>1. Len(text) \in Nat BY LenProperties
<1>2. IsDotFrom(d, text, i) BY DotFromFacts
<1> HIDE DEF d
<1>3. d \in Nat /\ j \in Nat /\ d >= i /\ j >= i /\ d <= Len(text) + 1 /\ j <= Len(text) + 1
  BY <1>1, <1>2 DEF IsDotFrom
<1>4. ~(d < j)
  <2>1. SUFFICES ASSUME d < j PROVE FALSE OBVIOUS
  <2>2. d \in i .. j - 1 /\ d <= Len(text) BY <1>1, <1>3, <2>1
  <2>3. QED BY <1>2, <2>2 DEF IsDotFrom
<1>5. ~(j < d)
  <2>1. SUFFICES ASSUME j < d PROVE FALSE OBVIOUS
  <2>2. j \in i .. d - 1 /\ j <= Len(text) BY <1>1, <1>3, <2>1
  <2>3. QED BY <1>2, <2>2 DEF IsDotFrom
<1>6. QED BY <1>3, <1>4, <1>5 DEF d

(* SerializeName's function, on a text.                                      *)
SerializeEq(f, text) ==
    f = [i \in Nat \ {0} |->
            IF i > Len(text)           THEN <<0>>
            ELSE IF IsPointer(text[i]) THEN SubSeq(text, i, i + 1)
            ELSE <<DotFrom(text, i) - i>> \o SubSeq(text, i, DotFrom(text, i) - 1)
                     \o f[DotFrom(text, i) + 1]]

LEMMA SerializeExists == ASSUME NEW text \in Seq(Bytes) PROVE \E f : SerializeEq(f, text)
<1> DEFINE L == Len(text)
           D == Nat \ {0}
           A == Int \cup {text[k] : k \in 1 .. L + 1}
           V == Seq(A)
           rank == [i \in D |-> IF i <= L THEN L + 1 - i ELSE 0]
           P == {i \in D : i <= L /\ ~IsPointer(text[i])}
           g == [i \in P |-> DotFrom(text, i) + 1]
           base == [i \in D |-> IF i > L THEN <<0>> ELSE SubSeq(text, i, i + 1)]
           G == [i \in P |-> [x \in V |->
                   <<DotFrom(text, i) - i>> \o SubSeq(text, i, DotFrom(text, i) - 1) \o x]]
<1>1. L \in Nat /\ \A i \in 1 .. L : text[i] \in Bytes BY LenProperties, ElementOfSeq
<1>2. ASSUME NEW i \in P
      PROVE  /\ i \in 1 .. L
             /\ DotFrom(text, i) \in Nat /\ DotFrom(text, i) >= i /\ DotFrom(text, i) <= L + 1
  <2>1. i \in 1 .. L BY <1>1
  <2>2. DotFrom(text, i) \in i .. L + 1 BY <2>1, DotFromFacts DEF IsDotFrom
  <2>3. QED BY <1>1, <2>1, <2>2
<1>3. rank \in [D -> 0 .. L] BY <1>1
<1>4. g \in [P -> D] BY <1>2
<1>5. ASSUME NEW i \in P PROVE rank[g[i]] < rank[i]
  <2>1. i \in D /\ i <= L /\ rank[i] = L + 1 - i BY <1>2
  <2>2. DotFrom(text, i) + 1 \in D /\ DotFrom(text, i) + 1 > i BY <1>2
  <2>3. rank[DotFrom(text, i) + 1] < L + 1 - i BY <1>1, <2>1, <2>2
  <2>4. QED BY <2>1, <2>3
<1>6. ASSUME NEW i \in Int, NEW j \in Int, i >= 1, j <= L + 1 PROVE SubSeq(text, i, j) \in Seq(A)
  <2>1. \A k \in i .. j : text[k] \in A
    <3>1. \A k \in i .. j : k \in 1 .. L + 1 BY <1>1, <1>6
    <3>2. QED BY <3>1
  <2>2. QED BY <2>1, SubSeqProperties
<1>7. base \in [D -> V]
  <2>1. SUFFICES ASSUME NEW i \in D PROVE base[i] \in V OBVIOUS
  <2>2. i <= L => SubSeq(text, i, i + 1) \in Seq(A) BY <1>1, <1>6
  <2>3. <<0>> \in Seq(A) OBVIOUS
  <2> HIDE DEF A
  <2>4. QED BY <1>1, <2>2, <2>3
<1>8. G \in [P -> [V -> V]]
  <2>1. SUFFICES ASSUME NEW i \in P, NEW x \in V PROVE G[i][x] \in V OBVIOUS
  <2>2. SubSeq(text, i, DotFrom(text, i) - 1) \in Seq(A)
    <3>1. i \in Int /\ DotFrom(text, i) - 1 \in Int /\ i >= 1 /\ DotFrom(text, i) - 1 <= L + 1
      BY <1>1, <1>2
    <3>2. QED BY <1>6, <3>1
  <2>3. <<DotFrom(text, i) - i>> \in Seq(A)
    <3>1. DotFrom(text, i) - i \in A BY <1>2
    <3>2. QED BY <3>1
  <2>4. G[i][x] = <<DotFrom(text, i) - i>> \o SubSeq(text, i, DotFrom(text, i) - 1) \o x
    <3> HIDE DEF V, P
    <3>1. QED OBVIOUS
  <2> HIDE DEF P, G, D, A
  <2>5. QED BY <2>2, <2>3, <2>4, ConcatProperties
<1>9. P \in SUBSET D OBVIOUS
<1> HIDE DEF rank, g, base, G, V, P
<1>10. PICK f : Recurs(f, D, V, P, g, base, G)
  <2>1. IsRecursion(D, V, L, rank, P, g, base, G)
    BY <1>1, <1>3, <1>4, <1>5, <1>7, <1>8, <1>9 DEF IsRecursion
  <2>2. QED BY <2>1, RecursiveFunction
<1>11. ASSUME NEW i \in P
       PROVE  f[i] = <<DotFrom(text, i) - i>> \o SubSeq(text, i, DotFrom(text, i) - 1)
                        \o f[DotFrom(text, i) + 1]
  <2>1. g[i] = DotFrom(text, i) + 1 /\ g[i] \in D BY <1>4 DEF g
  <2>2. f[g[i]] \in V /\ f[i] = G[i][f[g[i]]] BY <1>9, <1>10, <2>1 DEF Recurs
  <2>3. QED BY <2>1, <2>2 DEF G
<1>12. ASSUME NEW i \in D
       PROVE  f[i] = IF i > Len(text)           THEN <<0>>
                     ELSE IF IsPointer(text[i]) THEN SubSeq(text, i, i + 1)
                     ELSE <<DotFrom(text, i) - i>> \o SubSeq(text, i, DotFrom(text, i) - 1)
                              \o f[DotFrom(text, i) + 1]
  <2>1. CASE i \in P
    <3>1. ~(i > Len(text)) /\ ~IsPointer(text[i]) BY <1>1, <2>1 DEF P
    <3>2. QED BY <1>11, <2>1, <3>1
  <2>2. CASE i \notin P
    <3>1. f[i] = base[i] BY <1>10, <2>2 DEF Recurs
    <3>2. i > L \/ IsPointer(text[i]) BY <1>1, <2>2 DEF P
    <3>3. QED BY <3>1, <3>2 DEF base
  <2>3. QED BY <2>1, <2>2
<1>13. SerializeEq(f, text) BY <1>10, <1>12 DEF SerializeEq, Recurs
<1>14. QED BY <1>13

LEMMA SerializeNameIs ==
    ASSUME NEW text \in Seq(Bytes)
    PROVE  \E f : SerializeEq(f, text) /\ SerializeName(text) = f[1]
<1> DEFINE e == CHOOSE f : SerializeEq(f, text)
<1>1. SerializeEq(e, text) BY SerializeExists
<1>2. SerializeName(text) = e[1] BY DEF SerializeName, SerializeEq
<1>3. QED BY <1>1, <1>2

-----------------------------------------------------------------------------
(* LabelStarts' function, on the bytes of s.                                 *)
StartsEq(f, s) ==
    f = [i \in Nat \ {0} |->
            IF i > Len(s) \/ s[i] = 0 THEN {} ELSE {i} \cup f[i + s[i] + 1]]

LEMMA StartsExist == ASSUME NEW s \in Seq(Bytes) PROVE \E f : StartsEq(f, s)
<1> DEFINE L == Len(s)
           D == Nat \ {0}
           V == SUBSET Nat
           rank == [i \in D |-> IF i <= L THEN L + 1 - i ELSE 0]
           P == {i \in D : i <= L /\ s[i] # 0}
           g == [i \in P |-> i + s[i] + 1]
           base == [i \in D |-> {}]
           G == [i \in P |-> [x \in V |-> {i} \cup x]]
<1>1. L \in Nat /\ \A i \in 1 .. L : s[i] \in Bytes BY LenProperties, ElementOfSeq
<1>2. ASSUME NEW i \in P PROVE i \in 1 .. L /\ s[i] \in Nat
  <2>1. i \in 1 .. L BY <1>1
  <2>2. s[i] \in Bytes BY <1>1, <2>1
  <2>3. \A b \in Bytes : b \in Nat BY DEF Bytes
  <2> HIDE DEF P
  <2>4. QED BY <2>1, <2>2, <2>3
<1>3. rank \in [D -> 0 .. L] BY <1>1
<1>4. g \in [P -> D] BY <1>2
<1>5. ASSUME NEW i \in P PROVE rank[g[i]] < rank[i]
  <2>1. i \in D /\ i <= L /\ rank[i] = L + 1 - i BY <1>2
  <2>2. i + s[i] + 1 \in D /\ i + s[i] + 1 > i BY <1>2
  <2>3. rank[i + s[i] + 1] < L + 1 - i BY <1>1, <2>1, <2>2
  <2>4. QED BY <2>1, <2>3
<1>6. base \in [D -> V] OBVIOUS
<1>7. G \in [P -> [V -> V]] OBVIOUS
<1>8. P \in SUBSET D OBVIOUS
<1> HIDE DEF rank, g, base, G, V, P
<1>9. PICK f : Recurs(f, D, V, P, g, base, G)
  <2>1. IsRecursion(D, V, L, rank, P, g, base, G)
    BY <1>1, <1>3, <1>4, <1>5, <1>6, <1>7, <1>8 DEF IsRecursion
  <2>2. QED BY <2>1, RecursiveFunction
<1>10. ASSUME NEW i \in P PROVE f[i] = {i} \cup f[i + s[i] + 1]
  <2>1. g[i] = i + s[i] + 1 /\ g[i] \in D BY <1>4 DEF g
  <2>2. f[g[i]] \in V /\ f[i] = G[i][f[g[i]]] BY <1>8, <1>9, <2>1 DEF Recurs
  <2>3. QED BY <2>1, <2>2 DEF G
<1>11. ASSUME NEW i \in D
       PROVE  f[i] = IF i > Len(s) \/ s[i] = 0 THEN {} ELSE {i} \cup f[i + s[i] + 1]
  <2>1. CASE i \in P
    <3>1. ~(i > Len(s) \/ s[i] = 0) BY <1>1, <2>1 DEF P
    <3>2. QED BY <1>10, <2>1, <3>1
  <2>2. CASE i \notin P
    <3>1. f[i] = base[i] BY <1>9, <2>2 DEF Recurs
    <3>2. i > L \/ s[i] = 0 BY <1>1, <2>2 DEF P
    <3>3. QED BY <3>1, <3>2 DEF base
  <2>3. QED BY <2>1, <2>2
<1>12. StartsEq(f, s) BY <1>9, <1>11 DEF StartsEq, Recurs
<1>13. QED BY <1>12

LEMMA LabelStartsIs ==
    ASSUME NEW s \in Seq(Bytes)
    PROVE  \E f : StartsEq(f, s) /\ LabelStarts(s) = f[13]
<1> DEFINE e == CHOOSE f : StartsEq(f, s)
<1>1. StartsEq(e, s) BY StartsExist
<1>2. LabelStarts(s) = e[13] BY DEF LabelStarts, StartsEq
<1>3. QED BY <1>1, <1>2

-----------------------------------------------------------------------------
(* A name within s, up to e: W are where its labels begin, and its last byte *)
(* or its pointer.                                                           *)
Chain(s, W, e) ==
    /\ e \in 1 .. Len(s)
    /\ W \subseteq 1 .. e
    /\ \A i \in W : \/ s[i] = 0 /\ i = e
                    \/ IsPointer(s[i]) /\ i + 1 = e
                    \/ s[i] \in 1 .. 63 /\ i + s[i] + 1 \in W

Pointerless(s, W) == \A i \in W : ~IsPointer(s[i])

LEMMA NoPointer == (\A b \in 0 .. 63 : ~IsPointer(b)) /\ ~IsPointer(Dot)
BY DEF IsPointer, Dot

(* What holds of the end of a name, and of a label and what is behind it if  *)
(* of that, holds of the name.                                               *)
IsBuiltUp(s, W, e, T) ==
    /\ \A i \in W : s[i] = 0 /\ i = e => i \in T
    /\ \A i \in W : IsPointer(s[i]) /\ i + 1 = e => i \in T
    /\ \A i \in W : s[i] \in 1 .. 63 /\ i + s[i] + 1 \in W /\ i + s[i] + 1 \in T => i \in T

LEMMA ChainInduction ==
    ASSUME NEW s \in Seq(Bytes), NEW W, NEW e, Chain(s, W, e), NEW T, IsBuiltUp(s, W, e, T)
    PROVE  W \subseteq T
<1>0. /\ \A i \in W : s[i] = 0 /\ i = e => i \in T
      /\ \A i \in W : IsPointer(s[i]) /\ i + 1 = e => i \in T
      /\ \A i \in W : s[i] \in 1 .. 63 /\ i + s[i] + 1 \in W /\ i + s[i] + 1 \in T => i \in T
  BY DEF IsBuiltUp
<1> DEFINE U == {m \in Nat : \A i \in W : e - i <= m => i \in T}
<1>1. e \in Nat /\ \A i \in W : i \in Nat /\ i <= e BY LenProperties DEF Chain
<1>2. 0 \in U
  <2>1. ASSUME NEW i \in W, e - i <= 0 PROVE i \in T
    <3>1. i = e BY <1>1, <2>1
    <3>2. CASE s[i] = 0 BY <1>0, <3>1, <3>2
    <3>3. CASE IsPointer(s[i]) /\ i + 1 = e BY <1>0, <3>3
    <3>4. CASE s[i] \in 1 .. 63 /\ i + s[i] + 1 \in W
      <4>1. PICK n \in 1 .. 63 : n = s[i] BY <3>4
      <4>2. i + n + 1 <= e BY <1>1, <3>4, <4>1
      <4>3. QED BY <1>1, <3>1, <4>2
    <3>5. QED BY <3>2, <3>3, <3>4 DEF Chain
  <2>2. QED BY <2>1
<1>3. ASSUME NEW m \in Nat, m \in U PROVE m + 1 \in U
  <2>1. ASSUME NEW i \in W, e - i <= m + 1 PROVE i \in T
    <3>1. CASE s[i] = 0 /\ i = e BY <1>0, <3>1
    <3>2. CASE IsPointer(s[i]) /\ i + 1 = e BY <1>0, <3>2
    <3>3. CASE s[i] \in 1 .. 63 /\ i + s[i] + 1 \in W
      <4>1. PICK n \in 1 .. 63 : n = s[i] BY <3>3
      <4>2. i \in Nat /\ e \in Nat /\ e - (i + n + 1) <= m BY <1>1, <2>1
      <4>3. i + n + 1 \in T BY <1>3, <3>3, <4>1, <4>2
      <4>4. QED BY <1>0, <3>3, <4>1, <4>3
    <3>4. QED BY <3>1, <3>2, <3>3 DEF Chain
  <2>2. QED BY <2>1
<1>4. ASSUME NEW i \in W PROVE i \in T
  <2> HIDE DEF U
  <2>1. e - i \in Nat BY <1>1
  <2>2. e - i \in U BY <1>2, <1>3, <2>1, SetInduction
  <2>3. QED BY <1>1, <2>2 DEF U
<1>5. QED BY <1>4

(* What parse makes of the name at i: its text, and where it goes on.        *)
TextAt(s, i) == ParseName(s, i).value
EndAt(s, i)  == ParseName(s, i).next

Label(s, i, n) == SubSeq(s, i + 1, i + n)

(* A label of n bytes at i in a name up to e: its bytes, a dot, and the text *)
(* of what is behind.                                                        *)
IsLabelAt(s, e, i, n) ==
    /\ i \in Nat \ {0} /\ e \in Nat /\ i + n + 1 <= e /\ e <= Len(s) /\ Len(s) \in Nat
    /\ Label(s, i, n) \in Seq(Bytes) /\ Len(Label(s, i, n)) = n
    /\ \A k \in 1 .. n : Label(s, i, n)[k] = s[i + k]
    /\ TextAt(s, i) = (Label(s, i, n) \o <<Dot>>) \o TextAt(s, i + n + 1)
    /\ EndAt(s, i) = EndAt(s, i + n + 1)

LEMMA LabelFacts ==
    ASSUME NEW s \in Seq(Bytes), NEW W, NEW e, Chain(s, W, e), NEW i \in W,
           NEW n \in 1 .. 63, s[i] = n, i + n + 1 \in W
    PROVE  IsLabelAt(s, e, i, n)
<1>1. Len(s) \in Nat /\ \A k \in 1 .. Len(s) : s[k] \in Bytes BY LenProperties, ElementOfSeq
<1>2. i \in Nat /\ i >= 1 /\ e \in Nat /\ i + n + 1 <= e /\ e <= Len(s) BY <1>1 DEF Chain
<1>3. /\ SubSeq(s, i + 1, i + n) \in Seq(Bytes)
      /\ Len(SubSeq(s, i + 1, i + n)) = n
      /\ \A k \in 1 .. n : SubSeq(s, i + 1, i + n)[k] = s[i + k]
  <2>1. PICK a \in Int : a = i + 1 BY <1>2
  <2>2. PICK b \in Int : b = i + n BY <1>2
  <2>3. \A k \in a .. b : s[k] \in Bytes BY <1>1, <1>2, <2>1, <2>2
  <2> DEFINE d == SubSeq(s, a, b)
  <2>4. /\ d \in Seq(Bytes)
        /\ Len(d) = IF a <= b THEN b - a + 1 ELSE 0
        /\ \A k \in 1 .. b - a + 1 : d[k] = s[a + k - 1]
    BY ONLY <2>3, a \in Int, b \in Int, SubSeqProperties
  <2>5. SubSeq(s, i + 1, i + n) = d BY <2>1, <2>2
  <2> HIDE DEF d
  <2>6. b - a + 1 = n /\ a <= b BY <1>2, <2>1, <2>2
  <2>7. \A k \in 1 .. n : a + k - 1 = i + k BY <1>2, <2>1
  <2>8. Len(d) = n BY <2>4, <2>6
  <2>9. \A k \in 1 .. n : d[k] = s[i + k] BY <2>4, <2>6, <2>7
  <2>10. QED BY <2>4, <2>5, <2>8, <2>9
<1>4. ParseName(s, i) =
         [value |-> SubSeq(s, i + 1, i + n) \o <<Dot>> \o ParseName(s, i + n + 1).value,
          next  |-> ParseName(s, i + n + 1).next]
  <2>1. n \in 0 .. 63 /\ n # 0 /\ i \in Nat \ {0} /\ i <= Len(s) BY <1>1, <1>2
  <2>2. ~IsPointer(s[i]) /\ s[i] # 0 BY <2>1, NoPointer
  <2>3. QED BY <2>1, <2>2, ParseNameStep
<1>5. /\ TextAt(s, i) = (Label(s, i, n) \o <<Dot>>) \o TextAt(s, i + n + 1)
      /\ EndAt(s, i) = EndAt(s, i + n + 1)
  <2> DEFINE v == SubSeq(s, i + 1, i + n) \o <<Dot>> \o ParseName(s, i + n + 1).value
             x == ParseName(s, i + n + 1).next
  <2>1. ParseName(s, i) = [value |-> v, next |-> x] BY <1>4
  <2> HIDE DEF v, x
  <2>2. ParseName(s, i).value = v /\ ParseName(s, i).next = x BY <2>1
  <2>3. QED BY <2>2 DEF TextAt, EndAt, Label, v, x
<1>6. /\ Label(s, i, n) \in Seq(Bytes) /\ Len(Label(s, i, n)) = n
      /\ \A k \in 1 .. n : Label(s, i, n)[k] = s[i + k]
  BY <1>3 DEF Label
<1>7. QED BY <1>1, <1>2, <1>5, <1>6 DEF IsLabelAt

(* Where a name ends: in a byte 0, or in the two bytes of a pointer, which   *)
(* are its text.                                                             *)
IsEndAt(s, e, i) ==
    /\ i \in Nat \ {0} /\ i = e /\ e <= Len(s) /\ Len(s) \in Nat
    /\ TextAt(s, i) = <<>> /\ EndAt(s, i) = e + 1

IsPointerAt(s, e, i) ==
    /\ i \in Nat \ {0} /\ i + 1 = e /\ e <= Len(s) /\ Len(s) \in Nat
    /\ TextAt(s, i) = SubSeq(s, i, e) /\ EndAt(s, i) = e + 1
    /\ SubSeq(s, i, e) \in Seq(Bytes) /\ Len(SubSeq(s, i, e)) = 2
    /\ SubSeq(s, i, e)[1] = s[i]

LEMMA EndFacts ==
    ASSUME NEW s \in Seq(Bytes), NEW W, NEW e, Chain(s, W, e), NEW i \in W
    PROVE  /\ s[i] = 0 /\ i = e => IsEndAt(s, e, i)
           /\ IsPointer(s[i]) /\ i + 1 = e => IsPointerAt(s, e, i)
<1>1. Len(s) \in Nat /\ \A k \in 1 .. Len(s) : s[k] \in Bytes BY LenProperties, ElementOfSeq
<1>2. i \in Nat \ {0} /\ e \in Nat /\ i <= e /\ e <= Len(s) /\ i <= Len(s) BY <1>1 DEF Chain
<1>3. ASSUME s[i] = 0, i = e PROVE IsEndAt(s, e, i)
  <2>1. ~IsPointer(s[i]) BY <1>3, NoPointer
  <2>2. ParseName(s, i) = [value |-> <<>>, next |-> i + 1] BY <1>2, <1>3, <2>1, ParseNameStep
  <2>3. TextAt(s, i) = <<>> /\ EndAt(s, i) = e + 1 BY <1>3, <2>2 DEF TextAt, EndAt
  <2>4. QED BY <1>1, <1>2, <1>3, <2>3 DEF IsEndAt
<1>4. ASSUME IsPointer(s[i]), i + 1 = e PROVE IsPointerAt(s, e, i)
  <2>1. ParseName(s, i) = [value |-> SubSeq(s, i, i + 1), next |-> i + 2]
    BY <1>2, <1>4, ParseNameStep
  <2>2. TextAt(s, i) = SubSeq(s, i, i + 1) /\ EndAt(s, i) = i + 2
    BY <1>2, <2>1 DEF TextAt, EndAt
  <2>3. i + 2 = e + 1 BY <1>2, <1>4
  <2>4. \A k \in i .. e : s[k] \in Bytes BY <1>1, <1>2
  <2>5. /\ SubSeq(s, i, e) \in Seq(Bytes)
        /\ Len(SubSeq(s, i, e)) = IF i <= e THEN e - i + 1 ELSE 0
        /\ \A k \in 1 .. e - i + 1 : SubSeq(s, i, e)[k] = s[i + k - 1]
    BY <1>2, <2>4, SubSeqProperties
  <2>6. e - i + 1 = 2 /\ i <= e /\ i + 1 - 1 = i BY <1>2, <1>4
  <2>7. Len(SubSeq(s, i, e)) = 2 /\ SubSeq(s, i, e)[1] = s[i] BY <2>5, <2>6
  <2>8. QED BY <1>1, <1>2, <1>4, <2>2, <2>3, <2>5, <2>7 DEF IsPointerAt
<1>5. QED BY <1>3, <1>4

(* The text of a name is as long as its bytes but the last, and parse goes   *)
(* on behind it.                                                             *)
ParsedTo(s, W, e, i) ==
    /\ TextAt(s, i) \in Seq(Bytes)
    /\ EndAt(s, i) = e + 1
    /\ Pointerless(s, W) => Len(TextAt(s, i)) = e - i

LEMMA ParseChain ==
    ASSUME NEW s \in Seq(Bytes), NEW W, NEW e, Chain(s, W, e), NEW p \in W
    PROVE  ParsedTo(s, W, e, p)
<1> DEFINE T == {i \in W : ParsedTo(s, W, e, i)}
<1>1. ASSUME NEW i \in W, s[i] = 0, i = e PROVE ParsedTo(s, W, e, i)
  <2>1. IsEndAt(s, e, i) BY <1>1, EndFacts
  <2>2. <<>> \in Seq(Bytes) /\ Len(<<>>) = 0 BY EmptySeq
  <2>3. QED BY <2>1, <2>2 DEF ParsedTo, IsEndAt
<1>2. ASSUME NEW i \in W, IsPointer(s[i]), i + 1 = e PROVE ParsedTo(s, W, e, i)
  <2>1. IsPointerAt(s, e, i) BY <1>2, EndFacts
  <2>2. QED BY <1>2, <2>1 DEF Pointerless, ParsedTo, IsPointerAt
<1>3. ASSUME NEW i \in W, s[i] \in 1 .. 63, i + s[i] + 1 \in W, ParsedTo(s, W, e, i + s[i] + 1)
      PROVE  ParsedTo(s, W, e, i)
  <2>1. PICK n \in 1 .. 63 : n = s[i] BY <1>3
  <2> DEFINE t == TextAt(s, i + n + 1)
             l == Label(s, i, n)
             m == l \o <<Dot>>
  <2>2. ParsedTo(s, W, e, i + n + 1) BY <1>3, <2>1
  <2>3. t \in Seq(Bytes) /\ EndAt(s, i + n + 1) = e + 1 BY <2>2 DEF ParsedTo
  <2>4. Pointerless(s, W) => Len(t) = e - (i + n + 1) BY <2>2 DEF ParsedTo
  <2>5. IsLabelAt(s, e, i, n) BY <1>3, <2>1, LabelFacts
  <2>6. i \in Nat /\ e \in Nat /\ l \in Seq(Bytes) /\ Len(l) = n BY <2>5 DEF IsLabelAt
  <2>7. TextAt(s, i) = m \o t /\ EndAt(s, i) = e + 1 BY <2>3, <2>5 DEF IsLabelAt
  <2> HIDE DEF t, l
  <2>8. <<Dot>> \in Seq(Bytes) /\ Len(<<Dot>>) = 1 BY DEF Dot, Bytes
  <2>9. m \in Seq(Bytes) /\ Len(m) = n + 1 BY <2>6, <2>8, ConcatProperties
  <2> HIDE DEF m
  <2>10. m \o t \in Seq(Bytes) /\ Len(m \o t) = n + 1 + Len(t) BY <2>3, <2>9, ConcatProperties
  <2>11. Pointerless(s, W) => Len(m \o t) = e - i BY <2>4, <2>6, <2>10
  <2>12. QED BY <2>7, <2>10, <2>11 DEF ParsedTo
<1>4. W \subseteq T
  <2>1. \A i \in W : s[i] = 0 /\ i = e => i \in T BY <1>1
  <2>2. \A i \in W : IsPointer(s[i]) /\ i + 1 = e => i \in T BY <1>2
  <2>3. \A i \in W : s[i] \in 1 .. 63 /\ i + s[i] + 1 \in W /\ i + s[i] + 1 \in T => i \in T
    BY <1>3
  <2> HIDE DEF T
  <2>4. IsBuiltUp(s, W, e, T) BY <2>1, <2>2, <2>3 DEF IsBuiltUp
  <2>5. QED BY <2>4, ChainInduction
<1>5. QED BY <1>4

(* Only the labels that are reached count.                                   *)
IsQuestionChain(s, S, e) == Chain(s, S, e) /\ Pointerless(s, S) /\ 13 \in S /\ s[e] = 0

LEMMA StartsChain ==
    ASSUME NEW s \in Seq(Bytes), NEW W, NEW e, Chain(s, W, e), Pointerless(s, W), 13 \in W
    PROVE  IsQuestionChain(s, LabelStarts(s) \cup {e}, e)
<1>1. PICK f : StartsEq(f, s) /\ LabelStarts(s) = f[13] BY LabelStartsIs
<1>2. \A i \in Nat \ {0} :
         f[i] = IF i > Len(s) \/ s[i] = 0 THEN {} ELSE {i} \cup f[i + s[i] + 1]
  BY <1>1 DEF StartsEq
<1> DEFINE Good(i) == /\ s[e] = 0
                      /\ f[i] \subseteq W
                      /\ i \in f[i] \cup {e}
                      /\ \A j \in f[i] : s[j] \in 1 .. 63 /\ j + s[j] + 1 \in f[i] \cup {e}
           T == {i \in W : Good(i)}
<1>3. Len(s) \in Nat BY LenProperties
<1>4. ASSUME NEW i \in W, s[i] = 0, i = e PROVE i \in T
  <2>1. i \in Nat \ {0} BY <1>3 DEF Chain
  <2>2. f[i] = {} BY <1>2, <1>4, <2>1
  <2>3. QED BY <1>4, <2>2
<1>5. ASSUME NEW i \in W, IsPointer(s[i]), i + 1 = e PROVE i \in T BY <1>5 DEF Pointerless
<1>6. ASSUME NEW i \in W, s[i] \in 1 .. 63, i + s[i] + 1 \in W, i + s[i] + 1 \in T PROVE i \in T
  <2>1. PICK n \in 1 .. 63 : n = s[i] BY <1>6
  <2>2. i \in Nat \ {0} /\ i <= Len(s) BY <1>3 DEF Chain
  <2>3. f[i] = {i} \cup f[i + n + 1]
    <3>1. n # 0 /\ ~(i > Len(s)) BY <1>3, <2>2
    <3>2. QED BY <1>2, <2>1, <2>2, <3>1
  <2>4. Good(i + n + 1) BY <1>6, <2>1
  <2>5. QED BY <1>6, <2>1, <2>3, <2>4
<1>7. Good(13)
  <2> HIDE DEF Good
  <2>1. W \subseteq T
    <3> HIDE DEF T
    <3>1. IsBuiltUp(s, W, e, T) BY <1>4, <1>5, <1>6 DEF IsBuiltUp
    <3>2. QED BY <3>1, ChainInduction
  <2>2. QED BY <2>1
<1>8. Chain(s, LabelStarts(s) \cup {e}, e)
  <2> DEFINE S == LabelStarts(s)
  <2>1. s[e] = 0 /\ \A j \in S : s[j] \in 1 .. 63 /\ j + s[j] + 1 \in S \cup {e} BY <1>1, <1>7
  <2>6. S \subseteq W BY <1>1, <1>7
  <2> HIDE DEF S
  <2>2. e \in 1 .. Len(s) /\ S \subseteq 1 .. e BY <2>6 DEF Chain
  <2>3. S \cup {e} \subseteq 1 .. e BY <1>3, <2>2
  <2>4. ASSUME NEW i \in S \cup {e}
        PROVE  \/ s[i] = 0 /\ i = e
               \/ s[i] \in 1 .. 63 /\ i + s[i] + 1 \in S \cup {e}
    BY <2>1
  <2>5. QED BY <2>2, <2>3, <2>4 DEF Chain, S
<1>9. Pointerless(s, LabelStarts(s) \cup {e})
  <2>1. ~IsPointer(s[e]) BY <1>7, NoPointer
  <2>2. QED BY <1>1, <1>7, <2>1 DEF Pointerless
<1>10. QED BY <1>1, <1>7, <1>8, <1>9 DEF IsQuestionChain

-----------------------------------------------------------------------------
(* SerializeName's function, one position at a time.                         *)
LEMMA SerializeStep ==
    ASSUME NEW text \in Seq(Bytes), NEW F, SerializeEq(F, text), NEW i \in Nat \ {0}
    PROVE  /\ i > Len(text) => F[i] = <<0>>
           /\ i <= Len(text) /\ IsPointer(text[i]) => F[i] = SubSeq(text, i, i + 1)
<1>1. Len(text) \in Nat BY LenProperties
<1>2. i <= Len(text) => ~(i > Len(text)) BY <1>1
<1>3. QED BY <1>2 DEF SerializeEq

LEMMA SerializeLabelStep ==
    ASSUME NEW text \in Seq(Bytes), NEW F, SerializeEq(F, text),
           NEW i \in Nat \ {0}, NEW j \in Int, i <= Len(text), ~IsPointer(text[i]), IsDotFrom(j, text, i)
    PROVE  F[i] = (<<j - i>> \o SubSeq(text, i, j - 1)) \o F[j + 1]
<1>1. F[i] = IF i > Len(text)           THEN <<0>>
             ELSE IF IsPointer(text[i]) THEN SubSeq(text, i, i + 1)
             ELSE <<DotFrom(text, i) - i>> \o SubSeq(text, i, DotFrom(text, i) - 1)
                      \o F[DotFrom(text, i) + 1]
  BY DEF SerializeEq
<1>2. i \in 1 .. Len(text) /\ ~(i > Len(text)) BY LenProperties
<1>3. DotFrom(text, i) = j BY <1>2, DotFromIs
<1>4. QED BY <1>1, <1>2, <1>3

AllPlain(s, W) == \A i \in W : s[i] \in 1 .. 63 => PlainLabel(s, i)

(* The bytes of a name from i on come back from its text, whatever is in     *)
(* front of it.                                                              *)
Restores(s, e, i) ==
    \A U \in Seq(Bytes) : \A F :
        SerializeEq(F, U \o TextAt(s, i)) => F[Len(U) + 1] = SubSeq(s, i, e)

LEMMA RestoresEnd ==
    ASSUME NEW s \in Seq(Bytes), NEW W, NEW e, Chain(s, W, e), NEW i \in W, s[i] = 0, i = e
    PROVE  Restores(s, e, i)
<1>1. IsEndAt(s, e, i) BY EndFacts
<1>2. SUFFICES ASSUME NEW U \in Seq(Bytes), NEW F, SerializeEq(F, U \o TextAt(s, i))
               PROVE  F[Len(U) + 1] = SubSeq(s, i, e)
  BY DEF Restores
<1>3. U \o TextAt(s, i) = U /\ Len(U) \in Nat
  <2>1. TextAt(s, i) = <<>> BY <1>1 DEF IsEndAt
  <2>2. QED BY <2>1, ConcatEmptySeq, LenProperties
<1>4. SerializeEq(F, U) BY <1>2, <1>3
<1>5. Len(U) + 1 \in Nat \ {0} /\ Len(U) + 1 > Len(U) BY <1>3
<1>6. F[Len(U) + 1] = <<0>> BY <1>4, <1>5, SerializeStep
<1>7. SubSeq(s, i, e) = <<0>>
  <2>1. i \in 1 .. Len(s) BY <1>1 DEF IsEndAt
  <2>2. SubSeq(s, i, i) = <<s[i]>> \o SubSeq(s, i + 1, i) BY <2>1, SubSeqRecursiveFirst
  <2>3. SubSeq(s, i + 1, i) = <<>> BY <2>1, SubSeqEmpty
  <2>4. <<0>> \o <<>> = <<0>>
    <3>1. <<0>> \in Seq(Nat) OBVIOUS
    <3>2. QED BY <3>1, ConcatEmptySeq
  <2>5. QED BY <2>2, <2>3, <2>4
<1>8. QED BY <1>6, <1>7

LEMMA RestoresPointer ==
    ASSUME NEW s \in Seq(Bytes), NEW W, NEW e, Chain(s, W, e), NEW i \in W,
           IsPointer(s[i]), i + 1 = e
    PROVE  Restores(s, e, i)
<1>1. IsPointerAt(s, e, i) BY EndFacts
<1>2. SUFFICES ASSUME NEW U \in Seq(Bytes), NEW F, SerializeEq(F, U \o TextAt(s, i))
               PROVE  F[Len(U) + 1] = SubSeq(s, i, e)
  BY DEF Restores
<1> DEFINE t == SubSeq(s, i, e)
           text == U \o t
           u == Len(U) + 1
<1>3. t \in Seq(Bytes) /\ Len(t) = 2 /\ t[1] = s[i] /\ TextAt(s, i) = t BY <1>1 DEF IsPointerAt
<1> HIDE DEF t
<1>4. IsJoin(text, Bytes, U, t) BY <1>3, JoinFacts
<1>5. SerializeEq(F, text) BY <1>2, <1>3
<1> HIDE DEF text
<1>6. text \in Seq(Bytes) /\ Len(text) = Len(U) + 2 /\ Len(U) \in Nat /\ text[Len(U) + 1] = t[1]
      /\ SubSeq(text, Len(U) + 1, Len(text)) = t
  BY <1>3, <1>4 DEF IsJoin
<1>7. u \in Nat \ {0} /\ u <= Len(text) /\ u + 1 = Len(text) BY <1>6
<1>8. IsPointer(text[u]) /\ SubSeq(text, u, Len(text)) = t BY <1>3, <1>6
<1> HIDE DEF u
<1>9. F[u] = SubSeq(text, u, u + 1) BY <1>5, <1>6, <1>7, <1>8, SerializeStep
<1>10. QED BY <1>7, <1>8, <1>9 DEF t, u

(* One label of n bytes at u, its dot at the end of V, and more: where its   *)
(* bytes are.                                                                *)
IsLabelIn(text, V, l, t, u, n) ==
    /\ text \in Seq(Bytes) /\ text = V \o t
    /\ V \in Seq(Bytes) /\ Len(V) = u + n
    /\ Len(text) \in Nat /\ u + n <= Len(text)
    /\ \A k \in 1 .. n : text[u + k - 1] = l[k]
    /\ text[u + n] = Dot
    /\ SubSeq(text, u, u + n - 1) = l

LEMMA LabelInText ==
    ASSUME NEW U \in Seq(Bytes), NEW l \in Seq(Bytes), NEW t \in Seq(Bytes),
           NEW n \in Nat \ {0}, Len(l) = n, NEW u \in Nat \ {0}, u = Len(U) + 1
    PROVE  IsLabelIn(U \o ((l \o <<Dot>>) \o t), U \o (l \o <<Dot>>), l, t, u, n)
<1> DEFINE ld   == l \o <<Dot>>
           V    == U \o ld
           text == U \o (ld \o t)
<1>1. <<Dot>> \in Seq(Bytes) /\ Len(<<Dot>>) = 1 /\ <<Dot>>[1] = Dot BY DEF Dot, Bytes
<1>2. IsJoin(ld, Bytes, l, <<Dot>>) BY <1>1, JoinFacts
<1>3. ld \in Seq(Bytes) /\ Len(ld) = n + 1 BY <1>1, <1>2 DEF IsJoin
<1>4. \A k \in 1 .. n : ld[k] = l[k] BY <1>2 DEF IsJoin
<1>5. ld[n + 1] = Dot BY <1>1, <1>2 DEF IsJoin
<1> HIDE DEF ld
<1>6. IsJoin(V, Bytes, U, ld) BY <1>3, JoinFacts
<1>7. text = V \o t
  <2>1. ld \in Seq(Bytes) BY <1>3
  <2>2. V \o t = U \o (ld \o t) BY <2>1, ConcatAssociative
  <2>3. QED BY <2>2
<1> HIDE DEF V
<1>8. V \in Seq(Bytes) /\ Len(V) = u + n /\ Len(U) = u - 1 BY <1>3, <1>6 DEF IsJoin
<1>9. \A k \in 1 .. n + 1 : V[u - 1 + k] = ld[k] BY <1>3, <1>6, <1>8 DEF IsJoin
<1>10. IsJoin(text, Bytes, V, t) BY <1>7, <1>8, JoinFacts
<1> HIDE DEF text
<1>11. text \in Seq(Bytes) /\ Len(text) \in Nat /\ u + n <= Len(text)
  BY <1>8, <1>10 DEF IsJoin
<1>12. \A k \in 1 .. u + n : text[k] = V[k] BY <1>8, <1>10 DEF IsJoin
<1>13. ASSUME NEW k \in 1 .. n PROVE text[u + k - 1] = l[k]
  <2>1. u + k - 1 \in 1 .. u + n /\ u - 1 + k = u + k - 1 /\ k \in 1 .. n + 1 OBVIOUS
  <2>2. text[u + k - 1] = V[u - 1 + k] BY <1>12, <2>1
  <2>3. QED BY <1>4, <1>9, <2>1, <2>2
<1>14. text[u + n] = Dot
  <2>1. u + n \in 1 .. u + n /\ u - 1 + (n + 1) = u + n /\ n + 1 \in 1 .. n + 1 OBVIOUS
  <2>2. V[u - 1 + (n + 1)] = ld[n + 1] BY <1>9, <2>1
  <2>3. QED BY <1>5, <1>12, <2>1, <2>2
<1>15. SubSeq(text, u, u + n - 1) = l
  <2> DEFINE d == SubSeq(text, u, u + n - 1)
  <2>1. u \in Int /\ u + n - 1 \in Int /\ u <= u + n - 1 /\ u + n - 1 - u + 1 = n OBVIOUS
  <2>2. \A k \in u .. u + n - 1 : text[k] \in Bytes
    <3>1. \A k \in u .. u + n - 1 : k \in 1 .. Len(text) BY <1>11
    <3>2. QED BY <1>11, <3>1, ElementOfSeq
  <2>3. /\ d \in Seq(Bytes) /\ Len(d) = IF u <= u + n - 1 THEN u + n - 1 - u + 1 ELSE 0
        /\ \A k \in 1 .. u + n - 1 - u + 1 : d[k] = text[u + k - 1]
    <3> DEFINE h == u + n - 1
    <3>1. h \in Int /\ \A k \in u .. h : text[k] \in Bytes BY <2>1, <2>2
    <3> HIDE DEF h
    <3>2. /\ SubSeq(text, u, h) \in Seq(Bytes)
          /\ Len(SubSeq(text, u, h)) = IF u <= h THEN h - u + 1 ELSE 0
          /\ \A k \in 1 .. h - u + 1 : SubSeq(text, u, h)[k] = text[u + k - 1]
      BY <3>1, SubSeqProperties
    <3>3. QED BY <3>2 DEF h
  <2> HIDE DEF d
  <2>4. Len(d) = n /\ \A k \in 1 .. n : d[k] = l[k] BY <1>13, <2>1, <2>3
  <2>5. d = l BY <2>3, <2>4, SeqEqual
  <2>6. QED BY <2>5 DEF d
<1>16. IsLabelIn(text, V, l, t, u, n) BY <1>7, <1>8, <1>11, <1>13, <1>14, <1>15 DEF IsLabelIn
<1>17. QED BY <1>16 DEF text, V, ld

LEMMA RestoresLabel ==
    ASSUME NEW s \in Seq(Bytes), NEW W, NEW e, Chain(s, W, e), NEW i \in W,
           NEW n \in 1 .. 63, s[i] = n, i + n + 1 \in W, PlainLabel(s, i),
           Restores(s, e, i + n + 1)
    PROVE  Restores(s, e, i)
<1> DEFINE l == Label(s, i, n)
           t == TextAt(s, i + n + 1)
<1>1. IsLabelAt(s, e, i, n) BY LabelFacts
<1>2. t \in Seq(Bytes) BY ParseChain DEF ParsedTo
<1>3. SUFFICES ASSUME NEW U \in Seq(Bytes), NEW F, SerializeEq(F, U \o TextAt(s, i))
               PROVE  F[Len(U) + 1] = SubSeq(s, i, e)
  BY DEF Restores
<1>4. PICK u \in Nat \ {0} : u = Len(U) + 1 BY LenProperties
<1>5. l \in Seq(Bytes) /\ Len(l) = n /\ TextAt(s, i) = (l \o <<Dot>>) \o t BY <1>1 DEF IsLabelAt
<1>6. \A k \in 1 .. n : l[k] = s[i + k] BY <1>1 DEF IsLabelAt
<1>7. i \in Nat \ {0} /\ e \in Nat /\ i + n + 1 <= e /\ e <= Len(s) /\ Len(s) \in Nat
  BY <1>1 DEF IsLabelAt
<1> DEFINE text == U \o ((l \o <<Dot>>) \o t)
           V    == U \o (l \o <<Dot>>)
<1>8. SerializeEq(F, text) BY <1>3, <1>5
<1>9. IsLabelIn(text, V, l, t, u, n)
  <2> HIDE DEF l, t
  <2>1. n \in Nat \ {0} OBVIOUS
  <2>2. QED BY <1>2, <1>4, <1>5, <2>1, LabelInText
<1> HIDE DEF text, V, l, t
<1>10. /\ text \in Seq(Bytes) /\ Len(text) \in Nat /\ u + n <= Len(text)
       /\ \A k \in 1 .. n : text[u + k - 1] = l[k]
       /\ text[u + n] = Dot
       /\ SubSeq(text, u, u + n - 1) = l
  BY <1>9 DEF IsLabelIn
<1>11. ASSUME NEW k \in 1 .. n PROVE text[u + k - 1] = s[i + k] BY <1>6, <1>10
<1>12. u <= Len(text) /\ ~IsPointer(text[u])
  <2>1. 1 \in 1 .. n /\ u + 1 - 1 = u /\ u <= Len(text) BY <1>10
  <2>2. text[u] = s[i + 1] BY <1>11, <2>1
  <2>3. QED BY <2>1, <2>2 DEF PlainLabel
<1>13. IsDotFrom(u + n, text, u)
  <2>1. u + n \in u .. Len(text) + 1 BY <1>10
  <2>2. ASSUME NEW k \in u .. u + n - 1 PROVE text[k] # Dot
    <3>1. k - u + 1 \in 1 .. n /\ u + (k - u + 1) - 1 = k OBVIOUS
    <3>2. text[k] = s[i + (k - u + 1)] BY <1>11, <3>1
    <3>3. i + (k - u + 1) \in i + 1 .. i + n BY <1>7, <3>1
    <3>4. QED BY <3>2, <3>3 DEF PlainLabel
  <2>3. QED BY <1>10, <2>1, <2>2 DEF IsDotFrom
<1>14. F[u] = (<<n>> \o l) \o F[u + n + 1]
  <2>1. PICK j \in Int : j = u + n OBVIOUS
  <2>2. F[u] = (<<j - u>> \o SubSeq(text, u, j - 1)) \o F[j + 1]
    <3>1. IsDotFrom(j, text, u) BY <1>13, <2>1
    <3>2. text \in Seq(Bytes) BY <1>10
    <3>3. u <= Len(text) BY <1>12
    <3>4. ~IsPointer(text[u]) BY <1>12
    <3>5. QED BY ONLY u \in Nat \ {0}, j \in Int, <1>8, <3>1, <3>2, <3>3, <3>4, SerializeLabelStep
  <2>3. j - u = n /\ j - 1 = u + n - 1 /\ j + 1 = u + n + 1 BY <2>1
  <2>4. SubSeq(text, u, j - 1) = l BY <1>10, <2>3
  <2>5. QED BY <2>2, <2>3, <2>4
<1>15. F[u + n + 1] = SubSeq(s, i + n + 1, e)
  <2>1. text = V \o t /\ V \in Seq(Bytes) /\ Len(V) = u + n BY <1>9 DEF IsLabelIn
  <2>2. SerializeEq(F, V \o TextAt(s, i + n + 1)) BY <1>8, <2>1 DEF t
  <2>3. QED BY <2>1, <2>2 DEF Restores
<1>16. (<<n>> \o l) \o SubSeq(s, i + n + 1, e) = SubSeq(s, i, e)
  <2>1. i \in 1 .. Len(s) /\ i + n \in i .. Len(s) BY <1>7
  <2>2. SubSeq(s, i, i + n) = <<s[i]>> \o SubSeq(s, i + 1, i + n) BY <2>1, SubSeqRecursiveFirst
  <2>3. i \in 1 .. Len(s) + 1 /\ i + n \in i - 1 .. Len(s) /\ e \in i + n .. Len(s) BY <1>7
  <2>4. SubSeq(s, i, i + n) \o SubSeq(s, i + n + 1, e) = SubSeq(s, i, e)
    BY <2>3, ConcatAdjacentSubSeq
  <2>5. QED BY <2>2, <2>4 DEF l, Label
<1>17. F[u] = SubSeq(s, i, e) BY <1>14, <1>15, <1>16
<1>18. QED BY <1>4, <1>17

(* Serialize restores the bytes of a name whose labels are plain.            *)
LEMMA NameRestored ==
    ASSUME NEW s \in Seq(Bytes), NEW W, NEW e, Chain(s, W, e), AllPlain(s, W), NEW p \in W
    PROVE  SerializeName(TextAt(s, p)) = SubSeq(s, p, e)
<1> DEFINE T == {i \in W : Restores(s, e, i)}
<1>1. \A i \in W : s[i] = 0 /\ i = e => i \in T BY RestoresEnd
<1>2. \A i \in W : IsPointer(s[i]) /\ i + 1 = e => i \in T BY RestoresPointer
<1>3. ASSUME NEW i \in W, s[i] \in 1 .. 63, i + s[i] + 1 \in W, i + s[i] + 1 \in T
      PROVE  i \in T
  <2>1. PICK n \in 1 .. 63 : n = s[i] BY <1>3
  <2>2. i + n + 1 \in W /\ Restores(s, e, i + n + 1) BY <1>3, <2>1
  <2>3. PlainLabel(s, i) BY <1>3 DEF AllPlain
  <2>4. Restores(s, e, i) BY <2>1, <2>2, <2>3, RestoresLabel
  <2>5. QED BY <2>4
<1>4. p \in T
  <2> HIDE DEF T
  <2>1. IsBuiltUp(s, W, e, T) BY <1>1, <1>2, <1>3 DEF IsBuiltUp
  <2>2. W \subseteq T BY <2>1, ChainInduction
  <2>3. QED BY <2>2
<1>5. TextAt(s, p) \in Seq(Bytes) BY ParseChain DEF ParsedTo
<1>6. PICK F : SerializeEq(F, TextAt(s, p)) /\ SerializeName(TextAt(s, p)) = F[1]
  BY <1>5, SerializeNameIs
<1>7. <<>> \in Seq(Bytes) /\ Len(<<>>) + 1 = 1 BY EmptySeq
<1>8. <<>> \o TextAt(s, p) = TextAt(s, p) BY <1>5, ConcatEmptySeq
<1>9. QED BY <1>4, <1>6, <1>7, <1>8 DEF Restores

-----------------------------------------------------------------------------
(* A text that serialize does not cut: it ends in a dot, and no byte that    *)
(* looks like a pointer begins it or follows a dot.                          *)
Uncut(text) ==
    /\ text # <<>> => text[Len(text)] = Dot
    /\ \A k \in 1 .. Len(text) : IsPointer(text[k]) => k # 1 /\ text[k - 1] # Dot

LEMMA UncutLength ==
    ASSUME NEW text \in Seq(Bytes), Uncut(text), NEW F, SerializeEq(F, text)
    PROVE  F[1] \in Seq(Int) /\ Len(F[1]) = Len(text) + 1
<1>1. PICK L \in Nat : L = Len(text) BY LenProperties
<1> DEFINE Right(i) == F[i] \in Seq(Int) /\ Len(F[i]) = L + 2 - i
           T == {m \in Nat : \A i \in 1 .. L + 1 :
                                L + 1 - i <= m /\ (i = 1 \/ text[i - 1] = Dot) => Right(i)}
<1>2. \A k \in 1 .. L : text[k] \in Int
  <2>1. \A k \in 1 .. L : text[k] \in Bytes BY <1>1, ElementOfSeq
  <2>2. \A b \in Bytes : b \in Int BY DEF Bytes
  <2>3. QED BY <2>1, <2>2
<1>3. Right(L + 1)
  <2>1. L + 1 \in Nat \ {0} /\ L + 1 > Len(text) BY <1>1
  <2>2. F[L + 1] = <<0>> BY <2>1, SerializeStep
  <2>3. L + 2 - (L + 1) = 1 OBVIOUS
  <2>4. <<0>> \in Seq(Int) /\ Len(<<0>>) = 1 OBVIOUS
  <2>5. QED BY <2>2, <2>3, <2>4
<1>4. 0 \in T
  <2>1. \A i \in 1 .. L + 1 : L + 1 - i <= 0 => i = L + 1 OBVIOUS
  <2> HIDE DEF Right
  <2>2. QED BY <1>3, <2>1
<1>5. ASSUME NEW m \in Nat, m \in T PROVE m + 1 \in T
  <2>1. SUFFICES ASSUME NEW i \in 1 .. L + 1, L + 1 - i <= m + 1, i = 1 \/ text[i - 1] = Dot
                 PROVE  Right(i)
    <3> HIDE DEF Right
    <3>1. QED BY <2>1
  <2>2. CASE i = L + 1
    <3> HIDE DEF Right
    <3>1. QED BY <1>3, <2>2
  <2>3. CASE i # L + 1
    <3>1. i \in 1 .. L /\ i \in Nat \ {0} /\ i <= Len(text) BY <1>1, <2>3
    <3>2. ~IsPointer(text[i])
      BY <1>1, <2>1, <3>1 DEF Uncut
    <3>3. text # <<>> BY <1>1, <3>1, EmptySeq
    <3>4. text[L] = Dot BY <1>1, <3>3 DEF Uncut
    <3>5. PICK j \in Int : IsDotFrom(j, text, i)
      <4>1. i \in 1 .. Len(text) BY <1>1, <3>1
      <4>2. IsDotFrom(DotFrom(text, i), text, i) BY <4>1, DotFromFacts
      <4>3. \A j : IsDotFrom(j, text, i) => j \in Int BY <1>1 DEF IsDotFrom
      <4>4. QED BY <4>2, <4>3
    <3>6. j >= i /\ j <= L + 1 /\ \A k \in i .. j - 1 : text[k] # Dot
      BY <1>1, <3>1, <3>5 DEF IsDotFrom
    <3>7. j <= L
      <4>1. SUFFICES ASSUME j = L + 1 PROVE FALSE BY <1>1, <3>6
      <4>2. L \in i .. j - 1 BY <1>1, <3>1, <4>1
      <4>3. QED BY <3>4, <3>6, <4>2
    <3>8. text[j] = Dot BY <1>1, <3>5, <3>7 DEF IsDotFrom
    <3>9. PICK h \in 1 .. L + 1 : h = j + 1 BY <3>1, <3>6, <3>7
    <3>10. h - 1 = j /\ L + 1 - h <= m BY <2>1, <3>1, <3>6, <3>7, <3>9
    <3>11. Right(h)
      <4> HIDE DEF Right
      <4>1. QED BY <1>5, <3>8, <3>10
    <3> DEFINE b == <<j - i>>
               d == SubSeq(text, i, j - 1)
               c == b \o d
               r == F[h]
    <3>12. F[i] = c \o r
      BY <3>1, <3>2, <3>5, <3>9, SerializeLabelStep
    <3>13. d \in Seq(Int) /\ Len(d) = j - i
      <4>1. \A k \in i .. j - 1 : text[k] \in Int
        <5>1. \A k \in i .. j - 1 : k \in 1 .. L BY <3>1, <3>7
        <5>2. QED BY <1>2, <5>1
      <4>2. j - 1 \in Int /\ i \in Int OBVIOUS
      <4>3. d \in Seq(Int) /\ Len(d) = IF i <= j - 1 THEN j - 1 - i + 1 ELSE 0
        BY <4>1, <4>2, SubSeqProperties
      <4>4. QED BY <3>6, <4>3
    <3>14. r \in Seq(Int) /\ Len(r) = L + 2 - h BY <3>11
    <3> HIDE DEF d, r
    <3>15. b \in Seq(Int) /\ Len(b) = 1 OBVIOUS
    <3> HIDE DEF b
    <3>16. c \in Seq(Int) /\ Len(c) = 1 + (j - i)
      <4>1. IsJoin(c, Int, b, d) BY <3>13, <3>15, JoinFacts
      <4>2. QED BY <3>13, <3>15, <4>1 DEF IsJoin
    <3> HIDE DEF c
    <3>17. c \o r \in Seq(Int) /\ Len(c \o r) = Len(c) + Len(r)
      <4>1. c \in Seq(Int) /\ r \in Seq(Int) BY <3>14, <3>16
      <4>2. IsJoin(c \o r, Int, c, r) BY <4>1, JoinFacts
      <4>3. QED BY <4>2 DEF IsJoin
    <3>18. Len(c) + Len(r) = L + 2 - i BY <3>9, <3>14, <3>16
    <3>19. QED BY <3>12, <3>17, <3>18
  <2>4. QED BY <2>2, <2>3
<1>6. L \in T
  <2> HIDE DEF T
  <2>1. QED BY <1>4, <1>5, SetInduction
<1>7. Right(1)
  <2> HIDE DEF Right
  <2>1. 1 \in 1 .. L + 1 /\ L + 1 - 1 <= L OBVIOUS
  <2>2. QED BY <1>6, <2>1
<1>8. L + 2 - 1 = Len(text) + 1 BY <1>1
<1>9. QED BY <1>7, <1>8

(* No byte that looks like a pointer begins a label or follows a dot in one. *)
Unbroken(s, W) ==
    \A i \in W : s[i] \in 1 .. 63 =>
        \A k \in i + 1 .. i + s[i] : IsPointer(s[k]) => k # i + 1 /\ s[k - 1] # Dot

LEMMA UncutLabel ==
    ASSUME NEW s \in Seq(Bytes), NEW W, NEW e, Chain(s, W, e), Unbroken(s, W), NEW i \in W,
           NEW n \in 1 .. 63, s[i] = n, i + n + 1 \in W, Uncut(TextAt(s, i + n + 1))
    PROVE  Uncut(TextAt(s, i))
<1> DEFINE l  == Label(s, i, n)
           d  == <<Dot>>
           ld == l \o d
           t  == TextAt(s, i + n + 1)
           text == ld \o t
<1>1. IsLabelAt(s, e, i, n) BY LabelFacts
<1>2. t \in Seq(Bytes) BY ParseChain DEF ParsedTo
<1>3. l \in Seq(Bytes) /\ Len(l) = n /\ \A k \in 1 .. n : l[k] = s[i + k] BY <1>1 DEF IsLabelAt
<1>4. i \in Nat \ {0} /\ TextAt(s, i) = text BY <1>1 DEF IsLabelAt
<1>5. Uncut(t) OBVIOUS
<1> HIDE DEF l, t
<1>6. d \in Seq(Bytes) /\ Len(d) = 1 /\ d[1] = Dot BY DEF Dot, Bytes
<1> HIDE DEF d
<1>7. IsJoin(ld, Bytes, l, d) BY <1>3, <1>6, JoinFacts
<1>8. /\ ld \in Seq(Bytes) /\ Len(ld) = n + 1
      /\ \A k \in 1 .. n : ld[k] = s[i + k]
      /\ ld[n + 1] = Dot
  <2> HIDE DEF ld
  <2>1. ld \in Seq(Bytes) /\ Len(ld) = n + 1 BY <1>3, <1>6, <1>7 DEF IsJoin
  <2>2. \A k \in 1 .. n : ld[k] = l[k] BY <1>3, <1>7 DEF IsJoin
  <2>3. ld[n + 1] = d[1] BY <1>3, <1>6, <1>7 DEF IsJoin
  <2>4. QED BY <1>3, <1>6, <2>1, <2>2, <2>3
<1> HIDE DEF ld
<1>9. IsJoin(text, Bytes, ld, t) BY <1>2, <1>8, JoinFacts
<1> HIDE DEF text
<1>10. PICK L \in Nat : L = Len(t) BY <1>2, LenProperties
<1>11. /\ Len(text) = n + 1 + L
       /\ \A k \in 1 .. n + 1 : text[k] = ld[k]
       /\ \A k \in 1 .. L : text[n + 1 + k] = t[k]
  BY <1>8, <1>9, <1>10 DEF IsJoin
<1>12. text[n + 1] = Dot
  <2>1. n + 1 \in 1 .. n + 1 OBVIOUS
  <2>2. QED BY <1>8, <1>11, <2>1
<1>13. \A k \in 1 .. n : text[k] = s[i + k]
  <2>1. \A k \in 1 .. n : k \in 1 .. n + 1 OBVIOUS
  <2>2. QED BY <1>8, <1>11, <2>1
<1>14. text[Len(text)] = Dot
  <2>1. CASE L = 0 BY <1>11, <1>12, <2>1
  <2>2. CASE L # 0
    <3>1. L \in 1 .. L /\ t # <<>> BY <1>10, <2>2, EmptySeq
    <3>2. t[L] = Dot BY <1>5, <1>10, <3>1 DEF Uncut
    <3>3. QED BY <1>11, <3>1, <3>2
  <2>3. QED BY <2>1, <2>2
<1>15. ASSUME NEW k \in 1 .. Len(text), IsPointer(text[k]) PROVE k # 1 /\ text[k - 1] # Dot
  <2>1. k \in 1 .. n + 1 + L BY <1>11
  <2>2. CASE k <= n
    <3>1. k \in 1 .. n /\ text[k] = s[i + k] BY <1>13, <2>1, <2>2
    <3>2. PICK m \in Int : m = i + k BY <1>4
    <3>3. m \in i + 1 .. i + s[i] /\ IsPointer(s[m]) BY <1>4, <1>15, <3>1, <3>2
    <3>4. m # i + 1 /\ s[m - 1] # Dot BY <3>3 DEF Unbroken
    <3>5. k # 1 /\ k - 1 \in 1 .. n /\ m - 1 = i + (k - 1) BY <1>4, <3>1, <3>2, <3>4
    <3>6. text[k - 1] = s[m - 1] BY <1>13, <3>5
    <3>7. QED BY <3>4, <3>5, <3>6
  <2>3. CASE k = n + 1 BY <1>12, <1>15, <2>3, NoPointer
  <2>4. CASE k > n + 1
    <3>1. PICK m \in 1 .. L : k = n + 1 + m
      <4>1. k - n - 1 \in 1 .. L /\ k = n + 1 + (k - n - 1) BY <2>1, <2>4
      <4>2. QED BY <4>1
    <3>2. IsPointer(t[m]) BY <1>11, <1>15, <3>1
    <3>3. m # 1 /\ t[m - 1] # Dot BY <1>5, <1>10, <3>2 DEF Uncut
    <3>4. m - 1 \in 1 .. L /\ k - 1 = n + 1 + (m - 1) /\ k # 1 BY <3>1, <3>3
    <3>5. text[k - 1] = t[m - 1] BY <1>11, <3>4
    <3>6. QED BY <3>3, <3>4, <3>5
  <2>5. QED BY <2>1, <2>2, <2>3, <2>4
<1>16. QED BY <1>4, <1>14, <1>15 DEF Uncut

LEMMA UncutText ==
    ASSUME NEW s \in Seq(Bytes), NEW W, NEW e, Chain(s, W, e), Pointerless(s, W), Unbroken(s, W),
           NEW p \in W
    PROVE  Uncut(TextAt(s, p))
<1> DEFINE T == {i \in W : Uncut(TextAt(s, i))}
<1>1. ASSUME NEW i \in W, s[i] = 0, i = e PROVE i \in T
  <2>1. TextAt(s, i) = <<>> BY <1>1, EndFacts DEF IsEndAt
  <2>2. Uncut(<<>>)
    <3>1. Len(<<>>) = 0 /\ 1 .. 0 = {} OBVIOUS
    <3>2. QED BY <3>1 DEF Uncut
  <2>3. QED BY <2>1, <2>2
<1>2. \A i \in W : IsPointer(s[i]) /\ i + 1 = e => i \in T BY DEF Pointerless
<1>3. ASSUME NEW i \in W, s[i] \in 1 .. 63, i + s[i] + 1 \in W, i + s[i] + 1 \in T
      PROVE  i \in T
  <2>1. PICK n \in 1 .. 63 : n = s[i] BY <1>3
  <2>2. i + n + 1 \in W /\ Uncut(TextAt(s, i + n + 1)) BY <1>3, <2>1
  <2>3. Uncut(TextAt(s, i)) BY <2>1, <2>2, UncutLabel
  <2>4. QED BY <2>3
<1>4. W \subseteq T
  <2> HIDE DEF T
  <2>1. IsBuiltUp(s, W, e, T) BY <1>1, <1>2, <1>3 DEF IsBuiltUp
  <2>2. QED BY <2>1, ChainInduction
<1>5. QED BY <1>4

(* The name keeps its length, if nothing cuts it.                            *)
LEMMA LengthKept ==
    ASSUME NEW s \in Seq(Bytes), NEW W, NEW e, Chain(s, W, e), Pointerless(s, W), Unbroken(s, W),
           NEW p \in W
    PROVE  /\ SerializeName(TextAt(s, p)) \in Seq(Int)
           /\ Len(SerializeName(TextAt(s, p))) = e + 1 - p
<1>1. TextAt(s, p) \in Seq(Bytes) /\ Len(TextAt(s, p)) = e - p BY ParseChain DEF ParsedTo
<1>2. Uncut(TextAt(s, p)) BY UncutText
<1>3. PICK F : SerializeEq(F, TextAt(s, p)) /\ SerializeName(TextAt(s, p)) = F[1]
  BY <1>1, SerializeNameIs
<1>4. F[1] \in Seq(Int) /\ Len(F[1]) = Len(TextAt(s, p)) + 1 BY <1>1, <1>2, <1>3, UncutLength
<1>5. p \in Int /\ e \in Int BY LenProperties DEF Chain
<1>6. QED BY <1>1, <1>3, <1>4, <1>5

-----------------------------------------------------------------------------
(* X, then m, then Y. *)
IsWithin(s, S, X, m, Y) ==
    /\ s \in Seq(S)
    /\ Len(X) \in Nat /\ Len(m) \in Nat /\ Len(Y) \in Nat
    /\ Len(s) = Len(X) + Len(m) + Len(Y)
    /\ \A k \in 1 .. Len(m) : s[Len(X) + k] = m[k]
    /\ SubSeq(s, Len(X) + 1, Len(X) + Len(m)) = m

LEMMA Within ==
    ASSUME NEW S, NEW X \in Seq(S), NEW m \in Seq(S), NEW Y \in Seq(S)
    PROVE  IsWithin((X \o m) \o Y, S, X, m, Y)
<1> DEFINE c == X \o m
           s == c \o Y
<1>1. PICK x \in Nat : x = Len(X) BY LenProperties
<1>2. PICK n \in Nat : n = Len(m) BY LenProperties
<1>3. IsJoin(c, S, X, m) BY JoinFacts
<1>4. c \in Seq(S) /\ Len(c) = x + n /\ \A k \in 1 .. n : c[x + k] = m[k]
  BY <1>1, <1>2, <1>3 DEF IsJoin
<1> HIDE DEF c
<1>5. IsJoin(s, S, c, Y) BY <1>4, JoinFacts
<1> HIDE DEF s
<1>6. /\ s \in Seq(S) /\ Len(Y) \in Nat /\ Len(s) = x + n + Len(Y)
      /\ \A k \in 1 .. x + n : s[k] = c[k]
  BY <1>4, <1>5 DEF IsJoin
<1>7. ASSUME NEW k \in 1 .. n PROVE s[x + k] = m[k]
  <2>1. x + k \in 1 .. x + n OBVIOUS
  <2>2. QED BY <1>4, <1>6, <2>1
<1>8. SubSeq(s, x + 1, x + n) = m
  <2> DEFINE d == SubSeq(s, x + 1, x + n)
  <2>1. \A k \in x + 1 .. x + n : s[k] \in S
    <3>1. \A k \in x + 1 .. x + n : k \in 1 .. Len(s) BY <1>6
    <3>2. QED BY <1>6, <3>1, ElementOfSeq
  <2>2. PICK a \in Int, b \in Int : a = x + 1 /\ b = x + n OBVIOUS
  <2>3. d = SubSeq(s, a, b) /\ \A k \in a .. b : s[k] \in S BY <2>1, <2>2
  <2>4. /\ SubSeq(s, a, b) \in Seq(S)
        /\ Len(SubSeq(s, a, b)) = IF a <= b THEN b - a + 1 ELSE 0
        /\ \A k \in 1 .. b - a + 1 : SubSeq(s, a, b)[k] = s[a + k - 1]
    BY <2>3, SubSeqProperties
  <2> HIDE DEF d
  <2>5. b - a + 1 = n /\ (a <= b \/ n = 0) /\ \A k \in 1 .. n : a + k - 1 = x + k BY <2>2
  <2>6. d \in Seq(S) /\ Len(d) = n /\ \A k \in 1 .. n : d[k] = m[k] BY <1>7, <2>3, <2>4, <2>5
  <2>7. d = m BY <1>2, <2>6, SeqEqual
  <2>8. QED BY <2>7 DEF d
<1>9. IsWithin(s, S, X, m, Y) BY <1>1, <1>2, <1>6, <1>7, <1>8 DEF IsWithin
<1>10. QED BY <1>9 DEF s, c

(* A name is one wherever it stands. *)
IsNameAt(s, W, e, x, name, W0) ==
    /\ Chain(s, W, e) /\ x + 1 \in W /\ e = x + Len(name)
    /\ SubSeq(s, x + 1, e) = name
    /\ Pointerless(name, W0) => Pointerless(s, W)
    /\ AllPlain(name, W0) => AllPlain(s, W)

LEMMA Shifted ==
    ASSUME NEW X \in Seq(Bytes), NEW name \in Seq(Bytes), NEW Y \in Seq(Bytes),
           NEW W0, Chain(name, W0, Len(name)), 1 \in W0
    PROVE  \E W : IsNameAt((X \o name) \o Y, W, Len(X) + Len(name), Len(X), name, W0)
<1> DEFINE s == (X \o name) \o Y
<1>1. PICK x \in Nat : x = Len(X) BY LenProperties
<1>2. PICK L \in Nat : L = Len(name) BY LenProperties
<1>3. PICK y \in Nat : y = Len(Y) BY LenProperties
<1>4. IsWithin(s, Bytes, X, name, Y) BY Within
<1> HIDE DEF s
<1>5. /\ s \in Seq(Bytes) /\ Len(s) = x + L + y /\ SubSeq(s, x + 1, x + L) = name
      /\ \A k \in 1 .. L : s[x + k] = name[k]
  BY <1>1, <1>2, <1>3, <1>4 DEF IsWithin
<1> DEFINE W == {x + i : i \in W0}
<1>6. W0 \subseteq 1 .. L /\ L \in 1 .. L BY <1>2 DEF Chain
<1>7. ASSUME NEW i \in W0
      PROVE  \/ name[i] = 0 /\ i = L
             \/ IsPointer(name[i]) /\ i + 1 = L
             \/ name[i] \in 1 .. 63 /\ i + name[i] + 1 \in W0
  BY <1>2 DEF Chain
<1>8. ASSUME NEW i \in W0 PROVE s[x + i] = name[i] /\ x + i \in W BY <1>5, <1>6
<1>9. Chain(s, W, x + L)
  <2>1. x + L \in 1 .. Len(s) /\ W \subseteq 1 .. x + L BY <1>5, <1>6
  <2>2. ASSUME NEW j \in W
        PROVE  \/ s[j] = 0 /\ j = x + L
               \/ IsPointer(s[j]) /\ j + 1 = x + L
               \/ s[j] \in 1 .. 63 /\ j + s[j] + 1 \in W
    <3>1. PICK i \in Nat : i \in W0 /\ j = x + i BY <1>6
    <3>2. s[j] = name[i] BY <1>8, <3>1
    <3>3. CASE name[i] = 0 /\ i = L BY <3>1, <3>2, <3>3
    <3>4. CASE IsPointer(name[i]) /\ i + 1 = L BY <3>1, <3>2, <3>4
    <3>5. CASE name[i] \in 1 .. 63 /\ i + name[i] + 1 \in W0
      <4>1. PICK n \in 1 .. 63 : n = name[i] BY <3>5
      <4>2. x + (i + n + 1) \in W BY <3>5, <4>1
      <4>3. x + (i + n + 1) = j + n + 1 BY <3>1
      <4>4. QED BY <3>2, <4>1, <4>2, <4>3
    <3>6. QED BY <1>7, <3>1, <3>3, <3>4, <3>5
  <2> HIDE DEF W
  <2>3. QED BY <2>1, <2>2 DEF Chain
<1>10. ASSUME Pointerless(name, W0) PROVE Pointerless(s, W)
  <2>1. \A i \in W0 : ~IsPointer(s[x + i]) BY <1>8, <1>10 DEF Pointerless
  <2>2. QED BY <2>1 DEF Pointerless
<1>11. ASSUME AllPlain(name, W0) PROVE AllPlain(s, W)
  <2>1. ASSUME NEW j \in W, s[j] \in 1 .. 63 PROVE PlainLabel(s, j)
    <3>1. PICK i \in Nat : i \in W0 /\ j = x + i BY <1>6
    <3>2. i >= 1 /\ s[j] = name[i] BY <1>6, <1>8, <3>1
    <3>3. PICK n \in 1 .. 63 : n = name[i] BY <2>1, <3>2
    <3>4. n \in 0 .. 63 /\ n # 0 OBVIOUS
    <3>5. i + n + 1 \in W0 BY <1>7, <3>1, <3>3, <3>4, NoPointer
    <3>6. i + n + 1 <= L BY <1>6, <3>5
    <3>7. PlainLabel(name, i) BY <1>11, <3>1, <3>3 DEF AllPlain
    <3>8. s[j + 1] = name[i + 1]
      <4>1. i + 1 \in 1 .. L BY <3>6
      <4>2. x + (i + 1) = j + 1 BY <3>1
      <4>3. QED BY <1>5, <4>1, <4>2
    <3>9. ASSUME NEW k \in j + 1 .. j + n PROVE s[k] # Dot
      <4>1. PICK h \in Int : h = k - x OBVIOUS
      <4>2. h \in i + 1 .. i + n /\ h \in 1 .. L /\ x + h = k BY <3>1, <3>2, <3>6, <4>1
      <4>3. s[k] = name[h] BY <1>5, <4>2
      <4>4. name[h] # Dot BY <3>3, <3>7, <4>2 DEF PlainLabel
      <4>5. QED BY <4>3, <4>4
    <3>10. QED BY <3>2, <3>3, <3>7, <3>8, <3>9 DEF PlainLabel
  <2>2. QED BY <2>1 DEF AllPlain
<1>12. IsNameAt(s, W, x + L, x, name, W0)
  <2>1. x + 1 \in W OBVIOUS
  <2> HIDE DEF W
  <2>2. QED BY <1>2, <1>5, <1>9, <1>10, <1>11, <2>1 DEF IsNameAt
<1>13. QED BY <1>1, <1>2, <1>12 DEF s

LEMMA NameChain ==
    ASSUME NEW name, IsName(name)
    PROVE  \E W : Chain(name, W, Len(name)) /\ 1 \in W /\ Pointerless(name, W)
<1>1. name \in Seq(Bytes) /\ Len(name) \in Nat /\ DOMAIN name = 1 .. Len(name)
  BY LenProperties DEF IsName
<1>2. PICK W \in SUBSET DOMAIN name :
         /\ 1 \in W
         /\ \A i \in W : \/ name[i] = 0 /\ i = Len(name)
                         \/ name[i] \in 1 .. 63 /\ i + name[i] + 1 \in W
  BY DEF IsName
<1>3. Chain(name, W, Len(name)) BY <1>1, <1>2 DEF Chain
<1>4. ASSUME NEW i \in W PROVE ~IsPointer(name[i])
  <2>1. name[i] \in 0 .. 63 BY <1>2
  <2>2. QED BY <2>1, NoPointer
<1>5. QED BY <1>2, <1>3, <1>4 DEF Pointerless

LEMMA RecordNameChain ==
    ASSUME NEW name, IsRecordName(name)
    PROVE  \E W : Chain(name, W, Len(name)) /\ 1 \in W /\ AllPlain(name, W)
<1>1. name \in Seq(Bytes) /\ Len(name) \in Nat /\ DOMAIN name = 1 .. Len(name)
  BY LenProperties DEF IsRecordName
<1>2. PICK W \in SUBSET DOMAIN name :
         /\ 1 \in W
         /\ \A i \in W : \/ name[i] = 0 /\ i = Len(name)
                         \/ IsPointer(name[i]) /\ i + 1 = Len(name)
                         \/ name[i] \in 1 .. 63 /\ i + name[i] + 1 \in W /\ PlainLabel(name, i)
  BY DEF IsRecordName
<1>3. Chain(name, W, Len(name)) BY <1>1, <1>2 DEF Chain
<1>4. ASSUME NEW i \in W, name[i] \in 1 .. 63 PROVE PlainLabel(name, i)
  <2>1. PICK n \in 1 .. 63 : n = name[i] BY <1>4
  <2>2. n \in 0 .. 63 /\ n # 0 OBVIOUS
  <2>3. name[i] # 0 /\ ~IsPointer(name[i]) BY <2>1, <2>2, NoPointer
  <2>4. QED BY <1>2, <2>3
<1>5. QED BY <1>2, <1>3, <1>4 DEF AllPlain

(* The name behind X is parsed to its end, and serialize gives it back.      *)
IsRestored(s, x, name) ==
    /\ TextAt(s, x + 1) \in Seq(Bytes)
    /\ EndAt(s, x + 1) = x + Len(name) + 1
    /\ SerializeName(TextAt(s, x + 1)) = name

LEMMA RecordName ==
    ASSUME NEW X \in Seq(Bytes), NEW name, IsRecordName(name), NEW Y \in Seq(Bytes)
    PROVE  IsRestored((X \o name) \o Y, Len(X), name)
<1> DEFINE s == (X \o name) \o Y
           x == Len(X)
           e == x + Len(name)
<1>1. name \in Seq(Bytes) BY DEF IsRecordName
<1>2. PICK W0 : Chain(name, W0, Len(name)) /\ 1 \in W0 /\ AllPlain(name, W0) BY RecordNameChain
<1>3. PICK W : IsNameAt(s, W, e, x, name, W0) BY <1>1, <1>2, Shifted
<1>4. s \in Seq(Bytes) BY <1>1, Within DEF IsWithin
<1> HIDE DEF s, x, e
<1>5. Chain(s, W, e) /\ AllPlain(s, W) /\ x + 1 \in W /\ SubSeq(s, x + 1, e) = name
  BY <1>2, <1>3 DEF IsNameAt
<1>6. TextAt(s, x + 1) \in Seq(Bytes) /\ EndAt(s, x + 1) = e + 1
  BY <1>4, <1>5, ParseChain DEF ParsedTo
<1>7. SerializeName(TextAt(s, x + 1)) = name BY <1>4, <1>5, NameRestored
<1>8. IsRestored(s, x, name) BY <1>6, <1>7 DEF IsRestored, e
<1>9. QED BY <1>8 DEF s, x

(* The name of the question, which begins behind the header.                 *)
IsQuestionName(s, name) ==
    /\ TextAt(s, 13) \in Seq(Bytes)
    /\ EndAt(s, 13) = 13 + Len(name)
    /\ Len(TextAt(s, 13)) = Len(name) - 1
    /\ Plain(s) => SerializeName(TextAt(s, 13)) = name
    /\ ~Shrinks(s) => /\ SerializeName(TextAt(s, 13)) \in Seq(Int)
                      /\ Len(SerializeName(TextAt(s, 13))) = Len(name)

LEMMA QuestionName ==
    ASSUME NEW X \in Seq(Bytes), Len(X) = 12, NEW name, IsName(name), NEW Y \in Seq(Bytes)
    PROVE  IsQuestionName((X \o name) \o Y, name)
<1> DEFINE s == (X \o name) \o Y
<1>1. name \in Seq(Bytes) BY DEF IsName
<1>2. PICK L \in Nat : L = Len(name) BY <1>1, LenProperties
<1>3. PICK e \in Nat : e = 12 + L OBVIOUS
<1>4. PICK W0 : Chain(name, W0, Len(name)) /\ 1 \in W0 /\ Pointerless(name, W0) BY NameChain
<1>5. PICK W : IsNameAt(s, W, e, 12, name, W0) BY <1>1, <1>2, <1>3, <1>4, Shifted
<1>6. s \in Seq(Bytes) BY <1>1, Within DEF IsWithin
<1> HIDE DEF s
<1>7. Chain(s, W, e) /\ Pointerless(s, W) /\ 13 \in W /\ SubSeq(s, 13, e) = name
  <2>1. 12 + 1 = 13 OBVIOUS
  <2>2. QED BY <1>4, <1>5, <2>1 DEF IsNameAt
<1> DEFINE S == LabelStarts(s) \cup {e}
<1>8. Chain(s, S, e) /\ Pointerless(s, S) /\ 13 \in S /\ s[e] = 0
  <2>1. Chain(s, W, e) BY <1>7
  <2>2. Pointerless(s, W) BY <1>7
  <2>3. 13 \in W BY <1>7
  <2>4. IsQuestionChain(s, LabelStarts(s) \cup {e}, e)
    BY <1>6, <2>1, <2>2, <2>3, StartsChain, Zenon
  <2>5. QED BY <2>4 DEF IsQuestionChain
<1>9. ASSUME NEW i \in S, s[i] \in 1 .. 63 PROVE i \in LabelStarts(s)
  <2>1. s[i] # 0
    <3>1. PICK n \in 1 .. 63 : n = s[i] BY <1>9
    <3>2. n # 0 OBVIOUS
    <3>3. QED BY <3>1, <3>2
  <2>2. s[e] = 0 BY <1>8
  <2>3. i # e BY <2>1, <2>2
  <2>4. QED BY <2>3
<1>10. Plain(s) => AllPlain(s, S) BY <1>9 DEF Plain, AllPlain
<1>11. ~Shrinks(s) => Unbroken(s, S) BY <1>9 DEF Shrinks, Unbroken
<1> HIDE DEF S
<1>12. ParsedTo(s, S, e, 13) BY <1>6, <1>8, ParseChain
<1>13. /\ TextAt(s, 13) \in Seq(Bytes) /\ EndAt(s, 13) = 13 + Len(name)
       /\ Len(TextAt(s, 13)) = Len(name) - 1
  <2>1. e + 1 = 13 + L /\ e - 13 = L - 1 BY <1>3
  <2>2. QED BY <1>2, <1>8, <1>12, <2>1 DEF ParsedTo
<1>14. Plain(s) => SerializeName(TextAt(s, 13)) = name BY <1>6, <1>7, <1>8, <1>10, NameRestored
<1>15. ~Shrinks(s) => /\ SerializeName(TextAt(s, 13)) \in Seq(Int)
                      /\ Len(SerializeName(TextAt(s, 13))) = Len(name)
  <2>1. e + 1 - 13 = L BY <1>3
  <2>2. QED BY <1>2, <1>6, <1>8, <1>11, <2>1, LengthKept
<1>16. IsQuestionName(s, name) BY <1>13, <1>14, <1>15 DEF IsQuestionName
<1>17. QED BY <1>16 DEF s

-----------------------------------------------------------------------------
(* The header. *)
LEMMA WordFacts ==
    ASSUME NEW v \in Words
    PROVE  /\ v \div 256 \in Bytes /\ v % 256 \in Bytes
           /\ (v \div 256) * 256 + (v % 256) = v
BY DEF Words, Bytes

LEMMA Bytes16Facts ==
    ASSUME NEW v \in Words
    PROVE  /\ Bytes16(v) \in Seq(Bytes) /\ Len(Bytes16(v)) = 2
           /\ Bytes16(v)[1] = v \div 256 /\ Bytes16(v)[2] = v % 256
           /\ Bytes16(v)[1] * 256 + Bytes16(v)[2] = v
<1> DEFINE a == v \div 256
           b == v % 256
<1>1. a \in Bytes /\ b \in Bytes /\ a * 256 + b = v BY WordFacts
<1>2. Bytes16(v) = <<a, b>> BY DEF Bytes16
<1> HIDE DEF a, b
<1>3. <<a, b>> \in Seq(Bytes) /\ Len(<<a, b>>) = 2 /\ <<a, b>>[1] = a /\ <<a, b>>[2] = b BY <1>1
<1>4. QED BY <1>1, <1>2, <1>3 DEF a, b

(* Two bytes that read as a word are those of the word.                      *)
LEMMA Bytes16Read ==
    ASSUME NEW s, NEW p \in Int, s[p] \in Bytes, s[p + 1] \in Bytes
    PROVE  Read16(s, p) \in Words /\ Bytes16(Read16(s, p)) = <<s[p], s[p + 1]>>
<1>1. PICK a \in 0 .. 255 : a = s[p] BY DEF Bytes
<1>2. PICK b \in 0 .. 255 : b = s[p + 1] BY DEF Bytes
<1>3. a * 256 + b \in Words BY DEF Words
<1>4. PICK v \in Words : v = a * 256 + b BY <1>3
<1>5. v \div 256 = a BY <1>4 DEF Words
<1>6. v % 256 = b BY <1>4 DEF Words
<1>7. Read16(s, p) = v BY <1>1, <1>2, <1>4 DEF Read16
<1>8. Bytes16(v) = <<s[p], s[p + 1]>> BY <1>1, <1>2, <1>5, <1>6 DEF Bytes16
<1>9. QED BY <1>7, <1>8

LEMMA FlagsFacts ==
    ASSUME NEW v \in Words
    PROVE  SerializeFlags(ParseFlags(v)) = v
<1> DEFINE f == ParseFlags(v)
<1>1. /\ f.qr = v \div 32768 /\ f.opcode = (v \div 2048) % 16 /\ f.aa = (v \div 1024) % 2
      /\ f.tc = (v \div 512) % 2 /\ f.rd = (v \div 256) % 2 /\ f.ra = (v \div 128) % 2
      /\ f.z = (v \div 16) % 8 /\ f.rcode = v % 16
  BY DEF ParseFlags
<1>2. (v \div 32768) * 32768 + ((v \div 2048) % 16) * 2048 = (v \div 2048) * 2048 BY DEF Words
<1>3. (v \div 2048) * 2048 + ((v \div 1024) % 2) * 1024 = (v \div 1024) * 1024 BY DEF Words
<1>4. (v \div 1024) * 1024 + ((v \div 512) % 2) * 512 = (v \div 512) * 512 BY DEF Words
<1>5. (v \div 512) * 512 + ((v \div 256) % 2) * 256 = (v \div 256) * 256 BY DEF Words
<1>6. (v \div 256) * 256 + ((v \div 128) % 2) * 128 = (v \div 128) * 128 BY DEF Words
<1>7. (v \div 128) * 128 + ((v \div 16) % 8) * 16 = (v \div 16) * 16 BY DEF Words
<1>8. (v \div 16) * 16 + (v % 16) = v BY DEF Words
<1> HIDE DEF f
<1>9. QED BY <1>1, <1>2, <1>3, <1>4, <1>5, <1>6, <1>7, <1>8 DEF SerializeFlags, f

(* m stands behind the first x bytes of s. *)
Has(s, S, x, m) ==
    /\ s \in Seq(S) /\ m \in Seq(S) /\ x \in Nat
    /\ Len(s) \in Nat /\ Len(m) \in Nat /\ x + Len(m) <= Len(s)
    /\ \A k \in 1 .. Len(m) : s[x + k] = m[k]

LEMMA HasFront ==
    ASSUME NEW S, NEW a \in Seq(S), NEW b \in Seq(S)
    PROVE  Has(a \o b, S, 0, a) /\ Has(a \o b, S, Len(a), b)
<1> DEFINE s == a \o b
<1>1. IsJoin(s, S, a, b) BY JoinFacts
<1> HIDE DEF s
<1>2. PICK x \in Nat : x = Len(a) BY LenProperties
<1>3. PICK y \in Nat : y = Len(b) BY LenProperties
<1>4. Len(s) = x + y /\ s \in Seq(S) BY <1>1, <1>2, <1>3 DEF IsJoin
<1>5. \A k \in 1 .. x : s[0 + k] = a[k] BY <1>1, <1>2 DEF IsJoin
<1>6. \A k \in 1 .. y : s[x + k] = b[k] BY <1>1, <1>2, <1>3 DEF IsJoin
<1>7. Has(s, S, 0, a) BY <1>2, <1>4, <1>5 DEF Has
<1>8. Has(s, S, x, b) BY <1>3, <1>4, <1>6 DEF Has
<1>9. QED BY <1>2, <1>7, <1>8 DEF s

LEMMA HasSplit ==
    ASSUME NEW S, NEW a \in Seq(S), NEW b \in Seq(S), NEW s, NEW x \in Nat, Has(s, S, x, a \o b)
    PROVE  Has(s, S, x, a) /\ Has(s, S, x + Len(a), b)
<1> DEFINE c == a \o b
<1>1. IsJoin(c, S, a, b) BY JoinFacts
<1>2. Has(s, S, x, c) OBVIOUS
<1> HIDE DEF c
<1>3. PICK n \in Nat : n = Len(a) BY LenProperties
<1>4. PICK y \in Nat : y = Len(b) BY LenProperties
<1>5. Len(c) = n + y BY <1>1, <1>3, <1>4 DEF IsJoin
<1>6. s \in Seq(S) /\ Len(s) \in Nat /\ x + n + y <= Len(s)
      /\ \A k \in 1 .. n + y : s[x + k] = c[k]
  BY <1>2, <1>5 DEF Has
<1>7. ASSUME NEW k \in 1 .. n PROVE s[x + k] = a[k]
  <2>1. k \in 1 .. n + y OBVIOUS
  <2>2. c[k] = a[k] BY <1>1, <1>3 DEF IsJoin
  <2>3. QED BY <1>6, <2>1, <2>2
<1>8. ASSUME NEW k \in 1 .. y PROVE s[x + n + k] = b[k]
  <2>1. n + k \in 1 .. n + y /\ x + (n + k) = x + n + k OBVIOUS
  <2>2. c[n + k] = b[k] BY <1>1, <1>3, <1>4 DEF IsJoin
  <2>3. s[x + (n + k)] = c[n + k] BY <1>6, <2>1
  <2>4. QED BY <2>1, <2>2, <2>3
<1>9. Has(s, S, x, a) BY <1>3, <1>6, <1>7 DEF Has
<1>10. Has(s, S, x + n, b) BY <1>4, <1>6, <1>8 DEF Has
<1>11. QED BY <1>3, <1>9, <1>10

(* What is before it, and what is behind it. *)
IsAmid(s, S, x, m) == \E X \in Seq(S), Y \in Seq(S) : Len(X) = x /\ s = (X \o m) \o Y

LEMMA HasContext ==
    ASSUME NEW S, NEW s, NEW x, NEW m, Has(s, S, x, m)
    PROVE  IsAmid(s, S, x, m)
<1>1. s \in Seq(S) /\ m \in Seq(S) /\ x \in Nat BY DEF Has
<1>2. PICK n \in Nat : n = Len(m) BY DEF Has
<1>3. PICK l \in Nat : l = Len(s) BY DEF Has
<1>4. x + n <= l /\ \A k \in 1 .. n : s[x + k] = m[k] BY <1>2, <1>3 DEF Has
<1>5. \A k \in 1 .. l : s[k] \in S BY <1>1, <1>3, ElementOfSeq
<1> DEFINE X == SubSeq(s, 1, x)
           Y == SubSeq(s, x + n + 1, l)
           c == X \o m
           d == c \o Y
<1>6. X \in Seq(S) /\ Len(X) = x /\ \A k \in 1 .. x : X[k] = s[k]
  <2>1. \A k \in 1 .. x : s[k] \in S BY <1>1, <1>4, <1>5
  <2>2. /\ X \in Seq(S) /\ Len(X) = IF 1 <= x THEN x - 1 + 1 ELSE 0
        /\ \A k \in 1 .. x - 1 + 1 : X[k] = s[1 + k - 1]
    BY <1>1, <2>1, SubSeqProperties
  <2> HIDE DEF X
  <2>3. QED BY <1>1, <2>2
<1>7. Y \in Seq(S) /\ Len(Y) = l - x - n /\ \A k \in 1 .. l - x - n : Y[k] = s[x + n + k]
  <2>1. PICK p \in Int : p = x + n + 1 BY <1>1
  <2>2. \A k \in p .. l : s[k] \in S
    <3>1. \A k \in p .. l : k \in 1 .. l BY <1>1, <2>1
    <3>2. QED BY <1>5, <3>1
  <2>3. /\ SubSeq(s, p, l) \in Seq(S) /\ Len(SubSeq(s, p, l)) = IF p <= l THEN l - p + 1 ELSE 0
        /\ \A k \in 1 .. l - p + 1 : SubSeq(s, p, l)[k] = s[p + k - 1]
    BY <2>2, SubSeqProperties
  <2>4. Y = SubSeq(s, p, l) BY <2>1
  <2>5. l - p + 1 = l - x - n /\ (p <= l \/ l - x - n = 0)
        /\ \A k \in 1 .. l - x - n : p + k - 1 = x + n + k
    BY <1>1, <1>4, <2>1
  <2> HIDE DEF Y
  <2>6. QED BY <2>3, <2>4, <2>5
<1> HIDE DEF X, Y
<1>8. IsJoin(c, S, X, m) BY <1>1, <1>6, JoinFacts
<1>9. /\ c \in Seq(S) /\ Len(c) = x + n /\ \A k \in 1 .. x : c[k] = X[k]
      /\ \A k \in 1 .. n : c[x + k] = m[k]
  BY <1>2, <1>6, <1>8 DEF IsJoin
<1> HIDE DEF c
<1>10. IsJoin(d, S, c, Y) BY <1>7, <1>9, JoinFacts
<1>11. /\ d \in Seq(S) /\ Len(d) = l /\ \A k \in 1 .. x + n : d[k] = c[k]
       /\ \A k \in 1 .. l - x - n : d[x + n + k] = Y[k]
  <2>1. x + n + (l - x - n) = l BY <1>1
  <2> HIDE DEF d
  <2>2. QED BY <1>7, <1>9, <1>10, <2>1 DEF IsJoin
<1> HIDE DEF d
<1>12. ASSUME NEW k \in 1 .. l PROVE d[k] = s[k]
  <2>1. CASE k <= x
    <3>1. k \in 1 .. x /\ k \in 1 .. x + n BY <1>1, <2>1
    <3>2. QED BY <1>6, <1>9, <1>11, <3>1
  <2>2. CASE k > x /\ k <= x + n
    <3>1. PICK j \in Int : j = k - x BY <1>1
    <3>2. j \in 1 .. n /\ x + j = k /\ k \in 1 .. x + n BY <1>1, <2>2, <3>1
    <3>3. d[k] = c[k] /\ c[x + j] = m[j] /\ s[x + j] = m[j] BY <1>4, <1>9, <1>11, <3>2
    <3>4. QED BY <3>2, <3>3
  <2>3. CASE k > x + n
    <3>1. PICK j \in Int : j = k - x - n BY <1>1
    <3>2. j \in 1 .. l - x - n /\ x + n + j = k BY <1>1, <2>3, <3>1
    <3>3. d[x + n + j] = Y[j] /\ Y[j] = s[x + n + j] BY <1>7, <1>11, <3>2
    <3>4. QED BY <3>2, <3>3
  <2>4. QED BY <1>1, <2>1, <2>2, <2>3
<1>13. d = s BY <1>1, <1>3, <1>11, <1>12, SeqEqual
<1>14. QED BY <1>6, <1>7, <1>13 DEF c, d, IsAmid

(* A word is read where it stands. *)
LEMMA HasWord ==
    ASSUME NEW S, NEW s, NEW x \in Nat, NEW w \in Words, Has(s, S, x, Bytes16(w))
    PROVE  Read16(s, x + 1) = w
<1>1. Len(Bytes16(w)) = 2 /\ Bytes16(w)[1] * 256 + Bytes16(w)[2] = w BY Bytes16Facts
<1>2. s[x + 1] = Bytes16(w)[1] /\ s[x + 2] = Bytes16(w)[2] BY <1>1 DEF Has
<1>3. x + 1 + 1 = x + 2 OBVIOUS
<1>4. QED BY <1>1, <1>2, <1>3 DEF Read16

LEMMA SeqSubset ==
    ASSUME NEW A, NEW B, A \subseteq B
    PROVE  Seq(A) \subseteq Seq(B)
<1>1. ASSUME NEW q \in Seq(A) PROVE q \in Seq(B)
  <2>1. Len(q) \in Nat /\ \A k \in 1 .. Len(q) : q[k] \in B BY LenProperties, ElementOfSeq
  <2>2. q \in [1 .. Len(q) -> B] BY <2>1, LenProperties
  <2>3. QED BY <2>1, <2>2, SeqDef
<1>2. QED BY <1>1

(* A sequence of n elements. *)
Of(q, S, n) == n \in Nat /\ q \in Seq(S) /\ Len(q) = n

LEMMA OfJoin ==
    ASSUME NEW S, NEW a, NEW b, NEW m, NEW n, Of(a, S, m), Of(b, S, n)
    PROVE  Of(a \o b, S, m + n)
<1>1. a \in Seq(S) /\ b \in Seq(S) /\ m \in Nat /\ n \in Nat /\ Len(a) = m /\ Len(b) = n BY DEF Of
<1>2. IsJoin(a \o b, S, a, b) BY <1>1, JoinFacts
<1>3. a \o b \in Seq(S) /\ Len(a \o b) = m + n BY <1>1, <1>2 DEF IsJoin
<1>4. m + n \in Nat BY <1>1
<1>5. QED BY <1>3, <1>4 DEF Of

LEMMA OfWord ==
    ASSUME NEW S, Bytes \subseteq S, NEW w \in Words
    PROVE  Of(Bytes16(w), S, 2)
<1>1. Bytes16(w) \in Seq(Bytes) /\ Len(Bytes16(w)) = 2 BY Bytes16Facts
<1>2. QED BY <1>1, SeqSubset DEF Of

HeaderWords(id, v, an, ns, ar) ==
    id \in Words /\ v \in Words /\ an \in Words /\ ns \in Words /\ ar \in Words

HeaderBytes(id, v, qd, an, ns, ar) ==
    Bytes16(id) \o Bytes16(v) \o Bytes16(qd) \o Bytes16(an) \o Bytes16(ns) \o Bytes16(ar)

LEMMA HeaderBytesFacts ==
    ASSUME NEW S, Bytes \subseteq S,
           NEW id, NEW v, NEW qd \in Words, NEW an, NEW ns, NEW ar, HeaderWords(id, v, an, ns, ar)
    PROVE  Of(HeaderBytes(id, v, qd, an, ns, ar), S, 12)
<1>2. \A w \in Words : Of(Bytes16(w), S, 2) BY OfWord
<1> DEFINE h2 == Bytes16(id) \o Bytes16(v)
           h3 == h2 \o Bytes16(qd)
           h4 == h3 \o Bytes16(an)
           h5 == h4 \o Bytes16(ns)
           h6 == h5 \o Bytes16(ar)
<1>3. Of(h2, S, 2 + 2) BY <1>2, OfJoin DEF HeaderWords
<1> HIDE DEF h2
<1>4. Of(h3, S, 2 + 2 + 2) BY <1>2, <1>3, OfJoin
<1> HIDE DEF h3
<1>5. Of(h4, S, 2 + 2 + 2 + 2) BY <1>2, <1>4, OfJoin DEF HeaderWords
<1> HIDE DEF h4
<1>6. Of(h5, S, 2 + 2 + 2 + 2 + 2) BY <1>2, <1>5, OfJoin DEF HeaderWords
<1> HIDE DEF h5
<1>7. Of(h6, S, 2 + 2 + 2 + 2 + 2 + 2) BY <1>2, <1>6, OfJoin DEF HeaderWords
<1> HIDE DEF h6
<1>8. h6 = HeaderBytes(id, v, qd, an, ns, ar) BY DEF HeaderBytes, h2, h3, h4, h5, h6
<1>9. 2 + 2 + 2 + 2 + 2 + 2 = 12 OBVIOUS
<1>10. QED BY <1>7, <1>8, <1>9

LEMMA HeaderFacts ==
    ASSUME NEW S, Bytes \subseteq S,
           NEW id, NEW v, NEW an, NEW ns, NEW ar, HeaderWords(id, v, an, ns, ar)
    PROVE  Of(HeaderOf(id, v, an, ns, ar), S, 12)
<1>1. 1 \in Words BY DEF Words
<1>2. Of(HeaderBytes(id, v, 1, an, ns, ar), S, 12) BY <1>1, HeaderBytesFacts
<1>3. QED BY <1>2 DEF HeaderOf, HeaderBytes

(* The words read are those written. *)
LEMMA WordRead ==
    ASSUME NEW S, Bytes \subseteq S, NEW h, NEW n, Of(h, S, n), NEW w \in Words,
           NEW s, Has(s, S, 0, h \o Bytes16(w))
    PROVE  Has(s, S, 0, h) /\ Read16(s, n + 1) = w
<1>1. h \in Seq(S) /\ n \in Nat /\ Len(h) = n BY DEF Of
<1>2. Bytes16(w) \in Seq(S) BY OfWord DEF Of
<1>3. Has(s, S, 0, h) /\ Has(s, S, 0 + n, Bytes16(w))
  <2>1. 0 \in Nat OBVIOUS
  <2>2. QED BY <1>1, <1>2, <2>1, HasSplit, Zenon
<1>4. 0 + n = n BY <1>1
<1>5. Has(s, S, n, Bytes16(w)) BY <1>3, <1>4
<1>6. Read16(s, n + 1) = w BY <1>1, <1>5, HasWord
<1>7. QED BY <1>3, <1>6

IsHeader(h, id, v, qd, an, ns, ar) ==
    h = [id |-> id, flags |-> ParseFlags(v), qdcount |-> qd,
         ancount |-> an, nscount |-> ns, arcount |-> ar]

(* The fields of a packet's header are those it was made of. *)
LEMMA HeaderBytesRead ==
    ASSUME NEW S, Bytes \subseteq S,
           NEW id, NEW v, NEW qd \in Words, NEW an, NEW ns, NEW ar, HeaderWords(id, v, an, ns, ar),
           NEW s, Has(s, S, 0, HeaderBytes(id, v, qd, an, ns, ar))
    PROVE  IsHeader(ParseHeader(s), id, v, qd, an, ns, ar)
<1>2. \A w \in Words : Of(Bytes16(w), S, 2) BY OfWord
<1> DEFINE h1 == Bytes16(id)
           h2 == h1 \o Bytes16(v)
           h3 == h2 \o Bytes16(qd)
           h4 == h3 \o Bytes16(an)
           h5 == h4 \o Bytes16(ns)
           h6 == h5 \o Bytes16(ar)
<1>3. id \in Words /\ v \in Words /\ an \in Words /\ ns \in Words /\ ar \in Words
  BY DEF HeaderWords
<1>4. Has(s, S, 0, h6) BY DEF HeaderBytes
<1>5. Of(h1, S, 2) BY <1>2, <1>3
<1> HIDE DEF h1
<1>6. Of(h2, S, 4)
  <2>1. Of(h2, S, 2 + 2) BY <1>2, <1>3, <1>5, OfJoin
  <2>2. QED BY <2>1
<1> HIDE DEF h2
<1>7. Of(h3, S, 6)
  <2>1. Of(h3, S, 4 + 2) BY <1>2, <1>6, OfJoin
  <2>2. QED BY <2>1
<1> HIDE DEF h3
<1>8. Of(h4, S, 8)
  <2>1. Of(h4, S, 6 + 2) BY <1>2, <1>3, <1>7, OfJoin
  <2>2. QED BY <2>1
<1> HIDE DEF h4
<1>9. Of(h5, S, 10)
  <2>1. Of(h5, S, 8 + 2) BY <1>2, <1>3, <1>8, OfJoin
  <2>2. QED BY <2>1
<1> HIDE DEF h5
<1>10. Has(s, S, 0, h5) /\ Read16(s, 10 + 1) = ar BY <1>3, <1>4, <1>9, WordRead DEF h6
<1>11. Has(s, S, 0, h4) /\ Read16(s, 8 + 1) = ns BY <1>3, <1>8, <1>10, WordRead DEF h5
<1>12. Has(s, S, 0, h3) /\ Read16(s, 6 + 1) = an BY <1>3, <1>7, <1>11, WordRead DEF h4
<1>13. Has(s, S, 0, h2) /\ Read16(s, 4 + 1) = qd BY <1>6, <1>12, WordRead DEF h3
<1>14. Has(s, S, 0, h1) /\ Read16(s, 2 + 1) = v BY <1>3, <1>5, <1>13, WordRead DEF h2
<1>15. Read16(s, 0 + 1) = id BY <1>3, <1>14, HasWord DEF h1
<1>16. /\ Read16(s, 1) = id /\ Read16(s, 3) = v /\ Read16(s, 5) = qd
       /\ Read16(s, 7) = an /\ Read16(s, 9) = ns /\ Read16(s, 11) = ar
  BY <1>10, <1>11, <1>12, <1>13, <1>14, <1>15
<1>17. QED BY <1>16 DEF ParseHeader, IsHeader

LEMMA HeaderRead ==
    ASSUME NEW S, Bytes \subseteq S,
           NEW id, NEW v, NEW an, NEW ns, NEW ar, HeaderWords(id, v, an, ns, ar),
           NEW s, Has(s, S, 0, HeaderOf(id, v, an, ns, ar))
    PROVE  IsHeader(ParseHeader(s), id, v, 1, an, ns, ar)
<1>1. 1 \in Words BY DEF Words
<1>2. Has(s, S, 0, HeaderBytes(id, v, 1, an, ns, ar)) BY DEF HeaderOf, HeaderBytes
<1>3. QED BY <1>1, <1>2, HeaderBytesRead

Assoc(a, b, c) == (a \o b) \o c = a \o (b \o c)

LEMMA JoinsAssociate ==
    ASSUME NEW S, NEW a \in Seq(S), NEW b \in Seq(S), NEW c \in Seq(S)
    PROVE  Assoc(a, b, c)
BY ConcatAssociative DEF Assoc

(* Another id changes nothing behind it. *)
IsBehindId(Z, v, an, ns, ar, R) ==
    /\ Z \in Seq(Bytes)
    /\ \A id \in Words : HeaderOf(id, v, an, ns, ar) \o R = Bytes16(id) \o Z

LEMMA HeaderSplit ==
    ASSUME NEW v, NEW an, NEW ns, NEW ar, HeaderWords(0, v, an, ns, ar), NEW R \in Seq(Bytes)
    PROVE  \E Z : IsBehindId(Z, v, an, ns, ar, R)
<1> DEFINE S == Bytes
<1>2. \A w \in Words : Bytes16(w) \in Seq(S) BY OfWord DEF Of
<1>3. v \in Words /\ 1 \in Words /\ an \in Words /\ ns \in Words /\ ar \in Words
  BY DEF HeaderWords, Words
<1>4. \A a, b \in Seq(S) : a \o b \in Seq(S) BY ConcatProperties
<1> DEFINE b1 == Bytes16(v)
           b2 == Bytes16(1)
           b3 == Bytes16(an)
           b4 == Bytes16(ns)
           b5 == Bytes16(ar)
           z5 == b5 \o R
           z4 == b4 \o z5
           z3 == b3 \o z4
           z2 == b2 \o z3
           z1 == b1 \o z2
<1>5. b1 \in Seq(S) /\ b2 \in Seq(S) /\ b3 \in Seq(S) /\ b4 \in Seq(S) /\ b5 \in Seq(S)
  BY <1>2, <1>3
<1> HIDE DEF b1, b2, b3, b4, b5
<1>6. z5 \in Seq(S) BY <1>4, <1>5
<1> HIDE DEF z5
<1>7. z4 \in Seq(S) BY <1>4, <1>5, <1>6
<1> HIDE DEF z4
<1>8. z3 \in Seq(S) BY <1>4, <1>5, <1>7
<1> HIDE DEF z3
<1>9. z2 \in Seq(S) BY <1>4, <1>5, <1>8
<1> HIDE DEF z2
<1>10. z1 \in Seq(S) BY <1>4, <1>5, <1>9
<1> HIDE DEF z1
<1>11. ASSUME NEW id \in Words PROVE HeaderOf(id, v, an, ns, ar) \o R = Bytes16(id) \o z1
  <2> DEFINE h1 == Bytes16(id)
             h2 == h1 \o b1
             h3 == h2 \o b2
             h4 == h3 \o b3
             h5 == h4 \o b4
             h6 == h5 \o b5
  <2>1. HeaderOf(id, v, an, ns, ar) = h6 BY DEF HeaderOf, b1, b2, b3, b4, b5
  <2>2. h1 \in Seq(S) BY <1>2
  <2> HIDE DEF h1
  <2>3. h2 \in Seq(S) /\ h2 \o z2 = h1 \o z1
    <3>1. Assoc(h1, b1, z2) BY <1>5, <1>9, <2>2, JoinsAssociate
    <3>2. QED BY <1>4, <1>5, <2>2, <3>1 DEF z1, Assoc
  <2> HIDE DEF h2
  <2>4. h3 \in Seq(S) /\ h3 \o z3 = h2 \o z2
    <3>1. Assoc(h2, b2, z3) BY <1>5, <1>8, <2>3, JoinsAssociate
    <3>2. QED BY <1>4, <1>5, <2>3, <3>1 DEF z2, Assoc
  <2> HIDE DEF h3
  <2>5. h4 \in Seq(S) /\ h4 \o z4 = h3 \o z3
    <3>1. Assoc(h3, b3, z4) BY <1>5, <1>7, <2>4, JoinsAssociate
    <3>2. QED BY <1>4, <1>5, <2>4, <3>1 DEF z3, Assoc
  <2> HIDE DEF h4
  <2>6. h5 \in Seq(S) /\ h5 \o z5 = h4 \o z4
    <3>1. Assoc(h4, b4, z5) BY <1>5, <1>6, <2>5, JoinsAssociate
    <3>2. QED BY <1>4, <1>5, <2>5, <3>1 DEF z4, Assoc
  <2> HIDE DEF h5
  <2>7. h6 \o R = h5 \o z5
    <3>1. Assoc(h5, b5, R) BY <1>5, <2>6, JoinsAssociate
    <3>2. QED BY <3>1 DEF z5, Assoc
  <2> HIDE DEF h6
  <2>8. QED BY <2>1, <2>3, <2>4, <2>5, <2>6, <2>7 DEF h1
<1>12. QED BY <1>10, <1>11 DEF IsBehindId

LEMMA HasSub ==
    ASSUME NEW S, NEW s, NEW x, NEW m, Has(s, S, x, m)
    PROVE  SubSeq(s, x + 1, x + Len(m)) = m
<1>0. IsAmid(s, S, x, m) BY HasContext
<1>1. PICK X \in Seq(S), Y \in Seq(S) : Len(X) = x /\ s = (X \o m) \o Y
  BY <1>0 DEF IsAmid
<1>2. m \in Seq(S) BY DEF Has
<1>3. IsWithin(s, S, X, m, Y) BY <1>1, <1>2, Within
<1>4. QED BY <1>1, <1>3 DEF IsWithin

-----------------------------------------------------------------------------
(* A record is parsed to its end, and serialize gives back its bytes.        *)
LEMMA Pair ==
    ASSUME NEW S, NEW a \in S, NEW b \in S
    PROVE  /\ <<a, b>> \in Seq(S) /\ Len(<<a, b>>) = 2
           /\ <<a, b>>[1] = a /\ <<a, b>>[2] = b
OBVIOUS

LEMMA TwoPairs ==
    ASSUME NEW S, NEW a \in S, NEW b \in S, NEW c \in S, NEW d \in S
    PROVE  /\ <<a, b>> \o <<c, d>> \in Seq(S) /\ Len(<<a, b>> \o <<c, d>>) = 4
           /\ (<<a, b>> \o <<c, d>>)[1] = a /\ (<<a, b>> \o <<c, d>>)[2] = b
           /\ (<<a, b>> \o <<c, d>>)[3] = c /\ (<<a, b>> \o <<c, d>>)[4] = d
<1> DEFINE p == <<a, b>>
           q == <<c, d>>
           t == p \o q
<1>1. p \in Seq(S) /\ Len(p) = 2 /\ p[1] = a /\ p[2] = b BY Pair
<1>2. q \in Seq(S) /\ Len(q) = 2 /\ q[1] = c /\ q[2] = d BY Pair
<1> HIDE DEF p, q
<1>3. IsJoin(t, S, p, q) BY <1>1, <1>2, JoinFacts
<1> HIDE DEF t
<1>4. /\ t \in Seq(S) /\ Len(t) = 4
      /\ \A k \in 1 .. 2 : t[k] = p[k]
      /\ \A k \in 1 .. 2 : t[2 + k] = q[k]
  BY <1>1, <1>2, <1>3 DEF IsJoin
<1>5. t[1] = a /\ t[2] = b BY <1>1, <1>4
<1>6. t[2 + 1] = c /\ t[2 + 2] = d BY <1>2, <1>4
<1>7. t[3] = c /\ t[4] = d BY <1>6
<1>8. QED BY <1>4, <1>5, <1>7 DEF p, q, t

LEMMA EightBytes ==
    ASSUME NEW f \in Seq(Bytes), Len(f) = 8
    PROVE  f = (<<f[1], f[2]>> \o <<f[3], f[4]>>) \o (<<f[5], f[6]>> \o <<f[7], f[8]>>)
<1>1. \A k \in 1 .. 8 : f[k] \in Bytes BY ElementOfSeq
<1> DEFINE p == <<f[1], f[2]>> \o <<f[3], f[4]>>
           q == <<f[5], f[6]>> \o <<f[7], f[8]>>
           t == p \o q
<1>2. p \in Seq(Bytes) /\ Len(p) = 4 /\ p[1] = f[1] /\ p[2] = f[2] /\ p[3] = f[3] /\ p[4] = f[4]
  <2>1. f[1] \in Bytes /\ f[2] \in Bytes /\ f[3] \in Bytes /\ f[4] \in Bytes BY <1>1
  <2>2. QED BY <2>1, TwoPairs
<1>3. q \in Seq(Bytes) /\ Len(q) = 4 /\ q[1] = f[5] /\ q[2] = f[6] /\ q[3] = f[7] /\ q[4] = f[8]
  <2>1. f[5] \in Bytes /\ f[6] \in Bytes /\ f[7] \in Bytes /\ f[8] \in Bytes BY <1>1
  <2>2. QED BY <2>1, TwoPairs
<1> HIDE DEF p, q
<1>4. IsJoin(t, Bytes, p, q) BY <1>2, <1>3, JoinFacts
<1> HIDE DEF t
<1>5. /\ t \in Seq(Bytes) /\ Len(t) = 8
      /\ \A k \in 1 .. 4 : t[k] = p[k]
      /\ \A k \in 1 .. 4 : t[4 + k] = q[k]
  BY <1>2, <1>3, <1>4 DEF IsJoin
<1>6. t[1] = f[1] /\ t[2] = f[2] /\ t[3] = f[3] /\ t[4] = f[4] BY <1>2, <1>5
<1>7. t[4 + 1] = f[5] /\ t[4 + 2] = f[6] /\ t[4 + 3] = f[7] /\ t[4 + 4] = f[8] BY <1>3, <1>5
<1>8. \A k \in 1 .. 8 : t[k] = f[k]
  <2>1. t[5] = f[5] /\ t[6] = f[6] /\ t[7] = f[7] /\ t[8] = f[8] BY <1>7
  <2>2. ASSUME NEW k \in 1 .. 8 PROVE t[k] = f[k]
    <3>1. k = 1 \/ k = 2 \/ k = 3 \/ k = 4 \/ k = 5 \/ k = 6 \/ k = 7 \/ k = 8 OBVIOUS
    <3>2. QED BY <1>6, <2>1, <3>1
  <2>3. QED BY <2>2
<1>9. t = f BY <1>5, <1>8, SeqEqual
<1>10. QED BY <1>9 DEF p, q, t

LEMMA FieldWord ==
    ASSUME NEW s, NEW e \in Nat, NEW f, Has(s, Bytes, e, f)
    PROVE  \A k \in 1 .. Len(f) - 1 : Bytes16(Read16(s, e + k)) = <<f[k], f[k + 1]>>
<1> TAKE k \in 1 .. Len(f) - 1
<1>1. f \in Seq(Bytes) /\ Len(f) \in Nat BY DEF Has
<1>2. k \in 1 .. Len(f) /\ k + 1 \in 1 .. Len(f) BY <1>1
<1>3. f[k] \in Bytes /\ f[k + 1] \in Bytes BY <1>1, <1>2, ElementOfSeq
<1>4. s[e + k] = f[k] /\ s[e + (k + 1)] = f[k + 1] BY <1>2 DEF Has
<1>5. PICK p \in Int : p = e + k OBVIOUS
<1>6. p + 1 = e + (k + 1) BY <1>5
<1>7. s[p] = f[k] /\ s[p + 1] = f[k + 1] BY <1>4, <1>5, <1>6
<1>8. Bytes16(Read16(s, p)) = <<s[p], s[p + 1]>> BY <1>3, <1>7, Bytes16Read
<1>9. QED BY <1>5, <1>7, <1>8

IsRecordAt(s, x, r) ==
    /\ ParseRecord(s, x + 1).next = x + Len(RecordBytes(r)) + 1
    /\ SerializeRecord(ParseRecord(s, x + 1).value) = RecordBytes(r)

(* The parts of a record. *)
RecordParts(r, n, m) ==
    /\ r.name \in Seq(Bytes) /\ Len(r.name) = n /\ n \in Nat
    /\ r.fields \in Seq(Bytes) /\ Len(r.fields) = 8
    /\ r.data \in Seq(Bytes) /\ Len(r.data) = m /\ m \in Words
    /\ Bytes16(m) \in Seq(Bytes) /\ Len(Bytes16(m)) = 2
    /\ RecordBytes(r) \in Seq(Bytes) /\ Len(RecordBytes(r)) = n + 10 + m

LEMMA RecordBytesFacts ==
    ASSUME NEW r, IsRecord(r)
    PROVE  \E n, m : RecordParts(r, n, m)
<1> DEFINE a == r.name \o r.fields
           l == Bytes16(Len(r.data))
           b == a \o l
           c == b \o r.data
<1>1. /\ r.name \in Seq(Bytes) /\ r.fields \in Seq(Bytes) /\ Len(r.fields) = 8
      /\ r.data \in Seq(Bytes) /\ Len(r.data) \in Words
  BY DEF IsRecord, IsRecordName
<1>2. PICK n \in Nat : n = Len(r.name) BY <1>1, LenProperties
<1>3. PICK m \in Words : m = Len(r.data) BY <1>1
<1>4. m \in Nat BY <1>3 DEF Words
<1>5. Of(r.name, Bytes, n) /\ Of(r.fields, Bytes, 8) /\ Of(r.data, Bytes, m)
  BY <1>1, <1>2, <1>3, <1>4 DEF Of
<1>6. Of(l, Bytes, 2) BY <1>1, OfWord
<1> HIDE DEF l
<1>7. Of(a, Bytes, n + 8) BY <1>5, OfJoin
<1> HIDE DEF a
<1>8. Of(b, Bytes, (n + 8) + 2) BY <1>6, <1>7, OfJoin
<1> HIDE DEF b
<1>9. Of(c, Bytes, ((n + 8) + 2) + m) BY <1>5, <1>8, OfJoin
<1>10. c = RecordBytes(r) BY DEF c, b, a, l, RecordBytes
<1> HIDE DEF c
<1>11. ((n + 8) + 2) + m = n + 10 + m BY <1>4
<1>12. RecordBytes(r) \in Seq(Bytes) /\ Len(RecordBytes(r)) = n + 10 + m
  BY <1>9, <1>10, <1>11 DEF Of
<1>13. Bytes16(m) \in Seq(Bytes) /\ Len(Bytes16(m)) = 2 BY Bytes16Facts
<1>14. RecordParts(r, n, m) BY <1>1, <1>2, <1>3, <1>12, <1>13 DEF RecordParts
<1>15. QED BY <1>14

LEMMA RecordRead ==
    ASSUME NEW s, NEW x \in Nat, NEW r, IsRecord(r), Has(s, Bytes, x, RecordBytes(r))
    PROVE  IsRecordAt(s, x, r)
<1>1. PICK n, m : RecordParts(r, n, m) BY RecordBytesFacts
<1> DEFINE a == r.name \o r.fields
           b == a \o Bytes16(m)
           p == ParseRecord(s, x + 1)
           e == x + n
<1>2. /\ r.name \in Seq(Bytes) /\ Len(r.name) = n /\ n \in Nat
      /\ r.fields \in Seq(Bytes) /\ Len(r.fields) = 8
      /\ r.data \in Seq(Bytes) /\ Len(r.data) = m /\ m \in Words
      /\ Bytes16(m) \in Seq(Bytes) /\ Len(Bytes16(m)) = 2
      /\ Len(RecordBytes(r)) = n + 10 + m
  BY <1>1 DEF RecordParts
<1>3. m \in Nat BY <1>2 DEF Words
<1>4. Of(a, Bytes, n + 8)
  <2>1. Of(r.name, Bytes, n) /\ Of(r.fields, Bytes, 8) BY <1>2 DEF Of
  <2>2. QED BY <2>1, OfJoin
<1>5. Of(b, Bytes, (n + 8) + 2)
  <2>1. Of(Bytes16(m), Bytes, 2) BY <1>2 DEF Of
  <2> HIDE DEF a
  <2>2. QED BY <1>4, <2>1, OfJoin
<1>6. Has(s, Bytes, x, b \o r.data) BY <1>2 DEF RecordBytes
<1>7. Has(s, Bytes, x, b) /\ Has(s, Bytes, x + ((n + 8) + 2), r.data)
  <2> HIDE DEF b
  <2>1. b \in Seq(Bytes) /\ Len(b) = (n + 8) + 2 BY <1>5 DEF Of
  <2>2. Has(s, Bytes, x, b) /\ Has(s, Bytes, x + Len(b), r.data) BY <1>2, <1>6, <2>1, HasSplit
  <2>3. QED BY <2>1, <2>2
<1>8. Has(s, Bytes, x, a) /\ Has(s, Bytes, x + (n + 8), Bytes16(m))
  <2> HIDE DEF a
  <2>1. a \in Seq(Bytes) /\ Len(a) = n + 8 BY <1>4 DEF Of
  <2>2. Has(s, Bytes, x, a) /\ Has(s, Bytes, x + Len(a), Bytes16(m))
    BY <1>2, <1>7, <2>1, HasSplit
  <2>3. QED BY <2>1, <2>2
<1>9. Has(s, Bytes, x, r.name) /\ Has(s, Bytes, e, r.fields) BY <1>2, <1>8, HasSplit
<1> HIDE DEF a, b
<1>10. IsRestored(s, x, r.name)
  <2>0. Has(s, Bytes, x, r.name) BY <1>9
  <2>1. PICK X \in Seq(Bytes), Y \in Seq(Bytes) : Len(X) = x /\ s = (X \o r.name) \o Y
    <3>1. IsAmid(s, Bytes, x, r.name) BY <2>0, HasContext
    <3>2. QED BY <3>1 DEF IsAmid
  <2>2. IsRecordName(r.name) BY DEF IsRecord
  <2>3. QED BY <2>1, <2>2, RecordName
<1>11. EndAt(s, x + 1) = e + 1 /\ SerializeName(TextAt(s, x + 1)) = r.name
  <2>1. x + Len(r.name) + 1 = e + 1 BY <1>2
  <2>2. QED BY <1>10, <2>1 DEF IsRestored
<1>12. e \in Nat BY <1>2
<1>13. Read16(s, e + 9) = m
  <2>1. x + (n + 8) \in Nat /\ x + (n + 8) + 1 = e + 9 BY <1>2
  <2>2. Read16(s, x + (n + 8) + 1) = m BY <1>2, <1>8, <2>1, HasWord
  <2>3. QED BY <2>1, <2>2
<1>14. SubSeq(s, e + 11, e + 10 + m) = r.data
  <2>1. x + ((n + 8) + 2) + 1 = e + 11 /\ x + ((n + 8) + 2) + m = e + 10 + m BY <1>2, <1>3
  <2>2. SubSeq(s, x + ((n + 8) + 2) + 1, x + ((n + 8) + 2) + Len(r.data)) = r.data
    BY <1>7, HasSub
  <2>3. QED BY <1>2, <2>1, <2>2
<1> DEFINE f == r.fields
<1>15. /\ Bytes16(Read16(s, e + 1)) = <<f[1], f[2]>>
       /\ Bytes16(Read16(s, e + 3)) = <<f[3], f[4]>>
       /\ Bytes16(Read16(s, e + 5)) = <<f[5], f[6]>>
       /\ Bytes16(Read16(s, e + 7)) = <<f[7], f[8]>>
  <2> HIDE DEF e
  <2>1. \A k \in 1 .. 7 : Bytes16(Read16(s, e + k)) = <<f[k], f[k + 1]>>
    <3>1. Len(f) - 1 = 7 BY <1>2
    <3> HIDE DEF f
    <3>2. Has(s, Bytes, e, f) BY <1>9 DEF f
    <3>3. \A k \in 1 .. Len(f) - 1 : Bytes16(Read16(s, e + k)) = <<f[k], f[k + 1]>>
      BY <1>12, <3>2, FieldWord, Zenon
    <3>4. QED BY <3>1, <3>3
  <2> HIDE DEF f
  <2>2. 1 \in 1 .. 7 /\ 3 \in 1 .. 7 /\ 5 \in 1 .. 7 /\ 7 \in 1 .. 7 OBVIOUS
  <2>3. 1 + 1 = 2 /\ 3 + 1 = 4 /\ 5 + 1 = 6 /\ 7 + 1 = 8 OBVIOUS
  <2>4. QED BY <2>1, <2>2, <2>3
<1>16. /\ p.next = e + 1 + 10 + m
       /\ p.value = [name |-> TextAt(s, x + 1), type |-> Read16(s, e + 1),
                     rclass |-> Read16(s, e + 3),
                     ttl |-> <<Read16(s, e + 5), Read16(s, e + 7)>>, rdata |-> r.data]
  <2> HIDE DEF e
  <2>1. /\ e + 1 + 8 = e + 9 /\ e + 1 + 2 = e + 3 /\ e + 1 + 4 = e + 5 /\ e + 5 + 2 = e + 7
        /\ e + 1 + 10 = e + 11 /\ e + 1 + 9 + m = e + 10 + m
    BY <1>3, <1>12
  <2>2. ParseName(s, x + 1).next = e + 1 BY <1>11 DEF EndAt
  <2>3. ParseName(s, x + 1).value = TextAt(s, x + 1) BY DEF TextAt
  <2>4. QED BY <1>13, <1>14, <2>1, <2>2, <2>3 DEF ParseRecord, Read32
<1>17. p.next = x + Len(RecordBytes(r)) + 1 BY <1>2, <1>3, <1>16
<1>18. SerializeRecord(p.value) = RecordBytes(r)
  <2> DEFINE p1 == <<f[1], f[2]>>
             p2 == <<f[3], f[4]>>
             p3 == <<f[5], f[6]>>
             p4 == <<f[7], f[8]>>
  <2>1. SerializeRecord(p.value)
          = r.name \o p1 \o p2 \o (p3 \o p4) \o Bytes16(m) \o r.data
    <3> HIDE DEF p, e, f
    <3>1. SerializeRecord(p.value)
            = r.name \o Bytes16(Read16(s, e + 1)) \o Bytes16(Read16(s, e + 3))
                \o (Bytes16(Read16(s, e + 5)) \o Bytes16(Read16(s, e + 7)))
                \o Bytes16(m) \o r.data
      <4> DEFINE w == p.value
      <4>1. /\ w.name = TextAt(s, x + 1) /\ w.type = Read16(s, e + 1)
            /\ w.rclass = Read16(s, e + 3) /\ w.rdata = r.data
        BY <1>16
      <4>2. w.ttl = <<Read16(s, e + 5), Read16(s, e + 7)>> BY <1>16
      <4> HIDE DEF w
      <4>3. w.ttl[1] = Read16(s, e + 5) /\ w.ttl[2] = Read16(s, e + 7) BY <4>2
      <4>4. SerializeName(w.name) = r.name /\ Bytes16(Len(w.rdata)) = Bytes16(m)
        BY <1>2, <1>11, <4>1
      <4>5. QED BY <4>1, <4>3, <4>4, Zenon DEF SerializeRecord, Bytes32, w
    <3>2. QED BY <1>15, <3>1
  <2>2. f = (p1 \o p2) \o (p3 \o p4) BY <1>2, EightBytes
  <2>3. \A k \in 1 .. 8 : f[k] \in Bytes BY <1>2, ElementOfSeq
  <2>4. p1 \in Seq(Bytes) /\ p2 \in Seq(Bytes) /\ p3 \in Seq(Bytes) /\ p4 \in Seq(Bytes)
    BY <2>3
  <2> HIDE DEF p1, p2, p3, p4
  <2>5. p1 \o p2 \in Seq(Bytes) /\ p3 \o p4 \in Seq(Bytes) BY <2>4, ConcatProperties
  <2>6. Assoc(r.name, p1, p2) BY <1>2, <2>4, JoinsAssociate
  <2>7. Assoc(r.name, p1 \o p2, p3 \o p4) BY <1>2, <2>5, JoinsAssociate
  <2>8. r.name \o p1 \o p2 \o (p3 \o p4) = r.name \o f BY <2>2, <2>6, <2>7 DEF Assoc
  <2>9. QED BY <1>2, <2>1, <2>8 DEF RecordBytes
<1> HIDE DEF p
<1>19. QED BY <1>17, <1>18 DEF IsRecordAt, p

-----------------------------------------------------------------------------
(* Sequences one behind the other: each stands where those before it end.    *)
LEMMA HasFlat ==
    ASSUME NEW S, NEW n \in Nat, NEW F, \A k \in 1 .. n : F[k] \in Seq(S),
           NEW g, Flat(g, S, F, n), NEW s, NEW x \in Nat, Has(s, S, x, g[n])
    PROVE  \A k \in 1 .. n : Has(s, S, x + Len(g[k - 1]), F[k])
<1> DEFINE T == {j \in Nat : j <= n => Has(s, S, x, g[n - j])}
<1>1. 0 \in T
  <2>1. n - 0 = n OBVIOUS
  <2>2. QED BY <2>1
<1>2. ASSUME NEW k \in 1 .. n, Has(s, S, x, g[k])
      PROVE  Has(s, S, x, g[k - 1]) /\ Has(s, S, x + Len(g[k - 1]), F[k])
  <2>1. k - 1 \in 0 .. n OBVIOUS
  <2>2. g[k - 1] \in Seq(S) /\ g[k] = g[k - 1] \o F[k] BY <2>1 DEF Flat
  <2>3. F[k] \in Seq(S) OBVIOUS
  <2>4. Has(s, S, x, g[k - 1] \o F[k]) BY <1>2, <2>2
  <2> DEFINE a == g[k - 1]
             b == F[k]
  <2>5. a \in Seq(S) /\ b \in Seq(S) /\ Has(s, S, x, a \o b) BY <2>2, <2>3, <2>4
  <2> HIDE DEF a, b
  <2>6. Has(s, S, x, a) /\ Has(s, S, x + Len(a), b) BY <2>5, HasSplit
  <2>7. QED BY <2>6 DEF a, b
<1>3. ASSUME NEW j \in Nat, j \in T PROVE j + 1 \in T
  <2>1. SUFFICES ASSUME j + 1 <= n PROVE Has(s, S, x, g[n - (j + 1)]) OBVIOUS
  <2>2. n - j \in 1 .. n /\ (n - j) - 1 = n - (j + 1) BY <2>1
  <2>3. Has(s, S, x, g[n - j]) BY <1>3, <2>1
  <2>4. QED BY <1>2, <2>2, <2>3
<1>4. Nat \subseteq T
  <2> HIDE DEF T
  <2>1. QED BY <1>1, <1>3, SetInduction
<1>5. ASSUME NEW k \in 1 .. n PROVE Has(s, S, x, g[k])
  <2>1. PICK j \in Nat : j = n - k OBVIOUS
  <2>2. j <= n /\ n - j = k BY <2>1
  <2>3. j \in T BY <1>4
  <2>4. QED BY <2>2, <2>3
<1>6. QED BY <1>2, <1>5

(* ParseMany's function, on records. *)
Start(p) == [value |-> <<>>, next |-> p]

Advance(s, item) ==
    [value |-> Append(item.value, ParseRecord(s, item.next).value),
     next  |-> ParseRecord(s, item.next).next]

ManyEq(f, n, s, p) == f = [k \in 0 .. n |-> IF k = 0 THEN Start(p) ELSE Advance(s, f[k - 1])]

LEMMA ParseManyIs ==
    ASSUME NEW n, NEW s, NEW p
    PROVE  ParseMany(ParseRecord, n, s, p) = (CHOOSE f : ManyEq(f, n, s, p))[n]
BY DEF ParseMany, ManyEq, Start, Advance

LEMMA AdvanceIs ==
    ASSUME NEW s, NEW v, NEW p
    PROVE  Advance(s, [value |-> v, next |-> p])
             = [value |-> Append(v, ParseRecord(s, p).value), next |-> ParseRecord(s, p).next]
BY DEF Advance

LEMMA FieldsOf ==
    ASSUME NEW v, NEW p
    PROVE  [value |-> v, next |-> p].value = v /\ [value |-> v, next |-> p].next = p
OBVIOUS

(* The records are parsed one by one, from where each stands. *)
StandAt(at, n, s) == \A k \in 1 .. n : ParseRecord(s, at[k - 1]).next = at[k]

AreParsed(at, n, s) ==
    ParseMany(ParseRecord, n, s, at[0]).value = [k \in 1 .. n |-> ParseRecord(s, at[k - 1]).value]

LEMMA ParseManyFrom ==
    ASSUME NEW n \in Nat, NEW s, NEW at, StandAt(at, n, s)
    PROVE  AreParsed(at, n, s)
<1> DEFINE p == at[0]
           V == [k \in 1 .. n |-> ParseRecord(s, at[k - 1]).value]
           S == {V[k] : k \in 1 .. n}
           I(k) == [j \in 1 .. k |-> V[j]]
           h == [k \in 0 .. n |-> [value |-> I(k), next |-> at[k]]]
           e == CHOOSE f : ManyEq(f, n, s, p)
           T == {k \in Nat : k <= n => e[k] = h[k]}
<1>1. \A k \in 0 .. n : h[k] = [value |-> I(k), next |-> at[k]] OBVIOUS
<1>2. ASSUME NEW k \in 1 .. n PROVE Append(I(k - 1), V[k]) = I(k)
  <2>1. V[k] \in S /\ \A j \in 1 .. n : V[j] \in S OBVIOUS
  <2> HIDE DEF S, V
  <2>2. k - 1 \in Nat /\ \A j \in 1 .. k - 1 : j \in 1 .. n OBVIOUS
  <2>3. I(k - 1) \in Seq(S) /\ Len(I(k - 1)) = k - 1
        /\ \A j \in 1 .. k - 1 : I(k - 1)[j] = V[j]
    BY <2>1, <2>2
  <2>4. k \in Nat /\ \A j \in 1 .. k : j \in 1 .. n OBVIOUS
  <2>5. I(k) \in Seq(S) /\ Len(I(k)) = k /\ \A j \in 1 .. k : I(k)[j] = V[j] BY <2>1, <2>4
  <2> DEFINE q == I(k - 1)
             t == I(k)
             a == Append(q, V[k])
  <2>6. q \in Seq(S) /\ Len(q) = k - 1 /\ \A j \in 1 .. k - 1 : q[j] = V[j] BY <2>3
  <2>7. t \in Seq(S) /\ Len(t) = k /\ \A j \in 1 .. k : t[j] = V[j] BY <2>5
  <2> HIDE DEF q, t, I
  <2>8. /\ a \in Seq(S) /\ Len(a) = k /\ a[k] = V[k] /\ \A j \in 1 .. k - 1 : a[j] = V[j]
    BY <2>1, <2>6, PushFacts
  <2> HIDE DEF a
  <2>9. \A j \in 1 .. k : a[j] = t[j]
    <3>1. ASSUME NEW j \in 1 .. k PROVE a[j] = t[j]
      <4>1. j = k \/ j \in 1 .. k - 1 OBVIOUS
      <4>2. QED BY <2>7, <2>8, <4>1
    <3>2. QED BY <3>1
  <2>10. a = t BY <2>7, <2>8, <2>9, SeqEqual
  <2>11. QED BY <2>10 DEF a, q, t
<1>3. h[0] = Start(p)
  <2>1. I(0) = <<>> OBVIOUS
  <2>2. 0 \in 0 .. n OBVIOUS
  <2> HIDE DEF I, h
  <2>3. QED BY <1>1, <2>1, <2>2 DEF Start
<1>4. ASSUME NEW k \in 1 .. n PROVE h[k] = Advance(s, h[k - 1])
  <2>1. k \in 0 .. n /\ k - 1 \in 0 .. n OBVIOUS
  <2>2. V[k] = ParseRecord(s, at[k - 1]).value OBVIOUS
  <2> HIDE DEF I, h, V
  <2>3. h[k - 1] = [value |-> I(k - 1), next |-> at[k - 1]] BY <1>1, <2>1
  <2>4. h[k] = [value |-> I(k), next |-> at[k]] BY <1>1, <2>1
  <2>5. Advance(s, h[k - 1]) = [value |-> Append(I(k - 1), ParseRecord(s, at[k - 1]).value),
                                next |-> ParseRecord(s, at[k - 1]).next]
    BY <2>3, AdvanceIs
  <2>6. ParseRecord(s, at[k - 1]).next = at[k] BY DEF StandAt
  <2>7. QED BY <1>2, <2>2, <2>4, <2>5, <2>6
<1> HIDE DEF h, I, V, S, p
<1>5. ManyEq(h, n, s, p)
  <2>1. ASSUME NEW k \in 0 .. n PROVE h[k] = IF k = 0 THEN Start(p) ELSE Advance(s, h[k - 1])
    <3>1. CASE k = 0 BY <1>3, <3>1
    <3>2. CASE k # 0
      <4>1. k \in 1 .. n BY <3>2
      <4>2. QED BY <1>4, <3>2, <4>1
    <3>3. QED BY <3>1, <3>2
  <2>2. h = [k \in 0 .. n |-> h[k]] BY DEF h
  <2>3. QED BY <2>1, <2>2 DEF ManyEq
<1>6. ManyEq(e, n, s, p) BY <1>5
<1> HIDE DEF e
<1>7. \A k \in 0 .. n : e[k] = IF k = 0 THEN Start(p) ELSE Advance(s, e[k - 1])
  BY <1>6 DEF ManyEq
<1>8. 0 \in T
  <2>1. 0 \in 0 .. n OBVIOUS
  <2>2. QED BY <1>3, <1>7, <2>1
<1>9. ASSUME NEW k \in Nat, k \in T PROVE k + 1 \in T
  <2>1. SUFFICES ASSUME k + 1 <= n PROVE e[k + 1] = h[k + 1] OBVIOUS
  <2>2. k + 1 \in 1 .. n /\ k + 1 \in 0 .. n /\ k + 1 # 0 /\ (k + 1) - 1 = k BY <2>1
  <2>3. e[k] = h[k] BY <1>9, <2>1
  <2>4. e[k + 1] = Advance(s, e[k]) BY <1>7, <2>2
  <2>5. h[k + 1] = Advance(s, h[k]) BY <1>4, <2>2
  <2>6. QED BY <2>3, <2>4, <2>5
<1>10. e[n] = h[n]
  <2> HIDE DEF T
  <2>1. n \in T BY <1>8, <1>9, SetInduction
  <2>2. QED BY <2>1 DEF T
<1>11. ParseMany(ParseRecord, n, s, p) = h[n] BY <1>10, ParseManyIs DEF e
<1>12. h[n].value = I(n)
  <2>1. n \in 0 .. n OBVIOUS
  <2>2. h[n] = [value |-> I(n), next |-> at[n]] BY <1>1, <2>1
  <2>3. QED BY <2>2, FieldsOf
<1>13. I(n) = V BY DEF I, V
<1>14. QED BY <1>11, <1>12, <1>13 DEF p, V, AreParsed

IsSection(records, n) ==
    /\ n \in Nat /\ DOMAIN records = 1 .. n
    /\ \A k \in 1 .. n : IsRecord(records[k])

(* The bytes of the first records, for each number of them. *)
IsLayout(g, F, records, n) ==
    /\ F = [k \in 1 .. n |-> RecordBytes(records[k])]
    /\ \A k \in 1 .. n : F[k] \in Seq(Bytes)
    /\ Flat(g, Bytes, F, n)
    /\ SectionBytes(records) = FlattenSeq(F) /\ SectionBytes(records) = g[n]

LEMMA Layout ==
    ASSUME NEW n, NEW records, IsSection(records, n)
    PROVE  \E g, F : IsLayout(g, F, records, n)
<1> DEFINE F == [k \in 1 .. n |-> RecordBytes(records[k])]
<1>1. n \in Nat /\ DOMAIN records = 1 .. n /\ \A k \in 1 .. n : IsRecord(records[k])
  BY DEF IsSection
<1>2. \A k \in 1 .. n : RecordBytes(records[k]) \in Seq(Bytes)
  BY <1>1, RecordBytesFacts DEF RecordParts
<1>3. \A k \in 1 .. n : F[k] \in Seq(Bytes) BY <1>2
<1>4. F \in Seq(Seq(Bytes)) /\ Len(F) = n BY <1>1, <1>2
<1>5. SectionBytes(records) = FlattenSeq(F) BY <1>1 DEF SectionBytes
<1>6. F = [k \in 1 .. n |-> RecordBytes(records[k])] OBVIOUS
<1> HIDE DEF F
<1>7. PICK g : Flat(g, Bytes, F, Len(F)) BY <1>4, FlatExists
<1>8. FlattenSeq(F) = g[Len(F)] BY <1>4, <1>7, FlattenIsFlat
<1>9. IsLayout(g, F, records, n) BY <1>3, <1>4, <1>5, <1>6, <1>7, <1>8 DEF IsLayout
<1>10. QED BY <1>9

LEMMA SectionFacts ==
    ASSUME NEW n, NEW records, IsSection(records, n)
    PROVE  SectionBytes(records) \in Seq(Bytes)
<1>1. PICK g, F : IsLayout(g, F, records, n) BY Layout
<1>2. n \in Nat BY DEF IsSection
<1>3. n \in 0 .. n BY <1>2
<1>4. QED BY <1>1, <1>3 DEF IsLayout, Flat

(* The records of a section are parsed, and serialize gives back their bytes.*)
IsSectionOf(R, records, n) ==
    /\ DOMAIN R = 1 .. n
    /\ FlattenSeq([k \in DOMAIN R |-> SerializeRecord(R[k])]) = SectionBytes(records)

LEMMA SectionRead ==
    ASSUME NEW n, NEW records, IsSection(records, n), NEW s, NEW x \in Nat,
           Has(s, Bytes, x, SectionBytes(records))
    PROVE  IsSectionOf(ParseMany(ParseRecord, n, s, x + 1).value, records, n)
<1>1. PICK g, F : IsLayout(g, F, records, n) BY Layout
<1>2. n \in Nat /\ \A k \in 1 .. n : IsRecord(records[k]) BY DEF IsSection
<1>3. /\ \A k \in 1 .. n : F[k] \in Seq(Bytes) /\ F[k] = RecordBytes(records[k])
      /\ Flat(g, Bytes, F, n) /\ SectionBytes(records) = g[n]
  BY <1>1 DEF IsLayout
<1>4. Has(s, Bytes, x, g[n]) BY <1>3
<1>5. \A k \in 1 .. n : Has(s, Bytes, x + Len(g[k - 1]), F[k]) BY <1>2, <1>3, <1>4, HasFlat
<1> DEFINE at == [k \in 0 .. n |-> x + Len(g[k]) + 1]
<1>6. ASSUME NEW k \in 0 .. n PROVE Len(g[k]) \in Nat
  <2>1. g[k] \in Seq(Bytes) BY <1>3 DEF Flat
  <2>2. QED BY <2>1, LenProperties
<1>7. ASSUME NEW k \in 1 .. n
      PROVE  /\ ParseRecord(s, at[k - 1]).next = at[k]
             /\ SerializeRecord(ParseRecord(s, at[k - 1]).value) = RecordBytes(records[k])
  <2>1. k - 1 \in 0 .. n /\ k \in 0 .. n BY <1>2
  <2>2. PICK l \in Nat : l = Len(g[k - 1]) BY <1>6, <2>1
  <2>3. PICK m \in Nat : m = Len(F[k]) BY <1>3, LenProperties
  <2>4. Len(g[k]) = l + m
    <3>1. g[k] = g[k - 1] \o F[k] /\ g[k - 1] \in Seq(Bytes) BY <1>3, <2>1 DEF Flat
    <3>2. F[k] \in Seq(Bytes) BY <1>3
    <3> DEFINE a == g[k - 1]
               b == F[k]
    <3>3. a \in Seq(Bytes) /\ b \in Seq(Bytes) /\ Len(a) = l /\ Len(b) = m BY <2>2, <2>3, <3>1, <3>2
    <3> HIDE DEF a, b
    <3>4. IsJoin(a \o b, Bytes, a, b) BY <3>3, JoinFacts
    <3>5. Len(a \o b) = l + m BY <3>3, <3>4 DEF IsJoin
    <3>6. QED BY <3>1, <3>5 DEF a, b
  <2>5. PICK y \in Nat : y = x + l OBVIOUS
  <2>6. PICK r : r = records[k] OBVIOUS
  <2>7. IsRecord(r) /\ Has(s, Bytes, y, RecordBytes(r)) BY <1>2, <1>3, <1>5, <2>2, <2>5, <2>6
  <2>8. IsRecordAt(s, y, r) BY <2>7, RecordRead
  <2>9. Len(RecordBytes(r)) = m BY <1>3, <2>3, <2>6
  <2>10. at[k - 1] = y + 1 /\ at[k] = y + m + 1
    <3>1. at[k - 1] = x + l + 1 /\ at[k] = x + (l + m) + 1 BY <2>1, <2>2, <2>4
    <3> HIDE DEF at
    <3>2. QED BY <2>5, <3>1
  <2> HIDE DEF at
  <2>11. QED BY <2>6, <2>8, <2>9, <2>10 DEF IsRecordAt
<1>8. at[0] = x + 1
  <2>1. 0 \in 0 .. n BY <1>2
  <2>2. g[0] = <<>> BY <1>3 DEF Flat
  <2>3. Len(<<>>) = 0 OBVIOUS
  <2>4. QED BY <2>1, <2>2, <2>3
<1> HIDE DEF at
<1> DEFINE R == ParseMany(ParseRecord, n, s, x + 1).value
<1>9. ParseMany(ParseRecord, n, s, at[0]).value = [k \in 1 .. n |-> ParseRecord(s, at[k - 1]).value]
  <2>1. \A k \in 1 .. n : ParseRecord(s, at[k - 1]).next = at[k] BY <1>7
  <2>2. StandAt(at, n, s) BY <2>1 DEF StandAt
  <2>3. AreParsed(at, n, s) BY <1>2, <2>2, ParseManyFrom
  <2>4. QED BY <2>3 DEF AreParsed
<1>10. R = [k \in 1 .. n |-> ParseRecord(s, at[k - 1]).value] BY <1>8, <1>9
<1> HIDE DEF R
<1>11. DOMAIN R = 1 .. n /\ \A k \in 1 .. n : R[k] = ParseRecord(s, at[k - 1]).value BY <1>10
<1>12. [k \in DOMAIN R |-> SerializeRecord(R[k])] = F
  <2>1. \A k \in 1 .. n : SerializeRecord(R[k]) = RecordBytes(records[k]) BY <1>7, <1>11
  <2>2. F = [k \in 1 .. n |-> RecordBytes(records[k])] BY <1>1 DEF IsLayout
  <2>3. QED BY <1>11, <2>1, <2>2
<1>13. IsSectionOf(R, records, n) BY <1>1, <1>11, <1>12 DEF IsSectionOf, IsLayout
<1>14. QED BY <1>13 DEF R

-----------------------------------------------------------------------------
(* The one question. *)
AdvanceQuestion(s, item) ==
    [value |-> Append(item.value, ParseQuestion(s, item.next).value),
     next  |-> ParseQuestion(s, item.next).next]

OneEq(f, s, p) == f = [k \in 0 .. 1 |-> IF k = 0 THEN Start(p) ELSE AdvanceQuestion(s, f[k - 1])]

LEMMA ParseOne ==
    ASSUME NEW s, NEW p
    PROVE  /\ ParseMany(ParseQuestion, 1, s, p).value = <<ParseQuestion(s, p).value>>
           /\ ParseMany(ParseQuestion, 1, s, p).next = ParseQuestion(s, p).next
<1> DEFINE e == CHOOSE f : OneEq(f, s, p)
           h == [k \in 0 .. 1 |-> IF k = 0 THEN Start(p) ELSE AdvanceQuestion(s, Start(p))]
<1>1. ParseMany(ParseQuestion, 1, s, p) = e[1] BY DEF ParseMany, OneEq, Start, AdvanceQuestion
<1>2. OneEq(h, s, p)
  <2>1. 0 \in 0 .. 1 OBVIOUS
  <2>2. h[0] = Start(p) BY <2>1
  <2>3. ASSUME NEW k \in 0 .. 1
        PROVE  h[k] = IF k = 0 THEN Start(p) ELSE AdvanceQuestion(s, h[k - 1])
    <3>1. k # 0 => k - 1 = 0 OBVIOUS
    <3>2. h[k] = IF k = 0 THEN Start(p) ELSE AdvanceQuestion(s, Start(p)) OBVIOUS
    <3> HIDE DEF h
    <3>3. QED BY <2>2, <3>1, <3>2
  <2>4. h = [k \in 0 .. 1 |-> h[k]] OBVIOUS
  <2> HIDE DEF h
  <2>5. QED BY <2>3, <2>4 DEF OneEq
<1>3. OneEq(e, s, p)
  <2> HIDE DEF h
  <2>1. QED BY <1>2
<1> HIDE DEF e
<1>4. \A k \in 0 .. 1 : e[k] = IF k = 0 THEN Start(p) ELSE AdvanceQuestion(s, e[k - 1])
  BY <1>3 DEF OneEq
<1>5. e[0] = Start(p) /\ e[1] = AdvanceQuestion(s, e[0])
  <2>1. 0 \in 0 .. 1 /\ 1 \in 0 .. 1 /\ 1 # 0 /\ 1 - 1 = 0 OBVIOUS
  <2>2. QED BY <1>4, <2>1
<1> DEFINE v == ParseQuestion(s, p).value
           n == ParseQuestion(s, p).next
<1>6. e[1] = [value |-> Append(<<>>, v), next |-> n]
  <2>1. Start(p).value = <<>> /\ Start(p).next = p BY FieldsOf DEF Start
  <2>2. AdvanceQuestion(s, Start(p)) = [value |-> Append(<<>>, v), next |-> n]
    BY <2>1, Zenon DEF AdvanceQuestion
  <2>3. QED BY <1>5, <2>2
<1> HIDE DEF v, n
<1>7. Append(<<>>, v) = <<v>> OBVIOUS
<1>8. e[1].value = <<v>> /\ e[1].next = n BY <1>6, <1>7, FieldsOf
<1>9. QED BY <1>1, <1>8 DEF v, n

(* A sequence of one sequence. *)
LEMMA FlattenOne ==
    ASSUME NEW S, NEW q \in Seq(S)
    PROVE  FlattenSeq(<<q>>) = q
<1> DEFINE F == <<q>>
           g == [n \in 0 .. 1 |-> IF n = 0 THEN <<>> ELSE q]
<1>1. F \in Seq(Seq(S)) /\ Len(F) = 1 /\ F[1] = q OBVIOUS
<1>2. 0 \in 0 .. 1 /\ 1 \in 0 .. 1 /\ 1 # 0 OBVIOUS
<1>3. g[0] = <<>> /\ g[1] = q BY <1>2
<1> HIDE DEF F, g
<1>4. Flat(g, S, F, 1)
  <2>1. \A n \in 0 .. 1 : n = 0 \/ n = 1 OBVIOUS
  <2>2. \A n \in 1 .. 1 : n = 1 /\ n - 1 = 0 OBVIOUS
  <2>3. <<>> \o q = q BY ConcatEmptySeq
  <2>4. <<>> \in Seq(S) OBVIOUS
  <2>5. \A n \in 0 .. 1 : g[n] \in Seq(S) BY <1>3, <2>1, <2>4
  <2>6. \A n \in 1 .. 1 : g[n] = g[n - 1] \o F[n] BY <1>1, <1>3, <2>2, <2>3
  <2>7. QED BY <1>3, <2>5, <2>6 DEF Flat
<1>5. FlattenSeq(F) = g[Len(F)] BY <1>1, <1>4, FlattenIsFlat
<1>6. QED BY <1>1, <1>3, <1>5 DEF F

-----------------------------------------------------------------------------
(* Whatever is behind a text that ends in half a pointer, serialize makes a  *)
(* sequence of it.                                                           *)
LEMMA SerializeNameType ==
    ASSUME NEW text \in Seq(Bytes)
    PROVE  \E A : Int \subseteq A /\ SerializeName(text) \in Seq(A)
<1>1. PICK L \in Nat : L = Len(text) BY LenProperties
<1>2. PICK f : SerializeEq(f, text) /\ SerializeName(text) = f[1] BY SerializeNameIs
<1> DEFINE A == Int \cup {text[k] : k \in 1 .. L + 1}
           T == {m \in Nat : \A i \in Nat \ {0} : i + m > L => f[i] \in Seq(A)}
<1>3. ASSUME NEW i \in Nat \ {0}
      PROVE  f[i] = IF i > L                THEN <<0>>
                    ELSE IF IsPointer(text[i]) THEN SubSeq(text, i, i + 1)
                    ELSE <<DotFrom(text, i) - i>> \o SubSeq(text, i, DotFrom(text, i) - 1)
                             \o f[DotFrom(text, i) + 1]
  BY <1>1, <1>2 DEF SerializeEq
<1>4. ASSUME NEW i \in Int, NEW j \in Int, i >= 1, j <= L + 1 PROVE SubSeq(text, i, j) \in Seq(A)
  <2>1. \A k \in i .. j : text[k] \in A
    <3>1. \A k \in i .. j : k \in 1 .. L + 1 BY <1>4
    <3>2. QED BY <3>1
  <2>2. QED BY <2>1, SubSeqProperties
<1>5. \A n \in Int : <<n>> \in Seq(A)
  <2>1. Int \subseteq A OBVIOUS
  <2> HIDE DEF A
  <2>2. QED BY <2>1
<1>6. Int \subseteq A OBVIOUS
<1> HIDE DEF A
<1>7. \A i \in Nat \ {0} : i > L => f[i] \in Seq(A)
  <2>1. <<0>> \in Seq(A) BY <1>5
  <2>2. QED BY <1>3, <2>1
<1>8. 0 \in T BY <1>7
<1>9. ASSUME NEW m \in Nat, m \in T PROVE m + 1 \in T
  <2>1. SUFFICES ASSUME NEW i \in Nat \ {0}, i + (m + 1) > L PROVE f[i] \in Seq(A) OBVIOUS
  <2>2. CASE i > L BY <1>7, <2>2
  <2>3. CASE i <= L /\ IsPointer(text[i])
    <3>1. f[i] = SubSeq(text, i, i + 1)
      <4>1. ~(i > L) BY <2>3
      <4>2. QED BY <1>3, <2>3, <4>1
    <3>2. i \in Int /\ i + 1 \in Int /\ i >= 1 /\ i + 1 <= L + 1 BY <2>3
    <3>3. SubSeq(text, i, i + 1) \in Seq(A) BY <1>4, <3>2
    <3>4. QED BY <3>1, <3>3
  <2>4. CASE i <= L /\ ~IsPointer(text[i])
    <3>1. i \in 1 .. Len(text) BY <1>1, <2>4
    <3>2. PICK j \in Nat : j = DotFrom(text, i) /\ j >= i /\ j <= L + 1
      <4>1. IsDotFrom(DotFrom(text, i), text, i) BY <3>1, DotFromFacts
      <4>2. DotFrom(text, i) \in i .. L + 1 BY <1>1, <4>1 DEF IsDotFrom
      <4>3. QED BY <4>2
    <3>3. f[i] = <<j - i>> \o SubSeq(text, i, j - 1) \o f[j + 1]
      <4>1. ~(i > L) BY <2>4
      <4>2. QED BY <1>3, <2>4, <3>2, <4>1
    <3>4. f[j + 1] \in Seq(A)
      <4>1. j >= i BY <3>2
      <4>2. j + 1 \in Nat \ {0} /\ (j + 1) + m > L
        BY ONLY i \in Nat, j \in Nat, m \in Nat, L \in Nat, <2>1, <4>1
      <4>3. QED BY <1>9, <4>2
    <3>5. <<j - i>> \in Seq(A)
      <4>1. PICK d \in Int : d = j - i BY <3>2
      <4>2. QED BY <1>5, <4>1
    <3>6. SubSeq(text, i, j - 1) \in Seq(A)
      <4>1. PICK d \in Int : d = j - 1 BY <3>2
      <4>2. i \in Int /\ i >= 1 /\ d <= L + 1 BY <3>2, <4>1
      <4>3. SubSeq(text, i, d) \in Seq(A) BY <1>4, <4>2
      <4>4. QED BY <4>1, <4>3
    <3> DEFINE a == <<j - i>>
               b == SubSeq(text, i, j - 1)
               c == f[j + 1]
    <3>7. a \in Seq(A) /\ b \in Seq(A) /\ c \in Seq(A) BY <3>4, <3>5, <3>6
    <3>8. f[i] = a \o b \o c BY <3>3
    <3> HIDE DEF a, b, c
    <3>9. a \o b \o c \in Seq(A) BY <3>7, ConcatProperties
    <3>10. QED BY <3>8, <3>9
  <2>5. QED BY <2>2, <2>3, <2>4
<1>10. L \in T
  <2> HIDE DEF T
  <2>1. QED BY <1>8, <1>9, SetInduction
<1>11. 1 + L > L OBVIOUS
<1>12. f[1] \in Seq(A) BY <1>10, <1>11
<1>13. QED BY <1>2, <1>6, <1>12

-----------------------------------------------------------------------------
(* A packet of one question and its sections, and what parse makes of it.    *)
Packet(id, v, an, ns, ar, name, records) ==
    (HeaderOf(id, v, an, ns, ar) \o Question(name)) \o SectionBytes(records)

IsMadeOf(id, v, an, ns, ar, name, records) ==
    HeaderWords(id, v, an, ns, ar) /\ IsName(name) /\ IsSection(records, an + ns + ar)

IsParsed(s, id, v, an, ns, ar, name, records) ==
    /\ s \in Seq(Bytes)
    /\ IsQuestionName(s, name)
    /\ Parse(s).header = [id |-> id, flags |-> ParseFlags(v), qdcount |-> 1,
                          ancount |-> an, nscount |-> ns, arcount |-> ar]
    /\ Parse(s).questions = <<[qname |-> TextAt(s, 13), qtype |-> 1, qclass |-> 1]>>
    /\ IsSectionOf(Parse(s).rrs, records, an + ns + ar)

(* Where its parts stand. *)
IsArranged(s, id, v, an, ns, ar, name, records, n) ==
    /\ s \in Seq(Bytes)
    /\ name \in Seq(Bytes) /\ n \in Nat /\ Len(name) = n
    /\ Has(s, Bytes, 0, HeaderOf(id, v, an, ns, ar))
    /\ Has(s, Bytes, 12, name)
    /\ Has(s, Bytes, 12 + n, Bytes16(1))
    /\ Has(s, Bytes, 12 + (n + 2), Bytes16(1))
    /\ Has(s, Bytes, 12 + ((n + 2) + 2), SectionBytes(records))

LEMMA PacketArranged ==
    ASSUME NEW id, NEW v, NEW an, NEW ns, NEW ar, NEW name, NEW records,
           IsMadeOf(id, v, an, ns, ar, name, records)
    PROVE  \E n : IsArranged(Packet(id, v, an, ns, ar, name, records),
                             id, v, an, ns, ar, name, records, n)
<1>1. HeaderWords(id, v, an, ns, ar) /\ IsName(name) /\ IsSection(records, an + ns + ar)
  BY DEF IsMadeOf
<1>2. name \in Seq(Bytes) BY <1>1 DEF IsName
<1>3. PICK n \in Nat : n = Len(name) BY <1>2, LenProperties
<1> DEFINE H == HeaderOf(id, v, an, ns, ar)
           o == Bytes16(1)
           b == name \o o
           Q == b \o o
           a == H \o Q
           R == SectionBytes(records)
           s == a \o R
<1>4. s = Packet(id, v, an, ns, ar, name, records) BY DEF Packet, Question
<1>5. R \in Seq(Bytes) BY <1>1, SectionFacts
<1>6. Of(H, Bytes, 12) BY <1>1, HeaderFacts
<1>7. Of(o, Bytes, 2)
  <2>1. 1 \in Words BY DEF Words
  <2>2. QED BY <2>1, OfWord
<1>8. Of(name, Bytes, n) BY <1>2, <1>3 DEF Of
<1> HIDE DEF H, o, R
<1>9. Of(b, Bytes, n + 2) BY <1>7, <1>8, OfJoin
<1> HIDE DEF b
<1>10. Of(Q, Bytes, (n + 2) + 2) BY <1>7, <1>9, OfJoin
<1> HIDE DEF Q
<1>11. Of(a, Bytes, 12 + ((n + 2) + 2)) BY <1>6, <1>10, OfJoin
<1> HIDE DEF a
<1>12. /\ H \in Seq(Bytes) /\ Len(H) = 12
       /\ o \in Seq(Bytes) /\ b \in Seq(Bytes) /\ Len(b) = n + 2
       /\ Q \in Seq(Bytes) /\ a \in Seq(Bytes) /\ Len(a) = 12 + ((n + 2) + 2)
  BY <1>6, <1>7, <1>9, <1>10, <1>11 DEF Of
<1>13. Has(s, Bytes, 0, a) /\ Has(s, Bytes, 12 + ((n + 2) + 2), R)
  <2>1. Has(s, Bytes, 0, a) /\ Has(s, Bytes, Len(a), R) BY <1>5, <1>12, HasFront
  <2>2. QED BY <1>12, <2>1
<1>14. s \in Seq(Bytes) BY <1>13 DEF Has
<1> HIDE DEF s
<1>15. Has(s, Bytes, 0, H) /\ Has(s, Bytes, 12, Q)
  <2>1. Has(s, Bytes, 0, H \o Q) BY <1>13 DEF a
  <2>2. Has(s, Bytes, 0, H) /\ Has(s, Bytes, 0 + Len(H), Q) BY <1>12, <2>1, HasSplit
  <2>3. QED BY <1>12, <2>2
<1>16. Has(s, Bytes, 12, b) /\ Has(s, Bytes, 12 + (n + 2), o)
  <2>1. Has(s, Bytes, 12, b \o o) BY <1>15 DEF Q
  <2>2. Has(s, Bytes, 12, b) /\ Has(s, Bytes, 12 + Len(b), o) BY <1>12, <2>1, HasSplit
  <2>3. QED BY <1>12, <2>2
<1>17. Has(s, Bytes, 12, name) /\ Has(s, Bytes, 12 + n, o)
  <2>1. Has(s, Bytes, 12, name \o o) BY <1>16 DEF b
  <2>2. Has(s, Bytes, 12, name) /\ Has(s, Bytes, 12 + Len(name), o)
    BY <1>2, <1>12, <2>1, HasSplit
  <2>3. QED BY <1>3, <2>2
<1>18. IsArranged(s, id, v, an, ns, ar, name, records, n)
  BY <1>2, <1>3, <1>13, <1>14, <1>15, <1>16, <1>17 DEF IsArranged, H, o, R
<1>19. QED BY <1>4, <1>18

LEMMA PacketRead ==
    ASSUME NEW id, NEW v, NEW an, NEW ns, NEW ar, NEW name, NEW records,
           IsMadeOf(id, v, an, ns, ar, name, records),
           NEW s, s = Packet(id, v, an, ns, ar, name, records)
    PROVE  IsParsed(s, id, v, an, ns, ar, name, records)
<1>1. HeaderWords(id, v, an, ns, ar) /\ IsName(name) /\ IsSection(records, an + ns + ar)
  BY DEF IsMadeOf
<1>2. PICK n : IsArranged(s, id, v, an, ns, ar, name, records, n) BY PacketArranged
<1>3. s \in Seq(Bytes) /\ name \in Seq(Bytes) /\ n \in Nat /\ Len(name) = n
  BY <1>2 DEF IsArranged
<1>4. ParseHeader(s) = [id |-> id, flags |-> ParseFlags(v), qdcount |-> 1,
                        ancount |-> an, nscount |-> ns, arcount |-> ar]
  <2>1. Has(s, Bytes, 0, HeaderOf(id, v, an, ns, ar)) BY <1>2 DEF IsArranged
  <2>2. IsHeader(ParseHeader(s), id, v, 1, an, ns, ar) BY <1>1, <2>1, HeaderRead
  <2>3. QED BY <2>2 DEF IsHeader
<1>5. IsQuestionName(s, name)
  <2>1. Has(s, Bytes, 12, name) BY <1>2 DEF IsArranged
  <2>2. IsAmid(s, Bytes, 12, name) BY <2>1, HasContext
  <2>3. PICK X \in Seq(Bytes), Y \in Seq(Bytes) : Len(X) = 12 /\ s = (X \o name) \o Y
    BY <2>2 DEF IsAmid
  <2>4. IsQuestionName((X \o name) \o Y, name) BY <1>1, <2>3, QuestionName
  <2>5. QED BY <2>3, <2>4
<1>6. 1 \in Words BY DEF Words
<1>7. Read16(s, 13 + n) = 1
  <2>1. Has(s, Bytes, 12 + n, Bytes16(1)) BY <1>2 DEF IsArranged
  <2>2. PICK x \in Nat : x = 12 + n BY <1>3
  <2>3. Has(s, Bytes, x, Bytes16(1)) BY <2>1, <2>2
  <2>4. Read16(s, x + 1) = 1 BY <1>6, <2>3, HasWord
  <2>5. x + 1 = 13 + n BY <1>3, <2>2
  <2>6. QED BY <2>4, <2>5
<1>8. Read16(s, 13 + n + 2) = 1
  <2>1. Has(s, Bytes, 12 + (n + 2), Bytes16(1)) BY <1>2 DEF IsArranged
  <2>2. PICK x \in Nat : x = 12 + (n + 2) BY <1>3
  <2>3. Has(s, Bytes, x, Bytes16(1)) BY <2>1, <2>2
  <2>4. Read16(s, x + 1) = 1 BY <1>6, <2>3, HasWord
  <2>5. x + 1 = 13 + n + 2 BY <1>3, <2>2
  <2>6. QED BY <2>4, <2>5
<1>9. /\ ParseQuestion(s, 13).value = [qname |-> TextAt(s, 13), qtype |-> 1, qclass |-> 1]
      /\ ParseQuestion(s, 13).next = 13 + n + 4
  <2>1. ParseName(s, 13).next = 13 + n BY <1>3, <1>5 DEF IsQuestionName, EndAt
  <2>2. QED BY <1>7, <1>8, <2>1 DEF ParseQuestion, TextAt
<1>10. PICK x \in Nat : x = 12 + ((n + 2) + 2) BY <1>3
<1>11. x + 1 = 13 + n + 4 BY <1>3, <1>10
<1>12. Has(s, Bytes, x, SectionBytes(records)) BY <1>2, <1>10 DEF IsArranged
<1>13. IsSectionOf(ParseMany(ParseRecord, an + ns + ar, s, x + 1).value, records, an + ns + ar)
  BY <1>1, <1>12, SectionRead
<1> DEFINE h == ParseHeader(s)
           qs == ParseMany(ParseQuestion, h.qdcount, s, 13)
           rs == ParseMany(ParseRecord, h.ancount + h.nscount + h.arcount, s, qs.next)
<1>14. Parse(s) = [header |-> h, questions |-> qs.value, rrs |-> rs.value] BY DEF Parse
<1>15. Parse(s).header = h /\ Parse(s).questions = qs.value /\ Parse(s).rrs = rs.value
  <2> HIDE DEF h, qs, rs
  <2>1. QED BY <1>14
<1>16. h.qdcount = 1 /\ h.ancount = an /\ h.nscount = ns /\ h.arcount = ar BY <1>4
<1>17. /\ qs.value = <<[qname |-> TextAt(s, 13), qtype |-> 1, qclass |-> 1]>>
       /\ qs.next = x + 1
  <2>1. qs = ParseMany(ParseQuestion, 1, s, 13) BY <1>16
  <2> HIDE DEF qs
  <2>2. qs.value = <<ParseQuestion(s, 13).value>> /\ qs.next = ParseQuestion(s, 13).next
    BY <2>1, ParseOne
  <2>3. QED BY <1>9, <1>11, <2>2
<1>18. rs = ParseMany(ParseRecord, an + ns + ar, s, x + 1) BY <1>16, <1>17
<1> HIDE DEF h, qs, rs
<1>19. IsSectionOf(Parse(s).rrs, records, an + ns + ar) BY <1>13, <1>15, <1>18
<1>20. h = ParseHeader(s) BY DEF h
<1>21. QED BY <1>3, <1>4, <1>5, <1>15, <1>17, <1>19, <1>20 DEF IsParsed

-----------------------------------------------------------------------------
(* What serialize makes of that with another id. *)
LEMMA WithIdIs ==
    ASSUME NEW s, NEW j, NEW h, Parse(s).header = h
    PROVE  WithId(Parse(s), j)
             = SerializeHeader([h EXCEPT !.id = j])
                 \o (FlattenSeq([k \in DOMAIN Parse(s).questions |->
                                    SerializeQuestion(Parse(s).questions[k])])
                       \o FlattenSeq([k \in DOMAIN Parse(s).rrs |->
                                         SerializeRecord(Parse(s).rrs[k])]))
<1> DEFINE p == Parse(s)
           q == [p EXCEPT !.header.id = j]
<1>1. p = [header |-> p.header, questions |-> p.questions, rrs |-> p.rrs] BY DEF Parse
<1> HIDE DEF p
<1>2. q.header = [h EXCEPT !.id = j] /\ q.questions = p.questions /\ q.rrs = p.rrs
  <2>1. p.header = h BY DEF p
  <2>2. QED BY <1>1, <2>1
<1>3. WithId(p, j) = SerializeHeader(q.header) \o SerializeSections(q) BY DEF WithId, Serialize
<1> HIDE DEF q
<1>4. SerializeSections(q)
        = FlattenSeq([k \in DOMAIN p.questions |-> SerializeQuestion(p.questions[k])])
            \o FlattenSeq([k \in DOMAIN p.rrs |-> SerializeRecord(p.rrs[k])])
  BY <1>2 DEF SerializeSections
<1>5. QED BY <1>2, <1>3, <1>4 DEF p

IsHeaderWritten(h, j, v, qd, an, ns, ar) ==
    SerializeHeader([h EXCEPT !.id = j]) = HeaderBytes(j, v, qd, an, ns, ar)

LEMMA HeaderWritten ==
    ASSUME NEW v \in Words, NEW h, NEW id, NEW qd, NEW an, NEW ns, NEW ar,
           IsHeader(h, id, v, qd, an, ns, ar), NEW j
    PROVE  IsHeaderWritten(h, j, v, qd, an, ns, ar)
<1> DEFINE g == [h EXCEPT !.id = j]
           f == ParseFlags(v)
<1>1. SerializeFlags(f) = v BY FlagsFacts
<1> HIDE DEF f
<1>2. /\ g.id = j /\ g.flags = f /\ g.qdcount = qd
      /\ g.ancount = an /\ g.nscount = ns /\ g.arcount = ar
  BY DEF f, IsHeader
<1> HIDE DEF g
<1>3. SerializeHeader(g)
        = Bytes16(j) \o Bytes16(SerializeFlags(f)) \o Bytes16(qd)
            \o Bytes16(an) \o Bytes16(ns) \o Bytes16(ar)
  BY <1>2, Zenon DEF SerializeHeader
<1>4. QED BY <1>1, <1>3 DEF g, IsHeaderWritten, HeaderBytes

(* The question as serialize writes it. *)
Written(s) == SerializeName(TextAt(s, 13)) \o Bytes16(1) \o Bytes16(1)

IsWritten(s, A, l) == Bytes \subseteq A /\ Of(Written(s), A, l)

KeepsLength(s, name) == \A A, l : IsWritten(s, A, l) => l = Len(name) + 4

LEMMA WrittenFacts ==
    ASSUME NEW s, NEW name, IsQuestionName(s, name)
    PROVE  /\ \E A, l : IsWritten(s, A, l)
           /\ ~Shrinks(s) => KeepsLength(s, name)
           /\ Plain(s) => Written(s) = Question(name)
<1> DEFINE b == SerializeName(TextAt(s, 13))
           o == Bytes16(1)
<1>1. TextAt(s, 13) \in Seq(Bytes) BY DEF IsQuestionName
<1>2. PICK A : Int \subseteq A /\ b \in Seq(A) BY <1>1, SerializeNameType
<1>3. Bytes \subseteq A
  <2>1. Bytes \subseteq Int BY DEF Bytes
  <2>2. QED BY <1>2, <2>1
<1>4. PICK m \in Nat : m = Len(b) BY <1>2, LenProperties
<1>5. Of(o, A, 2)
  <2>1. 1 \in Words BY DEF Words
  <2>2. QED BY <1>3, <2>1, OfWord
<1>6. Of(b, A, m) BY <1>2, <1>4 DEF Of
<1>7. Written(s) = b \o o \o o BY DEF Written
<1>8. Plain(s) => b = name BY DEF IsQuestionName
<1>9. ~Shrinks(s) => m = Len(name) BY <1>4 DEF IsQuestionName
<1> HIDE DEF b, o
<1>10. Of(b \o o, A, m + 2) BY <1>5, <1>6, OfJoin
<1>11. Of(b \o o \o o, A, (m + 2) + 2)
  <2> DEFINE c == b \o o
  <2>1. Of(c, A, m + 2) BY <1>10
  <2> HIDE DEF c
  <2>2. Of(c \o o, A, (m + 2) + 2) BY <1>5, <2>1, OfJoin
  <2>3. QED BY <2>2 DEF c
<1>12. IsWritten(s, A, (m + 2) + 2) BY <1>3, <1>7, <1>11 DEF IsWritten
<1>13. \A B, l : IsWritten(s, B, l) => l = (m + 2) + 2 BY <1>7, <1>11 DEF IsWritten, Of
<1>14. ASSUME ~Shrinks(s), NEW B, NEW l, IsWritten(s, B, l) PROVE l = Len(name) + 4
  <2>1. l = (m + 2) + 2 BY <1>13, <1>14
  <2>2. m = Len(name) BY <1>9, <1>14
  <2>3. (m + 2) + 2 = m + 4 OBVIOUS
  <2>4. QED BY <2>1, <2>2, <2>3
<1>15. ASSUME Plain(s) PROVE Written(s) = Question(name) BY <1>7, <1>8, <1>15 DEF Question, o
<1>16. QED BY <1>12, <1>14, <1>15 DEF KeepsLength

(* A packet under another id: the header is the same but for it, and so are  *)
(* the sections; the question is the same if its name is plain, and the      *)
(* packet has its length if the question has.                                *)
IsReserialized(w, s, j, v, an, ns, ar, name, records) ==
    /\ w = HeaderOf(j, v, an, ns, ar) \o (Written(s) \o SectionBytes(records))
    /\ Plain(s) => w = Packet(j, v, an, ns, ar, name, records)
    /\ \E A : Bytes \subseteq A /\ Has(w, A, 0, HeaderOf(j, v, an, ns, ar))
    /\ KeepsLength(s, name) => Len(w) = Len(s)

LEMMA Reserialized ==
    ASSUME NEW id, NEW v, NEW an, NEW ns, NEW ar, NEW name, NEW records,
           IsMadeOf(id, v, an, ns, ar, name, records),
           NEW s, s = Packet(id, v, an, ns, ar, name, records), NEW j \in Words
    PROVE  IsReserialized(WithId(Parse(s), j), s, j, v, an, ns, ar, name, records)
<1> DEFINE w == WithId(Parse(s), j)
           H == HeaderOf(j, v, an, ns, ar)
           G == HeaderOf(id, v, an, ns, ar)
           R == SectionBytes(records)
           Q == Question(name)
           b == Written(s)
           t == b \o R
<1>1. HeaderWords(id, v, an, ns, ar) /\ IsName(name) /\ IsSection(records, an + ns + ar)
  BY DEF IsMadeOf
<1>2. IsParsed(s, id, v, an, ns, ar, name, records) BY PacketRead
<1>3. w = H \o t
  <2> DEFINE h == [id |-> id, flags |-> ParseFlags(v), qdcount |-> 1,
                   ancount |-> an, nscount |-> ns, arcount |-> ar]
             q == [qname |-> TextAt(s, 13), qtype |-> 1, qclass |-> 1]
             p == Parse(s)
  <2>1. p.header = h /\ p.questions = <<q>> BY <1>2 DEF IsParsed
  <2>2. FlattenSeq([k \in DOMAIN p.rrs |-> SerializeRecord(p.rrs[k])]) = R
    BY <1>2 DEF IsParsed, IsSectionOf
  <2>3. SerializeQuestion(q) = b
    <3>1. q.qname = TextAt(s, 13) /\ q.qtype = 1 /\ q.qclass = 1 OBVIOUS
    <3> HIDE DEF q
    <3>2. QED BY <3>1, Zenon DEF SerializeQuestion, Written
  <2> HIDE DEF q, b
  <2>4. [k \in DOMAIN p.questions |-> SerializeQuestion(p.questions[k])] = <<b>>
    <3>1. [k \in DOMAIN <<q>> |-> SerializeQuestion((<<q>>)[k])] = <<SerializeQuestion(q)>> OBVIOUS
    <3>2. QED BY <2>1, <2>3, <3>1
  <2>5. FlattenSeq(<<b>>) = b
    <3>1. PICK A, l : IsWritten(s, A, l) BY <1>2, WrittenFacts DEF IsParsed
    <3>2. b \in Seq(A) BY <3>1 DEF IsWritten, Of, b
    <3>3. QED BY <3>2, FlattenOne
  <2>6. SerializeHeader([h EXCEPT !.id = j]) = H
    <3>0. IsHeader(h, id, v, 1, an, ns, ar) BY DEF IsHeader
    <3>1. v \in Words BY <1>1 DEF HeaderWords
    <3> HIDE DEF h
    <3>2. IsHeaderWritten(h, j, v, 1, an, ns, ar) BY <3>0, <3>1, HeaderWritten
    <3>3. QED BY <3>2 DEF HeaderOf, HeaderBytes, IsHeaderWritten
  <2> HIDE DEF h, H, R
  <2>7. w = SerializeHeader([h EXCEPT !.id = j])
              \o (FlattenSeq([k \in DOMAIN p.questions |-> SerializeQuestion(p.questions[k])])
                    \o FlattenSeq([k \in DOMAIN p.rrs |-> SerializeRecord(p.rrs[k])]))
    BY <2>1, WithIdIs
  <2>8. QED BY <2>2, <2>4, <2>5, <2>6, <2>7
<1>4. HeaderWords(j, v, an, ns, ar) BY <1>1 DEF HeaderWords
<1>5. R \in Seq(Bytes) BY <1>1, SectionFacts
<1>6. IsQuestionName(s, name) BY <1>2 DEF IsParsed
<1>7. ASSUME Plain(s) PROVE w = Packet(j, v, an, ns, ar, name, records)
  <2>1. b = Q BY <1>6, <1>7, WrittenFacts
  <2>2. Of(H, Bytes, 12) BY <1>4, HeaderFacts
  <2>3. Q \in Seq(Bytes)
    <3>1. name \in Seq(Bytes) BY <1>1 DEF IsName
    <3>2. 1 \in Words BY DEF Words
    <3>3. Bytes16(1) \in Seq(Bytes) BY <3>2, Bytes16Facts
    <3>4. QED BY <3>1, <3>3, ConcatProperties DEF Question
  <2> HIDE DEF H, Q, R, b
  <2>4. H \in Seq(Bytes) BY <2>2 DEF Of
  <2>5. Assoc(H, Q, R) BY <1>5, <2>3, <2>4, JoinsAssociate
  <2>6. w = (H \o Q) \o R BY <1>3, <2>1, <2>5 DEF Assoc
  <2>7. QED BY <2>6 DEF Packet, H, Q, R
<1>8. PICK A, l : IsWritten(s, A, l) BY <1>6, WrittenFacts
<1>9. Bytes \subseteq A /\ Of(b, A, l) BY <1>8 DEF IsWritten
<1>10. R \in Seq(A) BY <1>5, <1>9, SeqSubset
<1>11. PICK r \in Nat : r = Len(R) BY <1>5, LenProperties
<1>12. Of(H, A, 12) /\ Of(R, A, r)
  <2>1. Of(H, A, 12) BY <1>4, <1>9, HeaderFacts
  <2>2. QED BY <1>10, <1>11, <2>1 DEF Of
<1>13. Of(t, A, l + r)
  <2> HIDE DEF b, R
  <2>1. QED BY <1>9, <1>12, OfJoin
<1>14. Of(w, A, 12 + (l + r)) /\ Has(w, A, 0, H)
  <2> HIDE DEF H, t
  <2>1. Of(H \o t, A, 12 + (l + r)) BY <1>12, <1>13, OfJoin
  <2>2. H \in Seq(A) /\ t \in Seq(A) BY <1>12, <1>13 DEF Of
  <2>3. Has(H \o t, A, 0, H) BY <2>2, HasFront
  <2>4. QED BY <1>3, <2>1, <2>3
<1>15. ASSUME KeepsLength(s, name) PROVE Len(w) = Len(s)
  <2>1. l = Len(name) + 4 BY <1>8, <1>15 DEF KeepsLength
  <2>2. name \in Seq(Bytes) BY <1>1 DEF IsName
  <2>3. PICK n \in Nat : n = Len(name) BY <2>2, LenProperties
  <2>4. Of(s, Bytes, (12 + ((n + 2) + 2)) + r)
    <3>1. Of(G, Bytes, 12) BY <1>1, HeaderFacts
    <3>2. Of(name, Bytes, n) BY <2>2, <2>3 DEF Of
    <3>3. Of(Bytes16(1), Bytes, 2)
      <4>1. 1 \in Words BY DEF Words
      <4>2. QED BY <4>1, OfWord
    <3>4. Of(Q, Bytes, (n + 2) + 2)
      <4> DEFINE o == Bytes16(1)
                 c == name \o o
      <4>1. Of(o, Bytes, 2) BY <3>3
      <4> HIDE DEF o
      <4>2. Of(c, Bytes, n + 2) BY <3>2, <4>1, OfJoin
      <4> HIDE DEF c
      <4>3. Of(c \o o, Bytes, (n + 2) + 2) BY <4>1, <4>2, OfJoin
      <4>4. QED BY <4>3 DEF c, o, Question
    <3>5. Of(R, Bytes, r) BY <1>5, <1>11 DEF Of
    <3> DEFINE a == G \o Q
    <3> HIDE DEF G, Q, R
    <3>6. Of(a, Bytes, 12 + ((n + 2) + 2)) BY <3>1, <3>4, OfJoin
    <3> HIDE DEF a
    <3>7. Of(a \o R, Bytes, (12 + ((n + 2) + 2)) + r) BY <3>5, <3>6, OfJoin
    <3>8. QED BY <3>7 DEF Packet, a, G, Q, R
  <2>5. Len(s) = (12 + ((n + 2) + 2)) + r BY <2>4 DEF Of
  <2>6. Len(w) = 12 + (l + r) BY <1>14 DEF Of
  <2>7. 12 + ((n + 4) + r) = (12 + ((n + 2) + 2)) + r OBVIOUS
  <2>8. QED BY <2>1, <2>3, <2>5, <2>6, <2>7
<1>16. w = H \o (Written(s) \o SectionBytes(records)) BY <1>3
<1>17. \E B : Bytes \subseteq B /\ Has(w, B, 0, H) BY <1>9, <1>14
<1> HIDE DEF w
<1>18. IsReserialized(w, s, j, v, an, ns, ar, name, records)
  BY <1>7, <1>15, <1>16, <1>17 DEF IsReserialized
<1>19. QED BY <1>18 DEF w

-----------------------------------------------------------------------------
(* A packet's id, and the rest of it. *)
IsSplit(p, j, Z) ==
    /\ p = Bytes16(j) \o Z
    /\ SubSeq(p, 1, 2) = Bytes16(j)
    /\ Behind(2, p) = Z

LEMMA QuestionFacts ==
    ASSUME NEW name, IsName(name)
    PROVE  Question(name) \in Seq(Bytes)
<1>1. name \in Seq(Bytes) BY DEF IsName
<1>2. 1 \in Words BY DEF Words
<1>3. Bytes16(1) \in Seq(Bytes) BY <1>2, Bytes16Facts
<1>4. QED BY <1>1, <1>3, ConcatProperties DEF Question

LEMMA PacketSplit ==
    ASSUME NEW id, NEW v, NEW an, NEW ns, NEW ar, NEW name, NEW records,
           IsMadeOf(id, v, an, ns, ar, name, records)
    PROVE  \E Z : \A j \in Words : IsSplit(Packet(j, v, an, ns, ar, name, records), j, Z)
<1> DEFINE R == SectionBytes(records)
           Q == Question(name)
           T == Q \o R
<1>1. HeaderWords(id, v, an, ns, ar) /\ IsName(name) /\ IsSection(records, an + ns + ar)
  BY DEF IsMadeOf
<1>2. R \in Seq(Bytes) /\ Q \in Seq(Bytes) BY <1>1, SectionFacts, QuestionFacts
<1>3. T \in Seq(Bytes) BY <1>2, ConcatProperties
<1>4. HeaderWords(0, v, an, ns, ar) BY <1>1 DEF HeaderWords, Words
<1>5. Bytes \subseteq Bytes OBVIOUS
<1> HIDE DEF R, Q, T
<1>6. PICK Z : IsBehindId(Z, v, an, ns, ar, T) BY <1>3, <1>4, HeaderSplit
<1>7. ASSUME NEW j \in Words PROVE IsSplit(Packet(j, v, an, ns, ar, name, records), j, Z)
  <2> DEFINE H == HeaderOf(j, v, an, ns, ar)
             b == Bytes16(j)
             c == b \o Z
  <2>1. HeaderWords(j, v, an, ns, ar) BY <1>1 DEF HeaderWords
  <2>2. H \in Seq(Bytes) BY <1>5, <2>1, HeaderFacts DEF Of
  <2> HIDE DEF H
  <2>3. Assoc(H, Q, R) BY <1>2, <2>2, JoinsAssociate
  <2>4. H \o T = c BY <1>6 DEF H, IsBehindId
  <2>5. Packet(j, v, an, ns, ar, name, records) = c
    <3>1. Packet(j, v, an, ns, ar, name, records) = (H \o Q) \o R BY DEF Packet, H, Q, R
    <3>2. QED BY <2>3, <2>4, <3>1 DEF Assoc, T
  <2>6. b \in Seq(Bytes) /\ Len(b) = 2 BY Bytes16Facts
  <2> HIDE DEF b
  <2>7. IsJoin(c, Bytes, b, Z) BY <1>6, <2>6, JoinFacts DEF IsBehindId
  <2> HIDE DEF c
  <2>8. SubSeq(c, 1, 2) = b /\ SubSeq(c, 2 + 1, Len(c)) = Z BY <2>6, <2>7 DEF IsJoin
  <2>9. c = Bytes16(j) \o Z BY DEF c, b
  <2>10. QED BY <2>5, <2>8, <2>9 DEF IsSplit, Behind, b
<1>8. QED BY <1>7

(* What is behind 12 bytes of header. *)
LEMMA BehindHeader ==
    ASSUME NEW S, NEW H, Of(H, S, 12), NEW T \in Seq(S)
    PROVE  Behind(12, H \o T) = T
<1>1. H \in Seq(S) /\ Len(H) = 12 BY DEF Of
<1>2. IsJoin(H \o T, S, H, T) BY <1>1, JoinFacts
<1>3. SubSeq(H \o T, 12 + 1, Len(H \o T)) = T BY <1>1, <1>2 DEF IsJoin
<1>4. QED BY <1>3 DEF Behind

LEMMA PacketBehind ==
    ASSUME NEW id, NEW v, NEW an, NEW ns, NEW ar, NEW name, NEW records,
           IsMadeOf(id, v, an, ns, ar, name, records)
    PROVE  Behind(12, Packet(id, v, an, ns, ar, name, records))
             = Question(name) \o SectionBytes(records)
<1> DEFINE H == HeaderOf(id, v, an, ns, ar)
           R == SectionBytes(records)
           Q == Question(name)
           T == Q \o R
<1>1. HeaderWords(id, v, an, ns, ar) /\ IsName(name) /\ IsSection(records, an + ns + ar)
  BY DEF IsMadeOf
<1>2. R \in Seq(Bytes) /\ Q \in Seq(Bytes) BY <1>1, SectionFacts, QuestionFacts
<1>3. T \in Seq(Bytes) BY <1>2, ConcatProperties
<1>4. Of(H, Bytes, 12)
  <2>1. Bytes \subseteq Bytes OBVIOUS
  <2>2. QED BY <1>1, <2>1, HeaderFacts
<1>5. Packet(id, v, an, ns, ar, name, records) = (H \o Q) \o R BY DEF Packet
<1> HIDE DEF H, Q, R
<1>6. H \in Seq(Bytes) BY <1>4 DEF Of
<1>7. Assoc(H, Q, R) BY <1>2, <1>6, JoinsAssociate
<1>8. (H \o Q) \o R = H \o T BY <1>7 DEF Assoc
<1> HIDE DEF T
<1>9. Behind(12, H \o T) = T BY <1>3, <1>4, BehindHeader
<1>10. QED BY <1>5, <1>8, <1>9 DEF T, Q, R

LEMMA NoRecords == SectionBytes(<<>>) = <<>> /\ IsSection(<<>>, 0 + 0 + 0)
<1>1. [k \in DOMAIN <<>> |-> RecordBytes((<<>>)[k])] = <<>> OBVIOUS
<1>2. FlattenSeq(<<>>) = <<>>
  <2>1. Len(<<>>) = 0 OBVIOUS
  <2>2. QED BY <2>1 DEF FlattenSeq
<1>3. SectionBytes(<<>>) = <<>> BY <1>1, <1>2 DEF SectionBytes
<1>4. 0 + 0 + 0 = 0 /\ DOMAIN <<>> = 1 .. 0 /\ 1 .. 0 = {} OBVIOUS
<1>5. IsSection(<<>>, 0 + 0 + 0) BY <1>4 DEF IsSection
<1>6. QED BY <1>3, <1>5

(* A query is a packet without records. *)
IsQuery(s, id, v, name) ==
    s = Packet(id, v, 0, 0, 0, name, <<>>) /\ IsMadeOf(id, v, 0, 0, 0, name, <<>>)

LEMMA QueryIsPacket ==
    ASSUME NEW id \in Ids, NEW v \in QueryFlags, NEW name \in QueryNames
    PROVE  IsQuery(Query(id, v, name), id, v, name)
<1>1. id \in Words /\ v \in Words /\ IsName(name) BY PacketAssumption
<1>2. 0 \in Words BY DEF Words
<1>3. HeaderWords(id, v, 0, 0, 0) BY <1>1, <1>2 DEF HeaderWords
<1>4. IsMadeOf(id, v, 0, 0, 0, name, <<>>) BY <1>1, <1>3, NoRecords DEF IsMadeOf
<1> DEFINE H == HeaderOf(id, v, 0, 0, 0)
           Q == Question(name)
           a == H \o Q
<1>5. H \in Seq(Bytes)
  <2>1. Bytes \subseteq Bytes OBVIOUS
  <2>2. QED BY <1>3, <2>1, HeaderFacts DEF Of
<1>6. Q \in Seq(Bytes) BY <1>1, QuestionFacts
<1> HIDE DEF H, Q
<1>7. a \in Seq(Bytes) BY <1>5, <1>6, ConcatProperties
<1>8. Query(id, v, name) = a BY DEF Query, a, H, Q
<1>9. Packet(id, v, 0, 0, 0, name, <<>>) = a \o <<>> BY NoRecords DEF Packet, a, H, Q
<1> HIDE DEF a
<1>10. a \o <<>> = a BY <1>7, ConcatEmptySeq
<1>11. QED BY <1>4, <1>8, <1>9, <1>10 DEF IsQuery

-----------------------------------------------------------------------------
(* The flags of a SERVFAIL, whatever word was in memory. *)
FailureFlags(w) == [ParseFlags(w) EXCEPT !.qr = 1, !.ra = 1, !.rcode = 2]

TellsFailure(v) ==
    v \in Words /\ ParseFlags(v).qr = 1 /\ ParseFlags(v).ra = 1 /\ ParseFlags(v).rcode = 2

LEMMA FailureFlagsFacts ==
    ASSUME NEW w \in Words
    PROVE  TellsFailure(SerializeFlags(FailureFlags(w)))
<1> DEFINE f == FailureFlags(w)
<1>1. w \in Nat BY DEF Words
<1>2. /\ f.qr = 1 /\ f.opcode = (w \div 2048) % 16 /\ f.aa = (w \div 1024) % 2
      /\ f.tc = (w \div 512) % 2 /\ f.rd = (w \div 256) % 2 /\ f.ra = 1
      /\ f.z = (w \div 16) % 8 /\ f.rcode = 2
  BY DEF FailureFlags, ParseFlags
<1>3. /\ (w \div 2048) % 16 \in 0 .. 15 /\ (w \div 1024) % 2 \in 0 .. 1
      /\ (w \div 512) % 2 \in 0 .. 1 /\ (w \div 256) % 2 \in 0 .. 1 /\ (w \div 16) % 8 \in 0 .. 7
  BY <1>1
<1>4. PICK op \in 0 .. 15 : op = (w \div 2048) % 16 BY <1>3
<1>5. PICK aa \in 0 .. 1 : aa = (w \div 1024) % 2 BY <1>3
<1>6. PICK tc \in 0 .. 1 : tc = (w \div 512) % 2 BY <1>3
<1>7. PICK rd \in 0 .. 1 : rd = (w \div 256) % 2 BY <1>3
<1>8. PICK z \in 0 .. 7 : z = (w \div 16) % 8 BY <1>3
<1>9. SerializeFlags(f) = 1 * 32768 + op * 2048 + aa * 1024 + tc * 512 + rd * 256 + 1 * 128 + z * 16 + 2
  <2> HIDE DEF f
  <2>1. f.opcode = op /\ f.aa = aa /\ f.tc = tc /\ f.rd = rd /\ f.z = z
    BY <1>2, <1>4, <1>5, <1>6, <1>7, <1>8
  <2>2. f.qr = 1 /\ f.ra = 1 /\ f.rcode = 2 BY <1>2
  <2>3. QED BY <2>1, <2>2 DEF SerializeFlags
<1>10. PICK x \in 0 .. 127 : x = op * 8 + aa * 4 + tc * 2 + rd
  <2>1. op * 8 + aa * 4 + tc * 2 + rd \in 0 .. 127 OBVIOUS
  <2>2. QED BY <2>1
<1>11. PICK v \in Words : v = 32768 + x * 256 + 128 + z * 16 + 2
  <2>1. 32768 + x * 256 + 128 + z * 16 + 2 \in Words BY DEF Words
  <2>2. QED BY <2>1
<1>12. SerializeFlags(f) = v
  <2>1. 1 * 32768 + op * 2048 + aa * 1024 + tc * 512 + rd * 256 + 1 * 128 + z * 16 + 2
          = 32768 + x * 256 + 128 + z * 16 + 2
    BY ONLY op \in 0 .. 15, aa \in 0 .. 1, tc \in 0 .. 1, rd \in 0 .. 1, z \in 0 .. 7,
            x \in 0 .. 127, <1>10
  <2> HIDE DEF f
  <2>2. QED BY <1>9, <1>11, <2>1
<1>13. v \div 32768 = 1 BY <1>11
<1>14. (v \div 128) % 2 = 1
  <2>1. v \div 128 = 256 + x * 2 + 1 BY <1>11
  <2>2. QED BY <2>1
<1>15. v % 16 = 2 BY <1>11
<1>16. ParseFlags(v).qr = v \div 32768 /\ ParseFlags(v).ra = (v \div 128) % 2
       /\ ParseFlags(v).rcode = v % 16
  BY DEF ParseFlags
<1>17. TellsFailure(v) BY <1>13, <1>14, <1>15, <1>16 DEF TellsFailure
<1> HIDE DEF f
<1>18. SerializeFlags(FailureFlags(w)) = v BY <1>12 DEF f
<1>19. QED BY <1>17, <1>18

(* A SERVFAIL on the wire: the header, and the client's question. *)
IsServfail(r, id, v, qd, s) ==
    /\ r = HeaderBytes(id, v, qd, 0, 0, 0) \o Written(s)
    /\ TellsFailure(v) /\ qd \in Words

LEMMA ServfailIs ==
    ASSUME NEW id, NEW v, NEW name, NEW s, IsQuery(s, id, v, name),
           NEW w \in Words, NEW qd \in Words, NEW junk, junk = [word |-> w, qdcount |-> qd]
    PROVE  \E u : IsServfail(Serialize(Servfail(Parse(s), junk)), id, u, qd, s)
<1> DEFINE p == Parse(s)
           f == FailureFlags(w)
           u == SerializeFlags(f)
           h == [id |-> id, flags |-> f, qdcount |-> qd,
                 ancount |-> 0, nscount |-> 0, arcount |-> 0]
           q == [qname |-> TextAt(s, 13), qtype |-> 1, qclass |-> 1]
           b == Written(s)
           t == Servfail(p, junk)
<1>1. IsParsed(s, id, v, 0, 0, 0, name, <<>>) BY PacketRead DEF IsQuery
<1>2. p.header.id = id /\ p.questions = <<q>> BY <1>1 DEF IsParsed
<1>3. TellsFailure(u) BY FailureFlagsFacts
<1>4. t.header = h /\ t.questions = <<q>> /\ t.rrs = <<>>
  <2>1. junk.word = w /\ junk.qdcount = qd OBVIOUS
  <2>2. [ParseFlags(junk.word) EXCEPT !.qr = 1, !.ra = 1, !.rcode = 2] = f
    BY <2>1 DEF FailureFlags
  <2> HIDE DEF f, p, q
  <2>3. t = [header |-> h, questions |-> <<q>>, rrs |-> <<>>]
    BY <1>2, <2>1, <2>2, Zenon DEF Servfail
  <2> HIDE DEF t, h
  <2>4. QED BY <2>3
<1>5. SerializeHeader(h) = HeaderBytes(id, u, qd, 0, 0, 0)
  <2> HIDE DEF f
  <2>1. /\ h.id = id /\ h.flags = f /\ h.qdcount = qd
        /\ h.ancount = 0 /\ h.nscount = 0 /\ h.arcount = 0
    OBVIOUS
  <2> HIDE DEF h
  <2>2. QED BY <2>1, Zenon DEF SerializeHeader, HeaderBytes
<1>6. SerializeQuestion(q) = b
  <2>1. q.qname = TextAt(s, 13) /\ q.qtype = 1 /\ q.qclass = 1 OBVIOUS
  <2> HIDE DEF q
  <2>2. QED BY <2>1, Zenon DEF SerializeQuestion, Written
<1>7. PICK A, l : IsWritten(s, A, l) BY <1>1, WrittenFacts DEF IsParsed
<1> HIDE DEF h, q, b, t, u, f, p
<1>8. [k \in DOMAIN t.questions |-> SerializeQuestion(t.questions[k])] = <<b>>
  <2>1. [k \in DOMAIN <<q>> |-> SerializeQuestion((<<q>>)[k])] = <<SerializeQuestion(q)>> OBVIOUS
  <2>2. QED BY <1>4, <1>6, <2>1
<1>9. b \in Seq(A) BY <1>7 DEF IsWritten, Of, b
<1>10. FlattenSeq(<<b>>) = b BY <1>9, FlattenOne
<1>11. [k \in DOMAIN t.rrs |-> SerializeRecord(t.rrs[k])] = <<>>
  <2>1. [k \in DOMAIN <<>> |-> SerializeRecord((<<>>)[k])] = <<>> OBVIOUS
  <2>2. QED BY <1>4, <2>1
<1>12. FlattenSeq(<<>>) = <<>>
  <2>1. Len(<<>>) = 0 OBVIOUS
  <2>2. QED BY <2>1 DEF FlattenSeq
<1>13. SerializeSections(t) = b
  <2>1. b \o <<>> = b BY <1>9, ConcatEmptySeq
  <2>2. QED BY <1>8, <1>10, <1>11, <1>12, <2>1 DEF SerializeSections
<1>14. Serialize(t) = HeaderBytes(id, u, qd, 0, 0, 0) \o b BY <1>4, <1>5, <1>13 DEF Serialize
<1>15. IsServfail(Serialize(t), id, u, qd, s) BY <1>3, <1>14 DEF IsServfail, b
<1>16. QED BY <1>15 DEF t, p

-----------------------------------------------------------------------------
(* An answer is a packet with the records of its section. *)
IsAnswer(s, id, v, section, name) ==
    /\ s = Packet(id, v, section.an, section.ns, section.ar, name, section.records)
    /\ IsMadeOf(id, v, section.an, section.ns, section.ar, name, section.records)

LEMMA AnswerIsPacket ==
    ASSUME NEW id \in Words, NEW v \in AnswerFlags, NEW section \in AnswerSections,
           NEW name, IsName(name)
    PROVE  IsAnswer(Answer(id, v, name, section), id, v, section, name)
<1>1. /\ section.an \in Words /\ section.ns \in Words /\ section.ar \in Words
      /\ DOMAIN section.records = 1 .. section.an + section.ns + section.ar
      /\ \A k \in DOMAIN section.records : IsRecord(section.records[k])
  BY PacketAssumption
<1>2. v \in Words BY PacketAssumption
<1>3. section.an + section.ns + section.ar \in Nat BY <1>1 DEF Words
<1>4. IsSection(section.records, section.an + section.ns + section.ar)
  BY <1>1, <1>3 DEF IsSection
<1>5. IsMadeOf(id, v, section.an, section.ns, section.ar, name, section.records)
  BY <1>1, <1>2, <1>4 DEF IsMadeOf, HeaderWords
<1>6. QED BY <1>5 DEF IsAnswer, Answer, Packet

(* The forwarded query has the index for its id. *)
LEMMA ForwardedId ==
    ASSUME NEW id, NEW v, NEW name, NEW s, IsQuery(s, id, v, name), NEW j \in Words
    PROVE  Read16(WithId(Parse(s), j), 1) = j
<1> DEFINE w == WithId(Parse(s), j)
<1>1. IsReserialized(w, s, j, v, 0, 0, 0, name, <<>>) BY Reserialized DEF IsQuery
<1> HIDE DEF w
<1>2. PICK A : Bytes \subseteq A /\ Has(w, A, 0, HeaderOf(j, v, 0, 0, 0))
  BY <1>1 DEF IsReserialized
<1>3. HeaderWords(j, v, 0, 0, 0) BY DEF IsQuery, IsMadeOf, HeaderWords
<1>4. IsHeader(ParseHeader(w), j, v, 1, 0, 0, 0) BY <1>2, <1>3, HeaderRead
<1>5. ParseHeader(w).id = j BY <1>4 DEF IsHeader
<1>6. ParseHeader(w).id = Read16(w, 1) BY DEF ParseHeader
<1>7. QED BY <1>5, <1>6 DEF w

-----------------------------------------------------------------------------
(* What the bytes are, at each stage. *)
Stages == {"new", "forwarded", "answered", "relayed", "timedOut"}

IsAsked(s) == \E id \in Ids, v \in QueryFlags, name \in QueryNames : s = Query(id, v, name)

IsAnswered(s, j) ==
    \E v \in AnswerFlags, section \in AnswerSections, name \in QueryNames \cup {NameIn(forwarded)} :
        IsName(name) /\ s = Answer(j, v, name, section)

History ==
    /\ stage \in Stages
    /\ index \in Ids
    /\ IsAsked(query)
    /\ stage # "new" => forwarded = WithId(Parse(query), index)
    /\ stage \in {"forwarded", "answered"} => prefix = Len(query)
    /\ stage \in {"answered", "relayed"} => IsAnswered(answer, index)
    /\ stage = "relayed" =>
          /\ SameQuestions(Parse(answer), Parse(query))
          /\ reply = WithId(Parse(answer), Parse(query).header.id)
          /\ prefix = Len(answer)
    /\ stage = "timedOut" =>
          /\ \E junk \in Garbage : reply = Serialize(Servfail(Parse(query), junk))
          /\ prefix = Len(reply)

LEMMA HistoryInit == Init => History
BY DEF Init, History, Stages, IsAsked

LEMMA HistoryNext == History /\ [Next]_vars => History'
<1> SUFFICES ASSUME History, [Next]_vars PROVE History'
  OBVIOUS
<1>1. CASE Forward
  BY <1>1 DEF Forward, History, Stages, IsAsked
<1>2. CASE NameserverAnswers
  <2>1. stage = "forwarded" /\ forwarded = WithId(Parse(query), index)
    BY <1>2 DEF NameserverAnswers, History
  <2>2. Read16(forwarded, 1) = index
    <3>1. PICK id \in Ids, v \in QueryFlags, name \in QueryNames : query = Query(id, v, name)
      BY DEF History, IsAsked
    <3>2. IsQuery(query, id, v, name) BY <3>1, QueryIsPacket
    <3>3. index \in Words BY PacketAssumption DEF History
    <3>4. QED BY <2>1, <3>2, <3>3, ForwardedId
  <2>3. IsName(NameIn(forwarded)) BY <1>2 DEF NameserverAnswers
  <2>4. \A name \in QueryNames \cup {NameIn(forwarded)} : IsName(name)
    BY <2>3, PacketAssumption
  <2>5. \E v \in AnswerFlags, section \in AnswerSections,
           name \in {NameIn(forwarded)} \cup QueryNames : answer' = Answer(index, v, name, section)
    BY <1>2, <2>2 DEF NameserverAnswers
  <2>6. forwarded' = forwarded BY <1>2 DEF NameserverAnswers
  <2>7. IsAnswered(answer, index)' BY <1>2, <2>4, <2>5, <2>6 DEF IsAnswered, NameserverAnswers
  <2>8. QED BY <1>2, <2>7 DEF NameserverAnswers, History, Stages, IsAsked
<1>3. CASE Relay
  BY <1>3 DEF Relay, History, Stages, IsAsked, IsAnswered
<1>4. CASE Refuse
  BY <1>4 DEF Refuse, History, Stages, IsAsked
<1>5. CASE TimeOut
  BY <1>5 DEF TimeOut, History, Stages, IsAsked
<1>6. CASE UNCHANGED vars
  BY <1>6 DEF vars, History, Stages, IsAsked, IsAnswered
<1>7. QED BY <1>1, <1>2, <1>3, <1>4, <1>5, <1>6 DEF Next

-----------------------------------------------------------------------------
LEMMA AskedIsQuery ==
    ASSUME NEW s, IsAsked(s)
    PROVE  \E id \in Words, v \in Words, name \in QueryNames : IsQuery(s, id, v, name)
<1>1. PICK id \in Ids, v \in QueryFlags, name \in QueryNames : s = Query(id, v, name) BY DEF IsAsked
<1>2. IsQuery(s, id, v, name) BY <1>1, QueryIsPacket
<1>3. id \in Words /\ v \in Words BY PacketAssumption
<1>4. QED BY <1>2, <1>3

LEMMA AnsweredIsAnswer ==
    ASSUME NEW s, NEW j \in Words, IsAnswered(s, j)
    PROVE  \E v \in AnswerFlags, section \in AnswerSections, name \in Seq(Bytes) :
              IsAnswer(s, j, v, section, name)
<1>1. PICK v \in AnswerFlags, section \in AnswerSections, name \in QueryNames \cup {NameIn(forwarded)} :
          IsName(name) /\ s = Answer(j, v, name, section)
  BY DEF IsAnswered
<1>2. IsAnswer(s, j, v, section, name) BY <1>1, AnswerIsPacket
<1>3. name \in Seq(Bytes) BY <1>1 DEF IsName
<1>4. QED BY <1>2, <1>3

(* Under another id a plain packet is the same but for that.                 *)
IsReidentified(w, s, id, j) ==
    w = Bytes16(j) \o Behind(2, s) /\ SubSeq(s, 1, 2) = Bytes16(id)

LEMMA OnlyTheId ==
    ASSUME NEW id \in Words, NEW v, NEW an, NEW ns, NEW ar, NEW name, NEW records,
           IsMadeOf(id, v, an, ns, ar, name, records),
           NEW s, s = Packet(id, v, an, ns, ar, name, records), Plain(s), NEW j \in Words
    PROVE  IsReidentified(WithId(Parse(s), j), s, id, j)
<1>1. IsReserialized(WithId(Parse(s), j), s, j, v, an, ns, ar, name, records) BY Reserialized
<1>2. WithId(Parse(s), j) = Packet(j, v, an, ns, ar, name, records) BY <1>1 DEF IsReserialized
<1>3. PICK Z : \A k \in Words : IsSplit(Packet(k, v, an, ns, ar, name, records), k, Z)
  BY PacketSplit
<1>4. IsSplit(s, id, Z) /\ IsSplit(Packet(j, v, an, ns, ar, name, records), j, Z) BY <1>3
<1>5. QED BY <1>2, <1>4 DEF IsSplit, IsReidentified

(* The id that parse finds. *)
LEMMA ParsedId ==
    ASSUME NEW id, NEW v, NEW name, NEW s, IsQuery(s, id, v, name)
    PROVE  Parse(s).header.id = id
<1>1. IsParsed(s, id, v, 0, 0, 0, name, <<>>) BY PacketRead DEF IsQuery
<1>2. QED BY <1>1 DEF IsParsed

(* Behind a query's header is its question, and nothing else. *)
LEMMA QueryBehind ==
    ASSUME NEW id, NEW v, NEW name, NEW s, IsQuery(s, id, v, name)
    PROVE  Behind(12, s) = Question(name)
<1> DEFINE p == Packet(id, v, 0, 0, 0, name, <<>>)
           Q == Question(name)
<1>1. s = p /\ IsMadeOf(id, v, 0, 0, 0, name, <<>>) BY DEF IsQuery
<1>2. Behind(12, p) = Q \o SectionBytes(<<>>) BY <1>1, PacketBehind
<1>3. Q \in Seq(Bytes) BY <1>1, QuestionFacts DEF IsMadeOf
<1> HIDE DEF Q, p
<1>4. Q \o <<>> = Q BY <1>3, ConcatEmptySeq
<1>5. Behind(12, s) = Q BY <1>1, <1>2, <1>4, NoRecords
<1>6. QED BY <1>5 DEF Q

LEMMA HistoryTransparent == History => Transparent
<1> SUFFICES ASSUME History, Plain(query)
             PROVE  /\ stage # "new" => forwarded = Bytes16(index) \o Behind(2, query)
                    /\ stage = "relayed" /\ Plain(answer) =>
                          reply = SubSeq(query, 1, 2) \o Behind(2, answer)
  BY DEF Transparent
<1>1. PICK id \in Words, v \in Words, name \in QueryNames : IsQuery(query, id, v, name) BY AskedIsQuery DEF History
<1>2. index \in Words BY PacketAssumption DEF History
<1>3. /\ query = Packet(id, v, 0, 0, 0, name, <<>>)
      /\ IsMadeOf(id, v, 0, 0, 0, name, <<>>)
  BY <1>1 DEF IsQuery
<1>4. WithId(Parse(query), index) = Bytes16(index) \o Behind(2, query)
      /\ SubSeq(query, 1, 2) = Bytes16(id)
  <2>1. Plain(query) OBVIOUS
  <2>2. IsReidentified(WithId(Parse(query), index), query, id, index)
    BY <1>2, <1>3, <2>1, OnlyTheId
  <2>3. QED BY <2>2 DEF IsReidentified
<1>5. ASSUME stage = "relayed", Plain(answer)
      PROVE  reply = SubSeq(query, 1, 2) \o Behind(2, answer)
  <2>1. reply = WithId(Parse(answer), id)
    <3>1. Parse(query).header.id = id BY <1>1, ParsedId
    <3>2. QED BY <1>5, <3>1 DEF History
  <2>2. IsAnswered(answer, index) BY <1>5 DEF History
  <2>3. PICK u \in AnswerFlags, section \in AnswerSections, other \in Seq(Bytes) :
            IsAnswer(answer, index, u, section, other)
    BY <1>2, <2>2, AnsweredIsAnswer
  <2>4. /\ answer = Packet(index, u, section.an, section.ns, section.ar, other, section.records)
        /\ IsMadeOf(index, u, section.an, section.ns, section.ar, other, section.records)
    BY <2>3 DEF IsAnswer
  <2>5. WithId(Parse(answer), id) = Bytes16(id) \o Behind(2, answer)
    <3>1. IsReidentified(WithId(Parse(answer), id), answer, index, id)
      BY <1>2, <1>5, <2>4, OnlyTheId
    <3>2. QED BY <3>1 DEF IsReidentified
  <2>6. QED BY <1>4, <2>1, <2>5
<1>6. QED BY <1>4, <1>5 DEF History

-----------------------------------------------------------------------------
(* The texts of the questions are the same. *)
LEMMA SameText ==
    ASSUME NEW id, NEW v, NEW an, NEW ns, NEW ar, NEW name, NEW records,
           NEW jd, NEW u, NEW bn, NEW bs, NEW br, NEW other, NEW others, NEW s, NEW t,
           IsParsed(s, id, v, an, ns, ar, name, records),
           IsParsed(t, jd, u, bn, bs, br, other, others),
           SameQuestions(Parse(s), Parse(t))
    PROVE  TextAt(s, 13) = TextAt(t, 13)
<1> DEFINE q == [qname |-> TextAt(s, 13), qtype |-> 1, qclass |-> 1]
           r == [qname |-> TextAt(t, 13), qtype |-> 1, qclass |-> 1]
<1>1. <<q>> = <<r>> BY DEF IsParsed, SameQuestions
<1>2. q = r
  <2> HIDE DEF q, r
  <2>1. (<<q>>)[1] = q /\ (<<r>>)[1] = r OBVIOUS
  <2>2. QED BY <1>1, <2>1
<1>3. q.qname = r.qname BY <1>2
<1>4. QED BY <1>3

(* A relayed answer and its query, and what parse makes of both. *)
IsRelayed(id, v, name, u, section, other) ==
    /\ IsQuery(query, id, v, name)
    /\ IsAnswer(answer, index, u, section, other)
    /\ IsParsed(query, id, v, 0, 0, 0, name, <<>>)
    /\ IsParsed(answer, index, u, section.an, section.ns, section.ar, other, section.records)
    /\ TextAt(answer, 13) = TextAt(query, 13)
    /\ reply = WithId(Parse(answer), id)
    /\ prefix = Len(answer)

LEMMA RelayedIs ==
    ASSUME History, stage = "relayed"
    PROVE  \E id \in Words, v \in Words, name \in QueryNames,
              u \in AnswerFlags, section \in AnswerSections, other \in Seq(Bytes) :
                 IsRelayed(id, v, name, u, section, other)
<1>1. PICK id \in Words, v \in Words, name \in QueryNames : IsQuery(query, id, v, name) BY AskedIsQuery DEF History
<1>2. index \in Words BY PacketAssumption DEF History
<1>3. /\ IsAnswered(answer, index)
      /\ SameQuestions(Parse(answer), Parse(query))
      /\ reply = WithId(Parse(answer), Parse(query).header.id)
      /\ prefix = Len(answer)
  BY DEF History
<1>4. PICK u \in AnswerFlags, section \in AnswerSections, other \in Seq(Bytes) :
          IsAnswer(answer, index, u, section, other)
  BY <1>2, <1>3, AnsweredIsAnswer
<1>5. IsParsed(query, id, v, 0, 0, 0, name, <<>>) BY <1>1, PacketRead DEF IsQuery
<1>6. IsParsed(answer, index, u, section.an, section.ns, section.ar, other, section.records)
  BY <1>4, PacketRead DEF IsAnswer
<1>7. TextAt(answer, 13) = TextAt(query, 13) BY <1>3, <1>5, <1>6, SameText
<1>8. Parse(query).header.id = id BY <1>1, ParsedId
<1>9. IsRelayed(id, v, name, u, section, other)
  BY <1>1, <1>3, <1>4, <1>5, <1>6, <1>7, <1>8 DEF IsRelayed
<1>10. QED BY <1>9

LEMMA HistoryOwnQuestion == History => OwnQuestionOnly
<1> SUFFICES ASSUME History, stage = "relayed", Plain(query), Plain(answer)
             PROVE  IsPrefix(Behind(12, query), Behind(12, answer))
  BY DEF OwnQuestionOnly
<1>1. PICK id \in Words, v \in Words, name \in QueryNames,
          u \in AnswerFlags, section \in AnswerSections, other \in Seq(Bytes) :
             IsRelayed(id, v, name, u, section, other)
  BY RelayedIs
<1>2. name = other
  <2>1. IsQuestionName(query, name) /\ IsQuestionName(answer, other)
    BY <1>1 DEF IsRelayed, IsParsed
  <2>2. SerializeName(TextAt(query, 13)) = name /\ SerializeName(TextAt(answer, 13)) = other
    BY <2>1 DEF IsQuestionName
  <2>3. QED BY <1>1, <2>2 DEF IsRelayed
<1> DEFINE Q == Question(name)
           R == SectionBytes(section.records)
<1>3. IsMadeOf(id, v, 0, 0, 0, name, <<>>)
      /\ IsMadeOf(index, u, section.an, section.ns, section.ar, other, section.records)
  BY <1>1 DEF IsRelayed, IsQuery, IsAnswer
<1>4. Q \in Seq(Bytes) /\ R \in Seq(Bytes)
  <2>1. IsName(name) BY <1>3 DEF IsMadeOf
  <2>2. R \in Seq(Bytes) BY <1>3, SectionFacts DEF IsMadeOf
  <2>3. QED BY <2>1, <2>2, QuestionFacts
<1>5. Behind(12, query) = Q BY <1>1, QueryBehind DEF IsRelayed
<1>6. Behind(12, answer) = Q \o R
  <2> DEFINE p == Packet(index, u, section.an, section.ns, section.ar, other, section.records)
  <2>1. answer = p BY <1>1 DEF IsRelayed, IsAnswer
  <2>2. Behind(12, p) = Question(other) \o R
    <3>1. IsMadeOf(index, u, section.an, section.ns, section.ar, other, section.records)
      BY <1>3
    <3>2. QED BY ONLY <3>1, PacketBehind
  <2> HIDE DEF p, R
  <2>3. QED BY <1>2, <2>1, <2>2
<1> HIDE DEF Q, R
<1>7. IsJoin(Q \o R, Bytes, Q, R) BY <1>4, JoinFacts
<1>8. Len(Q) <= Len(Q \o R) /\ SubSeq(Q \o R, 1, Len(Q)) = Q BY <1>7 DEF IsJoin
<1>9. SubSeq(Q, 1, Len(Q)) = Q
  <2>1. Len(Q) \in Nat /\ Q \in Seq(Bytes) BY <1>4, LenProperties
  <2>2. QED BY <2>1, SubSeqFull
<1>10. QED BY <1>5, <1>6, <1>8, <1>9 DEF IsPrefix

-----------------------------------------------------------------------------
(* The same text with the same length as the name: serialize keeps it for    *)
(* the answer if it does for the query.                                      *)
LEMMA KeptForBoth ==
    ASSUME NEW s, NEW t, NEW name, NEW other,
           IsQuestionName(s, name), IsQuestionName(t, other), IsName(name), IsName(other),
           TextAt(s, 13) = TextAt(t, 13), KeepsLength(s, name)
    PROVE  KeepsLength(t, other)
<1>1. Len(name) - 1 = Len(other) - 1 BY DEF IsQuestionName
<1>2. PICK m \in Nat : m = Len(name) BY LenProperties DEF IsName
<1>3. PICK n \in Nat : n = Len(other) BY LenProperties DEF IsName
<1>4. Len(name) = Len(other) BY <1>1, <1>2, <1>3
<1>5. Written(s) = Written(t) BY DEF Written
<1>6. QED BY <1>4, <1>5 DEF KeepsLength, IsWritten

LEMMA HistoryPrefix == History => PrefixIsLength
<1> SUFFICES ASSUME History PROVE PrefixIsLength
  OBVIOUS
<1>1. ASSUME stage = "forwarded", ~Shrinks(query) PROVE prefix = Len(forwarded)
  <2>1. PICK id \in Words, v \in Words, name \in QueryNames : IsQuery(query, id, v, name) BY AskedIsQuery DEF History
  <2>2. index \in Words BY PacketAssumption DEF History
  <2>3. IsReserialized(WithId(Parse(query), index), query, index, v, 0, 0, 0, name, <<>>)
    BY <2>1, <2>2, Reserialized DEF IsQuery
  <2>4. KeepsLength(query, name)
    <3>1. IsParsed(query, id, v, 0, 0, 0, name, <<>>) BY <2>1, PacketRead DEF IsQuery
    <3>2. QED BY <1>1, <3>1, WrittenFacts DEF IsParsed
  <2>5. Len(WithId(Parse(query), index)) = Len(query) BY <2>3, <2>4 DEF IsReserialized
  <2>6. QED BY <1>1, <2>5 DEF History
<1>2. ASSUME stage = "relayed", ~Shrinks(query) PROVE prefix = Len(reply)
  <2>1. PICK id \in Words, v \in Words, name \in QueryNames,
            u \in AnswerFlags, section \in AnswerSections, other \in Seq(Bytes) :
               IsRelayed(id, v, name, u, section, other)
    BY <1>2, RelayedIs
  <2>2. /\ IsQuestionName(query, name) /\ IsQuestionName(answer, other)
        /\ TextAt(query, 13) = TextAt(answer, 13)
    BY <2>1 DEF IsRelayed, IsParsed
  <2>3. IsName(name) /\ IsName(other) BY <2>1 DEF IsRelayed, IsQuery, IsAnswer, IsMadeOf
  <2>4. KeepsLength(query, name) BY <1>2, <2>2, WrittenFacts
  <2>5. KeepsLength(answer, other) BY <2>2, <2>3, <2>4, KeptForBoth
  <2>6. IsAnswer(answer, index, u, section, other) BY <2>1 DEF IsRelayed
  <2>7. IsReserialized(WithId(Parse(answer), id), answer, id, u, section.an, section.ns,
                       section.ar, other, section.records)
    BY <2>6, Reserialized DEF IsAnswer
  <2>8. Len(WithId(Parse(answer), id)) = Len(answer) BY <2>5, <2>7 DEF IsReserialized
  <2>9. QED BY <2>1, <2>8 DEF IsRelayed
<1>3. stage = "timedOut" => prefix = Len(reply) BY DEF History
<1>4. QED BY <1>1, <1>2, <1>3 DEF PrefixIsLength

-----------------------------------------------------------------------------
LEMMA HistoryServfail == History => ServfailTellsFailure
<1> SUFFICES ASSUME History, stage = "timedOut", Plain(query)
             PROVE  /\ ParseHeader(reply).id = Read16(query, 1)
                    /\ ParseHeader(reply).flags.qr = 1
                    /\ ParseHeader(reply).flags.ra = 1 /\ ParseHeader(reply).flags.rcode = 2
                    /\ ParseHeader(reply).ancount = 0 /\ ParseHeader(reply).nscount = 0
                    /\ ParseHeader(reply).arcount = 0
                    /\ Behind(12, reply) = Behind(12, query)
  BY DEF ServfailTellsFailure
<1>1. PICK id \in Words, v \in Words, name \in QueryNames : IsQuery(query, id, v, name) BY AskedIsQuery DEF History
<1>2. IsParsed(query, id, v, 0, 0, 0, name, <<>>) BY <1>1, PacketRead DEF IsQuery
<1>3. PICK junk \in Garbage : reply = Serialize(Servfail(Parse(query), junk)) BY DEF History
<1>4. PICK w \in Words, qd \in Words : junk = [word |-> w, qdcount |-> qd]
  <2>1. junk \in [word : Words, qdcount : Words] BY PacketAssumption
  <2>2. QED BY <2>1
<1>5. PICK f : IsServfail(reply, id, f, qd, query) BY <1>1, <1>3, <1>4, ServfailIs
<1> DEFINE H == HeaderBytes(id, f, qd, 0, 0, 0)
           Q == Question(name)
<1>6. Written(query) = Q BY <1>2, WrittenFacts DEF IsParsed
<1>7. reply = H \o Q BY <1>5, <1>6 DEF IsServfail
<1>8. Q \in Seq(Bytes) BY <1>1, QuestionFacts DEF IsQuery, IsMadeOf
<1>9. HeaderWords(id, f, 0, 0, 0)
  <2>1. 0 \in Words BY DEF Words
  <2>2. QED BY <1>5, <2>1 DEF HeaderWords, IsServfail, TellsFailure
<1>10. Bytes \subseteq Bytes OBVIOUS
<1>11. Of(H, Bytes, 12) BY <1>9, <1>10, HeaderBytesFacts
<1>12. IsHeader(ParseHeader(reply), id, f, qd, 0, 0, 0)
  <2>1. H \in Seq(Bytes) BY <1>11 DEF Of
  <2> HIDE DEF H, Q
  <2>2. Has(reply, Bytes, 0, H) BY <1>7, <1>8, <2>1, HasFront
  <2>3. Has(reply, Bytes, 0, HeaderBytes(id, f, qd, 0, 0, 0)) BY <2>2 DEF H
  <2>4. QED BY <1>9, <1>10, <2>3, HeaderBytesRead
<1>13. /\ ParseHeader(reply).id = id /\ ParseHeader(reply).flags = ParseFlags(f)
       /\ ParseHeader(reply).ancount = 0 /\ ParseHeader(reply).nscount = 0
       /\ ParseHeader(reply).arcount = 0
  BY <1>12 DEF IsHeader
<1>14. ParseFlags(f).qr = 1 /\ ParseFlags(f).ra = 1 /\ ParseFlags(f).rcode = 2
  BY <1>5 DEF IsServfail, TellsFailure
<1>15. Behind(12, reply) = Q
  <2> HIDE DEF H, Q
  <2>1. QED BY <1>7, <1>8, <1>11, BehindHeader
<1>16. Behind(12, query) = Q BY <1>1, QueryBehind
<1>17. Read16(query, 1) = id
  <2>1. Parse(query).header.id = id BY <1>1, ParsedId
  <2>2. Parse(query).header = ParseHeader(query) BY DEF Parse
  <2>3. ParseHeader(query).id = Read16(query, 1) BY DEF ParseHeader
  <2>4. QED BY <2>1, <2>2, <2>3
<1>18. QED BY <1>13, <1>14, <1>15, <1>16, <1>17

-----------------------------------------------------------------------------
LEMMA HistoryHolds == Spec => []History
<1>1. QED BY HistoryInit, HistoryNext, PTL DEF Spec

(* Whatever name, records and flags there are, the nameserver gets the       *)
(* client's bytes and the client the nameserver's with nothing but the id    *)
(* replaced, if the names of the questions are plain: parse followed by      *)
(* serialize loses nothing.                                                  *)
THEOREM BytesPassUnchanged == Spec => []Transparent
<1>1. QED BY HistoryHolds, HistoryTransparent, PTL

(* An answer whose parsed questions equal the query's has the query's        *)
(* question behind its header, byte for byte: the handlers' comparison lets  *)
(* no answer to another question through.                                    *)
THEOREM NoOtherQuestion == Spec => []OwnQuestionOnly
<1>1. QED BY HistoryHolds, HistoryOwnQuestion, PTL

(* The length the handlers put in front of a TCP message is the length of    *)
(* the message, if no byte of the query's name begins a pointer: for an      *)
(* answer too, whatever its name is.                                         *)
THEOREM PrefixesAreRight == Spec => []PrefixIsLength
<1>1. QED BY HistoryHolds, HistoryPrefix, PTL

(* A SERVFAIL carries the query's id and question, the flags of a failed     *)
(* response and no records, whatever the header's memory held.               *)
THEOREM FailureIsTold == Spec => []ServfailTellsFailure
<1>1. QED BY HistoryHolds, HistoryServfail, PTL
=============================================================================
