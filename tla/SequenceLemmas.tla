--------------------------- MODULE SequenceLemmas --------------------------
(***************************************************************************)
(* Facts about sequences that several proofs rest on: what push and pop do *)
(* to a std::queue, sequences put one behind the other, and functions      *)
(* defined by recursion, with the induction over numbers they need.        *)
(***************************************************************************)
EXTENDS Integers, SequencesExt, SequenceTheorems, WellFoundedInduction, TLAPS

(* Lengths and elements of a queue after a push. *)
LEMMA PushFacts ==
    ASSUME NEW S, NEW q \in Seq(S), NEW e \in S
    PROVE  /\ Append(q, e) \in Seq(S)
           /\ Len(Append(q, e)) = Len(q) + 1
           /\ Len(q) \in Nat
           /\ DOMAIN q = 1 .. Len(q)
           /\ DOMAIN Append(q, e) = 1 .. Len(q) + 1
           /\ \A n \in 1 .. Len(q) : Append(q, e)[n] = q[n]
           /\ Append(q, e)[Len(q) + 1] = e
BY AppendProperties, LenProperties

(* Lengths and elements of a queue after a pop. *)
LEMMA PopFacts ==
    ASSUME NEW S, NEW q \in Seq(S), q # <<>>
    PROVE  /\ Tail(q) \in Seq(S)
           /\ Head(q) \in S
           /\ Head(q) = q[1]
           /\ Len(q) \in Nat \ {0}
           /\ 1 \in DOMAIN q
           /\ DOMAIN q = 1 .. Len(q)
           /\ Len(Tail(q)) = Len(q) - 1
           /\ DOMAIN Tail(q) = 1 .. Len(q) - 1
           /\ \A n \in 1 .. Len(q) - 1 : Tail(q)[n] = q[n + 1]
BY HeadTailProperties, EmptySeq, LenProperties

(* An empty queue has length 0. *)
LEMMA EmptyFacts ==
    ASSUME NEW S, NEW q \in Seq(S)
    PROVE  Len(q) \in Nat /\ (q = <<>> <=> Len(q) = 0)
BY EmptySeq, LenProperties

(* The first element of a queue leaves it: the rest has the others, once each. *)
LEMMA DequeueFacts ==
    ASSUME NEW S, NEW q \in Seq(S), q # <<>>
    PROVE  /\ Head(q) \in S
           /\ Tail(q) \in Seq(S)
           /\ Head(q) \in Range(q)
           /\ Range(q) = Range(Tail(q)) \cup {Head(q)}
           /\ IsInjective(q) => IsInjective(Tail(q)) /\ Head(q) \notin Range(Tail(q))
<1>1. /\ Head(q) = q[1]
      /\ DOMAIN q = 1 .. Len(q)
      /\ Len(q) \in Nat \ {0}
  BY EmptySeq, LenProperties
<1>2. /\ Head(q) \in S
      /\ Tail(q) \in Seq(S)
      /\ DOMAIN Tail(q) = 1 .. (Len(q) - 1)
      /\ \A n \in 1 .. (Len(q) - 1) : Tail(q)[n] = q[n + 1]
  BY HeadTailProperties, LenProperties
<1>3. Head(q) \in Range(q)
  BY <1>1 DEF Range
<1>4. Range(q) = Range(Tail(q)) \cup {Head(q)}
  <2>1. ASSUME NEW n \in DOMAIN q PROVE q[n] \in Range(Tail(q)) \cup {Head(q)}
    <3>1. CASE n = 1 BY <3>1, <1>1
    <3>2. CASE n # 1
      <4>1. n - 1 \in DOMAIN Tail(q) /\ Tail(q)[n - 1] = q[n]
        BY <3>2, <1>1, <1>2
      <4>2. QED BY <4>1 DEF Range
    <3>3. QED BY <3>1, <3>2
  <2>2. ASSUME NEW n \in DOMAIN Tail(q) PROVE Tail(q)[n] \in Range(q)
    <3>1. n + 1 \in DOMAIN q /\ Tail(q)[n] = q[n + 1] BY <1>1, <1>2
    <3>2. QED BY <3>1 DEF Range
  <2>3. QED BY <2>1, <2>2, <1>3 DEF Range
<1>5. ASSUME IsInjective(q)
      PROVE  IsInjective(Tail(q)) /\ Head(q) \notin Range(Tail(q))
  <2>1. \A a, b \in 1 .. Len(q) : q[a] = q[b] => a = b
    BY <1>5, <1>1 DEF IsInjective
  <2>2. IsInjective(Tail(q))
    <3>1. SUFFICES ASSUME NEW a \in 1 .. (Len(q) - 1), NEW b \in 1 .. (Len(q) - 1),
                          Tail(q)[a] = Tail(q)[b]
                   PROVE  a = b
      BY <1>2 DEF IsInjective
    <3>2. a + 1 \in 1 .. Len(q) /\ b + 1 \in 1 .. Len(q) /\ q[a + 1] = q[b + 1]
      BY <3>1, <1>1, <1>2
    <3>3. QED BY <3>2, <2>1
  <2>3. ASSUME NEW n \in 1 .. (Len(q) - 1) PROVE Tail(q)[n] # q[1]
    <3>1. n + 1 \in 1 .. Len(q) /\ n + 1 # 1 /\ 1 \in 1 .. Len(q) BY <1>1
    <3>2. QED BY <3>1, <1>2, <2>1
  <2>4. QED BY <2>2, <2>3, <1>1, <1>2 DEF Range
<1>6. QED BY <1>2, <1>3, <1>4, <1>5

(* Pushing adds one element; it keeps a queue without repetitions so if the *)
(* element was not in it.                                                    *)
LEMMA EnqueueFacts ==
    ASSUME NEW S, NEW q \in Seq(S), NEW e \in S
    PROVE  /\ Append(q, e) \in Seq(S)
           /\ Range(Append(q, e)) = Range(q) \cup {e}
           /\ IsInjective(q) /\ e \notin Range(q) => IsInjective(Append(q, e))
<1>1. /\ Append(q, e) \in Seq(S)
      /\ DOMAIN q = 1 .. Len(q)
      /\ Len(q) \in Nat
      /\ DOMAIN Append(q, e) = 1 .. (Len(q) + 1)
      /\ \A n \in 1 .. Len(q) : Append(q, e)[n] = q[n]
      /\ Append(q, e)[Len(q) + 1] = e
  BY AppendProperties, LenProperties
<1>2. Range(Append(q, e)) = Range(q) \cup {e}
  <2>1. \A n \in 1 .. (Len(q) + 1) : n \in 1 .. Len(q) \/ n = Len(q) + 1
    BY <1>1
  <2>2. Len(q) + 1 \in 1 .. (Len(q) + 1) /\ 1 .. Len(q) \subseteq 1 .. (Len(q) + 1)
    BY <1>1
  <2>3. ASSUME NEW n \in 1 .. (Len(q) + 1)
        PROVE  Append(q, e)[n] \in Range(q) \cup {e}
    BY <1>1, <2>1 DEF Range
  <2>4. ASSUME NEW n \in 1 .. Len(q) PROVE q[n] \in Range(Append(q, e))
    BY <1>1, <2>2 DEF Range
  <2>5. e \in Range(Append(q, e)) BY <1>1, <2>2 DEF Range
  <2>6. QED BY <1>1, <2>3, <2>4, <2>5 DEF Range
<1>3. ASSUME IsInjective(q), e \notin Range(q) PROVE IsInjective(Append(q, e))
  <2>1. SUFFICES ASSUME NEW a \in 1 .. (Len(q) + 1), NEW b \in 1 .. (Len(q) + 1),
                        Append(q, e)[a] = Append(q, e)[b]
                 PROVE  a = b
    BY <1>1 DEF IsInjective
  <2>2. \A n \in 1 .. Len(q) : q[n] # e BY <1>1, <1>3 DEF Range
  <2>3. \A m, n \in 1 .. Len(q) : q[m] = q[n] => m = n
    BY <1>1, <1>3 DEF IsInjective
  <2>4. CASE a = Len(q) + 1 /\ b = Len(q) + 1 BY <2>4
  <2>5. CASE a # Len(q) + 1 /\ b = Len(q) + 1
    <3>1. a \in 1 .. Len(q) BY <2>5, <1>1
    <3>2. QED BY <3>1, <2>1, <2>2, <2>5, <1>1
  <2>6. CASE a = Len(q) + 1 /\ b # Len(q) + 1
    <3>1. b \in 1 .. Len(q) BY <2>6, <1>1
    <3>2. QED BY <3>1, <2>1, <2>2, <2>6, <1>1
  <2>7. CASE a # Len(q) + 1 /\ b # Len(q) + 1
    <3>1. a \in 1 .. Len(q) /\ b \in 1 .. Len(q) BY <2>7, <1>1
    <3>2. QED BY <3>1, <2>1, <2>3, <1>1
  <2>8. QED BY <2>4, <2>5, <2>6, <2>7
<1>4. QED BY <1>1, <1>2, <1>3

-----------------------------------------------------------------------------
(* Induction over the numbers, for a set instead of a predicate.             *)
LEMMA Least ==
    ASSUME NEW T \in SUBSET Nat, T # {}
    PROVE  \E x \in T : \A y \in T : x <= y
<1> DEFINE R == {p \in Nat \X Nat : p[1] < p[2]}
<1>1. IsWellFoundedOn(R, Nat) BY NatLessThanWellFounded DEF OpToRel
<1> HIDE DEF R
<1>2. PICK x \in T : \A y \in T : ~(<<y, x>> \in R) BY <1>1, WFMin
<1>3. ASSUME NEW y \in T PROVE x <= y
  <2>1. ~(y < x) BY <1>2 DEF R
  <2>2. QED BY <2>1
<1>4. QED BY <1>3

LEMMA SetInduction ==
    ASSUME NEW T, 0 \in T, \A n \in Nat : n \in T => n + 1 \in T
    PROVE  Nat \subseteq T
<1>1. SUFFICES ASSUME Nat \ T # {} PROVE FALSE OBVIOUS
<1>2. PICK x \in Nat \ T : \A y \in Nat \ T : x <= y BY <1>1, Least
<1>3. x - 1 \in Nat BY <1>2
<1>4. x - 1 \in T BY <1>2, <1>3
<1>5. QED BY <1>2, <1>3, <1>4

(* A function on D with values in V may be defined by recursion when each    *)
(* value uses at most one other, of a smaller rank: at i in P it is G[i] of  *)
(* the value at g[i], and base[i] elsewhere.                                 *)
IsRecursion(D, V, M, rank, P, g, base, G) ==
    /\ M \in Nat /\ rank \in [D -> 0 .. M]
    /\ P \in SUBSET D /\ g \in [P -> D] /\ \A i \in P : rank[g[i]] < rank[i]
    /\ base \in [D -> V] /\ G \in [P -> [V -> V]]

Recurs(f, D, V, P, g, base, G) ==
    f \in [D -> V] /\ \A i \in D : f[i] = IF i \in P THEN G[i][f[g[i]]] ELSE base[i]

LEMMA RecursiveFunction ==
    ASSUME NEW D, NEW V, NEW M, NEW rank, NEW P, NEW g, NEW base, NEW G,
           IsRecursion(D, V, M, rank, P, g, base, G)
    PROVE  \E f : Recurs(f, D, V, P, g, base, G)
<1> USE DEF IsRecursion
<1> DEFINE Upto(f, m) == \A i \in D : rank[i] < m => f[i] = IF i \in P THEN G[i][f[g[i]]] ELSE base[i]
           T == {m \in Nat : \E f \in [D -> V] : Upto(f, m)}
<1>1. 0 \in T
  <2>1. Upto(base, 0) OBVIOUS
  <2>2. QED BY <2>1
<1>2. ASSUME NEW m \in Nat, m \in T PROVE m + 1 \in T
  <2>1. PICK f \in [D -> V] : Upto(f, m) BY <1>2
  <2> DEFINE h == [i \in D |-> IF i \in P THEN G[i][f[g[i]]] ELSE base[i]]
  <2>2. h \in [D -> V] OBVIOUS
  <2>3. ASSUME NEW i \in D, rank[i] < m + 1 PROVE h[i] = IF i \in P THEN G[i][h[g[i]]] ELSE base[i]
    <3>1. CASE i \in P
      <4>1. g[i] \in D /\ rank[g[i]] < rank[i] /\ rank[g[i]] \in Nat /\ rank[i] \in Nat BY <3>1
      <4>2. rank[g[i]] < m BY <2>3, <4>1
      <4>3. f[g[i]] = h[g[i]] BY <2>1, <4>1, <4>2
      <4>4. QED BY <3>1, <4>3
    <3>2. CASE i \notin P BY <3>2
    <3>3. QED BY <3>1, <3>2
  <2>4. Upto(h, m + 1) BY <2>3
  <2> HIDE DEF h
  <2>5. QED BY <2>2, <2>4
<1>3. M + 1 \in T
  <2> HIDE DEF T
  <2>1. QED BY <1>1, <1>2, SetInduction
<1>4. PICK f \in [D -> V] : Upto(f, M + 1) BY <1>3
<1>5. \A i \in D : rank[i] < M + 1 OBVIOUS
<1>6. QED BY <1>4, <1>5 DEF Recurs

-----------------------------------------------------------------------------
(* g[n] is the first n sequences of F in one, for n up to m. *)
Flat(g, S, F, m) ==
    /\ g[0] = <<>>
    /\ \A n \in 0 .. m : g[n] \in Seq(S)
    /\ \A n \in 1 .. m : g[n] = g[n - 1] \o F[n]

(* There is such a function, whatever F is. *)
LEMMA FlatExists ==
    ASSUME NEW S, NEW F \in Seq(Seq(S))
    PROVE  \E g : Flat(g, S, F, Len(F))
<1>1. Len(F) \in Nat /\ \A n \in 1 .. Len(F) : F[n] \in Seq(S) BY LenProperties, ElementOfSeq
<1> DEFINE T == {m \in Nat : m <= Len(F) => \E g : Flat(g, S, F, m)}
<1>2. 0 \in T
  <2> DEFINE g == [n \in {0} |-> <<>>]
  <2>1. \A n \in 0 .. 0 : n = 0 OBVIOUS
  <2>2. g[0] = <<>> /\ <<>> \in Seq(S) BY EmptySeq
  <2> HIDE DEF g
  <2>3. 1 .. 0 = {} OBVIOUS
  <2>4. Flat(g, S, F, 0) BY <2>1, <2>2, <2>3 DEF Flat
  <2>5. QED BY <2>4
<1>3. ASSUME NEW m \in Nat, m \in T PROVE m + 1 \in T
  <2>1. SUFFICES ASSUME m + 1 <= Len(F) PROVE \E g : Flat(g, S, F, m + 1) OBVIOUS
  <2>2. PICK h : Flat(h, S, F, m) BY <1>1, <1>3, <2>1
  <2> DEFINE g == [n \in 0 .. m + 1 |-> IF n = m + 1 THEN h[m] \o F[m + 1] ELSE h[n]]
  <2> HIDE DEF T
  <2>3. \A n \in 0 .. m : g[n] = h[n] OBVIOUS
  <2>4. g[m + 1] = h[m] \o F[m + 1]
    <3>1. m + 1 \in 0 .. m + 1 OBVIOUS
    <3>2. QED BY <3>1
  <2> HIDE DEF g
  <2>5. g[m + 1] \in Seq(S)
    <3>1. h[m] \in Seq(S) /\ F[m + 1] \in Seq(S) BY <1>1, <2>1, <2>2 DEF Flat
    <3>2. QED BY <2>4, <3>1, ConcatProperties
  <2>6. \A n \in 0 .. m + 1 : n \in 0 .. m \/ n = m + 1 OBVIOUS
  <2>7. g[0] = <<>> BY <2>2, <2>3 DEF Flat
  <2>8. \A n \in 0 .. m + 1 : g[n] \in Seq(S) BY <2>2, <2>3, <2>5, <2>6 DEF Flat
  <2>9. ASSUME NEW n \in 1 .. m + 1 PROVE g[n] = g[n - 1] \o F[n]
    <3>1. n - 1 \in 0 .. m OBVIOUS
    <3>2. CASE n = m + 1
      <4>1. n - 1 = m /\ m \in 0 .. m BY <3>2
      <4>2. QED BY <2>3, <2>4, <3>2, <4>1
    <3>3. CASE n # m + 1
      <4>1. n \in 1 .. m BY <3>3
      <4>2. g[n] = h[n] /\ g[n - 1] = h[n - 1] BY <2>3, <3>1, <4>1
      <4>3. QED BY <2>2, <4>1, <4>2 DEF Flat
    <3>4. QED BY <3>2, <3>3
  <2>10. Flat(g, S, F, m + 1) BY <2>7, <2>8, <2>9 DEF Flat
  <2>11. QED BY <2>10
<1> HIDE DEF T
<1>4. Len(F) \in T BY <1>1, <1>2, <1>3, SetInduction
<1>5. QED BY <1>1, <1>4 DEF T

(* FlattenSeq computes it. *)
LEMMA FlattenIsFlat ==
    ASSUME NEW S, NEW F \in Seq(Seq(S)), NEW g, Flat(g, S, F, Len(F))
    PROVE  FlattenSeq(F) = g[Len(F)]
<1>1. Len(F) \in Nat /\ \A n \in 1 .. Len(F) : F[n] \in Seq(S) BY LenProperties, ElementOfSeq
<1>2. CASE Len(F) = 0
  <2>1. F = <<>> BY <1>2, EmptySeq, LenProperties
  <2>2. FlattenSeq(F) = F BY <1>2 DEF FlattenSeq
  <2>3. QED BY <1>2, <2>1, <2>2 DEF Flat
<1>3. CASE Len(F) # 0
  <2> DEFINE Eq(f) == f = [n \in 1 .. Len(F) |-> IF n = 1 THEN F[n] ELSE f[n - 1] \o F[n]]
             h == [n \in 1 .. Len(F) |-> g[n]]
             e == CHOOSE f : Eq(f)
             T == {n \in Nat : n + 1 <= Len(F) => e[n + 1] = g[n + 1]}
  <2>1. g[1] = F[1]
    <3>1. 1 \in 1 .. Len(F) /\ F[1] \in Seq(S) BY <1>1, <1>3
    <3>2. g[1] = g[1 - 1] \o F[1] BY <3>1 DEF Flat
    <3>3. g[1 - 1] = <<>> BY DEF Flat
    <3>4. QED BY <3>1, <3>2, <3>3, ConcatEmptySeq
  <2>2. Eq(h)
    <3>1. \A n \in 1 .. Len(F) : h[n] = IF n = 1 THEN F[n] ELSE h[n - 1] \o F[n]
      <4>1. SUFFICES ASSUME NEW n \in 1 .. Len(F), n # 1 PROVE h[n] = h[n - 1] \o F[n] BY <2>1
      <4>2. n - 1 \in 1 .. Len(F) BY <1>1, <4>1
      <4>3. h[n - 1] = g[n - 1] BY <4>2
      <4>4. g[n] = g[n - 1] \o F[n] BY <4>1 DEF Flat
      <4>5. QED BY <4>1, <4>3, <4>4
    <3>2. h = [n \in 1 .. Len(F) |-> h[n]] OBVIOUS
    <3> HIDE DEF h
    <3>3. QED BY <3>1, <3>2
  <2>3. Eq(e)
    <3> HIDE DEF Eq, h
    <3>1. QED BY <2>2
  <2>4. FlattenSeq(F) = e[Len(F)] BY <1>3 DEF FlattenSeq
  <2>5. \A n \in 1 .. Len(F) : e[n] = IF n = 1 THEN F[n] ELSE e[n - 1] \o F[n]
    <3> HIDE DEF e, h
    <3>1. QED BY <2>3
  <2> HIDE DEF e, h, Eq
  <2>6. 0 \in T
    <3>1. 1 \in 1 .. Len(F) BY <1>1, <1>3
    <3>2. QED BY <2>1, <2>5, <3>1
  <2>7. ASSUME NEW n \in Nat, n \in T PROVE n + 1 \in T
    <3>1. SUFFICES ASSUME n + 2 <= Len(F) PROVE e[n + 2] = g[n + 2] OBVIOUS
    <3>2. n + 2 \in 1 .. Len(F) /\ n + 2 # 1 /\ (n + 2) - 1 = n + 1 BY <1>1, <3>1
    <3>3. e[n + 1] = g[n + 1] BY <1>1, <2>7, <3>1
    <3>4. e[n + 2] = e[n + 1] \o F[n + 2] BY <2>5, <3>2
    <3>5. g[n + 2] = g[n + 1] \o F[n + 2] BY <3>2 DEF Flat
    <3>6. QED BY <3>3, <3>4, <3>5
  <2> HIDE DEF T
  <2>8. Len(F) - 1 \in T
    <3>1. Nat \subseteq T BY <2>6, <2>7, SetInduction
    <3>2. QED BY <1>1, <1>3, <3>1
  <2>9. e[Len(F)] = g[Len(F)] BY <1>1, <2>8 DEF T
  <2>10. QED BY <2>4, <2>9
<1>4. QED BY <1>2, <1>3

-----------------------------------------------------------------------------
(* c is a with b behind it. *)
IsJoin(c, S, a, b) ==
    /\ c \in Seq(S) /\ a \in Seq(S) /\ b \in Seq(S)
    /\ Len(a) \in Nat /\ Len(b) \in Nat /\ Len(c) = Len(a) + Len(b)
    /\ \A k \in 1 .. Len(a) : c[k] = a[k]
    /\ \A k \in 1 .. Len(b) : c[Len(a) + k] = b[k]
    /\ SubSeq(c, 1, Len(a)) = a
    /\ SubSeq(c, Len(a) + 1, Len(c)) = b

LEMMA JoinFacts ==
    ASSUME NEW S, NEW a \in Seq(S), NEW b \in Seq(S)
    PROVE  IsJoin(a \o b, S, a, b)
<1> DEFINE c == a \o b
<1>1. Len(a) \in Nat /\ Len(b) \in Nat BY LenProperties
<1>2. /\ c \in Seq(S) /\ Len(c) = Len(a) + Len(b)
      /\ \A k \in 1 .. Len(a) + Len(b) : c[k] = IF k <= Len(a) THEN a[k] ELSE b[k - Len(a)]
  BY ConcatProperties
<1> HIDE DEF c
<1>3. \A k \in 1 .. Len(a) : c[k] = a[k] BY <1>1, <1>2
<1>4. ASSUME NEW k \in 1 .. Len(b) PROVE c[Len(a) + k] = b[k]
  <2>1. Len(a) + k \in 1 .. Len(a) + Len(b) /\ ~(Len(a) + k <= Len(a)) /\ Len(a) + k - Len(a) = k
    BY <1>1
  <2>2. QED BY <1>2, <2>1
<1>5. \A k \in 1 .. Len(c) : c[k] \in S BY <1>2, ElementOfSeq
<1>6. SubSeq(c, 1, Len(a)) = a
  <2> DEFINE d == SubSeq(c, 1, Len(a))
  <2>1. \A k \in 1 .. Len(a) : c[k] \in S BY <1>1, <1>2, <1>5
  <2>2. /\ d \in Seq(S) /\ Len(d) = IF 1 <= Len(a) THEN Len(a) - 1 + 1 ELSE 0
        /\ \A k \in 1 .. Len(a) - 1 + 1 : d[k] = c[1 + k - 1]
    BY <1>1, <2>1, SubSeqProperties
  <2> HIDE DEF d
  <2>3. Len(d) = Len(a) /\ \A k \in 1 .. Len(a) : d[k] = c[k] BY <1>1, <2>2
  <2>4. d = a BY <1>3, <2>2, <2>3, SeqEqual
  <2>5. QED BY <2>4 DEF d
<1>7. SubSeq(c, Len(a) + 1, Len(c)) = b
  <2> DEFINE m == Len(a) + 1
             d == SubSeq(c, m, Len(c))
  <2>1. m \in Int /\ m >= 1 /\ Len(c) \in Nat /\ Len(c) - m + 1 = Len(b)
        /\ (m <= Len(c) \/ Len(b) = 0)
    BY <1>1, <1>2
  <2>2. \A k \in m .. Len(c) : c[k] \in S BY <1>5, <2>1
  <2>3. \A k \in 1 .. Len(b) : c[m + k - 1] = b[k]
    <3>1. \A k \in 1 .. Len(b) : m + k - 1 = Len(a) + k BY <1>1
    <3>2. QED BY <1>4, <3>1
  <2> HIDE DEF m
  <2>4. /\ d \in Seq(S) /\ Len(d) = IF m <= Len(c) THEN Len(c) - m + 1 ELSE 0
        /\ \A k \in 1 .. Len(c) - m + 1 : d[k] = c[m + k - 1]
    BY <2>1, <2>2, SubSeqProperties
  <2> HIDE DEF d
  <2>5. Len(d) = Len(b) /\ \A k \in 1 .. Len(b) : d[k] = b[k] BY <1>1, <2>1, <2>3, <2>4
  <2>6. d = b BY <2>4, <2>5, SeqEqual
  <2>7. QED BY <2>6 DEF d, m
<1>8. IsJoin(c, S, a, b) BY <1>1, <1>2, <1>3, <1>4, <1>6, <1>7 DEF IsJoin
<1>9. QED BY <1>8 DEF c
=============================================================================
