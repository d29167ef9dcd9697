-------------------------- MODULE UdpSocketProofs --------------------------
(***************************************************************************)
(* What holds of UdpSocket for every number of workers and datagrams and   *)
(* every size of the kernel's buffer.                                      *)
(***************************************************************************)
EXTENDS UdpSocket, SequenceLemmas

(* A worker that is about to push has a datagram to push. *)
HoldsBeforePush == \A w \in Workers : pc[w] = "push" => held[w] \in Datagrams

Typed == TypeOK /\ HoldsBeforePush

IInv == Typed /\ EachDatagramOnce

PlaceNames == {"todo", "held", "queue", "buffer", "sent", "lost"}

InOnePlace(P) ==
    \A d \in Datagrams : \E p \in PlaceNames : \A o \in PlaceNames : d \in P[o] <=> o = p

-----------------------------------------------------------------------------
(* The initial state has the types. *)
LEMMA TypedInit == Init => Typed
<1>1. <<>> \in Seq(Datagrams) BY EmptySeq
<1>2. QED BY <1>1 DEF Init, Typed, TypeOK, HoldsBeforePush

(* Every step keeps the types. *)
LEMMA TypedStep == Typed /\ [Next]_vars => Typed'
<1>1. SUFFICES ASSUME Typed, [Next]_vars PROVE Typed' OBVIOUS
<1> USE <1>1 DEF Typed, TypeOK, HoldsBeforePush
<1>2. ASSUME NEW w \in Workers, NEW d \in Datagrams, Send(w, d) PROVE Typed'
  BY <1>2 DEF Send
<1>3. ASSUME NEW w \in Workers, NEW d \in Datagrams, SendBlocked(w, d) PROVE Typed'
  BY <1>3 DEF SendBlocked
<1>4. ASSUME NEW w \in Workers, NEW d \in Datagrams, SendThrows(w, d) PROVE Typed'
  BY <1>4 DEF SendThrows
<1>5. ASSUME NEW w \in Workers, Push(w) PROVE Typed'
  <2>1. Append(queue, held[w]) \in Seq(Datagrams) BY <1>5, EnqueueFacts DEF Push
  <2>2. QED BY <1>5, <2>1 DEF Push
<1>6. ASSUME NEW w \in Workers, Arm(w) PROVE Typed' BY <1>6 DEF Arm
<1>7. CASE Report BY <1>7 DEF Report
<1>8. CASE Lock BY <1>8 DEF Lock
<1>9. CASE FlushOne
  <2>1. Head(queue) \in Datagrams /\ Tail(queue) \in Seq(Datagrams)
    BY <1>9, DequeueFacts DEF FlushOne
  <2>2. QED BY <1>9, <2>1 DEF FlushOne
<1>10. CASE FlushBlocked BY <1>10 DEF FlushBlocked
<1>11. CASE FlushThrows BY <1>11 DEF FlushThrows
<1>12. CASE FlushEmpty BY <1>12 DEF FlushEmpty
<1>13. CASE DropInterest BY <1>13 DEF DropInterest
<1>14. ASSUME NEW d \in Datagrams, Transmit(d) PROVE Typed' BY <1>14 DEF Transmit, Writable
<1>15. CASE DatagramArrives BY <1>15 DEF DatagramArrives
<1>16. CASE UNCHANGED vars BY <1>16 DEF vars
<1>17. QED
  BY <1>2, <1>3, <1>4, <1>5, <1>6, <1>7, <1>8, <1>9, <1>10, <1>11, <1>12, <1>13, <1>14,
     <1>15, <1>16 DEF Next, Handler, MainStep, Flush

(* Every variable of UdpSocket keeps its type. *)
THEOREM TypeCorrect == Spec => []TypeOK
<1>1. Typed => TypeOK BY DEF Typed
<1>2. QED BY TypedInit, TypedStep, <1>1, PTL DEF Spec

-----------------------------------------------------------------------------
(* The places and what is in them. *)
LEMMA PlacesFacts ==
    /\ DOMAIN Places = PlaceNames
    /\ Places["todo"] = todo
    /\ Places["held"] = {held[w] : w \in {v \in Workers : pc[v] = "push"}}
    /\ Places["queue"] = Range(queue)
    /\ Places["buffer"] = buffer
    /\ Places["sent"] = sent
    /\ Places["lost"] = lost
BY DEF Places, PlaceNames

(* The same after a step. *)
LEMMA PlacesFactsNext ==
    /\ DOMAIN Places' = PlaceNames
    /\ Places'["todo"] = todo'
    /\ Places'["held"] = {held'[w] : w \in {v \in Workers : pc'[v] = "push"}}
    /\ Places'["queue"] = Range(queue')
    /\ Places'["buffer"] = buffer'
    /\ Places'["sent"] = sent'
    /\ Places'["lost"] = lost'
BY DEF Places, PlaceNames

(* A place whose variables do not change keeps its datagrams. *)
LEMMA PlacesSame ==
    /\ todo' = todo => Places'["todo"] = Places["todo"]
    /\ held' = held /\ pc' = pc => Places'["held"] = Places["held"]
    /\ queue' = queue => Places'["queue"] = Places["queue"]
    /\ buffer' = buffer => Places'["buffer"] = Places["buffer"]
    /\ sent' = sent => Places'["sent"] = Places["sent"]
    /\ lost' = lost => Places'["lost"] = Places["lost"]
BY PlacesFacts, PlacesFactsNext

(* Moving one datagram from one place to another leaves each in one place.   *)
LEMMA MoveKeepsOnePlace ==
    ASSUME NEW P, NEW Q, NEW x \in Datagrams,
           NEW a \in PlaceNames, NEW b \in PlaceNames, a # b,
           InOnePlace(P), x \in P[a],
           Q[a] = P[a] \ {x}, Q[b] = P[b] \cup {x},
           \A o \in PlaceNames \ {a, b} : Q[o] = P[o]
    PROVE  InOnePlace(Q)
<1>1. SUFFICES ASSUME NEW d \in Datagrams
               PROVE  \E p \in PlaceNames : \A o \in PlaceNames : d \in Q[o] <=> o = p
  BY DEF InOnePlace
<1>2. PICK p \in PlaceNames : \A o \in PlaceNames : d \in P[o] <=> o = p
  BY DEF InOnePlace
<1>3. CASE d = x
  <2>1. p = a BY <1>2, <1>3
  <2>2. \A o \in PlaceNames : d \in Q[o] <=> o = b BY <1>2, <1>3, <2>1
  <2>3. QED BY <2>2
<1>4. CASE d # x
  <2>1. \A o \in PlaceNames : d \in Q[o] <=> d \in P[o] BY <1>4
  <2>2. QED BY <1>2, <2>1
<1>5. QED BY <1>3, <1>4

(* The invariant in terms of InOnePlace. *)
LEMMA OnceFacts ==
    EachDatagramOnce <=>
        /\ IsInjective(queue)
        /\ \A v, w \in Workers :
              pc[v] = "push" /\ pc[w] = "push" /\ held[v] = held[w] => v = w
        /\ InOnePlace(Places)
BY PlacesFacts DEF EachDatagramOnce, InOnePlace

(* The same after a step. *)
LEMMA OnceFactsNext ==
    EachDatagramOnce' <=>
        /\ IsInjective(queue')
        /\ \A v, w \in Workers :
              pc'[v] = "push" /\ pc'[w] = "push" /\ held'[v] = held'[w] => v = w
        /\ InOnePlace(Places')
BY PlacesFactsNext DEF EachDatagramOnce, InOnePlace

(* A failed sendto puts one datagram in a worker's hand. *)
LEMMA HeldAfterBlocked ==
    ASSUME Typed, NEW w \in Workers, NEW d \in Datagrams, SendBlocked(w, d)
    PROVE  Places'["held"] = Places["held"] \cup {d}
<1>1. /\ pc'[w] = "push" /\ held'[w] = d /\ pc[w] # "push"
      /\ \A v \in Workers \ {w} : pc'[v] = pc[v] /\ held'[v] = held[v]
  BY DEF SendBlocked, Typed, TypeOK
<1>2. QED BY <1>1, PlacesFacts, PlacesFactsNext

(* A push takes it out, and no other worker has the same. *)
LEMMA HeldAfterPush ==
    ASSUME Typed, EachDatagramOnce, NEW w \in Workers, Push(w)
    PROVE  Places'["held"] = Places["held"] \ {held[w]}
<1>1. /\ pc[w] = "push" /\ pc'[w] # "push"
      /\ \A v \in Workers \ {w} : pc'[v] = pc[v] /\ held'[v] = held[v]
  BY DEF Push, Typed, TypeOK
<1>2. \A v \in Workers : pc[v] = "push" /\ held[v] = held[w] => v = w
  BY <1>1 DEF EachDatagramOnce
<1>3. QED BY <1>1, <1>2, PlacesFacts, PlacesFactsNext

(* A step that moves no datagram keeps each in its place. *)
LEMMA OnceSame ==
    ASSUME EachDatagramOnce, UNCHANGED <<todo, held, queue, buffer, sent, lost>>,
           \A w \in Workers : pc'[w] = "push" <=> pc[w] = "push"
    PROVE  EachDatagramOnce'
<1>1. Places' = Places
  <2>1. {w \in Workers : pc'[w] = "push"} = {w \in Workers : pc[w] = "push"} OBVIOUS
  <2>2. QED BY <2>1 DEF Places
<1>2. QED BY <1>1, OnceFacts, OnceFactsNext

-----------------------------------------------------------------------------
(* Every step that moves a datagram moves one. *)
LEMMA OnceStep == Typed /\ EachDatagramOnce /\ [Next]_vars => EachDatagramOnce'
<1>1. SUFFICES ASSUME Typed, EachDatagramOnce, [Next]_vars PROVE EachDatagramOnce' OBVIOUS
<1>2. /\ IsInjective(queue)
      /\ \A v, w \in Workers :
            pc[v] = "push" /\ pc[w] = "push" /\ held[v] = held[w] => v = w
      /\ InOnePlace(Places)
  BY <1>1, OnceFacts
<1> USE <1>1 DEF Typed, TypeOK
<1>3. ASSUME NEW w \in Workers, NEW d \in Datagrams, Send(w, d) PROVE EachDatagramOnce'
  <2>1. InOnePlace(Places')
    <3>1. d \in Places["todo"] /\ Places'["todo"] = Places["todo"] \ {d}
      BY <1>3, PlacesFacts, PlacesFactsNext DEF Send
    <3>2. Places'["buffer"] = Places["buffer"] \cup {d}
      BY <1>3, PlacesFacts, PlacesFactsNext DEF Send
    <3>3. held' = held /\ pc' = pc /\ queue' = queue /\ sent' = sent /\ lost' = lost
      BY <1>3 DEF Send
    <3>4. \A o \in PlaceNames \ {"todo", "buffer"} : Places'[o] = Places[o]
      BY <3>3, PlacesSame DEF PlaceNames
    <3>5. QED BY <1>2, <3>1, <3>2, <3>4, MoveKeepsOnePlace DEF PlaceNames
  <2>2. QED BY <1>2, <1>3, <2>1, OnceFactsNext DEF Send
<1>4. ASSUME NEW w \in Workers, NEW d \in Datagrams, SendBlocked(w, d)
      PROVE  EachDatagramOnce'
  <2>1. InOnePlace(Places')
    <3>1. /\ Places["todo"] = todo /\ d \in todo
          /\ Places'["todo"] = Places["todo"] \ {d}
          /\ \A o \in PlaceNames \ {"todo", "held"} : Places'[o] = Places[o]
      BY <1>4, PlacesFacts, PlacesFactsNext DEF SendBlocked, PlaceNames
    <3>2. Places'["held"] = Places["held"] \cup {d} BY <1>1, <1>4, HeldAfterBlocked
    <3>3. QED BY <1>2, <3>1, <3>2, MoveKeepsOnePlace DEF PlaceNames
  <2>2. ASSUME NEW v \in Workers, pc[v] = "push" PROVE held[v] # d
    <3>1. d \in Places["todo"] /\ held[v] \in Places["held"] BY <1>4, <2>2, PlacesFacts DEF SendBlocked
    <3>2. QED BY <1>2, <3>1 DEF InOnePlace, PlaceNames
  <2>3. ASSUME NEW u \in Workers, NEW v \in Workers,
               pc'[u] = "push", pc'[v] = "push", held'[u] = held'[v]
        PROVE  u = v
    <3>1. \A v_1 \in Workers \ {w} : pc'[v_1] = pc[v_1] /\ held'[v_1] = held[v_1]
      BY <1>4 DEF SendBlocked
    <3>2. held'[w] = d BY <1>4 DEF SendBlocked
    <3>3. QED BY <1>2, <2>2, <2>3, <3>1, <3>2
  <2>4. QED BY <1>2, <1>4, <2>1, <2>3, OnceFactsNext DEF SendBlocked
<1>5. ASSUME NEW w \in Workers, NEW d \in Datagrams, SendThrows(w, d)
      PROVE  EachDatagramOnce'
  <2>1. InOnePlace(Places')
    <3>1. d \in Places["todo"] /\ Places'["todo"] = Places["todo"] \ {d}
      BY <1>5, PlacesFacts, PlacesFactsNext DEF SendThrows
    <3>2. Places'["lost"] = Places["lost"] \cup {d}
      BY <1>5, PlacesFacts, PlacesFactsNext DEF SendThrows
    <3>3. held' = held /\ pc' = pc /\ queue' = queue /\ buffer' = buffer /\ sent' = sent
      BY <1>5 DEF SendThrows
    <3>4. \A o \in PlaceNames \ {"todo", "lost"} : Places'[o] = Places[o]
      BY <3>3, PlacesSame DEF PlaceNames
    <3>5. QED BY <1>2, <3>1, <3>2, <3>4, MoveKeepsOnePlace DEF PlaceNames
  <2>2. QED BY <1>2, <1>5, <2>1, OnceFactsNext DEF SendThrows
<1>6. ASSUME NEW w \in Workers, Push(w) PROVE EachDatagramOnce'
  <2>1. pc[w] = "push" /\ held[w] \in Datagrams /\ queue' = Append(queue, held[w])
    BY <1>6 DEF Push, HoldsBeforePush
  <2>2. held[w] \in Places["held"] /\ held[w] \notin Places["queue"]
    <3>1. held[w] \in Places["held"] BY <2>1, PlacesFacts
    <3>2. QED BY <1>2, <2>1, <3>1 DEF InOnePlace, PlaceNames
  <2>3. Range(queue') = Range(queue) \cup {held[w]} /\ IsInjective(queue')
    BY <1>2, <2>1, <2>2, PlacesFacts, EnqueueFacts
  <2>4. InOnePlace(Places')
    <3>1. Places'["held"] = Places["held"] \ {held[w]} BY <1>1, <1>6, HeldAfterPush
    <3>2. /\ Places'["queue"] = Places["queue"] \cup {held[w]}
          /\ \A o \in PlaceNames \ {"held", "queue"} : Places'[o] = Places[o]
      BY <1>6, <2>3, PlacesFacts, PlacesFactsNext DEF Push, PlaceNames
    <3>3. QED BY <1>2, <2>1, <2>2, <3>1, <3>2, MoveKeepsOnePlace DEF PlaceNames
  <2>5. ASSUME NEW u \in Workers, NEW v \in Workers,
               pc'[u] = "push", pc'[v] = "push", held'[u] = held'[v]
        PROVE  u = v
    <3>1. pc'[w] # "push" /\ \A x \in Workers \ {w} : pc'[x] = pc[x] /\ held'[x] = held[x]
      BY <1>6 DEF Push
    <3>2. QED BY <1>2, <2>5, <3>1
  <2>6. QED BY <2>3, <2>4, <2>5, OnceFactsNext
<1>7. CASE FlushOne
  <2>1. /\ Head(queue) \in Datagrams
        /\ Range(queue') = Range(queue) \ {Head(queue)}
        /\ Head(queue) \in Range(queue)
        /\ IsInjective(queue')
    BY <1>2, <1>7, DequeueFacts DEF FlushOne
  <2>2. InOnePlace(Places')
    <3>1. Head(queue) \in Places["queue"] /\ Places'["queue"] = Places["queue"] \ {Head(queue)}
      BY <1>7, <2>1, PlacesFacts, PlacesFactsNext DEF FlushOne
    <3>2. Places'["buffer"] = Places["buffer"] \cup {Head(queue)}
      BY <1>7, PlacesFacts, PlacesFactsNext DEF FlushOne
    <3>3. todo' = todo /\ held' = held /\ pc' = pc /\ sent' = sent /\ lost' = lost
      BY <1>7 DEF FlushOne
    <3>4. \A o \in PlaceNames \ {"queue", "buffer"} : Places'[o] = Places[o]
      BY <3>3, PlacesSame DEF PlaceNames
    <3>5. QED BY <1>2, <2>1, <3>1, <3>2, <3>4, MoveKeepsOnePlace DEF PlaceNames
  <2>3. QED BY <1>2, <1>7, <2>1, <2>2, OnceFactsNext DEF FlushOne
<1>8. ASSUME NEW d \in Datagrams, Transmit(d) PROVE EachDatagramOnce'
  <2>1. InOnePlace(Places')
    <3>1. d \in Places["buffer"] /\ Places'["buffer"] = Places["buffer"] \ {d}
      BY <1>8, PlacesFacts, PlacesFactsNext DEF Transmit
    <3>2. Places'["sent"] = Places["sent"] \cup {d}
      BY <1>8, PlacesFacts, PlacesFactsNext DEF Transmit
    <3>3. todo' = todo /\ held' = held /\ pc' = pc /\ queue' = queue /\ lost' = lost
      BY <1>8 DEF Transmit
    <3>4. \A o \in PlaceNames \ {"buffer", "sent"} : Places'[o] = Places[o]
      BY <3>3, PlacesSame DEF PlaceNames
    <3>5. QED BY <1>2, <3>1, <3>2, <3>4, MoveKeepsOnePlace DEF PlaceNames
  <2>2. QED BY <1>2, <1>8, <2>1, OnceFactsNext DEF Transmit
<1>9. ASSUME NEW w \in Workers, Arm(w) PROVE EachDatagramOnce' BY <1>9, OnceSame DEF Arm
<1>10. CASE MainStep /\ ~FlushOne
  BY <1>10, OnceSame
     DEF MainStep, Flush, Report, Lock, FlushBlocked, FlushThrows, FlushEmpty, DropInterest
<1>11. CASE DatagramArrives BY <1>11, OnceSame DEF DatagramArrives
<1>12. CASE UNCHANGED vars BY <1>12, OnceSame DEF vars
<1>13. QED
  BY <1>3, <1>4, <1>5, <1>6, <1>7, <1>8, <1>9, <1>10, <1>11, <1>12 DEF Next, Handler, MainStep, Flush

(* At first every datagram is still to be sent. *)
LEMMA OnceInit == Init => EachDatagramOnce
<1>1. SUFFICES ASSUME Init PROVE EachDatagramOnce OBVIOUS
<1>2. queue = <<>> /\ DOMAIN queue = {} /\ Range(queue) = {} BY <1>1, EmptySeq DEF Init, Range
<1>3. \A w \in Workers : pc[w] # "push" BY <1>1 DEF Init
<1>4. InOnePlace(Places)
  <2>1. \A d \in Datagrams : \A o \in PlaceNames : d \in Places[o] <=> o = "todo"
    BY <1>1, <1>2, <1>3, PlacesFacts DEF Init, PlaceNames
  <2>2. QED BY <2>1 DEF InOnePlace, PlaceNames
<1>5. IsInjective(queue) BY <1>2 DEF IsInjective
<1>6. QED BY <1>3, <1>4, <1>5, OnceFacts

(* Whatever the interleaving of workers, flushes and exceptions, each datagram *)
(* is in one place and is never queued or sent twice.                          *)
THEOREM SentOnce == Spec => []EachDatagramOnce
<1>1. IInv => EachDatagramOnce BY DEF IInv
<1>2. Init => IInv BY TypedInit, OnceInit DEF IInv
<1>3. IInv /\ [Next]_vars => IInv' BY TypedStep, OnceStep DEF IInv
<1>4. QED BY <1>1, <1>2, <1>3, PTL DEF Spec
=============================================================================
