--------------------------- MODULE UdpRelayProofs ---------------------------
(***************************************************************************)
(* What holds of UdpRelay for every number of workers, queries, nameservers*)
(* and indices.                                                            *)
(***************************************************************************)
EXTENDS UdpRelay, SequenceLemmas

ServerLabels == {"srvRecv", "srvPut", "srvPush", "srvSize", "srvArm", "srvSend"}
ClientLabels == {"cliRecv", "cliHas", "cliGet", "cliDel", "cliSend"}

(* What a handler's locals hold at each step; a timer in its hand belongs to *)
(* a query with an index.                                                    *)
HeldBy(w) ==
    /\ pc[w] \in ServerLabels \cup ClientLabels => fam[w] \in Families
    /\ pc[w] \in ServerLabels \ {"srvRecv"} => task[w] \in Queries
    /\ pc[w] \in ServerLabels \ {"srvRecv", "srvPut"} => index[task[w]] \in Indices
    /\ pc[w] \in ClientLabels \ {"cliRecv"} => packet[w] \in Packets
    /\ pc[w] \in {"cliDel", "cliSend", "tmoDel", "tmoSend"} => task[w] \in Queries
    /\ pc[w] \in {"tmoHas", "tmoGet", "tmoDel", "tickOn"} => timer[w] \in Queries
    /\ pc[w] \in {"tmoHas", "tmoGet", "tmoDel"} => index[timer[w]] \in Indices

Held == \A w \in Workers : HeldBy(w)

(* So does a timer in the heap. *)
HeapIndexed == \A q \in heap : index[q] \in Indices

Typed == TypeOK /\ Held /\ HeapIndexed

(* UdpClientRecvHandler goes on only with a task whose question it compared. *)
Compared ==
    \A w \in Workers :
        pc[w] \in {"cliDel", "cliSend"} => QuestionOf[task[w]] = packet[w].question

(* A datagram not yet made a task is in one place and has no index.          *)
Fresh ==
    /\ \A q \in Queries : index[q] # NoIndex => q \in sent
    /\ \A f \in Families : \A n \in DOMAIN serverSock[f] :
          serverSock[f][n] \in sent /\ index[serverSock[f][n]] = NoIndex
    /\ \A f, g \in Families : \A n \in DOMAIN serverSock[f] : \A m \in DOMAIN serverSock[g] :
          serverSock[f][n] = serverSock[g][m] => f = g /\ n = m
    /\ \A w \in Workers : pc[w] = "srvPut" =>
          /\ task[w] \in sent /\ index[task[w]] = NoIndex
          /\ \A f \in Families : \A n \in DOMAIN serverSock[f] : serverSock[f][n] # task[w]
    /\ \A v, w \in Workers :
          pc[v] = "srvPut" /\ pc[w] = "srvPut" /\ task[v] = task[w] => v = w

(* A task is registered under its own index only. *)
UnderItsIndex == \A i \in Indices : pool[i] # NoQuery => index[pool[i]] = i

Served == Typed /\ Fresh /\ UnderItsIndex /\ PendingHasTimer

-----------------------------------------------------------------------------
(* What Run enqueues for an event are jobs. *)
LEMMA JobsForEvent == ASSUME NEW e \in Events PROVE JobsFor(e) \in Seq(Jobs)
<1>1. CASE e[1] = "alarm"
  <2>1. <<"udpTimeout", NoFamily>> \in Jobs /\ <<"tcpTimeout", NoFamily>> \in Jobs BY DEF Jobs
  <2>2. QED BY <1>1, <2>1 DEF JobsFor
<1>2. CASE e[1] # "alarm"
  <2>1. e \in Jobs BY <1>2 DEF Events, Jobs
  <2>2. QED BY <1>2, <2>1 DEF JobsFor
<1>3. QED BY <1>1, <1>2

(* The handler a job runs starts where its socket's family is known. *)
LEMMA FirstStepOfJob ==
    ASSUME NEW j \in Jobs
    PROVE  /\ FirstStep[j[1]] \in {"srvRecv", "cliRecv", "tmoNow", "tickOff"}
           /\ FirstStep[j[1]] \in {"srvRecv", "cliRecv"} => j[2] \in Families
           /\ j[2] \in Families \cup {NoFamily}
BY DEF Jobs, FirstStep

-----------------------------------------------------------------------------
(* The type invariant, by the groups of variables that change together. *)
TypedNet ==
    /\ sent \subseteq Queries
    /\ serverSock \in [Families -> Seq(Queries)]
    /\ clientSock \in [Families -> Seq(Packets)]
    /\ wire \subseteq [remote : Remotes, id : Indices, question : Names]
    /\ replies \subseteq [to : Queries, question : Names, rcode : {"answer", "servfail"}]

TypedLoop == edges \subseteq Events /\ jobs \in Seq(Jobs)

TypedPool ==
    /\ indexQueue \in Seq(Indices)
    /\ pool \in [Indices -> Queries \cup {NoQuery}]
    /\ index \in [Queries -> Indices \cup {NoIndex}]
    /\ made \in Nat
    /\ expire \in [Queries -> Nat]

TypedTime == heap \subseteq Queries /\ clock \in Nat /\ itimer \in Nat \cup {Off}

TypedWork ==
    /\ pc \in [Workers -> Labels]
    /\ fam \in [Workers -> Families \cup {NoFamily}]
    /\ packet \in [Workers -> Packets \cup {NoPacket}]
    /\ task \in [Workers -> Queries \cup {NoQuery}]
    /\ timer \in [Workers -> Queries \cup {NoQuery}]
    /\ now \in [Workers -> Nat]

LEMMA TypeParts ==
    TypeOK <=> TypedNet /\ TypedLoop /\ TypedPool /\ TypedTime /\ TypedWork /\ crashed \in BOOLEAN
BY DEF TypeOK, TypedNet, TypedLoop, TypedPool, TypedTime, TypedWork

LEMMA TypePartsNext ==
    TypedNet' /\ TypedLoop' /\ TypedPool' /\ TypedTime' /\ TypedWork' /\ crashed' \in BOOLEAN
        => TypeOK'
BY DEF TypeOK, TypedNet, TypedLoop, TypedPool, TypedTime, TypedWork

(* A group that a step leaves alone keeps its types. *)
LEMMA Frames ==
    /\ TypedNet /\ UNCHANGED netVars => TypedNet'
    /\ TypedLoop /\ UNCHANGED loopVars => TypedLoop'
    /\ TypedPool /\ UNCHANGED poolVars => TypedPool'
    /\ TypedTime /\ UNCHANGED timeVars => TypedTime'
    /\ TypedWork /\ UNCHANGED workVars => TypedWork'
BY DEF TypedNet, TypedLoop, TypedPool, TypedTime, TypedWork,
       netVars, loopVars, poolVars, timeVars, workVars

-----------------------------------------------------------------------------
(* A step of w leaves the other workers where they are.                      *)
Elsewhere(w) ==
    \A v \in Workers \ {w} :
        /\ pc'[v] = pc[v] /\ fam'[v] = fam[v] /\ packet'[v] = packet[v]
        /\ task'[v] = task[v] /\ timer'[v] = timer[v]

LEMMA ReturnFacts ==
    ASSUME TypedWork, NEW w \in Workers, Return(w)
    PROVE  TypedWork' /\ Elsewhere(w) /\ pc'[w] = "idle" /\ HeldBy(w)'
BY DEF TypedWork, Return, Goto, Elsewhere, Labels, HeldBy, ServerLabels, ClientLabels

LEMMA AgainFacts ==
    ASSUME TypedWork, NEW w \in Workers, NEW l \in Labels, Again(w, l)
    PROVE  TypedWork' /\ Elsewhere(w) /\ pc'[w] = l /\ fam' = fam
BY DEF TypedWork, Again, Goto, Elsewhere

LEMMA GotoFacts ==
    ASSUME TypedWork, NEW w \in Workers, NEW l \in Labels, Goto(w, l),
           UNCHANGED <<fam, packet, task, timer, now>>
    PROVE  TypedWork' /\ Elsewhere(w) /\ pc'[w] = l
BY DEF TypedWork, Goto, Elsewhere

(* Once an index, always an index: what a step of w must show for Held.      *)
LEMMA HeldElsewhere ==
    ASSUME Held, NEW w \in Workers, Elsewhere(w), HeldBy(w)',
           \A q \in Queries : index[q] \in Indices => index'[q] \in Indices
    PROVE  Held'
<1>1. SUFFICES ASSUME NEW v \in Workers \ {w} PROVE HeldBy(v)' BY DEF Held
<1>2. HeldBy(v) BY DEF Held
<1>3. pc[v] \in ServerLabels \ {"srvRecv", "srvPut"} => index'[task[v]] \in Indices
  BY <1>2 DEF HeldBy
<1>4. pc[v] \in {"tmoHas", "tmoGet", "tmoDel"} => index'[timer[v]] \in Indices
  BY <1>2 DEF HeldBy
<1>5. QED BY <1>2, <1>3, <1>4 DEF Elsewhere, HeldBy

(* A step that only reads shared state keeps the types if its worker does.   *)
LEMMA ReadStep ==
    ASSUME Typed, NEW w \in Workers, TypedWork', Elsewhere(w), HeldBy(w)',
           UNCHANGED <<netVars, loopVars, poolVars, timeVars, crashed>>
    PROVE  Typed'
<1>1. TypeOK' BY TypeParts, TypePartsNext, Frames DEF Typed
<1>2. Held' BY HeldElsewhere DEF Typed, poolVars
<1>3. HeapIndexed' BY DEF Typed, HeapIndexed, poolVars, timeVars
<1>4. QED BY <1>1, <1>2, <1>3 DEF Typed

-----------------------------------------------------------------------------
(* Types through the steps of UdpServerRecvHandler ... *)
LEMMA TypedServer == ASSUME Typed, NEW w \in Workers, ServerStep(w) PROVE Typed'
<1>1. TypedNet /\ TypedLoop /\ TypedPool /\ TypedTime /\ TypedWork /\ crashed \in BOOLEAN
  BY TypeParts DEF Typed
<1>2. HeldBy(w) /\ Held /\ HeapIndexed BY DEF Typed, Held
<1>3. CASE ReceiveQuery(w)
  <2>1. CASE serverSock[fam[w]] = <<>> /\ Return(w) /\ UNCHANGED serverSock
    <3>1. UNCHANGED <<netVars, loopVars, poolVars, timeVars, crashed>>
      BY <1>3, <2>1 DEF ReceiveQuery, netVars
    <3>2. QED BY <1>1, <2>1, <3>1, ReturnFacts, ReadStep
  <2>2. CASE /\ serverSock[fam[w]] # <<>>
             /\ serverSock' = [serverSock EXCEPT ![fam[w]] = Tail(@)]
             /\ task' = [task EXCEPT ![w] = Head(serverSock[fam[w]])]
             /\ Goto(w, "srvPut")
             /\ UNCHANGED <<fam, packet, timer, now>>
    <3>1. fam[w] \in Families BY <1>2, <1>3 DEF ReceiveQuery, At, HeldBy, ServerLabels
    <3>2. serverSock[fam[w]] \in Seq(Queries) BY <1>1, <3>1 DEF TypedNet
    <3>3. Head(serverSock[fam[w]]) \in Queries /\ Tail(serverSock[fam[w]]) \in Seq(Queries)
      BY <2>2, <3>2, PopFacts
    <3>4. TypedNet' BY <1>1, <1>3, <2>2, <3>3 DEF TypedNet, ReceiveQuery
    <3>5. TypedWork' /\ Elsewhere(w) BY <1>1, <2>2, <3>3 DEF TypedWork, Goto, Elsewhere, Labels
    <3>6. HeldBy(w)' BY <1>1, <2>2, <3>1, <3>3 DEF TypedWork, Goto, HeldBy, ServerLabels, ClientLabels
    <3>7. UNCHANGED <<loopVars, poolVars, timeVars, crashed>> BY <1>3 DEF ReceiveQuery
    <3>8. TypeOK' BY <1>1, <3>4, <3>5, <3>7, Frames, TypePartsNext
    <3>9. Held' /\ HeapIndexed'
      BY <1>2, <3>5, <3>6, <3>7, HeldElsewhere DEF HeapIndexed, poolVars, timeVars
    <3>10. QED BY <3>8, <3>9 DEF Typed
  <2>3. QED BY <1>3, <2>1, <2>2 DEF ReceiveQuery
<1>4. CASE PutTask(w)
  <2>1. task[w] \in Queries /\ fam[w] \in Families
    BY <1>2, <1>4 DEF PutTask, At, HeldBy, ServerLabels
  <2>2. Head(indexQueue) \in Indices /\ Tail(indexQueue) \in Seq(Indices)
    BY <1>1, <1>4, PopFacts DEF PutTask, TypedPool
  <2>3. TypedPool' BY <1>1, <1>4, <2>1, <2>2 DEF TypedPool, PutTask
  <2>4. index' = [index EXCEPT ![task[w]] = Head(indexQueue)] BY <1>4 DEF PutTask
  <2>5. Goto(w, "srvPush") /\ UNCHANGED <<fam, packet, task, timer, now>> BY <1>4 DEF PutTask
  <2>6. TypedWork' /\ Elsewhere(w) BY <1>1, <2>5, GotoFacts DEF Labels
  <2>7. \A q \in Queries : index[q] \in Indices => index'[q] \in Indices
    BY <1>1, <2>2, <2>4 DEF TypedPool
  <2>8. HeldBy(w)'
    BY <1>1, <2>1, <2>2, <2>4, <2>5
       DEF TypedPool, TypedWork, Goto, HeldBy, ServerLabels, ClientLabels
  <2>9. UNCHANGED <<netVars, loopVars, timeVars, crashed>> BY <1>4 DEF PutTask
  <2>10. TypeOK' BY <1>1, <2>3, <2>6, <2>9, Frames, TypePartsNext
  <2>11. HeapIndexed'
    BY <1>1, <1>2, <2>7, <2>9 DEF HeapIndexed, TypedTime, timeVars
  <2>12. Held' BY <1>2, <2>6, <2>7, <2>8, HeldElsewhere
  <2>13. QED BY <2>10, <2>11, <2>12 DEF Typed
<1>5. CASE PutTaskUnderflows(w)
  <2>1. QED
    BY <1>1, <1>2, <1>5, Frames, TypePartsNext
       DEF PutTaskUnderflows, Crash, Typed, Held, HeldBy, HeapIndexed,
           poolVars, timeVars, workVars
<1>6. CASE PushTimer(w)
  <2>1. task[w] \in Queries /\ index[task[w]] \in Indices /\ fam[w] \in Families
    BY <1>2, <1>6 DEF PushTimer, At, HeldBy, ServerLabels
  <2>2. Goto(w, "srvSize") /\ UNCHANGED <<fam, packet, task, timer, now>> BY <1>6 DEF PushTimer
  <2>3. heap' = heap \cup {task[w]} /\ UNCHANGED <<clock, itimer, netVars, loopVars, poolVars, crashed>>
    BY <1>6 DEF PushTimer
  <2>4. TypedWork' /\ Elsewhere(w) BY <1>1, <2>2, GotoFacts DEF Labels
  <2>5. TypedTime' BY <1>1, <2>1, <2>3 DEF TypedTime
  <2>6. TypeOK' BY <1>1, <2>3, <2>4, <2>5, Frames, TypePartsNext
  <2>7. HeapIndexed' BY <1>2, <2>1, <2>3 DEF HeapIndexed, poolVars
  <2>8. HeldBy(w)'
    BY <1>1, <2>1, <2>2, <2>3 DEF TypedWork, Goto, HeldBy, ServerLabels, ClientLabels, poolVars
  <2>9. Held' BY <1>2, <2>3, <2>4, <2>8, HeldElsewhere DEF poolVars
  <2>10. QED BY <2>6, <2>7, <2>9 DEF Typed
<1>7. CASE IsOnlyTimer(w)
  <2>1. PICK l \in {"srvArm", "srvSend"} : Goto(w, l) BY <1>7 DEF IsOnlyTimer
  <2>2. /\ UNCHANGED <<netVars, loopVars, poolVars, timeVars, crashed>>
        /\ UNCHANGED <<fam, packet, task, timer, now>>
        /\ pc[w] = "srvSize"
    BY <1>7 DEF IsOnlyTimer, At
  <2>3. TypedWork' /\ Elsewhere(w) /\ pc'[w] = l BY <1>1, <2>1, <2>2, GotoFacts DEF Labels
  <2>4. HeldBy(w)'
    BY <1>2, <2>1, <2>2, <2>3 DEF HeldBy, ServerLabels, ClientLabels, poolVars
  <2>5. QED BY <2>2, <2>3, <2>4, ReadStep
<1>8. CASE ArmTimer(w)
  <2>1. task[w] \in Queries /\ index[task[w]] \in Indices /\ fam[w] \in Families /\ pc[w] = "srvArm"
    BY <1>2, <1>8 DEF ArmTimer, At, HeldBy, ServerLabels
  <2>2. UNCHANGED <<netVars, loopVars, poolVars, heap, clock, crashed>> BY <1>8 DEF ArmTimer
  <2>3. itimer' \in Nat \cup {Off} BY <1>1, <1>8, <2>1 DEF ArmTimer, TypedPool, TypedTime
  <2>4. TypedTime' BY <1>1, <2>2, <2>3 DEF TypedTime
  <2>5. TypedWork' /\ Elsewhere(w) /\ HeldBy(w)'
    <3>1. CASE Return(w) BY <1>1, <3>1, ReturnFacts
    <3>2. CASE Goto(w, "srvSend") /\ UNCHANGED <<fam, packet, task, timer, now>>
      <4>1. TypedWork' /\ Elsewhere(w) /\ pc'[w] = "srvSend"
        BY <1>1, <3>2, GotoFacts DEF Labels
      <4>2. QED BY <2>1, <2>2, <3>2, <4>1 DEF HeldBy, ServerLabels, ClientLabels, poolVars
    <3>3. QED BY <1>8, <3>1, <3>2 DEF ArmTimer
  <2>6. TypeOK' BY <1>1, <2>2, <2>4, <2>5, Frames, TypePartsNext
  <2>7. HeapIndexed' /\ Held' BY <1>2, <2>2, <2>5, HeldElsewhere DEF HeapIndexed, poolVars
  <2>8. QED BY <2>6, <2>7 DEF Typed
<1>9. CASE ForwardQuery(w)
  <2>1. /\ task[w] \in Queries /\ index[task[w]] \in Indices /\ fam[w] \in Families
        /\ pc[w] = "srvSend"
    BY <1>2, <1>9 DEF ForwardQuery, At, HeldBy, ServerLabels
  <2>2. UNCHANGED <<sent, serverSock, clientSock, replies, loopVars, poolVars, timeVars, crashed>>
    BY <1>9 DEF ForwardQuery
  <2>3. wire' \subseteq [remote : Remotes, id : Indices, question : Names]
    <3>1. QuestionOf[task[w]] \in Names BY <2>1, RelayAssumption
    <3>2. QED BY <1>1, <1>9, <2>1, <3>1 DEF ForwardQuery, TypedNet
  <2>4. TypedNet' BY <1>1, <2>2, <2>3 DEF TypedNet
  <2>5. TypedWork' /\ Elsewhere(w) /\ pc'[w] = "srvRecv" /\ fam' = fam
    BY <1>1, <1>9, AgainFacts DEF ForwardQuery, Labels
  <2>6. HeldBy(w)' BY <2>1, <2>5 DEF HeldBy, ServerLabels, ClientLabels
  <2>7. TypeOK' BY <1>1, <2>2, <2>4, <2>5, Frames, TypePartsNext
  <2>8. HeapIndexed' /\ Held'
    BY <1>2, <2>2, <2>5, <2>6, HeldElsewhere DEF HeapIndexed, poolVars, timeVars
  <2>9. QED BY <2>7, <2>8 DEF Typed
<1>10. QED BY <1>3, <1>4, <1>5, <1>6, <1>7, <1>8, <1>9 DEF ServerStep

(* DelTask keeps the pool's types; only ids that were checked reach it.      *)
LEMMA DelTaskFacts ==
    ASSUME TypedPool, NEW i \in Indices, DelTask(i)
    PROVE  TypedPool' /\ index' = index
<1>1. indexQueue' \in Seq(Indices) BY PushFacts DEF TypedPool, DelTask
<1>2. QED BY <1>1 DEF TypedPool, DelTask

(* A step that changes no index and puts nothing in the heap.                *)
LEMMA KeepsIndices ==
    ASSUME Typed, NEW w \in Workers, Elsewhere(w), HeldBy(w)', index' = index,
           heap' \subseteq heap
    PROVE  Held' /\ HeapIndexed'
BY HeldElsewhere DEF Typed, HeapIndexed

(* ... UdpClientRecvHandler ... *)
LEMMA TypedClient == ASSUME Typed, NEW w \in Workers, ClientStep(w) PROVE Typed'
<1>1. TypedNet /\ TypedLoop /\ TypedPool /\ TypedTime /\ TypedWork /\ crashed \in BOOLEAN
  BY TypeParts DEF Typed
<1>2. HeldBy(w) /\ Held /\ HeapIndexed BY DEF Typed, Held
<1>3. CASE ReceiveAnswer(w)
  <2>1. CASE clientSock[fam[w]] = <<>> /\ Return(w) /\ UNCHANGED clientSock
    <3>1. UNCHANGED <<netVars, loopVars, poolVars, timeVars, crashed>>
      BY <1>3, <2>1 DEF ReceiveAnswer, netVars
    <3>2. QED BY <1>1, <2>1, <3>1, ReturnFacts, ReadStep
  <2>2. CASE /\ clientSock[fam[w]] # <<>>
             /\ clientSock' = [clientSock EXCEPT ![fam[w]] = Tail(@)]
             /\ packet' = [packet EXCEPT ![w] = Head(clientSock[fam[w]])]
             /\ Goto(w, "cliHas")
             /\ UNCHANGED <<fam, task, timer, now>>
    <3>1. fam[w] \in Families BY <1>2, <1>3 DEF ReceiveAnswer, At, HeldBy, ClientLabels
    <3>2. clientSock[fam[w]] \in Seq(Packets) BY <1>1, <3>1 DEF TypedNet
    <3>3. Head(clientSock[fam[w]]) \in Packets /\ Tail(clientSock[fam[w]]) \in Seq(Packets)
      BY <2>2, <3>2, PopFacts
    <3>4. TypedNet' BY <1>1, <1>3, <2>2, <3>3 DEF TypedNet, ReceiveAnswer
    <3>5. TypedWork' /\ Elsewhere(w) BY <1>1, <2>2, <3>3 DEF TypedWork, Goto, Elsewhere, Labels
    <3>6. HeldBy(w)' BY <1>1, <2>2, <3>1, <3>3 DEF TypedWork, Goto, HeldBy, ServerLabels, ClientLabels
    <3>7. UNCHANGED <<loopVars, poolVars, timeVars, crashed>> BY <1>3 DEF ReceiveAnswer
    <3>8. TypeOK' BY <1>1, <3>4, <3>5, <3>7, Frames, TypePartsNext
    <3>9. Held' /\ HeapIndexed' BY <3>5, <3>6, <3>7, KeepsIndices DEF poolVars, timeVars
    <3>10. QED BY <3>8, <3>9 DEF Typed
  <2>3. QED BY <1>3, <2>1, <2>2 DEF ReceiveAnswer
<1>4. CASE AnswerHasTask(w)
  <2>1. UNCHANGED <<netVars, loopVars, poolVars, timeVars, crashed>> BY <1>4 DEF AnswerHasTask
  <2>2. CASE Return(w) BY <1>1, <2>1, <2>2, ReturnFacts, ReadStep
  <2>3. CASE Goto(w, "cliGet") /\ UNCHANGED <<fam, packet, task, timer, now>>
    <3>1. TypedWork' /\ Elsewhere(w) /\ pc'[w] = "cliGet" BY <1>1, <2>3, GotoFacts DEF Labels
    <3>2. HeldBy(w)'
      BY <1>2, <1>4, <2>3, <3>1 DEF AnswerHasTask, At, HeldBy, ServerLabels, ClientLabels
    <3>3. QED BY <2>1, <3>1, <3>2, ReadStep
  <2>4. QED BY <1>4, <2>2, <2>3 DEF AnswerHasTask
<1>5. CASE AnswerGetTask(w)
  <2>1. UNCHANGED <<netVars, loopVars, poolVars, timeVars, crashed>> BY <1>5 DEF AnswerGetTask
  <2>2. CASE Return(w) BY <1>1, <2>1, <2>2, ReturnFacts, ReadStep
  <2>3. CASE /\ task' = [task EXCEPT ![w] = pool[packet[w].id]]
             /\ Goto(w, "cliDel")
             /\ UNCHANGED <<fam, packet, timer, now>>
    <3>1. packet[w] \in Packets /\ fam[w] \in Families /\ pool[packet[w].id] # NoQuery
      BY <1>2, <1>5 DEF AnswerGetTask, At, HeldBy, ServerLabels, ClientLabels
    <3>2. pool[packet[w].id] \in Queries BY <1>1, <3>1 DEF TypedPool, Packets
    <3>3. TypedWork' /\ Elsewhere(w) BY <1>1, <2>3, <3>2 DEF TypedWork, Goto, Elsewhere, Labels
    <3>4. HeldBy(w)' BY <1>1, <2>3, <3>1, <3>2 DEF TypedWork, Goto, HeldBy, ServerLabels, ClientLabels
    <3>5. QED BY <2>1, <3>3, <3>4, ReadStep
  <2>4. QED BY <1>5, <2>2, <2>3 DEF AnswerGetTask
<1>6. CASE AnswerGetsNull(w)
  BY <1>1, <1>2, <1>6, Frames, TypePartsNext
     DEF AnswerGetsNull, Crash, Typed, Held, HeldBy, HeapIndexed, poolVars, timeVars, workVars
<1>7. CASE AnswerDelTask(w)
  <2>1. packet[w] \in Packets /\ packet[w].id \in Indices
    BY <1>2, <1>7 DEF AnswerDelTask, At, HeldBy, ClientLabels, Packets
  <2>2. TypedPool' /\ index' = index BY <1>1, <1>7, <2>1, DelTaskFacts DEF AnswerDelTask
  <2>3. /\ Goto(w, "cliSend") /\ UNCHANGED <<fam, packet, task, timer, now>>
        /\ UNCHANGED <<netVars, loopVars, timeVars, crashed>>
    BY <1>7 DEF AnswerDelTask
  <2>4. TypedWork' /\ Elsewhere(w) /\ pc'[w] = "cliSend" BY <1>1, <2>3, GotoFacts DEF Labels
  <2>5. HeldBy(w)'
    BY <1>2, <1>7, <2>3, <2>4 DEF AnswerDelTask, At, HeldBy, ServerLabels, ClientLabels
  <2>6. TypeOK' BY <1>1, <2>2, <2>3, <2>4, Frames, TypePartsNext
  <2>7. Held' /\ HeapIndexed' BY <2>2, <2>3, <2>4, <2>5, KeepsIndices DEF timeVars
  <2>8. QED BY <2>6, <2>7 DEF Typed
<1>8. CASE SendAnswer(w)
  <2>1. task[w] \in Queries /\ packet[w] \in Packets /\ fam[w] \in Families
    BY <1>2, <1>8 DEF SendAnswer, At, HeldBy, ServerLabels, ClientLabels
  <2>2. UNCHANGED <<sent, serverSock, clientSock, wire, loopVars, poolVars, timeVars, crashed>>
    BY <1>8 DEF SendAnswer
  <2>3. TypedNet'
    <3>1. packet[w].question \in Names BY <2>1 DEF Packets
    <3>2. QED BY <1>1, <1>8, <2>1, <2>2, <3>1 DEF SendAnswer, TypedNet
  <2>4. TypedWork' /\ Elsewhere(w) /\ pc'[w] = "cliRecv" /\ fam' = fam
    BY <1>1, <1>8, AgainFacts DEF SendAnswer, Labels
  <2>5. HeldBy(w)' BY <2>1, <2>4 DEF HeldBy, ServerLabels, ClientLabels
  <2>6. TypeOK' BY <1>1, <2>2, <2>3, <2>4, Frames, TypePartsNext
  <2>7. Held' /\ HeapIndexed' BY <2>2, <2>4, <2>5, KeepsIndices DEF poolVars, timeVars
  <2>8. QED BY <2>6, <2>7 DEF Typed
<1>9. QED BY <1>3, <1>4, <1>5, <1>6, <1>7, <1>8 DEF ClientStep

(* ... and UdpTimeoutHandler. *)
LEMMA TypedTimeout == ASSUME Typed, NEW w \in Workers, TimeoutStep(w) PROVE Typed'
<1>1. TypedNet /\ TypedLoop /\ TypedPool /\ TypedTime /\ TypedWork /\ crashed \in BOOLEAN
  BY TypeParts DEF Typed
<1>2. HeldBy(w) /\ Held /\ HeapIndexed BY DEF Typed, Held
<1> DEFINE Reads == UNCHANGED <<netVars, loopVars, poolVars, timeVars, crashed>>
<1> DEFINE Locally == UNCHANGED <<fam, packet, task, timer, now>>
<1>3. CASE ReadClock(w)
  <2>1. TypedWork' /\ Elsewhere(w) /\ pc'[w] = "tmoEmpty"
    BY <1>1, <1>3 DEF ReadClock, Goto, TypedWork, TypedTime, Elsewhere, Labels
  <2>2. HeldBy(w)' BY <2>1 DEF HeldBy, ServerLabels, ClientLabels
  <2>3. Reads BY <1>3 DEF ReadClock
  <2>4. QED BY <2>1, <2>2, <2>3, ReadStep
<1>4. CASE HeapEmpty(w)
  <2>1. PICK l \in {"tickEmpty", "tmoTop"} : Goto(w, l) BY <1>4 DEF HeapEmpty
  <2>2. Reads /\ Locally BY <1>4 DEF HeapEmpty
  <2>3. TypedWork' /\ Elsewhere(w) /\ pc'[w] = l BY <1>1, <2>1, <2>2, GotoFacts DEF Labels
  <2>4. HeldBy(w)' BY <2>1, <2>3 DEF HeldBy, ServerLabels, ClientLabels
  <2>5. QED BY <2>2, <2>3, <2>4, ReadStep
<1>5. CASE TopExpired(w)
  <2>1. PICK l \in {"tickEmpty", "tmoPop"} : Goto(w, l) BY <1>5 DEF TopExpired
  <2>2. Reads /\ Locally BY <1>5 DEF TopExpired
  <2>3. TypedWork' /\ Elsewhere(w) /\ pc'[w] = l BY <1>1, <2>1, <2>2, GotoFacts DEF Labels
  <2>4. HeldBy(w)' BY <2>1, <2>3 DEF HeldBy, ServerLabels, ClientLabels
  <2>5. QED BY <2>2, <2>3, <2>4, ReadStep
<1>6. CASE PopTimer(w)
  <2>1. PICK q \in heap : heap' = heap \ {q} /\ timer' = [timer EXCEPT ![w] = q]
    BY <1>6 DEF PopTimer
  <2>2. /\ Goto(w, "tmoHas") /\ UNCHANGED <<fam, packet, task, now>>
        /\ UNCHANGED <<netVars, loopVars, poolVars, clock, itimer, crashed>>
    BY <1>6 DEF PopTimer
  <2>3. q \in Queries /\ index[q] \in Indices BY <1>1, <1>2 DEF TypedTime, HeapIndexed
  <2>4. TypedWork' /\ Elsewhere(w) /\ pc'[w] = "tmoHas" /\ timer'[w] = q
    BY <1>1, <2>1, <2>2, <2>3 DEF TypedWork, Goto, Elsewhere, Labels
  <2>5. index' = index /\ heap' \subseteq heap BY <2>1, <2>2 DEF poolVars
  <2>6. HeldBy(w)' BY <2>3, <2>4, <2>5 DEF HeldBy, ServerLabels, ClientLabels
  <2>7. TypedTime' BY <1>1, <2>2, <2>5 DEF TypedTime
  <2>8. TypeOK' BY <1>1, <2>2, <2>4, <2>7, Frames, TypePartsNext
  <2>9. Held' /\ HeapIndexed' BY <2>4, <2>5, <2>6, KeepsIndices
  <2>10. QED BY <2>8, <2>9 DEF Typed
<1>7. CASE HeapUnderflows(w)
  BY <1>1, <1>2, <1>7, Frames, TypePartsNext
     DEF HeapUnderflows, Crash, Typed, Held, HeldBy, HeapIndexed, poolVars, timeVars, workVars
<1>8. CASE TimerHasTask(w)
  <2>1. Reads BY <1>8 DEF TimerHasTask
  <2>2. CASE Again(w, "tmoEmpty")
    <3>1. TypedWork' /\ Elsewhere(w) /\ pc'[w] = "tmoEmpty" BY <1>1, <2>2, AgainFacts DEF Labels
    <3>2. HeldBy(w)' BY <3>1 DEF HeldBy, ServerLabels, ClientLabels
    <3>3. QED BY <2>1, <3>1, <3>2, ReadStep
  <2>3. CASE Goto(w, "tmoGet") /\ Locally
    <3>1. TypedWork' /\ Elsewhere(w) /\ pc'[w] = "tmoGet" BY <1>1, <2>3, GotoFacts DEF Labels
    <3>2. HeldBy(w)'
      BY <1>2, <1>8, <2>1, <2>3, <3>1
         DEF TimerHasTask, At, HeldBy, ServerLabels, ClientLabels, poolVars
    <3>3. QED BY <2>1, <3>1, <3>2, ReadStep
  <2>4. QED BY <1>8, <2>2, <2>3 DEF TimerHasTask
<1>9. CASE TimerGetTask(w)
  <2>1. Reads BY <1>9 DEF TimerGetTask
  <2>2. CASE Again(w, "tmoEmpty")
    <3>1. TypedWork' /\ Elsewhere(w) /\ pc'[w] = "tmoEmpty" BY <1>1, <2>2, AgainFacts DEF Labels
    <3>2. HeldBy(w)' BY <3>1 DEF HeldBy, ServerLabels, ClientLabels
    <3>3. QED BY <2>1, <3>1, <3>2, ReadStep
  <2>3. CASE /\ task' = [task EXCEPT ![w] = timer[w]]
             /\ Goto(w, "tmoDel")
             /\ UNCHANGED <<fam, packet, timer, now>>
    <3>1. timer[w] \in Queries /\ index[timer[w]] \in Indices
      BY <1>2, <1>9 DEF TimerGetTask, At, HeldBy
    <3>2. TypedWork' /\ Elsewhere(w) BY <1>1, <2>3, <3>1 DEF TypedWork, Goto, Elsewhere, Labels
    <3>3. HeldBy(w)'
      BY <1>1, <2>1, <2>3, <3>1
         DEF TypedWork, Goto, HeldBy, ServerLabels, ClientLabels, poolVars
    <3>4. QED BY <2>1, <3>2, <3>3, ReadStep
  <2>4. QED BY <1>9, <2>2, <2>3 DEF TimerGetTask
<1>10. CASE TimerGetsNull(w)
  BY <1>1, <1>2, <1>10, Frames, TypePartsNext
     DEF TimerGetsNull, Crash, Typed, Held, HeldBy, HeapIndexed, poolVars, timeVars, workVars
<1>11. CASE TimerDelTask(w)
  <2>1. index[timer[w]] \in Indices BY <1>2, <1>11 DEF TimerDelTask, At, HeldBy
  <2>2. TypedPool' /\ index' = index BY <1>1, <1>11, <2>1, DelTaskFacts DEF TimerDelTask
  <2>3. /\ Goto(w, "tmoSend") /\ Locally
        /\ UNCHANGED <<netVars, loopVars, timeVars, crashed>>
    BY <1>11 DEF TimerDelTask
  <2>4. TypedWork' /\ Elsewhere(w) /\ pc'[w] = "tmoSend" BY <1>1, <2>3, GotoFacts DEF Labels
  <2>5. HeldBy(w)'
    BY <1>2, <1>11, <2>3, <2>4 DEF TimerDelTask, At, HeldBy, ServerLabels, ClientLabels
  <2>6. TypeOK' BY <1>1, <2>2, <2>3, <2>4, Frames, TypePartsNext
  <2>7. Held' /\ HeapIndexed' BY <2>2, <2>3, <2>4, <2>5, KeepsIndices DEF timeVars
  <2>8. QED BY <2>6, <2>7 DEF Typed
<1>12. CASE SendServfail(w)
  <2>1. task[w] \in Queries BY <1>2, <1>12 DEF SendServfail, At, HeldBy
  <2>2. QuestionOf[task[w]] \in Names BY <2>1, RelayAssumption
  <2>3. UNCHANGED <<sent, serverSock, clientSock, wire, loopVars, poolVars, timeVars, crashed>>
    BY <1>12 DEF SendServfail
  <2>4. TypedNet' BY <1>1, <1>12, <2>1, <2>2, <2>3 DEF SendServfail, TypedNet
  <2>5. TypedWork' /\ Elsewhere(w) /\ pc'[w] = "tmoEmpty"
    BY <1>1, <1>12, AgainFacts DEF SendServfail, Labels
  <2>6. HeldBy(w)' BY <2>5 DEF HeldBy, ServerLabels, ClientLabels
  <2>7. TypeOK' BY <1>1, <2>3, <2>4, <2>5, Frames, TypePartsNext
  <2>8. Held' /\ HeapIndexed' BY <2>3, <2>5, <2>6, KeepsIndices DEF poolVars, timeVars
  <2>9. QED BY <2>7, <2>8 DEF Typed
<1>13. CASE TickEmpty(w)
  <2>1. PICK l \in {"tickOff", "tickTop"} : Goto(w, l) BY <1>13 DEF TickEmpty
  <2>2. Reads /\ Locally BY <1>13 DEF TickEmpty
  <2>3. TypedWork' /\ Elsewhere(w) /\ pc'[w] = l BY <1>1, <2>1, <2>2, GotoFacts DEF Labels
  <2>4. HeldBy(w)' BY <2>1, <2>3 DEF HeldBy, ServerLabels, ClientLabels
  <2>5. QED BY <2>2, <2>3, <2>4, ReadStep
<1>14. CASE TickTop(w)
  <2>1. PICK q \in heap : timer' = [timer EXCEPT ![w] = q] BY <1>14 DEF TickTop
  <2>2. q \in Queries BY <1>1 DEF TypedTime
  <2>3. Goto(w, "tickOn") /\ UNCHANGED <<fam, packet, task, now>> /\ Reads BY <1>14 DEF TickTop
  <2>4. TypedWork' /\ Elsewhere(w) /\ pc'[w] = "tickOn" /\ timer'[w] = q
    BY <1>1, <2>1, <2>2, <2>3 DEF TypedWork, Goto, Elsewhere, Labels
  <2>5. HeldBy(w)' BY <2>2, <2>4 DEF HeldBy, ServerLabels, ClientLabels
  <2>6. QED BY <2>3, <2>4, <2>5, ReadStep
<1>15. CASE TickOn(w)
  <2>1. timer[w] \in Queries BY <1>2, <1>15 DEF TickOn, At, HeldBy
  <2>2. UNCHANGED <<netVars, loopVars, poolVars, heap, clock, crashed>> BY <1>15 DEF TickOn
  <2>3. itimer' \in Nat \cup {Off} BY <1>1, <1>15, <2>1 DEF TickOn, TypedPool, TypedTime
  <2>4. TypedTime' BY <1>1, <2>2, <2>3 DEF TypedTime
  <2>5. TypedWork' /\ Elsewhere(w) /\ HeldBy(w)' BY <1>1, <1>15, ReturnFacts DEF TickOn
  <2>6. TypeOK' BY <1>1, <2>2, <2>4, <2>5, Frames, TypePartsNext
  <2>7. Held' /\ HeapIndexed' BY <2>2, <2>5, KeepsIndices DEF poolVars
  <2>8. QED BY <2>6, <2>7 DEF Typed
<1>16. CASE TickOff(w)
  <2>1. UNCHANGED <<netVars, loopVars, poolVars, heap, clock, crashed>> /\ itimer' = Off
    BY <1>16 DEF TickOff
  <2>2. TypedTime' BY <1>1, <2>1 DEF TypedTime
  <2>3. TypedWork' /\ Elsewhere(w) /\ HeldBy(w)' BY <1>1, <1>16, ReturnFacts DEF TickOff
  <2>4. TypeOK' BY <1>1, <2>1, <2>2, <2>3, Frames, TypePartsNext
  <2>5. Held' /\ HeapIndexed' BY <2>1, <2>3, KeepsIndices DEF poolVars
  <2>6. QED BY <2>4, <2>5 DEF Typed
<1>17. QED
  BY <1>3, <1>4, <1>5, <1>6, <1>7, <1>8, <1>9, <1>10, <1>11, <1>12, <1>13, <1>14, <1>15, <1>16
     DEF TimeoutStep

(* ... and the steps of everybody else. *)
LEMMA TypedStart == ASSUME Typed, NEW w \in Workers, StartJob(w) PROVE Typed'
<1>1. TypedNet /\ TypedLoop /\ TypedPool /\ TypedTime /\ TypedWork /\ crashed \in BOOLEAN
  BY TypeParts DEF Typed
<1> DEFINE j == Head(jobs)
<1>2. j \in Jobs /\ Tail(jobs) \in Seq(Jobs) BY <1>1, PopFacts DEF StartJob, TypedLoop
<1>3. /\ FirstStep[j[1]] \in {"srvRecv", "cliRecv", "tmoNow", "tickOff"}
      /\ FirstStep[j[1]] \in {"srvRecv", "cliRecv"} => j[2] \in Families
      /\ j[2] \in Families \cup {NoFamily}
  BY <1>2, FirstStepOfJob
<1>4. /\ jobs' = Tail(jobs) /\ pc' = [pc EXCEPT ![w] = FirstStep[j[1]]]
      /\ fam' = [fam EXCEPT ![w] = j[2]]
      /\ UNCHANGED <<netVars, edges, poolVars, timeVars, packet, task, timer, now, crashed>>
  BY DEF StartJob, Goto
<1>5. TypedWork' /\ Elsewhere(w) /\ pc'[w] = FirstStep[j[1]] /\ fam'[w] = j[2]
  BY <1>1, <1>3, <1>4 DEF TypedWork, Elsewhere, Labels
<1>6. HeldBy(w)' BY <1>3, <1>5 DEF HeldBy, ServerLabels, ClientLabels
<1>7. TypedLoop' BY <1>1, <1>2, <1>4 DEF TypedLoop
<1>8. TypeOK' BY <1>1, <1>4, <1>5, <1>7, Frames, TypePartsNext
<1>9. Held' /\ HeapIndexed' BY <1>4, <1>5, <1>6, KeepsIndices DEF poolVars, timeVars
<1>10. QED BY <1>8, <1>9 DEF Typed

LEMMA TypedElse ==
    ASSUME Typed, MainStep \/ Environment \/ UNCHANGED vars
    PROVE  Typed'
<1>1. TypedNet /\ TypedLoop /\ TypedPool /\ TypedTime /\ TypedWork /\ crashed \in BOOLEAN
  BY TypeParts DEF Typed
<1>2. ASSUME UNCHANGED <<poolVars, workVars>>, heap' = heap PROVE Held' /\ HeapIndexed'
  BY <1>2 DEF Typed, Held, HeldBy, HeapIndexed, poolVars, workVars
<1>3. ASSUME NEW q \in Queries, ClientSends(q) PROVE Typed'
  <2>1. ClientFamily[q] \in Families BY RelayAssumption
  <2>2. serverSock[ClientFamily[q]] \in Seq(Queries) BY <1>1, <2>1 DEF TypedNet
  <2>3. Append(serverSock[ClientFamily[q]], q) \in Seq(Queries) BY <2>2, PushFacts
  <2>4. TypedNet' BY <1>1, <1>3, <2>3 DEF ClientSends, TypedNet
  <2>5. TypedLoop' BY <1>1, <1>3, <2>1 DEF ClientSends, TypedLoop, Events
  <2>6. UNCHANGED <<poolVars, timeVars, workVars, crashed>> BY <1>3 DEF ClientSends
  <2>7. TypeOK' BY <1>1, <2>4, <2>5, <2>6, Frames, TypePartsNext
  <2>8. QED BY <1>2, <2>6, <2>7 DEF Typed, timeVars
<1>4. ASSUME NEW m \in wire, RemoteAnswers(m) PROVE Typed'
  <2> DEFINE p == [id |-> m.id, question |-> m.question]
  <2>1. m \in [remote : Remotes, id : Indices, question : Names] BY <1>1 DEF TypedNet
  <2>2. RemoteFamily[m.remote] \in Families /\ p \in Packets
    BY <2>1, RelayAssumption DEF Packets
  <2>3. Append(clientSock[RemoteFamily[m.remote]], p) \in Seq(Packets)
    BY <1>1, <2>2, PushFacts DEF TypedNet
  <2>4. TypedNet' BY <1>1, <1>4, <2>3 DEF RemoteAnswers, TypedNet
  <2>5. TypedLoop' BY <1>1, <1>4, <2>2 DEF RemoteAnswers, TypedLoop, Events
  <2>6. UNCHANGED <<poolVars, timeVars, workVars, crashed>> BY <1>4 DEF RemoteAnswers
  <2>7. TypeOK' BY <1>1, <2>4, <2>5, <2>6, Frames, TypePartsNext
  <2>8. QED BY <1>2, <2>6, <2>7 DEF Typed, timeVars
<1>5. CASE DeadlinePasses
  <2>1. TypedTime' BY <1>1, <1>5 DEF DeadlinePasses, TypedTime
  <2>2. UNCHANGED <<netVars, loopVars, poolVars, heap, workVars, crashed>>
    BY <1>5 DEF DeadlinePasses
  <2>3. TypeOK' BY <1>1, <2>1, <2>2, Frames, TypePartsNext
  <2>4. QED BY <1>2, <2>2, <2>3 DEF Typed
<1>6. CASE AlarmFires
  <2>1. TypedTime' BY <1>1, <1>6 DEF AlarmFires, TypedTime
  <2>2. TypedLoop' BY <1>1, <1>6 DEF AlarmFires, TypedLoop, Events
  <2>3. UNCHANGED <<netVars, poolVars, heap, workVars, crashed>> BY <1>6 DEF AlarmFires
  <2>4. TypeOK' BY <1>1, <2>1, <2>2, <2>3, Frames, TypePartsNext
  <2>5. QED BY <1>2, <2>3, <2>4 DEF Typed
<1>7. ASSUME NEW e \in Events, Dispatch(e) PROVE Typed'
  <2>1. JobsFor(e) \in Seq(Jobs) BY JobsForEvent
  <2>2. jobs \o JobsFor(e) \in Seq(Jobs) BY <1>1, <2>1, ConcatProperties DEF TypedLoop
  <2>3. TypedLoop' BY <1>1, <1>7, <2>2 DEF Dispatch, TypedLoop
  <2>4. UNCHANGED <<netVars, poolVars, timeVars, workVars, crashed>> BY <1>7 DEF Dispatch
  <2>5. TypeOK' BY <1>1, <2>3, <2>4, Frames, TypePartsNext
  <2>6. QED BY <1>2, <2>4, <2>5 DEF Typed, timeVars
<1>8. CASE UNCHANGED vars
  <2>1. UNCHANGED <<netVars, loopVars, poolVars, timeVars, workVars, crashed>>
    BY <1>8 DEF vars
  <2>2. TypeOK' BY <1>1, <2>1, Frames, TypePartsNext
  <2>3. QED BY <1>2, <2>1, <2>2 DEF Typed, timeVars
<1>9. QED BY <1>3, <1>4, <1>5, <1>6, <1>7, <1>8 DEF MainStep, Environment

LEMMA TypedInit == Init => Typed
<1>1. SUFFICES ASSUME Init PROVE Typed OBVIOUS
<1>2. InitialQueue \in Seq(Indices)
  <2>1. MaxIndex \in Nat BY RelayAssumption
  <2>2. InitialQueue \in [1 .. MaxIndex + 1 -> Indices] BY <2>1 DEF InitialQueue, Indices
  <2>3. QED BY <2>1, <2>2, SeqDef
<1>3. <<>> \in Seq(Queries) /\ <<>> \in Seq(Packets) /\ <<>> \in Seq(Jobs) BY EmptySeq
<1>4. TypedNet BY <1>1, <1>3 DEF Init, TypedNet
<1>5. TypedLoop BY <1>1, <1>3 DEF Init, TypedLoop
<1>6. TypedPool BY <1>1, <1>2 DEF Init, TypedPool
<1>7. TypedTime BY <1>1 DEF Init, TypedTime
<1>8. TypedWork BY <1>1 DEF Init, TypedWork, Labels
<1>9. Held BY <1>1 DEF Init, Held, HeldBy, ServerLabels, ClientLabels
<1>10. HeapIndexed BY <1>1 DEF Init, HeapIndexed
<1>11. QED
  BY <1>1, <1>4, <1>5, <1>6, <1>7, <1>8, <1>9, <1>10, TypeParts DEF Init, Typed

LEMMA TypedStep == Typed /\ [Next]_vars => Typed'
BY TypedStart, TypedServer, TypedClient, TypedTimeout, TypedElse DEF Next, WorkerStep

(* Every variable keeps its type: in particular a handler only looks up or   *)
(* deletes a slot of m_pool (task.cpp:27-42) by an id that PutTask gave out. *)
THEOREM TypeCorrect == Spec => []TypeOK
<1>1. Typed => TypeOK BY DEF Typed
<1>2. QED BY <1>1, TypedInit, TypedStep, PTL DEF Spec

-----------------------------------------------------------------------------
(* A worker's step changes no other worker's locals. *)
LEMMA OthersStay ==
    ASSUME TypedWork, NEW w \in Workers, WorkerStep(w)
    PROVE  Elsewhere(w)
<1> USE DEF TypedWork, Elsewhere, Goto, Again, Return, Crash, workVars
<1>1. CASE StartJob(w) BY <1>1 DEF StartJob
<1>2. CASE ServerStep(w)
  <2>1. CASE ReceiveQuery(w) BY <2>1 DEF ReceiveQuery
  <2>2. CASE PutTask(w) \/ PutTaskUnderflows(w) BY <2>2 DEF PutTask, PutTaskUnderflows
  <2>3. CASE PushTimer(w) \/ IsOnlyTimer(w) BY <2>3 DEF PushTimer, IsOnlyTimer
  <2>4. CASE ArmTimer(w) BY <2>4 DEF ArmTimer
  <2>5. CASE ForwardQuery(w) BY <2>5 DEF ForwardQuery
  <2>6. QED BY <1>2, <2>1, <2>2, <2>3, <2>4, <2>5 DEF ServerStep
<1>3. CASE ClientStep(w)
  <2>1. CASE ReceiveAnswer(w) BY <2>1 DEF ReceiveAnswer
  <2>2. CASE AnswerHasTask(w) BY <2>2 DEF AnswerHasTask
  <2>3. CASE AnswerGetTask(w) BY <2>3 DEF AnswerGetTask
  <2>4. CASE AnswerGetsNull(w) \/ AnswerDelTask(w) BY <2>4 DEF AnswerGetsNull, AnswerDelTask
  <2>5. CASE SendAnswer(w) BY <2>5 DEF SendAnswer
  <2>6. QED BY <1>3, <2>1, <2>2, <2>3, <2>4, <2>5 DEF ClientStep
<1>4. CASE TimeoutStep(w)
  <2>1. CASE ReadClock(w) \/ HeapEmpty(w) BY <2>1 DEF ReadClock, HeapEmpty
  <2>2. CASE TopExpired(w) \/ PopTimer(w) BY <2>2 DEF TopExpired, PopTimer
  <2>3. CASE HeapUnderflows(w) \/ TimerGetsNull(w) BY <2>3 DEF HeapUnderflows, TimerGetsNull
  <2>4. CASE TimerHasTask(w) BY <2>4 DEF TimerHasTask
  <2>5. CASE TimerGetTask(w) BY <2>5 DEF TimerGetTask
  <2>6. CASE TimerDelTask(w) \/ SendServfail(w) BY <2>6 DEF TimerDelTask, SendServfail
  <2>7. CASE TickEmpty(w) \/ TickTop(w) BY <2>7 DEF TickEmpty, TickTop
  <2>8. CASE TickOn(w) \/ TickOff(w) BY <2>8 DEF TickOn, TickOff
  <2>9. QED BY <1>4, <2>1, <2>2, <2>3, <2>4, <2>5, <2>6, <2>7, <2>8 DEF TimeoutStep
<1>5. QED BY <1>1, <1>2, <1>3, <1>4 DEF WorkerStep

-----------------------------------------------------------------------------
(* The question a handler has compared stays the one of its task. *)
LEMMA ComparedStep == Typed /\ Compared /\ [Next]_vars => Compared'
<1>1. SUFFICES ASSUME Typed, Compared, [Next]_vars PROVE Compared' OBVIOUS
<1>2. TypedWork BY <1>1, TypeParts DEF Typed
<1>3. ASSUME UNCHANGED workVars PROVE Compared' BY <1>1, <1>3 DEF Compared, workVars
<1>4. ASSUME NEW w \in Workers, WorkerStep(w),
             pc'[w] \in {"cliDel", "cliSend"} => QuestionOf[task'[w]] = packet'[w].question
      PROVE  Compared'
  BY <1>1, <1>2, <1>4, OthersStay DEF Compared, Elsewhere
<1>5. ASSUME NEW w \in Workers, WorkerStep(w), pc'[w] \notin {"cliDel", "cliSend"}
      PROVE  Compared'
  BY <1>4, <1>5
<1>6. ASSUME NEW w \in Workers, StartJob(w) PROVE Compared'
  <2>1. Head(jobs) \in Jobs
    BY <1>1, <1>6, PopFacts, TypeParts DEF Typed, TypedLoop, StartJob
  <2>2. pc'[w] \in {"srvRecv", "cliRecv", "tmoNow", "tickOff"}
    BY <1>2, <1>6, <2>1, FirstStepOfJob DEF StartJob, Goto, TypedWork
  <2>3. QED BY <1>5, <1>6, <2>2 DEF WorkerStep
<1>7. ASSUME NEW w \in Workers, ServerStep(w) PROVE Compared'
  <2> USE DEF TypedWork, Goto, Again, Return, At
  <2>1. CASE PutTaskUnderflows(w) BY <1>3, <2>1 DEF PutTaskUnderflows, Crash
  <2>2. CASE ReceiveQuery(w)
    BY <1>2, <1>5, <1>7, <2>2 DEF ReceiveQuery, WorkerStep
  <2>3. CASE PutTask(w) BY <1>2, <1>5, <1>7, <2>3 DEF PutTask, WorkerStep
  <2>4. CASE PushTimer(w) BY <1>2, <1>5, <1>7, <2>4 DEF PushTimer, WorkerStep
  <2>5. CASE IsOnlyTimer(w) BY <1>2, <1>5, <1>7, <2>5 DEF IsOnlyTimer, WorkerStep
  <2>6. CASE ArmTimer(w) BY <1>2, <1>5, <1>7, <2>6 DEF ArmTimer, WorkerStep
  <2>7. CASE ForwardQuery(w) BY <1>2, <1>5, <1>7, <2>7 DEF ForwardQuery, WorkerStep
  <2>8. QED BY <1>7, <2>1, <2>2, <2>3, <2>4, <2>5, <2>6, <2>7 DEF ServerStep
<1>8. ASSUME NEW w \in Workers, ClientStep(w) PROVE Compared'
  <2> USE DEF TypedWork, Goto, Again, Return, At
  <2>1. CASE AnswerGetsNull(w) BY <1>3, <2>1 DEF AnswerGetsNull, Crash
  <2>2. CASE ReceiveAnswer(w) BY <1>2, <1>5, <1>8, <2>2 DEF ReceiveAnswer, WorkerStep
  <2>3. CASE AnswerHasTask(w) BY <1>2, <1>5, <1>8, <2>3 DEF AnswerHasTask, WorkerStep
  <2>4. CASE AnswerGetTask(w)
    <3>1. pc'[w] \in {"cliDel", "cliSend"} => QuestionOf[task'[w]] = packet'[w].question
      <4>1. CASE Return(w) BY <1>2, <4>1
      <4>2. CASE /\ QuestionOf[pool[packet[w].id]] = packet[w].question
                 /\ task' = [task EXCEPT ![w] = pool[packet[w].id]]
                 /\ UNCHANGED packet
        BY <1>2, <4>2
      <4>3. QED BY <2>4, <4>1, <4>2 DEF AnswerGetTask
    <3>2. QED BY <1>4, <1>8, <3>1 DEF WorkerStep
  <2>5. CASE AnswerDelTask(w)
    <3>1. pc[w] = "cliDel" /\ UNCHANGED <<task, packet>> BY <2>5 DEF AnswerDelTask
    <3>2. QED BY <1>1, <1>4, <1>8, <3>1 DEF Compared, WorkerStep
  <2>6. CASE SendAnswer(w) BY <1>2, <1>5, <1>8, <2>6 DEF SendAnswer, WorkerStep
  <2>7. QED BY <1>8, <2>1, <2>2, <2>3, <2>4, <2>5, <2>6 DEF ClientStep
<1>9. ASSUME NEW w \in Workers, TimeoutStep(w) PROVE Compared'
  <2> USE DEF TypedWork, Goto, Again, Return, At
  <2>1. CASE HeapUnderflows(w) \/ TimerGetsNull(w)
    BY <1>3, <2>1 DEF HeapUnderflows, TimerGetsNull, Crash
  <2>2. CASE ReadClock(w) BY <1>2, <1>5, <1>9, <2>2 DEF ReadClock, WorkerStep
  <2>3. CASE HeapEmpty(w) BY <1>2, <1>5, <1>9, <2>3 DEF HeapEmpty, WorkerStep
  <2>4. CASE TopExpired(w) BY <1>2, <1>5, <1>9, <2>4 DEF TopExpired, WorkerStep
  <2>5. CASE PopTimer(w) BY <1>2, <1>5, <1>9, <2>5 DEF PopTimer, WorkerStep
  <2>6. CASE TimerHasTask(w) BY <1>2, <1>5, <1>9, <2>6 DEF TimerHasTask, WorkerStep
  <2>7. CASE TimerGetTask(w) BY <1>2, <1>5, <1>9, <2>7 DEF TimerGetTask, WorkerStep
  <2>8. CASE TimerDelTask(w) BY <1>2, <1>5, <1>9, <2>8 DEF TimerDelTask, WorkerStep
  <2>9. CASE SendServfail(w) BY <1>2, <1>5, <1>9, <2>9 DEF SendServfail, WorkerStep
  <2>10. CASE TickEmpty(w) BY <1>2, <1>5, <1>9, <2>10 DEF TickEmpty, WorkerStep
  <2>11. CASE TickTop(w) BY <1>2, <1>5, <1>9, <2>11 DEF TickTop, WorkerStep
  <2>12. CASE TickOn(w) \/ TickOff(w)
    BY <1>2, <1>5, <1>9, <2>12 DEF TickOn, TickOff, WorkerStep
  <2>13. QED
    BY <1>9, <2>1, <2>2, <2>3, <2>4, <2>5, <2>6, <2>7, <2>8, <2>9, <2>10, <2>11, <2>12
       DEF TimeoutStep
<1>10. CASE MainStep \/ Environment \/ UNCHANGED vars
  <2>1. UNCHANGED workVars
    BY <1>10 DEF MainStep, Dispatch, Environment, ClientSends, RemoteAnswers, DeadlinePasses,
                 AlarmFires, vars
  <2>2. QED BY <1>3, <2>1
<1>11. QED BY <1>1, <1>6, <1>7, <1>8, <1>9, <1>10 DEF Next, WorkerStep

(* Only two steps reply to a client.                                         *)
LEMMA WhoReplies ==
    ASSUME [Next]_vars
    PROVE  \/ UNCHANGED replies
           \/ \E w \in Workers : SendAnswer(w) \/ SendServfail(w)
<1> USE DEF netVars
<1>1. CASE UNCHANGED vars BY <1>1 DEF vars
<1>2. CASE MainStep \/ Environment
  BY <1>2 DEF MainStep, Dispatch, Environment, ClientSends, RemoteAnswers, DeadlinePasses,
              AlarmFires
<1>3. ASSUME NEW w \in Workers, StartJob(w) \/ ServerStep(w) PROVE UNCHANGED replies
  BY <1>3 DEF StartJob, ServerStep, ReceiveQuery, PutTask, PutTaskUnderflows, PushTimer,
              IsOnlyTimer, ArmTimer, ForwardQuery, Crash
<1>4. ASSUME NEW w \in Workers, ClientStep(w) PROVE UNCHANGED replies \/ SendAnswer(w)
  BY <1>4 DEF ClientStep, ReceiveAnswer, AnswerHasTask, AnswerGetTask, AnswerGetsNull,
              AnswerDelTask, Crash
<1>5. ASSUME NEW w \in Workers, TimeoutStep(w) PROVE UNCHANGED replies \/ SendServfail(w)
  BY <1>5 DEF TimeoutStep, ReadClock, HeapEmpty, TopExpired, PopTimer, HeapUnderflows,
              TimerHasTask, TimerGetTask, TimerGetsNull, TimerDelTask, TickEmpty, TickTop,
              TickOn, TickOff, Crash
<1>6. QED BY <1>1, <1>2, <1>3, <1>4, <1>5 DEF Next, WorkerStep

(* No client is ever sent the answer to a question it did not ask, however   *)
(* often indices are reused: UdpClientRecvHandler compares the questions     *)
(* (handler.cpp:84) before it deletes the task and replies.                  *)
THEOREM NoMixUp == Spec => []ReplyAnswersItsQuery
<1> DEFINE Inv == Typed /\ Compared /\ ReplyAnswersItsQuery
<1>1. Init => Inv
  <2>1. SUFFICES ASSUME Init PROVE Compared /\ ReplyAnswersItsQuery BY TypedInit
  <2>2. QED BY <2>1 DEF Init, Compared, ReplyAnswersItsQuery
<1>2. Inv /\ [Next]_vars => Inv'
  <2>1. SUFFICES ASSUME Inv, [Next]_vars PROVE ReplyAnswersItsQuery'
    BY TypedStep, ComparedStep
  <2>2. CASE UNCHANGED replies BY <2>1, <2>2 DEF ReplyAnswersItsQuery
  <2>3. ASSUME NEW w \in Workers, SendAnswer(w) PROVE ReplyAnswersItsQuery'
    <3>1. QuestionOf[task[w]] = packet[w].question BY <2>1, <2>3 DEF SendAnswer, At, Compared
    <3>2. QED BY <2>1, <2>3, <3>1 DEF SendAnswer, ReplyAnswersItsQuery
  <2>4. ASSUME NEW w \in Workers, SendServfail(w) PROVE ReplyAnswersItsQuery'
    BY <2>1, <2>4 DEF SendServfail, ReplyAnswersItsQuery
  <2>5. QED BY <2>1, <2>2, <2>3, <2>4, WhoReplies
<1>3. QED BY <1>1, <1>2, PTL DEF Spec

-----------------------------------------------------------------------------
(* Steps other than these three move no datagram on its way to a task.       *)
LEMMA FreshSame ==
    ASSUME Fresh, UNCHANGED <<sent, serverSock, index>>,
           \A v \in Workers : pc'[v] = "srvPut" => pc[v] = "srvPut" /\ task'[v] = task[v]
    PROVE  Fresh'
BY DEF Fresh

LEMMA FreshElsewhere ==
    ASSUME Typed, NEW w \in Workers, WorkerStep(w), ~ReceiveQuery(w), ~PutTask(w)
    PROVE  /\ UNCHANGED <<sent, serverSock, index>>
           /\ \A v \in Workers : pc'[v] = "srvPut" => pc[v] = "srvPut" /\ task'[v] = task[v]
<1>1. TypedWork BY TypeParts DEF Typed
<1>2. Elsewhere(w) BY <1>1, OthersStay
<1> USE DEF TypedWork, Goto, Again, Return, netVars, poolVars
<1>3. SUFFICES /\ UNCHANGED <<sent, serverSock, index>>
               /\ pc'[w] = "srvPut" => pc[w] = "srvPut" /\ task'[w] = task[w]
  BY <1>2 DEF Elsewhere
<1>4. CASE StartJob(w)
  <2>1. Head(jobs) \in Jobs
    BY <1>4, PopFacts, TypeParts DEF Typed, TypedLoop, StartJob
  <2>2. pc'[w] # "srvPut" BY <1>1, <1>4, <2>1, FirstStepOfJob DEF StartJob
  <2>3. QED BY <1>4, <2>2 DEF StartJob
<1>5. CASE UNCHANGED <<netVars, poolVars, workVars>> BY <1>5 DEF workVars
<1>6. CASE ServerStep(w)
  <2>1. CASE PutTaskUnderflows(w) BY <1>5, <2>1 DEF PutTaskUnderflows, Crash
  <2>2. CASE PushTimer(w) BY <1>1, <2>2 DEF PushTimer
  <2>3. CASE IsOnlyTimer(w) BY <1>1, <2>3 DEF IsOnlyTimer
  <2>4. CASE ArmTimer(w) BY <1>1, <2>4 DEF ArmTimer
  <2>5. CASE ForwardQuery(w) BY <1>1, <2>5 DEF ForwardQuery
  <2>6. QED BY <1>6, <2>1, <2>2, <2>3, <2>4, <2>5 DEF ServerStep
<1>7. CASE ClientStep(w)
  <2>1. CASE AnswerGetsNull(w) BY <1>5, <2>1 DEF AnswerGetsNull, Crash
  <2>2. CASE ReceiveAnswer(w) BY <1>1, <2>2 DEF ReceiveAnswer
  <2>3. CASE AnswerHasTask(w) BY <1>1, <2>3 DEF AnswerHasTask
  <2>4. CASE AnswerGetTask(w) BY <1>1, <2>4 DEF AnswerGetTask
  <2>5. CASE AnswerDelTask(w) BY <1>1, <2>5 DEF AnswerDelTask, DelTask
  <2>6. CASE SendAnswer(w) BY <1>1, <2>6 DEF SendAnswer
  <2>7. QED BY <1>7, <2>1, <2>2, <2>3, <2>4, <2>5, <2>6 DEF ClientStep
<1>8. CASE TimeoutStep(w)
  <2>1. CASE HeapUnderflows(w) \/ TimerGetsNull(w)
    BY <1>5, <2>1 DEF HeapUnderflows, TimerGetsNull, Crash
  <2>2. CASE ReadClock(w) BY <1>1, <2>2 DEF ReadClock
  <2>3. CASE HeapEmpty(w) BY <1>1, <2>3 DEF HeapEmpty
  <2>4. CASE TopExpired(w) BY <1>1, <2>4 DEF TopExpired
  <2>5. CASE PopTimer(w) BY <1>1, <2>5 DEF PopTimer
  <2>6. CASE TimerHasTask(w) BY <1>1, <2>6 DEF TimerHasTask
  <2>7. CASE TimerGetTask(w) BY <1>1, <2>7 DEF TimerGetTask
  <2>8. CASE TimerDelTask(w) BY <1>1, <2>8 DEF TimerDelTask, DelTask
  <2>9. CASE SendServfail(w) BY <1>1, <2>9 DEF SendServfail
  <2>10. CASE TickEmpty(w) BY <1>1, <2>10 DEF TickEmpty
  <2>11. CASE TickTop(w) BY <1>1, <2>11 DEF TickTop
  <2>12. CASE TickOn(w) \/ TickOff(w) BY <1>1, <2>12 DEF TickOn, TickOff
  <2>13. QED
    BY <1>8, <2>1, <2>2, <2>3, <2>4, <2>5, <2>6, <2>7, <2>8, <2>9, <2>10, <2>11, <2>12
       DEF TimeoutStep
<1>9. QED BY <1>4, <1>6, <1>7, <1>8 DEF WorkerStep

(* A query is made a task once. *)
LEMMA FreshStep == Typed /\ Fresh /\ [Next]_vars => Fresh'
<1>1. SUFFICES ASSUME Typed, Fresh, [Next]_vars PROVE Fresh' OBVIOUS
<1>2. TypedNet /\ TypedPool /\ TypedWork BY <1>1, TypeParts DEF Typed
<1>3. ASSUME NEW q \in Queries, ClientSends(q) PROVE Fresh'
  <2> DEFINE f == ClientFamily[q]
  <2>1. f \in Families /\ serverSock[f] \in Seq(Queries)
    BY <1>2, RelayAssumption DEF TypedNet
  <2>2. /\ q \notin sent /\ sent' = sent \cup {q} /\ UNCHANGED <<index, pc, task>>
        /\ serverSock' = [serverSock EXCEPT ![f] = Append(serverSock[f], q)]
    BY <1>3 DEF ClientSends, poolVars, workVars
  <2>3. /\ DOMAIN serverSock[f] = 1 .. Len(serverSock[f]) /\ Len(serverSock[f]) \in Nat
        /\ DOMAIN serverSock'[f] = 1 .. Len(serverSock[f]) + 1
        /\ \A n \in 1 .. Len(serverSock[f]) : serverSock'[f][n] = serverSock[f][n]
        /\ serverSock'[f][Len(serverSock[f]) + 1] = q
    BY <1>2, <2>1, <2>2, PushFacts DEF TypedNet
  <2>4. \A g \in Families \ {f} : serverSock'[g] = serverSock[g] BY <1>2, <2>2 DEF TypedNet
  <2>5. index[q] = NoIndex BY <1>1, <2>2 DEF Fresh
  <2>6. ASSUME NEW g \in Families, NEW n \in DOMAIN serverSock'[g]
        PROVE  \/ n \in DOMAIN serverSock[g] /\ serverSock'[g][n] = serverSock[g][n]
               \/ g = f /\ n = Len(serverSock[f]) + 1 /\ serverSock'[g][n] = q
    BY <2>3, <2>4
  <2>7. \A g \in Families : \A n \in DOMAIN serverSock[g] : serverSock[g][n] # q
    BY <1>1, <2>2 DEF Fresh
  <2>8. \A p \in Queries : index'[p] # NoIndex => p \in sent' BY <1>1, <2>2 DEF Fresh
  <2>9. \A g \in Families : \A n \in DOMAIN serverSock'[g] :
           serverSock'[g][n] \in sent' /\ index'[serverSock'[g][n]] = NoIndex
    BY <1>1, <2>2, <2>5, <2>6 DEF Fresh
  <2>10. ASSUME NEW g \in Families, NEW h \in Families,
                NEW n \in DOMAIN serverSock'[g], NEW m \in DOMAIN serverSock'[h],
                serverSock'[g][n] = serverSock'[h][m]
         PROVE  g = h /\ n = m
    BY <1>1, <2>6, <2>7, <2>10 DEF Fresh
  <2>11. ASSUME NEW w \in Workers, pc'[w] = "srvPut"
         PROVE  /\ task'[w] \in sent' /\ index'[task'[w]] = NoIndex
                /\ \A g \in Families : \A n \in DOMAIN serverSock'[g] :
                      serverSock'[g][n] # task'[w]
    BY <1>1, <2>2, <2>6, <2>11 DEF Fresh
  <2>12. QED BY <1>1, <2>2, <2>8, <2>9, <2>10, <2>11 DEF Fresh
<1>4. ASSUME NEW w \in Workers, ReceiveQuery(w) PROVE Fresh'
  <2> DEFINE f == fam[w]
  <2>1. CASE Return(w) /\ UNCHANGED serverSock
    <3>1. Elsewhere(w) /\ pc'[w] = "idle" BY <1>2, <2>1, ReturnFacts
    <3>2. UNCHANGED <<sent, serverSock, index>> BY <1>4, <2>1 DEF ReceiveQuery, poolVars
    <3>3. QED BY <1>1, <3>1, <3>2, FreshSame DEF Elsewhere
  <2>2. CASE /\ serverSock[f] # <<>>
             /\ serverSock' = [serverSock EXCEPT ![f] = Tail(serverSock[f])]
             /\ task' = [task EXCEPT ![w] = Head(serverSock[f])]
             /\ Goto(w, "srvPut")
    <3>1. f \in Families BY <1>1, <1>4 DEF Typed, Held, HeldBy, ReceiveQuery, At, ServerLabels
    <3>2. serverSock[f] \in Seq(Queries) BY <1>2, <3>1 DEF TypedNet
    <3>3. /\ Head(serverSock[f]) = serverSock[f][1] /\ 1 \in DOMAIN serverSock[f]
          /\ DOMAIN serverSock[f] = 1 .. Len(serverSock[f]) /\ Len(serverSock[f]) \in Nat \ {0}
          /\ DOMAIN Tail(serverSock[f]) = 1 .. Len(serverSock[f]) - 1
          /\ \A n \in 1 .. Len(serverSock[f]) - 1 : Tail(serverSock[f])[n] = serverSock[f][n + 1]
      BY <2>2, <3>2, PopFacts
    <3>4. /\ serverSock'[f] = Tail(serverSock[f])
          /\ \A g \in Families \ {f} : serverSock'[g] = serverSock[g]
      BY <1>2, <2>2, <3>1 DEF TypedNet
    <3>5. pc'[w] = "srvPut" /\ task'[w] = serverSock[f][1]
      BY <1>2, <2>2, <3>3 DEF TypedWork, Goto
    <3>6. Elsewhere(w) BY <1>2, <1>4, OthersStay DEF WorkerStep, ServerStep
    <3>7. UNCHANGED <<sent, index>> BY <1>4 DEF ReceiveQuery, poolVars
    <3> DEFINE from(g, n) == IF g = f THEN n + 1 ELSE n
    <3>8. ASSUME NEW g \in Families, NEW n \in DOMAIN serverSock'[g]
          PROVE  /\ from(g, n) \in DOMAIN serverSock[g]
                 /\ serverSock'[g][n] = serverSock[g][from(g, n)]
                 /\ g = f => n # 0 /\ n \in Nat
      <4>1. CASE g = f
        <5>1. n \in 1 .. Len(serverSock[f]) - 1 BY <3>3, <3>4, <3>8, <4>1
        <5>2. n \in Nat \ {0} /\ n + 1 \in 1 .. Len(serverSock[f]) BY <3>3, <5>1
        <5>3. serverSock'[f][n] = serverSock[f][n + 1] BY <3>3, <3>4, <5>1
        <5>4. QED BY <3>3, <4>1, <5>2, <5>3
      <4>2. CASE g # f BY <3>4, <3>8, <4>2
      <4>3. QED BY <4>1, <4>2
    <3>9. ASSUME NEW g \in Families, NEW h \in Families,
                 NEW n \in DOMAIN serverSock'[g], NEW m \in DOMAIN serverSock'[h],
                 serverSock'[g][n] = serverSock'[h][m]
          PROVE  g = h /\ n = m
      <4>1. g = h /\ from(g, n) = from(h, m) BY <1>1, <3>8, <3>9 DEF Fresh
      <4>2. QED BY <3>8, <4>1
    <3>10. \A g \in Families : \A n \in DOMAIN serverSock'[g] :
              /\ serverSock'[g][n] \in sent' /\ index'[serverSock'[g][n]] = NoIndex
              /\ serverSock'[g][n] # task'[w]
      <4>1. SUFFICES ASSUME NEW g \in Families, NEW n \in DOMAIN serverSock'[g]
                     PROVE  /\ serverSock[g][from(g, n)] \in sent
                            /\ index[serverSock[g][from(g, n)]] = NoIndex
                            /\ serverSock[g][from(g, n)] # serverSock[f][1]
        BY <3>5, <3>7, <3>8
      <4>2. from(g, n) \in DOMAIN serverSock[g] /\ (g = f => from(g, n) # 1) BY <3>8
      <4>3. QED BY <1>1, <3>1, <3>3, <4>2 DEF Fresh
    <3>11. \A v \in Workers \ {w} : pc'[v] = "srvPut" =>
              /\ task'[v] \in sent' /\ index'[task'[v]] = NoIndex
              /\ task'[v] # task'[w]
              /\ \A g \in Families : \A n \in DOMAIN serverSock'[g] : serverSock'[g][n] # task'[v]
      BY <1>1, <3>1, <3>3, <3>5, <3>6, <3>7, <3>8 DEF Fresh, Elsewhere
    <3>12. task'[w] \in sent' /\ index'[task'[w]] = NoIndex BY <1>1, <3>1, <3>3, <3>5, <3>7 DEF Fresh
    <3>13. \A u, v \in Workers :
              pc'[u] = "srvPut" /\ pc'[v] = "srvPut" /\ task'[u] = task'[v] => u = v
      BY <1>1, <3>6, <3>11 DEF Fresh, Elsewhere
    <3>14. \A q \in Queries : index'[q] # NoIndex => q \in sent' BY <1>1, <3>7 DEF Fresh
    <3>15. QED BY <3>9, <3>10, <3>11, <3>12, <3>13, <3>14 DEF Fresh
  <2>3. QED BY <1>4, <2>1, <2>2 DEF ReceiveQuery
<1>5. ASSUME NEW w \in Workers, PutTask(w) PROVE Fresh'
  <2>1. pc[w] = "srvPut" /\ index' = [index EXCEPT ![task[w]] = Head(indexQueue)]
    BY <1>5 DEF PutTask, At
  <2>2. UNCHANGED <<sent, serverSock>> BY <1>5 DEF PutTask, netVars
  <2>3. Elsewhere(w) BY <1>2, <1>5, OthersStay DEF WorkerStep, ServerStep
  <2>4. pc'[w] = "srvPush" BY <1>2, <1>5 DEF PutTask, Goto, TypedWork
  <2>5. \A q \in Queries : q # task[w] => index'[q] = index[q] BY <1>2, <2>1 DEF TypedPool
  <2>6. task[w] \in sent BY <1>1, <2>1 DEF Fresh
  <2>7. \A v \in Workers : pc'[v] = "srvPut" =>
           pc[v] = "srvPut" /\ v # w /\ task'[v] = task[v] /\ task[v] # task[w]
    BY <1>1, <2>1, <2>3, <2>4 DEF Fresh, Elsewhere
  <2>8. \A g \in Families : \A n \in DOMAIN serverSock[g] :
           serverSock[g][n] \in sent /\ serverSock[g][n] # task[w]
    BY <1>1, <2>1 DEF Fresh
  <2>9. sent \subseteq Queries BY <1>2 DEF TypedNet
  <2>10. \A q \in Queries : index'[q] # NoIndex => q \in sent' BY <1>1, <2>2, <2>5, <2>6 DEF Fresh
  <2>11. \A g \in Families : \A n \in DOMAIN serverSock'[g] :
            serverSock'[g][n] \in sent' /\ index'[serverSock'[g][n]] = NoIndex
    BY <1>1, <2>2, <2>5, <2>8, <2>9 DEF Fresh
  <2>12. \A v \in Workers : pc'[v] = "srvPut" =>
            /\ task'[v] \in sent' /\ index'[task'[v]] = NoIndex
            /\ \A g \in Families : \A n \in DOMAIN serverSock'[g] : serverSock'[g][n] # task'[v]
    BY <1>1, <2>2, <2>5, <2>7, <2>9 DEF Fresh
  <2>13. QED BY <1>1, <2>2, <2>7, <2>10, <2>11, <2>12 DEF Fresh
<1>6. ASSUME NEW w \in Workers, WorkerStep(w), ~ReceiveQuery(w), ~PutTask(w) PROVE Fresh'
  BY <1>1, <1>6, FreshElsewhere, FreshSame
<1>7. CASE MainStep \/ DeadlinePasses \/ AlarmFires \/ UNCHANGED vars
  <2>1. UNCHANGED <<sent, serverSock, index, pc, task>>
    BY <1>7 DEF MainStep, Dispatch, DeadlinePasses, AlarmFires, vars, netVars, poolVars, workVars
  <2>2. QED BY <1>1, <2>1, FreshSame
<1>8. ASSUME NEW m \in wire, RemoteAnswers(m) PROVE Fresh'
  <2>1. UNCHANGED <<sent, serverSock, index, pc, task>>
    BY <1>8 DEF RemoteAnswers, poolVars, workVars
  <2>2. QED BY <1>1, <2>1, FreshSame
<1>9. QED BY <1>1, <1>3, <1>4, <1>5, <1>6, <1>7, <1>8 DEF Next, Environment

-----------------------------------------------------------------------------
(* Only PutTask registers, and only under the index it writes down. *)
LEMMA WhoRegisters ==
    ASSUME Typed, [Next]_vars
    PROVE  \/ UNCHANGED <<pool, index>>
           \/ \E i \in Indices : pool' = [pool EXCEPT ![i] = NoQuery] /\ UNCHANGED index
           \/ \E w \in Workers : PutTask(w)
<1> USE DEF poolVars
<1>1. CASE MainStep \/ Environment \/ UNCHANGED vars
  BY <1>1 DEF MainStep, Dispatch, Environment, ClientSends, RemoteAnswers, DeadlinePasses,
              AlarmFires, vars
<1>2. ASSUME NEW w \in Workers, StartJob(w) \/ ServerStep(w)
      PROVE  UNCHANGED <<pool, index>> \/ PutTask(w)
  BY <1>2 DEF StartJob, ServerStep, ReceiveQuery, PutTaskUnderflows, PushTimer, IsOnlyTimer,
              ArmTimer, ForwardQuery, Crash
<1>3. ASSUME NEW w \in Workers, ClientStep(w)
      PROVE  \/ UNCHANGED <<pool, index>>
             \/ \E i \in Indices : pool' = [pool EXCEPT ![i] = NoQuery] /\ UNCHANGED index
  <2>1. CASE AnswerDelTask(w)
    <3>1. packet[w].id \in Indices
      BY <2>1 DEF Typed, Held, HeldBy, AnswerDelTask, At, ClientLabels, Packets
    <3>2. QED BY <2>1, <3>1 DEF AnswerDelTask, DelTask
  <2>2. CASE ~AnswerDelTask(w)
    BY <1>3, <2>2 DEF ClientStep, ReceiveAnswer, AnswerHasTask, AnswerGetTask, AnswerGetsNull,
                      SendAnswer, Crash
  <2>3. QED BY <2>1, <2>2
<1>4. ASSUME NEW w \in Workers, TimeoutStep(w)
      PROVE  \/ UNCHANGED <<pool, index>>
             \/ \E i \in Indices : pool' = [pool EXCEPT ![i] = NoQuery] /\ UNCHANGED index
  <2>1. CASE TimerDelTask(w)
    <3>1. index[timer[w]] \in Indices BY <2>1 DEF Typed, Held, HeldBy, TimerDelTask, At
    <3>2. QED BY <2>1, <3>1 DEF TimerDelTask, DelTask
  <2>2. CASE ~TimerDelTask(w)
    BY <1>4, <2>2 DEF TimeoutStep, ReadClock, HeapEmpty, TopExpired, PopTimer, HeapUnderflows,
                      TimerHasTask, TimerGetTask, TimerGetsNull, SendServfail, TickEmpty,
                      TickTop, TickOn, TickOff, Crash
  <2>3. QED BY <2>1, <2>2
<1>5. QED BY <1>1, <1>2, <1>3, <1>4 DEF Next, WorkerStep

(* What PutTask does to the pool, given that the query is fresh.             *)
LEMMA PutTaskFacts ==
    ASSUME Typed, Fresh, UnderItsIndex, NEW w \in Workers, PutTask(w)
    PROVE  /\ task[w] \in Queries /\ Head(indexQueue) \in Indices
           /\ pool' = [pool EXCEPT ![Head(indexQueue)] = task[w]]
           /\ index' = [index EXCEPT ![task[w]] = Head(indexQueue)]
           /\ \A i \in Indices : pool[i] # task[w]
<1>1. TypedPool BY TypeParts DEF Typed
<1>2. pc[w] = "srvPut" /\ task[w] \in Queries
  BY DEF Typed, Held, HeldBy, PutTask, At, ServerLabels
<1>3. Head(indexQueue) \in Indices BY <1>1, PopFacts DEF PutTask, TypedPool
<1>4. index[task[w]] = NoIndex BY <1>2 DEF Fresh
<1>5. \A i \in Indices : pool[i] # task[w]
  <2>1. SUFFICES ASSUME NEW i \in Indices, pool[i] = task[w] PROVE FALSE OBVIOUS
  <2>2. NoQuery \notin Queries BY RelayAssumption
  <2>3. index[task[w]] = i BY <1>2, <2>1, <2>2 DEF UnderItsIndex
  <2>4. QED BY <1>4, <2>3, RelayAssumption DEF NoIndex, Indices
<1>6. QED BY <1>2, <1>3, <1>5 DEF PutTask

LEMMA UnderItsIndexStep == Typed /\ Fresh /\ UnderItsIndex /\ [Next]_vars => UnderItsIndex'
<1>1. SUFFICES ASSUME Typed, Fresh, UnderItsIndex, [Next]_vars PROVE UnderItsIndex' OBVIOUS
<1>2. TypedPool BY <1>1, TypeParts DEF Typed
<1>3. CASE UNCHANGED <<pool, index>> BY <1>1, <1>3 DEF UnderItsIndex
<1>4. ASSUME NEW i \in Indices, pool' = [pool EXCEPT ![i] = NoQuery], UNCHANGED index
      PROVE  UnderItsIndex'
  BY <1>1, <1>2, <1>4 DEF UnderItsIndex, TypedPool
<1>5. ASSUME NEW w \in Workers, PutTask(w) PROVE UnderItsIndex'
  <2>1. /\ task[w] \in Queries /\ Head(indexQueue) \in Indices
        /\ pool' = [pool EXCEPT ![Head(indexQueue)] = task[w]]
        /\ index' = [index EXCEPT ![task[w]] = Head(indexQueue)]
        /\ \A i \in Indices : pool[i] # task[w]
    BY <1>1, <1>5, PutTaskFacts
  <2>2. QED BY <1>1, <1>2, <2>1 DEF UnderItsIndex, TypedPool
<1>6. QED BY <1>1, <1>3, <1>4, <1>5, WhoRegisters

-----------------------------------------------------------------------------
(* Where the timer of a pending query may be. *)
InHand(w, q) ==
    \/ task[w] = q /\ pc[w] = "srvPush"
    \/ timer[w] = q /\ pc[w] \in {"tmoHas", "tmoGet", "tmoDel"}

(* Every other step of w takes no timer out of its hand or the heap.         *)
LEMMA PlainStep ==
    ASSUME Typed, NEW w \in Workers, WorkerStep(w),
           ~PushTimer(w), ~PopTimer(w), ~TimerHasTask(w), ~TimerGetTask(w), ~TimerDelTask(w)
    PROVE  heap' = heap /\ \A q \in Queries : InHand(w, q) => InHand(w, q)'
<1> USE DEF timeVars, At
<1> DEFINE EmptyHanded == pc[w] \notin {"srvPush", "tmoHas", "tmoGet", "tmoDel"}
<1>1. SUFFICES heap' = heap /\ (EmptyHanded \/ UNCHANGED workVars) BY DEF InHand, workVars
<1>2. CASE StartJob(w) BY <1>2 DEF StartJob
<1>3. CASE ServerStep(w)
  BY <1>3 DEF ServerStep, ReceiveQuery, PutTask, PutTaskUnderflows, IsOnlyTimer, ArmTimer,
              ForwardQuery, Crash
<1>4. CASE ClientStep(w)
  BY <1>4 DEF ClientStep, ReceiveAnswer, AnswerHasTask, AnswerGetTask, AnswerGetsNull,
              AnswerDelTask, SendAnswer, Crash
<1>5. CASE TimeoutStep(w)
  BY <1>5 DEF TimeoutStep, ReadClock, HeapEmpty, TopExpired, HeapUnderflows, TimerGetsNull,
              SendServfail, TickEmpty, TickTop, TickOn, TickOff, Crash
<1>6. QED BY <1>2, <1>3, <1>4, <1>5 DEF WorkerStep

(* No step loses the timer of a query that stays registered. *)
LEMMA PendingStep ==
    Typed /\ Fresh /\ UnderItsIndex /\ PendingHasTimer /\ [Next]_vars => PendingHasTimer'
<1>1. SUFFICES ASSUME Typed, Fresh, UnderItsIndex, PendingHasTimer, [Next]_vars,
                      NEW q \in Queries, Registered(q)'
               PROVE  q \in heap' \/ \E w \in Workers : InHand(w, q)'
  BY DEF PendingHasTimer, InHand
<1>2. TypedPool /\ TypedWork /\ TypedTime BY <1>1, TypeParts DEF Typed
<1>3. Registered(q) => q \in heap \/ \E w \in Workers : InHand(w, q)
  BY <1>1 DEF PendingHasTimer, InHand
<1>4. Registered(q) \/ \E w \in Workers : PutTask(w) /\ task[w] = q
  <2>1. PICK i \in Indices : pool'[i] = q BY <1>1 DEF Registered
  <2>2. CASE UNCHANGED <<pool, index>> BY <2>1, <2>2 DEF Registered
  <2>3. ASSUME NEW k \in Indices, pool' = [pool EXCEPT ![k] = NoQuery] PROVE Registered(q)
    <3>1. NoQuery \notin Queries BY RelayAssumption
    <3>2. pool[i] = q BY <1>2, <2>1, <2>3, <3>1 DEF TypedPool
    <3>3. QED BY <3>2 DEF Registered
  <2>4. ASSUME NEW w \in Workers, PutTask(w) PROVE Registered(q) \/ task[w] = q
    <3>1. Head(indexQueue) \in Indices /\ pool' = [pool EXCEPT ![Head(indexQueue)] = task[w]]
      BY <1>1, <2>4, PutTaskFacts
    <3>2. pool[i] = q \/ task[w] = q BY <1>2, <2>1, <3>1 DEF TypedPool
    <3>3. QED BY <3>2 DEF Registered
  <2>5. QED BY <1>1, <2>2, <2>3, <2>4, WhoRegisters
<1>5. ASSUME NEW w \in Workers, PutTask(w), task[w] = q PROVE InHand(w, q)'
  BY <1>2, <1>5 DEF PutTask, Goto, InHand, TypedWork
<1>6. ASSUME Registered(q), NEW w \in Workers, WorkerStep(w),
             heap \ {q} \subseteq heap',
             q \in heap => q \in heap' \/ InHand(w, q)',
             InHand(w, q) => q \in heap' \/ InHand(w, q)'
      PROVE  q \in heap' \/ \E v \in Workers : InHand(v, q)'
  <2>1. CASE q \in heap BY <1>6, <2>1
  <2>2. ASSUME NEW v \in Workers, InHand(v, q), v # w PROVE InHand(v, q)'
    BY <1>2, <1>6, <2>2, OthersStay DEF InHand, Elsewhere
  <2>3. QED BY <1>3, <1>6, <2>1, <2>2
<1>7. ASSUME Registered(q), NEW w \in Workers, PushTimer(w)
      PROVE  q \in heap' \/ \E v \in Workers : InHand(v, q)'
  <2>1. pc[w] = "srvPush" /\ heap' = heap \cup {task[w]} BY <1>7 DEF PushTimer, At
  <2>2. QED BY <1>6, <1>7, <2>1 DEF WorkerStep, ServerStep, InHand
<1>8. ASSUME Registered(q), NEW w \in Workers, PopTimer(w)
      PROVE  q \in heap' \/ \E v \in Workers : InHand(v, q)'
  <2>1. PICK p \in heap : heap' = heap \ {p} /\ timer' = [timer EXCEPT ![w] = p]
    BY <1>8 DEF PopTimer
  <2>2. pc[w] = "tmoPop" /\ pc'[w] = "tmoHas" /\ timer'[w] = p
    BY <1>2, <1>8, <2>1 DEF PopTimer, At, Goto, TypedWork
  <2>3. q \in heap => q \in heap' \/ InHand(w, q)' BY <2>1, <2>2 DEF InHand
  <2>4. ~InHand(w, q) BY <2>2 DEF InHand
  <2>5. CASE q \in heap BY <2>3, <2>5
  <2>6. ASSUME NEW v \in Workers, InHand(v, q) PROVE InHand(v, q)'
    <3>1. v # w BY <2>4, <2>6
    <3>2. Elsewhere(w) BY <1>2, <1>8, OthersStay DEF WorkerStep, TimeoutStep
    <3>3. QED BY <2>6, <3>1, <3>2 DEF InHand, Elsewhere
  <2>7. QED BY <1>3, <1>8, <2>5, <2>6
<1>9. ASSUME Registered(q) PROVE pool[index[q]] = q
  <2>1. PICK i \in Indices : pool[i] = q BY <1>9 DEF Registered
  <2>2. NoQuery \notin Queries BY RelayAssumption
  <2>3. QED BY <1>1, <2>1, <2>2 DEF UnderItsIndex
<1>10. ASSUME Registered(q), NEW w \in Workers, TimerHasTask(w) \/ TimerGetTask(w)
       PROVE  q \in heap' \/ \E v \in Workers : InHand(v, q)'
  <2>1. heap' = heap BY <1>10 DEF TimerHasTask, TimerGetTask, timeVars
  <2>2. pc[w] \in {"tmoHas", "tmoGet"} BY <1>10 DEF TimerHasTask, TimerGetTask, At
  <2>3. ASSUME timer[w] = q PROVE InHand(w, q)'
    <3>1. Alive(q) BY <1>10 DEF Alive, Registered
    <3>2. pool[index[q]] = q /\ q # NoQuery BY <1>9, <1>10, RelayAssumption
    <3>3. timer' = timer /\ pc'[w] \in {"tmoGet", "tmoDel"}
      <4>1. CASE TimerHasTask(w)
        BY <1>2, <2>3, <3>1, <3>2, <4>1 DEF TimerHasTask, Goto, TypedWork
      <4>2. CASE TimerGetTask(w)
        BY <1>2, <2>3, <3>2, <4>2 DEF TimerGetTask, Goto, TypedWork
      <4>3. QED BY <1>10, <4>1, <4>2
    <3>4. QED BY <2>3, <3>3 DEF InHand
  <2>4. QED BY <1>6, <1>10, <2>1, <2>2, <2>3 DEF WorkerStep, TimeoutStep, InHand
<1>11. ASSUME Registered(q), NEW w \in Workers, TimerDelTask(w)
       PROVE  q \in heap' \/ \E v \in Workers : InHand(v, q)'
  <2>1. /\ pc[w] = "tmoDel" /\ heap' = heap
        /\ pool' = [pool EXCEPT ![index[timer[w]]] = NoQuery]
    BY <1>11 DEF TimerDelTask, At, DelTask, timeVars
  <2>2. timer[w] # q
    <3>1. SUFFICES ASSUME timer[w] = q PROVE FALSE OBVIOUS
    <3>2. PICK i \in Indices : pool'[i] = q BY <1>1 DEF Registered
    <3>3. NoQuery \notin Queries BY RelayAssumption
    <3>4. i # index[q] /\ pool[i] = q BY <1>2, <2>1, <3>1, <3>2, <3>3 DEF TypedPool
    <3>5. QED BY <1>1, <3>3, <3>4 DEF UnderItsIndex
  <2>3. QED BY <1>6, <1>11, <2>1, <2>2 DEF WorkerStep, TimeoutStep, InHand
<1>12. ASSUME Registered(q), NEW w \in Workers, WorkerStep(w),
              ~PushTimer(w), ~PopTimer(w), ~TimerHasTask(w), ~TimerGetTask(w), ~TimerDelTask(w)
       PROVE  q \in heap' \/ \E v \in Workers : InHand(v, q)'
  BY <1>1, <1>6, <1>12, PlainStep
<1>13. CASE Registered(q) /\ (MainStep \/ Environment \/ UNCHANGED vars)
  <2>1. UNCHANGED <<heap, pc, task, timer>>
    BY <1>13 DEF MainStep, Dispatch, Environment, ClientSends, RemoteAnswers, DeadlinePasses,
                 AlarmFires, vars, timeVars, workVars
  <2>2. QED BY <1>3, <1>13, <2>1 DEF InHand
<1>14. QED
  BY <1>1, <1>4, <1>5, <1>7, <1>8, <1>10, <1>11, <1>12, <1>13 DEF Next

(* A registered query can always still time out: from PutTask on, its timer  *)
(* is about to be pushed, in the heap, or popped by a handler that goes on   *)
(* to remove the query.  Not even an index that is freed and used again      *)
(* between two steps of UdpTimeoutHandler (handler.cpp:303-312) loses it.    *)
THEOREM TimerIsKept == Spec => []PendingHasTimer
<1>1. Init => Served
  <2>1. SUFFICES ASSUME Init PROVE Fresh /\ UnderItsIndex /\ PendingHasTimer
    BY TypedInit DEF Served
  <2>2. NoQuery \notin Queries BY RelayAssumption
  <2>3. Fresh BY <2>1 DEF Init, Fresh
  <2>4. UnderItsIndex BY <2>1 DEF Init, UnderItsIndex
  <2>5. PendingHasTimer BY <2>1, <2>2 DEF Init, PendingHasTimer, Registered
  <2>6. QED BY <2>3, <2>4, <2>5
<1>2. Served /\ [Next]_vars => Served'
  BY TypedStep, FreshStep, UnderItsIndexStep, PendingStep DEF Served
<1>3. Served => PendingHasTimer BY DEF Served
<1>4. QED BY <1>1, <1>2, <1>3, PTL DEF Spec
-----------------------------------------------------------------------------
(* While no index has been used twice, the queue still holds the unused ones *)
(* in order, and no two queries have the same.                               *)
FirstUse ==
    made <= MaxIndex + 1 =>
        /\ \A n \in 1 .. MaxIndex + 1 - made :
              n \in DOMAIN indexQueue /\ indexQueue[n] = made + n - 1
        /\ \A q \in Queries : index[q] < made
        /\ \A p, q \in Queries : index[p] = index[q] /\ index[p] # NoIndex => p = q

(* A handler about to call DelTask has the task of that index in its hands.  *)
RightTask(w) ==
    /\ pc[w] = "cliDel" => index[task[w]] = packet[w].id
    /\ pc[w] = "tmoDel" => task[w] = timer[w]

RightTasks == \A w \in Workers : RightTask(w)

(* A query whose reply is on its way. *)
Answering(q) ==
    \/ Replied(q)
    \/ \E w \in Workers : task[w] = q /\ pc[w] \in {"cliSend", "tmoSend"}

Remembered == Typed /\ Fresh /\ UnderItsIndex /\ FirstUse /\ RightTasks /\ NoForgottenQuery

-----------------------------------------------------------------------------
(* The pool changes in three places. *)
LEMMA WhoChangesPool ==
    ASSUME [Next]_vars
    PROVE  \/ UNCHANGED poolVars
           \/ \E w \in Workers : PutTask(w) \/ AnswerDelTask(w) \/ TimerDelTask(w)
<1>1. CASE UNCHANGED vars BY <1>1 DEF vars
<1>2. CASE MainStep \/ Environment
  BY <1>2 DEF MainStep, Dispatch, Environment, ClientSends, RemoteAnswers, DeadlinePasses,
              AlarmFires
<1>3. ASSUME NEW w \in Workers, StartJob(w) \/ ServerStep(w)
      PROVE  UNCHANGED poolVars \/ PutTask(w)
  BY <1>3 DEF StartJob, ServerStep, ReceiveQuery, PutTaskUnderflows, PushTimer,
              IsOnlyTimer, ArmTimer, ForwardQuery, Crash
<1>4. ASSUME NEW w \in Workers, ClientStep(w) PROVE UNCHANGED poolVars \/ AnswerDelTask(w)
  BY <1>4 DEF ClientStep, ReceiveAnswer, AnswerHasTask, AnswerGetTask, AnswerGetsNull,
              SendAnswer, Crash
<1>5. ASSUME NEW w \in Workers, TimeoutStep(w) PROVE UNCHANGED poolVars \/ TimerDelTask(w)
  BY <1>5 DEF TimeoutStep, ReadClock, HeapEmpty, TopExpired, PopTimer, HeapUnderflows,
              TimerHasTask, TimerGetTask, TimerGetsNull, SendServfail, TickEmpty, TickTop,
              TickOn, TickOff, Crash
<1>6. QED BY <1>1, <1>2, <1>3, <1>4, <1>5 DEF Next, WorkerStep

(* What the two calls of DelTask do, given that they delete the task in hand. *)
LEMMA DeleteFacts ==
    ASSUME Typed, RightTasks, NEW w \in Workers, AnswerDelTask(w) \/ TimerDelTask(w)
    PROVE  \E i \in Indices :
              /\ DelTask(i)
              /\ task[w] \in Queries /\ index[task[w]] = i
              /\ task' = task /\ pc'[w] \in {"cliSend", "tmoSend"}
<1>1. TypedWork BY TypeParts DEF Typed
<1>2. HeldBy(w) /\ RightTask(w) BY DEF Typed, Held, RightTasks
<1>3. CASE AnswerDelTask(w)
  <2>1. packet[w].id \in Indices /\ task[w] \in Queries /\ index[task[w]] = packet[w].id
    BY <1>2, <1>3 DEF AnswerDelTask, At, HeldBy, ClientLabels, RightTask, Packets
  <2>2. QED BY <1>1, <1>3, <2>1 DEF AnswerDelTask, Goto, TypedWork
<1>4. CASE TimerDelTask(w)
  <2>1. index[timer[w]] \in Indices /\ task[w] \in Queries /\ task[w] = timer[w]
    BY <1>2, <1>4 DEF TimerDelTask, At, HeldBy, RightTask
  <2>2. QED BY <1>1, <1>4, <2>1 DEF TimerDelTask, Goto, TypedWork
<1>5. QED BY <1>3, <1>4

(* Every index is used a first time, in order, before any is used again. *)
LEMMA FirstUseStep ==
    Typed /\ RightTasks /\ FirstUse /\ [Next]_vars => FirstUse'
<1>1. SUFFICES ASSUME Typed, RightTasks, FirstUse, [Next]_vars PROVE FirstUse' OBVIOUS
<1>2. TypedPool BY <1>1, TypeParts DEF Typed
<1>3. MaxIndex \in Nat BY RelayAssumption
<1>4. CASE UNCHANGED poolVars BY <1>1, <1>4 DEF FirstUse, poolVars
<1>5. ASSUME NEW w \in Workers, PutTask(w) PROVE FirstUse'
  <2>1. task[w] \in Queries
    BY <1>1, <1>5 DEF PutTask, At, Typed, Held, HeldBy, ServerLabels
  <2>2. /\ indexQueue # <<>> /\ indexQueue' = Tail(indexQueue)
        /\ index' = [index EXCEPT ![task[w]] = Head(indexQueue)] /\ made' = made + 1
    BY <1>5 DEF PutTask
  <2>3. SUFFICES ASSUME made <= MaxIndex
                 PROVE  /\ \A n \in 1 .. MaxIndex - made :
                              n \in DOMAIN indexQueue' /\ indexQueue'[n] = made + n
                        /\ \A q \in Queries : index'[q] < made + 1
                        /\ \A p, q \in Queries :
                              index'[p] = index'[q] /\ index'[p] # NoIndex => p = q
    BY <1>2, <1>3, <2>2 DEF FirstUse, TypedPool
  <2>4. /\ \A n \in 1 .. MaxIndex + 1 - made :
              n \in DOMAIN indexQueue /\ indexQueue[n] = made + n - 1
        /\ \A q \in Queries : index[q] < made
        /\ \A p, q \in Queries : index[p] = index[q] /\ index[p] # NoIndex => p = q
    BY <1>1, <1>2, <1>3, <2>3 DEF FirstUse, TypedPool
  <2>5. indexQueue \in Seq(Indices) /\ made \in Nat /\ index \in [Queries -> Indices \cup {NoIndex}]
    BY <1>2 DEF TypedPool
  <2>6. /\ Head(indexQueue) = indexQueue[1]
        /\ Len(indexQueue) \in Nat /\ DOMAIN indexQueue = 1 .. Len(indexQueue)
        /\ DOMAIN Tail(indexQueue) = 1 .. Len(indexQueue) - 1
        /\ \A n \in 1 .. Len(indexQueue) - 1 : Tail(indexQueue)[n] = indexQueue[n + 1]
    BY <2>2, <2>5, PopFacts
  <2>7. Head(indexQueue) = made BY <1>3, <2>3, <2>4, <2>5, <2>6
  <2>8. ASSUME NEW n \in 1 .. MaxIndex - made
        PROVE  n \in DOMAIN indexQueue' /\ indexQueue'[n] = made + n
    <3>1. n + 1 \in 1 .. MaxIndex + 1 - made BY <1>3, <2>5
    <3>2. n + 1 \in 1 .. Len(indexQueue) /\ indexQueue[n + 1] = made + n
      BY <2>4, <2>5, <2>6, <3>1
    <3>3. n \in 1 .. Len(indexQueue) - 1 BY <2>6, <3>2
    <3>4. QED BY <2>2, <2>6, <3>2, <3>3
  <2>9. \A q \in Queries : index'[q] = IF q = task[w] THEN made ELSE index[q]
    BY <2>2, <2>5, <2>7
  <2>10. \A q \in Queries : index[q] \in Int BY <1>3, <2>5 DEF Indices, NoIndex
  <2>11. QED BY <2>4, <2>5, <2>8, <2>9, <2>10
<1>6. ASSUME NEW w \in Workers, AnswerDelTask(w) \/ TimerDelTask(w) PROVE FirstUse'
  <2>1. PICK i \in Indices : DelTask(i) BY <1>1, <1>6, DeleteFacts
  <2>2. UNCHANGED <<index, made>> BY <2>1 DEF DelTask
  <2>3. \A n \in DOMAIN indexQueue : n \in DOMAIN indexQueue' /\ indexQueue'[n] = indexQueue[n]
    BY <1>2, <2>1, PushFacts DEF DelTask, TypedPool
  <2>4. QED BY <1>1, <2>2, <2>3 DEF FirstUse
<1>7. QED BY <1>1, <1>4, <1>5, <1>6, WhoChangesPool

(* Only these two steps take a task to delete. *)
LEMMA WhoTakesTask ==
    ASSUME TypedWork, TypedLoop, NEW w \in Workers, WorkerStep(w), ~UNCHANGED workVars,
           pc'[w] \in {"cliDel", "tmoDel"}
    PROVE  AnswerGetTask(w) \/ TimerGetTask(w)
<1> USE DEF TypedWork, Goto, Again, Return
<1>1. CASE StartJob(w)
  <2>1. Head(jobs) \in Jobs BY <1>1, PopFacts DEF TypedLoop, StartJob
  <2>2. pc'[w] \in {"srvRecv", "cliRecv", "tmoNow", "tickOff"}
    BY <1>1, <2>1, FirstStepOfJob DEF StartJob
  <2>3. QED BY <2>2
<1>2. CASE ServerStep(w)
  BY <1>2 DEF ServerStep, ReceiveQuery, PutTask, PutTaskUnderflows, PushTimer, IsOnlyTimer,
              ArmTimer, ForwardQuery, Crash
<1>3. CASE ClientStep(w)
  BY <1>3 DEF ClientStep, ReceiveAnswer, AnswerHasTask, AnswerGetsNull, AnswerDelTask,
              SendAnswer, Crash
<1>4. CASE TimeoutStep(w)
  BY <1>4 DEF TimeoutStep, ReadClock, HeapEmpty, TopExpired, PopTimer, HeapUnderflows,
              TimerHasTask, TimerGetsNull, TimerDelTask, SendServfail, TickEmpty, TickTop,
              TickOn, TickOff, Crash
<1>5. QED BY <1>1, <1>2, <1>3, <1>4 DEF WorkerStep

(* A query's index is written once, by PutTask. *)
LEMMA IndexIsKept ==
    ASSUME Typed, Fresh, RightTasks, [Next]_vars,
           NEW q \in Queries, index[q] # NoIndex
    PROVE  index'[q] = index[q]
<1>1. TypedPool BY TypeParts DEF Typed
<1>2. CASE UNCHANGED poolVars BY <1>2 DEF poolVars
<1>3. ASSUME NEW w \in Workers, PutTask(w) PROVE index'[q] = index[q]
  <2>1. index[task[w]] = NoIndex BY <1>3 DEF PutTask, At, Fresh
  <2>2. QED BY <1>1, <1>3, <2>1 DEF PutTask, TypedPool
<1>4. ASSUME NEW w \in Workers, AnswerDelTask(w) \/ TimerDelTask(w) PROVE index'[q] = index[q]
  BY <1>4 DEF AnswerDelTask, TimerDelTask, DelTask
<1>5. QED BY <1>2, <1>3, <1>4, WhoChangesPool

LEMMA RightTasksStep ==
    Typed /\ Fresh /\ UnderItsIndex /\ RightTasks /\ [Next]_vars => RightTasks'
<1>1. SUFFICES ASSUME Typed, Fresh, UnderItsIndex, RightTasks, [Next]_vars,
                      NEW w \in Workers
               PROVE  RightTask(w)'
  BY DEF RightTasks
<1>2. TypedLoop /\ TypedPool /\ TypedWork BY <1>1, TypeParts DEF Typed
<1>3. RightTask(w) /\ HeldBy(w) BY <1>1 DEF RightTasks, Typed, Held
<1>4. ASSUME pc'[w] = pc[w], task'[w] = task[w], packet'[w] = packet[w], timer'[w] = timer[w]
      PROVE  RightTask(w)'
  <2>1. ASSUME pc[w] = "cliDel" PROVE index'[task[w]] = packet[w].id
    <3>1. task[w] \in Queries /\ packet[w].id \in Indices /\ index[task[w]] = packet[w].id
      BY <1>3, <2>1 DEF HeldBy, RightTask, ClientLabels, Packets
    <3>2. index[task[w]] # NoIndex BY <3>1, RelayAssumption DEF Indices, NoIndex
    <3>3. PICK q \in Queries : q = task[w] BY <3>1
    <3>4. index'[q] = index[q] BY <1>1, <3>2, <3>3, IndexIsKept
    <3>5. QED BY <3>1, <3>3, <3>4
  <2>2. QED BY <1>3, <1>4, <2>1 DEF RightTask
<1>5. ASSUME AnswerGetTask(w) PROVE RightTask(w)'
  <2>1. packet[w].id \in Indices
    BY <1>3, <1>5 DEF AnswerGetTask, At, HeldBy, ClientLabels, Packets
  <2>2. index[pool[packet[w].id]] = packet[w].id
    BY <1>1, <1>5, <2>1 DEF AnswerGetTask, UnderItsIndex
  <2>3. index' = index BY <1>5 DEF AnswerGetTask, poolVars
  <2>4. pc'[w] = "cliDel" => task'[w] = pool[packet[w].id] /\ packet' = packet
    BY <1>2, <1>5 DEF AnswerGetTask, Goto, Return, TypedWork
  <2>5. pc'[w] # "tmoDel" BY <1>2, <1>5 DEF AnswerGetTask, Goto, Return, TypedWork
  <2>6. QED BY <2>2, <2>3, <2>4, <2>5 DEF RightTask
<1>6. ASSUME TimerGetTask(w) PROVE RightTask(w)'
  BY <1>2, <1>6 DEF TimerGetTask, Goto, Again, RightTask, TypedWork
<1>7. ASSUME WorkerStep(w) PROVE RightTask(w)'
  <2>1. CASE UNCHANGED workVars BY <1>4, <2>1 DEF workVars
  <2>2. CASE pc'[w] \notin {"cliDel", "tmoDel"} BY <2>2 DEF RightTask
  <2>3. QED BY <1>2, <1>5, <1>6, <1>7, <2>1, <2>2, WhoTakesTask
<1>8. ASSUME NEW v \in Workers, WorkerStep(v), v # w PROVE RightTask(w)'
  BY <1>2, <1>4, <1>8, OthersStay DEF Elsewhere
<1>9. CASE MainStep \/ Environment \/ UNCHANGED vars
  <2>1. UNCHANGED workVars
    BY <1>9 DEF MainStep, Dispatch, Environment, ClientSends, RemoteAnswers, DeadlinePasses,
                AlarmFires, vars
  <2>2. QED BY <1>4, <2>1 DEF workVars
<1>10. QED BY <1>1, <1>7, <1>8, <1>9 DEF Next

-----------------------------------------------------------------------------
(* A worker about to reply can only reply. *)
LEMMA RepliesNext ==
    ASSUME NEW w \in Workers, WorkerStep(w), pc[w] \in {"cliSend", "tmoSend"}
    PROVE  SendAnswer(w) \/ SendServfail(w)
<1> USE DEF At
<1>1. ~StartJob(w) BY DEF StartJob
<1>2. ~ServerStep(w)
  BY DEF ServerStep, ReceiveQuery, PutTask, PutTaskUnderflows, PushTimer, IsOnlyTimer,
         ArmTimer, ForwardQuery
<1>3. CASE ClientStep(w)
  BY <1>3 DEF ClientStep, ReceiveAnswer, AnswerHasTask, AnswerGetTask, AnswerGetsNull,
              AnswerDelTask
<1>4. CASE TimeoutStep(w)
  BY <1>4 DEF TimeoutStep, ReadClock, HeapEmpty, TopExpired, PopTimer, HeapUnderflows,
              TimerHasTask, TimerGetTask, TimerGetsNull, TimerDelTask, TickEmpty, TickTop,
              TickOn, TickOff
<1>5. QED BY <1>1, <1>2, <1>3, <1>4 DEF WorkerStep

(* A reply that is on its way is not lost. *)
LEMMA AnsweringStep ==
    ASSUME Typed, [Next]_vars, NEW q \in Queries, Answering(q)
    PROVE  Answering(q)'
<1>1. TypedWork BY TypeParts DEF Typed
<1>2. CASE Replied(q)
  <2>1. replies \subseteq replies' BY WhoReplies DEF SendAnswer, SendServfail
  <2>2. QED BY <1>2, <2>1 DEF Replied, Answering
<1>3. ASSUME NEW w \in Workers, task[w] = q, pc[w] \in {"cliSend", "tmoSend"}
      PROVE  Answering(q)'
  <2>1. CASE WorkerStep(w)
    <3>1. CASE SendAnswer(w)
      <4> DEFINE m == [to |-> task[w], question |-> packet[w].question, rcode |-> "answer"]
      <4>1. m \in replies' /\ m.to = q BY <1>3, <3>1 DEF SendAnswer
      <4>2. QED BY <4>1 DEF Replied, Answering
    <3>2. CASE SendServfail(w)
      <4> DEFINE m == [to |-> task[w], question |-> QuestionOf[task[w]], rcode |-> "servfail"]
      <4>1. m \in replies' /\ m.to = q BY <1>3, <3>2 DEF SendServfail
      <4>2. QED BY <4>1 DEF Replied, Answering
    <3>3. QED BY <1>3, <2>1, <3>1, <3>2, RepliesNext
  <2>2. ASSUME NEW v \in Workers, WorkerStep(v), v # w PROVE Answering(q)'
    BY <1>1, <1>3, <2>2, OthersStay DEF Elsewhere, Answering
  <2>3. CASE MainStep \/ Environment \/ UNCHANGED vars
    <3>1. UNCHANGED workVars
      BY <2>3 DEF MainStep, Dispatch, Environment, ClientSends, RemoteAnswers, DeadlinePasses,
                  AlarmFires, vars
    <3>2. QED BY <1>3, <3>1 DEF workVars, Answering
  <2>4. QED BY <2>1, <2>2, <2>3 DEF Next
<1>4. QED BY <1>2, <1>3 DEF Answering

(* A query leaves the pool in the hands of the handler that will reply to    *)
(* it, and no PutTask writes over it.                                        *)
LEMMA NoForgottenStep ==
    /\ Typed /\ Fresh /\ UnderItsIndex /\ FirstUse /\ RightTasks /\ NoForgottenQuery
    /\ [Next]_vars
    => NoForgottenQuery'
<1>1. SUFFICES ASSUME Typed, Fresh, UnderItsIndex, FirstUse, RightTasks, NoForgottenQuery,
                      [Next]_vars, made' <= MaxIndex + 1,
                      NEW q \in Queries, index'[q] # NoIndex, ~Registered(q)'
               PROVE  Answering(q)'
  BY DEF NoForgottenQuery, Answering
<1>2. TypedPool /\ TypedWork BY <1>1, TypeParts DEF Typed
<1>3. MaxIndex \in Nat /\ NoQuery \notin Queries BY RelayAssumption
<1>4. made <= MaxIndex + 1
  BY <1>1, <1>2, <1>3, WhoChangesPool
     DEF poolVars, PutTask, AnswerDelTask, TimerDelTask, DelTask, TypedPool
<1>5. ASSUME index[q] # NoIndex, ~Registered(q) PROVE Answering(q)'
  <2>1. Answering(q) BY <1>1, <1>4, <1>5 DEF NoForgottenQuery, Answering
  <2>2. QED BY <1>1, <2>1, AnsweringStep
<1>6. CASE UNCHANGED poolVars
  BY <1>1, <1>5, <1>6 DEF poolVars, Registered
<1>7. ASSUME NEW w \in Workers, PutTask(w) PROVE Answering(q)'
  <2>1. /\ task[w] \in Queries /\ Head(indexQueue) \in Indices
        /\ pool' = [pool EXCEPT ![Head(indexQueue)] = task[w]]
        /\ index' = [index EXCEPT ![task[w]] = Head(indexQueue)]
    BY <1>1, <1>7, PutTaskFacts
  <2>2. made' = made + 1 /\ indexQueue # <<>> BY <1>7 DEF PutTask
  <2>3. Head(indexQueue) = made
    <3>1. Head(indexQueue) = indexQueue[1] BY <1>2, <2>2, PopFacts DEF TypedPool
    <3>2. 1 \in 1 .. MaxIndex + 1 - made BY <1>1, <1>2, <1>3, <2>2 DEF TypedPool
    <3>3. indexQueue[1] = made + 1 - 1 BY <1>1, <1>4, <3>2 DEF FirstUse
    <3>4. QED BY <1>2, <3>1, <3>3 DEF TypedPool
  <2>4. pool[Head(indexQueue)] = NoQuery
    <3>1. SUFFICES ASSUME pool[Head(indexQueue)] # NoQuery PROVE FALSE OBVIOUS
    <3>2. pool[Head(indexQueue)] \in Queries BY <1>2, <2>1, <3>1 DEF TypedPool
    <3>3. index[pool[Head(indexQueue)]] = made BY <1>1, <2>1, <2>3, <3>1 DEF UnderItsIndex
    <3>4. index[pool[Head(indexQueue)]] < made BY <1>1, <1>4, <3>2 DEF FirstUse
    <3>5. QED BY <1>2, <3>3, <3>4 DEF TypedPool
  <2>5. q # task[w]
    <3>1. pool'[Head(indexQueue)] = task[w] BY <1>2, <2>1 DEF TypedPool
    <3>2. QED BY <1>1, <2>1, <3>1 DEF Registered
  <2>6. index[q] # NoIndex BY <1>1, <1>2, <2>1, <2>5 DEF TypedPool
  <2>7. ~Registered(q)
    <3>1. SUFFICES ASSUME NEW i \in Indices, pool[i] = q PROVE FALSE BY DEF Registered
    <3>2. pool'[i] = q BY <1>2, <1>3, <2>1, <2>4, <3>1 DEF TypedPool
    <3>3. QED BY <1>1, <3>2 DEF Registered
  <2>8. QED BY <1>5, <2>6, <2>7
<1>8. ASSUME NEW w \in Workers, AnswerDelTask(w) \/ TimerDelTask(w) PROVE Answering(q)'
  <2>1. PICK i \in Indices :
           /\ DelTask(i)
           /\ task[w] \in Queries /\ index[task[w]] = i
           /\ task' = task /\ pc'[w] \in {"cliSend", "tmoSend"}
    BY <1>1, <1>8, DeleteFacts
  <2>2. index' = index /\ pool' = [pool EXCEPT ![i] = NoQuery] BY <2>1 DEF DelTask
  <2>3. CASE ~Registered(q) BY <1>1, <1>5, <2>2, <2>3
  <2>4. CASE Registered(q)
    <3>1. PICK k \in Indices : pool[k] = q BY <2>4 DEF Registered
    <3>2. k = i
      <4>1. SUFFICES ASSUME k # i PROVE FALSE OBVIOUS
      <4>2. pool'[k] = q BY <1>2, <2>2, <3>1, <4>1 DEF TypedPool
      <4>3. QED BY <1>1, <4>2 DEF Registered
    <3>3. index[q] = i BY <1>1, <1>3, <3>1, <3>2 DEF UnderItsIndex
    <3>4. q = task[w]
      BY <1>1, <1>4, <2>1, <2>2, <3>3 DEF FirstUse
    <3>5. QED BY <2>1, <3>4 DEF Answering
  <2>5. QED BY <2>3, <2>4
<1>9. QED BY <1>1, <1>6, <1>7, <1>8, WhoChangesPool

(* Until an index is used a second time, DelTask never ends a query: whoever *)
(* removes it from the pool (handler.cpp:87, 312) holds its task and replies *)
(* to it, and PutTask finds an empty slot (task.cpp:15-24).                  *)
THEOREM NoneForgotten == Spec => []NoForgottenQuery
<1>1. Init => Remembered
  <2>1. SUFFICES ASSUME Init
                 PROVE  Fresh /\ UnderItsIndex /\ FirstUse /\ RightTasks /\ NoForgottenQuery
    BY TypedInit DEF Remembered
  <2>2. Fresh BY <2>1 DEF Init, Fresh
  <2>3. UnderItsIndex BY <2>1 DEF Init, UnderItsIndex
  <2>4. FirstUse
    BY <2>1, RelayAssumption DEF Init, FirstUse, InitialQueue, NoIndex
  <2>5. RightTasks BY <2>1 DEF Init, RightTasks, RightTask
  <2>6. NoForgottenQuery BY <2>1 DEF Init, NoForgottenQuery
  <2>7. QED BY <2>2, <2>3, <2>4, <2>5, <2>6
<1>2. Remembered /\ [Next]_vars => Remembered'
  BY TypedStep, FreshStep, UnderItsIndexStep, FirstUseStep, RightTasksStep, NoForgottenStep
     DEF Remembered
<1>3. Remembered => NoForgottenQuery BY DEF Remembered
<1>4. QED BY <1>1, <1>2, <1>3, PTL DEF Spec
-----------------------------------------------------------------------------
(* A query whose timer has been popped, and will not be pushed again.        *)
TimedOut(q) == Popped(q) /\ index[q] # NoIndex

(* A timer is not pushed twice: once in the heap nobody is about to push it. *)
PushedOnce ==
    /\ \A q \in heap : \A w \in Workers : pc[w] = "srvPush" => task[w] # q
    /\ \A v, w \in Workers :
          pc[v] = "srvPush" /\ pc[w] = "srvPush" /\ task[v] = task[w] => v = w

(* What UdpTimeoutHandler has in its hands, up to its reply, is popped.      *)
HandPopped(w) ==
    /\ pc[w] \in {"tmoHas", "tmoGet", "tmoDel"} => TimedOut(timer[w])
    /\ pc[w] = "tmoSend" => TimedOut(task[w])

HandsPopped == \A w \in Workers : HandPopped(w)

ServfailsPopped == \A m \in replies : m.rcode = "servfail" => TimedOut(m.to)

OwnTimers ==
    Typed /\ Fresh /\ UnderItsIndex /\ RightTasks /\ PushedOnce /\ HandsPopped /\ ServfailsPopped

(* One step puts a timer into the heap. *)
LEMMA WhoPushes ==
    ASSUME [Next]_vars
    PROVE  heap' \subseteq heap \/ \E w \in Workers : PushTimer(w)
<1> USE DEF timeVars
<1>1. CASE UNCHANGED vars BY <1>1 DEF vars
<1>2. CASE MainStep \/ Environment
  BY <1>2 DEF MainStep, Dispatch, Environment, ClientSends, RemoteAnswers, DeadlinePasses,
              AlarmFires
<1>3. ASSUME NEW w \in Workers, StartJob(w) \/ ServerStep(w)
      PROVE  heap' \subseteq heap \/ PushTimer(w)
  BY <1>3 DEF StartJob, ServerStep, ReceiveQuery, PutTask, PutTaskUnderflows, IsOnlyTimer,
              ArmTimer, ForwardQuery, Crash
<1>4. ASSUME NEW w \in Workers, ClientStep(w) PROVE heap' = heap
  BY <1>4 DEF ClientStep, ReceiveAnswer, AnswerHasTask, AnswerGetTask, AnswerGetsNull,
              AnswerDelTask, SendAnswer, Crash
<1>5. ASSUME NEW w \in Workers, TimeoutStep(w) PROVE heap' \subseteq heap
  BY <1>5 DEF TimeoutStep, ReadClock, HeapEmpty, TopExpired, PopTimer, HeapUnderflows,
              TimerHasTask, TimerGetTask, TimerGetsNull, TimerDelTask, SendServfail,
              TickEmpty, TickTop, TickOn, TickOff, Crash
<1>6. QED BY <1>1, <1>2, <1>3, <1>4, <1>5 DEF Next, WorkerStep

(* A worker about to push a timer was so before, or has just made the task.  *)
LEMMA WhoIsToPush ==
    ASSUME Typed, [Next]_vars, NEW w \in Workers, pc'[w] = "srvPush"
    PROVE  task'[w] = task[w] /\ (pc[w] = "srvPush" \/ PutTask(w))
<1>1. TypedWork /\ TypedLoop BY TypeParts DEF Typed
<1>2. CASE UNCHANGED workVars BY <1>2 DEF workVars
<1>3. CASE WorkerStep(w)
  <2> USE DEF TypedWork, Goto, Again, Return
  <2>1. CASE StartJob(w)
    <3>1. Head(jobs) \in Jobs BY <1>1, <2>1, PopFacts DEF TypedLoop, StartJob
    <3>2. pc'[w] \in {"srvRecv", "cliRecv", "tmoNow", "tickOff"}
      BY <1>1, <2>1, <3>1, FirstStepOfJob DEF StartJob
    <3>3. QED BY <3>2
  <2>2. CASE ServerStep(w)
    BY <1>1, <1>2, <2>2 DEF ServerStep, ReceiveQuery, PutTask, PutTaskUnderflows, PushTimer,
                            IsOnlyTimer, ArmTimer, ForwardQuery, Crash
  <2>3. CASE ClientStep(w)
    BY <1>1, <1>2, <2>3 DEF ClientStep, ReceiveAnswer, AnswerHasTask, AnswerGetTask,
                            AnswerGetsNull, AnswerDelTask, SendAnswer, Crash
  <2>4. CASE TimeoutStep(w)
    BY <1>1, <1>2, <2>4 DEF TimeoutStep, ReadClock, HeapEmpty, TopExpired, PopTimer,
                            HeapUnderflows, TimerHasTask, TimerGetTask, TimerGetsNull,
                            TimerDelTask, SendServfail, TickEmpty, TickTop, TickOn, TickOff,
                            Crash
  <2>5. QED BY <1>3, <2>1, <2>2, <2>3, <2>4 DEF WorkerStep
<1>4. ASSUME NEW v \in Workers, WorkerStep(v), v # w
      PROVE  task'[w] = task[w] /\ pc[w] = "srvPush"
  BY <1>1, <1>4, OthersStay DEF Elsewhere
<1>5. CASE MainStep \/ Environment \/ UNCHANGED vars
  BY <1>2, <1>5 DEF MainStep, Dispatch, Environment, ClientSends, RemoteAnswers,
                    DeadlinePasses, AlarmFires, vars
<1>6. QED BY <1>3, <1>4, <1>5 DEF Next

(* PutTask takes a query without an index, PushTimer one that has it.        *)
LEMMA PutAndPush ==
    ASSUME Typed, Fresh, NEW w \in Workers
    PROVE  /\ PutTask(w) => pc[w] = "srvPut" /\ index[task[w]] = NoIndex
           /\ pc[w] = "srvPush" => task[w] \in Queries /\ index[task[w]] # NoIndex
<1>1. PutTask(w) => pc[w] = "srvPut" /\ index[task[w]] = NoIndex BY DEF PutTask, At, Fresh
<1>2. pc[w] = "srvPush" => task[w] \in Queries /\ index[task[w]] \in Indices
  BY DEF Typed, Held, HeldBy, ServerLabels
<1>3. NoIndex \notin Indices BY RelayAssumption DEF Indices, NoIndex
<1>4. QED BY <1>1, <1>2, <1>3

LEMMA HeapHasIndex == Typed => \A q \in heap : q \in Queries /\ index[q] # NoIndex
<1>1. NoIndex \notin Indices BY RelayAssumption DEF Indices, NoIndex
<1>2. QED BY <1>1 DEF Typed, TypeOK, HeapIndexed

LEMMA PushedOnceStep == Typed /\ Fresh /\ PushedOnce /\ [Next]_vars => PushedOnce'
<1>1. SUFFICES ASSUME Typed, Fresh, PushedOnce, [Next]_vars PROVE PushedOnce' OBVIOUS
<1>2. TypedWork BY <1>1, TypeParts DEF Typed
<1>3. ASSUME NEW q \in heap', NEW w \in Workers, pc'[w] = "srvPush" PROVE task'[w] # q
  <2>1. task'[w] = task[w] /\ (pc[w] = "srvPush" \/ PutTask(w)) BY <1>1, <1>3, WhoIsToPush
  <2>2. CASE q \in heap
    <3>1. index[q] # NoIndex BY <1>1, <2>2, HeapHasIndex
    <3>2. PutTask(w) => index[task[w]] = NoIndex BY <1>1, PutAndPush
    <3>3. pc[w] = "srvPush" => task[w] # q BY <1>1, <2>2 DEF PushedOnce
    <3>4. QED BY <2>1, <3>1, <3>2, <3>3
  <2>3. CASE q \notin heap
    <3>1. PICK v \in Workers : PushTimer(v) BY <1>1, <1>3, <2>3, WhoPushes
    <3>2. pc[v] = "srvPush" /\ pc'[v] = "srvSize" /\ q = task[v]
      BY <1>2, <1>3, <2>3, <3>1 DEF PushTimer, At, Goto, TypedWork
    <3>3. v # w BY <1>3, <3>2
    <3>4. pc[w] = "srvPush" => task[w] # task[v] BY <1>1, <3>2, <3>3 DEF PushedOnce
    <3>5. PutTask(w) => index[task[w]] = NoIndex BY <1>1, PutAndPush
    <3>6. index[task[v]] # NoIndex BY <1>1, <3>2, PutAndPush
    <3>7. QED BY <2>1, <3>2, <3>4, <3>5, <3>6
  <2>4. QED BY <2>2, <2>3
<1>4. ASSUME NEW v \in Workers, NEW w \in Workers,
             pc'[v] = "srvPush", pc'[w] = "srvPush", task'[v] = task'[w]
      PROVE  v = w
  <2>1. /\ task'[v] = task[v] /\ (pc[v] = "srvPush" \/ PutTask(v))
        /\ task'[w] = task[w] /\ (pc[w] = "srvPush" \/ PutTask(w))
    BY <1>1, <1>4, WhoIsToPush
  <2>2. /\ PutTask(v) => pc[v] = "srvPut" /\ index[task[v]] = NoIndex
        /\ pc[v] = "srvPush" => index[task[v]] # NoIndex
        /\ PutTask(w) => pc[w] = "srvPut" /\ index[task[w]] = NoIndex
        /\ pc[w] = "srvPush" => index[task[w]] # NoIndex
    BY <1>1, PutAndPush
  <2>3. CASE pc[v] = "srvPush" /\ pc[w] = "srvPush"
    BY <1>1, <1>4, <2>1, <2>3 DEF PushedOnce
  <2>4. CASE pc[v] = "srvPut" /\ pc[w] = "srvPut" BY <1>1, <1>4, <2>1, <2>4 DEF Fresh
  <2>5. QED BY <1>4, <2>1, <2>2, <2>3, <2>4
<1>5. QED BY <1>3, <1>4 DEF PushedOnce

(* A popped timer stays out. *)
LEMMA TimedOutStays ==
    ASSUME Typed, Fresh, RightTasks, [Next]_vars, NEW q \in Queries, TimedOut(q)
    PROVE  TimedOut(q)'
<1>1. index'[q] # NoIndex BY IndexIsKept DEF TimedOut
<1>2. q \notin heap'
  <2>1. CASE heap' \subseteq heap BY <2>1 DEF TimedOut, Popped
  <2>2. ASSUME NEW w \in Workers, PushTimer(w) PROVE q \notin heap'
    BY <2>2 DEF PushTimer, At, TimedOut, Popped
  <2>3. QED BY <2>1, <2>2, WhoPushes
<1>3. ASSUME NEW w \in Workers, pc'[w] = "srvPush" PROVE task'[w] # q
  <2>1. task'[w] = task[w] /\ (pc[w] = "srvPush" \/ PutTask(w)) BY <1>3, WhoIsToPush
  <2>2. PutTask(w) => index[task[w]] = NoIndex BY PutAndPush
  <2>3. QED BY <2>1, <2>2 DEF TimedOut, Popped
<1>4. QED BY <1>1, <1>2, <1>3 DEF TimedOut, Popped

(* The steps of UdpTimeoutHandler between Pop and the reply. *)
LEMMA WhoHoldsTimer ==
    ASSUME Typed, NEW w \in Workers, WorkerStep(w),
           pc'[w] \in {"tmoHas", "tmoGet", "tmoDel", "tmoSend"}
    PROVE  \/ UNCHANGED workVars
           \/ PopTimer(w) \/ TimerHasTask(w) \/ TimerGetTask(w) \/ TimerDelTask(w)
<1>1. TypedWork /\ TypedLoop BY TypeParts DEF Typed
<1> USE DEF TypedWork, Goto, Again, Return
<1>2. CASE StartJob(w)
  <2>1. Head(jobs) \in Jobs BY <1>1, <1>2, PopFacts DEF TypedLoop, StartJob
  <2>2. pc'[w] \in {"srvRecv", "cliRecv", "tmoNow", "tickOff"}
    BY <1>1, <1>2, <2>1, FirstStepOfJob DEF StartJob
  <2>3. QED BY <2>2
<1>3. CASE ServerStep(w)
  BY <1>1, <1>3 DEF ServerStep, ReceiveQuery, PutTask, PutTaskUnderflows, PushTimer,
                    IsOnlyTimer, ArmTimer, ForwardQuery, Crash
<1>4. CASE ClientStep(w)
  BY <1>1, <1>4 DEF ClientStep, ReceiveAnswer, AnswerHasTask, AnswerGetTask, AnswerGetsNull,
                    AnswerDelTask, SendAnswer, Crash
<1>5. CASE TimeoutStep(w)
  BY <1>1, <1>5 DEF TimeoutStep, ReadClock, HeapEmpty, TopExpired, HeapUnderflows,
                    TimerGetsNull, SendServfail, TickEmpty, TickTop, TickOn, TickOff, Crash
<1>6. QED BY <1>2, <1>3, <1>4, <1>5 DEF WorkerStep

LEMMA HandsPoppedStep ==
    Typed /\ Fresh /\ RightTasks /\ PushedOnce /\ HandsPopped /\ [Next]_vars => HandsPopped'
<1>1. SUFFICES ASSUME Typed, Fresh, RightTasks, PushedOnce, HandsPopped, [Next]_vars,
                      NEW w \in Workers
               PROVE  HandPopped(w)'
  BY DEF HandsPopped
<1>2. TypedWork BY <1>1, TypeParts DEF Typed
<1>3. HandPopped(w) /\ HeldBy(w) /\ RightTask(w) BY <1>1 DEF HandsPopped, Typed, Held, RightTasks
<1>4. ASSUME NEW q \in Queries, TimedOut(q) PROVE TimedOut(q)' BY <1>1, <1>4, TimedOutStays
<1>5. ASSUME pc'[w] = pc[w], task'[w] = task[w], timer'[w] = timer[w] PROVE HandPopped(w)'
  <2>1. ASSUME pc[w] \in {"tmoHas", "tmoGet", "tmoDel"} PROVE TimedOut(timer[w])'
    <3>1. PICK q \in Queries : q = timer[w] BY <1>3, <2>1 DEF HeldBy
    <3>2. TimedOut(q)' BY <1>3, <1>4, <2>1, <3>1 DEF HandPopped
    <3>3. QED BY <1>5, <3>1, <3>2
  <2>2. ASSUME pc[w] = "tmoSend" PROVE TimedOut(task[w])'
    <3>1. PICK q \in Queries : q = task[w] BY <1>3, <2>2 DEF HeldBy
    <3>2. TimedOut(q)' BY <1>3, <1>4, <2>2, <3>1 DEF HandPopped
    <3>3. QED BY <1>5, <3>1, <3>2
  <2>3. QED BY <1>5, <2>1, <2>2 DEF HandPopped
<1>6. ASSUME PopTimer(w) PROVE HandPopped(w)'
  <2>1. PICK q \in heap : heap' = heap \ {q} /\ timer' = [timer EXCEPT ![w] = q]
    BY <1>6 DEF PopTimer
  <2>2. pc'[w] = "tmoHas" /\ timer'[w] = q /\ task' = task /\ index' = index
        /\ \A v \in Workers : pc'[v] = "srvPush" => pc[v] = "srvPush"
    BY <1>2, <1>6, <2>1 DEF PopTimer, Goto, TypedWork, poolVars
  <2>3. index[q] # NoIndex BY <1>1, HeapHasIndex
  <2>4. \A v \in Workers : pc[v] = "srvPush" => task[v] # q BY <1>1 DEF PushedOnce
  <2>5. TimedOut(timer[w])' BY <2>1, <2>2, <2>3, <2>4 DEF TimedOut, Popped
  <2>6. QED BY <2>2, <2>5 DEF HandPopped
<1>7. ASSUME TimerHasTask(w) PROVE HandPopped(w)'
  <2>1. pc[w] = "tmoHas" BY <1>7 DEF TimerHasTask, At
  <2>2. PICK q \in Queries : q = timer[w] BY <1>3, <2>1 DEF HeldBy
  <2>3. TimedOut(q)' BY <1>3, <1>4, <2>1, <2>2 DEF HandPopped
  <2>4. \/ pc'[w] = "tmoEmpty"
        \/ pc'[w] = "tmoGet" /\ timer'[w] = q
    BY <1>2, <1>7, <2>2 DEF TimerHasTask, Goto, Again, TypedWork
  <2>5. QED BY <2>3, <2>4 DEF HandPopped
<1>8. ASSUME TimerGetTask(w) PROVE HandPopped(w)'
  <2>1. pc[w] = "tmoGet" BY <1>8 DEF TimerGetTask, At
  <2>2. PICK q \in Queries : q = timer[w] BY <1>3, <2>1 DEF HeldBy
  <2>3. TimedOut(q)' BY <1>3, <1>4, <2>1, <2>2 DEF HandPopped
  <2>4. \/ pc'[w] = "tmoEmpty"
        \/ pc'[w] = "tmoDel" /\ timer'[w] = q
    BY <1>2, <1>8, <2>2 DEF TimerGetTask, Goto, Again, TypedWork
  <2>5. QED BY <2>3, <2>4 DEF HandPopped
<1>9. ASSUME TimerDelTask(w) PROVE HandPopped(w)'
  <2>1. pc[w] = "tmoDel" BY <1>9 DEF TimerDelTask, At
  <2>2. PICK q \in Queries : q = timer[w] BY <1>3, <2>1 DEF HeldBy
  <2>3. TimedOut(q)' BY <1>3, <1>4, <2>1, <2>2 DEF HandPopped
  <2>4. pc'[w] = "tmoSend" /\ task'[w] = q
    BY <1>2, <1>3, <1>9, <2>1, <2>2 DEF TimerDelTask, Goto, TypedWork, RightTask
  <2>5. QED BY <2>3, <2>4 DEF HandPopped
<1>10. ASSUME WorkerStep(w) PROVE HandPopped(w)'
  <2>1. CASE UNCHANGED workVars BY <1>5, <2>1 DEF workVars
  <2>2. CASE pc'[w] \notin {"tmoHas", "tmoGet", "tmoDel", "tmoSend"} BY <2>2 DEF HandPopped
  <2>3. QED BY <1>1, <1>6, <1>7, <1>8, <1>9, <1>10, <2>1, <2>2, WhoHoldsTimer
<1>11. ASSUME NEW v \in Workers, WorkerStep(v), v # w PROVE HandPopped(w)'
  BY <1>2, <1>5, <1>11, OthersStay DEF Elsewhere
<1>12. CASE MainStep \/ Environment \/ UNCHANGED vars
  <2>1. UNCHANGED workVars
    BY <1>12 DEF MainStep, Dispatch, Environment, ClientSends, RemoteAnswers, DeadlinePasses,
                 AlarmFires, vars
  <2>2. QED BY <1>5, <2>1 DEF workVars
<1>13. QED BY <1>1, <1>10, <1>11, <1>12 DEF Next

LEMMA ServfailsPoppedStep ==
    /\ Typed /\ Fresh /\ RightTasks /\ PushedOnce /\ HandsPopped /\ ServfailsPopped
    /\ [Next]_vars
    => ServfailsPopped'
<1>1. SUFFICES ASSUME Typed, Fresh, RightTasks, PushedOnce, HandsPopped, ServfailsPopped,
                      [Next]_vars, NEW m \in replies', m.rcode = "servfail"
               PROVE  TimedOut(m.to)'
  BY DEF ServfailsPopped
<1>2. ASSUME NEW q \in Queries, TimedOut(q) PROVE TimedOut(q)' BY <1>1, <1>2, TimedOutStays
<1>3. CASE m \in replies
  <2>1. m.to \in Queries BY <1>1, <1>3 DEF Typed, TypeOK
  <2>2. TimedOut(m.to) BY <1>1, <1>3 DEF ServfailsPopped
  <2>3. QED BY <1>2, <2>1, <2>2
<1>4. CASE m \notin replies
  <2>1. PICK w \in Workers : SendServfail(w)
    BY <1>1, <1>4, WhoReplies DEF SendAnswer
  <2>2. pc[w] = "tmoSend" /\ m.to = task[w] BY <1>1, <1>4, <2>1 DEF SendServfail, At
  <2>3. task[w] \in Queries BY <1>1, <2>2 DEF Typed, Held, HeldBy
  <2>4. TimedOut(task[w]) BY <1>1, <2>2 DEF HandsPopped, HandPopped
  <2>5. PICK q \in Queries : q = task[w] BY <2>3
  <2>6. TimedOut(q)' BY <1>2, <2>4, <2>5
  <2>7. m.to = q BY <2>2, <2>5
  <2>8. QED BY <2>6, <2>7
<1>5. QED BY <1>3, <1>4

(* No query is timed out by another's timer, however often indices are       *)
(* reused: UdpTimeoutHandler compares the timer it has popped with that of   *)
(* the task it finds under its index (handler.cpp:309), and nothing pushes a *)
(* timer twice.                                                              *)
THEOREM OwnTimerOnly == Spec => []TimedOutByOwnTimer
<1>1. Init => OwnTimers
  <2>1. SUFFICES ASSUME Init
                 PROVE  /\ Fresh /\ UnderItsIndex /\ RightTasks
                        /\ PushedOnce /\ HandsPopped /\ ServfailsPopped
    BY TypedInit DEF OwnTimers
  <2>2. Fresh /\ UnderItsIndex BY <2>1 DEF Init, Fresh, UnderItsIndex
  <2>3. RightTasks BY <2>1 DEF Init, RightTasks, RightTask
  <2>4. PushedOnce BY <2>1 DEF Init, PushedOnce
  <2>5. HandsPopped /\ ServfailsPopped
    BY <2>1 DEF Init, HandsPopped, HandPopped, ServfailsPopped
  <2>6. QED BY <2>2, <2>3, <2>4, <2>5
<1>2. OwnTimers /\ [Next]_vars => OwnTimers'
  BY TypedStep, FreshStep, UnderItsIndexStep, RightTasksStep, PushedOnceStep, HandsPoppedStep,
     ServfailsPoppedStep
     DEF OwnTimers
<1>3. OwnTimers => TimedOutByOwnTimer
  BY DEF OwnTimers, ServfailsPopped, TimedOut, TimedOutByOwnTimer
<1>4. QED BY <1>1, <1>2, <1>3, PTL DEF Spec
=============================================================================
