--------------------------- MODULE TcpRelayProofs ---------------------------
(***************************************************************************)
(* What holds of TcpRelay for every number of workers, connections,        *)
(* addresses, nameservers, queries and indices, and however many events    *)
(* happen.                                                                 *)
(***************************************************************************)
EXTENDS TcpRelay, SequenceLemmas

-----------------------------------------------------------------------------
(* What the kinds of jobs point to. *)
Fits(j) ==
    /\ j.kind \in {"query", "close"} => j.ptr \in Addrs
    /\ j.kind \in {"answer", "restart"} => j.ptr \in Remotes
    /\ j.kind = "timeout" => j = Timeout

(* Which handlers take a step, and which steps have messages to handle.      *)
Forwarding == {"forward", "relay", "watch"}
Answering  == {"send", "arm"}
Restarting == {"unlink", "relink", "readd"}

TakenBy(kind, l) ==
    \/ kind = "idle" /\ l = "idle"
    \/ kind = "accept" /\ l \in {"accept", "insert", "add"}
    \/ kind = "query" /\ l \in {"query"} \cup Forwarding
    \/ kind = "close" /\ l \in {"close", "erase"}
    \/ kind = "answer" /\ l \in {"answer", "match"} \cup Answering
    \/ kind = "restart" /\ l \in {"restart"} \cup Restarting
    \/ kind = "timeout" /\ l \in {"timeout"} \cup Answering

HasData(l, j) == l \in {"match"} \cup Forwarding \/ (l \in Answering /\ j # Timeout)

LocalsFit(w) ==
    /\ TakenBy(job[w].kind, pc[w])
    /\ Fits(job[w])
    /\ pc[w] \in {"insert", "add"} => job[w].ptr \in Addrs
    /\ data[w] \in IF job[w].kind = "query" THEN Seq(Queries) ELSE Seq(Packets)
    /\ data[w] # <<>> <=> HasData(pc[w], job[w])
    /\ pc[w] \in Answering => task[w] \in Queries
    /\ pc[w] = "watch" => to[w] \in Remotes

Labels == {"idle", "accept", "insert", "add", "query", "answer", "match", "timeout", "close",
           "erase", "restart"} \cup Forwarding \cup Answering \cup Restarting

(* The type invariant, by the groups of variables that change together.      *)
TypedConns ==
    /\ conn \in [Conns -> {"none", "waiting", "served", "closed"}]
    /\ peer \in [Conns -> {"open", "fin", "rst"}]
    /\ inbox \in [Conns -> Seq(Queries)]
    /\ asked \subseteq Queries
    /\ backlog \in Seq(Conns)
    /\ merged \in BOOLEAN

TypedLinks ==
    /\ link \in [Remotes -> {"open", "fin", "rst", "blank", "none"}]
    /\ linkIn \in [Remotes -> Seq(Packets)]
    /\ wire \subseteq Forwarded

TypedOut ==
    /\ replies \subseteq Replies
    /\ outbox \in [Conns -> SUBSET Replies]
    /\ linkOut \in [Remotes -> SUBSET Forwarded]
    /\ full \subseteq Sockets
    /\ slow \in Nat

TypedEpoll ==
    /\ registered \in [Sockets -> Addrs \cup Remotes \cup {None}]
    /\ \A c \in Conns : registered[c] \in Addrs \cup {None}
    /\ \A r \in Remotes : registered[r] \in {r, None}
    /\ watched \subseteq Sockets
    /\ ready \subseteq {Listener} \cup Sockets
    /\ again \in BOOLEAN

TypedLoop ==
    /\ run \in {"wait", "find", "flush", "modify"}
    /\ event \in [ptr : {Listener, None} \cup Addrs \cup Remotes,
                  in : BOOLEAN, out : BOOLEAN, hup : BOOLEAN]
    /\ run \in {"flush", "modify"} => event.ptr \in Addrs \cup Remotes
    /\ jobs \in Seq(JobSet)
    /\ \A j \in Range(jobs) : Fits(j)

TypedSets ==
    /\ object \in [Addrs -> Conns \cup {None}]
    /\ servers \subseteq Addrs
    /\ clients \subseteq Remotes

TypedTasks ==
    /\ indexQueue \in Seq(Indices)
    /\ pool \in [Indices -> Queries \cup {None}]
    /\ index \in [Queries -> Indices \cup {None}]
    /\ owner \in [Queries -> Addrs \cup {None}]
    /\ heap \in Seq(Queries)
    /\ \A q \in Range(heap) : index[q] # None

TypedWork ==
    /\ pc \in [Workers -> Labels]
    /\ job \in [Workers -> JobSet \cup {NoJob}]
    /\ DOMAIN data = Workers
    /\ task \in [Workers -> Queries \cup {None}]
    /\ rest \in [Workers -> SUBSET Remotes]
    /\ to \in [Workers -> Remotes \cup {None}]
    /\ \A w \in Workers : LocalsFit(w)

Typed ==
    /\ TypedConns /\ TypedLinks /\ TypedOut /\ TypedEpoll /\ TypedLoop
    /\ TypedSets /\ TypedTasks /\ TypedWork
    /\ clock \in Nat
    /\ fault \in {"none", "dangling", "race", "killed", "exhausted"}

-----------------------------------------------------------------------------
(* A connection is waiting, then has one TcpServer, then is closed.          *)
Accepted ==
    /\ IsInjective(backlog)
    /\ \A c \in Range(backlog) : conn[c] = "waiting"
    /\ \A a \in Addrs : object[a] # None => conn[object[a]] = "served"
    /\ \A a, b \in Addrs : object[a] = object[b] /\ object[a] # None => a = b

(* While a TcpServer is being made or deleted, it is not registered, and one *)
(* worker does it.                                                           *)
Busy == {"insert", "add", "erase"}

Handled ==
    /\ \A w \in Workers : pc[w] \in Busy =>
          object[job[w].ptr] # None /\ registered[object[job[w].ptr]] = None
    /\ \A w \in Workers : pc[w] = "add" => job[w].ptr \in servers
    /\ \A v, w \in Workers :
          pc[v] \in Busy /\ pc[w] \in Busy /\ job[v].ptr = job[w].ptr => v = w

(* So with a TcpClient. *)
Replaced ==
    /\ \A w \in Workers : pc[w] \in Restarting => registered[job[w].ptr] = None
    /\ \A w \in Workers : pc[w] \in {"relink", "readd"} => link[job[w].ptr] # "none"
    /\ \A w \in Workers : pc[w] = "readd" => job[w].ptr \in clients
    /\ \A v, w \in Workers :
          pc[v] \in Restarting /\ pc[w] \in Restarting /\ job[v].ptr = job[w].ptr => v = w

Listed == Accepted /\ Handled /\ Replaced /\ RegisteredIsListed

-----------------------------------------------------------------------------
(* The queries a worker has received and not yet made tasks. *)
Left(w) == IF pc[w] = "forward" THEN data[w]
           ELSE IF pc[w] \in {"relay", "watch"} THEN Tail(data[w]) ELSE <<>>

(* A query not yet made a task has no index, and is in one place.            *)
Fresh ==
    /\ \A q \in Queries : index[q] # None => q \in asked
    /\ \A c \in Conns : IsInjective(inbox[c])
    /\ \A c \in Conns : \A q \in Range(inbox[c]) :
          q \in asked /\ index[q] = None /\ ConnOf[q] = c
    /\ \A w \in Workers :
          /\ IsInjective(Left(w))
          /\ \A q \in Range(Left(w)) :
                q \in asked /\ index[q] = None /\ q \notin Range(inbox[ConnOf[q]])
    /\ \A v, w \in Workers : v # w => Range(Left(v)) \cap Range(Left(w)) = {}

(* A task is registered under its own index only. *)
Indexed == \A i \in Indices : pool[i] # None => index[pool[i]] = i

(* What a worker sends to the nameservers, or answers, has been given an     *)
(* index; and while it has the servers' mutex, the TcpServer it found stays. *)
Given ==
    /\ \A w \in Workers : pc[w] \in {"relay", "watch"} => index[Head(data[w])] # None
    /\ \A w \in Workers : pc[w] \in Answering => index[task[w]] # None
    /\ \A w \in Workers : pc[w] = "arm" => owner[task[w]] \in servers

-----------------------------------------------------------------------------
(* At address a is the TcpServer of q's connection - or was.                 *)
Belongs(q, a) == object[a] = ConnOf[q] \/ conn[ConnOf[q]] = "closed"

Owned ==
    /\ \A w \in Workers : \A q \in Range(Left(w)) : Belongs(q, job[w].ptr)
    /\ \A q \in Queries : owner[q] # None => Belongs(q, owner[q])

-----------------------------------------------------------------------------
(* What will close the TcpServer at a: an event, a job, a worker at it.      *)
CloseEvent(a)  == event.hup /\ event.ptr = a
ClosesAt(k, a) == jobs[k].kind = "close" /\ jobs[k].ptr = a
Closing(w, a)  == job[w].kind = "close" /\ job[w].ptr = a

Queued(a) == \E k \in DOMAIN jobs : ClosesAt(k, a)
Taken(a)  == \E w \in Workers : Closing(w, a)
Owing(a)  == CloseEvent(a) \/ Queued(a) \/ Taken(a)

(* No client has reset its connection, and no FIN was brought up twice.      *)
NoReset == \A c \in Conns : peer[c] # "rst"
Once    == NoReset /\ ~again

ClosedHungUp == \A c \in Conns : conn[c] = "closed" => peer[c] # "open"

(* It is for a TcpServer whose client has hung up, and that is registered    *)
(* until the worker has changed that.                                        *)
Justified ==
    \A a \in Addrs :
       /\ Owing(a) => object[a] # None /\ peer[object[a]] # "open"
       /\ CloseEvent(a) \/ Queued(a) \/ (\E w \in Workers : Closing(w, a) /\ pc[w] = "close")
          => registered[object[a]] = a

(* There is one of these at a time. *)
Single ==
    \A a \in Addrs :
       /\ CloseEvent(a) => ~Queued(a) /\ ~Taken(a)
       /\ Queued(a) => ~Taken(a)
       /\ \A k, l \in DOMAIN jobs : ClosesAt(k, a) /\ ClosesAt(l, a) => k = l
       /\ \A v, w \in Workers : Closing(v, a) /\ Closing(w, a) => v = w

(* None while the hang-up is yet to be reported. *)
Reported ==
    \A c \in Conns : c \in ready /\ peer[c] # "open" =>
        \A a \in Addrs : object[a] = c => ~Owing(a)

(* Of a client's one FIN comes one close, until a client resets or a FIN is  *)
(* brought up again.                                                         *)
CloseOnce == Once => ClosedHungUp /\ Justified /\ Single /\ Reported

IInv ==
    /\ Typed
    /\ Listed
    /\ Fresh
    /\ Indexed
    /\ Given
    /\ Owned
    /\ AnswerReachesAsker
    /\ CloseOnce

-----------------------------------------------------------------------------
(* The groups make up the type invariant. *)
LEMMA TypesFit == Typed => TypeOK
BY DEF Typed, TypeOK, TypedConns, TypedLinks, TypedOut, TypedEpoll, TypedLoop, TypedSets,
       TypedTasks, TypedWork, LocalsFit, Labels, Forwarding, Answering, Restarting

(* A group that a step leaves alone keeps its types. *)
LEMMA Frames ==
    /\ TypedConns /\ UNCHANGED connVars => TypedConns'
    /\ TypedLinks /\ UNCHANGED linkVars => TypedLinks'
    /\ TypedOut /\ UNCHANGED outVars => TypedOut'
    /\ TypedEpoll /\ UNCHANGED epollVars => TypedEpoll'
    /\ TypedLoop /\ UNCHANGED loopVars => TypedLoop'
    /\ TypedSets /\ UNCHANGED setVars => TypedSets'
    /\ TypedTasks /\ UNCHANGED taskVars => TypedTasks'
    /\ TypedWork /\ UNCHANGED workVars => TypedWork'
<1>1. TypedConns /\ UNCHANGED connVars => TypedConns' BY DEF TypedConns, connVars
<1>2. TypedLinks /\ UNCHANGED linkVars => TypedLinks' BY DEF TypedLinks, linkVars
<1>3. TypedOut /\ UNCHANGED outVars => TypedOut' BY DEF TypedOut, outVars
<1>4. TypedEpoll /\ UNCHANGED epollVars => TypedEpoll' BY DEF TypedEpoll, epollVars
<1>5. TypedLoop /\ UNCHANGED loopVars => TypedLoop' BY DEF TypedLoop, loopVars
<1>6. TypedSets /\ UNCHANGED setVars => TypedSets' BY DEF TypedSets, setVars
<1>7. TypedTasks /\ UNCHANGED taskVars => TypedTasks' BY DEF TypedTasks, taskVars
<1>8. TypedWork /\ UNCHANGED workVars => TypedWork'
  BY DEF TypedWork, workVars, LocalsFit
<1>9. QED BY <1>1, <1>2, <1>3, <1>4, <1>5, <1>6, <1>7, <1>8

(* A step of w leaves the other workers where they are. *)
Elsewhere(w) ==
    \A v \in Workers \ {w} :
        /\ pc'[v] = pc[v] /\ job'[v] = job[v] /\ data'[v] = data[v] /\ task'[v] = task[v]
        /\ to'[v] = to[v]

(* What must be shown of w for the workers to keep their types. *)
LEMMA WorkElsewhere ==
    ASSUME TypedWork, NEW w \in Workers, Elsewhere(w), LocalsFit(w)',
           pc' \in [Workers -> Labels], job' \in [Workers -> JobSet \cup {NoJob}],
           DOMAIN data' = Workers, task' \in [Workers -> Queries \cup {None}],
           rest' \in [Workers -> SUBSET Remotes], to' \in [Workers -> Remotes \cup {None}]
    PROVE  TypedWork'
<1>1. ASSUME NEW v \in Workers \ {w} PROVE LocalsFit(v)'
  BY DEF TypedWork, LocalsFit, Elsewhere
<1>2. QED BY <1>1 DEF TypedWork

LEMMA GotoWork ==
    ASSUME TypedWork, NEW w \in Workers, NEW l \in Labels, Goto(w, l),
           TakenBy(job[w].kind, l), HasData(l, job[w]) <=> HasData(pc[w], job[w]),
           l \in {"insert", "add"} => job[w].ptr \in Addrs,
           l \in Answering => pc[w] \in Answering, l # "watch"
    PROVE  TypedWork' /\ Elsewhere(w) /\ pc'[w] = l /\ UNCHANGED <<job, data, task>>
<1>1. /\ Elsewhere(w) /\ pc'[w] = l /\ pc' \in [Workers -> Labels]
      /\ UNCHANGED <<job, data, task, rest, to>>
  BY DEF Goto, TypedWork, Elsewhere
<1>2. LocalsFit(w)' BY <1>1 DEF LocalsFit, TypedWork
<1>3. QED BY <1>1, <1>2, WorkElsewhere DEF TypedWork

(* The messages go to the handler's next step, which is at l, or it returns. *)
LEMMA HandleWork ==
    ASSUME TypedWork, NEW w \in Workers, NEW l \in {"idle", "forward", "match"}, NEW messages,
           messages \in IF job[w].kind = "query" THEN Seq(Queries) ELSE Seq(Packets),
           messages = <<>> \/ (l # "idle" /\ TakenBy(job[w].kind, l)), Handle(w, l, messages)
    PROVE  /\ TypedWork' /\ Elsewhere(w) /\ data'[w] = messages /\ task'[w] = None
           /\ \/ messages = <<>> /\ pc'[w] = "idle" /\ job'[w] = NoJob
              \/ messages # <<>> /\ pc'[w] = l /\ job'[w] = job[w]
<1> DEFINE next == IF messages = <<>> THEN "idle" ELSE l
<1>1. /\ Elsewhere(w)
      /\ pc'[w] = next /\ job'[w] = (IF messages = <<>> THEN NoJob ELSE job[w])
      /\ data'[w] = messages /\ task'[w] = None
      /\ pc' \in [Workers -> Labels] /\ job' \in [Workers -> JobSet \cup {NoJob}]
      /\ DOMAIN data' = Workers /\ task' \in [Workers -> Queries \cup {None}]
      /\ rest' \in [Workers -> SUBSET Remotes] /\ to' \in [Workers -> Remotes \cup {None}]
  BY DEF Handle, TypedWork, Elsewhere, Labels, Forwarding
<1>2. <<>> \in Seq(Packets) BY EmptySeq
<1>3. LocalsFit(w)'
  <2>1. CASE messages = <<>>
    BY <1>1, <1>2, <2>1
    DEF LocalsFit, TakenBy, NoJob, HasData, Fits, Timeout, Forwarding, Answering, Restarting
  <2>2. CASE messages # <<>>
    BY <1>1, <2>2 DEF LocalsFit, HasData, TypedWork, Forwarding, Answering
  <2>3. QED BY <2>1, <2>2
<1>4. QED BY <1>1, <1>3, WorkElsewhere

LEMMA ReturnWork ==
    ASSUME TypedWork, NEW w \in Workers, Return(w)
    PROVE  /\ TypedWork' /\ Elsewhere(w)
           /\ pc'[w] = "idle" /\ job'[w] = NoJob /\ data'[w] = <<>> /\ task'[w] = None
<1>1. <<>> \in Seq(Packets) /\ <<>> \in Seq(Queries) BY EmptySeq
<1>2. Handle(w, "idle", <<>>) BY DEF Return
<1>3. QED BY <1>1, <1>2, HandleWork

-----------------------------------------------------------------------------
(* Sequences put one behind the other. *)
LEMMA ConcatFacts ==
    ASSUME NEW S, NEW s \in Seq(S), NEW t \in Seq(S)
    PROVE  /\ s \o t \in Seq(S)
           /\ Len(s) \in Nat /\ Len(t) \in Nat
           /\ DOMAIN s = 1 .. Len(s) /\ DOMAIN t = 1 .. Len(t)
           /\ DOMAIN (s \o t) = 1 .. Len(s) + Len(t)
           /\ \A n \in 1 .. Len(s) : (s \o t)[n] = s[n]
           /\ \A n \in 1 .. Len(t) : (s \o t)[Len(s) + n] = t[n]
           /\ Range(s \o t) = Range(s) \cup Range(t)
<1>1. /\ s \o t \in Seq(S)
      /\ Len(s \o t) = Len(s) + Len(t)
      /\ \A n \in 1 .. Len(s) + Len(t) :
            (s \o t)[n] = IF n <= Len(s) THEN s[n] ELSE t[n - Len(s)]
  BY ConcatProperties
<1>2. Len(s) \in Nat /\ Len(t) \in Nat /\ DOMAIN s = 1 .. Len(s) /\ DOMAIN t = 1 .. Len(t)
  BY LenProperties
<1>3. DOMAIN (s \o t) = 1 .. Len(s) + Len(t) BY <1>1, LenProperties
<1>4. \A n \in 1 .. Len(s) : (s \o t)[n] = s[n] BY <1>1, <1>2
<1>5. \A n \in 1 .. Len(t) : (s \o t)[Len(s) + n] = t[n]
  <2>1. SUFFICES ASSUME NEW n \in 1 .. Len(t) PROVE (s \o t)[Len(s) + n] = t[n] OBVIOUS
  <2>2. Len(s) + n \in 1 .. Len(s) + Len(t) /\ ~(Len(s) + n <= Len(s)) /\ (Len(s) + n) - Len(s) = n
    BY <1>2
  <2>3. QED BY <1>1, <2>2
<1>6. Range(s \o t) = Range(s) \cup Range(t)
  <2>1. ASSUME NEW n \in 1 .. Len(s) + Len(t) PROVE (s \o t)[n] \in Range(s) \cup Range(t)
    <3>1. CASE n <= Len(s) BY <1>1, <1>2, <3>1 DEF Range
    <3>2. CASE ~(n <= Len(s))
      <4>1. n - Len(s) \in 1 .. Len(t) BY <1>2, <3>2
      <4>2. QED BY <1>1, <1>2, <3>2, <4>1 DEF Range
    <3>3. QED BY <3>1, <3>2
  <2>2. ASSUME NEW n \in 1 .. Len(s) PROVE s[n] \in Range(s \o t)
    <3>1. n \in 1 .. Len(s) + Len(t) BY <1>2
    <3>2. QED BY <1>3, <1>4, <3>1 DEF Range
  <2>3. ASSUME NEW n \in 1 .. Len(t) PROVE t[n] \in Range(s \o t)
    <3>1. Len(s) + n \in 1 .. Len(s) + Len(t) BY <1>2
    <3>2. QED BY <1>3, <1>5, <3>1 DEF Range
  <2>4. QED BY <1>2, <1>3, <2>1, <2>2, <2>3 DEF Range
<1>7. QED BY <1>1, <1>2, <1>3, <1>4, <1>5, <1>6

(* The empty queue. *)
LEMMA NoElements ==
    /\ \A S : <<>> \in Seq(S)
    /\ Range(<<>>) = {} /\ IsInjective(<<>>) /\ DOMAIN <<>> = {}
<1>1. DOMAIN <<>> = {} BY EmptySeq, LenProperties
<1>2. QED BY <1>1, EmptySeq DEF Range, IsInjective

LEMMA InitialTypes == InitialQueue \in Seq(Indices)
<1>1. MaxIndex \in Nat BY TcpRelayAssumption
<1>2. InitialQueue \in [1 .. MaxIndex + 1 -> Indices] BY <1>1 DEF InitialQueue, Indices
<1>3. MaxIndex + 1 \in Nat BY <1>1
<1>4. QED BY <1>2, <1>3, IsASeq

LEMMA TypedInit == Init => Typed
<1>1. SUFFICES ASSUME Init PROVE Typed OBVIOUS
<1> USE <1>1 DEF Init
<1>2. TypedConns BY NoElements DEF TypedConns
<1>3. TypedLinks BY NoElements DEF TypedLinks
<1>4. TypedOut BY DEF TypedOut
<1>5. TypedEpoll BY TcpRelayAssumption DEF TypedEpoll, Sockets
<1>6. TypedLoop BY NoElements DEF TypedLoop, NoEvent
<1>7. TypedSets BY DEF TypedSets
<1>8. TypedTasks BY NoElements, InitialTypes DEF TypedTasks
<1>9. TypedWork
  BY NoElements
  DEF TypedWork, LocalsFit, Labels, TakenBy, HasData, Fits, NoJob, Timeout, Forwarding,
      Answering, Restarting
<1>10. QED BY <1>2, <1>3, <1>4, <1>5, <1>6, <1>7, <1>8, <1>9 DEF Typed

-----------------------------------------------------------------------------
(* Types through the steps of clients, nameservers and time. *)
LEMMA EdgeTypes == ASSUME TypedEpoll, NEW s \in Sockets, Edge(s) PROVE TypedEpoll'
BY DEF TypedEpoll, Edge

LEMMA ReportTypes ==
    ASSUME TypedEpoll, NEW s \in Sockets, Report(s) \/ UNCHANGED <<ready, again>>,
           UNCHANGED registered, watched' \subseteq Sockets
    PROVE  TypedEpoll'
BY DEF TypedEpoll, Report, HungUp

LEMMA TypedEnvironment == Typed /\ Environment => Typed'
<1>1. SUFFICES ASSUME Typed, Environment PROVE Typed' OBVIOUS
<1> USE <1>1, Frames DEF Typed
<1>2. ASSUME NEW c \in Conns, Connect(c) PROVE Typed'
  <2>1. Append(backlog, c) \in Seq(Conns) BY PushFacts DEF TypedConns
  <2>2. TypedConns' BY <1>2, <2>1 DEF Connect, TypedConns
  <2>3. TypedEpoll' BY <1>2 DEF Connect, TypedEpoll
  <2>4. QED BY <1>2, <2>2, <2>3 DEF Connect
<1>3. ASSUME NEW c \in Conns, ClientHangsUp(c) PROVE Typed'
  <2>1. TypedConns' BY <1>3 DEF ClientHangsUp, TypedConns
  <2>2. TypedEpoll' BY <1>3, EdgeTypes DEF ClientHangsUp, Sockets
  <2>3. TypedOut' BY <1>3 DEF ClientHangsUp, TypedOut
  <2>4. QED BY <1>3, <2>1, <2>2, <2>3 DEF ClientHangsUp
<1>4. ASSUME NEW q \in Queries, ClientSends(q) PROVE Typed'
  <2>1. ConnOf[q] \in Conns BY TcpRelayAssumption
  <2>2. Append(inbox[ConnOf[q]], q) \in Seq(Queries) BY <2>1, PushFacts DEF TypedConns
  <2>3. TypedConns' BY <1>4, <2>1, <2>2 DEF ClientSends, TypedConns
  <2>4. TypedEpoll' BY <1>4, <2>1, EdgeTypes DEF ClientSends, Sockets
  <2>5. QED BY <1>4, <2>3, <2>4 DEF ClientSends
<1>5. ASSUME NEW m \in wire, NameserverAnswers(m) PROVE Typed'
  <2>1. /\ m.remote \in Remotes
        /\ [id |-> m.id, question |-> m.question] \in Packets
    BY DEF TypedLinks, Packets, Forwarded
  <2>2. Append(linkIn[m.remote], [id |-> m.id, question |-> m.question]) \in Seq(Packets)
    BY <2>1, PushFacts DEF TypedLinks
  <2>3. TypedLinks' BY <1>5, <2>1, <2>2 DEF NameserverAnswers, TypedLinks
  <2>4. TypedEpoll' BY <1>5, <2>1, EdgeTypes DEF NameserverAnswers, Sockets
  <2>5. QED BY <1>5, <2>3, <2>4 DEF NameserverAnswers
<1>6. ASSUME NEW r \in Remotes, NameserverHangsUp(r) PROVE Typed'
  <2>1. TypedLinks' BY <1>6 DEF NameserverHangsUp, TypedLinks
  <2>2. TypedEpoll' BY <1>6, EdgeTypes DEF NameserverHangsUp, Sockets
  <2>3. TypedOut' BY <1>6 DEF NameserverHangsUp, TypedOut
  <2>4. QED BY <1>6, <2>1, <2>2, <2>3 DEF NameserverHangsUp
<1>7. ASSUME NEW s \in Sockets, Fill(s) PROVE Typed'
  <2>1. TypedOut' BY <1>7 DEF Fill, TypedOut
  <2>2. QED BY <1>7, <2>1 DEF Fill
<1>8. ASSUME NEW s \in Sockets, Drain(s) PROVE Typed'
  <2>1. TypedOut' BY <1>8 DEF Drain, TypedOut
  <2>2. TypedEpoll' BY <1>8, ReportTypes DEF Drain, TypedEpoll
  <2>3. QED BY <1>8, <2>1, <2>2 DEF Drain
<1>9. CASE DeadlinePasses BY <1>9 DEF DeadlinePasses
<1>10. CASE Alarm
  <2>1. Timeout \in JobSet /\ Fits(Timeout) BY DEF Timeout, JobSet, Fits
  <2>2. /\ Append(jobs, Timeout) \in Seq(JobSet)
        /\ Range(Append(jobs, Timeout)) = Range(jobs) \cup {Timeout}
    BY <2>1, EnqueueFacts DEF TypedLoop
  <2>3. TypedLoop' BY <1>10, <2>1, <2>2 DEF Alarm, TypedLoop
  <2>4. QED BY <1>10, <2>3 DEF Alarm
<1>11. QED
  BY <1>2, <1>3, <1>4, <1>5, <1>6, <1>7, <1>8, <1>9, <1>10 DEF Environment

-----------------------------------------------------------------------------
(* Jobs Run makes of its event: they point to what their handlers expect,    *)
(* and one of them at most closes a TcpServer.                               *)
Proper(new) ==
    /\ new \in Seq(JobSet)
    /\ \A j \in Range(new) : Fits(j)
    /\ \A n \in DOMAIN new : new[n].kind = "close" =>
          /\ event.hup /\ new[n].ptr = event.ptr
          /\ \A m \in DOMAIN new : new[m].kind = "close" => m = n

Closeless(new) == \A n \in DOMAIN new : new[n].kind # "close"

LEMMA ProperIf ==
    ASSUME NEW x \in BOOLEAN, NEW k, NEW p, [kind |-> k, ptr |-> p] \in JobSet,
           Fits([kind |-> k, ptr |-> p]), k = "close" => (x => event.hup /\ p = event.ptr)
    PROVE  Proper(JobIf(x, k, p)) /\ (k # "close" => Closeless(JobIf(x, k, p)))
<1>1. CASE x
  <2> DEFINE j == [kind |-> k, ptr |-> p]
             s == <<j>>
  <2>1. JobIf(x, k, p) = s BY <1>1 DEF JobIf
  <2>2. j \in JobSet /\ Fits(j) /\ j.kind = k /\ j.ptr = p OBVIOUS
  <2> HIDE DEF j
  <2>3. s \in Seq(JobSet) /\ DOMAIN s = {1} /\ s[1] = j BY <2>2
  <2> HIDE DEF s
  <2>4. Range(s) = {j} BY <2>3 DEF Range
  <2>5. k = "close" => event.hup /\ p = event.ptr BY <1>1
  <2>6. Proper(s)
    BY <2>2, <2>3, <2>4, <2>5 DEF Proper
  <2>7. k # "close" => Closeless(s) BY <2>2, <2>3 DEF Closeless
  <2>8. QED BY <2>1, <2>6, <2>7
<1>2. CASE ~x
  <2>1. JobIf(x, k, p) = <<>> BY <1>2 DEF JobIf
  <2>2. QED BY <2>1, NoElements DEF Proper, Closeless
<1>3. QED BY <1>1, <1>2

LEMMA ProperJobs ==
    ASSUME TypedLoop
    PROVE  /\ Proper(<<>>) /\ Closeless(<<>>)
           /\ Proper(AcceptJob) /\ Closeless(AcceptJob)
           /\ event.ptr \in Addrs \cup Remotes =>
                 /\ Proper(ReceiveJob(event)) /\ Closeless(ReceiveJob(event))
                 /\ Proper(CloseJob(event))
                 /\ Proper(ReceiveJob(event) \o CloseJob(event))
<1>1. Proper(<<>>) /\ Closeless(<<>>) BY NoElements DEF Proper, Closeless
<1>2. Proper(AcceptJob) /\ Closeless(AcceptJob)
  <2> DEFINE k == "accept"
  <2>1. [kind |-> k, ptr |-> None] \in JobSet /\ Fits([kind |-> k, ptr |-> None]) /\ k # "close"
    BY DEF JobSet, Fits
  <2>2. AcceptJob = JobIf(TRUE, k, None) BY DEF AcceptJob
  <2> HIDE DEF k
  <2>3. ASSUME NEW x \in BOOLEAN PROVE Proper(JobIf(x, k, None)) /\ Closeless(JobIf(x, k, None))
    BY <2>1, ProperIf
  <2>4. QED BY <2>2, <2>3
<1>3. ASSUME event.ptr \in Addrs \cup Remotes
      PROVE  /\ Proper(ReceiveJob(event)) /\ Closeless(ReceiveJob(event))
             /\ Proper(CloseJob(event))
             /\ Proper(ReceiveJob(event) \o CloseJob(event))
  <2> DEFINE kind  == IF event.ptr \in Addrs THEN "query" ELSE "answer"
             close == IF event.ptr \in Addrs THEN "close" ELSE "restart"
             r == ReceiveJob(event)
             c == CloseJob(event)
  <2>1. event.in \in BOOLEAN /\ event.hup \in BOOLEAN BY DEF TypedLoop
  <2>2. /\ [kind |-> kind, ptr |-> event.ptr] \in JobSet
        /\ [kind |-> close, ptr |-> event.ptr] \in JobSet
        /\ Fits([kind |-> kind, ptr |-> event.ptr]) /\ Fits([kind |-> close, ptr |-> event.ptr])
        /\ kind # "close"
    BY <1>3 DEF JobSet, Fits
  <2>3. r = JobIf(event.in, kind, event.ptr) /\ c = JobIf(event.hup, close, event.ptr)
    BY DEF ReceiveJob, CloseJob, CloseIf
  <2> HIDE DEF kind, close, r, c
  <2>4. Proper(r) /\ Closeless(r) /\ Proper(c) BY <2>1, <2>2, <2>3, ProperIf
  <2>5. r \in Seq(JobSet) /\ c \in Seq(JobSet) BY <2>4 DEF Proper
  <2>6. /\ r \o c \in Seq(JobSet) /\ Range(r \o c) = Range(r) \cup Range(c)
        /\ Len(r) \in Nat /\ Len(c) \in Nat
        /\ DOMAIN r = 1 .. Len(r) /\ DOMAIN c = 1 .. Len(c)
        /\ DOMAIN (r \o c) = 1 .. Len(r) + Len(c)
        /\ \A n \in 1 .. Len(r) : (r \o c)[n] = r[n]
        /\ \A n \in 1 .. Len(c) : (r \o c)[Len(r) + n] = c[n]
    BY <2>5, ConcatFacts
  <2>7. ASSUME NEW n \in DOMAIN (r \o c), (r \o c)[n].kind = "close"
        PROVE  n - Len(r) \in DOMAIN c /\ (r \o c)[n] = c[n - Len(r)]
    <3>1. n \notin DOMAIN r BY <2>4, <2>6, <2>7 DEF Closeless
    <3>2. n - Len(r) \in 1 .. Len(c) /\ Len(r) + (n - Len(r)) = n BY <2>6, <3>1
    <3>3. QED BY <2>6, <3>2
  <2>8. ASSUME NEW n \in DOMAIN (r \o c), (r \o c)[n].kind = "close"
        PROVE  /\ event.hup /\ (r \o c)[n].ptr = event.ptr
               /\ \A m \in DOMAIN (r \o c) : (r \o c)[m].kind = "close" => m = n
    <3>1. event.hup /\ (r \o c)[n].ptr = event.ptr BY <2>4, <2>7, <2>8 DEF Proper
    <3>2. ASSUME NEW m \in DOMAIN (r \o c), (r \o c)[m].kind = "close" PROVE m = n
      <4>1. n - Len(r) = m - Len(r) BY <2>4, <2>7, <2>8, <3>2 DEF Proper
      <4>2. n \in Int /\ m \in Int BY <2>6
      <4>3. QED BY <2>6, <4>1, <4>2
    <3>3. QED BY <3>1, <3>2
  <2>9. Proper(r \o c) BY <2>4, <2>6, <2>8 DEF Proper
  <2>10. QED BY <2>4, <2>9 DEF r, c
<1>4. QED BY <1>1, <1>2, <1>3

(* The socket of the object Run has a pointer to. *)
LEMMA SocketTypes ==
    ASSUME Typed, run \in {"flush", "modify"}, ~Gone
    PROVE  /\ Socket \in Sockets
           /\ event.ptr \in Addrs \cup Remotes
           /\ event.ptr \in Addrs => Socket \in Conns /\ object[event.ptr] = Socket
           /\ event.ptr \notin Addrs => Socket \in Remotes \ Conns /\ Socket = event.ptr
<1>1. event.ptr \in Addrs \cup Remotes /\ Conns \cap Remotes = {}
  BY TcpRelayAssumption DEF Typed, TypedLoop
<1>2. QED BY <1>1 DEF Socket, Gone, Sockets, Typed, TypedSets

LEMMA EmptyTypes ==
    ASSUME TypedLinks, TypedOut, NEW s \in Sockets, Empty(s),
           UNCHANGED <<link, linkIn, full, slow>>
    PROVE  TypedLinks' /\ TypedOut'
<1>1. CASE s \in Conns BY <1>1 DEF Empty, TypedLinks, TypedOut
<1>2. CASE s \notin Conns
  <2>1. s \in Remotes BY <1>2 DEF Sockets
  <2>2. QED BY <1>2, <2>1 DEF Empty, SendTo, TypedLinks, TypedOut
<1>3. QED BY <1>1, <1>2

(* ... of Run ... *)
LEMMA TypedRun == Typed /\ MainStep => Typed'
<1>1. SUFFICES ASSUME Typed, MainStep PROVE Typed' OBVIOUS
<1> USE <1>1, Frames DEF Typed
<1>2. ASSUME NEW new, Proper(new), jobs' = jobs \o new
      PROVE  jobs' \in Seq(JobSet) /\ \A j \in Range(jobs') : Fits(j)
  <2>1. jobs \in Seq(JobSet) /\ new \in Seq(JobSet) BY <1>2 DEF TypedLoop, Proper
  <2>2. jobs' \in Seq(JobSet) /\ Range(jobs') = Range(jobs) \cup Range(new)
    BY <1>2, <2>1, ConcatFacts
  <2>3. QED BY <1>2, <2>2 DEF TypedLoop, Proper
<1>3. ASSUME NEW new, Proper(new), EndEvent(new) PROVE TypedLoop'
  BY <1>2, <1>3 DEF EndEvent, TypedLoop, NoEvent
<1>4. ASSUME NEW s \in ready, EpollWait(s) PROVE Typed'
  <2>1. s \in {Listener} \cup Sockets BY DEF TypedEpoll
  <2>2. EventOf(s) \in [ptr : {Listener, None} \cup Addrs \cup Remotes,
                        in : BOOLEAN, out : BOOLEAN, hup : BOOLEAN]
    BY <2>1 DEF EventOf, HungUp, Arrived, TypedEpoll
  <2>3. TypedLoop' BY <1>4, <2>2 DEF EpollWait, TypedLoop
  <2>4. TypedEpoll' BY <1>4 DEF EpollWait, TypedEpoll
  <2>5. QED BY <1>4, <2>3, <2>4 DEF EpollWait
<1>5. CASE FindSocket
  <2>1. event.ptr \in servers \cup clients => event.ptr \in Addrs \cup Remotes
    BY DEF TypedSets
  <2>2. CASE event.ptr = Listener /\ EndEvent(AcceptJob)
    <3>1. TypedLoop' BY <1>3, <2>2, ProperJobs
    <3>2. QED BY <1>5, <3>1 DEF FindSocket
  <2>3. CASE EndEvent(<<>>)
    <3>1. TypedLoop' BY <1>3, <2>3, ProperJobs
    <3>2. QED BY <1>5, <3>1 DEF FindSocket
  <2>4. CASE event.ptr \in servers \cup clients /\ event.out
    <3>1. CASE jobs' = jobs \o ReceiveJob(event) /\ run' = "flush" /\ UNCHANGED event
      <4>1. TypedLoop' BY <1>2, <2>1, <2>4, <3>1, ProperJobs DEF TypedLoop
      <4>2. QED BY <1>5, <4>1 DEF FindSocket
    <3>2. QED BY <1>5, <2>2, <2>3, <2>4, <3>1 DEF FindSocket
  <2>5. CASE event.ptr \in servers \cup clients /\ EndEvent(ReceiveJob(event) \o CloseJob(event))
    <3>1. TypedLoop' BY <1>3, <2>1, <2>5, ProperJobs
    <3>2. QED BY <1>5, <3>1 DEF FindSocket
  <2>6. QED BY <1>5, <2>2, <2>3, <2>4, <2>5 DEF FindSocket
<1>6. CASE FindRaces BY <1>6 DEF FindRaces, Fault
<1>7. CASE Flush
  <2>1. Socket \in Sockets /\ event.ptr \in Addrs \cup Remotes
    BY <1>7, SocketTypes DEF Flush
  <2>2. CASE EndEvent(CloseJob(event)) /\ UNCHANGED <<wire, replies, outbox, linkOut>>
    <3>1. TypedLoop' BY <1>3, <2>1, <2>2, ProperJobs
    <3>2. QED BY <1>7, <2>2, <3>1 DEF Flush, linkVars, outVars
  <2>3. CASE Empty(Socket) /\ run' = "modify" /\ UNCHANGED <<event, jobs>>
    <3>1. TypedLoop' BY <2>1, <2>3 DEF TypedLoop
    <3>2. TypedLinks' /\ TypedOut' BY <1>7, <2>1, <2>3, EmptyTypes DEF Flush
    <3>3. QED BY <1>7, <3>1, <3>2 DEF Flush
  <2>4. QED BY <1>7, <2>2, <2>3 DEF Flush
<1>8. CASE ModifySocket
  <2>1. Socket \in Sockets /\ event.ptr \in Addrs \cup Remotes
    BY <1>8, SocketTypes DEF ModifySocket
  <2>2. TypedLoop' BY <1>3, <1>8, <2>1, ProperJobs DEF ModifySocket
  <2>3. TypedEpoll' BY <1>8, <2>1, ReportTypes DEF ModifySocket, Modify, TypedEpoll
  <2>4. QED BY <1>8, <2>2, <2>3 DEF ModifySocket
<1>9. CASE RunFails BY <1>9 DEF RunFails, Fault
<1>10. QED BY <1>4, <1>5, <1>6, <1>7, <1>8, <1>9 DEF MainStep

-----------------------------------------------------------------------------
(* ... and of the workers.  A worker that has a job to start is idle ...     *)
LEMMA StartWork ==
    ASSUME Typed, NEW w \in Workers, StartJob(w)
    PROVE  /\ TypedWork' /\ TypedLoop' /\ Elsewhere(w)
           /\ Head(jobs) \in JobSet /\ Fits(Head(jobs))
           /\ job'[w] = Head(jobs) /\ pc'[w] = Head(jobs).kind /\ data'[w] = <<>>
           /\ pc[w] = "idle" /\ data[w] = <<>>
<1>1. jobs # <<>> /\ jobs \in Seq(JobSet) /\ pc[w] = "idle"
  BY DEF StartJob, At, Typed, TypedLoop
<1>2. /\ Head(jobs) \in JobSet /\ Tail(jobs) \in Seq(JobSet)
      /\ Head(jobs) \in Range(jobs) /\ Range(jobs) = Range(Tail(jobs)) \cup {Head(jobs)}
  BY <1>1, DequeueFacts
<1>3. Fits(Head(jobs)) BY <1>2 DEF Typed, TypedLoop
<1>4. TypedLoop' BY <1>2 DEF StartJob, Typed, TypedLoop
<1>5. Head(jobs).kind \in {"accept", "query", "close", "answer", "restart", "timeout"}
  BY <1>2 DEF JobSet
<1>6. data[w] = <<>> BY <1>1 DEF Typed, TypedWork, LocalsFit, HasData, Forwarding, Answering
<1>7. /\ Elsewhere(w)
      /\ job'[w] = Head(jobs) /\ pc'[w] = Head(jobs).kind /\ data'[w] = <<>>
      /\ pc' \in [Workers -> Labels] /\ job' \in [Workers -> JobSet \cup {NoJob}]
      /\ data' = data /\ task' = task /\ rest' = rest /\ to' = to
  BY <1>2, <1>5, <1>6 DEF StartJob, Typed, TypedWork, Elsewhere, Labels
<1>8. LocalsFit(w)'
  BY <1>3, <1>5, <1>7, NoElements DEF LocalsFit, TakenBy, HasData, Forwarding, Answering
<1>9. TypedWork' BY <1>7, <1>8, WorkElsewhere DEF Typed, TypedWork
<1>10. QED BY <1>1, <1>2, <1>3, <1>4, <1>6, <1>7, <1>9

(* ... Accept finds a connection in the backlog and a free address ...       *)
LEMMA AcceptWork ==
    ASSUME Typed, NEW w \in Workers, Accept(w)
    PROVE  /\ TypedWork' /\ Elsewhere(w)
           /\ pc[w] = "accept" /\ pc'[w] = "insert" /\ job'[w].kind = "accept"
           /\ job'[w].ptr \in Addrs /\ object[job'[w].ptr] = None
           /\ backlog # <<>> /\ Head(backlog) \in Conns
           /\ object' = [object EXCEPT ![job'[w].ptr] = Head(backlog)]
<1>1. PICK a \in Addrs : /\ object[a] = None
                         /\ object' = [object EXCEPT ![a] = Head(backlog)]
                         /\ job' = [job EXCEPT ![w].ptr = a]
  BY DEF Accept, AcceptThen
<1>2. /\ pc[w] = "accept" /\ pc' = [pc EXCEPT ![w] = "insert"] /\ UNCHANGED <<data, task, rest, to>>
      /\ backlog # <<>>
  BY DEF Accept, AcceptThen, At
<1>3. Head(backlog) \in Conns BY <1>2, PopFacts DEF Typed, TypedConns
<1>4. job[w] \in JobSet /\ job[w].kind = "accept"
  BY <1>2
  DEF Typed, TypedWork, LocalsFit, TakenBy, NoJob, Forwarding, Answering, Restarting
<1>5. job'[w] = [kind |-> "accept", ptr |-> a] BY <1>1, <1>4 DEF Typed, TypedWork, JobSet
<1>6. job'[w] \in JobSet BY <1>5 DEF JobSet
<1>7. /\ Elsewhere(w) /\ pc'[w] = "insert"
      /\ pc' \in [Workers -> Labels] /\ job' \in [Workers -> JobSet \cup {NoJob}]
  BY <1>1, <1>2, <1>6 DEF Typed, TypedWork, Elsewhere, Labels
<1>8. LocalsFit(w)'
  BY <1>2, <1>4, <1>5, <1>7
  DEF Typed, TypedWork, LocalsFit, TakenBy, HasData, Fits, Forwarding, Answering
<1>9. TypedWork' BY <1>2, <1>7, <1>8, WorkElsewhere DEF Typed, TypedWork
<1>10. QED BY <1>1, <1>2, <1>3, <1>5, <1>7, <1>9

(* ... and what a step finds in its job. *)
LEMMA JobAt ==
    ASSUME TypedWork, NEW w \in Workers
    PROVE  /\ pc[w] \in {"insert", "add", "query", "close", "erase"} \cup Forwarding =>
                 job[w] \in JobSet /\ job[w].ptr \in Addrs
           /\ pc[w] \in {"answer", "match", "restart"} \cup Restarting =>
                 job[w] \in JobSet /\ job[w].ptr \in Remotes
           /\ pc[w] \in {"query"} \cup Forwarding => job[w].kind = "query"
           /\ pc[w] \in {"answer", "match"} => job[w].kind = "answer"
           /\ pc[w] \in {"restart"} \cup Restarting => job[w].kind = "restart"
           /\ pc[w] \in Answering => job[w] = Timeout \/ job[w].kind = "answer"
           /\ pc[w] = "timeout" => job[w] = Timeout
           /\ pc[w] \in {"match"} \cup Forwarding => data[w] # <<>>
           /\ pc[w] \in Forwarding => data[w] \in Seq(Queries)
           /\ pc[w] \in {"match"} \cup Answering => data[w] \in Seq(Packets)
           /\ pc[w] \in Answering /\ job[w] # Timeout => data[w] # <<>>
           /\ pc[w] \in Answering => task[w] \in Queries
           /\ pc[w] = "watch" => to[w] \in Remotes
           /\ pc[w] \in {"close", "erase"} => job[w].kind = "close"
<1>1. LocalsFit(w) BY DEF TypedWork
<1>2. pc[w] # "idle" => job[w] \in JobSet
  BY <1>1 DEF TypedWork, LocalsFit, TakenBy, NoJob, Forwarding, Answering, Restarting
<1>3. QED
  BY <1>1, <1>2 DEF LocalsFit, TakenBy, Fits, HasData, Timeout, Forwarding, Answering, Restarting

-----------------------------------------------------------------------------
(* Types through the handlers of the servers' connections.                   *)
LEMMA TypedAccept ==
    ASSUME Typed, NEW w \in Workers, pc[w] = "add" => object[job[w].ptr] # None,
           \/ StartJob(w) \/ Accept(w) \/ InsertServer(w) \/ AddServer(w)
           \/ CloseServer(w) \/ EraseServer(w) \/ CloseThrows(w) \/ HandlerDone(w)
    PROVE  Typed'
<1> USE Frames DEF Typed
<1>1. CASE StartJob(w) BY <1>1, StartWork DEF StartJob, epollVars
<1>2. CASE Accept(w)
  <2>1. /\ TypedWork' /\ object' = [object EXCEPT ![job'[w].ptr] = Head(backlog)]
        /\ job'[w].ptr \in Addrs /\ backlog # <<>> /\ Head(backlog) \in Conns
    BY <1>2, AcceptWork
  <2>2. Tail(backlog) \in Seq(Conns) BY <2>1, PopFacts DEF TypedConns
  <2>3. TypedConns' BY <1>2, <2>1, <2>2 DEF Accept, AcceptThen, TypedConns
  <2>4. TypedSets' BY <1>2, <2>1 DEF Accept, AcceptThen, TypedSets
  <2>5. QED BY <1>2, <2>1, <2>3, <2>4 DEF Accept, AcceptThen
<1>3. CASE InsertServer(w)
  <2>1. pc[w] = "insert" /\ job[w].ptr \in Addrs BY <1>3, JobAt DEF InsertServer, At
  <2>2. TypedSets' BY <1>3, <2>1 DEF InsertServer, TypedSets
  <2>3. TypedWork'
    BY <1>3, <2>1, GotoWork 
    DEF InsertServer, Labels, TypedWork, LocalsFit, TakenBy, HasData, Forwarding, Answering,
        Restarting
  <2>4. QED BY <1>3, <2>2, <2>3 DEF InsertServer
<1>4. CASE AddServer(w)
  <2>1. pc[w] = "add" /\ job[w].ptr \in Addrs BY <1>4, JobAt DEF AddServer, At
  <2>2. object[job[w].ptr] \in Conns /\ object[job[w].ptr] \notin Remotes
    BY <2>1, TcpRelayAssumption DEF TypedSets
  <2>3. TypedWork' BY <1>4, ReturnWork DEF AddServer
  <2>4. /\ registered' = [registered EXCEPT ![object[job[w].ptr]] = job[w].ptr]
        /\ ready' \subseteq {Listener} \cup Sockets /\ UNCHANGED <<watched, again>>
    BY <1>4, <2>2 DEF AddServer, TypedEpoll, Sockets
  <2>5. TypedEpoll' BY <2>1, <2>2, <2>4 DEF TypedEpoll, Sockets
  <2>6. QED BY <1>4, <2>3, <2>5 DEF AddServer
<1>5. CASE CloseServer(w)
  <2>1. pc[w] = "close" /\ job[w].ptr \in Addrs BY <1>5, JobAt DEF CloseServer, At
  <2>2. TypedWork'
    BY <1>5, <2>1, GotoWork 
    DEF CloseServer, Labels, TypedWork, LocalsFit, TakenBy, HasData, Forwarding, Answering,
        Restarting
  <2>3. TypedEpoll' BY <1>5, <2>1 DEF CloseServer, TypedEpoll, TypedSets, Sockets
  <2>4. QED BY <1>5, <2>2, <2>3 DEF CloseServer
<1>6. CASE EraseServer(w)
  <2>1. pc[w] = "erase" /\ job[w].ptr \in Addrs BY <1>6, JobAt DEF EraseServer, At
  <2>2. TypedWork' BY <1>6, ReturnWork DEF EraseServer
  <2>3. TypedSets' BY <1>6, <2>1 DEF EraseServer, TypedSets
  <2>4. TypedConns' BY <1>6, <2>1 DEF EraseServer, TypedConns
  <2>5. TypedOut' BY <1>6, <2>1 DEF EraseServer, TypedOut
  <2>6. QED BY <1>6, <2>2, <2>3, <2>4, <2>5 DEF EraseServer
<1>7. CASE CloseThrows(w) BY <1>7, ReturnWork DEF CloseThrows
<1>8. CASE HandlerDone(w) BY <1>8, ReturnWork DEF HandlerDone
<1>9. QED BY <1>1, <1>2, <1>3, <1>4, <1>5, <1>6, <1>7, <1>8

(* ... through TcpServerRecvHandler, where a query is next sent to a         *)
(* nameserver, or the next one forwarded ...                                 *)
LEMMA NextWork ==
    ASSUME TypedWork, NEW w \in Workers, pc[w] \in Forwarding, NEW more \in SUBSET Remotes,
           NextClient(w, more)
    PROVE  /\ TypedWork' /\ Elsewhere(w) /\ pc'[w] \in {"idle", "forward", "relay"}
           /\ pc'[w] = "idle" => Tail(data[w]) = <<>> /\ job'[w] = NoJob
           /\ pc'[w] = "forward" => data'[w] = Tail(data[w]) /\ job'[w] = job[w]
           /\ pc'[w] = "relay" => data'[w] = data[w] /\ job'[w] = job[w]
<1>1. /\ data[w] \in Seq(Queries) /\ data[w] # <<>> /\ job[w].kind = "query"
      /\ job[w].ptr \in Addrs /\ job[w] \in JobSet
  BY JobAt
<1>2. Tail(data[w]) \in Seq(Queries) BY <1>1, PopFacts
<1>3. CASE more = {}
  <2>1. Handle(w, "forward", Tail(data[w])) BY <1>3 DEF NextClient
  <2>2. TakenBy(job[w].kind, "forward") BY <1>1 DEF TakenBy, Forwarding
  <2>3. QED BY <1>1, <1>2, <2>1, <2>2, HandleWork
<1>4. CASE more # {}
  <2>1. /\ Elsewhere(w) /\ pc'[w] = "relay" /\ UNCHANGED <<job, data, task>>
        /\ pc' \in [Workers -> Labels]
        /\ rest' \in [Workers -> SUBSET Remotes] /\ to' \in [Workers -> Remotes \cup {None}]
    BY <1>4 DEF NextClient, TypedWork, Elsewhere, Labels, Forwarding
  <2>2. LocalsFit(w)'
    BY <1>1, <2>1 DEF LocalsFit, TakenBy, HasData, Fits, Timeout, Forwarding, Answering
  <2>3. QED BY <2>1, <2>2, WorkElsewhere DEF TypedWork
<1>5. QED BY <1>3, <1>4

LEMMA PutTaskTypes ==
    ASSUME Typed, NEW w \in Workers, PutTask(w)
    PROVE  /\ pc[w] = "forward" /\ indexQueue # <<>>
           /\ Head(data[w]) \in Queries /\ Tail(data[w]) \in Seq(Queries)
           /\ Head(indexQueue) \in Indices /\ job[w].ptr \in Addrs
           /\ TypedTasks'
<1> USE DEF Typed
<1>1. pc[w] = "forward" /\ indexQueue # <<>> BY DEF PutTask, At
<1>2. data[w] \in Seq(Queries) /\ data[w] # <<>> /\ job[w].ptr \in Addrs
  BY <1>1, JobAt DEF Forwarding
<1>3. Head(data[w]) \in Queries /\ Tail(data[w]) \in Seq(Queries) BY <1>2, PopFacts
<1>4. Head(indexQueue) \in Indices /\ Tail(indexQueue) \in Seq(Indices)
  BY <1>1, PopFacts DEF TypedTasks
<1>5. /\ Append(heap, Head(data[w])) \in Seq(Queries)
      /\ Range(Append(heap, Head(data[w]))) = Range(heap) \cup {Head(data[w])}
  BY <1>3, EnqueueFacts DEF TypedTasks
<1>6. None \notin Indices BY TcpRelayAssumption DEF Indices
<1>7. \A q \in Queries : index'[q] # None <=> q = Head(data[w]) \/ index[q] # None
  BY <1>3, <1>4, <1>6 DEF PutTask, TypedTasks
<1>8. \A q \in Range(heap) : q \in Queries
  BY LenProperties, ElementOfSeq DEF TypedTasks, Range
<1>9. TypedTasks'
  BY <1>2, <1>3, <1>4, <1>5, <1>7, <1>8 DEF PutTask, TypedTasks
<1>10. QED BY <1>1, <1>2, <1>3, <1>4, <1>9

LEMMA TypedForward ==
    ASSUME Typed, Given, NEW w \in Workers,
           \/ ReceiveQueries(w) \/ ForwardQuery(w) \/ PoolExhausted(w)
           \/ RelayQuery(w) \/ WatchClient(w)
    PROVE  Typed'
<1> USE Frames DEF Typed
<1>1. CASE ReceiveQueries(w)
  <2>1. /\ pc[w] = "query" /\ job[w].ptr \in Addrs /\ job[w].kind = "query"
        /\ object[job[w].ptr] \in Conns
    BY <1>1, JobAt DEF ReceiveQueries, At, TypedSets
  <2>2. inbox[object[job[w].ptr]] \in Seq(Queries) BY <2>1 DEF TypedConns
  <2>3. TypedWork' BY <1>1, <2>1, <2>2, HandleWork DEF ReceiveQueries, TakenBy, Forwarding
  <2>4. TypedConns' BY <1>1, <2>1, NoElements DEF ReceiveQueries, TypedConns
  <2>5. QED BY <1>1, <2>3, <2>4 DEF ReceiveQueries
<1>2. CASE ForwardQuery(w)
  <2>1. PutTask(w) /\ NextClient(w, clients) /\ clients \in SUBSET Remotes
    BY <1>2 DEF ForwardQuery, TypedSets
  <2>2. TypedTasks' /\ pc[w] \in Forwarding BY <2>1, PutTaskTypes DEF Forwarding
  <2>3. TypedWork' BY <2>1, <2>2, NextWork
  <2>4. QED BY <2>1, <2>2, <2>3 DEF PutTask
<1>3. CASE PoolExhausted(w) BY <1>3 DEF PoolExhausted, Fault
<1>4. CASE RelayQuery(w)
  <2>1. PICK r \in rest[w] :
          /\ pc[w] = "relay"
          /\ \/ linkOut' = [linkOut EXCEPT ![r] = @ \cup {Copy(w, r)}] /\ UNCHANGED wire
             \/ SendTo(r, {Copy(w, r)}) /\ UNCHANGED linkOut
          /\ \/ /\ pc' = [pc EXCEPT ![w] = "watch"]
                /\ rest' = [rest EXCEPT ![w] = @ \ {r}]
                /\ to' = [to EXCEPT ![w] = r]
                /\ UNCHANGED <<job, data, task>>
             \/ NextClient(w, rest[w] \ {r})
          /\ UNCHANGED <<connVars, link, linkIn, replies, outbox, full, slow, epollVars, loopVars,
                         setVars, taskVars, clock, fault>>
    BY <1>4 DEF RelayQuery, At
  <2>2. /\ rest[w] \in SUBSET Remotes /\ r \in Remotes
        /\ data[w] \in Seq(Queries) /\ data[w] # <<>>
    BY <2>1, JobAt DEF TypedWork, Forwarding
  <2>3. Head(data[w]) \in Queries BY <2>2, PopFacts
  <2>4. index[Head(data[w])] \in Indices BY <2>1, <2>3 DEF Given, TypedTasks
  <2>5. Copy(w, r) \in Forwarded BY <2>2, <2>3, <2>4 DEF Copy, Forwarded, Questions
  <2>6. TypedLinks' /\ TypedOut' BY <2>1, <2>2, <2>5 DEF SendTo, TypedLinks, TypedOut
  <2>7. TypedWork'
    <3>1. CASE /\ pc' = [pc EXCEPT ![w] = "watch"]
               /\ rest' = [rest EXCEPT ![w] = @ \ {r}]
               /\ to' = [to EXCEPT ![w] = r]
               /\ UNCHANGED <<job, data, task>>
      <4>1. /\ Elsewhere(w) /\ pc'[w] = "watch" /\ to'[w] = r
            /\ pc' \in [Workers -> Labels]
            /\ rest' \in [Workers -> SUBSET Remotes]
            /\ to' \in [Workers -> Remotes \cup {None}]
        BY <2>2, <3>1 DEF TypedWork, Elsewhere, Labels, Forwarding
      <4>2. LocalsFit(w) BY DEF TypedWork
      <4>3. LocalsFit(w)'
        BY <2>1, <2>2, <3>1, <4>1, <4>2
        DEF LocalsFit, TakenBy, HasData, Forwarding, Answering, Restarting
      <4>4. QED BY <3>1, <4>1, <4>3, WorkElsewhere DEF TypedWork
    <3>2. CASE NextClient(w, rest[w] \ {r})
      <4>1. rest[w] \ {r} \in SUBSET Remotes /\ pc[w] \in Forwarding
        BY <2>1, <2>2 DEF Forwarding
      <4>2. QED BY <3>2, <4>1, NextWork
    <3>3. QED BY <2>1, <3>1, <3>2
  <2>8. QED BY <2>1, <2>6, <2>7
<1>5. CASE WatchClient(w)
  <2>1. /\ pc[w] = "watch" /\ pc[w] \in Forwarding
        /\ Modify(to[w], TRUE) /\ NextClient(w, rest[w])
        /\ UNCHANGED <<connVars, linkVars, outVars, loopVars, setVars, taskVars, clock, fault>>
    BY <1>5 DEF WatchClient, At, Forwarding
  <2>2. rest[w] \in SUBSET Remotes /\ to[w] \in Sockets
    BY <2>1, JobAt DEF TypedWork, Sockets
  <2>3. TypedEpoll' BY <2>1, <2>2, ReportTypes DEF Modify, TypedEpoll
  <2>4. TypedWork' BY <2>1, <2>2, NextWork
  <2>5. QED BY <2>1, <2>3, <2>4
<1>6. QED BY <1>1, <1>2, <1>3, <1>4, <1>5

(* ... through TcpClientRecvHandler and TcpTimeoutHandler ...                *)
LEMMA SettleTypes ==
    ASSUME Typed, NEW w \in Workers, NEW q \in Queries, index[q] # None, Settle(w, q),
           pc[w] \in {"match", "timeout"}, UNCHANGED <<index, owner>>
    PROVE  /\ TypedWork' /\ Elsewhere(w) /\ pc'[w] = "send" /\ task'[w] = q
           /\ UNCHANGED <<job, data>>
           /\ index[q] \in Indices
           /\ pool' = [pool EXCEPT ![index[q]] = None]
           /\ indexQueue' \in Seq(Indices)
           /\ Range(indexQueue') = Range(indexQueue) \cup {index[q]}
<1> USE DEF Typed
<1>1. index[q] \in Indices BY DEF TypedTasks
<1>2. /\ indexQueue' \in Seq(Indices)
      /\ Range(indexQueue') = Range(indexQueue) \cup {index[q]}
  BY <1>1, EnqueueFacts DEF Settle, TypedTasks
<1>3. /\ Elsewhere(w) /\ pc'[w] = "send" /\ task'[w] = q /\ UNCHANGED <<job, data>>
      /\ pc' \in [Workers -> Labels] /\ task' \in [Workers -> Queries \cup {None}]
      /\ UNCHANGED <<rest, to>>
  BY DEF Settle, TypedWork, Elsewhere, Labels, Answering
<1>4. LocalsFit(w)'
  <2>1. LocalsFit(w) BY DEF TypedWork
  <2>2. pc[w] = "match" => job[w].kind = "answer" /\ job[w] # Timeout
    BY JobAt DEF Timeout
  <2>3. pc[w] = "timeout" => job[w] = Timeout BY JobAt
  <2>4. TakenBy(job[w].kind, "send") BY <2>2, <2>3 DEF TakenBy, Timeout, Answering
  <2>5. HasData("send", job[w]) <=> HasData(pc[w], job[w]) BY <2>2, <2>3 DEF HasData, Forwarding, Answering
  <2>6. QED BY <1>3, <2>1, <2>4, <2>5 DEF LocalsFit, Answering
<1>5. TypedWork' BY <1>3, <1>4, WorkElsewhere DEF TypedWork
<1>6. QED BY <1>1, <1>2, <1>3, <1>5 DEF Settle

(* The answer that is looked at, and the task in its slot. *)
LEMMA MatchTypes ==
    ASSUME Typed, NEW w \in Workers, MatchAnswer(w)
    PROVE  /\ pc[w] = "match" /\ Head(data[w]) \in Packets
           /\ pool[Head(data[w]).id] \in Queries \cup {None}
<1>1. pc[w] = "match" BY DEF MatchAnswer, At
<1>2. data[w] \in Seq(Packets) /\ data[w] # <<>> BY <1>1, JobAt DEF Typed
<1>3. Head(data[w]) \in Packets BY <1>2, PopFacts
<1>4. Head(data[w]).id \in Indices BY <1>3 DEF Packets
<1>5. QED BY <1>1, <1>3, <1>4 DEF Typed, TypedTasks

(* The timer on top of the heap is that of a query that was made a task.     *)
LEMMA TimerTypes ==
    ASSUME Typed, NEW w \in Workers, PopTimer(w)
    PROVE  /\ pc[w] = "timeout" /\ heap # <<>>
           /\ Head(heap) \in Queries /\ index[Head(heap)] # None
           /\ Tail(heap) \in Seq(Queries) /\ Range(Tail(heap)) \subseteq Range(heap)
<1>1. pc[w] = "timeout" /\ heap # <<>> BY DEF PopTimer, TopExpired, At
<1>2. QED BY <1>1, DequeueFacts DEF Typed, TypedTasks

LEMMA TypedMatch ==
    ASSUME Typed, Indexed, NEW w \in Workers, ReceiveAnswers(w) \/ MatchAnswer(w) \/ PopTimer(w)
    PROVE  Typed'
<1> USE Frames DEF Typed
<1>1. CASE ReceiveAnswers(w)
  <2>1. pc[w] = "answer" /\ job[w].ptr \in Remotes /\ job[w].kind = "answer"
    BY <1>1, JobAt DEF ReceiveAnswers, At
  <2>2. linkIn[job[w].ptr] \in Seq(Packets) BY <2>1 DEF TypedLinks
  <2>3. TypedWork' BY <1>1, <2>1, <2>2, HandleWork DEF ReceiveAnswers, TakenBy, Answering
  <2>4. TypedLinks' BY <1>1, <2>1, NoElements DEF ReceiveAnswers, TypedLinks
  <2>5. QED BY <1>1, <2>3, <2>4 DEF ReceiveAnswers
<1>2. CASE MatchAnswer(w)
  <2> DEFINE q == pool[Head(data[w]).id]
  <2>1. pc[w] = "match" /\ Head(data[w]) \in Packets /\ q \in Queries \cup {None}
    BY <1>2, MatchTypes
  <2>2. UNCHANGED <<connVars, linkVars, outVars, epollVars, loopVars, setVars, index, owner,
                    heap, clock, fault>>
    BY <1>2 DEF MatchAnswer
  <2>3. CASE q # None /\ Head(data[w]).question = QuestionOf[q]
    <3>1. Settle(w, q) BY <1>2, <2>3 DEF MatchAnswer
    <3>2. Head(data[w]).id \in Indices BY <2>1 DEF Packets
    <3>3. index[q] = Head(data[w]).id BY <2>3, <3>2 DEF Indexed
    <3>4. index[q] # None /\ q \in Queries
      BY <2>1, <2>3, <3>2, <3>3, TcpRelayAssumption DEF Indices
    <3> HIDE DEF q
    <3>5. /\ TypedWork' /\ index[q] \in Indices
          /\ pool' = [pool EXCEPT ![index[q]] = None] /\ indexQueue' \in Seq(Indices)
      BY <2>1, <2>2, <3>1, <3>4, SettleTypes
    <3>6. TypedTasks' BY <2>2, <3>5 DEF TypedTasks
    <3>7. QED BY <2>2, <3>5, <3>6
  <2>4. CASE ~(q # None /\ Head(data[w]).question = QuestionOf[q])
    <3>1. Return(w) /\ UNCHANGED <<pool, indexQueue>> BY <1>2, <2>4 DEF MatchAnswer
    <3>2. TypedTasks' BY <2>2, <3>1, Frames DEF taskVars
    <3>3. QED BY <2>2, <3>1, <3>2, ReturnWork
  <2>5. QED BY <2>3, <2>4
<1>3. CASE PopTimer(w)
  <2> DEFINE q == Head(heap)
  <2>1. /\ pc[w] = "timeout" /\ q \in Queries /\ index[q] # None
        /\ Tail(heap) \in Seq(Queries) /\ Range(Tail(heap)) \subseteq Range(heap)
    BY <1>3, TimerTypes
  <2>2. /\ UNCHANGED <<connVars, linkVars, outVars, epollVars, loopVars, setVars, index, owner,
                       clock, fault>>
        /\ heap' = Tail(heap)
    BY <1>3 DEF PopTimer
  <2>3. CASE pool[index[q]] = q
    <3>1. Settle(w, q) BY <1>3, <2>3 DEF PopTimer
    <3> HIDE DEF q
    <3>2. /\ TypedWork' /\ index[q] \in Indices
          /\ pool' = [pool EXCEPT ![index[q]] = None] /\ indexQueue' \in Seq(Indices)
      BY <2>1, <2>2, <3>1, SettleTypes
    <3>3. TypedTasks' BY <2>1, <2>2, <3>2 DEF TypedTasks
    <3>4. QED BY <2>2, <3>2, <3>3
  <2>4. CASE pool[index[q]] # q
    <3>1. UNCHANGED <<pool, indexQueue, workVars>> BY <1>3, <2>4 DEF PopTimer
    <3>2. TypedTasks' BY <2>1, <2>2, <3>1 DEF TypedTasks
    <3>3. QED BY <2>2, <3>1, <3>2
  <2>5. QED BY <2>3, <2>4
<1>4. QED BY <1>1, <1>2, <1>3

(* ... where the next message or the next timer follows the one replied to ... *)
LEMMA AgainWork ==
    ASSUME TypedWork, NEW w \in Workers, pc[w] \in Answering, Again(w)
    PROVE  /\ TypedWork' /\ Elsewhere(w)
           /\ pc'[w] \in {"idle", "match", "timeout"} /\ job'[w] \in {job[w], NoJob}
<1>1. CASE job[w] = Timeout
  <2>1. /\ Elsewhere(w) /\ pc'[w] = "timeout" /\ task'[w] = None
        /\ UNCHANGED <<job, data, rest, to>>
        /\ pc' \in [Workers -> Labels] /\ task' \in [Workers -> Queries \cup {None}]
    BY <1>1 DEF Again, TypedWork, Elsewhere, Labels
  <2>2. LocalsFit(w) BY DEF TypedWork
  <2>3. LocalsFit(w)'
    BY <1>1, <2>1, <2>2 DEF LocalsFit, TakenBy, HasData, Timeout, Forwarding, Answering
  <2>4. QED BY <2>1, <2>3, WorkElsewhere DEF TypedWork
<1>2. CASE job[w] # Timeout
  <2>1. job[w].kind = "answer" /\ data[w] \in Seq(Packets) /\ data[w] # <<>>
    BY <1>2, JobAt
  <2>2. Handle(w, "match", Tail(data[w])) BY <1>2 DEF Again
  <2>3. Tail(data[w]) \in Seq(Packets) BY <2>1, PopFacts
  <2>4. TakenBy(job[w].kind, "match") BY <2>1 DEF TakenBy
  <2>5. QED BY <2>1, <2>2, <2>3, <2>4, HandleWork
<1>3. QED BY <1>1, <1>2

(* ... or an EpollModFd first ... *)
LEMMA ArmWork ==
    ASSUME TypedWork, NEW w \in Workers, pc[w] = "send", Goto(w, "arm") \/ Again(w)
    PROVE  /\ TypedWork' /\ Elsewhere(w)
           /\ pc'[w] \in {"idle", "match", "timeout", "arm"} /\ job'[w] \in {job[w], NoJob}
<1>1. pc[w] \in Answering BY DEF Answering
<1>2. CASE Goto(w, "arm")
  <2>1. "arm" \in Labels /\ "arm" \in Answering BY DEF Labels, Answering
  <2>2. TakenBy(job[w].kind, "arm") /\ (HasData("arm", job[w]) <=> HasData(pc[w], job[w]))
    BY <1>1, JobAt DEF TakenBy, HasData, Timeout, Answering, Forwarding
  <2>3. QED BY <1>1, <1>2, <2>1, <2>2, GotoWork
<1>3. QED BY <1>1, <1>2, AgainWork

(* Where the task's TcpServer is found, there is its connection. *)
LEMMA FoundTypes ==
    ASSUME Typed, NEW w \in Workers, SendReply(w)
    PROVE  /\ pc[w] = "send" /\ task[w] \in Queries
           /\ \A a \in Found(w) : a \in servers /\ a = owner[task[w]] /\ object[a] \in Conns
           /\ \A c \in Conns : Reply(w, c) \in Replies
<1>1. pc[w] = "send" /\ pc[w] \in Answering BY DEF SendReply, SendReplyTo, At, Answering
<1>2. task[w] \in Queries BY <1>1, JobAt DEF Typed
<1>3. \A a \in Found(w) : object[a] # None BY DEF SendReply, SendReplyTo
<1>4. \A a \in Found(w) : a \in servers /\ a = owner[task[w]] BY DEF Found
<1>5. QED BY <1>1, <1>2, <1>3, <1>4 DEF Typed, TypedSets, Reply, Replies

LEMMA TypedSend ==
    ASSUME Typed, Listed, Given, NEW w \in Workers,
           SendReply(w) \/ WatchServer(w) \/ SendThrows(w) \/ SendKills(w)
    PROVE  Typed'
<1> USE Frames DEF Typed
<1>1. CASE SendReply(w)
  <2>1. /\ pc[w] = "send"
        /\ \A a \in Found(w) : object[a] \in Conns
        /\ \A c \in Conns : Reply(w, c) \in Replies
    BY <1>1, FoundTypes
  <2>2. Goto(w, "arm") \/ Again(w) BY <1>1 DEF SendReply, ArmOr
  <2>3. UNCHANGED <<connVars, linkVars, linkOut, full, slow, epollVars, loopVars, setVars,
                    taskVars, clock, fault>>
    BY <1>1 DEF SendReply, SendReplyTo
  <2>4. /\ replies' \subseteq replies \cup {Reply(w, object[a]) : a \in Found(w)}
        /\ outbox' \in [Conns -> SUBSET Replies]
    BY <1>1, <2>1 DEF SendReply, SendReplyTo, TypedOut
  <2>5. TypedOut' BY <2>1, <2>3, <2>4 DEF TypedOut
  <2>6. TypedWork' BY <2>1, <2>2, ArmWork
  <2>7. QED BY <2>3, <2>5, <2>6
<1>2. CASE WatchServer(w)
  <2>1. /\ pc[w] = "arm" /\ pc[w] \in Answering /\ Again(w)
        /\ Modify(object[owner[task[w]]], TRUE)
        /\ UNCHANGED <<connVars, linkVars, outVars, loopVars, setVars, taskVars, clock, fault>>
    BY <1>2 DEF WatchServer, At, Answering
  <2>2. owner[task[w]] \in servers BY <2>1 DEF Given
  <2>3. object[owner[task[w]]] \in Sockets
    BY <2>2 DEF Listed, RegisteredIsListed, TypedSets, Sockets
  <2>4. TypedEpoll' BY <2>1, <2>3, ReportTypes DEF Modify, TypedEpoll
  <2>5. TypedWork' BY <2>1, AgainWork
  <2>6. QED BY <2>1, <2>4, <2>5
<1>3. CASE SendThrows(w) BY <1>3, ReturnWork DEF SendThrows
<1>4. CASE SendKills(w) BY <1>4 DEF SendKills, Fault
<1>5. QED BY <1>1, <1>2, <1>3, <1>4

(* ... and through TcpClientCloseHandler. *)
LEMMA TypedRestart ==
    ASSUME Typed, NEW w \in Workers,
           \/ CloseClient(w) \/ RestartClient(w) \/ InsertClient(w) \/ InsertRaces(w)
           \/ AddClient(w) \/ UsesDangling(w)
    PROVE  Typed'
<1> USE Frames DEF Typed
<1>1. ASSUME pc[w] \in {"restart", "unlink", "relink", "readd"}
      PROVE  /\ job[w].ptr \in Remotes /\ job[w].kind = "restart"
             /\ job[w].ptr \notin Conns
  BY <1>1, JobAt, TcpRelayAssumption DEF Restarting
<1>2. ASSUME NEW l \in Restarting, job[w].kind = "restart",
             pc[w] \in {"restart", "unlink", "relink", "readd"}, Goto(w, l)
      PROVE  TypedWork'
  <2>1. l \in Labels /\ l \notin {"insert", "add", "watch"} \cup Answering
    BY DEF Labels, Restarting, Answering
  <2>2. TakenBy(job[w].kind, l) /\ (HasData(l, job[w]) <=> HasData(pc[w], job[w]))
    BY <1>2 DEF TakenBy, HasData, Restarting, Answering, Forwarding
  <2>3. QED BY <1>2, <2>1, <2>2, GotoWork
<1>3. CASE CloseClient(w)
  <2>1. pc[w] = "restart" /\ job[w].ptr \in Remotes /\ job[w].kind = "restart"
    BY <1>1, <1>3 DEF CloseClient, At
  <2>2. TypedWork' BY <1>2, <1>3, <2>1 DEF CloseClient, Restarting
  <2>3. TypedEpoll' BY <1>3, <2>1 DEF CloseClient, TypedEpoll, Sockets
  <2>4. QED BY <1>3, <2>2, <2>3 DEF CloseClient
<1>4. CASE RestartClient(w)
  <2>1. pc[w] = "unlink" /\ job[w].ptr \in Remotes /\ job[w].kind = "restart"
    BY <1>1, <1>4 DEF RestartClient, At
  <2>2. Goto(w, "relink") => TypedWork' BY <1>2, <2>1 DEF Restarting
  <2>3. Return(w) => TypedWork' BY ReturnWork
  <2>4. TypedLinks' BY <1>4, <2>1, NoElements DEF RestartClient, TypedLinks
  <2>5. TypedSets' BY <1>4 DEF RestartClient, TypedSets
  <2>6. TypedOut' BY <1>4 DEF RestartClient, TypedOut
  <2>7. QED BY <1>4, <2>2, <2>3, <2>4, <2>5, <2>6 DEF RestartClient
<1>5. CASE InsertClient(w)
  <2>1. pc[w] = "relink" /\ job[w].ptr \in Remotes /\ job[w].kind = "restart"
    BY <1>1, <1>5 DEF InsertClient, At
  <2>2. TypedWork' BY <1>2, <1>5, <2>1 DEF InsertClient, Restarting
  <2>3. TypedSets' BY <1>5, <2>1 DEF InsertClient, TypedSets
  <2>4. QED BY <1>5, <2>2, <2>3 DEF InsertClient
<1>6. CASE AddClient(w)
  <2>1. pc[w] = "readd" /\ job[w].ptr \in Remotes /\ job[w].ptr \notin Conns
    BY <1>1, <1>6 DEF AddClient, At
  <2>2. TypedWork' BY <1>6, ReturnWork DEF AddClient
  <2>3. TypedEpoll' BY <1>6, <2>1 DEF AddClient, TypedEpoll, Sockets
  <2>4. QED BY <1>6, <2>2, <2>3 DEF AddClient
<1>7. CASE UsesDangling(w) \/ InsertRaces(w) BY <1>7 DEF UsesDangling, InsertRaces, Fault
<1>8. QED BY <1>3, <1>4, <1>5, <1>6, <1>7

(* The types stay. *)
LEMMA TypedStep == Typed /\ Listed /\ Indexed /\ Given /\ [Next]_vars => Typed'
<1>1. SUFFICES ASSUME Typed, Listed, Indexed, Given, [Next]_vars PROVE Typed' OBVIOUS
<1>2. ASSUME NEW w \in Workers, WorkerStep(w) PROVE Typed'
  <2>1. pc[w] = "add" => object[job[w].ptr] # None
    BY <1>1 DEF Listed, Handled, Busy
  <2>2. QED BY <1>1, <1>2, <2>1, TypedAccept, TypedForward, TypedMatch, TypedSend, TypedRestart
    DEF WorkerStep
<1>3. CASE UNCHANGED vars BY <1>1, <1>3, Frames DEF vars, Typed
<1>4. QED BY <1>1, <1>2, <1>3, TypedEnvironment, TypedRun DEF Next

-----------------------------------------------------------------------------
(* The steps of a handler that has no set to change, nor a registration: at  *)
(* most epoll has a socket to report.                                        *)
Aside  == {"idle", "match", "timeout"} \cup Forwarding \cup Answering
Nudged == UNCHANGED <<ready, again>> \/ \E s \in Sockets : Report(s)

LEMMA PlainSteps ==
    ASSUME Typed, Listed, Given, NEW w \in Workers,
           \/ UsesDangling(w) \/ HandlerDone(w)
           \/ ReceiveQueries(w) \/ ForwardQuery(w) \/ PoolExhausted(w)
           \/ RelayQuery(w) \/ WatchClient(w)
           \/ ReceiveAnswers(w) \/ MatchAnswer(w) \/ PopTimer(w)
           \/ SendReply(w) \/ WatchServer(w) \/ SendThrows(w) \/ SendKills(w)
           \/ CloseThrows(w) \/ InsertRaces(w)
    PROVE  /\ UNCHANGED <<conn, peer, asked, backlog, link, registered, event, jobs,
                          object, servers, clients>>
           /\ Nudged
           /\ \/ UNCHANGED workVars
              \/ Elsewhere(w) /\ pc'[w] \in Aside /\ job'[w] \in {job[w], NoJob}
<1> USE DEF connVars, linkVars, epollVars, loopVars, setVars, Nudged
<1>1. TypedWork BY DEF Typed
<1> DEFINE Moves == Elsewhere(w) /\ pc'[w] \in Aside /\ job'[w] \in {job[w], NoJob}
<1>2. ASSUME Return(w) PROVE Moves
  BY <1>1, <1>2, ReturnWork DEF Aside
<1>3. ASSUME NEW l \in {"forward", "match"}, NEW messages, Handle(w, l, messages),
             messages \in IF job[w].kind = "query" THEN Seq(Queries) ELSE Seq(Packets),
             TakenBy(job[w].kind, l)
      PROVE  Moves
  <2>1. TypedWork /\ l \in {"idle", "forward", "match"} /\ l # "idle" BY <1>1
  <2>2. Elsewhere(w) /\ pc'[w] \in {"idle", l} /\ job'[w] \in {job[w], NoJob}
    BY <1>3, <2>1, HandleWork
  <2>3. QED BY <2>2 DEF Aside, Forwarding
<1>4. ASSUME NEW more \in SUBSET Remotes, pc[w] \in Forwarding, NextClient(w, more) PROVE Moves
  <2>1. Elsewhere(w) /\ pc'[w] \in {"idle", "forward", "relay"} /\ job'[w] \in {job[w], NoJob}
    BY <1>1, <1>4, NextWork
  <2>2. QED BY <2>1 DEF Aside, Forwarding
<1> HIDE DEF Moves
<1>5. CASE UsesDangling(w) \/ PoolExhausted(w) \/ SendKills(w) \/ InsertRaces(w)
  BY <1>5 DEF UsesDangling, PoolExhausted, SendKills, InsertRaces, Fault
<1>6. CASE HandlerDone(w) BY <1>2, <1>6 DEF HandlerDone, Moves
<1>7. CASE CloseThrows(w) BY <1>2, <1>7 DEF CloseThrows, Moves
<1>8. CASE SendThrows(w) BY <1>2, <1>8 DEF SendThrows, Moves
<1>9. CASE ReceiveQueries(w)
  <2>1. /\ pc[w] = "query" /\ job[w].ptr \in Addrs /\ job[w].kind = "query"
        /\ object[job[w].ptr] \in Conns
    BY <1>1, <1>9, JobAt DEF ReceiveQueries, At, Typed, TypedSets
  <2>2. inbox[object[job[w].ptr]] \in Seq(Queries) BY <2>1 DEF Typed, TypedConns
  <2>3. TakenBy(job[w].kind, "forward") BY <2>1 DEF TakenBy, Forwarding
  <2>4. Moves BY <1>3, <1>9, <2>1, <2>2, <2>3 DEF ReceiveQueries
  <2>5. QED BY <1>9, <2>4 DEF ReceiveQueries, Moves
<1>10. CASE ForwardQuery(w)
  <2>1. PutTask(w) /\ NextClient(w, clients) /\ clients \in SUBSET Remotes
    BY <1>10 DEF ForwardQuery, Typed, TypedSets
  <2>2. pc[w] \in Forwarding BY <2>1 DEF PutTask, At, Forwarding
  <2>3. Moves BY <1>4, <2>1, <2>2
  <2>4. QED BY <2>1, <2>3 DEF PutTask, Moves
<1>11. CASE RelayQuery(w)
  <2>1. PICK r \in rest[w] :
          \/ /\ pc' = [pc EXCEPT ![w] = "watch"] /\ to' = [to EXCEPT ![w] = r]
             /\ UNCHANGED <<job, data, task>>
          \/ NextClient(w, rest[w] \ {r})
    BY <1>11 DEF RelayQuery
  <2>2. pc[w] \in Forwarding /\ rest[w] \ {r} \in SUBSET Remotes
    BY <1>1, <1>11 DEF RelayQuery, At, TypedWork, Forwarding
  <2>3. CASE pc' = [pc EXCEPT ![w] = "watch"] /\ to' = [to EXCEPT ![w] = r]
             /\ UNCHANGED <<job, data, task>>
    <3>1. Elsewhere(w) /\ pc'[w] = "watch" /\ job'[w] = job[w]
      BY <1>1, <2>3 DEF TypedWork, Elsewhere
    <3>2. Moves BY <3>1 DEF Moves, Aside, Forwarding
    <3>3. QED BY <1>11, <3>2 DEF RelayQuery, Moves
  <2>4. CASE NextClient(w, rest[w] \ {r})
    <3>1. Moves BY <1>4, <2>2, <2>4
    <3>2. QED BY <1>11, <3>1 DEF RelayQuery, Moves
  <2>5. QED BY <2>1, <2>3, <2>4
<1>12. CASE WatchClient(w)
  <2>1. /\ pc[w] = "watch" /\ pc[w] \in Forwarding /\ NextClient(w, rest[w])
        /\ Modify(to[w], TRUE)
    BY <1>12 DEF WatchClient, At, Forwarding
  <2>2. rest[w] \in SUBSET Remotes /\ to[w] \in Sockets
    BY <1>1, <2>1, JobAt DEF TypedWork, Sockets
  <2>3. Moves BY <1>4, <2>1, <2>2
  <2>4. QED BY <1>12, <2>1, <2>2, <2>3 DEF WatchClient, Modify, Moves
<1>13. CASE ReceiveAnswers(w)
  <2>1. pc[w] = "answer" /\ job[w].ptr \in Remotes /\ job[w].kind = "answer"
    BY <1>1, <1>13, JobAt DEF ReceiveAnswers, At
  <2>2. linkIn[job[w].ptr] \in Seq(Packets) BY <2>1 DEF Typed, TypedLinks
  <2>3. TakenBy(job[w].kind, "match") BY <2>1 DEF TakenBy
  <2>4. Moves BY <1>3, <1>13, <2>1, <2>2, <2>3 DEF ReceiveAnswers
  <2>5. QED BY <1>13, <2>4 DEF ReceiveAnswers, Moves
<1>14. ASSUME NEW q, Settle(w, q) PROVE Moves
  BY <1>1, <1>14 DEF Settle, Moves, TypedWork, Elsewhere, Aside, Answering
<1>15. CASE MatchAnswer(w) BY <1>2, <1>14, <1>15 DEF MatchAnswer, Moves
<1>16. CASE PopTimer(w) BY <1>14, <1>16 DEF PopTimer, Moves
<1>17. CASE SendReply(w)
  <2>1. pc[w] = "send" /\ (Goto(w, "arm") \/ Again(w))
    BY <1>17 DEF SendReply, SendReplyTo, At, ArmOr
  <2>2. Moves BY <1>1, <2>1, ArmWork DEF Moves, Aside, Answering
  <2>3. QED BY <1>17, <2>2 DEF SendReply, SendReplyTo, Moves
<1>18. CASE WatchServer(w)
  <2>1. /\ pc[w] = "arm" /\ pc[w] \in Answering /\ Again(w)
        /\ Modify(object[owner[task[w]]], TRUE)
    BY <1>18 DEF WatchServer, At, Answering
  <2>2. object[owner[task[w]]] \in Sockets
    BY <2>1 DEF Given, Listed, RegisteredIsListed, Typed, TypedSets, Sockets
  <2>3. Moves BY <1>1, <2>1, AgainWork DEF Moves, Aside
  <2>4. QED BY <1>18, <2>1, <2>2, <2>3 DEF WatchServer, Modify, Moves
<1>19. QED
  BY <1>5, <1>6, <1>7, <1>8, <1>9, <1>10, <1>11, <1>12, <1>13, <1>15, <1>16, <1>17, <1>18

(* They leave alone what the sets, the sockets and epoll say of each other.  *)
LEMMA ListedFrame ==
    ASSUME Listed, UNCHANGED <<conn, backlog, registered, object, servers, clients>>,
           \A r \in Remotes : link'[r] = "none" <=> link[r] = "none",
           \A v \in Workers : pc'[v] \in Busy \cup Restarting =>
               pc[v] = pc'[v] /\ job[v].ptr = job'[v].ptr,
           \A v \in Workers : pc[v] \in Restarting => job[v].ptr \in Remotes
    PROVE  Listed'
<1>1. Accepted' BY DEF Listed, Accepted
<1>2. Handled' BY DEF Listed, Handled, Busy
<1>3. Replaced' BY DEF Listed, Replaced, Restarting
<1>4. RegisteredIsListed' BY DEF Listed, RegisteredIsListed
<1>5. QED BY <1>1, <1>2, <1>3, <1>4 DEF Listed

LEMMA ListedElsewhere ==
    ASSUME Typed, Listed, UNCHANGED <<conn, backlog, registered, object, servers, clients>>,
           \A r \in Remotes : link'[r] = "none" <=> link[r] = "none",
           \/ UNCHANGED workVars
           \/ \E w \in Workers : Elsewhere(w) /\ pc'[w] \notin Busy \cup Restarting
    PROVE  Listed'
<1>1. \A v \in Workers : pc[v] \in Restarting => job[v].ptr \in Remotes BY JobAt DEF Typed
<1>2. \A v \in Workers : pc'[v] \in Busy \cup Restarting =>
         pc[v] = pc'[v] /\ job[v].ptr = job'[v].ptr
  BY DEF workVars, Elsewhere
<1>3. QED BY <1>1, <1>2, ListedFrame

(* A connection that arrives is in the backlog once ...                      *)
LEMMA ListedConnect == ASSUME Typed, Listed, NEW c \in Conns, Connect(c) PROVE Listed'
<1>1. /\ conn[c] = "none" /\ conn' = [conn EXCEPT ![c] = "waiting"]
      /\ backlog' = Append(backlog, c)
      /\ UNCHANGED <<registered, object, servers, clients, link, pc, job>>
  BY DEF Connect, linkVars, setVars, workVars
<1>2. /\ backlog \in Seq(Conns) /\ conn \in [Conns -> {"none", "waiting", "served", "closed"}]
      /\ object \in [Addrs -> Conns \cup {None}]
  BY DEF Typed, TypedConns, TypedSets
<1>3. c \notin Range(backlog) BY <1>1 DEF Listed, Accepted
<1>4. IsInjective(backlog') /\ Range(backlog') = Range(backlog) \cup {c}
  BY <1>1, <1>2, <1>3, EnqueueFacts DEF Listed, Accepted
<1>5. Accepted' BY <1>1, <1>2, <1>4 DEF Listed, Accepted
<1>6. Handled' /\ Replaced' /\ RegisteredIsListed'
  BY <1>1 DEF Listed, Handled, Replaced, RegisteredIsListed
<1>7. QED BY <1>5, <1>6 DEF Listed

(* ... and is taken from there to an address that is free ...                *)
LEMMA ListedAccept == ASSUME Typed, Listed, NEW w \in Workers, Accept(w) PROVE Listed'
<1> DEFINE a == job'[w].ptr
           c == Head(backlog)
<1>1. /\ Elsewhere(w) /\ pc[w] = "accept" /\ pc'[w] = "insert"
      /\ a \in Addrs /\ object[a] = None /\ c \in Conns /\ backlog # <<>>
      /\ object' = [object EXCEPT ![a] = c]
  BY AcceptWork
<1>2. /\ conn' = [conn EXCEPT ![c] = "served"] /\ backlog' = Tail(backlog)
      /\ UNCHANGED <<registered, servers, clients, link>>
  BY DEF Accept, AcceptThen, linkVars, epollVars
<1>3. /\ backlog \in Seq(Conns) /\ conn \in [Conns -> {"none", "waiting", "served", "closed"}]
      /\ object \in [Addrs -> Conns \cup {None}]
      /\ \A d \in Conns : registered[d] \in Addrs \cup {None}
      /\ None \notin Conns
  BY TcpRelayAssumption DEF Typed, TypedConns, TypedSets, TypedEpoll
<1> HIDE DEF a
<1>4. /\ Range(backlog) = Range(Tail(backlog)) \cup {c}
      /\ IsInjective(Tail(backlog)) /\ c \notin Range(Tail(backlog))
  BY <1>1, <1>3, DequeueFacts DEF Listed, Accepted
<1>5. \A d \in Range(Tail(backlog)) : d \in Conns
  <2>1. Tail(backlog) \in Seq(Conns) BY <1>1, <1>3, DequeueFacts
  <2>2. QED BY <2>1, ElementOfSeq, LenProperties DEF Range
<1> HIDE DEF c
<1>6. conn[c] = "waiting" BY <1>4 DEF Listed, Accepted
<1>7. \A b \in Addrs : object[b] # c
  BY <1>1, <1>3, <1>6 DEF Listed, Accepted
<1>8. registered[c] = None
  BY <1>1, <1>3, <1>6 DEF Listed, Accepted, RegisteredIsListed, Typed, TypedSets
<1>9. Accepted'
  <2>1. IsInjective(backlog') /\ \A d \in Range(backlog') : conn'[d] = "waiting"
    BY <1>2, <1>3, <1>4, <1>5 DEF Listed, Accepted
  <2>2. ASSUME NEW b \in Addrs, object'[b] # None PROVE conn'[object'[b]] = "served"
    BY <1>1, <1>2, <1>3, <1>7, <2>2 DEF Listed, Accepted
  <2>3. ASSUME NEW b \in Addrs, NEW d \in Addrs, object'[b] = object'[d], object'[b] # None
        PROVE  b = d
    BY <1>1, <1>3, <1>7, <2>3 DEF Listed, Accepted
  <2>4. QED BY <2>1, <2>2, <2>3 DEF Accepted
<1>10. ASSUME NEW v \in Workers, v # w, pc[v] \in Busy
       PROVE  /\ pc'[v] = pc[v] /\ job'[v].ptr = job[v].ptr /\ job[v].ptr \in Addrs
              /\ job[v].ptr # a
  BY <1>1, <1>10, JobAt DEF Elsewhere, Listed, Handled, Busy, Typed
<1>11. Handled'
  <2>1. object'[a] = c /\ c # None /\ registered'[c] = None BY <1>1, <1>2, <1>3, <1>8
  <2>2. ASSUME NEW v \in Workers, pc'[v] \in Busy
        PROVE  object'[job'[v].ptr] # None /\ registered'[object'[job'[v].ptr]] = None
    <3>1. CASE v = w BY <2>1, <3>1 DEF a
    <3>2. CASE v # w
      <4>1. pc[v] \in Busy BY <1>1, <2>2, <3>2 DEF Elsewhere
      <4>2. object'[job'[v].ptr] = object[job[v].ptr] BY <1>1, <1>3, <1>10, <3>2, <4>1
      <4>3. QED BY <1>2, <4>1, <4>2 DEF Listed, Handled
    <3>3. QED BY <3>1, <3>2
  <2>3. ASSUME NEW v \in Workers, pc'[v] = "add" PROVE job'[v].ptr \in servers'
    BY <1>1, <1>2, <2>3 DEF Elsewhere, Listed, Handled
  <2>4. ASSUME NEW u \in Workers, NEW v \in Workers, pc'[u] \in Busy, pc'[v] \in Busy,
               job'[u].ptr = job'[v].ptr
        PROVE  u = v
    <3>1. \A x \in Workers : x # w /\ pc'[x] \in Busy => job'[x].ptr # a
      BY <1>1, <1>10 DEF Elsewhere
    <3>2. CASE u = w \/ v = w BY <2>4, <3>1, <3>2 DEF a
    <3>3. CASE u # w /\ v # w
      <4>1. pc[u] \in Busy /\ pc[v] \in Busy /\ job[u].ptr = job[v].ptr
        BY <1>1, <2>4, <3>3 DEF Elsewhere
      <4>2. QED BY <4>1 DEF Listed, Handled
    <3>4. QED BY <3>2, <3>3
  <2>5. QED BY <2>2, <2>3, <2>4 DEF Handled
<1>12. Replaced' BY <1>1, <1>2 DEF Elsewhere, Listed, Replaced, Restarting
<1>13. RegisteredIsListed'
  <2>1. \A b \in servers : b \in Addrs BY DEF Typed, TypedSets
  <2>2. \A b \in servers' : object'[b] # None
    BY <1>1, <1>2, <1>3, <2>1 DEF Listed, RegisteredIsListed
  <2>3. ASSUME NEW d \in Conns, registered'[d] # None
        PROVE  registered'[d] \in servers' /\ object'[registered'[d]] = d
    <3>1. registered[d] \in servers /\ object[registered[d]] = d
      BY <1>2, <2>3 DEF Listed, RegisteredIsListed
    <3>2. registered[d] # a BY <1>1, <1>3, <3>1
    <3>3. QED BY <1>1, <1>2, <1>3, <2>1, <3>1, <3>2
  <2>4. QED BY <1>2, <2>2, <2>3 DEF Listed, RegisteredIsListed
<1>14. QED BY <1>9, <1>11, <1>12, <1>13 DEF Listed

(* ... where the TcpServer is put into the set ...                           *)
LEMMA ListedInsert == ASSUME Typed, Listed, NEW w \in Workers, InsertServer(w) PROVE Listed'
<1>1. /\ pc[w] = "insert" /\ servers' = servers \cup {job[w].ptr}
      /\ UNCHANGED <<conn, backlog, registered, object, clients, link, job>>
      /\ Elsewhere(w) /\ pc'[w] = "add"
  BY DEF InsertServer, At, Goto, connVars, epollVars, linkVars, Elsewhere, Typed, TypedWork
<1>2. object[job[w].ptr] # None BY <1>1 DEF Listed, Handled, Busy
<1>3. Accepted' BY <1>1 DEF Listed, Accepted
<1>4. Handled' BY <1>1 DEF Listed, Handled, Busy, Elsewhere
<1>5. Replaced' BY <1>1 DEF Listed, Replaced, Elsewhere, Restarting
<1>6. RegisteredIsListed' BY <1>1, <1>2 DEF Listed, RegisteredIsListed
<1>7. QED BY <1>3, <1>4, <1>5, <1>6 DEF Listed

(* ... and only then registered. *)
LEMMA ListedAdd == ASSUME Typed, Listed, NEW w \in Workers, AddServer(w) PROVE Listed'
<1> DEFINE a == job[w].ptr
           c == object[a]
<1>1. /\ pc[w] = "add" /\ registered' = [registered EXCEPT ![c] = a]
      /\ UNCHANGED <<conn, backlog, object, servers, clients, link>>
      /\ Elsewhere(w) /\ pc'[w] = "idle"
  BY ReturnWork DEF AddServer, At, connVars, setVars, linkVars, Typed
<1>2. a \in servers /\ a \in Addrs /\ c # None /\ registered[c] = None
  BY <1>1, JobAt DEF Listed, Handled, Busy, Typed
<1>3. /\ c \in Conns /\ c \notin Remotes
      /\ \A d \in Sockets : registered'[d] = IF d = c THEN a ELSE registered[d]
  BY <1>1, <1>2, TcpRelayAssumption DEF Typed, TypedEpoll, TypedSets, Sockets
<1>4. Accepted' BY <1>1 DEF Listed, Accepted
<1>5. ASSUME NEW v \in Workers, pc'[v] \in Busy
      PROVE  /\ v # w /\ pc[v] = pc'[v] /\ job[v] = job'[v]
             /\ job[v].ptr \in Addrs /\ job[v].ptr # a
  BY <1>1, <1>5, JobAt DEF Busy, Elsewhere, Listed, Handled, Typed
<1>6. Handled'
  <2>1. ASSUME NEW v \in Workers, pc'[v] \in Busy
        PROVE  object'[job'[v].ptr] # None /\ registered'[object'[job'[v].ptr]] = None
    <3>1. /\ object[job[v].ptr] # None /\ registered[object[job[v].ptr]] = None
          /\ object[job[v].ptr] # c /\ object[job[v].ptr] \in Conns
      BY <1>2, <1>5, <2>1 DEF Listed, Handled, Accepted, Typed, TypedSets
    <3>2. QED BY <1>1, <1>3, <1>5, <2>1, <3>1
  <2>2. QED BY <1>1, <1>5, <2>1 DEF Listed, Handled, Busy
<1>7. Replaced'
  <2>1. ASSUME NEW v \in Workers, pc'[v] \in Restarting
        PROVE  /\ pc[v] = pc'[v] /\ job[v] = job'[v]
               /\ registered'[job[v].ptr] = registered[job[v].ptr]
    BY <1>1, <1>3, <2>1, JobAt DEF Elsewhere, Typed, Sockets, Restarting
  <2>2. QED BY <1>1, <2>1 DEF Listed, Replaced, Restarting
<1>8. RegisteredIsListed' BY <1>1, <1>2, <1>3 DEF Listed, RegisteredIsListed, Sockets
<1>9. QED BY <1>4, <1>6, <1>7, <1>8 DEF Listed

(* It is unregistered, by one worker, before it is taken out of the set ...  *)
LEMMA ListedClose == ASSUME Typed, Listed, NEW w \in Workers, CloseServer(w) PROVE Listed'
<1> DEFINE c == object[job[w].ptr]
<1>1. /\ pc[w] = "close" /\ registered' = [registered EXCEPT ![c] = None]
      /\ c # None /\ registered[c] # None
      /\ UNCHANGED <<conn, backlog, object, servers, clients, link, job>>
      /\ Elsewhere(w) /\ pc'[w] = "erase"
  BY DEF CloseServer, At, Goto, connVars, setVars, linkVars, Elsewhere, Typed, TypedWork
<1>2. job[w].ptr \in Addrs /\ c \in Conns /\ c \notin Remotes
  BY <1>1, JobAt, TcpRelayAssumption DEF Typed, TypedSets
<1>3. \A d \in Sockets : registered'[d] = IF d = c THEN None ELSE registered[d]
  BY <1>1 DEF Typed, TypedEpoll
<1>4. Accepted' BY <1>1 DEF Listed, Accepted
<1>5. ASSUME NEW v \in Workers, v # w, pc'[v] \in Busy
      PROVE  /\ pc[v] = pc'[v] /\ job[v].ptr # job[w].ptr
             /\ object[job[v].ptr] # None /\ registered[object[job[v].ptr]] = None
             /\ object[job[v].ptr] \in Conns
  <2>1. pc[v] = pc'[v] BY <1>1, <1>5 DEF Elsewhere
  <2>2. object[job[v].ptr] # None /\ registered[object[job[v].ptr]] = None
    BY <1>5, <2>1 DEF Listed, Handled
  <2>3. job[v].ptr \in Addrs BY <1>5, <2>1, JobAt DEF Busy, Typed
  <2>4. QED BY <1>1, <2>1, <2>2, <2>3 DEF Typed, TypedSets
<1>6. Handled'
  <2>1. ASSUME NEW v \in Workers, pc'[v] \in Busy
        PROVE  object'[job'[v].ptr] # None /\ registered'[object'[job'[v].ptr]] = None
    <3>1. CASE v = w BY <1>1, <1>2, <1>3, <3>1 DEF Sockets
    <3>2. CASE v # w BY <1>1, <1>3, <1>5, <2>1, <3>2
    <3>3. QED BY <3>1, <3>2
  <2>2. ASSUME NEW v \in Workers, pc'[v] = "add" PROVE job'[v].ptr \in servers'
    BY <1>1, <2>2 DEF Elsewhere, Listed, Handled
  <2>3. ASSUME NEW u \in Workers, NEW v \in Workers, pc'[u] \in Busy, pc'[v] \in Busy,
               job'[u].ptr = job'[v].ptr
        PROVE  u = v
    BY <1>1, <1>5, <2>3 DEF Listed, Handled
  <2>4. QED BY <2>1, <2>2, <2>3 DEF Handled
<1>7. Replaced'
  <2>1. \A v \in Workers : pc'[v] \in Restarting => 
            pc[v] = pc'[v] /\ registered'[job[v].ptr] = registered[job[v].ptr]
    BY <1>1, <1>2, <1>3, JobAt DEF Elsewhere, Typed, Sockets, Restarting
  <2>2. QED BY <1>1, <2>1 DEF Listed, Replaced, Restarting
<1>8. RegisteredIsListed' BY <1>1, <1>2, <1>3 DEF Listed, RegisteredIsListed, Sockets
<1>9. QED BY <1>4, <1>6, <1>7, <1>8 DEF Listed

(* ... and deleted. *)
LEMMA ListedErase == ASSUME Typed, Listed, NEW w \in Workers, EraseServer(w) PROVE Listed'
<1> DEFINE a == job[w].ptr
           c == object[a]
<1>1. /\ pc[w] = "erase" /\ servers' = servers \ {a}
      /\ object' = [object EXCEPT ![a] = None] /\ conn' = [conn EXCEPT ![c] = "closed"]
      /\ UNCHANGED <<backlog, registered, clients, link>>
      /\ Elsewhere(w) /\ pc'[w] = "idle"
  BY ReturnWork DEF EraseServer, At, epollVars, linkVars, Typed
<1>2. /\ a \in Addrs /\ c # None /\ registered[c] = None
      /\ c \in Conns /\ conn[c] = "served"
  BY <1>1, JobAt DEF Listed, Handled, Accepted, Busy, Typed, TypedSets
<1>3. /\ \A b \in Addrs : object'[b] = IF b = a THEN None ELSE object[b]
      /\ \A d \in Conns : conn'[d] = IF d = c THEN "closed" ELSE conn[d]
      /\ \A b \in Addrs : b # a /\ object[b] # None => object[b] # c /\ object[b] \in Conns
      /\ \A b \in servers : b \in Addrs
  BY <1>1, <1>2 DEF Typed, TypedSets, TypedConns, Listed, Accepted
<1>4. \A d \in Range(backlog) : d \in Conns
  BY ElementOfSeq, LenProperties DEF Range, Typed, TypedConns
<1>5. Accepted'
  <2>1. \A d \in Range(backlog) : conn'[d] = "waiting"
    BY <1>2, <1>3, <1>4 DEF Listed, Accepted
  <2>2. QED BY <1>1, <1>3, <2>1 DEF Listed, Accepted
<1>6. ASSUME NEW v \in Workers, pc'[v] \in Busy
      PROVE  /\ v # w /\ pc[v] = pc'[v] /\ job[v] = job'[v]
             /\ job[v].ptr \in Addrs /\ job[v].ptr # a
  BY <1>1, <1>6, JobAt DEF Busy, Elsewhere, Listed, Handled, Typed
<1>7. Handled'
  <2>1. ASSUME NEW v \in Workers, pc'[v] \in Busy
        PROVE  object'[job'[v].ptr] # None /\ registered'[object'[job'[v].ptr]] = None
    BY <1>1, <1>3, <1>6, <2>1 DEF Listed, Handled
  <2>2. QED BY <1>1, <1>6, <2>1 DEF Listed, Handled, Busy
<1>8. Replaced' BY <1>1 DEF Listed, Replaced, Elsewhere, Restarting
<1>9. RegisteredIsListed'
  <2>1. ASSUME NEW d \in Conns, registered[d] # None
        PROVE  registered[d] \in servers' /\ object'[registered[d]] = d
    <3>1. registered[d] \in servers /\ object[registered[d]] = d
      BY <2>1 DEF Listed, RegisteredIsListed
    <3>2. registered[d] # a BY <1>2, <2>1, <3>1
    <3>3. QED BY <1>1, <1>3, <3>1, <3>2
  <2>2. QED BY <1>1, <1>3, <2>1 DEF Listed, RegisteredIsListed
<1>10. QED BY <1>5, <1>7, <1>8, <1>9 DEF Listed

(* A TcpClient, too, is unregistered first, and another registered last.     *)
LEMMA ListedRestart ==
    ASSUME Typed, Listed, NEW w \in Workers,
           CloseClient(w) \/ RestartClient(w) \/ InsertClient(w) \/ AddClient(w)
    PROVE  Listed'
<1> DEFINE r == job[w].ptr
<1>1. pc[w] \in {"restart"} \cup Restarting
  BY DEF CloseClient, RestartClient, InsertClient, AddClient, At, Restarting
<1>2. r \in Remotes /\ r \notin Conns BY <1>1, JobAt, TcpRelayAssumption DEF Typed
<1>3. /\ UNCHANGED <<conn, backlog, object, servers>>
      /\ Elsewhere(w) /\ pc'[w] \in {"idle"} \cup Restarting
      /\ pc'[w] # "idle" => job' = job
  BY ReturnWork
  DEF CloseClient, RestartClient, InsertClient, AddClient, connVars, setVars, Goto, Elsewhere,
      Typed, TypedWork, Restarting
<1>4. /\ registered' = [registered EXCEPT ![r] = registered'[r]]
      /\ link' = [link EXCEPT ![r] = link'[r]]
      /\ \A s \in Remotes \ {r} : s \in clients' <=> s \in clients
  BY <1>2 DEF CloseClient, RestartClient, InsertClient, AddClient, setVars, epollVars, linkVars,
       Typed, TypedEpoll, TypedLinks, Sockets
<1>5. /\ \A d \in Conns : registered'[d] = registered[d]
      /\ \A s \in Remotes : s # r => registered'[s] = registered[s] /\ link'[s] = link[s]
  BY <1>2, <1>4 DEF Typed, TypedEpoll, TypedLinks, Sockets
<1>6. Accepted' BY <1>3 DEF Listed, Accepted
<1>7. \A v \in Workers : pc'[v] \in Busy =>
          /\ pc[v] = pc'[v] /\ job[v] = job'[v]
          /\ object[job[v].ptr] # None => object[job[v].ptr] \in Conns
  BY <1>3, JobAt DEF Busy, Elsewhere, Typed, TypedSets, Restarting
<1>8. Handled' BY <1>3, <1>5, <1>7 DEF Listed, Handled, Busy
<1>9. ASSUME NEW v \in Workers, v # w, pc'[v] \in Restarting
      PROVE  /\ pc[v] = pc'[v] /\ job[v] = job'[v] /\ job[v].ptr \in Remotes
             /\ registered[job[v].ptr] = None
  BY <1>3, <1>9, JobAt DEF Elsewhere, Typed, Listed, Replaced
<1>10. ASSUME NEW v \in Workers, v # w, pc'[v] \in Restarting PROVE job[v].ptr # r
  <2>1. CASE CloseClient(w)
    <3>1. registered[r] # None BY <2>1 DEF CloseClient
    <3>2. QED BY <1>9, <1>10, <3>1
  <2>2. CASE RestartClient(w) \/ InsertClient(w) \/ AddClient(w)
    <3>1. pc[w] \in Restarting
      BY <2>2 DEF RestartClient, InsertClient, AddClient, At, Restarting
    <3>2. QED BY <1>9, <1>10, <3>1 DEF Listed, Replaced
  <2>3. QED BY <2>1, <2>2
<1>11. /\ pc'[w] \in Restarting => registered'[r] = None
       /\ pc'[w] \in {"relink", "readd"} => link'[r] # "none"
       /\ pc'[w] = "readd" => r \in clients'
       /\ registered'[r] # None => r \in clients' /\ link'[r] # "none"
  <2>1. CASE CloseClient(w)
    BY <1>2, <2>1 DEF CloseClient, Goto, Typed, TypedEpoll, TypedWork, Sockets
  <2>2. CASE RestartClient(w)
    <3>1. pc[w] = "unlink" /\ UNCHANGED registered BY <2>2 DEF RestartClient, At, epollVars
    <3>2. registered'[r] = None BY <3>1 DEF Listed, Replaced, Restarting
    <3>3. /\ pc'[w] \in {"relink", "readd"} => link'[r] = "blank"
          /\ pc'[w] # "readd"
      BY <1>2, <2>2, ReturnWork DEF RestartClient, Goto, Typed, TypedLinks, TypedWork
    <3>4. QED BY <3>2, <3>3
  <2>3. CASE InsertClient(w)
    <3>1. pc[w] = "relink" /\ UNCHANGED <<link, registered>> /\ r \in clients'
      BY <2>3 DEF InsertClient, At, linkVars, epollVars
    <3>2. QED BY <3>1 DEF Listed, Replaced, Restarting
  <2>4. CASE AddClient(w)
    <3>1. /\ pc[w] = "readd" /\ UNCHANGED <<link, clients>> /\ pc'[w] = "idle"
      BY <2>4, ReturnWork DEF AddClient, At, linkVars, setVars, Typed
    <3>2. QED BY <3>1 DEF Listed, Replaced, Restarting
  <2>5. QED BY <2>1, <2>2, <2>3, <2>4
<1>12. Replaced'
  <2>1. ASSUME NEW v \in Workers
        PROVE  /\ pc'[v] \in Restarting => registered'[job'[v].ptr] = None
               /\ pc'[v] \in {"relink", "readd"} => link'[job'[v].ptr] # "none"
               /\ pc'[v] = "readd" => job'[v].ptr \in clients'
    <3>1. CASE v = w BY <1>3, <1>11, <3>1 DEF Restarting
    <3>2. CASE v # w
      <4>1. CASE pc'[v] \in Restarting
        BY <1>4, <1>5, <1>9, <1>10, <3>2, <4>1 DEF Listed, Replaced
      <4>2. CASE pc'[v] \notin Restarting BY <4>2 DEF Restarting
      <4>3. QED BY <4>1, <4>2
    <3>3. QED BY <3>1, <3>2
  <2>2. ASSUME NEW u \in Workers, NEW v \in Workers, pc'[u] \in Restarting,
               pc'[v] \in Restarting, job'[u].ptr = job'[v].ptr
        PROVE  u = v
    <3>1. CASE u # w /\ v # w BY <1>9, <2>2, <3>1 DEF Listed, Replaced
    <3>2. \A x \in Workers : x = w /\ pc'[x] \in Restarting => job'[x].ptr = r
      BY <1>3 DEF Restarting
    <3>3. CASE u = w /\ v # w BY <1>9, <1>10, <2>2, <3>2, <3>3
    <3>4. CASE u # w /\ v = w BY <1>9, <1>10, <2>2, <3>2, <3>4
    <3>5. QED BY <3>1, <3>3, <3>4
  <2>3. QED BY <2>1, <2>2 DEF Replaced
<1>13. RegisteredIsListed'
  BY <1>3, <1>4, <1>5, <1>11 DEF Listed, RegisteredIsListed
<1>14. QED BY <1>6, <1>8, <1>12, <1>13 DEF Listed

(* So the sets, the sockets and epoll stay of one mind.                      *)
LEMMA ListedStep == Typed /\ Listed /\ Given /\ [Next]_vars => Listed'
<1>1. SUFFICES ASSUME Typed, Listed, Given, [Next]_vars PROVE Listed' OBVIOUS
<1> USE <1>1
<1>2. ASSUME NEW w \in Workers, WorkerStep(w) PROVE Listed'
  <2>1. CASE StartJob(w)
    <3>1. /\ Elsewhere(w) /\ Head(jobs) \in JobSet /\ pc'[w] = Head(jobs).kind
          /\ UNCHANGED <<conn, backlog, registered, object, servers, clients, link>>
      BY <2>1, StartWork DEF StartJob, connVars, epollVars, setVars, linkVars
    <3>2. pc'[w] \notin Busy \cup Restarting BY <3>1 DEF JobSet, Busy, Restarting
    <3>3. QED BY <3>1, <3>2, ListedElsewhere
  <2>2. CASE \/ UsesDangling(w) \/ HandlerDone(w)
             \/ ReceiveQueries(w) \/ ForwardQuery(w) \/ PoolExhausted(w)
             \/ RelayQuery(w) \/ WatchClient(w)
             \/ ReceiveAnswers(w) \/ MatchAnswer(w) \/ PopTimer(w)
             \/ SendReply(w) \/ WatchServer(w) \/ SendThrows(w) \/ SendKills(w)
             \/ CloseThrows(w) \/ InsertRaces(w)
    <3>1. /\ UNCHANGED <<conn, backlog, registered, object, servers, clients, link>>
          /\ UNCHANGED workVars \/ (Elsewhere(w) /\ pc'[w] \in Aside)
      BY <2>2, PlainSteps
    <3>2. Aside \cap (Busy \cup Restarting) = {}
      BY DEF Aside, Busy, Restarting, Forwarding, Answering
    <3>3. QED BY <3>1, <3>2, ListedElsewhere
  <2>3. CASE Accept(w) BY <2>3, ListedAccept
  <2>4. CASE InsertServer(w) BY <2>4, ListedInsert
  <2>5. CASE AddServer(w) BY <2>5, ListedAdd
  <2>6. CASE CloseServer(w) BY <2>6, ListedClose
  <2>7. CASE EraseServer(w) BY <2>7, ListedErase
  <2>8. CASE CloseClient(w) \/ RestartClient(w) \/ InsertClient(w) \/ AddClient(w)
    BY <2>8, ListedRestart
  <2>9. QED BY <1>2, <2>1, <2>2, <2>3, <2>4, <2>5, <2>6, <2>7, <2>8 DEF WorkerStep
<1>3. ASSUME UNCHANGED workVars,
             UNCHANGED <<conn, backlog, registered, object, servers, clients>>,
             \A r \in Remotes : link'[r] = "none" <=> link[r] = "none"
      PROVE  Listed'
  BY <1>3, ListedElsewhere
<1>4. CASE MainStep
  BY <1>3, <1>4 DEF MainStep, EpollWait, FindSocket, FindRaces, Flush, ModifySocket, RunFails,
       Modify, Fault, connVars, linkVars, epollVars, setVars
<1>5. CASE Environment
  <2>1. ASSUME NEW c \in Conns, Connect(c) PROVE Listed' BY <2>1, ListedConnect
  <2>2. ASSUME NEW r \in Remotes, NameserverHangsUp(r) PROVE Listed'
    <3>1. \A s \in Remotes : link'[s] = "none" <=> link[s] = "none"
      BY <2>2 DEF NameserverHangsUp, Typed, TypedLinks
    <3>2. QED BY <1>3, <2>2, <3>1 DEF NameserverHangsUp, Edge, connVars, setVars
  <2>3. CASE \/ \E c \in Conns : ClientHangsUp(c)
             \/ \E q \in Queries : ClientSends(q)
             \/ \E m \in wire : NameserverAnswers(m)
             \/ \E s \in Sockets : Fill(s) \/ Drain(s)
             \/ DeadlinePasses
             \/ Alarm
    BY <1>3, <2>3 DEF ClientHangsUp, ClientSends, NameserverAnswers, Fill, Drain, Edge,
         DeadlinePasses, Alarm, connVars, linkVars, epollVars, setVars
  <2>4. QED BY <1>5, <2>1, <2>2, <2>3 DEF Environment
<1>6. CASE UNCHANGED vars
  BY <1>3, <1>6 DEF vars, connVars, linkVars, epollVars, setVars
<1>7. QED BY <1>1, <1>2, <1>4, <1>5, <1>6 DEF Next

-----------------------------------------------------------------------------
(* What a worker has left to make tasks ...                                  *)
LEMMA LeftTypes == ASSUME Typed, NEW w \in Workers PROVE Left(w) \in Seq(Queries)
<1>1. CASE pc[w] \in Forwarding
  <2>1. data[w] \in Seq(Queries) /\ data[w] # <<>> BY <1>1, JobAt DEF Typed
  <2>2. Tail(data[w]) \in Seq(Queries) BY <2>1, PopFacts
  <2>3. QED BY <2>1, <2>2, NoElements DEF Left
<1>2. CASE pc[w] \notin Forwarding BY <1>2, NoElements DEF Left, Forwarding
<1>3. QED BY <1>1, <1>2

LEMMA LeftNext ==
    ASSUME Typed, NEW w \in Workers, pc[w] \in Forwarding, NEW more \in SUBSET Remotes,
           NextClient(w, more)
    PROVE  /\ Elsewhere(w) /\ Left(w)' = Tail(data[w])
           /\ Left(w)' = <<>> \/ job'[w] = job[w]
<1>1. TypedWork BY DEF Typed
<1>2. /\ Elsewhere(w) /\ pc'[w] \in {"idle", "forward", "relay"}
      /\ pc'[w] = "idle" => Tail(data[w]) = <<>> /\ job'[w] = NoJob
      /\ pc'[w] = "forward" => data'[w] = Tail(data[w]) /\ job'[w] = job[w]
      /\ pc'[w] = "relay" => data'[w] = data[w] /\ job'[w] = job[w]
  BY <1>1, NextWork
<1>3. QED BY <1>2 DEF Left

LEMMA LeftElsewhere ==
    ASSUME NEW w \in Workers, Elsewhere(w), NEW v \in Workers, v # w
    PROVE  Left(v)' = Left(v) /\ job'[v] = job[v]
BY DEF Left, Elsewhere

(* ... changes only when TcpServerRecvHandler receives or makes them tasks.  *)
Still ==
    /\ UNCHANGED <<asked, inbox, index, owner>>
    /\ \A v \in Workers : Left(v)' = <<>> \/ (Left(v)' = Left(v) /\ job'[v] = job[v])

LEMMA StillWork ==
    ASSUME Typed, Listed, Given, NEW w \in Workers, WorkerStep(w)
    PROVE  ReceiveQueries(w) \/ ForwardQuery(w) \/ Still
<1> USE DEF connVars, taskVars, workVars
<1>1. TypedWork BY DEF Typed
<1>2. ASSUME Elsewhere(w), pc'[w] \notin Forwarding, UNCHANGED <<asked, inbox, index, owner>>
      PROVE  Still
  <2>1. Left(w)' = <<>> BY <1>2 DEF Left, Forwarding
  <2>2. QED BY <1>2, <2>1, LeftElsewhere DEF Still
<1>3. ASSUME Return(w), UNCHANGED <<asked, inbox, index, owner>> PROVE Still
  BY <1>1, <1>2, <1>3, ReturnWork DEF Forwarding
<1>4. ASSUME NEW l \in Labels \ Forwarding, Goto(w, l), UNCHANGED <<asked, inbox, index, owner>>
      PROVE  Still
  BY <1>1, <1>2, <1>4 DEF Goto, Elsewhere, TypedWork
<1>5. CASE StartJob(w)
  <2>1. Elsewhere(w) /\ pc'[w] \notin Forwarding BY <1>5, StartWork DEF JobSet, Forwarding
  <2>2. QED BY <1>2, <1>5, <2>1 DEF StartJob
<1>6. CASE UsesDangling(w) \/ PoolExhausted(w) \/ SendKills(w) \/ InsertRaces(w)
  <2>1. UNCHANGED <<asked, inbox, index, owner, pc, data, job>>
    BY <1>6 DEF UsesDangling, PoolExhausted, SendKills, InsertRaces, Fault
  <2>2. QED BY <2>1 DEF Still, Left
<1>7. CASE HandlerDone(w) \/ SendThrows(w) \/ CloseThrows(w)
  BY <1>3, <1>7 DEF HandlerDone, SendThrows, CloseThrows
<1>8. CASE Accept(w)
  <2>1. Elsewhere(w) /\ pc'[w] = "insert" BY <1>8, AcceptWork
  <2>2. QED BY <1>2, <1>8, <2>1 DEF Accept, AcceptThen, Forwarding
<1>9. {"add", "erase", "unlink", "relink", "readd"} \subseteq Labels \ Forwarding
  BY DEF Labels, Restarting, Forwarding
<1>10. CASE InsertServer(w) \/ CloseServer(w) \/ CloseClient(w) \/ InsertClient(w)
  BY <1>4, <1>9, <1>10 DEF InsertServer, CloseServer, CloseClient, InsertClient
<1>11. CASE AddServer(w) \/ EraseServer(w) \/ AddClient(w)
  BY <1>3, <1>11 DEF AddServer, EraseServer, AddClient
<1>12. CASE RestartClient(w)
  <2>1. UNCHANGED <<asked, inbox, index, owner>> BY <1>12 DEF RestartClient
  <2>2. QED BY <1>3, <1>4, <1>9, <1>12, <2>1 DEF RestartClient
<1>13. CASE RelayQuery(w)
  <2>1. PICK r \in rest[w] :
          \/ /\ pc' = [pc EXCEPT ![w] = "watch"] /\ to' = [to EXCEPT ![w] = r]
             /\ UNCHANGED <<job, data, task>>
          \/ NextClient(w, rest[w] \ {r})
    BY <1>13 DEF RelayQuery
  <2>2. /\ pc[w] = "relay" /\ UNCHANGED <<asked, inbox, index, owner>>
    BY <1>13 DEF RelayQuery, At
  <2>3. pc[w] \in Forwarding /\ rest[w] \ {r} \in SUBSET Remotes /\ Left(w) = Tail(data[w])
    BY <1>1, <2>2 DEF TypedWork, Forwarding, Left
  <2>4. CASE /\ pc' = [pc EXCEPT ![w] = "watch"] /\ to' = [to EXCEPT ![w] = r]
             /\ UNCHANGED <<job, data, task>>
    <3>1. Elsewhere(w) /\ pc'[w] = "watch" BY <1>1, <2>4 DEF TypedWork, Elsewhere
    <3>2. Left(w)' = Left(w) /\ job'[w] = job[w] BY <2>2, <2>4, <3>1 DEF Left
    <3>3. QED BY <2>2, <3>1, <3>2, LeftElsewhere DEF Still
  <2>5. CASE NextClient(w, rest[w] \ {r})
    <3>1. /\ Elsewhere(w) /\ Left(w)' = Left(w)
          /\ Left(w)' = <<>> \/ job'[w] = job[w]
      BY <2>3, <2>5, LeftNext
    <3>2. QED BY <2>2, <3>1, LeftElsewhere DEF Still
  <2>6. QED BY <2>1, <2>4, <2>5
<1>14. CASE WatchClient(w)
  <2>1. /\ pc[w] = "watch" /\ NextClient(w, rest[w]) /\ UNCHANGED <<asked, inbox, index, owner>>
    BY <1>14 DEF WatchClient, At
  <2>2. pc[w] \in Forwarding /\ rest[w] \in SUBSET Remotes /\ Left(w) = Tail(data[w])
    BY <1>1, <2>1 DEF TypedWork, Forwarding, Left
  <2>3. /\ Elsewhere(w) /\ Left(w)' = Left(w)
        /\ Left(w)' = <<>> \/ job'[w] = job[w]
    BY <2>1, <2>2, LeftNext
  <2>4. QED BY <2>1, <2>3, LeftElsewhere DEF Still
<1>15. CASE ReceiveAnswers(w)
  <2>1. pc[w] = "answer" /\ job[w].ptr \in Remotes /\ job[w].kind = "answer"
    BY <1>1, <1>15, JobAt DEF ReceiveAnswers, At
  <2>2. linkIn[job[w].ptr] \in Seq(Packets) BY <2>1 DEF Typed, TypedLinks
  <2>3. Elsewhere(w) /\ pc'[w] \notin Forwarding
    BY <1>1, <1>15, <2>1, <2>2, HandleWork DEF ReceiveAnswers, TakenBy, Forwarding
  <2>4. QED BY <1>2, <1>15, <2>3 DEF ReceiveAnswers
<1>16. ASSUME NEW q, Settle(w, q), UNCHANGED <<asked, inbox, index, owner>> PROVE Still
  <2>1. Elsewhere(w) /\ pc'[w] = "send"
    BY <1>1, <1>16 DEF Settle, TypedWork, Elsewhere
  <2>2. QED BY <1>2, <1>16, <2>1 DEF Forwarding
<1>17. CASE MatchAnswer(w) BY <1>3, <1>16, <1>17 DEF MatchAnswer
<1>18. CASE PopTimer(w)
  <2>1. UNCHANGED <<asked, inbox, index, owner>> BY <1>18 DEF PopTimer
  <2>2. UNCHANGED workVars => Still BY <2>1 DEF Still, Left
  <2>3. QED BY <1>16, <1>18, <2>1, <2>2 DEF PopTimer
<1>19. CASE SendReply(w)
  <2>1. pc[w] = "send" /\ (Goto(w, "arm") \/ Again(w))
    BY <1>19 DEF SendReply, SendReplyTo, At, ArmOr
  <2>2. Elsewhere(w) /\ pc'[w] \notin Forwarding BY <1>1, <2>1, ArmWork DEF Forwarding
  <2>3. QED BY <1>2, <1>19, <2>2 DEF SendReply, SendReplyTo
<1>20. CASE WatchServer(w)
  <2>1. pc[w] \in Answering /\ Again(w) BY <1>20 DEF WatchServer, At, Answering
  <2>2. Elsewhere(w) /\ pc'[w] \notin Forwarding BY <1>1, <2>1, AgainWork DEF Forwarding
  <2>3. QED BY <1>2, <1>20, <2>2 DEF WatchServer
<1>21. QED
  BY <1>5, <1>6, <1>7, <1>8, <1>10, <1>11, <1>12, <1>13, <1>14, <1>15, <1>17, <1>18, <1>19, <1>20
  DEF WorkerStep

LEMMA FreshFrame == Fresh /\ Still => Fresh'
<1>1. SUFFICES ASSUME Fresh, Still PROVE Fresh' OBVIOUS
<1>2. \A v \in Workers : Left(v)' = <<>> \/ Left(v)' = Left(v) BY <1>1 DEF Still
<1>3. UNCHANGED <<asked, inbox, index>> BY <1>1 DEF Still
<1>4. ASSUME NEW v \in Workers
      PROVE  /\ IsInjective(Left(v)') /\ Range(Left(v)') \subseteq Range(Left(v))
             /\ \A q \in Range(Left(v)') :
                   q \in asked /\ index[q] = None /\ q \notin Range(inbox[ConnOf[q]])
  BY <1>1, <1>2, NoElements DEF Fresh
<1>5. \A u, v \in Workers : u # v => Range(Left(u)') \cap Range(Left(v)') = {}
  BY <1>1, <1>4 DEF Fresh
<1>6. QED BY <1>1, <1>3, <1>4, <1>5 DEF Fresh

(* A query that is sent is new ... *)
LEMMA FreshSends == ASSUME Typed, Fresh, NEW q \in Queries, ClientSends(q) PROVE Fresh'
<1> DEFINE c == ConnOf[q]
<1>1. /\ q \notin asked /\ asked' = asked \cup {q}
      /\ inbox' = [inbox EXCEPT ![c] = Append(inbox[c], q)]
      /\ UNCHANGED <<index, pc, data>>
  BY DEF ClientSends, taskVars, workVars
<1>2. c \in Conns /\ inbox[c] \in Seq(Queries) /\ inbox \in [Conns -> Seq(Queries)]
  BY TcpRelayAssumption DEF Typed, TypedConns
<1>3. \A d \in Conns : q \notin Range(inbox[d]) BY <1>1 DEF Fresh
<1>4. Range(inbox'[c]) = Range(inbox[c]) \cup {q} /\ IsInjective(inbox'[c])
  BY <1>1, <1>2, <1>3, EnqueueFacts DEF Fresh
<1>5. \A d \in Conns : d # c => inbox'[d] = inbox[d] BY <1>1, <1>2
<1>6. index[q] = None BY <1>1 DEF Fresh
<1>7. \A w \in Workers : Left(w)' = Left(w) BY <1>1 DEF Left
<1>8. ASSUME NEW w \in Workers, NEW p \in Range(Left(w))
      PROVE  p \in asked' /\ index[p] = None /\ p \notin Range(inbox'[ConnOf[p]])
  <2>1. p \in asked /\ index[p] = None /\ p \notin Range(inbox[ConnOf[p]]) /\ p # q
    BY <1>1, <1>8 DEF Fresh
  <2>2. ConnOf[p] \in Conns
    BY <2>1, TcpRelayAssumption DEF Typed, TypedConns
  <2>3. QED BY <1>1, <1>4, <1>5, <2>1, <2>2
<1>9. ASSUME NEW d \in Conns, NEW p \in Range(inbox'[d])
      PROVE  p \in asked' /\ index'[p] = None /\ ConnOf[p] = d
  BY <1>1, <1>4, <1>5, <1>6, <1>9 DEF Fresh
<1>10. \A d \in Conns : IsInjective(inbox'[d]) BY <1>4, <1>5 DEF Fresh
<1>11. QED BY <1>1, <1>7, <1>8, <1>9, <1>10 DEF Fresh

(* ... is received once ... *)
LEMMA FreshReceive ==
    ASSUME Typed, Fresh, NEW w \in Workers, ReceiveQueries(w)
    PROVE  /\ Fresh'
           /\ Elsewhere(w) /\ job[w].ptr \in Addrs /\ object[job[w].ptr] \in Conns
           /\ Left(w)' = inbox[object[job[w].ptr]]
           /\ Left(w)' = <<>> \/ job'[w] = job[w]
<1> DEFINE c == object[job[w].ptr]
<1>1. /\ pc[w] = "query" /\ job[w].ptr \in Addrs /\ job[w].kind = "query"
      /\ c \in Conns
  BY JobAt DEF ReceiveQueries, At, Typed, TypedSets
<1>2. inbox[c] \in Seq(Queries) /\ inbox \in [Conns -> Seq(Queries)]
  BY <1>1 DEF Typed, TypedConns
<1>3. /\ Elsewhere(w) /\ Left(w)' = inbox[c]
      /\ Left(w)' = <<>> \/ job'[w] = job[w]
  <2>1. TakenBy(job[w].kind, "forward") BY <1>1 DEF TakenBy, Forwarding
  <2>2. /\ Elsewhere(w) /\ data'[w] = inbox[c]
        /\ \/ inbox[c] = <<>> /\ pc'[w] = "idle"
           \/ pc'[w] = "forward" /\ job'[w] = job[w]
    BY <1>1, <1>2, <2>1, HandleWork DEF ReceiveQueries, Typed
  <2>3. QED BY <2>2 DEF Left
<1>4. inbox' = [inbox EXCEPT ![c] = <<>>] /\ UNCHANGED <<asked, index>>
  BY DEF ReceiveQueries, taskVars
<1>5. \A d \in Conns : inbox'[d] = IF d = c THEN <<>> ELSE inbox[d] BY <1>2, <1>4
<1>6. ASSUME NEW d \in Conns
      PROVE  /\ IsInjective(inbox'[d]) /\ Range(inbox'[d]) \subseteq Range(inbox[d])
             /\ \A p \in Range(inbox'[d]) : p \in asked' /\ index'[p] = None /\ ConnOf[p] = d
  <2>1. CASE d = c BY <1>5, <2>1, NoElements
  <2>2. CASE d # c BY <1>4, <1>5, <2>2 DEF Fresh
  <2>3. QED BY <2>1, <2>2
<1>7. Range(inbox'[c]) = {} BY <1>1, <1>5, NoElements
<1>8. ASSUME NEW v \in Workers
      PROVE  /\ IsInjective(Left(v)')
             /\ \A p \in Range(Left(v)') :
                   p \in asked' /\ index'[p] = None /\ p \notin Range(inbox'[ConnOf[p]])
  <2>1. CASE v = w BY <1>1, <1>3, <1>4, <1>7, <2>1 DEF Fresh
  <2>2. CASE v # w
    <3>1. Left(v)' = Left(v) BY <1>3, <2>2, LeftElsewhere
    <3>2. \A p \in Range(Left(v)) : ConnOf[p] \in Conns
      BY TcpRelayAssumption DEF Fresh, Typed, TypedConns
    <3>3. QED BY <1>4, <1>6, <3>1, <3>2 DEF Fresh
  <2>3. QED BY <2>1, <2>2
<1>9. ASSUME NEW v \in Workers, v # w PROVE Range(Left(v)') \cap Range(Left(w)') = {}
  <2>1. Left(v)' = Left(v) BY <1>3, <1>9, LeftElsewhere
  <2>2. \A p \in Range(Left(v)) : p \notin Range(inbox[ConnOf[p]]) BY DEF Fresh
  <2>3. \A p \in Range(inbox[c]) : ConnOf[p] = c BY <1>1 DEF Fresh
  <2>4. QED BY <1>3, <2>1, <2>2, <2>3
<1>10. ASSUME NEW u \in Workers, NEW v \in Workers, u # v
       PROVE  Range(Left(u)') \cap Range(Left(v)') = {}
  <2>1. CASE u # w /\ v # w
    <3>1. Left(u)' = Left(u) /\ Left(v)' = Left(v) BY <1>3, <2>1, LeftElsewhere
    <3>2. QED BY <1>10, <3>1 DEF Fresh
  <2>2. CASE u = w \/ v = w BY <1>9, <1>10, <2>2
  <2>3. QED BY <2>1, <2>2
<1>11. Fresh' BY <1>4, <1>6, <1>8, <1>10 DEF Fresh
<1>12. QED BY <1>1, <1>3, <1>11

(* ... and is made a task once, which its handler leaves behind.             *)
LEMMA PutTaskFacts ==
    ASSUME Typed, Fresh, NEW w \in Workers, ForwardQuery(w)
    PROVE  /\ PutTask(w) /\ job[w].ptr \in Addrs
           /\ Left(w) = data[w] /\ data[w] \in Seq(Queries) /\ data[w] # <<>>
           /\ Head(data[w]) \in Queries /\ index[Head(data[w])] = None
           /\ UNCHANGED <<asked, inbox>>
           /\ Elsewhere(w) /\ Left(w)' = Tail(data[w])
           /\ Left(w)' = <<>> \/ job'[w] = job[w]
<1>1. PutTask(w) /\ NextClient(w, clients) /\ UNCHANGED <<asked, inbox>>
  BY DEF ForwardQuery, PutTask, connVars
<1>2. pc[w] = "forward" /\ pc[w] \in Forwarding /\ Left(w) = data[w]
  BY <1>1 DEF PutTask, At, Forwarding, Left
<1>3. data[w] \in Seq(Queries) /\ data[w] # <<>> /\ job[w].ptr \in Addrs
  BY <1>2, JobAt DEF Typed
<1>4. Head(data[w]) \in Queries /\ Head(data[w]) \in Range(data[w]) BY <1>3, DequeueFacts
<1>5. index[Head(data[w])] = None BY <1>2, <1>4 DEF Fresh
<1>6. clients \in SUBSET Remotes BY DEF Typed, TypedSets
<1>7. /\ Elsewhere(w) /\ Left(w)' = Tail(data[w])
      /\ Left(w)' = <<>> \/ job'[w] = job[w]
  BY <1>1, <1>2, <1>6, LeftNext
<1>8. QED BY <1>1, <1>2, <1>3, <1>4, <1>5, <1>7

LEMMA FreshForward == ASSUME Typed, Fresh, NEW w \in Workers, ForwardQuery(w) PROVE Fresh'
<1> DEFINE q == Head(data[w])
<1>1. /\ Left(w) = data[w] /\ data[w] \in Seq(Queries) /\ data[w] # <<>>
      /\ q \in Queries /\ index[q] = None
      /\ UNCHANGED <<asked, inbox>>
      /\ Elsewhere(w) /\ Left(w)' = Tail(data[w])
      /\ index' = [index EXCEPT ![q] = Head(indexQueue)]
  BY PutTaskFacts DEF PutTask
<1>2. /\ q \in Range(Left(w)) /\ Range(Left(w)) = Range(Tail(data[w])) \cup {q}
      /\ IsInjective(Tail(data[w])) /\ q \notin Range(Tail(data[w]))
  BY <1>1, DequeueFacts DEF Fresh
<1>3. q \in asked /\ q \notin Range(inbox[ConnOf[q]]) BY <1>1, <1>2 DEF Fresh
<1> HIDE DEF q
<1>4. \A p \in Queries : p # q => index'[p] = index[p] BY <1>1 DEF Typed, TypedTasks
<1>5. \A p \in asked : p \in Queries BY DEF Typed, TypedConns
<1>6. ASSUME NEW v \in Workers
      PROVE  /\ IsInjective(Left(v)')
             /\ Range(Left(v)') \subseteq Range(Left(v)) /\ q \notin Range(Left(v)')
  <2>1. CASE v = w BY <1>1, <1>2, <2>1
  <2>2. CASE v # w
    <3>1. Left(v)' = Left(v) BY <1>1, <2>2, LeftElsewhere
    <3>2. QED BY <1>2, <2>2, <3>1 DEF Fresh
  <2>3. QED BY <2>1, <2>2
<1>7. ASSUME NEW v \in Workers, NEW p \in Range(Left(v)')
      PROVE  p \in asked' /\ index'[p] = None /\ p \notin Range(inbox'[ConnOf[p]])
  BY <1>1, <1>4, <1>5, <1>6, <1>7 DEF Fresh
<1>8. ASSUME NEW c \in Conns, NEW p \in Range(inbox'[c])
      PROVE  p \in asked' /\ index'[p] = None /\ ConnOf[p] = c
  BY <1>1, <1>3, <1>4, <1>5, <1>8 DEF Fresh
<1>9. \A p \in Queries : index'[p] # None => p \in asked' BY <1>1, <1>3, <1>4 DEF Fresh
<1>10. \A u, v \in Workers : u # v => Range(Left(u)') \cap Range(Left(v)') = {}
  BY <1>6 DEF Fresh
<1>11. QED BY <1>1, <1>6, <1>7, <1>8, <1>9, <1>10 DEF Fresh

(* Run, and the environment, other than a client that sends, do nothing to it. *)
LEMMA StillElse ==
    ASSUME MainStep \/ Environment \/ UNCHANGED vars
    PROVE  Still \/ \E q \in Queries : ClientSends(q)
<1> USE DEF connVars, taskVars, workVars
<1>1. UNCHANGED <<asked, inbox, index, owner, pc, job, data>> => Still BY DEF Still, Left
<1>2. CASE MainStep
  BY <1>1, <1>2 DEF MainStep, EpollWait, FindSocket, FindRaces, Flush, ModifySocket, RunFails,
       Fault
<1>3. CASE Environment
  BY <1>1, <1>3 DEF Environment, Connect, ClientHangsUp, NameserverAnswers, NameserverHangsUp,
       Fill, Drain, DeadlinePasses, Alarm
<1>4. CASE UNCHANGED vars BY <1>1, <1>4 DEF vars
<1>5. QED BY <1>2, <1>3, <1>4

LEMMA FreshStep == Typed /\ Listed /\ Given /\ Fresh /\ [Next]_vars => Fresh'
<1>1. SUFFICES ASSUME Typed, Listed, Given, Fresh, [Next]_vars PROVE Fresh' OBVIOUS
<1>2. ASSUME NEW w \in Workers, WorkerStep(w) PROVE Fresh'
  BY <1>1, <1>2, StillWork, FreshFrame, FreshReceive, FreshForward
<1>3. CASE MainStep \/ Environment \/ UNCHANGED vars
  BY <1>1, <1>3, StillElse, FreshFrame, FreshSends
<1>4. QED BY <1>1, <1>2, <1>3 DEF Next

-----------------------------------------------------------------------------
(* A slot has the task whose index it is. *)
LEMMA IndexedFrame == Indexed /\ UNCHANGED <<pool, index>> => Indexed'
BY DEF Indexed

LEMMA IndexedPut ==
    ASSUME Typed, Fresh, Indexed, NEW w \in Workers, ForwardQuery(w)
    PROVE  Indexed'
<1> DEFINE q == Head(data[w])
           i == Head(indexQueue)
<1>1. PutTask(w) /\ q \in Queries /\ index[q] = None BY PutTaskFacts
<1>2. i \in Indices BY <1>1, PutTaskTypes
<1>3. pool' = [pool EXCEPT ![i] = q] /\ index' = [index EXCEPT ![q] = i]
  BY <1>1 DEF PutTask
<1>4. None \notin Indices /\ None \notin Queries BY TcpRelayAssumption DEF Indices
<1> HIDE DEF q, i
<1>5. \A k \in Indices : pool'[k] = IF k = i THEN q ELSE pool[k]
  BY <1>3 DEF Typed, TypedTasks
<1>6. \A p \in Queries : index'[p] = IF p = q THEN i ELSE index[p]
  BY <1>3 DEF Typed, TypedTasks
<1>7. ASSUME NEW k \in Indices, pool'[k] # None PROVE index'[pool'[k]] = k
  <2>1. CASE k = i BY <1>1, <1>5, <1>6, <2>1
  <2>2. CASE k # i
    <3>1. pool[k] \in Queries /\ index[pool[k]] = k /\ pool[k] # q
      BY <1>1, <1>4, <1>5, <1>7, <2>2 DEF Indexed, Typed, TypedTasks
    <3>2. QED BY <1>5, <1>6, <2>2, <3>1
  <2>3. QED BY <2>1, <2>2
<1>8. QED BY <1>7 DEF Indexed

LEMMA IndexedSettle ==
    ASSUME Typed, Indexed, NEW w \in Workers, MatchAnswer(w) \/ PopTimer(w)
    PROVE  Indexed'
<1>1. ASSUME NEW q, Settle(w, q), UNCHANGED index PROVE Indexed'
  <2>1. \A k \in Indices : pool'[k] \in {None, pool[k]}
    BY <1>1 DEF Settle, Typed, TypedTasks
  <2>2. QED BY <1>1, <2>1 DEF Indexed
<1>2. QED BY <1>1, IndexedFrame DEF MatchAnswer, PopTimer

LEMMA IndexedStep == Typed /\ Fresh /\ Indexed /\ [Next]_vars => Indexed'
<1>1. SUFFICES ASSUME Typed, Fresh, Indexed, [Next]_vars PROVE Indexed' OBVIOUS
<1> USE DEF taskVars
<1>2. ASSUME NEW w \in Workers, WorkerStep(w) PROVE Indexed'
  <2>1. CASE ForwardQuery(w) BY <1>1, <2>1, IndexedPut
  <2>2. CASE MatchAnswer(w) \/ PopTimer(w) BY <1>1, <2>2, IndexedSettle
  <2>3. CASE \/ StartJob(w) \/ UsesDangling(w) \/ HandlerDone(w)
             \/ Accept(w) \/ InsertServer(w) \/ AddServer(w)
             \/ ReceiveQueries(w) \/ PoolExhausted(w) \/ RelayQuery(w) \/ WatchClient(w)
             \/ ReceiveAnswers(w)
             \/ SendReply(w) \/ WatchServer(w) \/ SendThrows(w) \/ SendKills(w)
             \/ CloseServer(w) \/ EraseServer(w) \/ CloseThrows(w)
             \/ CloseClient(w) \/ RestartClient(w) \/ InsertClient(w) \/ InsertRaces(w)
             \/ AddClient(w)
    <3>1. UNCHANGED taskVars
      BY <2>3 DEF StartJob, UsesDangling, HandlerDone, Accept, AcceptThen, InsertServer,
           AddServer, ReceiveQueries, PoolExhausted, RelayQuery, WatchClient, ReceiveAnswers,
           SendReply, SendReplyTo, WatchServer, SendThrows, SendKills, CloseServer, EraseServer,
           CloseThrows, CloseClient, RestartClient, InsertClient, InsertRaces, AddClient, Fault
    <3>2. QED BY <1>1, <3>1, IndexedFrame
  <2>4. QED BY <1>2, <2>1, <2>2, <2>3 DEF WorkerStep
<1>3. CASE MainStep
  BY <1>1, <1>3, IndexedFrame DEF MainStep, EpollWait, FindSocket, FindRaces, Flush,
       ModifySocket, RunFails, Fault
<1>4. CASE Environment
  BY <1>1, <1>4, IndexedFrame DEF Environment, Connect, ClientHangsUp, ClientSends,
       NameserverAnswers, NameserverHangsUp, Fill, Drain, DeadlinePasses, Alarm
<1>5. CASE UNCHANGED vars BY <1>1, <1>5, IndexedFrame DEF vars
<1>6. QED BY <1>1, <1>2, <1>3, <1>4, <1>5 DEF Next

-----------------------------------------------------------------------------
(* An index is for good, and while a worker has the servers' mutex, no       *)
(* TcpServer goes.                                                           *)
Kept ==
    /\ \A q \in Queries : index[q] # None => index'[q] # None /\ owner'[q] = owner[q]
    /\ \A v \in Workers : pc[v] = "arm" => servers \subseteq servers'

GivenTo(w) ==
    /\ pc[w] \in {"relay", "watch"} => index[Head(data[w])] # None
    /\ pc[w] \in Answering => index[task[w]] # None
    /\ pc[w] = "arm" => owner[task[w]] \in servers

LEMMA GivenFrame ==
    ASSUME Typed, Given, Kept, NEW w \in Workers,
           UNCHANGED workVars \/ (Elsewhere(w) /\ GivenTo(w)')
    PROVE  Given'
<1>1. ASSUME NEW v \in Workers, UNCHANGED <<pc, data, task>> \/ (Elsewhere(w) /\ v # w)
      PROVE  GivenTo(v)'
  <2>1. pc'[v] = pc[v] /\ data'[v] = data[v] /\ task'[v] = task[v] BY <1>1 DEF Elsewhere
  <2>2. pc[v] \in {"relay", "watch"} => Head(data[v]) \in Queries /\ index[Head(data[v])] # None
    <3>1. SUFFICES ASSUME pc[v] \in {"relay", "watch"}
                   PROVE  Head(data[v]) \in Queries /\ index[Head(data[v])] # None
      OBVIOUS
    <3>2. pc[v] \in Forwarding BY <3>1 DEF Forwarding
    <3>3. data[v] \in Seq(Queries) /\ data[v] # <<>> BY <3>2, JobAt DEF Typed
    <3>4. QED BY <3>1, <3>3, PopFacts DEF Given
  <2>3. pc[v] \in Answering => task[v] \in Queries /\ index[task[v]] # None
    BY JobAt DEF Typed, Given
  <2>4. pc[v] = "arm" => pc[v] \in Answering /\ owner[task[v]] \in servers
    BY DEF Given, Answering
  <2>5. QED BY <2>1, <2>2, <2>3, <2>4 DEF Kept, GivenTo
<1>2. \A v \in Workers : GivenTo(v)' BY <1>1 DEF workVars
<1>3. QED BY <1>2 DEF Given, GivenTo

(* A message that is sent on has been made a task ... *)
LEMMA GivenForward ==
    ASSUME Typed, Fresh, Given, NEW w \in Workers, ForwardQuery(w)
    PROVE  Given'
<1> DEFINE q == Head(data[w])
<1>1. /\ PutTask(w) /\ NextClient(w, clients) /\ Elsewhere(w)
      /\ q \in Queries /\ index[q] = None
  BY PutTaskFacts DEF ForwardQuery
<1>2. pc[w] = "forward" /\ Head(indexQueue) \in Indices BY <1>1, PutTaskTypes
<1>3. /\ index' = [index EXCEPT ![q] = Head(indexQueue)]
      /\ owner' = [owner EXCEPT ![q] = job[w].ptr]
      /\ UNCHANGED servers
  BY <1>1 DEF PutTask, setVars
<1>4. index'[q] # None BY <1>1, <1>2, <1>3, TcpRelayAssumption DEF Typed, TypedTasks, Indices
<1> HIDE DEF q
<1>5. Kept BY <1>1, <1>3 DEF Kept, Typed, TypedTasks
<1>6. /\ pc'[w] \in {"idle", "forward", "relay"}
      /\ pc'[w] = "relay" => data'[w] = data[w]
  BY <1>1, <1>2, NextWork DEF Typed, TypedSets, Forwarding
<1>7. GivenTo(w)' BY <1>4, <1>6 DEF GivenTo, Answering, q
<1>8. QED BY <1>1, <1>5, <1>7, GivenFrame

(* ... and so has one that is answered. *)
LEMMA GivenSettle ==
    ASSUME Typed, Indexed, Given, NEW w \in Workers, MatchAnswer(w) \/ PopTimer(w)
    PROVE  Given'
<1>1. UNCHANGED <<index, owner, setVars>> /\ pc[w] \in {"match", "timeout"}
  BY DEF MatchAnswer, PopTimer, At
<1>2. Kept BY <1>1 DEF Kept, setVars
<1>3. ASSUME NEW q \in Queries, index[q] # None, Settle(w, q) PROVE Given'
  <2>1. Elsewhere(w) /\ pc'[w] = "send" /\ task'[w] = q BY <1>1, <1>3, SettleTypes
  <2>2. GivenTo(w)' BY <1>1, <1>3, <2>1 DEF GivenTo
  <2>3. QED BY <1>2, <2>1, <2>2, GivenFrame
<1>4. CASE MatchAnswer(w)
  <2> DEFINE q == pool[Head(data[w]).id]
  <2>1. Head(data[w]).id \in Indices /\ q \in Queries \cup {None}
    BY <1>4, MatchTypes DEF Packets
  <2>2. q # None => q \in Queries /\ index[q] # None
    BY <2>1, TcpRelayAssumption DEF Indexed, Indices
  <2>3. CASE q # None /\ Head(data[w]).question = QuestionOf[q]
    <3>1. Settle(w, q) BY <1>4, <2>3 DEF MatchAnswer
    <3>2. QED BY <1>3, <2>2, <2>3, <3>1
  <2>4. CASE ~(q # None /\ Head(data[w]).question = QuestionOf[q])
    <3>1. Return(w) BY <1>4, <2>4 DEF MatchAnswer
    <3>2. Elsewhere(w) /\ pc'[w] = "idle" BY <3>1, ReturnWork DEF Typed
    <3>3. GivenTo(w)' BY <3>2 DEF GivenTo, Answering
    <3>4. QED BY <1>2, <3>2, <3>3, GivenFrame
  <2>5. QED BY <2>3, <2>4
<1>5. CASE PopTimer(w)
  <2>1. Head(heap) \in Queries /\ index[Head(heap)] # None BY <1>5, TimerTypes
  <2>2. CASE Settle(w, Head(heap)) BY <1>3, <2>1, <2>2
  <2>3. CASE UNCHANGED workVars BY <1>2, <2>3, GivenFrame
  <2>4. QED BY <1>5, <2>2, <2>3 DEF PopTimer
<1>6. QED BY <1>4, <1>5

(* A TcpServer that was found stays until its handler is done with it.       *)
LEMMA GivenSend ==
    ASSUME Typed, Given, NEW w \in Workers, SendReply(w) \/ EraseServer(w)
    PROVE  Given'
<1>1. CASE SendReply(w)
  <2>1. /\ pc[w] = "send" /\ pc[w] \in Answering
        /\ \A a \in Found(w) : a \in servers /\ a = owner[task[w]]
    BY <1>1, FoundTypes DEF Answering
  <2>2. UNCHANGED <<index, owner, servers>>
    BY <1>1 DEF SendReply, SendReplyTo, taskVars, setVars
  <2>3. Kept BY <2>2 DEF Kept
  <2>4. TypedWork BY DEF Typed
  <2>5. CASE Goto(w, "arm") /\ Parted({object[a] : a \in Found(w)}) # {}
    <3>1. Elsewhere(w) /\ pc'[w] = "arm" /\ UNCHANGED task
      BY <2>4, <2>5 DEF Goto, TypedWork, Elsewhere
    <3>2. owner[task[w]] \in servers BY <2>1, <2>5 DEF Parted
    <3>3. index[task[w]] # None BY <2>1 DEF Given
    <3>4. GivenTo(w)' BY <2>2, <3>1, <3>2, <3>3 DEF GivenTo
    <3>5. QED BY <2>3, <3>1, <3>4, GivenFrame
  <2>6. CASE Again(w)
    <3>1. Elsewhere(w) /\ pc'[w] \in {"idle", "match", "timeout"}
      BY <2>1, <2>4, <2>6, AgainWork
    <3>2. GivenTo(w)' BY <3>1 DEF GivenTo, Answering
    <3>3. QED BY <2>3, <3>1, <3>2, GivenFrame
  <2>7. QED BY <1>1, <2>5, <2>6 DEF SendReply, ArmOr
<1>2. CASE EraseServer(w)
  <2>1. /\ Elsewhere(w) /\ pc'[w] = "idle"
        /\ UNCHANGED <<index, owner>>
        /\ \A v \in Workers : pc[v] # "arm"
    BY <1>2, ReturnWork DEF EraseServer, ServersShared, Inside, taskVars, Typed
  <2>2. Kept /\ GivenTo(w)' BY <2>1 DEF Kept, GivenTo, Answering
  <2>3. QED BY <2>1, <2>2, GivenFrame
<1>3. QED BY <1>1, <1>2

(* The other steps of a worker. *)
LEMMA GivenWork ==
    ASSUME Typed, Given, NEW w \in Workers,
           \/ StartJob(w) \/ UsesDangling(w) \/ HandlerDone(w)
           \/ Accept(w) \/ InsertServer(w) \/ AddServer(w)
           \/ ReceiveQueries(w) \/ PoolExhausted(w) \/ RelayQuery(w) \/ WatchClient(w)
           \/ ReceiveAnswers(w)
           \/ WatchServer(w) \/ SendThrows(w) \/ SendKills(w)
           \/ CloseServer(w) \/ CloseThrows(w)
           \/ CloseClient(w) \/ RestartClient(w) \/ InsertClient(w) \/ InsertRaces(w)
           \/ AddClient(w)
    PROVE  Given'
<1>1. UNCHANGED <<index, owner>> /\ servers \subseteq servers'
  BY DEF StartJob, UsesDangling, HandlerDone, Accept, AcceptThen, InsertServer, AddServer,
     ReceiveQueries, PoolExhausted, RelayQuery, WatchClient, ReceiveAnswers, WatchServer,
     SendThrows, SendKills, CloseServer, CloseThrows, CloseClient, RestartClient, InsertClient,
     InsertRaces, AddClient, Fault, taskVars, setVars
<1>2. Kept /\ TypedWork BY <1>1 DEF Kept, Typed
<1>3. ASSUME Elsewhere(w), pc'[w] \notin {"relay", "watch"} \cup Answering PROVE Given'
  BY <1>2, <1>3, GivenFrame DEF GivenTo, Answering
<1>4. ASSUME Elsewhere(w), pc'[w] \in {"relay", "watch"}, data'[w] = data[w],
             pc[w] \in {"relay", "watch"}
      PROVE  Given'
  <2>1. GivenTo(w)' BY <1>1, <1>4 DEF GivenTo, Answering, Given
  <2>2. QED BY <1>2, <1>4, <2>1, GivenFrame
<1>5. CASE StartJob(w)
  <2>1. Elsewhere(w) /\ pc'[w] \notin {"relay", "watch"} \cup Answering
    BY <1>5, StartWork DEF JobSet, Answering
  <2>2. QED BY <1>3, <2>1
<1>6. CASE UsesDangling(w) \/ PoolExhausted(w) \/ SendKills(w) \/ InsertRaces(w)
  <2>1. UNCHANGED workVars
    BY <1>6 DEF UsesDangling, PoolExhausted, SendKills, InsertRaces, Fault
  <2>2. QED BY <1>2, <2>1, GivenFrame
<1>7. ASSUME Return(w) PROVE Given'
  BY <1>2, <1>3, <1>7, ReturnWork DEF Answering
<1>8. ASSUME NEW l \in {"add", "erase", "unlink", "relink", "readd"}, Goto(w, l) PROVE Given'
  BY <1>2, <1>3, <1>8 DEF Goto, TypedWork, Elsewhere, Answering
<1>9. CASE Accept(w)
  <2>1. Elsewhere(w) /\ pc'[w] = "insert" BY <1>9, AcceptWork
  <2>2. QED BY <1>3, <2>1 DEF Answering
<1>10. CASE \/ HandlerDone(w) \/ SendThrows(w) \/ CloseThrows(w) \/ AddServer(w) \/ AddClient(w)
            \/ InsertServer(w) \/ CloseServer(w) \/ CloseClient(w) \/ InsertClient(w)
            \/ RestartClient(w)
  BY <1>7, <1>8, <1>10 DEF HandlerDone, SendThrows, CloseThrows, AddServer, AddClient,
     InsertServer, CloseServer, CloseClient, InsertClient, RestartClient
<1>11. CASE ReceiveQueries(w)
  <2>1. /\ pc[w] = "query" /\ job[w].kind = "query" /\ object[job[w].ptr] \in Conns
    BY <1>2, <1>11, JobAt DEF ReceiveQueries, At, Typed, TypedSets
  <2>2. inbox[object[job[w].ptr]] \in Seq(Queries) BY <2>1 DEF Typed, TypedConns
  <2>3. Elsewhere(w) /\ pc'[w] \in {"idle", "forward"}
    BY <1>2, <1>11, <2>1, <2>2, HandleWork DEF ReceiveQueries, TakenBy, Forwarding
  <2>4. QED BY <1>3, <2>3 DEF Answering
<1>12. CASE ReceiveAnswers(w)
  <2>1. pc[w] = "answer" /\ job[w].ptr \in Remotes /\ job[w].kind = "answer"
    BY <1>2, <1>12, JobAt DEF ReceiveAnswers, At
  <2>2. linkIn[job[w].ptr] \in Seq(Packets) BY <2>1 DEF Typed, TypedLinks
  <2>3. Elsewhere(w) /\ pc'[w] \in {"idle", "match"}
    BY <1>2, <1>12, <2>1, <2>2, HandleWork DEF ReceiveAnswers, TakenBy
  <2>4. QED BY <1>3, <2>3 DEF Answering
<1>13. ASSUME NEW more \in SUBSET Remotes, pc[w] \in {"relay", "watch"}, NextClient(w, more)
       PROVE  Given'
  <2>1. /\ Elsewhere(w) /\ pc'[w] \in {"idle", "forward", "relay"}
        /\ pc'[w] = "relay" => data'[w] = data[w]
    BY <1>2, <1>13, NextWork DEF Forwarding
  <2>2. QED BY <1>3, <1>4, <1>13, <2>1 DEF Answering
<1>14. CASE RelayQuery(w)
  <2>1. PICK r \in rest[w] :
          \/ pc' = [pc EXCEPT ![w] = "watch"] /\ to' = [to EXCEPT ![w] = r]
             /\ UNCHANGED <<job, data, task>>
          \/ NextClient(w, rest[w] \ {r})
    BY <1>14 DEF RelayQuery
  <2>2. pc[w] = "relay" /\ rest[w] \ {r} \in SUBSET Remotes
    BY <1>2, <1>14 DEF RelayQuery, At, TypedWork
  <2>3. CASE pc' = [pc EXCEPT ![w] = "watch"] /\ to' = [to EXCEPT ![w] = r]
             /\ UNCHANGED <<job, data, task>>
    <3>1. Elsewhere(w) /\ pc'[w] = "watch" BY <1>2, <2>3 DEF TypedWork, Elsewhere
    <3>2. QED BY <1>4, <2>2, <2>3, <3>1
  <2>4. QED BY <1>13, <2>1, <2>2, <2>3
<1>15. CASE WatchClient(w)
  BY <1>2, <1>13, <1>15 DEF WatchClient, At, TypedWork
<1>16. CASE WatchServer(w)
  <2>1. pc[w] \in Answering /\ Again(w) BY <1>16 DEF WatchServer, At, Answering
  <2>2. Elsewhere(w) /\ pc'[w] \in {"idle", "match", "timeout"} BY <1>2, <2>1, AgainWork
  <2>3. QED BY <1>3, <2>2 DEF Answering
<1>17. QED BY <1>5, <1>6, <1>9, <1>10, <1>11, <1>12, <1>14, <1>15, <1>16

LEMMA GivenStep == Typed /\ Fresh /\ Indexed /\ Given /\ [Next]_vars => Given'
<1>1. SUFFICES ASSUME Typed, Fresh, Indexed, Given, [Next]_vars PROVE Given' OBVIOUS
<1>2. ASSUME NEW w \in Workers, WorkerStep(w) PROVE Given'
  BY <1>1, <1>2, GivenForward, GivenSettle, GivenSend, GivenWork DEF WorkerStep
<1>3. ASSUME UNCHANGED <<servers, index, owner, pc, data, task>> PROVE Given'
  BY <1>1, <1>3 DEF Given
<1> USE DEF setVars, taskVars, workVars
<1>4. CASE MainStep
  BY <1>3, <1>4 DEF MainStep, EpollWait, FindSocket, FindRaces, Flush, ModifySocket, RunFails,
     Fault
<1>5. CASE Environment
  BY <1>3, <1>5 DEF Environment, Connect, ClientHangsUp, ClientSends, NameserverAnswers,
     NameserverHangsUp, Fill, Drain, DeadlinePasses, Alarm
<1>6. CASE UNCHANGED vars BY <1>3, <1>6 DEF vars
<1>7. QED BY <1>1, <1>2, <1>4, <1>5, <1>6 DEF Next

-----------------------------------------------------------------------------
(* A closed connection stays closed, and until then its TcpServer stays at   *)
(* its address.                                                              *)
BelongsNext(q, a) == object'[a] = ConnOf[q] \/ conn'[ConnOf[q]] = "closed"

LEMMA BelongsStays ==
    ASSUME Typed, Listed, Given, [Next]_vars
    PROVE  /\ \A c \in Conns : conn[c] = "closed" => conn'[c] = "closed"
           /\ \A q \in Queries, a \in Addrs : Belongs(q, a) => BelongsNext(q, a)
<1> DEFINE Stays == /\ \A c \in Conns : conn[c] = "closed" => conn'[c] = "closed"
                    /\ \A q \in Queries, a \in Addrs : Belongs(q, a) => BelongsNext(q, a)
<1> USE DEF connVars, setVars
<1>1. UNCHANGED <<conn, object>> => Stays BY DEF Belongs, BelongsNext
<1>2. /\ \A q \in Queries : ConnOf[q] \in Conns
      /\ None \notin Conns
      /\ object \in [Addrs -> Conns \cup {None}]
      /\ conn \in [Conns -> {"none", "waiting", "served", "closed"}]
  BY TcpRelayAssumption DEF Typed, TypedSets, TypedConns
<1>3. ASSUME NEW w \in Workers, Accept(w) PROVE Stays
  <2>1. /\ job'[w].ptr \in Addrs /\ object[job'[w].ptr] = None
        /\ backlog # <<>> /\ Head(backlog) \in Conns
        /\ object' = [object EXCEPT ![job'[w].ptr] = Head(backlog)]
        /\ conn' = [conn EXCEPT ![Head(backlog)] = "served"]
    BY <1>3, AcceptWork DEF Accept, AcceptThen
  <2>2. conn[Head(backlog)] = "waiting"
    BY <2>1, DequeueFacts DEF Listed, Accepted, Typed, TypedConns
  <2>3. \A c \in Conns : conn[c] = "closed" => conn'[c] = "closed" BY <1>2, <2>1, <2>2
  <2>4. \A q \in Queries, a \in Addrs : object[a] = ConnOf[q] => object'[a] = ConnOf[q]
    BY <1>2, <2>1
  <2>5. QED BY <1>2, <2>3, <2>4 DEF Belongs, BelongsNext
<1>4. ASSUME NEW w \in Workers, EraseServer(w) PROVE Stays
  <2>1. pc[w] = "erase" /\ job[w].ptr \in Addrs BY <1>4, JobAt DEF EraseServer, At, Typed
  <2>2. object[job[w].ptr] \in Conns BY <1>2, <2>1 DEF Listed, Handled, Busy
  <2>3. /\ object' = [object EXCEPT ![job[w].ptr] = None]
        /\ conn' = [conn EXCEPT ![object[job[w].ptr]] = "closed"]
    BY <1>4 DEF EraseServer
  <2>4. \A c \in Conns : conn[c] = "closed" => conn'[c] = "closed" BY <1>2, <2>2, <2>3
  <2>5. ASSUME NEW q \in Queries, NEW a \in Addrs, object[a] = ConnOf[q]
        PROVE  object'[a] = ConnOf[q] \/ conn'[ConnOf[q]] = "closed"
    BY <1>2, <2>2, <2>3, <2>5
  <2>6. QED BY <1>2, <2>4, <2>5 DEF Belongs, BelongsNext
<1>5. ASSUME NEW c \in Conns, Connect(c) PROVE Stays
  <2>1. conn[c] = "none" /\ conn' = [conn EXCEPT ![c] = "waiting"] /\ UNCHANGED object
    BY <1>5 DEF Connect
  <2>2. QED BY <1>2, <2>1 DEF Belongs, BelongsNext
<1>6. ASSUME NEW w \in Workers, WorkerStep(w) PROVE Stays
  <2>1. CASE \/ UsesDangling(w) \/ HandlerDone(w)
             \/ ReceiveQueries(w) \/ ForwardQuery(w) \/ PoolExhausted(w)
             \/ RelayQuery(w) \/ WatchClient(w)
             \/ ReceiveAnswers(w) \/ MatchAnswer(w) \/ PopTimer(w)
             \/ SendReply(w) \/ WatchServer(w) \/ SendThrows(w) \/ SendKills(w)
             \/ CloseThrows(w) \/ InsertRaces(w)
    BY <1>1, <2>1, PlainSteps
  <2>2. CASE \/ StartJob(w) \/ InsertServer(w) \/ AddServer(w) \/ CloseServer(w)
             \/ CloseClient(w) \/ RestartClient(w) \/ InsertClient(w) \/ AddClient(w)
    BY <1>1, <2>2 DEF StartJob, InsertServer, AddServer, CloseServer, CloseClient, RestartClient,
         InsertClient, AddClient
  <2>3. QED BY <1>3, <1>4, <1>6, <2>1, <2>2 DEF WorkerStep
<1>7. CASE MainStep
  BY <1>1, <1>7 DEF MainStep, EpollWait, FindSocket, FindRaces, Flush, ModifySocket, RunFails,
       Fault
<1>8. CASE Environment
  <2>1. CASE \/ \E c \in Conns : ClientHangsUp(c)
             \/ \E q \in Queries : ClientSends(q)
             \/ \E m \in wire : NameserverAnswers(m)
             \/ \E r \in Remotes : NameserverHangsUp(r)
             \/ \E s \in Sockets : Fill(s) \/ Drain(s)
             \/ DeadlinePasses \/ Alarm
    BY <1>1, <2>1 DEF ClientHangsUp, ClientSends, NameserverAnswers, NameserverHangsUp, Fill,
         Drain, DeadlinePasses, Alarm
  <2>2. QED BY <1>5, <1>8, <2>1 DEF Environment
<1>9. CASE UNCHANGED vars BY <1>1, <1>9 DEF vars
<1>10. QED BY <1>6, <1>7, <1>8, <1>9 DEF Next

(* The TcpServer a query is received from, and its task refers to, is its    *)
(* connection's.                                                             *)
LEMMA OwnedStep == Typed /\ Listed /\ Given /\ Fresh /\ Owned /\ [Next]_vars => Owned'
<1>1. SUFFICES ASSUME Typed, Listed, Given, Fresh, Owned, [Next]_vars PROVE Owned' OBVIOUS
<1>2. \A q \in Queries, a \in Addrs : Belongs(q, a) => BelongsNext(q, a)
  BY <1>1, BelongsStays
<1>3. ASSUME NEW v \in Workers, NEW q \in Range(Left(v))
      PROVE  q \in Queries /\ job[v].ptr \in Addrs /\ BelongsNext(q, job[v].ptr)
  <2>1. Left(v) # <<>> BY <1>3, NoElements
  <2>2. pc[v] \in Forwarding BY <2>1 DEF Left, Forwarding
  <2>3. q \in Queries /\ job[v].ptr \in Addrs
    BY <1>1, <1>3, <2>2, JobAt DEF Fresh, Typed, TypedConns
  <2>4. Belongs(q, job[v].ptr) BY <1>1, <1>3 DEF Owned
  <2>5. QED BY <1>2, <2>3, <2>4
<1>4. ASSUME NEW q \in Queries, owner[q] # None PROVE BelongsNext(q, owner[q])
  <2>1. owner[q] \in Addrs BY <1>1, <1>4 DEF Typed, TypedTasks
  <2>2. Belongs(q, owner[q]) BY <1>1, <1>4 DEF Owned
  <2>3. QED BY <1>2, <2>1, <2>2
<1>5. CASE Still
  <2>1. ASSUME NEW v \in Workers, NEW q \in Range(Left(v)') PROVE BelongsNext(q, job'[v].ptr)
    <3>1. Left(v)' # <<>> BY <2>1, NoElements
    <3>2. Left(v)' = Left(v) /\ job'[v] = job[v] BY <1>5, <3>1 DEF Still
    <3>3. BelongsNext(q, job[v].ptr) BY <1>3, <2>1, <3>2
    <3>4. QED BY <3>2, <3>3 DEF BelongsNext
  <2>2. ASSUME NEW q \in Queries, owner'[q] # None PROVE BelongsNext(q, owner'[q])
    BY <1>4, <1>5, <2>2 DEF Still, BelongsNext
  <2>3. QED BY <2>1, <2>2 DEF Owned, Belongs, BelongsNext
<1>6. ASSUME NEW w \in Workers, ReceiveQueries(w) PROVE Owned'
  <2>1. /\ Elsewhere(w) /\ job[w].ptr \in Addrs /\ object[job[w].ptr] \in Conns
        /\ Left(w)' = inbox[object[job[w].ptr]]
        /\ Left(w)' = <<>> \/ job'[w] = job[w]
    BY <1>1, <1>6, FreshReceive
  <2>2. UNCHANGED <<object, conn, owner>> BY <1>6 DEF ReceiveQueries, setVars, taskVars
  <2>3. ASSUME NEW v \in Workers, NEW q \in Range(Left(v)') PROVE BelongsNext(q, job'[v].ptr)
    <3>1. CASE v = w
      <4>1. job'[w] = job[w] BY <2>1, <2>3, <3>1, NoElements
      <4>2. ConnOf[q] = object[job[w].ptr] BY <1>1, <2>1, <2>3, <3>1 DEF Fresh
      <4>3. QED BY <2>1, <2>2, <3>1, <4>1, <4>2 DEF BelongsNext
    <3>2. CASE v # w
      <4>1. Left(v)' = Left(v) /\ job'[v] = job[v] BY <2>1, <3>2, LeftElsewhere
      <4>2. BelongsNext(q, job[v].ptr) BY <1>3, <2>3, <4>1
      <4>3. QED BY <4>1, <4>2 DEF BelongsNext
    <3>3. QED BY <3>1, <3>2
  <2>4. ASSUME NEW q \in Queries, owner'[q] # None PROVE BelongsNext(q, owner'[q])
    BY <1>4, <2>2, <2>4 DEF BelongsNext
  <2>5. QED BY <2>3, <2>4 DEF Owned, Belongs, BelongsNext
<1>7. ASSUME NEW w \in Workers, ForwardQuery(w) PROVE Owned'
  <2> DEFINE p == Head(data[w])
  <2>1. /\ PutTask(w) /\ job[w].ptr \in Addrs /\ Left(w) = data[w]
        /\ data[w] \in Seq(Queries) /\ data[w] # <<>> /\ p \in Queries
        /\ Elsewhere(w) /\ Left(w)' = Tail(data[w])
        /\ Left(w)' = <<>> \/ job'[w] = job[w]
    BY <1>1, <1>7, PutTaskFacts
  <2>2. p \in Range(Left(w)) /\ Range(Left(w)') \subseteq Range(Left(w))
    BY <2>1, DequeueFacts
  <2>3. owner' = [owner EXCEPT ![p] = job[w].ptr] BY <2>1 DEF PutTask
  <2> HIDE DEF p
  <2>4. ASSUME NEW v \in Workers, NEW q \in Range(Left(v)') PROVE BelongsNext(q, job'[v].ptr)
    <3>1. q \in Range(Left(v)) /\ job'[v] = job[v]
      <4>1. CASE v = w BY <2>1, <2>2, <2>4, <4>1, NoElements
      <4>2. CASE v # w
        <5>1. Left(v)' = Left(v) /\ job'[v] = job[v] BY <2>1, <4>2, LeftElsewhere
        <5>2. QED BY <2>4, <5>1
      <4>3. QED BY <4>1, <4>2
    <3>2. BelongsNext(q, job[v].ptr) BY <1>3, <3>1
    <3>3. QED BY <3>1, <3>2 DEF BelongsNext
  <2>5. ASSUME NEW q \in Queries, owner'[q] # None PROVE BelongsNext(q, owner'[q])
    <3>1. CASE q = p
      <4>1. owner'[q] = job[w].ptr BY <1>1, <2>3, <3>1 DEF Typed, TypedTasks
      <4>2. BelongsNext(q, job[w].ptr) BY <1>3, <2>2, <3>1
      <4>3. QED BY <4>1, <4>2 DEF BelongsNext
    <3>2. CASE q # p
      <4>1. owner'[q] = owner[q] BY <1>1, <2>3, <3>2 DEF Typed, TypedTasks
      <4>2. BelongsNext(q, owner[q]) BY <1>4, <2>5, <4>1
      <4>3. QED BY <4>1, <4>2 DEF BelongsNext
    <3>3. QED BY <3>1, <3>2
  <2>6. QED BY <2>4, <2>5 DEF Owned, Belongs, BelongsNext
<1>8. ASSUME NEW q \in Queries, ClientSends(q) PROVE Owned'
  <2>1. UNCHANGED <<owner, pc, job, data>> BY <1>8 DEF ClientSends, taskVars, workVars
  <2>2. ASSUME NEW v \in Workers, NEW p \in Range(Left(v)') PROVE BelongsNext(p, job'[v].ptr)
    <3>1. Left(v)' = Left(v) BY <2>1 DEF Left
    <3>2. BelongsNext(p, job[v].ptr) BY <1>3, <2>2, <3>1
    <3>3. QED BY <2>1, <3>2 DEF BelongsNext
  <2>3. ASSUME NEW p \in Queries, owner'[p] # None PROVE BelongsNext(p, owner'[p])
    BY <1>4, <2>1, <2>3 DEF BelongsNext
  <2>4. QED BY <2>2, <2>3 DEF Owned, Belongs, BelongsNext
<1>9. QED BY <1>1, <1>5, <1>6, <1>7, <1>8, StillWork, StillElse DEF Next

(* Which is where the reply is sent, or kept to be sent. *)
LEMMA SentElsewhere ==
    ASSUME Typed, [Next]_vars
    PROVE  Sent' \subseteq Sent \/ \E w \in Workers : SendReply(w)
<1>1. ASSUME UNCHANGED <<replies, outbox>> PROVE Sent' \subseteq Sent BY <1>1 DEF Sent
<1> USE DEF outVars
<1>2. ASSUME NEW w \in Workers, WorkerStep(w), ~SendReply(w) PROVE Sent' \subseteq Sent
  <2>1. CASE EraseServer(w)
    <3>1. UNCHANGED replies /\ \A c \in Conns : outbox'[c] \subseteq outbox[c]
      BY <2>1 DEF EraseServer, Typed, TypedOut
    <3>2. QED BY <3>1 DEF Sent
  <2>2. CASE \/ StartJob(w) \/ UsesDangling(w) \/ HandlerDone(w)
             \/ Accept(w) \/ InsertServer(w) \/ AddServer(w)
             \/ ReceiveQueries(w) \/ ForwardQuery(w) \/ PoolExhausted(w)
             \/ RelayQuery(w) \/ WatchClient(w)
             \/ ReceiveAnswers(w) \/ MatchAnswer(w) \/ PopTimer(w)
             \/ WatchServer(w) \/ SendThrows(w) \/ SendKills(w)
             \/ CloseServer(w) \/ CloseThrows(w)
             \/ CloseClient(w) \/ RestartClient(w) \/ InsertClient(w) \/ InsertRaces(w)
             \/ AddClient(w)
    BY <1>1, <2>2 DEF StartJob, UsesDangling, HandlerDone, Accept, AcceptThen, InsertServer,
       AddServer, ReceiveQueries, ForwardQuery, PutTask, PoolExhausted, RelayQuery, WatchClient,
       ReceiveAnswers, MatchAnswer, PopTimer, WatchServer, SendThrows, SendKills, CloseServer,
       CloseThrows, CloseClient, RestartClient, InsertClient, InsertRaces, AddClient, Fault
  <2>3. QED BY <1>2, <2>1, <2>2 DEF WorkerStep
<1>3. CASE Flush
  <2>1. Socket \in Sockets BY <1>3, SocketTypes DEF Flush
  <2>2. CASE Empty(Socket) /\ Socket \in Conns
    <3>1. /\ replies' = replies \cup outbox[Socket]
          /\ \A c \in Conns : outbox'[c] \subseteq outbox[c]
      BY <2>2 DEF Empty, Typed, TypedOut
    <3>2. QED BY <2>2, <3>1 DEF Sent
  <2>3. CASE UNCHANGED <<replies, outbox>> BY <1>1, <2>3
  <2>4. QED BY <1>3, <2>2, <2>3 DEF Flush, Empty
<1>4. CASE MainStep
  BY <1>1, <1>3, <1>4 DEF MainStep, EpollWait, FindSocket, FindRaces, ModifySocket, RunFails,
     Fault
<1>5. CASE Environment
  BY <1>1, <1>5 DEF Environment, Connect, ClientHangsUp, ClientSends, NameserverAnswers,
     NameserverHangsUp, Fill, Drain, DeadlinePasses, Alarm
<1>6. CASE UNCHANGED vars BY <1>1, <1>6 DEF vars
<1>7. QED BY <1>2, <1>4, <1>5, <1>6 DEF Next

LEMMA AnswerStep ==
    Typed /\ Listed /\ Given /\ Owned /\ AnswerReachesAsker /\ [Next]_vars => AnswerReachesAsker'
<1>1. SUFFICES ASSUME Typed, Listed, Given, Owned, AnswerReachesAsker, [Next]_vars
               PROVE  AnswerReachesAsker'
  OBVIOUS
<1>2. \A c \in Conns : conn[c] = "closed" => conn'[c] = "closed" BY <1>1, BelongsStays
<1>3. \A m \in Sent : ConnOf[m.query] \in Conns
  <2>1. \A m \in Sent : m \in Replies BY <1>1 DEF Typed, TypedOut, Sent
  <2>2. \A m \in Replies : m.query \in Queries BY DEF Replies
  <2>3. QED BY <2>1, <2>2, TcpRelayAssumption
<1>4. CASE Sent' \subseteq Sent BY <1>1, <1>2, <1>3, <1>4 DEF AnswerReachesAsker
<1>5. ASSUME NEW w \in Workers, SendReply(w) PROVE AnswerReachesAsker'
  <2>1. /\ pc[w] = "send" /\ task[w] \in Queries
        /\ \A a \in Found(w) : a \in servers /\ a = owner[task[w]] /\ object[a] \in Conns
    BY <1>1, <1>5, FoundTypes
  <2>2. UNCHANGED conn BY <1>5 DEF SendReply, SendReplyTo, connVars
  <2>3. ASSUME NEW a \in Found(w)
        PROVE  object[a] = ConnOf[task[w]] \/ conn[ConnOf[task[w]]] = "closed"
    <3>1. a = owner[task[w]] /\ a \in Addrs BY <1>1, <2>1 DEF Typed, TypedSets
    <3>2. a # None BY <3>1, TcpRelayAssumption
    <3>3. QED BY <1>1, <2>1, <3>1, <3>2 DEF Owned, Belongs
  <2>4. ASSUME NEW m \in Sent'
        PROVE  m \in Sent \/ \E a \in Found(w) : m = Reply(w, object[a])
    <3>1. CASE m \in replies' BY <1>5, <3>1 DEF SendReply, SendReplyTo, Sent
    <3>2. ASSUME NEW c \in Conns, m \in outbox'[c]
          PROVE  m \in Sent \/ \E a \in Found(w) : m = Reply(w, object[a])
      <4>1. CASE m \in outbox[c] BY <4>1 DEF Sent
      <4>2. CASE m \notin outbox[c]
        <5>1. m = Reply(w, c) /\ c \in {object[a] : a \in Found(w)}
          BY <1>5, <3>2, <4>2 DEF SendReply, SendReplyTo, Parted
        <5>2. QED BY <5>1
      <4>3. QED BY <4>1, <4>2
    <3>3. QED BY <2>4, <3>1, <3>2 DEF Sent
  <2>5. QED BY <1>1, <2>2, <2>3, <2>4 DEF AnswerReachesAsker, Reply
<1>6. QED BY <1>1, <1>4, <1>5, SentElsewhere

-----------------------------------------------------------------------------
(* A reset is for good, and so is a FIN that was brought up again.           *)
LEMMA OnceStays ==
    ASSUME Typed, [Next]_vars
    PROVE  /\ Once' => Once
           /\ Once' => \A c \in Conns : peer[c] # "open" => peer'[c] = peer[c]
<1> DEFINE Goal == /\ Once' => Once
                   /\ Once' => \A c \in Conns : peer[c] # "open" => peer'[c] = peer[c]
<1> USE DEF connVars, epollVars
<1>1. ASSUME UNCHANGED peer, UNCHANGED again \/ \E s \in Sockets : Report(s) PROVE Goal
  <2>1. again => again' BY <1>1 DEF Report
  <2>2. NoReset' => NoReset BY <1>1 DEF NoReset
  <2>3. QED BY <1>1, <2>1, <2>2 DEF Once
<1>2. ASSUME NEW c \in Conns, ClientHangsUp(c) PROVE Goal
  <2>1. PICK how \in {"fin", "rst"} \ {peer[c]} : peer' = [peer EXCEPT ![c] = how]
    BY <1>2 DEF ClientHangsUp
  <2>2. peer \in [Conns -> {"open", "fin", "rst"}] /\ peer[c] # "rst" /\ UNCHANGED again
    BY <1>2 DEF ClientHangsUp, Edge, Typed, TypedConns
  <2>3. \A d \in Conns : peer'[d] = IF d = c THEN how ELSE peer[d] BY <2>1, <2>2
  <2>4. NoReset' => NoReset BY <2>2, <2>3 DEF NoReset
  <2>5. NoReset' => peer[c] = "open" BY <2>1, <2>2, <2>3 DEF NoReset
  <2>6. QED BY <2>2, <2>3, <2>4, <2>5 DEF Once
<1> SUFFICES Goal OBVIOUS
<1> HIDE DEF Goal
<1>3. ASSUME NEW w \in Workers, WorkerStep(w) PROVE Goal
  <2>1. CASE WatchClient(w)
    <3>1. UNCHANGED peer /\ (UNCHANGED again \/ Report(to[w])) BY <2>1 DEF WatchClient, Modify
    <3>2. to[w] \in Sockets BY <2>1, JobAt DEF WatchClient, At, Typed, Sockets
    <3>3. QED BY <1>1, <3>1, <3>2
  <2>2. CASE WatchServer(w)
    <3>1. /\ UNCHANGED peer
          /\ UNCHANGED again \/ again' = (again \/ (object[owner[task[w]]] \in Conns \ ready
                                                   /\ HungUp(peer[object[owner[task[w]]]])))
      BY <2>2 DEF WatchServer, Modify, Report
    <3>2. Once' => Once BY <3>1 DEF Once, NoReset
    <3>3. QED BY <3>1, <3>2 DEF Goal
  <2>3. CASE \/ StartJob(w) \/ UsesDangling(w) \/ HandlerDone(w)
             \/ Accept(w) \/ InsertServer(w) \/ AddServer(w)
             \/ ReceiveQueries(w) \/ ForwardQuery(w) \/ PoolExhausted(w) \/ RelayQuery(w)
             \/ ReceiveAnswers(w) \/ MatchAnswer(w) \/ PopTimer(w) \/ SendReply(w)
             \/ SendThrows(w) \/ SendKills(w)
             \/ CloseServer(w) \/ EraseServer(w) \/ CloseThrows(w)
             \/ CloseClient(w) \/ RestartClient(w) \/ InsertClient(w) \/ InsertRaces(w)
             \/ AddClient(w)
    <3>1. UNCHANGED <<peer, again>>
      BY <2>3 DEF StartJob, UsesDangling, HandlerDone, Accept, AcceptThen, InsertServer,
         AddServer, ReceiveQueries, ForwardQuery, PutTask, PoolExhausted, RelayQuery,
         ReceiveAnswers, MatchAnswer, PopTimer, SendReply, SendReplyTo, SendThrows, SendKills,
         CloseServer, EraseServer, CloseThrows, CloseClient, RestartClient, InsertClient,
         InsertRaces, AddClient, Fault
    <3>2. QED BY <1>1, <3>1
  <2>4. QED BY <1>3, <2>1, <2>2, <2>3 DEF WorkerStep
<1>4. CASE MainStep
  <2>1. CASE ModifySocket
    <3>1. Socket \in Sockets BY <2>1, SocketTypes DEF ModifySocket
    <3>2. QED BY <1>1, <2>1, <3>1 DEF ModifySocket, Modify
  <2>2. QED
    BY <1>1, <1>4, <2>1 DEF MainStep, EpollWait, FindSocket, FindRaces, Flush, RunFails, Fault
<1>5. CASE Environment
  <2>1. ASSUME NEW c \in Conns, ClientHangsUp(c) PROVE Goal BY <1>2, <2>1 DEF Goal
  <2>2. QED
    BY <1>1, <1>5, <2>1 DEF Environment, Connect, ClientSends, NameserverAnswers,
       NameserverHangsUp, Fill, Drain, Edge, DeadlinePasses, Alarm
<1>6. CASE UNCHANGED vars BY <1>1, <1>6 DEF vars
<1>7. QED BY <1>3, <1>4, <1>5, <1>6 DEF Next

(* Of what was reported, EpollModFd and EPOLLOUT then bring up no hang-up.   *)
LEMMA NudgedQuiet ==
    ASSUME Typed, Once', Nudged, UNCHANGED peer
    PROVE  \A c \in Conns : c \in ready' /\ peer'[c] # "open" => c \in ready \/ peer[c] = "open"
<1>1. CASE UNCHANGED <<ready, again>> BY <1>1
<1>2. ASSUME NEW s \in Sockets, Report(s)
      PROVE  \A c \in Conns : c \in ready' /\ peer'[c] # "open" => c \in ready \/ peer[c] = "open"
  <2>1. ready' = ready \cup {s} /\ ~(s \in Conns \ ready /\ HungUp(peer[s]))
    BY <1>2 DEF Report, Once
  <2>2. s \in Conns => s \in ready \/ peer[s] = "open"
    BY <2>1 DEF HungUp, Typed, TypedConns
  <2>3. QED BY <2>1, <2>2
<1>3. QED BY <1>1, <1>2 DEF Nudged

(* Steps that neither report a hang-up nor act on one. *)
Quiet ==
    /\ UNCHANGED object
    /\ \A c \in Conns : conn'[c] = "closed" => conn[c] = "closed"
    /\ \A c \in Conns : registered'[c] = registered[c]
    /\ \A c \in Conns : c \in ready' /\ peer'[c] # "open" => c \in ready \/ peer[c] = "open"
    /\ event' \in {event, NoEvent}
    /\ \A a \in Addrs, k \in DOMAIN jobs' : ClosesAt(k, a)' => k \in DOMAIN jobs /\ ClosesAt(k, a)
    /\ \A v \in Workers : /\ job'[v].kind = "close" => job'[v] = job[v]
                          /\ pc'[v] = "close" => pc[v] = "close"

LEMMA QuietStep ==
    ASSUME Typed, CloseOnce, [Next]_vars, Quiet
    PROVE  CloseOnce'
<1>1. SUFFICES ASSUME Once' PROVE (ClosedHungUp /\ Justified /\ Single /\ Reported)'
  BY DEF CloseOnce
<1>2. /\ ClosedHungUp /\ Justified /\ Single /\ Reported
      /\ \A c \in Conns : peer[c] # "open" => peer'[c] = peer[c]
  BY <1>1, OnceStays DEF CloseOnce
<1>3. object \in [Addrs -> Conns \cup {None}] BY DEF Typed, TypedSets
<1>4. /\ \A a \in Addrs : CloseEvent(a)' => CloseEvent(a)
      /\ \A a \in Addrs : Queued(a)' => Queued(a)
      /\ \A a \in Addrs, v \in Workers : Closing(v, a)' => Closing(v, a)
      /\ \A a \in Addrs : Taken(a)' => Taken(a)
      /\ \A a \in Addrs : Owing(a)' => Owing(a)
  <2>1. \A a \in Addrs : CloseEvent(a)' => CloseEvent(a) BY DEF Quiet, CloseEvent, NoEvent
  <2>2. \A a \in Addrs : Queued(a)' => Queued(a) BY DEF Quiet, Queued
  <2>3. \A a \in Addrs, v \in Workers : Closing(v, a)' => Closing(v, a) BY DEF Quiet, Closing
  <2>4. \A a \in Addrs : Taken(a)' => Taken(a) BY <2>3 DEF Taken
  <2>5. QED BY <2>1, <2>2, <2>3, <2>4 DEF Owing
<1>5. ClosedHungUp' BY <1>2 DEF Quiet, ClosedHungUp
<1>6. Justified'
  <2>1. ASSUME NEW a \in Addrs, Owing(a)'
        PROVE  object'[a] # None /\ peer'[object'[a]] # "open"
    BY <1>2, <1>3, <1>4, <2>1 DEF Quiet, Justified
  <2>2. ASSUME NEW a \in Addrs,
               \/ CloseEvent(a)' \/ Queued(a)'
               \/ \E w \in Workers : Closing(w, a)' /\ pc'[w] = "close"
        PROVE  registered'[object'[a]] = a
    <3>1. CloseEvent(a) \/ Queued(a) \/ \E w \in Workers : Closing(w, a) /\ pc[w] = "close"
      BY <1>4, <2>2 DEF Quiet
    <3>2. Owing(a) BY <3>1 DEF Owing, Taken
    <3>3. object[a] \in Conns /\ registered[object[a]] = a
      BY <1>2, <1>3, <3>1, <3>2 DEF Justified
    <3>4. QED BY <3>3 DEF Quiet
  <2>3. QED BY <2>1, <2>2 DEF Justified
<1>7. Single'
  <2>1. ASSUME NEW a \in Addrs, NEW k \in DOMAIN jobs', NEW l \in DOMAIN jobs',
               ClosesAt(k, a)', ClosesAt(l, a)'
        PROVE  k = l
    BY <1>2, <2>1 DEF Quiet, Single
  <2>2. QED BY <1>2, <1>4, <2>1 DEF Single
<1>8. Reported'
  <2>1. SUFFICES ASSUME NEW c \in Conns, c \in ready', peer'[c] # "open",
                        NEW a \in Addrs, object[a] = c, Owing(a)
                 PROVE  FALSE
    BY <1>4 DEF Quiet, Reported
  <2>2. c \in ready \/ peer[c] = "open" BY <2>1 DEF Quiet
  <2>3. peer[c] # "open" BY <1>2, <2>1 DEF Justified
  <2>4. QED BY <1>2, <2>1, <2>2, <2>3 DEF Reported
<1>9. QED BY <1>5, <1>6, <1>7, <1>8

(* The event is of a socket whose hang-up has not been reported before ...   *)
LEMMA CloseWait ==
    ASSUME Typed, Listed, CloseOnce, [Next]_vars, NEW s \in ready, EpollWait(s),
           event' = EventOf(s)
    PROVE  CloseOnce'
<1>1. SUFFICES ASSUME Once' PROVE (ClosedHungUp /\ Justified /\ Single /\ Reported)'
  BY DEF CloseOnce
<1>2. ClosedHungUp /\ Justified /\ Single /\ Reported
  BY <1>1, OnceStays DEF CloseOnce
<1>3. /\ ready' = ready \ {s} /\ event' = EventOf(s)
      /\ UNCHANGED <<conn, peer, registered, jobs, object, pc, job>>
  BY DEF EpollWait, connVars, setVars, workVars
<1>4. /\ \A a \in Addrs : Queued(a)' <=> Queued(a)
      /\ \A a \in Addrs : Taken(a)' <=> Taken(a)
  BY <1>3 DEF Queued, ClosesAt, Taken, Closing
<1>5. ASSUME NEW a \in Addrs, CloseEvent(a)'
      PROVE  /\ s \in Conns /\ peer[s] # "open" /\ object[a] = s /\ registered[s] = a
             /\ a # None /\ ~Queued(a) /\ ~Taken(a)
  <2>1. s # Listener /\ registered[s] = a
    BY <1>3, <1>5, TcpRelayAssumption DEF CloseEvent, EventOf
  <2>2. s \in Conns \cup Remotes BY <2>1 DEF Typed, TypedEpoll, Sockets
  <2>3. a # None /\ a \notin Remotes BY TcpRelayAssumption
  <2>4. s \in Conns BY <2>1, <2>2, <2>3 DEF Typed, TypedEpoll
  <2>5. peer[s] # "open"
    <3>1. event'.hup BY <1>5 DEF CloseEvent
    <3>2. event'.hup = HungUp(StateOf(s)) BY <1>3, <2>1 DEF EventOf
    <3>3. QED BY <2>4, <3>1, <3>2 DEF HungUp, StateOf
  <2>6. object[a] = s BY <2>1, <2>3, <2>4 DEF Listed, RegisteredIsListed
  <2>7. ~Owing(a) BY <1>2, <2>4, <2>5, <2>6 DEF Reported
  <2>8. QED BY <2>1, <2>3, <2>4, <2>5, <2>6, <2>7 DEF Owing
<1>6. None \notin Conns BY TcpRelayAssumption
<1>7. ClosedHungUp' BY <1>2, <1>3 DEF ClosedHungUp
<1>8. Justified'
  <2>1. ASSUME NEW a \in Addrs, Owing(a)'
        PROVE  object'[a] # None /\ peer'[object'[a]] # "open"
    BY <1>2, <1>3, <1>4, <1>5, <1>6, <2>1 DEF Justified, Owing
  <2>2. ASSUME NEW a \in Addrs,
               \/ CloseEvent(a)' \/ Queued(a)'
               \/ \E w \in Workers : Closing(w, a)' /\ pc'[w] = "close"
        PROVE  registered'[object'[a]] = a
    BY <1>2, <1>3, <1>4, <1>5, <2>2 DEF Justified, Closing
  <2>3. QED BY <2>1, <2>2 DEF Justified
<1>9. Single' BY <1>2, <1>3, <1>4, <1>5 DEF Single, ClosesAt, Closing
<1>10. Reported'
  <2>1. SUFFICES ASSUME NEW c \in Conns, c \in ready', peer[c] # "open",
                        NEW a \in Addrs, object[a] = c, Owing(a)'
                 PROVE  FALSE
    BY <1>3 DEF Reported
  <2>2. ~Owing(a) /\ c # s BY <1>2, <1>3, <2>1 DEF Reported
  <2>3. QED BY <1>4, <1>5, <2>1, <2>2 DEF Owing
<1>11. QED BY <1>7, <1>8, <1>9, <1>10

(* ... it makes one job ...                                                  *)
LEMMA CloseEnd ==
    ASSUME Typed, CloseOnce, [Next]_vars, NEW new, Proper(new), EndEvent(new),
           UNCHANGED <<conn, peer, registered, object, pc, job>>, Nudged \/ UNCHANGED ready
    PROVE  CloseOnce'
<1>1. SUFFICES ASSUME Once' PROVE (ClosedHungUp /\ Justified /\ Single /\ Reported)'
  BY DEF CloseOnce
<1>2. ClosedHungUp /\ Justified /\ Single /\ Reported
  BY <1>1, OnceStays DEF CloseOnce
<1>3. /\ jobs' = jobs \o new /\ event' = NoEvent
      /\ UNCHANGED <<conn, peer, registered, object, pc, job>>
      /\ \A c \in Conns : c \in ready' /\ peer'[c] # "open" => c \in ready \/ peer[c] = "open"
  BY <1>1, NudgedQuiet DEF EndEvent
<1>4. /\ new \in Seq(JobSet) /\ jobs \in Seq(JobSet)
      /\ \A n \in DOMAIN new : new[n].kind = "close" =>
            /\ event.hup /\ new[n].ptr = event.ptr
            /\ \A m \in DOMAIN new : new[m].kind = "close" => m = n
  BY DEF Proper, Typed, TypedLoop
<1>5. /\ Len(jobs) \in Nat /\ Len(new) \in Nat
      /\ DOMAIN jobs = 1 .. Len(jobs) /\ DOMAIN new = 1 .. Len(new)
      /\ DOMAIN jobs' = 1 .. Len(jobs) + Len(new)
      /\ \A n \in 1 .. Len(jobs) : jobs'[n] = jobs[n]
      /\ \A n \in 1 .. Len(new) : jobs'[Len(jobs) + n] = new[n]
  BY <1>3, <1>4, ConcatFacts
<1>6. ASSUME NEW k \in DOMAIN jobs'
      PROVE  \/ k \in DOMAIN jobs /\ jobs'[k] = jobs[k]
             \/ k - Len(jobs) \in DOMAIN new /\ jobs'[k] = new[k - Len(jobs)]
  <2>1. CASE k <= Len(jobs) BY <1>5, <2>1
  <2>2. CASE ~(k <= Len(jobs))
    <3>1. k - Len(jobs) \in 1 .. Len(new) /\ Len(jobs) + (k - Len(jobs)) = k BY <1>5, <2>2
    <3>2. QED BY <1>5, <3>1
  <2>3. QED BY <2>1, <2>2
<1>7. ASSUME NEW a \in Addrs, NEW k \in DOMAIN jobs', ClosesAt(k, a)'
      PROVE  \/ k \in DOMAIN jobs /\ ClosesAt(k, a) /\ Queued(a)
             \/ CloseEvent(a) /\ k - Len(jobs) \in DOMAIN new /\ new[k - Len(jobs)].kind = "close"
  BY <1>4, <1>6, <1>7 DEF ClosesAt, CloseEvent, Queued
<1>8. /\ \A a \in Addrs : ~CloseEvent(a)'
      /\ \A a \in Addrs : Queued(a)' => Queued(a) \/ CloseEvent(a)
      /\ \A a \in Addrs, v \in Workers : Closing(v, a)' <=> Closing(v, a)
      /\ \A a \in Addrs : Taken(a)' <=> Taken(a)
      /\ \A a \in Addrs : Owing(a)' => Owing(a)
  <2>1. \A a \in Addrs : ~CloseEvent(a)' BY <1>3 DEF CloseEvent, NoEvent
  <2>2. \A a \in Addrs : Queued(a)' => Queued(a) \/ CloseEvent(a) BY <1>7 DEF Queued
  <2>3. \A a \in Addrs, v \in Workers : Closing(v, a)' <=> Closing(v, a)
    BY <1>3 DEF Closing
  <2>4. \A a \in Addrs : Taken(a)' <=> Taken(a) BY <2>3 DEF Taken
  <2>5. QED BY <2>1, <2>2, <2>3, <2>4 DEF Owing
<1>9. ClosedHungUp' BY <1>2, <1>3 DEF ClosedHungUp
<1>10. Justified'
  <2>1. \A a \in Addrs : Owing(a)' => object'[a] # None /\ peer'[object'[a]] # "open"
    BY <1>2, <1>3, <1>8 DEF Justified
  <2>2. ASSUME NEW a \in Addrs,
               \/ CloseEvent(a)' \/ Queued(a)'
               \/ \E w \in Workers : Closing(w, a)' /\ pc'[w] = "close"
        PROVE  registered'[object'[a]] = a
    BY <1>2, <1>3, <1>8, <2>2 DEF Justified
  <2>3. QED BY <2>1, <2>2 DEF Justified
<1>11. Single'
  <2>1. ASSUME NEW a \in Addrs, NEW k \in DOMAIN jobs', NEW l \in DOMAIN jobs',
               ClosesAt(k, a)', ClosesAt(l, a)'
        PROVE  k = l
    <3>1. CASE CloseEvent(a)
      <4>1. ~Queued(a) BY <1>2, <3>1 DEF Single
      <4>2. /\ k - Len(jobs) \in DOMAIN new /\ new[k - Len(jobs)].kind = "close"
            /\ l - Len(jobs) \in DOMAIN new /\ new[l - Len(jobs)].kind = "close"
        BY <1>7, <2>1, <4>1
      <4>3. k - Len(jobs) = l - Len(jobs) BY <1>4, <4>2
      <4>4. QED BY <1>5, <4>3
    <3>2. CASE ~CloseEvent(a) BY <1>2, <1>7, <2>1, <3>2 DEF Single
    <3>3. QED BY <3>1, <3>2
  <2>2. \A a \in Addrs : Queued(a)' => ~Taken(a)' BY <1>2, <1>8 DEF Single
  <2>3. \A a \in Addrs : \A v, w \in Workers : Closing(v, a)' /\ Closing(w, a)' => v = w
    BY <1>2, <1>8 DEF Single
  <2>4. QED BY <1>8, <2>1, <2>2, <2>3 DEF Single
<1>12. Reported' BY <1>2, <1>3, <1>8 DEF Reported
<1>13. QED BY <1>9, <1>10, <1>11, <1>12

(* ... which one worker takes ...                                            *)
LEMMA CloseStart ==
    ASSUME Typed, CloseOnce, [Next]_vars, NEW w \in Workers, StartJob(w)
    PROVE  CloseOnce'
<1>1. SUFFICES ASSUME Once' PROVE (ClosedHungUp /\ Justified /\ Single /\ Reported)'
  BY DEF CloseOnce
<1>2. ClosedHungUp /\ Justified /\ Single /\ Reported
  BY <1>1, OnceStays DEF CloseOnce
<1>3. /\ jobs # <<>> /\ jobs' = Tail(jobs) /\ Elsewhere(w) /\ job'[w] = Head(jobs)
      /\ UNCHANGED <<conn, peer, registered, ready, event, object>>
  BY StartWork DEF StartJob, connVars, epollVars, setVars
<1>4. /\ DOMAIN jobs = 1 .. Len(jobs) /\ Len(jobs) \in Nat \ {0}
      /\ Head(jobs) = jobs[1] /\ 1 \in DOMAIN jobs
      /\ DOMAIN jobs' = 1 .. Len(jobs) - 1
      /\ \A n \in 1 .. Len(jobs) - 1 : jobs'[n] = jobs[n + 1]
  BY <1>3, PopFacts DEF Typed, TypedLoop
<1>5. ASSUME NEW a \in Addrs, NEW k \in DOMAIN jobs', ClosesAt(k, a)'
      PROVE  k + 1 \in DOMAIN jobs /\ ClosesAt(k + 1, a) /\ k + 1 # 1 /\ k \in Int
  BY <1>4, <1>5 DEF ClosesAt
<1>6. ASSUME NEW a \in Addrs, Closing(w, a)' PROVE ClosesAt(1, a) /\ Queued(a)
  BY <1>3, <1>4, <1>6 DEF Closing, ClosesAt, Queued
<1>7. \A a \in Addrs : \A v \in Workers \ {w} : Closing(v, a)' <=> Closing(v, a)
  BY <1>3 DEF Closing, Elsewhere
<1>8. /\ \A a \in Addrs : CloseEvent(a)' <=> CloseEvent(a)
      /\ \A a \in Addrs : Queued(a)' => Queued(a)
      /\ \A a \in Addrs : Taken(a)' => Taken(a) \/ Queued(a)
      /\ \A a \in Addrs : Owing(a)' => Owing(a)
  <2>1. \A a \in Addrs : CloseEvent(a)' <=> CloseEvent(a) BY <1>3 DEF CloseEvent
  <2>2. \A a \in Addrs : Queued(a)' => Queued(a) BY <1>5 DEF Queued
  <2>3. \A a \in Addrs : Taken(a)' => Taken(a) \/ Queued(a) BY <1>6, <1>7 DEF Taken
  <2>4. QED BY <2>1, <2>2, <2>3 DEF Owing
<1>9. ClosedHungUp' BY <1>2, <1>3 DEF ClosedHungUp
<1>10. Justified'
  <2>1. \A a \in Addrs : Owing(a)' => object'[a] # None /\ peer'[object'[a]] # "open"
    BY <1>2, <1>3, <1>8 DEF Justified
  <2>2. ASSUME NEW a \in Addrs, NEW v \in Workers, Closing(v, a)', pc'[v] = "close"
        PROVE  Queued(a) \/ (Closing(v, a) /\ pc[v] = "close")
    BY <1>3, <1>6, <1>7, <2>2 DEF Elsewhere
  <2>3. ASSUME NEW a \in Addrs,
               \/ CloseEvent(a)' \/ Queued(a)'
               \/ \E v \in Workers : Closing(v, a)' /\ pc'[v] = "close"
        PROVE  registered'[object'[a]] = a
    BY <1>2, <1>3, <1>8, <2>2, <2>3 DEF Justified
  <2>4. QED BY <2>1, <2>3 DEF Justified
<1>11. Single'
  <2>1. ASSUME NEW a \in Addrs, NEW k \in DOMAIN jobs', NEW l \in DOMAIN jobs',
               ClosesAt(k, a)', ClosesAt(l, a)'
        PROVE  k = l
    <3>1. k + 1 = l + 1 /\ k \in Int /\ l \in Int BY <1>2, <1>5, <2>1 DEF Single
    <3>2. QED BY <3>1
  <2>2. ASSUME NEW a \in Addrs, Closing(w, a)'
        PROVE  /\ ~CloseEvent(a)' /\ ~Queued(a)'
               /\ \A v \in Workers : Closing(v, a)' => v = w
    <3>1. ClosesAt(1, a) /\ Queued(a) BY <1>6, <2>2
    <3>2. ~CloseEvent(a) /\ ~Taken(a) BY <1>2, <3>1 DEF Single
    <3>3. ~Queued(a)'
      <4>1. ASSUME NEW k \in DOMAIN jobs', ClosesAt(k, a)' PROVE FALSE
        BY <1>2, <1>4, <1>5, <3>1, <4>1 DEF Single
      <4>2. QED BY <4>1 DEF Queued
    <3>4. QED BY <1>7, <1>8, <3>2, <3>3 DEF Taken
  <2>3. ASSUME NEW a \in Addrs, ~Closing(w, a)'
        PROVE  /\ Taken(a)' => Taken(a)
               /\ \A u, v \in Workers : Closing(u, a)' /\ Closing(v, a)' => u = v
    BY <1>2, <1>7, <2>3 DEF Single, Taken
  <2>4. ASSUME NEW a \in Addrs
        PROVE  /\ CloseEvent(a)' => ~Queued(a)' /\ ~Taken(a)'
               /\ Queued(a)' => ~Taken(a)'
               /\ \A u, v \in Workers : Closing(u, a)' /\ Closing(v, a)' => u = v
    <3>1. CASE Closing(w, a)' BY <2>2, <3>1
    <3>2. CASE ~Closing(w, a)' BY <1>2, <1>8, <2>3, <3>2 DEF Single
    <3>3. QED BY <3>1, <3>2
  <2>5. QED BY <2>1, <2>4 DEF Single
<1>12. Reported' BY <1>2, <1>3, <1>8 DEF Reported
<1>13. QED BY <1>9, <1>10, <1>11, <1>12

(* ... if the TcpServer is older than the hang-up that was reported ...      *)
LEMMA CloseAccept ==
    ASSUME Typed, Listed, CloseOnce, [Next]_vars, NEW w \in Workers, Accept(w)
    PROVE  CloseOnce'
<1> DEFINE a == job'[w].ptr
<1>1. SUFFICES ASSUME Once' PROVE (ClosedHungUp /\ Justified /\ Single /\ Reported)'
  BY DEF CloseOnce
<1>2. ClosedHungUp /\ Justified /\ Single /\ Reported
  BY <1>1, OnceStays DEF CloseOnce
<1>3. /\ Elsewhere(w) /\ pc[w] = "accept" /\ pc'[w] = "insert" /\ job'[w].kind = "accept"
      /\ a \in Addrs /\ object[a] = None /\ Head(backlog) \in Conns
      /\ object' = [object EXCEPT ![a] = Head(backlog)]
      /\ conn' = [conn EXCEPT ![Head(backlog)] = "served"]
      /\ UNCHANGED <<peer, registered, ready, event, jobs>>
  BY AcceptWork DEF Accept, AcceptThen, epollVars, loopVars
<1> HIDE DEF a
<1>4. \A b \in Addrs : object'[b] = IF b = a THEN Head(backlog) ELSE object[b]
  BY <1>3 DEF Typed, TypedSets
<1>5. \A b \in Addrs, v \in Workers : Closing(v, b)' => Closing(v, b) /\ pc'[v] = pc[v]
  BY <1>3 DEF Closing, Elsewhere
<1>6. /\ \A b \in Addrs : CloseEvent(b)' <=> CloseEvent(b)
      /\ \A b \in Addrs : Queued(b)' <=> Queued(b)
      /\ \A b \in Addrs : Taken(b)' => Taken(b)
      /\ \A b \in Addrs : Owing(b)' => Owing(b)
  <2>1. \A b \in Addrs : CloseEvent(b)' <=> CloseEvent(b) BY <1>3 DEF CloseEvent
  <2>2. \A b \in Addrs : Queued(b)' <=> Queued(b) BY <1>3 DEF Queued, ClosesAt
  <2>3. \A b \in Addrs : Taken(b)' => Taken(b) BY <1>5 DEF Taken
  <2>4. QED BY <2>1, <2>2, <2>3 DEF Owing
<1>7. \A b \in Addrs : Owing(b) => b # a BY <1>2, <1>3 DEF Justified
<1>8. ClosedHungUp' BY <1>2, <1>3 DEF ClosedHungUp, Typed, TypedConns
<1>9. Justified'
  <2>1. \A b \in Addrs : Owing(b)' => object'[b] # None /\ peer'[object'[b]] # "open"
    BY <1>2, <1>3, <1>4, <1>6, <1>7 DEF Justified
  <2>2. ASSUME NEW b \in Addrs,
               \/ CloseEvent(b)' \/ Queued(b)'
               \/ \E v \in Workers : Closing(v, b)' /\ pc'[v] = "close"
        PROVE  registered'[object'[b]] = b
    <3>1. CloseEvent(b) \/ Queued(b) \/ \E v \in Workers : Closing(v, b) /\ pc[v] = "close"
      BY <1>5, <1>6, <2>2
    <3>2. b # a BY <1>7, <3>1 DEF Owing, Taken
    <3>3. QED BY <1>2, <1>3, <1>4, <3>1, <3>2 DEF Justified
  <2>3. QED BY <2>1, <2>2 DEF Justified
<1>10. Single'
  <2>1. \A b \in Addrs : \A k, l \in DOMAIN jobs' : ClosesAt(k, b)' /\ ClosesAt(l, b)' => k = l
    BY <1>2, <1>3 DEF Single, ClosesAt
  <2>2. QED BY <1>2, <1>5, <1>6, <2>1 DEF Single
<1>11. Reported' BY <1>2, <1>3, <1>4, <1>6, <1>7 DEF Reported
<1>12. QED BY <1>8, <1>9, <1>10, <1>11

(* What is owed for a TcpServer that is not registered is being done.        *)
LEMMA OwedByErase ==
    ASSUME Typed, Justified, NEW a \in Addrs, registered[object[a]] = None, Owing(a)
    PROVE  \E w \in Workers : Closing(w, a) /\ pc[w] = "erase"
<1>1. a # None BY TcpRelayAssumption
<1>2. PICK w \in Workers : Closing(w, a) BY <1>1 DEF Owing, Taken, Justified
<1>3. pc[w] # "close" BY <1>1, <1>2 DEF Justified
<1>4. pc[w] \in {"close", "erase"}
  BY <1>2 DEF Closing, Typed, TypedWork, LocalsFit, TakenBy
<1>5. QED BY <1>2, <1>3, <1>4

(* ... none for one that is yet to be registered ...                         *)
LEMMA CloseAdd ==
    ASSUME Typed, Listed, CloseOnce, [Next]_vars, NEW w \in Workers, AddServer(w)
    PROVE  CloseOnce'
<1> DEFINE a == job[w].ptr
           c == object[a]
<1>1. SUFFICES ASSUME Once' PROVE (ClosedHungUp /\ Justified /\ Single /\ Reported)'
  BY DEF CloseOnce
<1>2. ClosedHungUp /\ Justified /\ Single /\ Reported
  BY <1>1, OnceStays DEF CloseOnce
<1>3. /\ pc[w] = "add" /\ registered' = [registered EXCEPT ![c] = a]
      /\ ready' = ready \/ ready' = ready \cup {c}
      /\ UNCHANGED <<conn, peer, event, jobs, object>>
      /\ Elsewhere(w) /\ job'[w] = NoJob
  <2>1. Elsewhere(w) /\ job'[w] = NoJob BY ReturnWork DEF AddServer, Typed
  <2>2. QED BY <2>1 DEF AddServer, At, connVars, setVars, loopVars
<1>4. a \in Addrs /\ c # None /\ registered[c] = None
  BY <1>3, JobAt DEF Listed, Handled, Busy, Typed
<1>5. /\ c \in Conns
      /\ \A d \in Conns : registered'[d] = IF d = c THEN a ELSE registered[d]
      /\ \A b \in Addrs : b # a /\ object[b] # None => object[b] # c /\ object[b] \in Conns
  BY <1>3, <1>4 DEF Typed, TypedSets, TypedEpoll, Listed, Accepted, Sockets
<1>6. ~Owing(a)
  <2>1. SUFFICES ASSUME Owing(a) PROVE FALSE OBVIOUS
  <2>2. PICK v \in Workers : Closing(v, a) /\ pc[v] = "erase"
    BY <1>2, <1>4, <2>1, OwedByErase
  <2>3. v # w /\ job[v].ptr = a BY <1>3, <2>2 DEF Closing
  <2>4. QED BY <1>3, <2>2, <2>3 DEF Listed, Handled, Busy
<1>7. /\ \A b \in Addrs, v \in Workers : Closing(v, b)' => Closing(v, b) /\ pc'[v] = pc[v]
      /\ \A b \in Addrs : CloseEvent(b)' <=> CloseEvent(b)
      /\ \A b \in Addrs : Queued(b)' <=> Queued(b)
  BY <1>3 DEF Closing, Elsewhere, NoJob, CloseEvent, Queued, ClosesAt
<1>8. \A b \in Addrs : /\ Taken(b)' => Taken(b)
                       /\ Owing(b)' => Owing(b)
  BY <1>7 DEF Owing, Taken
<1> HIDE DEF a, c
<1>9. ClosedHungUp' BY <1>2, <1>3 DEF ClosedHungUp
<1>10. Justified'
  <2>1. \A b \in Addrs : Owing(b)' => object'[b] # None /\ peer'[object'[b]] # "open"
    BY <1>2, <1>3, <1>8 DEF Justified
  <2>2. ASSUME NEW b \in Addrs,
               \/ CloseEvent(b)' \/ Queued(b)'
               \/ \E v \in Workers : Closing(v, b)' /\ pc'[v] = "close"
        PROVE  registered'[object'[b]] = b
    <3>1. CloseEvent(b) \/ Queued(b) \/ \E v \in Workers : Closing(v, b) /\ pc[v] = "close"
      BY <1>7, <2>2
    <3>2. Owing(b) BY <3>1 DEF Owing, Taken
    <3>3. b # a /\ object[b] # None /\ registered[object[b]] = b
      BY <1>2, <1>6, <3>1, <3>2 DEF Justified
    <3>4. QED BY <1>3, <1>5, <3>3
  <2>3. QED BY <2>1, <2>2 DEF Justified
<1>11. Single'
  <2>1. \A b \in Addrs : \A k, l \in DOMAIN jobs' : ClosesAt(k, b)' /\ ClosesAt(l, b)' => k = l
    BY <1>2, <1>3 DEF Single, ClosesAt
  <2>2. QED BY <1>2, <1>7, <1>8, <2>1 DEF Single
<1>12. Reported'
  <2>1. SUFFICES ASSUME NEW d \in Conns, d \in ready', peer[d] # "open",
                        NEW b \in Addrs, object[b] = d, Owing(b)
                 PROVE  FALSE
    BY <1>3, <1>8 DEF Reported
  <2>2. b # a BY <1>6, <2>1
  <2>3. d # c BY <1>2, <1>5, <2>1, <2>2 DEF Justified
  <2>4. QED BY <1>2, <1>3, <2>1, <2>3 DEF Reported
<1>13. QED BY <1>9, <1>10, <1>11, <1>12

(* What is left to do for the TcpServer a worker is closing, is its.         *)
LEMMA ClosingAlone ==
    ASSUME Single, NEW a \in Addrs, NEW w \in Workers, Closing(w, a)
    PROVE  ~CloseEvent(a) /\ ~Queued(a) /\ \A v \in Workers \ {w} : ~Closing(v, a)
BY DEF Single, Taken

(* ... which unregisters it ...                                              *)
LEMMA CloseUnregister ==
    ASSUME Typed, Listed, CloseOnce, [Next]_vars, NEW w \in Workers, CloseServer(w)
    PROVE  CloseOnce'
<1> DEFINE a == job[w].ptr
           c == object[a]
<1>1. SUFFICES ASSUME Once' PROVE (ClosedHungUp /\ Justified /\ Single /\ Reported)'
  BY DEF CloseOnce
<1>2. ClosedHungUp /\ Justified /\ Single /\ Reported
  BY <1>1, OnceStays DEF CloseOnce
<1>3. /\ pc[w] = "close" /\ registered' = [registered EXCEPT ![c] = None] /\ c # None
      /\ ready' = ready \ {c}
      /\ UNCHANGED <<conn, peer, event, jobs, object, job>>
      /\ Elsewhere(w) /\ pc'[w] = "erase"
  BY DEF CloseServer, At, Goto, connVars, loopVars, setVars, Elsewhere, Typed, TypedWork
<1>4. a \in Addrs /\ Closing(w, a) BY <1>3, JobAt DEF Typed, Closing
<1>5. /\ c \in Conns
      /\ \A d \in Conns : registered'[d] = IF d = c THEN None ELSE registered[d]
      /\ \A b \in Addrs : b # a /\ object[b] # None => object[b] # c /\ object[b] \in Conns
  BY <1>3, <1>4 DEF Typed, TypedSets, TypedEpoll, Listed, Accepted, Sockets
<1>6. ~CloseEvent(a) /\ ~Queued(a) /\ \A v \in Workers \ {w} : ~Closing(v, a)
  BY <1>2, <1>4, ClosingAlone
<1>7. /\ \A b \in Addrs, v \in Workers : Closing(v, b)' <=> Closing(v, b)
      /\ \A b \in Addrs : CloseEvent(b)' <=> CloseEvent(b)
      /\ \A b \in Addrs : Queued(b)' <=> Queued(b)
  BY <1>3 DEF Closing, CloseEvent, Queued, ClosesAt
<1>8. \A b \in Addrs : (Taken(b)' <=> Taken(b)) /\ (Owing(b)' <=> Owing(b))
  BY <1>7 DEF Owing, Taken
<1> HIDE DEF a, c
<1>9. ClosedHungUp' BY <1>2, <1>3 DEF ClosedHungUp
<1>10. Justified'
  <2>1. \A b \in Addrs : Owing(b)' => object'[b] # None /\ peer'[object'[b]] # "open"
    BY <1>2, <1>3, <1>8 DEF Justified
  <2>2. ASSUME NEW b \in Addrs,
               \/ CloseEvent(b)' \/ Queued(b)'
               \/ \E v \in Workers : Closing(v, b)' /\ pc'[v] = "close"
        PROVE  registered'[object'[b]] = b
    <3>1. CloseEvent(b) \/ Queued(b) \/ \E v \in Workers \ {w} : Closing(v, b) /\ pc[v] = "close"
      BY <1>3, <1>7, <2>2 DEF Elsewhere
    <3>2. Owing(b) /\ b # a BY <1>6, <3>1 DEF Owing, Taken
    <3>3. object[b] # None /\ registered[object[b]] = b
      BY <1>2, <3>1, <3>2 DEF Justified
    <3>4. QED BY <1>3, <1>5, <3>2, <3>3
  <2>3. QED BY <2>1, <2>2 DEF Justified
<1>11. Single'
  <2>1. \A b \in Addrs : \A k, l \in DOMAIN jobs' : ClosesAt(k, b)' /\ ClosesAt(l, b)' => k = l
    BY <1>2, <1>3 DEF Single, ClosesAt
  <2>2. QED BY <1>2, <1>7, <1>8, <2>1 DEF Single
<1>12. Reported' BY <1>2, <1>3, <1>8 DEF Reported
<1>13. QED BY <1>9, <1>10, <1>11, <1>12

(* ... and deletes it: then nothing will close the next one at its address.  *)
LEMMA CloseErase ==
    ASSUME Typed, Listed, CloseOnce, [Next]_vars, NEW w \in Workers, EraseServer(w)
    PROVE  CloseOnce'
<1> DEFINE c == object[job[w].ptr]
<1>1. SUFFICES ASSUME Once' PROVE (ClosedHungUp /\ Justified /\ Single /\ Reported)'
  BY DEF CloseOnce
<1>2. ClosedHungUp /\ Justified /\ Single /\ Reported
  BY <1>1, OnceStays DEF CloseOnce
<1>3. /\ pc[w] = "erase"
      /\ object' = [object EXCEPT ![job[w].ptr] = None] /\ conn' = [conn EXCEPT ![c] = "closed"]
      /\ UNCHANGED <<peer, registered, ready, event, jobs>>
      /\ Elsewhere(w) /\ job'[w] = NoJob
  BY ReturnWork DEF EraseServer, At, epollVars, loopVars, Typed
<1>4. PICK a \in Addrs : a = job[w].ptr /\ Closing(w, a) /\ c = object[a]
  BY <1>3, JobAt DEF Typed, Closing
<1>5. c # None /\ peer[c] # "open" BY <1>2, <1>4 DEF Justified, Owing, Taken
<1>6. ~CloseEvent(a) /\ ~Queued(a) /\ \A v \in Workers \ {w} : ~Closing(v, a)
  BY <1>2, <1>4, ClosingAlone
<1>7. /\ \A b \in Addrs : object'[b] = IF b = a THEN None ELSE object[b]
      /\ \A d \in Conns : conn'[d] = IF d = c THEN "closed" ELSE conn[d]
      /\ None \notin Conns
  BY <1>3, <1>4, TcpRelayAssumption DEF Typed, TypedSets, TypedConns
<1>8. /\ \A b \in Addrs, v \in Workers : Closing(v, b)' => v # w /\ Closing(v, b) /\ pc'[v] = pc[v]
      /\ \A b \in Addrs : CloseEvent(b)' <=> CloseEvent(b)
      /\ \A b \in Addrs : Queued(b)' <=> Queued(b)
  BY <1>3 DEF Closing, Elsewhere, NoJob, CloseEvent, Queued, ClosesAt
<1>9. /\ \A b \in Addrs : /\ Taken(b)' => Taken(b)
                          /\ Owing(b)' => Owing(b)
      /\ ~Owing(a)'
  <2>1. \A b \in Addrs : Taken(b)' => Taken(b) BY <1>8 DEF Taken
  <2>2. ~Taken(a)' BY <1>4, <1>6, <1>8 DEF Taken
  <2>3. ~CloseEvent(a)' /\ ~Queued(a)' BY <1>4, <1>6, <1>8
  <2>4. QED BY <1>8, <2>1, <2>2, <2>3 DEF Owing
<1> HIDE DEF c
<1>10. ClosedHungUp' BY <1>2, <1>3, <1>5, <1>7 DEF ClosedHungUp
<1>11. Justified'
  <2>1. \A b \in Addrs : Owing(b)' => object'[b] # None /\ peer'[object'[b]] # "open"
    BY <1>2, <1>3, <1>7, <1>9 DEF Justified
  <2>2. ASSUME NEW b \in Addrs,
               \/ CloseEvent(b)' \/ Queued(b)'
               \/ \E v \in Workers : Closing(v, b)' /\ pc'[v] = "close"
        PROVE  registered'[object'[b]] = b
    <3>1. CloseEvent(b) \/ Queued(b) \/ \E v \in Workers : Closing(v, b) /\ pc[v] = "close"
      BY <1>8, <2>2
    <3>2. Owing(b)' BY <2>2 DEF Owing, Taken
    <3>3. b # a BY <1>9, <3>2
    <3>4. QED BY <1>2, <1>3, <1>7, <3>1, <3>3 DEF Justified
  <2>3. QED BY <2>1, <2>2 DEF Justified
<1>12. Single'
  <2>1. \A b \in Addrs : \A k, l \in DOMAIN jobs' : ClosesAt(k, b)' /\ ClosesAt(l, b)' => k = l
    BY <1>2, <1>3 DEF Single, ClosesAt
  <2>2. QED BY <1>2, <1>8, <1>9, <2>1 DEF Single
<1>13. Reported' BY <1>2, <1>3, <1>7, <1>9 DEF Reported
<1>14. QED BY <1>10, <1>11, <1>12, <1>13

(* The other steps do not count here. *)
LEMMA QuietElse ==
    ASSUME Typed, Once', Environment \/ FindRaces \/ RunFails \/ UNCHANGED vars
    PROVE  Quiet
<1> USE DEF connVars, epollVars, loopVars, setVars, workVars, Quiet, ClosesAt
<1>1. Listener \notin Conns /\ Conns \cap Remotes = {} BY TcpRelayAssumption
<1>2. ASSUME NEW c \in Conns, Connect(c) PROVE Quiet
  <2>1. /\ conn' = [conn EXCEPT ![c] = "waiting"] /\ ready' = ready \cup {Listener}
        /\ UNCHANGED <<object, registered, event, jobs, peer, pc, job>>
    BY <1>2 DEF Connect
  <2>2. QED BY <1>1, <2>1 DEF Typed, TypedConns
<1>3. ASSUME NEW q \in Queries, ClientSends(q) PROVE Quiet
  <2>1. /\ peer[ConnOf[q]] = "open" /\ ready' \in {ready, ready \cup {ConnOf[q]}}
        /\ UNCHANGED <<conn, object, registered, event, jobs, peer, pc, job>>
    BY <1>3 DEF ClientSends, Edge
  <2>2. QED BY <2>1
<1>4. ASSUME NEW c \in Conns, ClientHangsUp(c) PROVE Quiet
  <2>1. PICK how \in {"fin", "rst"} \ {peer[c]} : peer' = [peer EXCEPT ![c] = how]
    BY <1>4 DEF ClientHangsUp
  <2>2. how = "fin" BY <1>4, <2>1 DEF Once, NoReset, Typed, TypedConns
  <2>3. peer[c] = "open"
    BY <1>4, <2>1, <2>2 DEF ClientHangsUp, Typed, TypedConns
  <2>4. /\ ready' \in {ready, ready \cup {c}}
        /\ UNCHANGED <<conn, object, registered, event, jobs, pc, job>>
    BY <1>4 DEF ClientHangsUp, Edge
  <2>5. QED BY <2>1, <2>3, <2>4 DEF Typed, TypedConns
<1>5. ASSUME NEW r, r \in Remotes, ready' \in {ready, ready \cup {r}},
             UNCHANGED <<conn, peer, object, registered, event, jobs, pc, job>>
      PROVE  Quiet
  BY <1>1, <1>5
<1>6. ASSUME NEW m \in wire, NameserverAnswers(m) PROVE Quiet
  <2>1. m.remote \in Remotes BY DEF Typed, TypedLinks, Forwarded
  <2>2. QED BY <1>5, <1>6, <2>1 DEF NameserverAnswers, Edge
<1>7. ASSUME NEW r \in Remotes, NameserverHangsUp(r) PROVE Quiet
  BY <1>5, <1>7 DEF NameserverHangsUp, Edge
<1>8. CASE Alarm
  <2>1. jobs \in Seq(JobSet) /\ Timeout \in JobSet
    BY DEF Typed, TypedLoop, Timeout, JobSet
  <2>2. jobs' = Append(jobs, Timeout) BY <1>8 DEF Alarm
  <2>3. \A k \in DOMAIN jobs' : jobs'[k].kind = "close" => k \in DOMAIN jobs /\ jobs'[k] = jobs[k]
    BY <2>1, <2>2, PushFacts DEF Timeout
  <2>4. QED BY <1>8, <2>3 DEF Alarm
<1>9. ASSUME NEW s \in Sockets, Fill(s) \/ Drain(s) PROVE Quiet
  <2>1. Nudged /\ UNCHANGED <<conn, peer, object, registered, event, jobs, pc, job>>
    BY <1>9 DEF Fill, Drain, Nudged
  <2>2. QED BY <2>1, NudgedQuiet
<1>10. CASE DeadlinePasses \/ FindRaces \/ RunFails \/ UNCHANGED vars
  BY <1>10 DEF DeadlinePasses, FindRaces, RunFails, Fault, vars
<1>11. QED BY <1>2, <1>3, <1>4, <1>6, <1>7, <1>8, <1>9, <1>10 DEF Environment

(* Run, between an event and its jobs. *)
LEMMA QuietRun ==
    ASSUME Typed, NEW new, Closeless(new), new \in Seq(JobSet), jobs' = jobs \o new,
           UNCHANGED <<conn, peer, object, registered, ready, event, pc, job>>
    PROVE  Quiet
<1>1. jobs \in Seq(JobSet) BY DEF Typed, TypedLoop
<1>2. /\ Len(jobs) \in Nat /\ Len(new) \in Nat
      /\ DOMAIN jobs = 1 .. Len(jobs) /\ DOMAIN new = 1 .. Len(new)
      /\ DOMAIN jobs' = 1 .. Len(jobs) + Len(new)
      /\ \A n \in 1 .. Len(jobs) : jobs'[n] = jobs[n]
      /\ \A n \in 1 .. Len(new) : jobs'[Len(jobs) + n] = new[n]
  BY <1>1, ConcatFacts
<1>3. ASSUME NEW k \in DOMAIN jobs', jobs'[k].kind = "close"
      PROVE  k \in DOMAIN jobs /\ jobs'[k] = jobs[k]
  <2>1. CASE k <= Len(jobs) BY <1>2, <2>1
  <2>2. CASE ~(k <= Len(jobs))
    <3>1. k - Len(jobs) \in 1 .. Len(new) /\ Len(jobs) + (k - Len(jobs)) = k BY <1>2, <2>2
    <3>2. jobs'[k] = new[k - Len(jobs)] BY <1>2, <3>1
    <3>3. QED BY <1>2, <1>3, <3>1, <3>2 DEF Closeless
  <2>3. QED BY <2>1, <2>2
<1>4. QED BY <1>3 DEF Quiet, ClosesAt

LEMMA CloseRun ==
    ASSUME Typed, Listed, CloseOnce, [Next]_vars, Once',
           (\E s \in ready : EpollWait(s)) \/ FindSocket \/ Flush \/ ModifySocket
    PROVE  CloseOnce'
<1> USE DEF connVars, epollVars, setVars, workVars
<1>1. TypedLoop BY DEF Typed
<1>2. event.ptr \in servers \cup clients => event.ptr \in Addrs \cup Remotes
  BY DEF Typed, TypedSets
<1>3. ASSUME NEW s \in ready, EpollWait(s) PROVE CloseOnce'
  <2>1. CASE event' = EventOf(s) BY <1>3, <2>1, CloseWait
  <2>2. CASE UNCHANGED event
    <3>1. Quiet BY <1>3, <2>2 DEF EpollWait, Quiet, ClosesAt
    <3>2. QED BY <3>1, QuietStep
  <2>3. QED BY <1>3, <2>1, <2>2 DEF EpollWait
<1>4. CASE FindSocket
  <2>1. UNCHANGED <<conn, peer, registered, ready, object, pc, job>> BY <1>4 DEF FindSocket
  <2>2. ASSUME NEW new, Proper(new), EndEvent(new) PROVE CloseOnce' BY <2>1, <2>2, CloseEnd
  <2>3. CASE EndEvent(AcceptJob) \/ EndEvent(<<>>) BY <1>1, <2>2, <2>3, ProperJobs
  <2>4. CASE event.ptr \in servers \cup clients /\ EndEvent(ReceiveJob(event) \o CloseJob(event))
    <3>1. Proper(ReceiveJob(event) \o CloseJob(event)) BY <1>1, <1>2, <2>4, ProperJobs
    <3>2. QED BY <2>2, <2>4, <3>1
  <2>5. CASE /\ event.ptr \in servers \cup clients
             /\ jobs' = jobs \o ReceiveJob(event) /\ UNCHANGED event
    <3>1. Closeless(ReceiveJob(event)) /\ Proper(ReceiveJob(event))
      BY <1>1, <1>2, <2>5, ProperJobs
    <3>2. ReceiveJob(event) \in Seq(JobSet) BY <3>1 DEF Proper
    <3>3. QED BY <2>1, <2>5, <3>1, <3>2, QuietRun, QuietStep
  <2>6. QED BY <1>4, <2>3, <2>4, <2>5 DEF FindSocket
<1>5. CASE Flush
  <2>1. UNCHANGED <<conn, peer, registered, ready, object, pc, job>> BY <1>5 DEF Flush
  <2>2. event.ptr \in Addrs \cup Remotes BY <1>5, SocketTypes DEF Flush
  <2>3. CASE EndEvent(CloseJob(event))
    <3>1. Proper(CloseJob(event)) BY <1>1, <2>2, ProperJobs
    <3>2. QED BY <2>1, <2>3, <3>1, CloseEnd
  <2>4. CASE UNCHANGED <<event, jobs>>
    <3>1. Quiet BY <2>1, <2>4 DEF Quiet, ClosesAt
    <3>2. QED BY <3>1, QuietStep
  <2>5. QED BY <1>5, <2>3, <2>4 DEF Flush
<1>6. CASE ModifySocket
  <2>1. Socket \in Sockets /\ event.ptr \in Addrs \cup Remotes
    BY <1>6, SocketTypes DEF ModifySocket
  <2>2. Nudged /\ UNCHANGED <<conn, peer, registered, object, pc, job>>
    BY <1>6, <2>1 DEF ModifySocket, Modify, Nudged
  <2>3. Proper(CloseJob(event)) BY <1>1, <2>1, ProperJobs
  <2>4. QED BY <1>6, <2>2, <2>3, CloseEnd DEF ModifySocket
<1>7. QED BY <1>3, <1>4, <1>5, <1>6

LEMMA QuietWork ==
    ASSUME Typed, Listed, Given, Once', NEW w \in Workers, WorkerStep(w)
    PROVE  \/ StartJob(w) \/ Accept(w) \/ AddServer(w) \/ CloseServer(w) \/ EraseServer(w)
           \/ Quiet
<1> USE DEF connVars, epollVars, loopVars, setVars, workVars, Quiet, ClosesAt
<1>1. ASSUME Elsewhere(w), pc'[w] # "close", job'[w] \in {job[w], NoJob}
      PROVE  \A v \in Workers : /\ job'[v].kind = "close" => job'[v] = job[v]
                                /\ pc'[v] = "close" => pc[v] = "close"
  BY <1>1 DEF Elsewhere, NoJob
<1>2. CASE \/ UsesDangling(w) \/ HandlerDone(w)
           \/ ReceiveQueries(w) \/ ForwardQuery(w) \/ PoolExhausted(w)
           \/ RelayQuery(w) \/ WatchClient(w)
           \/ ReceiveAnswers(w) \/ MatchAnswer(w) \/ PopTimer(w)
           \/ SendReply(w) \/ WatchServer(w) \/ SendThrows(w) \/ SendKills(w)
           \/ CloseThrows(w) \/ InsertRaces(w)
  <2>1. /\ UNCHANGED <<conn, peer, registered, event, jobs, object>> /\ Nudged
        /\ \/ UNCHANGED workVars
           \/ Elsewhere(w) /\ pc'[w] \in Aside /\ job'[w] \in {job[w], NoJob}
    BY <1>2, PlainSteps
  <2>2. "close" \notin Aside BY DEF Aside, Forwarding, Answering
  <2>3. QED BY <1>1, <2>1, <2>2, NudgedQuiet
<1>3. CASE InsertServer(w)
  <2>1. Elsewhere(w) /\ pc'[w] = "add" /\ job' = job
    BY <1>3 DEF InsertServer, Goto, Elsewhere, Typed, TypedWork
  <2>2. UNCHANGED <<conn, peer, registered, ready, event, jobs, object>>
    BY <1>3 DEF InsertServer
  <2>3. QED BY <1>1, <2>1, <2>2
<1>4. CASE CloseClient(w) \/ RestartClient(w) \/ InsertClient(w) \/ AddClient(w)
  <2>1. pc[w] \in {"restart"} \cup Restarting
    BY <1>4 DEF CloseClient, RestartClient, InsertClient, AddClient, At, Restarting
  <2>2. job[w].ptr \in Remotes /\ job[w].ptr \notin Conns
    BY <2>1, JobAt, TcpRelayAssumption DEF Typed
  <2>3. Elsewhere(w) /\ pc'[w] \in {"idle", "unlink", "relink", "readd"}
        /\ job'[w] \in {job[w], NoJob}
    BY <1>4, ReturnWork DEF CloseClient, RestartClient, InsertClient, AddClient, Goto, Elsewhere,
       Typed, TypedWork
  <2>4. /\ UNCHANGED <<conn, peer, event, jobs, object>>
        /\ ready' \subseteq ready
        /\ \E p : registered' \in {registered, [registered EXCEPT ![job[w].ptr] = p]}
    BY <1>4 DEF CloseClient, RestartClient, InsertClient, AddClient
  <2>5. \A c \in Conns : registered'[c] = registered[c]
    BY <2>2, <2>4 DEF Typed, TypedEpoll, Sockets
  <2>6. QED BY <1>1, <2>3, <2>4, <2>5
<1>5. QED BY <1>2, <1>3, <1>4 DEF WorkerStep

LEMMA CloseStep == Typed /\ Listed /\ Given /\ CloseOnce /\ [Next]_vars => CloseOnce'
<1>1. SUFFICES ASSUME Typed, Listed, Given, CloseOnce, [Next]_vars, Once' PROVE CloseOnce'
  BY DEF CloseOnce
<1>2. ASSUME NEW w \in Workers, WorkerStep(w) PROVE CloseOnce'
  BY <1>1, <1>2, QuietWork, QuietStep, CloseStart, CloseAccept, CloseAdd, CloseUnregister,
     CloseErase
<1>3. CASE Environment \/ FindRaces \/ RunFails \/ UNCHANGED vars
  BY <1>1, <1>3, QuietElse, QuietStep
<1>4. CASE MainStep BY <1>1, <1>3, <1>4, CloseRun DEF MainStep
<1>5. QED BY <1>1, <1>2, <1>3, <1>4 DEF Next

-----------------------------------------------------------------------------
LEMMA InductionInit == Init => IInv
<1>1. SUFFICES ASSUME Init PROVE IInv OBVIOUS
<1> USE <1>1, NoElements, TcpRelayAssumption DEF Init
<1>2. Typed BY TypedInit
<1>3. Listed
  BY DEF Listed, Accepted, Handled, Busy, Replaced, Restarting, RegisteredIsListed, Sockets
<1>4. \A w \in Workers : Left(w) = <<>> BY DEF Left
<1>5. Fresh BY <1>4 DEF Fresh
<1>6. Indexed /\ Given BY DEF Indexed, Given, Answering
<1>7. Owned BY <1>4 DEF Owned
<1>8. AnswerReachesAsker BY DEF AnswerReachesAsker, Sent
<1>9. CloseOnce
  BY DEF CloseOnce, ClosedHungUp, Justified, Single, Reported, Owing, CloseEvent, NoEvent, Queued,
       ClosesAt, Taken, Closing, NoJob
<1>10. QED BY <1>2, <1>3, <1>5, <1>6, <1>7, <1>8, <1>9 DEF IInv

LEMMA InductionStep == IInv /\ [Next]_vars => IInv'
BY TypedStep, ListedStep, FreshStep, IndexedStep, GivenStep, OwnedStep, AnswerStep, CloseStep
DEF IInv

LEMMA Induction == Spec => []IInv
BY InductionInit, InductionStep, PTL DEF Spec

(* Every variable keeps its type, whatever clients, nameservers, the clock,  *)
(* the kernel's buffers and the workers do: no handler's job points to what  *)
(* is of another kind, every task that is answered has an index of the pool, *)
(* and Run's EPOLLOUT branch and the EpollModFds name sockets only.          *)
THEOREM TypeCorrect == Spec => []TypeOK
<1>1. IInv => TypeOK BY TypesFit DEF IInv
<1>2. QED BY <1>1, Induction, PTL

(* A socket epoll watches belongs to an object that Run finds in its sets,   *)
(* and that object is this socket's: TcpServerAcceptHandler inserts before   *)
(* it registers, the close handlers unregister before they erase, and a      *)
(* second close of one object does not get past EpollDelFd.                  *)
THEOREM RegisteredAreListed == Spec => []RegisteredIsListed
<1>1. IInv => RegisteredIsListed BY DEF IInv, Listed
<1>2. QED BY <1>1, Induction, PTL

(* For any number of queries and indices, so also when an index has served   *)
(* many queries and answers to the earlier ones are still about, a reply to  *)
(* a query goes to the connection it was asked on, as long as that has not   *)
(* been closed: into the kernel, or behind others into its m_send_buf.       *)
THEOREM AnswersReachAskers == Spec => []AnswerReachesAsker
<1>1. IInv => AnswerReachesAsker BY DEF IInv
<1>2. QED BY <1>1, Induction, PTL

(* Until some client resets its connection, or EPOLLOUT or an EpollModFd     *)
(* brings a FIN up that epoll has reported already, only connections whose   *)
(* clients have hung up are closed: Run makes one close job of a FIN, and    *)
(* none is left when the TcpServer's address is free for another.            *)
THEOREM ClosedAreHungUp == Spec => []ClosedOnlyIfHungUp
<1>1. IInv => ClosedOnlyIfHungUp
  BY DEF IInv, CloseOnce, Once, NoReset, ClosedHungUp, ClosedOnlyIfHungUp
<1>2. QED BY <1>1, Induction, PTL
=============================================================================
