------------------------------ MODULE TcpRelay ------------------------------
(***************************************************************************)
(* The TCP half of the forwarder: the part of Server::Run that finds the   *)
(* socket of an event, the jobs it gives the thread pool, and the handlers *)
(* those jobs run, from the Accept of a client's connection to the delete  *)
(* of its TcpServer, and for the TcpClient of each nameserver.             *)
(*                                                                         *)
(* A critical section in which a set of connections changes is one step;   *)
(* at "arm" a worker shares the servers' mutex, at "relay" and "watch" the *)
(* clients'.  Run searches the sets without them.  Other modules have what *)
(* is one step here: how handlers interleave in the task pool, the timer   *)
(* heap and the interval timer (UdpRelay), and how a send buffer is filled *)
(* and emptied byte by byte (TcpSocket): here the kernel takes a message   *)
(* whole, or leaves a part of it to the buffer.                            *)
(*                                                                         *)
(* What is undefined, or ends the process, ends the behaviour: fault names *)
(* the cause.  new may give a TcpServer any address that is free.          *)
(***************************************************************************)
EXTENDS Integers, Sequences, FiniteSets

CONSTANTS Workers,
          Conns,       \* connections clients may open
          Addrs,       \* addresses TcpServers are allocated at
          Remotes,     \* nameservers; each also names its TcpClient
          Queries,     \* queries of clients, numbered in the order they are sent
          ConnOf,      \* ConnOf[q]: the connection q is sent on
          QuestionOf,  \* QuestionOf[q]: the question of q
          MaxIndex,    \* TaskPool's m_max_index
          MaxEvents,   \* bound: connections, queries, hang-ups, deadlines, and
                       \* how often a peer is slow to read
          Listener,    \* the TcpListener
          None         \* no connection, query, pointer

ASSUME TcpRelayAssumption ==
    /\ Queries \subseteq Nat
    /\ ConnOf \in [Queries -> Conns]
    /\ DOMAIN QuestionOf = Queries
    /\ MaxIndex \in Nat /\ MaxEvents \in Nat
    /\ None \notin Conns \cup Addrs \cup Queries \cup Remotes \cup 0 .. MaxIndex
    /\ Listener \notin Addrs \cup Conns \cup Remotes
    /\ Conns \cap Remotes = {} /\ Addrs \cap Remotes = {}

Indices   == 0 .. MaxIndex
Questions == {QuestionOf[q] : q \in Queries}
Packets   == [id : Indices, question : Questions]
Forwarded == [remote : Remotes, id : Indices, question : Questions]
Replies   == [conn : Conns, query : Queries, rcode : {"answer", "servfail"}]
Sockets   == Conns \cup Remotes

VARIABLES
    conn,        \* conn[c]: how far connection c has come
    peer,        \* peer[c]: its client has it open, sent a FIN, or reset it
    inbox,       \* inbox[c]: queries that have arrived on it
    asked,       \* queries clients have sent
    backlog,     \* connections nobody has accepted
    merged,      \* a connection arrived while an earlier one's edge was pending
    link,        \* link[r]: as peer, of a nameserver's connection; "blank": not
                 \* connected; "none": no TcpClient is left
    linkIn,      \* linkIn[r]: answers that have arrived on it
    wire,        \* forwarded queries a nameserver may still answer
    replies,     \* what has been sent to clients
    outbox,      \* outbox[c]: replies its m_send_buf still has a part of
    linkOut,     \* linkOut[r]: as outbox, forwarded queries
    full,        \* sockets the kernel has no room for another message of
    slow,        \* how often one has become full
    registered,  \* registered[s]: data.ptr of socket s in epoll
    watched,     \* sockets registered with EPOLLOUT
    ready,       \* epoll's ready list
    again,       \* EPOLLOUT or EpollModFd brought a client's hang-up up again
    run,         \* where Run is
    event,       \* what epoll_wait has returned to it
    jobs,        \* m_thread_pool's queue
    object,      \* object[a]: the connection of the TcpServer at a
    servers,     \* m_tcp_server4 and m_tcp_server6
    clients,     \* m_tcp_client4 and m_tcp_client6
    indexQueue, pool,  \* m_tcp_task_pool
    index,       \* index[q]: the index of q's task
    owner,       \* owner[q]: its tcp_server
    heap,        \* m_tcp_timer_heap: timers, named by their query
    clock,       \* deadlines passed
    pc, job,     \* pc[w], job[w]: where worker w is in which job
    data,        \* data[w]: what Receive returned, from the current message on
    task,        \* task[w]: local `task_ptr`
    rest,        \* rest[w]: TcpClients its loop has yet to send the query to
    to,          \* to[w]: the one whose Send has just left a part
    fault

connVars  == <<conn, peer, inbox, asked, backlog, merged>>
linkVars  == <<link, linkIn, wire>>
outVars   == <<replies, outbox, linkOut, full, slow>>
epollVars == <<registered, watched, ready, again>>
loopVars  == <<run, event, jobs>>
setVars   == <<object, servers, clients>>
taskVars  == <<indexQueue, pool, index, owner, heap>>
workVars  == <<pc, job, data, task, rest, to>>
vars == <<connVars, linkVars, outVars, epollVars, loopVars, setVars, taskVars, clock, workVars,
          fault>>

JobSet  == [kind : {"accept", "query", "close", "answer", "restart", "timeout"},
            ptr : Addrs \cup Remotes \cup {None}]
NoJob   == [kind |-> "idle", ptr |-> None]
NoEvent == [ptr |-> None, in |-> FALSE, out |-> FALSE, hup |-> FALSE]

TypeOK ==
    /\ conn \in [Conns -> {"none", "waiting", "served", "closed"}]
    /\ peer \in [Conns -> {"open", "fin", "rst"}]
    /\ inbox \in [Conns -> Seq(Queries)]
    /\ asked \subseteq Queries
    /\ backlog \in Seq(Conns)
    /\ merged \in BOOLEAN
    /\ link \in [Remotes -> {"open", "fin", "rst", "blank", "none"}]
    /\ linkIn \in [Remotes -> Seq(Packets)]
    /\ wire \subseteq Forwarded
    /\ replies \subseteq Replies
    /\ outbox \in [Conns -> SUBSET Replies]
    /\ linkOut \in [Remotes -> SUBSET Forwarded]
    /\ full \subseteq Sockets
    /\ slow \in Nat
    /\ registered \in [Sockets -> Addrs \cup Remotes \cup {None}]
    /\ watched \subseteq Sockets
    /\ ready \subseteq {Listener} \cup Sockets
    /\ again \in BOOLEAN
    /\ run \in {"wait", "find", "flush", "modify"}
    /\ event \in [ptr : {Listener, None} \cup Addrs \cup Remotes,
                  in : BOOLEAN, out : BOOLEAN, hup : BOOLEAN]
    /\ jobs \in Seq(JobSet)
    /\ object \in [Addrs -> Conns \cup {None}]
    /\ servers \subseteq Addrs
    /\ clients \subseteq Remotes
    /\ indexQueue \in Seq(Indices)
    /\ pool \in [Indices -> Queries \cup {None}]
    /\ index \in [Queries -> Indices \cup {None}]
    /\ owner \in [Queries -> Addrs \cup {None}]
    /\ heap \in Seq(Queries)
    /\ clock \in Nat
    /\ pc \in [Workers -> {"idle", "accept", "insert", "add", "query", "forward", "relay",
                           "watch", "answer", "match", "timeout", "send", "arm", "close",
                           "erase", "restart", "unlink", "relink", "readd"}]
    /\ job \in [Workers -> JobSet \cup {NoJob}]
    /\ DOMAIN data = Workers
    /\ \A w \in Workers :
          data[w] \in IF job[w].kind = "query" THEN Seq(Queries) ELSE Seq(Packets)
    /\ task \in [Workers -> Queries \cup {None}]
    /\ rest \in [Workers -> SUBSET Remotes]
    /\ to \in [Workers -> Remotes \cup {None}]
    /\ fault \in {"none", "dangling", "race", "killed", "exhausted"}

(* Fault: the indices start at 1. *)
InitialQueue_FromOne == [n \in 1 .. MaxIndex + 1 |-> n]

InitialQueue == [n \in 1 .. MaxIndex + 1 |-> n - 1]

(* Server's constructor and AddRemote have run: each nameserver is connected.*)
Init ==
    /\ conn = [c \in Conns |-> "none"]
    /\ peer = [c \in Conns |-> "open"]
    /\ inbox = [c \in Conns |-> <<>>]
    /\ asked = {} /\ backlog = <<>> /\ merged = FALSE
    /\ link = [r \in Remotes |-> "open"]
    /\ linkIn = [r \in Remotes |-> <<>>]
    /\ wire = {} /\ replies = {}
    /\ outbox = [c \in Conns |-> {}]
    /\ linkOut = [r \in Remotes |-> {}]
    /\ full = {} /\ slow = 0
    /\ registered = [s \in Sockets |-> IF s \in Remotes THEN s ELSE None]
    /\ watched = {} /\ ready = {} /\ again = FALSE
    /\ run = "wait" /\ event = NoEvent
    /\ jobs = <<>>
    /\ object = [a \in Addrs |-> None]
    /\ servers = {} /\ clients = Remotes
    /\ indexQueue = InitialQueue
    /\ pool = [i \in Indices |-> None]
    /\ index = [q \in Queries |-> None]
    /\ owner = [q \in Queries |-> None]
    /\ heap = <<>> /\ clock = 0
    /\ pc = [w \in Workers |-> "idle"]
    /\ job = [w \in Workers |-> NoJob]
    /\ data = [w \in Workers |-> <<>>]
    /\ task = [w \in Workers |-> None]
    /\ rest = [w \in Workers |-> {}]
    /\ to = [w \in Workers |-> None]
    /\ fault = "none"

Running == fault = "none"

-----------------------------------------------------------------------------
(* The environment.  An edge reaches epoll if the socket is registered.  A   *)
(* FIN: who sent it may still read.  A reset: he will not.                   *)

Edge(s) ==
    /\ ready' = IF registered[s] # None THEN ready \cup {s} ELSE ready
    /\ UNCHANGED <<registered, watched, again>>

HungUp(state) == state \notin {"open", "blank"}

Trouble == clock + Cardinality({c \in Conns : peer[c] # "open"})
                 + Cardinality({c \in Conns : peer[c] = "rst"})
                 + Cardinality({r \in Remotes : link[r] # "open"})
Events  == Cardinality({c \in Conns : conn[c] # "none"}) + Cardinality(asked) + slow + Trouble

Connect(c) ==
    /\ Running
    /\ Events < MaxEvents
    /\ conn[c] = "none"
    /\ conn' = [conn EXCEPT ![c] = "waiting"]
    /\ backlog' = Append(backlog, c)
    /\ merged' = (merged \/ Listener \in ready)
    /\ ready' = ready \cup {Listener}
    /\ UNCHANGED <<peer, inbox, asked, linkVars, outVars, registered, watched, again, loopVars,
                   setVars, taskVars, clock, workVars, fault>>

ClientSends(q) ==
    LET c == ConnOf[q]
    IN  /\ Running
        /\ Events < MaxEvents
        /\ q \notin asked
        /\ \A p \in Queries : p < q => p \in asked
        /\ conn[c] # "none" /\ peer[c] = "open"
        /\ asked' = asked \cup {q}
        /\ inbox' = [inbox EXCEPT ![c] = Append(@, q)]
        /\ Edge(c)
        /\ UNCHANGED <<conn, peer, backlog, merged, linkVars, outVars, loopVars, setVars,
                       taskVars, clock, workVars, fault>>

(* After a reset nothing waits in the kernel. *)
ClientHangsUp(c) ==
    /\ Running
    /\ Events < MaxEvents
    /\ conn[c] # "none" /\ peer[c] # "rst"
    /\ \E how \in {"fin", "rst"} \ {peer[c]} :
          /\ peer' = [peer EXCEPT ![c] = how]
          /\ full' = IF how = "rst" THEN full \ {c} ELSE full
    /\ Edge(c)
    /\ UNCHANGED <<conn, inbox, asked, backlog, merged, linkVars, replies, outbox, linkOut, slow,
                   loopVars, setVars, taskVars, clock, workVars, fault>>

NameserverAnswers(m) ==
    /\ Running
    /\ link[m.remote] = "open"
    /\ wire' = wire \ {m}
    /\ linkIn' = [linkIn EXCEPT ![m.remote] = Append(@, [id |-> m.id, question |-> m.question])]
    /\ Edge(m.remote)
    /\ UNCHANGED <<connVars, link, outVars, loopVars, setVars, taskVars, clock, workVars, fault>>

NameserverHangsUp(r) ==
    /\ Running
    /\ Events < MaxEvents
    /\ link[r] \in {"open", "fin"}
    /\ \E how \in {"fin", "rst"} \ {link[r]} :
          /\ link' = [link EXCEPT ![r] = how]
          /\ full' = IF how = "rst" THEN full \ {r} ELSE full
    /\ Edge(r)
    /\ UNCHANGED <<connVars, linkIn, wire, replies, outbox, linkOut, slow, loopVars, setVars,
                   taskVars, clock, workVars, fault>>

(* A peer that does not read: the kernel has taken what it has room for ...  *)
StateOf(s) == IF s \in Conns THEN peer[s] ELSE link[s]
Connected(s) == StateOf(s) \in {"open", "fin"} /\ (s \in Conns => conn[s] = "served")

Fill(s) ==
    /\ Running
    /\ Events < MaxEvents
    /\ Connected(s)
    /\ s \notin full
    /\ full' = full \cup {s}
    /\ slow' = slow + 1
    /\ UNCHANGED <<connVars, linkVars, replies, outbox, linkOut, epollVars, loopVars, setVars,
                   taskVars, clock, workVars, fault>>

(* Epoll puts s on its ready list; it will report what s is ready for then.  *)
Report(s) ==
    /\ ready' = ready \cup {s}
    /\ again' = (again \/ (s \in Conns \ ready /\ HungUp(peer[s])))

(* ... and one that reads again: the socket has become writable. *)
Drain(s) ==
    /\ Running
    /\ s \in full
    /\ full' = full \ {s}
    /\ IF s \in watched THEN Report(s) ELSE UNCHANGED <<ready, again>>
    /\ UNCHANGED <<connVars, linkVars, replies, outbox, linkOut, slow, registered, watched,
                   loopVars, setVars, taskVars, clock, workVars, fault>>

(* The n-th task made has the n-th deadline; the heap has them in that order.*)
Made       == {q \in Queries : index[q] # None}
TopExpired == heap # <<>> /\ Cardinality(Made) - Len(heap) < clock

DeadlinePasses ==
    /\ Running
    /\ Events < MaxEvents
    /\ clock < Cardinality(Made)
    /\ clock' = clock + 1
    /\ UNCHANGED <<connVars, linkVars, outVars, epollVars, loopVars, setVars, taskVars, workVars,
                   fault>>

Timeout == [kind |-> "timeout", ptr |-> None]

(* SIGALRM: Run enqueues TcpTimeoutHandler. *)
Alarm ==
    /\ Running
    /\ TopExpired
    /\ \A k \in DOMAIN jobs : jobs[k] # Timeout
    /\ jobs' = Append(jobs, Timeout)
    /\ UNCHANGED <<connVars, linkVars, outVars, epollVars, run, event, setVars, taskVars, clock,
                   workVars, fault>>

-----------------------------------------------------------------------------
(* epoll *)

(* A FIN or a reset makes a socket readable, too. *)
Arrived(s) == HungUp(StateOf(s)) \/ (IF s \in Conns THEN inbox[s] # <<>> ELSE linkIn[s] # <<>>)

EventOf(s) ==
    IF s = Listener THEN [ptr |-> Listener, in |-> TRUE, out |-> FALSE, hup |-> FALSE]
    ELSE [ptr |-> registered[s],
          in  |-> Arrived(s),
          out |-> s \in watched /\ s \notin full,
          hup |-> HungUp(StateOf(s))]

(* EpollModFd, with EPOLLOUT or without: what s is ready for, even if it has *)
(* been reported before, is reported again.                                  *)
Modify(s, out) ==
    /\ watched' = IF out THEN watched \cup {s} ELSE watched \ {s}
    /\ IF Arrived(s) \/ (out /\ s \notin full) THEN Report(s) ELSE UNCHANGED <<ready, again>>
    /\ UNCHANGED registered

-----------------------------------------------------------------------------
(* Server::Run *)

Fault(what) ==
    /\ fault' = what
    /\ UNCHANGED <<connVars, linkVars, outVars, epollVars, loopVars, setVars, taskVars, clock,
                   workVars>>

Inside(labels) == \E w \in Workers : pc[w] \in labels

(* Who holds the shared mutex of a set, or waits for none to change the set. *)
ServersShared  == Inside({"arm"})
ClientsShared  == Inside({"relay", "watch"})
ServersChange  == Inside({"insert", "erase"}) /\ ~ServersShared
ClientsChange  == (Inside({"unlink"}) /\ ~ClientsShared) \/ Inside({"relink"})

(* epoll_wait; an s that is ready for nothing any more is not reported. *)
EpollWait(s) ==
    LET e == EventOf(s)
    IN  /\ Running
        /\ run = "wait"
        /\ s \in ready
        /\ ready' = ready \ {s}
        /\ IF e.in \/ e.out \/ e.hup
           THEN run' = "find" /\ event' = e
           ELSE UNCHANGED <<run, event>>
        /\ UNCHANGED <<connVars, linkVars, outVars, registered, watched, again, jobs, setVars,
                       taskVars, clock, workVars, fault>>

JobIf(cond, kind, ptr) == IF cond THEN <<[kind |-> kind, ptr |-> ptr]>> ELSE <<>>

AcceptJob == JobIf(TRUE, "accept", None)

ReceiveJob(e) == JobIf(e.in, IF e.ptr \in Addrs THEN "query" ELSE "answer", e.ptr)

CloseIf(cond, e) == JobIf(cond, IF e.ptr \in Addrs THEN "close" ELSE "restart", e.ptr)

(* Fault: closes on EPOLLIN. *)
CloseJob_WrongMask(e) == CloseIf(e.in, e)

(* Fault: `else if (events & EPOLLRDHUP)`. *)
CloseJob_ElseIf(e) == CloseIf(e.hup /\ ~e.in, e)

CloseJob(e) == CloseIf(e.hup, e)

(* These jobs, and back to epoll_wait. *)
EndEvent(new) ==
    /\ jobs' = jobs \o new
    /\ run' = "wait" /\ event' = NoEvent

(* Run finds the socket of the event's pointer, or nothing; a Receive job on *)
(* EPOLLIN; on to EPOLLOUT and EPOLLRDHUP.                                   *)
FindSocket ==
    /\ Running
    /\ run = "find"
    /\ \/ event.ptr = Listener /\ EndEvent(AcceptJob)
       \/ event.ptr \notin servers \cup clients \cup {Listener} /\ EndEvent(<<>>)
       \/ /\ event.ptr \in servers \cup clients
          /\ IF event.out
             THEN jobs' = jobs \o ReceiveJob(event) /\ run' = "flush" /\ UNCHANGED event
             ELSE EndEvent(ReceiveJob(event) \o CloseJob(event))
    /\ UNCHANGED <<connVars, linkVars, outVars, epollVars, setVars, taskVars, clock, workVars,
                   fault>>

(* The search, without the mutexes, while a handler changes a searched set.  *)
FindRaces ==
    /\ Running
    /\ run = "find"
    /\ event.ptr # Listener
    /\ ServersChange \/ (event.ptr \notin servers /\ ClientsChange)
    /\ Fault("race")

(* The socket of the object Run has a pointer to, while there is that object.*)
Socket == IF event.ptr \in Addrs THEN object[event.ptr] ELSE event.ptr
Gone   == IF event.ptr \in Addrs THEN object[event.ptr] = None
                                 ELSE link[event.ptr] \in {"none", "blank"}

(* What is sent on a connection the nameserver has closed, is lost. *)
SendTo(r, messages) == wire' = IF link[r] = "open" THEN wire \cup messages ELSE wire

(* Send(): what is buffered goes, all of it if there is room. *)
Empty(s) ==
    IF s \in Conns
    THEN /\ replies' = replies \cup outbox[s]
         /\ outbox' = [outbox EXCEPT ![s] = {}]
         /\ UNCHANGED <<wire, linkOut>>
    ELSE /\ SendTo(s, linkOut[s])
         /\ linkOut' = [linkOut EXCEPT ![s] = {}]
         /\ UNCHANGED <<replies, outbox>>

Buffered(s) == IF s \in Conns THEN outbox[s] ELSE linkOut[s]

Flush ==
    /\ Running
    /\ run = "flush"
    /\ ~Gone
    /\ StateOf(Socket) # "rst"
    /\ IF Socket \in full /\ Buffered(Socket) # {}
       THEN EndEvent(CloseJob(event)) /\ UNCHANGED <<wire, replies, outbox, linkOut>>
       ELSE Empty(Socket) /\ run' = "modify" /\ UNCHANGED <<event, jobs>>
    /\ UNCHANGED <<connVars, link, linkIn, full, slow, epollVars, setVars, taskVars, clock,
                   workVars, fault>>

(* EpollModFd without EPOLLOUT. *)
ModifySocket ==
    /\ Running
    /\ run = "modify"
    /\ ~Gone
    /\ registered[Socket] # None
    /\ Modify(Socket, FALSE)
    /\ EndEvent(CloseJob(event))
    /\ UNCHANGED <<connVars, linkVars, outVars, setVars, taskVars, clock, workVars, fault>>

(* Send and EpollModFd throw for a socket that was reset or unregistered;    *)
(* nobody catches what leaves Run, and SIGPIPE kills as well.                *)
RunFails ==
    /\ Running
    /\ run \in {"flush", "modify"}
    /\ \/ Gone /\ Fault("dangling")
       \/ /\ ~Gone
          /\ IF run = "flush" THEN StateOf(Socket) = "rst" ELSE registered[Socket] = None
          /\ Fault("killed")

-----------------------------------------------------------------------------
(* Steps of a worker. *)

At(w, l) == Running /\ pc[w] = l

Goto(w, l) == pc' = [pc EXCEPT ![w] = l] /\ UNCHANGED <<job, data, task, rest, to>>

(* On with these messages, if any. *)
Handle(w, l, messages) ==
    /\ pc' = [pc EXCEPT ![w] = IF messages = <<>> THEN "idle" ELSE l]
    /\ job' = IF messages = <<>> THEN [job EXCEPT ![w] = NoJob] ELSE job
    /\ data' = [data EXCEPT ![w] = messages]
    /\ task' = [task EXCEPT ![w] = None]
    /\ rest' = [rest EXCEPT ![w] = {}]
    /\ to' = [to EXCEPT ![w] = None]

(* The handler returns, or an exception leaves it. *)
Return(w) == Handle(w, "idle", <<>>)

(* A worker takes the oldest job.  Its pointer may be stale by now: it then  *)
(* leads to whatever lives at the address.                                   *)
StartJob(w) ==
    /\ At(w, "idle")
    /\ jobs # <<>>
    /\ jobs' = Tail(jobs)
    /\ job' = [job EXCEPT ![w] = Head(jobs)]
    /\ pc' = [pc EXCEPT ![w] = Head(jobs).kind]
    /\ UNCHANGED <<connVars, linkVars, outVars, epollVars, run, event, setVars, taskVars, clock,
                   data, task, rest, to, fault>>

(* The object of a job's pointer has been deleted.  A TcpClient made by a    *)
(* restart need not live where the one before it did.                        *)
UsesDangling(w) ==
    /\ Running
    /\ \/ pc[w] \in {"query", "close"} /\ object[job[w].ptr] = None
       \/ pc[w] \in {"answer", "restart"} /\ link[job[w].ptr] \in {"none", "blank"}
    /\ Fault("dangling")

-----------------------------------------------------------------------------
(* TcpServerAcceptHandler: Accept and new, insert, EpollAddFd.               *)

AcceptThen(w, label) ==
    /\ At(w, "accept")
    /\ backlog # <<>>
    /\ backlog' = Tail(backlog)
    /\ conn' = [conn EXCEPT ![Head(backlog)] = "served"]
    /\ \E a \in {b \in Addrs : object[b] = None} :
          /\ object' = [object EXCEPT ![a] = Head(backlog)]
          /\ job' = [job EXCEPT ![w].ptr = a]
    /\ pc' = [pc EXCEPT ![w] = label]
    /\ UNCHANGED <<peer, inbox, asked, merged, linkVars, outVars, epollVars, loopVars, servers,
                   clients, taskVars, clock, data, task, rest, to, fault>>

(* Fault: the connection is not put into the set. *)
Accept_NoInsert(w) == AcceptThen(w, "add")

Accept(w) == AcceptThen(w, "insert")

InsertServer(w) ==
    /\ At(w, "insert")
    /\ ~ServersShared
    /\ servers' = servers \cup {job[w].ptr}
    /\ Goto(w, "add")
    /\ UNCHANGED <<connVars, linkVars, outVars, epollVars, loopVars, object, clients, taskVars,
                   clock, fault>>

(* What has arrived already makes the socket ready. *)
AddServer(w) ==
    LET a == job[w].ptr
        c == object[a]
    IN  /\ At(w, "add")
        /\ registered' = [registered EXCEPT ![c] = a]
        /\ ready' = IF Arrived(c) THEN ready \cup {c} ELSE ready
        /\ Return(w)
        /\ UNCHANGED <<connVars, linkVars, outVars, watched, again, loopVars, setVars, taskVars,
                       clock, fault>>

-----------------------------------------------------------------------------
(* TcpServerRecvHandler *)

ReceiveQueries(w) ==
    LET c == object[job[w].ptr]
    IN  /\ At(w, "query")
        /\ c # None
        /\ inbox' = [inbox EXCEPT ![c] = <<>>]
        /\ Handle(w, "forward", inbox[c])
        /\ UNCHANGED <<conn, peer, asked, backlog, merged, linkVars, outVars, epollVars, loopVars,
                       setVars, taskVars, clock, fault>>

(* The next TcpClient, or the next query of the data. *)
NextClient(w, left) ==
    IF left = {} THEN Handle(w, "forward", Tail(data[w]))
    ELSE /\ pc' = [pc EXCEPT ![w] = "relay"]
         /\ rest' = [rest EXCEPT ![w] = left]
         /\ to' = [to EXCEPT ![w] = None]
         /\ UNCHANGED <<job, data, task>>

(* PutTask, Push of the task's timer, and the clients' mutex. *)
PutTask(w) ==
    LET q == Head(data[w])
        i == Head(indexQueue)
    IN  /\ At(w, "forward")
        /\ indexQueue # <<>>
        /\ indexQueue' = Tail(indexQueue)
        /\ pool' = [pool EXCEPT ![i] = q]
        /\ index' = [index EXCEPT ![q] = i]
        /\ owner' = [owner EXCEPT ![q] = job[w].ptr]
        /\ heap' = Append(heap, q)
        /\ UNCHANGED <<connVars, linkVars, outVars, epollVars, loopVars, setVars, clock, fault>>

(* Fault: one message of each Receive. *)
ForwardQuery_Once(w) ==
    /\ PutTask(w)
    /\ IF clients = {} THEN Return(w)
       ELSE /\ pc' = [pc EXCEPT ![w] = "relay"]
            /\ rest' = [rest EXCEPT ![w] = clients]
            /\ data' = [data EXCEPT ![w] = <<Head(@)>>]
            /\ UNCHANGED <<job, task, to>>

ForwardQuery(w) == PutTask(w) /\ NextClient(w, clients)

(* PutTask takes the front of an empty queue. *)
PoolExhausted(w) == At(w, "forward") /\ indexQueue = <<>> /\ Fault("exhausted")

Copy(w, r) == [remote |-> r, id |-> index[Head(data[w])], question |-> QuestionOf[Head(data[w])]]

(* send throws for a connection that was reset or never made. *)
Broken(r) == link[r] \in {"rst", "blank"} /\ linkOut[r] = {}

(* Send: behind what is buffered already; or to the kernel, all of it, or    *)
(* all that it has room for, and then EpollModFd.                            *)
RelayQuery(w) ==
    \E r \in rest[w] :
        /\ At(w, "relay")
        /\ ~Broken(r)
        /\ \/ /\ linkOut[r] # {} \/ r \in full
              /\ linkOut' = [linkOut EXCEPT ![r] = @ \cup {Copy(w, r)}]
              /\ UNCHANGED wire
           \/ /\ linkOut[r] = {} /\ r \notin full
              /\ SendTo(r, {Copy(w, r)})
              /\ UNCHANGED linkOut
        /\ IF linkOut[r] = {} /\ r \in full
           THEN /\ pc' = [pc EXCEPT ![w] = "watch"]
                /\ rest' = [rest EXCEPT ![w] = @ \ {r}]
                /\ to' = [to EXCEPT ![w] = r]
                /\ UNCHANGED <<job, data, task>>
           ELSE NextClient(w, rest[w] \ {r})
        /\ UNCHANGED <<connVars, link, linkIn, replies, outbox, full, slow, epollVars, loopVars,
                       setVars, taskVars, clock, fault>>

WatchClient(w) ==
    /\ At(w, "watch")
    /\ registered[to[w]] # None
    /\ Modify(to[w], TRUE)
    /\ NextClient(w, rest[w])
    /\ UNCHANGED <<connVars, linkVars, outVars, loopVars, setVars, taskVars, clock, fault>>

-----------------------------------------------------------------------------
(* TcpClientRecvHandler and TcpTimeoutHandler *)

ReceiveAnswers(w) ==
    LET r == job[w].ptr
    IN  /\ At(w, "answer")
        /\ link[r] # "none"
        /\ linkIn' = [linkIn EXCEPT ![r] = <<>>]
        /\ Handle(w, "match", linkIn[r])
        /\ UNCHANGED <<connVars, link, wire, outVars, epollVars, loopVars, setVars, taskVars,
                       clock, fault>>

(* DelTask, with task_ptr in hand. *)
Settle(w, q) ==
    /\ pool' = [pool EXCEPT ![index[q]] = None]
    /\ indexQueue' = Append(indexQueue, index[q])
    /\ task' = [task EXCEPT ![w] = q]
    /\ pc' = [pc EXCEPT ![w] = "send"]
    /\ UNCHANGED <<job, data, rest, to>>

(* An answer whose task is gone, or has another question, ends the handler   *)
(* with the rest of the data.                                                *)
MatchAnswer(w) ==
    LET m == Head(data[w])
        q == pool[m.id]
    IN  /\ At(w, "match")
        /\ IF q # None /\ m.question = QuestionOf[q]
           THEN Settle(w, q)
           ELSE Return(w) /\ UNCHANGED <<pool, indexQueue>>
        /\ UNCHANGED <<connVars, linkVars, outVars, epollVars, loopVars, setVars, index, owner,
                       heap, clock, fault>>

(* A timer whose task is gone is skipped. *)
PopTimer(w) ==
    LET q == Head(heap)
    IN  /\ At(w, "timeout")
        /\ TopExpired
        /\ heap' = Tail(heap)
        /\ IF pool[index[q]] = q
           THEN Settle(w, q)
           ELSE UNCHANGED <<pool, indexQueue, workVars>>
        /\ UNCHANGED <<connVars, linkVars, outVars, epollVars, loopVars, setVars, index, owner,
                       clock, fault>>

HandlerDone(w) ==
    /\ \/ At(w, "timeout") /\ ~TopExpired
       \/ At(w, "accept") /\ backlog = <<>>
    /\ Return(w)
    /\ UNCHANGED <<connVars, linkVars, outVars, epollVars, loopVars, setVars, taskVars, clock,
                   fault>>

Reply(w, c) == [conn |-> c, query |-> task[w],
                rcode |-> IF job[w] = Timeout THEN "servfail" ELSE "answer"]

(* The next timer, or the next message. *)
Again(w) ==
    IF job[w] = Timeout
    THEN /\ pc' = [pc EXCEPT ![w] = "timeout"]
         /\ task' = [task EXCEPT ![w] = None]
         /\ UNCHANGED <<job, data, rest, to>>
    ELSE Handle(w, "match", Tail(data[w]))

(* Where the task's TcpServer is found, under the mutex. *)
Found(w) == servers \cap {owner[task[w]]}

(* Sends with nothing buffered before them that throw, or that leave a part. *)
Throwing(conns) == {c \in conns \cap Conns : outbox[c] = {} /\ peer[c] = "rst"}
Parted(conns)   == {c \in conns : outbox[c] = {} /\ c \in full}

SendReplyTo(w, targets) ==
    LET conns == {object[a] : a \in targets}
        held  == {c \in conns : outbox[c] # {}} \cup Parted(conns)
    IN  /\ At(w, "send")
        /\ None \notin conns
        /\ Throwing(conns) = {}
        /\ outbox' = [c \in Conns |-> IF c \in held THEN outbox[c] \cup {Reply(w, c)}
                                                    ELSE outbox[c]]
        /\ replies' = replies \cup {Reply(w, c) : c \in conns \ held}
        /\ UNCHANGED <<connVars, linkVars, linkOut, full, slow, epollVars, loopVars, setVars,
                       taskVars, clock, fault>>

(* After a Send that left a part, EpollModFd. *)
ArmOr(w, targets, next) == IF Parted({object[a] : a \in targets}) # {} THEN Goto(w, "arm") ELSE next

(* Fault: every server is sent the answer, as every client is the query. *)
SendReply_ToAll(w) == SendReplyTo(w, servers) /\ ArmOr(w, servers, Again(w))

(* Fault: one message of each Receive. *)
SendReply_Once(w) == SendReplyTo(w, Found(w)) /\ ArmOr(w, Found(w), Return(w))

SendReply(w) == SendReplyTo(w, Found(w)) /\ ArmOr(w, Found(w), Again(w))

WatchServer(w) ==
    LET c == object[owner[task[w]]]
    IN  /\ At(w, "arm")
        /\ registered[c] # None
        /\ Modify(c, TRUE)
        /\ Again(w)
        /\ UNCHANGED <<connVars, linkVars, outVars, loopVars, setVars, taskVars, clock, fault>>

(* send on a connection that was reset throws, and so does EpollModFd for a  *)
(* socket that is no longer registered: what the handler has left to do is   *)
(* not done.  Or SIGPIPE, as on a connection never made, ends the process.   *)
SendThrows(w) ==
    /\ \/ At(w, "relay") /\ \E r \in rest[w] : Broken(r) /\ link[r] = "rst"
       \/ At(w, "watch") /\ registered[to[w]] = None
       \/ At(w, "send") /\ Throwing({object[a] : a \in Found(w)}) # {}
       \/ At(w, "arm") /\ registered[object[owner[task[w]]]] = None
    /\ Return(w)
    /\ UNCHANGED <<connVars, linkVars, outVars, epollVars, loopVars, setVars, taskVars, clock,
                   fault>>

SendKills(w) ==
    /\ \/ At(w, "relay") /\ \E r \in rest[w] : Broken(r)
       \/ At(w, "send") /\ Throwing({object[a] : a \in Found(w)}) # {}
    /\ Fault("killed")

-----------------------------------------------------------------------------
(* TcpServerCloseHandler: EpollDelFd, which throws for a socket that is not  *)
(* registered; then, under the servers' mutex, erase; and delete.            *)

CloseServer(w) ==
    LET c == object[job[w].ptr]
    IN  /\ At(w, "close")
        /\ c # None
        /\ registered[c] # None
        /\ registered' = [registered EXCEPT ![c] = None]
        /\ watched' = watched \ {c}
        /\ ready' = ready \ {c}
        /\ Goto(w, "erase")
        /\ UNCHANGED <<connVars, linkVars, outVars, again, loopVars, setVars, taskVars, clock,
                       fault>>

EraseServer(w) ==
    LET a == job[w].ptr
        c == object[a]
    IN  /\ At(w, "erase")
        /\ ~ServersShared
        /\ servers' = servers \ {a}
        /\ object' = [object EXCEPT ![a] = None]
        /\ conn' = [conn EXCEPT ![c] = "closed"]
        /\ outbox' = [outbox EXCEPT ![c] = {}]
        /\ full' = full \ {c}
        /\ Return(w)
        /\ UNCHANGED <<peer, inbox, asked, backlog, merged, linkVars, replies, linkOut, slow,
                       epollVars, loopVars, clients, taskVars, clock, fault>>

CloseThrows(w) ==
    LET p == job[w].ptr
    IN  /\ \/ At(w, "close") /\ object[p] # None /\ registered[object[p]] = None
           \/ At(w, "restart") /\ link[p] # "none" /\ registered[p] = None
        /\ Return(w)
        /\ UNCHANGED <<connVars, linkVars, outVars, epollVars, loopVars, setVars, taskVars, clock,
                       fault>>

-----------------------------------------------------------------------------
(* TcpClientCloseHandler.  The address the new TcpClient connects to is that *)
(* of the old one, which its constructor never set: connect fails, or, when  *)
(* the family reads AF_UNSPEC, leaves the socket unconnected.                *)

CloseClient(w) ==
    LET r == job[w].ptr
    IN  /\ At(w, "restart")
        /\ link[r] # "none"
        /\ registered[r] # None
        /\ registered' = [registered EXCEPT ![r] = None]
        /\ watched' = watched \ {r}
        /\ ready' = ready \ {r}
        /\ Goto(w, "unlink")
        /\ UNCHANGED <<connVars, linkVars, outVars, again, loopVars, setVars, taskVars, clock,
                       fault>>

RestartClient(w) ==
    LET r == job[w].ptr
    IN  /\ At(w, "unlink")
        /\ ~ClientsShared
        /\ clients' = clients \ {r}
        /\ linkIn' = [linkIn EXCEPT ![r] = <<>>]
        /\ linkOut' = [linkOut EXCEPT ![r] = {}]
        /\ full' = full \ {r}
        /\ \/ link' = [link EXCEPT ![r] = "none"] /\ Return(w)
           \/ link' = [link EXCEPT ![r] = "blank"] /\ Goto(w, "relink")
        /\ UNCHANGED <<connVars, wire, replies, outbox, slow, epollVars, loopVars, object,
                       servers, taskVars, clock, fault>>

InsertClient(w) ==
    /\ At(w, "relink")
    /\ clients' = clients \cup {job[w].ptr}
    /\ Goto(w, "readd")
    /\ UNCHANGED <<connVars, linkVars, outVars, epollVars, loopVars, object, servers, taskVars,
                   clock, fault>>

(* The insert is not under the mutex. *)
InsertRaces(w) ==
    /\ At(w, "relink")
    /\ \E v \in Workers \ {w} : pc[v] \in {"forward", "relay", "watch", "unlink", "relink"}
    /\ Fault("race")

AddClient(w) ==
    LET r == job[w].ptr
    IN  /\ At(w, "readd")
        /\ registered' = [registered EXCEPT ![r] = r]
        /\ Return(w)
        /\ UNCHANGED <<connVars, linkVars, outVars, watched, ready, again, loopVars, setVars,
                       taskVars, clock, fault>>

-----------------------------------------------------------------------------
MainStep ==
    \/ \E s \in ready : EpollWait(s)
    \/ FindSocket \/ FindRaces
    \/ Flush \/ ModifySocket \/ RunFails

WorkerStep(w) ==
    \/ StartJob(w) \/ UsesDangling(w) \/ HandlerDone(w)
    \/ Accept(w) \/ InsertServer(w) \/ AddServer(w)
    \/ ReceiveQueries(w) \/ ForwardQuery(w) \/ PoolExhausted(w)
    \/ RelayQuery(w) \/ WatchClient(w)
    \/ ReceiveAnswers(w) \/ MatchAnswer(w) \/ PopTimer(w)
    \/ SendReply(w) \/ WatchServer(w)
    \/ SendThrows(w) \/ SendKills(w)
    \/ CloseServer(w) \/ EraseServer(w) \/ CloseThrows(w)
    \/ CloseClient(w) \/ RestartClient(w) \/ InsertClient(w) \/ InsertRaces(w) \/ AddClient(w)

Environment ==
    \/ \E c \in Conns : Connect(c) \/ ClientHangsUp(c)
    \/ \E q \in Queries : ClientSends(q)
    \/ \E m \in wire : NameserverAnswers(m)
    \/ \E r \in Remotes : NameserverHangsUp(r)
    \/ \E s \in Sockets : Fill(s) \/ Drain(s)
    \/ DeadlinePasses
    \/ Alarm

Next == MainStep \/ (\E w \in Workers : WorkerStep(w)) \/ Environment

Spec == Init /\ [][Next]_vars

(* Some thread runs, as long as one can.  Clients, nameservers and time need *)
(* not do anything, and nobody need read what he is sent.                    *)
FairSpec == Spec /\ WF_vars(MainStep \/ \E w \in Workers : WorkerStep(w))

-----------------------------------------------------------------------------
(* A socket that epoll watches has a pointer that Run will find, and one     *)
(* that leads back to it: no event of a live connection is dropped, or       *)
(* handled for another one.  And what the handlers find in the servers' sets,*)
(* under the mutex, is alive.                                                *)
RegisteredIsListed ==
    /\ \A a \in servers : object[a] # None
    /\ \A c \in Conns : registered[c] # None =>
          registered[c] \in servers /\ object[registered[c]] = c
    /\ \A r \in Remotes : registered[r] # None => r \in clients /\ link[r] # "none"

(* A reply goes to the connection its query came on, as long as that has not *)
(* been closed, however often indices and the addresses of TcpServers are    *)
(* reused: a task keeps the address of its TcpServer, where another may live *)
(* by then.                                                                  *)
Sent == replies \cup UNION {outbox[c] : c \in Conns}

AnswerReachesAsker ==
    \A m \in Sent : m.conn = ConnOf[m.query] \/ conn[ConnOf[m.query]] = "closed"

(* A connection whose client has not hung up is not closed, unless a client  *)
(* has reset its own, or EPOLLOUT has brought a FIN up again: the FIN alone  *)
(* makes one close job.                                                      *)
ClosedOnlyIfHungUp ==
    (\E c \in Conns : conn[c] = "closed" /\ peer[c] = "open")
        => again \/ \E c \in Conns : peer[c] = "rst"

Faulted == ~Running

(* Connections a handler is to have looked at in the end: the accepted ones, *)
(* and those that wait for Accept - unless one came while an earlier one's   *)
(* edge was pending: an edge is good for one Accept.                         *)
Attended == {c \in Conns : conn[c] = "served" \/ (conn[c] = "waiting" /\ ~merged)}

(* All queries on these connections are given tasks, unless the connection   *)
(* is closed first, or a nameserver has hung up, when a send may throw.      *)
Unforwarded == {q \in asked : ConnOf[q] \in Attended /\ index[q] = None}

QueryForwarded ==
    Unforwarded # {} ~>
        (Unforwarded = {} \/ Faulted \/ \E r \in Remotes : link[r] # "open")

(* Those connections whose clients have hung up are closed, all of them.     *)
Abandoned == {c \in Attended : HungUp(peer[c])}

HungUpIsClosed == Abandoned # {} ~> (Abandoned = {} \/ Faulted)

(* What the nameserver has answered is relayed, also behind other answers in *)
(* one segment - if there is one nameserver, nothing has timed out, and      *)
(* nobody hangs up.  TcpSocket says when what is given to Send leaves.       *)
Owed == {q \in Queries :
            /\ index[q] # None
            /\ \A m \in wire \cup UNION {linkOut[r] : r \in Remotes} :
                  m.id # index[q] \/ m.question # QuestionOf[q]
            /\ [conn |-> ConnOf[q], query |-> q, rcode |-> "answer"] \notin Sent}

AnswerRelayed ==
    (Owed # {} /\ Cardinality(Remotes) = 1) ~> (Owed = {} \/ Trouble > 0 \/ Faulted)
=============================================================================
