------------------------------ MODULE UdpRelay ------------------------------
(***************************************************************************)
(* The UDP half of the forwarder: the epoll loop of Server::Run, the jobs  *)
(* it gives the thread pool, and the three handlers those jobs run         *)
(* (UdpServerRecvHandler, UdpClientRecvHandler, UdpTimeoutHandler), which  *)
(* share m_udp_task_pool, m_udp_timer_heap and the process's interval      *)
(* timer.                                                                  *)
(*                                                                         *)
(* A handler is a sequence of steps; each step is one access to shared     *)
(* state: one receive, one TaskPool call, one TimerHeap call, one send.    *)
(* TaskPool calls are atomic here (TaskPool refines IndexAllocator).  A    *)
(* send always succeeds: the send queues are a component of their own.     *)
(* Clients and nameservers are the environment: a query is sent once, each *)
(* nameserver answers a forwarded query once or never, in any order.       *)
(*                                                                         *)
(* Time is the number of task deadlines that have passed.  All timers run  *)
(* for the same TIMEOUT_SECONDS, so the n-th task made has the n-th        *)
(* deadline.                                                               *)
(***************************************************************************)
EXTENDS Integers, Sequences

CONSTANTS Workers,       \* the threads of the pool
          Queries,       \* queries of clients; one stands for (address, id)
          Families,      \* address families: a server and a client socket each
          Remotes,       \* the configured nameservers
          Names,         \* question sections
          Answered,      \* those the nameservers may answer
          QuestionOf,    \* QuestionOf[q]: the question of query q
          ClientFamily,  \* ClientFamily[q]: the server socket q arrives on
          RemoteFamily,  \* RemoteFamily[r]: the client socket r is reached by
          MaxIndex,      \* TaskPool's m_max_index
          MaxClock,      \* bound: deadlines that may pass
          NoQuery,       \* a null task or timer pointer
          NoFamily

ASSUME RelayAssumption ==
    /\ QuestionOf \in [Queries -> Names]
    /\ ClientFamily \in [Queries -> Families]
    /\ RemoteFamily \in [Remotes -> Families]
    /\ Answered \subseteq Names
    /\ MaxIndex \in Nat
    /\ MaxClock \in Nat
    /\ NoQuery \notin Queries

Indices == 0 .. MaxIndex
NoIndex == -1
Off     == -1
Packets == [id : Indices, question : Names]
NoPacket == [id |-> NoIndex, question |-> NoQuery]

VARIABLES
    sent,        \* queries clients have sent
    serverSock,  \* serverSock[f]: datagrams waiting in m_udp_server4/6
    clientSock,  \* clientSock[f]: datagrams waiting in m_udp_client4/6
    wire,        \* forwarded queries a nameserver may still answer
    replies,     \* what has been sent back to clients
    edges,       \* edge-triggered events epoll has not reported yet
    jobs,        \* m_thread_pool's queue
    indexQueue, pool,  \* TaskPool: free indices, registered tasks
    index,       \* index[q]: timer->index of q's task
    made,        \* number of tasks made
    expire,      \* expire[q]: timer->expire, 0 before q has a task
    heap,        \* TimerHeap: the timers in it, each named by its query
    clock,       \* deadlines passed
    itimer,      \* deadline ITIMER_REAL is set to, or Off
    pc,          \* pc[w]: the next step of worker w
    fam,         \* fam[w]: the family of the socket its handler reads
    packet,      \* packet[w]: local `packet` of UdpClientRecvHandler
    task,        \* task[w]: local `task_ptr`
    timer,       \* timer[w]: local `top_timer`
    now,         \* now[w]: local `now` of UdpTimeoutHandler
    crashed      \* a null or dangling pointer has been dereferenced

netVars  == <<sent, serverSock, clientSock, wire, replies>>
loopVars == <<edges, jobs>>
poolVars == <<indexQueue, pool, index, made, expire>>
timeVars == <<heap, clock, itimer>>
workVars == <<pc, fam, packet, task, timer, now>>
vars == <<netVars, loopVars, poolVars, timeVars, workVars, crashed>>

Labels == {"idle", "srvRecv", "srvPut", "srvPush", "srvSize", "srvArm", "srvSend",
           "cliRecv", "cliHas", "cliGet", "cliDel", "cliSend",
           "tmoNow", "tmoEmpty", "tmoTop", "tmoPop", "tmoHas", "tmoGet", "tmoDel", "tmoSend",
           "tickEmpty", "tickTop", "tickOn", "tickOff"}

Events == ({"server", "client"} \X Families) \cup {<<"alarm", NoFamily>>}
Jobs   == ({"server", "client"} \X Families) \cup ({"udpTimeout", "tcpTimeout"} \X {NoFamily})

TypeOK ==
    /\ sent \subseteq Queries
    /\ serverSock \in [Families -> Seq(Queries)]
    /\ clientSock \in [Families -> Seq(Packets)]
    /\ wire \subseteq [remote : Remotes, id : Indices, question : Names]
    /\ replies \subseteq [to : Queries, question : Names, rcode : {"answer", "servfail"}]
    /\ edges \subseteq Events
    /\ jobs \in Seq(Jobs)
    /\ indexQueue \in Seq(Indices)
    /\ pool \in [Indices -> Queries \cup {NoQuery}]
    /\ index \in [Queries -> Indices \cup {NoIndex}]
    /\ made \in Nat
    /\ expire \in [Queries -> Nat]
    /\ heap \subseteq Queries
    /\ clock \in Nat
    /\ itimer \in Nat \cup {Off}
    /\ pc \in [Workers -> Labels]
    /\ fam \in [Workers -> Families \cup {NoFamily}]
    /\ packet \in [Workers -> Packets \cup {NoPacket}]
    /\ task \in [Workers -> Queries \cup {NoQuery}]
    /\ timer \in [Workers -> Queries \cup {NoQuery}]
    /\ now \in [Workers -> Nat]
    /\ crashed \in BOOLEAN

(* Fault: the indices start at 1. *)
InitialQueue_FromOne == [n \in 1 .. MaxIndex + 1 |-> n]

(* TaskPool's constructor queues every index in order. *)
InitialQueue == [n \in 1 .. MaxIndex + 1 |-> n - 1]

Init ==
    /\ sent = {}
    /\ serverSock = [f \in Families |-> <<>>]
    /\ clientSock = [f \in Families |-> <<>>]
    /\ wire = {}
    /\ replies = {}
    /\ edges = {}
    /\ jobs = <<>>
    /\ indexQueue = InitialQueue
    /\ pool = [i \in Indices |-> NoQuery]
    /\ index = [q \in Queries |-> NoIndex]
    /\ made = 0
    /\ expire = [q \in Queries |-> 0]
    /\ heap = {}
    /\ clock = 0
    /\ itimer = Off
    /\ pc = [w \in Workers |-> "idle"]
    /\ fam = [w \in Workers |-> NoFamily]
    /\ packet = [w \in Workers |-> NoPacket]
    /\ task = [w \in Workers |-> NoQuery]
    /\ timer = [w \in Workers |-> NoQuery]
    /\ now = [w \in Workers |-> 0]
    /\ crashed = FALSE

-----------------------------------------------------------------------------
(* The environment: clients, nameservers, the kernel's clock. *)

ClientSends(q) ==
    LET f == ClientFamily[q] IN
    /\ ~crashed
    /\ q \notin sent
    /\ sent' = sent \cup {q}
    /\ serverSock' = [serverSock EXCEPT ![f] = Append(@, q)]
    /\ edges' = edges \cup {<<"server", f>>}
    /\ UNCHANGED <<clientSock, wire, replies, jobs, poolVars, timeVars, workVars, crashed>>

RemoteAnswers(m) ==
    LET f == RemoteFamily[m.remote] IN
    /\ ~crashed
    /\ m.question \in Answered
    /\ wire' = wire \ {m}
    /\ clientSock' = [clientSock EXCEPT ![f] =
                         Append(@, [id |-> m.id, question |-> m.question])]
    /\ edges' = edges \cup {<<"client", f>>}
    /\ UNCHANGED <<sent, serverSock, replies, jobs, poolVars, timeVars, workVars, crashed>>

DeadlinePasses ==
    /\ ~crashed
    /\ clock < made
    /\ clock < MaxClock
    /\ clock' = clock + 1
    /\ UNCHANGED <<netVars, loopVars, poolVars, heap, itimer, workVars, crashed>>

(* SIGALRM becomes readable on the signalfd; setitimer armed it once. *)
AlarmFires ==
    /\ ~crashed
    /\ itimer # Off
    /\ itimer <= clock
    /\ itimer' = Off
    /\ edges' = edges \cup {<<"alarm", NoFamily>>}
    /\ UNCHANGED <<netVars, jobs, poolVars, heap, clock, workVars, crashed>>

(* Server::Run turns an event into jobs; SIGALRM enqueues both timeout handlers. *)
JobsFor(e) == IF e[1] = "alarm"
              THEN <<<<"udpTimeout", NoFamily>>, <<"tcpTimeout", NoFamily>>>>
              ELSE <<e>>

Dispatch(e) ==
    /\ ~crashed
    /\ e \in edges
    /\ edges' = edges \ {e}
    /\ jobs' = jobs \o JobsFor(e)
    /\ UNCHANGED <<netVars, poolVars, timeVars, workVars, crashed>>

-----------------------------------------------------------------------------
(* Steps of a worker.  Goto ends a step; Return also ends the handler, and   *)
(* with it the lifetime of its locals.  A crash is the end of the process.   *)

At(w, l) == pc[w] = l /\ ~crashed

Goto(w, l) == pc' = [pc EXCEPT ![w] = l]

Return(w) ==
    /\ Goto(w, "idle")
    /\ fam' = [fam EXCEPT ![w] = NoFamily]
    /\ packet' = [packet EXCEPT ![w] = NoPacket]
    /\ task' = [task EXCEPT ![w] = NoQuery]
    /\ timer' = [timer EXCEPT ![w] = NoQuery]
    /\ now' = [now EXCEPT ![w] = 0]

(* The next iteration of a handler's loop: its loop-local variables are gone. *)
Again(w, l) ==
    /\ Goto(w, l)
    /\ packet' = [packet EXCEPT ![w] = NoPacket]
    /\ task' = [task EXCEPT ![w] = NoQuery]
    /\ timer' = [timer EXCEPT ![w] = NoQuery]
    /\ UNCHANGED <<fam, now>>

Crash ==
    /\ crashed' = TRUE
    /\ UNCHANGED <<netVars, loopVars, poolVars, timeVars, workVars>>

FirstStep == [server |-> "srvRecv", client |-> "cliRecv",
              udpTimeout |-> "tmoNow", tcpTimeout |-> "tickOff"]

(* A worker takes the oldest job.  No TCP query is pending in this module:   *)
(* TcpTimeoutHandler finds its heap empty and goes straight to Tick.         *)
StartJob(w) ==
    /\ At(w, "idle")
    /\ jobs # <<>>
    /\ jobs' = Tail(jobs)
    /\ Goto(w, FirstStep[Head(jobs)[1]])
    /\ fam' = [fam EXCEPT ![w] = Head(jobs)[2]]
    /\ UNCHANGED <<netVars, edges, poolVars, timeVars, packet, task, timer, now, crashed>>

-----------------------------------------------------------------------------
(* UdpServerRecvHandler *)

ReceiveQuery(w) ==
    /\ At(w, "srvRecv")
    /\ \/ /\ serverSock[fam[w]] = <<>>
          /\ Return(w)
          /\ UNCHANGED serverSock
       \/ /\ serverSock[fam[w]] # <<>>
          /\ serverSock' = [serverSock EXCEPT ![fam[w]] = Tail(@)]
          /\ task' = [task EXCEPT ![w] = Head(serverSock[fam[w]])]
          /\ Goto(w, "srvPut")
          /\ UNCHANGED <<fam, packet, timer, now>>
    /\ UNCHANGED <<sent, clientSock, wire, replies, loopVars, poolVars, timeVars, crashed>>

(* PutTask; with no index left, front() of an empty queue is undefined. *)
PutTask(w) ==
    /\ At(w, "srvPut")
    /\ indexQueue # <<>>
    /\ LET q == task[w] IN
       /\ indexQueue' = Tail(indexQueue)
       /\ pool' = [pool EXCEPT ![Head(indexQueue)] = q]
       /\ index' = [index EXCEPT ![q] = Head(indexQueue)]
       /\ made' = made + 1
       /\ expire' = [expire EXCEPT ![q] = made + 1]
    /\ Goto(w, "srvPush")
    /\ UNCHANGED <<netVars, loopVars, timeVars, fam, packet, task, timer, now, crashed>>

PutTaskUnderflows(w) == At(w, "srvPut") /\ indexQueue = <<>> /\ Crash

(* Fault: the timer is made but not put in the heap. *)
PushTimer_Forgets(w) ==
    /\ At(w, "srvPush")
    /\ Goto(w, "srvSize")
    /\ UNCHANGED <<netVars, loopVars, poolVars, timeVars, fam, packet, task, timer, now, crashed>>

(* TimerHeap::Push inserts under the lock ... *)
PushTimer(w) ==
    /\ At(w, "srvPush")
    /\ heap' = heap \cup {task[w]}
    /\ Goto(w, "srvSize")
    /\ UNCHANGED <<netVars, loopVars, poolVars, clock, itimer, fam, packet, task, timer,
                   now, crashed>>

(* ... and looks at Size() after releasing it. *)
IsOnlyTimer(w) ==
    /\ At(w, "srvSize")
    /\ Goto(w, IF \E q \in Queries : heap = {q} THEN "srvArm" ELSE "srvSend")
    /\ UNCHANGED <<netVars, loopVars, poolVars, timeVars, fam, packet, task, timer, now, crashed>>

(* A deadline that has passed makes it_value negative: setitimer fails and   *)
(* the exception ends the handler.  Less than a microsecond from it,         *)
(* it_value is 0 and disarms.                                                *)
ArmTimer(w) ==
    LET d == expire[task[w]] IN
    /\ At(w, "srvArm")
    /\ \/ /\ itimer' = IF d > clock THEN d ELSE Off
          /\ Goto(w, "srvSend")
          /\ UNCHANGED <<fam, packet, task, timer, now>>
       \/ /\ d <= clock
          /\ Return(w)
          /\ UNCHANGED itimer
    /\ UNCHANGED <<netVars, loopVars, poolVars, heap, clock, crashed>>

(* Fault: one datagram per event, `if` for `while`. *)
ForwardQuery_Once(w) ==
    /\ At(w, "srvSend")
    /\ wire' = wire \cup {[remote |-> r, id |-> index[task[w]],
                           question |-> QuestionOf[task[w]]] : r \in Remotes}
    /\ Return(w)
    /\ UNCHANGED <<sent, serverSock, clientSock, replies, loopVars, poolVars, timeVars, crashed>>

(* The query goes to every nameserver under its new id. *)
ForwardQuery(w) ==
    /\ At(w, "srvSend")
    /\ wire' = wire \cup {[remote |-> r, id |-> index[task[w]],
                           question |-> QuestionOf[task[w]]] : r \in Remotes}
    /\ Again(w, "srvRecv")
    /\ UNCHANGED <<sent, serverSock, clientSock, replies, loopVars, poolVars, timeVars, crashed>>

-----------------------------------------------------------------------------
(* UdpClientRecvHandler *)

ReceiveAnswer(w) ==
    /\ At(w, "cliRecv")
    /\ \/ /\ clientSock[fam[w]] = <<>>
          /\ Return(w)
          /\ UNCHANGED clientSock
       \/ /\ clientSock[fam[w]] # <<>>
          /\ clientSock' = [clientSock EXCEPT ![fam[w]] = Tail(@)]
          /\ packet' = [packet EXCEPT ![w] = Head(clientSock[fam[w]])]
          /\ Goto(w, "cliHas")
          /\ UNCHANGED <<fam, task, timer, now>>
    /\ UNCHANGED <<sent, serverSock, wire, replies, loopVars, poolVars, timeVars, crashed>>

(* if (!task_pool.HasTask(id)) return; -- not `continue`. *)
AnswerHasTask(w) ==
    /\ At(w, "cliHas")
    /\ \/ /\ pool[packet[w].id] = NoQuery
          /\ Return(w)
       \/ /\ pool[packet[w].id] # NoQuery
          /\ Goto(w, "cliGet")
          /\ UNCHANGED <<fam, packet, task, timer, now>>
    /\ UNCHANGED <<netVars, loopVars, poolVars, timeVars, crashed>>

(* Fault: the answer's question is not compared with the task's. *)
AnswerGetTask_Unchecked(w) ==
    /\ At(w, "cliGet")
    /\ pool[packet[w].id] # NoQuery
    /\ task' = [task EXCEPT ![w] = pool[packet[w].id]]
    /\ Goto(w, "cliDel")
    /\ UNCHANGED <<netVars, loopVars, poolVars, timeVars, fam, packet, timer, now, crashed>>

(* GetTask is a second look at the slot; another handler may have emptied or *)
(* refilled it since.  A null task_ptr is dereferenced.                      *)
AnswerGetTask(w) ==
    LET q == pool[packet[w].id] IN
    /\ At(w, "cliGet")
    /\ q # NoQuery
    /\ \/ /\ QuestionOf[q] # packet[w].question
          /\ Return(w)
       \/ /\ QuestionOf[q] = packet[w].question
          /\ task' = [task EXCEPT ![w] = q]
          /\ Goto(w, "cliDel")
          /\ UNCHANGED <<fam, packet, timer, now>>
    /\ UNCHANGED <<netVars, loopVars, poolVars, timeVars, crashed>>

AnswerGetsNull(w) == At(w, "cliGet") /\ pool[packet[w].id] = NoQuery /\ Crash

(* DelTask empties whatever the slot holds by now and frees the index. *)
DelTask(i) ==
    /\ pool' = [pool EXCEPT ![i] = NoQuery]
    /\ indexQueue' = IF pool[i] = NoQuery THEN indexQueue ELSE Append(indexQueue, i)
    /\ UNCHANGED <<index, made, expire>>

AnswerDelTask(w) ==
    /\ At(w, "cliDel")
    /\ DelTask(packet[w].id)
    /\ Goto(w, "cliSend")
    /\ UNCHANGED <<netVars, loopVars, timeVars, fam, packet, task, timer, now, crashed>>

(* Fault: one answer per event, `if` for `while`. *)
SendAnswer_Once(w) ==
    /\ At(w, "cliSend")
    /\ replies' = replies \cup {[to |-> task[w], question |-> packet[w].question,
                                 rcode |-> "answer"]}
    /\ Return(w)
    /\ UNCHANGED <<sent, serverSock, clientSock, wire, loopVars, poolVars, timeVars, crashed>>

SendAnswer(w) ==
    /\ At(w, "cliSend")
    /\ replies' = replies \cup {[to |-> task[w], question |-> packet[w].question,
                                 rcode |-> "answer"]}
    /\ Again(w, "cliRecv")
    /\ UNCHANGED <<sent, serverSock, clientSock, wire, loopVars, poolVars, timeVars, crashed>>

-----------------------------------------------------------------------------
(* UdpTimeoutHandler and TimerHeap::Tick *)

Earliest(q) == q \in heap /\ \A p \in heap : expire[q] <= expire[p]

(* The task object lives while the pool or a handler points to it; its       *)
(* destructor clears timer->valid.                                           *)
Alive(q) == \/ \E i \in Indices : pool[i] = q
            \/ \E w \in Workers : task[w] = q

ReadClock(w) ==
    /\ At(w, "tmoNow")
    /\ now' = [now EXCEPT ![w] = clock]
    /\ Goto(w, "tmoEmpty")
    /\ UNCHANGED <<netVars, loopVars, poolVars, timeVars, fam, packet, task, timer, crashed>>

HeapEmpty(w) ==
    /\ At(w, "tmoEmpty")
    /\ Goto(w, IF heap = {} THEN "tickEmpty" ELSE "tmoTop")
    /\ UNCHANGED <<netVars, loopVars, poolVars, timeVars, fam, packet, task, timer, now, crashed>>

(* Top()->expire <= now, in a critical section of its own. *)
TopExpired(w) ==
    /\ At(w, "tmoTop")
    /\ \E q \in heap :
          /\ Earliest(q)
          /\ Goto(w, IF expire[q] <= now[w] THEN "tmoPop" ELSE "tickEmpty")
    /\ UNCHANGED <<netVars, loopVars, poolVars, timeVars, fam, packet, task, timer, now, crashed>>

(* Pop() takes what is on top by now. *)
PopTimer(w) ==
    /\ At(w, "tmoPop")
    /\ \E q \in heap :
          /\ Earliest(q)
          /\ heap' = heap \ {q}
          /\ timer' = [timer EXCEPT ![w] = q]
    /\ Goto(w, "tmoHas")
    /\ UNCHANGED <<netVars, loopVars, poolVars, clock, itimer, fam, packet, task, now, crashed>>

(* Top() or Pop() of a heap another handler has emptied since Empty(). *)
HeapUnderflows(w) ==
    /\ At(w, "tmoTop") \/ At(w, "tmoPop") \/ At(w, "tickTop")
    /\ heap = {}
    /\ Crash

TimerHasTask(w) ==
    /\ At(w, "tmoHas")
    /\ \/ /\ ~Alive(timer[w]) \/ pool[index[timer[w]]] = NoQuery
          /\ Again(w, "tmoEmpty")
       \/ /\ Alive(timer[w]) /\ pool[index[timer[w]]] # NoQuery
          /\ Goto(w, "tmoGet")
          /\ UNCHANGED <<fam, packet, task, timer, now>>
    /\ UNCHANGED <<netVars, loopVars, poolVars, timeVars, crashed>>

(* Fault: whatever task has the index by now is timed out. *)
TimerGetTask_Unchecked(w) ==
    /\ At(w, "tmoGet")
    /\ pool[index[timer[w]]] # NoQuery
    /\ task' = [task EXCEPT ![w] = pool[index[timer[w]]]]
    /\ Goto(w, "tmoDel")
    /\ UNCHANGED <<netVars, loopVars, poolVars, timeVars, fam, packet, timer, now, crashed>>

(* if (top_timer != task_ptr->timer) continue; *)
TimerGetTask(w) ==
    LET q == pool[index[timer[w]]] IN
    /\ At(w, "tmoGet")
    /\ q # NoQuery
    /\ \/ /\ q # timer[w]
          /\ Again(w, "tmoEmpty")
       \/ /\ q = timer[w]
          /\ task' = [task EXCEPT ![w] = q]
          /\ Goto(w, "tmoDel")
          /\ UNCHANGED <<fam, packet, timer, now>>
    /\ UNCHANGED <<netVars, loopVars, poolVars, timeVars, crashed>>

TimerGetsNull(w) == At(w, "tmoGet") /\ pool[index[timer[w]]] = NoQuery /\ Crash

TimerDelTask(w) ==
    /\ At(w, "tmoDel")
    /\ DelTask(index[timer[w]])
    /\ Goto(w, "tmoSend")
    /\ UNCHANGED <<netVars, loopVars, timeVars, fam, packet, task, timer, now, crashed>>

(* Fault: an expired query is dropped without a word to its client. *)
SendServfail_Silent(w) ==
    /\ At(w, "tmoSend")
    /\ Again(w, "tmoEmpty")
    /\ UNCHANGED <<netVars, loopVars, poolVars, timeVars, crashed>>

(* Fault: one expired query per alarm, without Tick. *)
SendServfail_Once(w) ==
    /\ At(w, "tmoSend")
    /\ replies' = replies \cup {[to |-> task[w], question |-> QuestionOf[task[w]],
                                 rcode |-> "servfail"]}
    /\ Return(w)
    /\ UNCHANGED <<sent, serverSock, clientSock, wire, loopVars, poolVars, timeVars, crashed>>

SendServfail(w) ==
    /\ At(w, "tmoSend")
    /\ replies' = replies \cup {[to |-> task[w], question |-> QuestionOf[task[w]],
                                 rcode |-> "servfail"]}
    /\ Again(w, "tmoEmpty")
    /\ UNCHANGED <<sent, serverSock, clientSock, wire, loopVars, poolVars, timeVars, crashed>>

TickEmpty(w) ==
    /\ At(w, "tickEmpty")
    /\ Goto(w, IF heap = {} THEN "tickOff" ELSE "tickTop")
    /\ UNCHANGED <<netVars, loopVars, poolVars, timeVars, fam, packet, task, timer, now, crashed>>

TickTop(w) ==
    /\ At(w, "tickTop")
    /\ \E q \in heap : Earliest(q) /\ timer' = [timer EXCEPT ![w] = q]
    /\ Goto(w, "tickOn")
    /\ UNCHANGED <<netVars, loopVars, poolVars, timeVars, fam, packet, task, now, crashed>>

(* Re-arm for the earliest timer; if its deadline has passed, setitimer      *)
(* fails or, within a microsecond of it, disarms.                            *)
TickOn(w) ==
    LET d == expire[timer[w]] IN
    /\ At(w, "tickOn")
    /\ itimer' \in IF d > clock THEN {d} ELSE {itimer, Off}
    /\ Return(w)
    /\ UNCHANGED <<netVars, loopVars, poolVars, heap, clock, crashed>>

(* The heap was empty: disarm the one timer the two heaps share. *)
TickOff(w) ==
    /\ At(w, "tickOff")
    /\ itimer' = Off
    /\ Return(w)
    /\ UNCHANGED <<netVars, loopVars, poolVars, heap, clock, crashed>>

-----------------------------------------------------------------------------
ServerStep(w) == \/ ReceiveQuery(w) \/ PutTask(w) \/ PutTaskUnderflows(w)
                 \/ PushTimer(w) \/ IsOnlyTimer(w) \/ ArmTimer(w) \/ ForwardQuery(w)

ClientStep(w) == \/ ReceiveAnswer(w) \/ AnswerHasTask(w) \/ AnswerGetTask(w)
                 \/ AnswerGetsNull(w) \/ AnswerDelTask(w) \/ SendAnswer(w)

TimeoutStep(w) == \/ ReadClock(w) \/ HeapEmpty(w) \/ TopExpired(w) \/ PopTimer(w) \/ HeapUnderflows(w)
                  \/ TimerHasTask(w) \/ TimerGetTask(w) \/ TimerGetsNull(w)
                  \/ TimerDelTask(w) \/ SendServfail(w)
                  \/ TickEmpty(w) \/ TickTop(w) \/ TickOn(w) \/ TickOff(w)

WorkerStep(w) == StartJob(w) \/ ServerStep(w) \/ ClientStep(w) \/ TimeoutStep(w)

MainStep == \E e \in Events : Dispatch(e)

Environment ==
    \/ \E q \in Queries : ClientSends(q)
    \/ \E m \in wire : RemoteAnswers(m)
    \/ DeadlinePasses
    \/ AlarmFires

Next == (\E w \in Workers : WorkerStep(w)) \/ MainStep \/ Environment

Spec == Init /\ [][Next]_vars

(* Some thread runs, as long as one can: what they have to do is bounded, so *)
(* that each gets its turn.  Clients and nameservers promise nothing.        *)
FairSpec == Spec /\ WF_vars(MainStep \/ \E w \in Workers : WorkerStep(w))

(* Time passes, and the kernel delivers the alarm. *)
TimedSpec == FairSpec /\ WF_vars(DeadlinePasses) /\ WF_vars(AlarmFires)

-----------------------------------------------------------------------------
Registered(q) == \E i \in Indices : pool[i] = q
Replied(q)    == \E m \in replies : m.to = q

(* A client is only ever sent an answer to the question it asked, although   *)
(* indices are reused and stale answers arrive under them: the comparison of *)
(* questions in UdpClientRecvHandler.                                        *)
ReplyAnswersItsQuery == \A m \in replies : m.question = QuestionOf[m.to]

(* A registered query can still time out: its timer is in the heap, or its   *)
(* server handler is about to push it, or a timeout handler has popped it    *)
(* and is about to remove the query.                                         *)
PendingHasTimer ==
    \A q \in Queries : Registered(q) =>
        \/ q \in heap
        \/ \E w \in Workers : task[w] = q /\ pc[w] = "srvPush"
        \/ \E w \in Workers : timer[w] = q /\ pc[w] \in {"tmoHas", "tmoGet", "tmoDel"}

(* Until an index is used a second time, a query that has left the pool has  *)
(* been answered or a handler is about to answer it: DelTask is never the    *)
(* end of a query.                                                           *)
NoForgottenQuery ==
    made <= MaxIndex + 1 =>
        \A q \in Queries : index[q] # NoIndex /\ ~Registered(q) =>
            \/ Replied(q)
            \/ \E w \in Workers : task[w] = q /\ pc[w] \in {"cliSend", "tmoSend"}

(* A SERVFAIL goes to a query whose own timer has left the heap for good: a  *)
(* timer outlives its task, and popped late it names an index that may be    *)
(* another query's by then, which must not be timed out for it.              *)
Popped(q) == q \notin heap /\ \A w \in Workers : pc[w] = "srvPush" => task[w] # q

TimedOutByOwnTimer == \A m \in replies : m.rcode = "servfail" => Popped(m.to)

(* Until a deadline passes, every datagram in a server socket is received    *)
(* and becomes a task, although one edge may stand for many datagrams.       *)
Unread == {q \in sent : index[q] = NoIndex}

RequestDrained == Unread # {} ~> (Unread = {} \/ crashed \/ clock > 0)

(* What a nameserver has answered is relayed, until a deadline passes: its    *)
(* answer waits in a client socket, or is in a handler's hands.              *)
Forwarded(q) ==
    /\ index[q] # NoIndex
    /\ \A w \in Workers : task[w] = q => pc[w] \notin {"srvPush", "srvSize", "srvArm", "srvSend"}

Owed == {q \in Queries :
            /\ Forwarded(q) /\ ~Replied(q)
            /\ \E r \in Remotes :
                  [remote |-> r, id |-> index[q], question |-> QuestionOf[q]] \notin wire}

AnswerRelayed == Owed # {} ~> (Owed = {} \/ crashed \/ clock > 0)

(* When SIGALRM is raised, every pending query whose deadline has passed     *)
(* gets its answer or its SERVFAIL: one alarm serves them all.               *)
AlarmServesExpired ==
    \A q \in Queries :
        (<<"alarm", NoFamily>> \in edges /\ q \in heap /\ expire[q] <= clock /\ Registered(q))
            ~> (~Registered(q) \/ crashed)

(* A query for whose deadline the interval timer has been set leaves the     *)
(* pool in the end, answered or timed out: the timer management of README.md *)
TimeoutServed ==
    \A q \in Queries :
        (Registered(q) /\ itimer = expire[q]) ~> (~Registered(q) \/ crashed)

(* Several nameservers may answer one query: --nameservers=IP1,IP2,...       *)
NoCrash == ~crashed
=============================================================================
