------------------------------- MODULE Server -------------------------------
(***************************************************************************)
(* The life of the process: main's options and signal mask, the Server's   *)
(* constructor, AddRemote, the loop of Run around the thread pool, and the *)
(* destructor, which destroys the members in the reverse of the order in   *)
(* which server.h declares them.  m_thread_pool is in the middle: jobs     *)
(* that are queued or running then may use members that are gone.          *)
(*                                                                         *)
(* Here a job is only what it refers to; UdpRelay and TcpRelay have what   *)
(* it does.  To touch what has been destroyed is undefined: dangled notes  *)
(* it, and the model goes on as a process would that survives it.          *)
(***************************************************************************)
EXTENDS ThreadPool

CONSTANTS Sockets,  \* the kinds of socket that get events in an instance
          Remotes   \* what --nameservers may list

SocketKinds == {"udpServer", "udpClient", "listener", "tcpServer", "tcpClient"}

ASSUME ServerAssumption == Sockets \subseteq SocketKinds

VARIABLES main,       \* where the main thread is
          nameservers,\* those main has yet to add
          clients,    \* m_tcp_client4 and m_tcp_client6
          signals,    \* pending signals; "term" is SIGTERM or SIGINT
          ready,      \* sockets epoll has an event of
          batch,      \* m_events, those Run has yet to handle
          todo,       \* the jobs it has yet to enqueue for the current one
          kind,       \* kind[j]: the handler that job j is a call of
          stopFlag,   \* Server's m_stop
          members,    \* what of the Server is constructed and not destroyed
          dangled     \* a job touched something that was not

mainVars   == <<main, nameservers, clients, stopFlag>>
loopVars   == <<ready, batch, todo, kind>>
serverVars == <<mainVars, signals, loopVars, members, dangled>>
allVars    == <<vars, serverVars>>

(* The members in the order of their destruction. *)
Destruction_PoolLast == <<"tcpTimerHeap", "udpTimerHeap", "tcpTaskPool", "udpTaskPool",
                          "remoteAddrs", "mutexes", "connectionSets", "listeners",
                          "udpSockets", "threadPool">>

Destruction == <<"tcpTimerHeap", "udpTimerHeap", "tcpTaskPool", "udpTaskPool", "threadPool",
                 "remoteAddrs", "mutexes", "connectionSets", "listeners", "udpSockets">>

Members == {Destruction[n] : n \in DOMAIN Destruction}

(* What the arguments of a handler refer to; the TcpServers and TcpClients,  *)
(* "connections", live until ~Server deletes them.                           *)
Uses ==
    [udpServer  |-> {"udpSockets", "remoteAddrs", "udpTaskPool", "udpTimerHeap"},
     udpClient  |-> {"udpSockets", "udpTaskPool"},
     udpTimeout |-> {"udpSockets", "udpTaskPool", "udpTimerHeap"},
     listener   |-> {"listeners", "connectionSets", "mutexes"},
     tcpServer  |-> {"connections", "connectionSets", "mutexes", "tcpTaskPool", "tcpTimerHeap"},
     tcpClient  |-> {"connections", "connectionSets", "mutexes", "tcpTaskPool"},
     tcpTimeout |-> {"connections", "connectionSets", "mutexes", "tcpTaskPool", "tcpTimerHeap"}]

(* Fault: one handler for SIGALRM. *)
JobsOf_OneEach == [e \in SocketKinds \cup {"alrm"} |-> <<e>>]

JobsOf == [e \in SocketKinds \cup {"alrm"} |->
              IF e = "alrm" THEN <<"udpTimeout", "tcpTimeout">> ELSE <<e>>]

Ended == {"exited", "aborted", "killed"}

ServerTypeOK ==
    /\ TypeOK
    /\ main \in Ended \cup {"options", "block", "construct", "remotes", "run", "batch",
                            "destruct", "members"}
    /\ nameservers \subseteq Remotes /\ clients \subseteq Remotes
    /\ signals \subseteq {"term", "alrm"}
    /\ ready \subseteq Sockets
    /\ batch \subseteq Sockets \cup {"signalfd"}
    /\ todo \in Seq(DOMAIN Uses)
    /\ kind \in Seq(DOMAIN Uses) /\ Len(kind) = submitted
    /\ stopFlag \in BOOLEAN
    /\ members \subseteq Members \cup {"connections"}
    /\ dangled \in BOOLEAN

ServerInit ==
    /\ Init
    /\ main = "options"
    /\ nameservers = {} /\ clients = {}
    /\ signals = {}
    /\ ready = {} /\ batch = {} /\ todo = <<>> /\ kind = <<>>
    /\ stopFlag = FALSE
    /\ members = {}
    /\ dangled = FALSE

At(label) == main = label
Goto(label) == main' = label

Move(from, to) ==
    /\ At(from) /\ Goto(to)
    /\ UNCHANGED <<vars, nameservers, clients, stopFlag, signals, loopVars, members, dangled>>

-----------------------------------------------------------------------------
(* main, up to Run.  An exception there has no handler.                      *)

(* --help, wherever it stands on the command line. *)
GiveHelp == Move("options", "exited")

ReadOptions ==
    /\ At("options") /\ Goto("block")
    /\ nameservers' \in SUBSET Remotes
    /\ UNCHANGED <<vars, clients, stopFlag, signals, loopVars, members, dangled>>

(* A local address is none. *)
ReadOptionsThrows == Move("options", "aborted")

BlockSignals == Move("block", "construct")

(* The sockets are bound and the threads started.  m_stop is not set: it is  *)
(* what the memory held.                                                     *)
Construct ==
    /\ At("construct") /\ Goto("remotes")
    /\ members' = Members \cup {"connections"}
    /\ stopFlag' \in BOOLEAN
    /\ UNCHANGED <<vars, nameservers, clients, signals, loopVars, dangled>>

(* The port is taken, or the process may not listen there. *)
ConstructThrows == Move("construct", "aborted")

(* The constructor of TcpClient connects ... *)
AddRemote(r) ==
    /\ At("remotes")
    /\ r \in nameservers
    /\ nameservers' = nameservers \ {r}
    /\ clients' = clients \cup {r}
    /\ UNCHANGED <<vars, main, stopFlag, signals, loopVars, members, dangled>>

(* ... or throws. *)
AddRemoteThrows == nameservers # {} /\ Move("remotes", "aborted")

CallRun == nameservers = {} /\ Move("remotes", "run")

-----------------------------------------------------------------------------
(* Run *)

EpollWait ==
    /\ At("run")
    /\ ~stopFlag
    /\ ready # {} \/ signals # {}
    /\ batch' = ready \cup IF signals # {} THEN {"signalfd"} ELSE {}
    /\ ready' = {}
    /\ Goto("batch")
    /\ UNCHANGED <<vars, nameservers, clients, stopFlag, signals, todo, kind, members, dangled>>

HandleEvent(s) ==
    /\ At("batch")
    /\ owner = "run" /\ todo = <<>>
    /\ s \in batch \ {"signalfd"}
    /\ batch' = batch \ {s}
    /\ todo' = JobsOf[s]
    /\ UNCHANGED <<vars, mainVars, signals, ready, kind, members, dangled>>

(* Fault: SIGTERM is read and forgotten. *)
HandleSignal_Ignored(s) ==
    /\ At("batch")
    /\ owner = "run" /\ todo = <<>>
    /\ "signalfd" \in batch /\ s \in signals
    /\ batch' = batch \ {"signalfd"}
    /\ signals' = signals \ {s}
    /\ todo' = IF s = "alrm" THEN JobsOf["alrm"] ELSE <<>>
    /\ UNCHANGED <<vars, mainVars, ready, kind, members, dangled>>

(* One signal is read; epoll reports the descriptor again for the next. *)
HandleSignal(s) ==
    /\ At("batch")
    /\ owner = "run" /\ todo = <<>>
    /\ "signalfd" \in batch /\ s \in signals
    /\ batch' = batch \ {"signalfd"}
    /\ signals' = signals \ {s}
    /\ IF s = "alrm" THEN todo' = JobsOf["alrm"] /\ UNCHANGED stopFlag
                     ELSE stopFlag' = TRUE /\ UNCHANGED todo
    /\ UNCHANGED <<vars, main, nameservers, clients, ready, kind, members, dangled>>

EnqueueJob ==
    /\ todo # <<>>
    /\ Enqueue
    /\ kind' = Append(kind, Head(todo))
    /\ todo' = Tail(todo)
    /\ UNCHANGED <<mainVars, signals, ready, batch, members, dangled>>

(* The events of a batch are all handled before m_stop is looked at. *)
BatchDone ==
    /\ owner = "run" /\ todo = <<>> /\ batch = {}
    /\ Move("batch", "run")

RunReturns == stopFlag /\ Move("run", "destruct")

-----------------------------------------------------------------------------
(* ~Server and the destructors of its members.                               *)

(* The signalfd and the epoll descriptor are closed, and the TcpServers and  *)
(* TcpClients deleted; no worker is asked.                                   *)
DestroyServer ==
    /\ At("destruct")
    /\ Goto("members")
    /\ clients' = {}
    /\ ready' = {} /\ signals' = {}
    /\ members' = members \ {"connections"}
    /\ UNCHANGED <<vars, nameservers, stopFlag, batch, todo, kind, dangled>>

(* The member whose turn it is. *)
NextMember(m) ==
    \E n \in DOMAIN Destruction :
        /\ m = Destruction[n] /\ m \in members
        /\ \A k \in 1 .. n - 1 : Destruction[k] \notin members

(* A member other than the thread pool, or the thread pool after its Join. *)
DestroyMember(m) ==
    /\ At("members")
    /\ NextMember(m)
    /\ m = "threadPool" => owner = "destroyed"
    /\ members' = members \ {m}
    /\ UNCHANGED <<vars, mainVars, signals, loopVars, dangled>>

DestroyThreadPool ==
    /\ At("members")
    /\ NextMember("threadPool")
    /\ SetStop
    /\ UNCHANGED serverVars

ReturnFromMain == members = {} /\ Move("members", "exited")

-----------------------------------------------------------------------------
(* The environment.  Jobs are bounded by MaxJobs.                            *)

Due == submitted + Len(todo) + Cardinality(ready \cup (batch \ {"signalfd"}))
           + IF "alrm" \in signals THEN 2 ELSE 0

Arrive(s) ==
    /\ main \in {"remotes", "run", "batch"}
    /\ s \notin ready \cup batch
    /\ Due < MaxJobs
    /\ ready' = ready \cup {s}
    /\ UNCHANGED <<vars, mainVars, signals, batch, todo, kind, members, dangled>>

(* Until it is blocked a signal ends the process. *)
Terminate ==
    /\ \/ /\ main \in {"options", "block"}
          /\ Goto("killed")
          /\ UNCHANGED signals
       \/ /\ main \in {"construct", "remotes", "run", "batch"}
          /\ signals' = signals \cup {"term"}
          /\ UNCHANGED main
    /\ UNCHANGED <<vars, nameservers, clients, stopFlag, loopVars, members, dangled>>

(* Only handlers set the interval timer. *)
Alarm ==
    /\ main \in {"run", "batch"}
    /\ "alrm" \notin signals
    /\ finished # {}
    /\ Due + 1 < MaxJobs
    /\ signals' = signals \cup {"alrm"}
    /\ UNCHANGED <<vars, mainVars, loopVars, members, dangled>>

(* A running job touches what its arguments refer to. *)
Touch(w) ==
    /\ main \notin Ended
    /\ pc[w] = "running"
    /\ ~(Uses[kind[job[w]]] \subseteq members)
    /\ ~dangled
    /\ dangled' = TRUE
    /\ UNCHANGED <<vars, mainVars, signals, loopVars, members>>

-----------------------------------------------------------------------------
Worker(w)   == main \notin Ended /\ members # {} /\ Loop(w) /\ UNCHANGED serverVars
Spurious(w) == main \notin Ended /\ members # {} /\ WakeSpuriously(w) /\ UNCHANGED serverVars
Notify      == (NotifyOne \/ NotifyAll \/ Join) /\ UNCHANGED serverVars

MainThread ==
    \/ GiveHelp \/ ReadOptions \/ ReadOptionsThrows \/ BlockSignals
    \/ Construct \/ ConstructThrows \/ AddRemoteThrows \/ CallRun
    \/ \E r \in Remotes : AddRemote(r)
    \/ EpollWait \/ EnqueueJob \/ BatchDone \/ RunReturns
    \/ \E s \in Sockets : HandleEvent(s)
    \/ \E s \in {"term", "alrm"} : HandleSignal(s)
    \/ Notify
    \/ DestroyServer \/ DestroyThreadPool \/ ReturnFromMain
    \/ \E m \in Members : DestroyMember(m)

Outside == Terminate \/ Alarm \/ \E s \in Sockets : Arrive(s)

ProcessEnded == main \in Ended /\ UNCHANGED allVars

ServerNext ==
    \/ MainThread
    \/ \E w \in Threads : Worker(w) \/ Spurious(w) \/ Touch(w)
    \/ Outside
    \/ ProcessEnded

ServerSpec ==
    /\ ServerInit /\ [][ServerNext]_allVars
    /\ WF_allVars(MainThread)
    /\ \A w \in Threads : WF_allVars(Worker(w))

-----------------------------------------------------------------------------
(* What server.h declares before m_thread_pool is there for as long as a job *)
(* is queued or runs: the sockets, the connection sets and their mutexes are *)
(* not pulled from under a handler.  (What it declares after it, is.)        *)
DeclaredBefore == {"remoteAddrs", "mutexes", "connectionSets", "listeners", "udpSockets"}

SocketsOutliveJobs == tasks # <<>> \/ Running # {} => DeclaredBefore \subseteq members

(* A SIGTERM or SIGINT that comes when the signals are blocked ends the      *)
(* process, whatever jobs are queued: Run returns, and no destructor hangs.  *)
TerminatedOnSignal == "term" \in signals ~> main \in Ended
=============================================================================
