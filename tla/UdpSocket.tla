----------------------------- MODULE UdpSocket -----------------------------
(***************************************************************************)
(* The sending half of one UdpSocket: handlers that send on it from the    *)
(* pool's workers, the send queue for what the kernel does not take, and   *)
(* the thread of Server::Run, which flushes the queue on EPOLLOUT and then *)
(* drops its interest in EPOLLOUT.                                         *)
(*                                                                         *)
(* The kernel takes a datagram while its buffer has room, and reports the  *)
(* socket writable while less than half of the buffer is used.  Epoll is   *)
(* edge triggered: the socket joins the ready list when it becomes         *)
(* writable, when its interest is modified while it is, and when a         *)
(* datagram arrives; epoll_wait takes it off and looks again.              *)
(***************************************************************************)
EXTENDS Integers, Sequences, FiniteSets, Functions

CONSTANTS Workers,
          Datagrams,  \* what the handlers send
          Arming,     \* those whose handler looks at SendTo's result
          Refused,    \* those sendto may fail on with an error of its own
          SndBuf,     \* the kernel's send buffer, in datagrams
          NoDatagram

ASSUME SocketAssumption ==
    /\ Arming \subseteq Datagrams
    /\ Refused \subseteq Datagrams
    /\ SndBuf \in Nat \ {0}
    /\ NoDatagram \notin Datagrams

VARIABLES
    todo,      \* datagrams no handler has tried to send
    pc,        \* pc[w]: before a send, or after a failed one
    held,      \* held[w]: SendTo's argument between sendto and the push
    queue,     \* send_queue
    run,       \* where Server::Run is
    interest,  \* EPOLLOUT is in the socket's epoll events
    ready,     \* the socket is on epoll's ready list
    buffer,    \* datagrams in the kernel
    sent,      \* datagrams that have left
    lost,      \* datagrams an exception has thrown away
    down       \* an exception has left Server::Run, and main with it

vars == <<todo, pc, held, queue, run, interest, ready, buffer, sent, lost, down>>

TypeOK ==
    /\ todo \subseteq Datagrams
    /\ pc \in [Workers -> {"idle", "push", "arm"}]
    /\ held \in [Workers -> Datagrams \cup {NoDatagram}]
    /\ queue \in Seq(Datagrams)
    /\ run \in {"wait", "lock", "flush", "drop"}
    /\ interest \in BOOLEAN
    /\ ready \in BOOLEAN
    /\ buffer \subseteq Datagrams
    /\ sent \subseteq Datagrams
    /\ lost \subseteq Datagrams
    /\ down \in BOOLEAN

Init ==
    /\ todo = Datagrams
    /\ pc = [w \in Workers |-> "idle"]
    /\ held = [w \in Workers |-> NoDatagram]
    /\ queue = <<>>
    /\ run = "wait"
    /\ interest = FALSE
    /\ ready = FALSE
    /\ buffer = {}
    /\ sent = {}
    /\ lost = {}
    /\ down = FALSE

HasRoom(b)  == Cardinality(b) < SndBuf
Writable(b) == 2 * Cardinality(b) < SndBuf

-----------------------------------------------------------------------------
(* The kernel *)

Transmit(d) ==
    /\ ~down
    /\ d \in buffer
    /\ buffer' = buffer \ {d}
    /\ sent' = sent \cup {d}
    /\ ready' = (ready \/ (interest /\ Writable(buffer')))
    /\ UNCHANGED <<todo, pc, held, queue, run, interest, lost, down>>

(* EPOLLIN puts the socket on the ready list, whatever else it is ready for. *)
DatagramArrives ==
    /\ ~down
    /\ ready' = TRUE
    /\ UNCHANGED <<todo, pc, held, queue, run, interest, buffer, sent, lost, down>>

-----------------------------------------------------------------------------
(* SendTo(addr, data) and the handler's EpollModFd after it.                 *)

Send(w, d) ==
    /\ pc[w] = "idle" /\ ~down
    /\ d \in todo
    /\ HasRoom(buffer)
    /\ todo' = todo \ {d}
    /\ buffer' = buffer \cup {d}
    /\ UNCHANGED <<pc, held, queue, run, interest, ready, sent, lost, down>>

(* EAGAIN: the datagram will be queued, under a lock not yet taken.          *)
SendBlocked(w, d) ==
    /\ pc[w] = "idle" /\ ~down
    /\ d \in todo
    /\ ~HasRoom(buffer)
    /\ todo' = todo \ {d}
    /\ held' = [held EXCEPT ![w] = d]
    /\ pc' = [pc EXCEPT ![w] = "push"]
    /\ UNCHANGED <<queue, run, interest, ready, buffer, sent, lost, down>>

(* Any other error ends the handler. *)
SendThrows(w, d) ==
    /\ pc[w] = "idle" /\ ~down
    /\ d \in todo \cap Refused
    /\ todo' = todo \ {d}
    /\ lost' = lost \cup {d}
    /\ UNCHANGED <<pc, held, queue, run, interest, ready, buffer, sent, down>>

(* Fault: the argument has been moved from when it is queued. *)
Push_MovedFrom(w) ==
    /\ pc[w] = "push" /\ ~down
    /\ run # "flush"
    /\ queue' = Append(queue, NoDatagram)
    /\ pc' = [pc EXCEPT ![w] = IF held[w] \in Arming THEN "arm" ELSE "idle"]
    /\ held' = [held EXCEPT ![w] = NoDatagram]
    /\ UNCHANGED <<todo, run, interest, ready, buffer, sent, lost, down>>

(* UdpTimeoutHandler ignores that SendTo has queued the datagram.            *)
Push(w) ==
    /\ pc[w] = "push" /\ ~down
    /\ run # "flush"
    /\ queue' = Append(queue, held[w])
    /\ pc' = [pc EXCEPT ![w] = IF held[w] \in Arming THEN "arm" ELSE "idle"]
    /\ held' = [held EXCEPT ![w] = NoDatagram]
    /\ UNCHANGED <<todo, run, interest, ready, buffer, sent, lost, down>>

Arm(w) ==
    /\ pc[w] = "arm" /\ ~down
    /\ interest' = TRUE
    /\ ready' = (ready \/ Writable(buffer))
    /\ pc' = [pc EXCEPT ![w] = "idle"]
    /\ UNCHANGED <<todo, held, queue, run, buffer, sent, lost, down>>

-----------------------------------------------------------------------------
(* The EPOLLOUT branch of Server::Run: SendTo(), then EpollModFd.            *)

Report ==
    /\ run = "wait" /\ ~down
    /\ ready
    /\ ready' = FALSE
    /\ run' = IF interest /\ Writable(buffer) THEN "lock" ELSE "wait"
    /\ UNCHANGED <<todo, pc, held, queue, interest, buffer, sent, lost, down>>

Lock ==
    /\ run = "lock" /\ ~down
    /\ run' = "flush"
    /\ UNCHANGED <<todo, pc, held, queue, interest, ready, buffer, sent, lost, down>>

(* Fault: sent but not popped. *)
FlushOne_NoPop ==
    /\ run = "flush" /\ ~down
    /\ queue # <<>>
    /\ HasRoom(buffer)
    /\ buffer' = buffer \cup {Head(queue)}
    /\ UNCHANGED <<todo, pc, held, queue, run, interest, ready, sent, lost, down>>

FlushOne ==
    /\ run = "flush" /\ ~down
    /\ queue # <<>>
    /\ HasRoom(buffer)
    /\ buffer' = buffer \cup {Head(queue)}
    /\ queue' = Tail(queue)
    /\ UNCHANGED <<todo, pc, held, run, interest, ready, sent, lost, down>>

(* Fault: a full buffer is reported as an empty queue. *)
FlushBlocked_ReportsEmpty ==
    /\ run = "flush" /\ ~down
    /\ queue # <<>>
    /\ ~HasRoom(buffer)
    /\ run' = "drop"
    /\ UNCHANGED <<todo, pc, held, queue, interest, ready, buffer, sent, lost, down>>

(* The rest waits for the next edge. *)
FlushBlocked ==
    /\ run = "flush" /\ ~down
    /\ queue # <<>>
    /\ ~HasRoom(buffer)
    /\ run' = "wait"
    /\ UNCHANGED <<todo, pc, held, queue, interest, ready, buffer, sent, lost, down>>

(* The exception leaves Run: nobody catches it in the main thread.           *)
FlushThrows ==
    /\ run = "flush" /\ ~down
    /\ queue # <<>>
    /\ Head(queue) \in Refused
    /\ down' = TRUE
    /\ UNCHANGED <<todo, pc, held, queue, run, interest, ready, buffer, sent, lost>>

(* SendTo() returns false; the lock is released. *)
FlushEmpty ==
    /\ run = "flush" /\ ~down
    /\ queue = <<>>
    /\ run' = "drop"
    /\ UNCHANGED <<todo, pc, held, queue, interest, ready, buffer, sent, lost, down>>

DropInterest ==
    /\ run = "drop" /\ ~down
    /\ interest' = FALSE
    /\ run' = "wait"
    /\ UNCHANGED <<todo, pc, held, queue, ready, buffer, sent, lost, down>>

-----------------------------------------------------------------------------
Flush == FlushOne \/ FlushBlocked \/ FlushThrows \/ FlushEmpty

MainStep == Report \/ Lock \/ Flush \/ DropInterest

Handler(w) == \/ \E d \in Datagrams : Send(w, d) \/ SendBlocked(w, d) \/ SendThrows(w, d)
              \/ Push(w)
              \/ Arm(w)

Next == \/ \E w \in Workers : Handler(w)
        \/ MainStep
        \/ \E d \in Datagrams : Transmit(d)
        \/ DatagramArrives

Spec == Init /\ [][Next]_vars

(* Threads run, a SendTo that was begun ends, and the network takes what the *)
(* kernel holds.  Nobody need send anything, nor need a datagram arrive.     *)
FairSpec ==
    /\ Spec
    /\ WF_vars(MainStep)
    /\ \A w \in Workers : WF_vars(Push(w)) /\ WF_vars(Arm(w))
    /\ \A d \in Datagrams : WF_vars(Transmit(d))

-----------------------------------------------------------------------------
Places == [todo   |-> todo,
           held   |-> {held[w] : w \in {v \in Workers : pc[v] = "push"}},
           queue  |-> Range(queue),
           buffer |-> buffer,
           sent   |-> sent,
           lost   |-> lost]

(* A datagram given to SendTo is in one place and reaches the kernel at most *)
(* once: neither the gap between the failed sendto and the push nor a flush  *)
(* that stops half way loses or repeats one.                                 *)
EachDatagramOnce ==
    /\ IsInjective(queue)
    /\ \A v, w \in Workers :
          pc[v] = "push" /\ pc[w] = "push" /\ held[v] = held[w] => v = w
    /\ \A d \in Datagrams :
          \E p \in DOMAIN Places : \A o \in DOMAIN Places : d \in Places[o] <=> o = p

Queued(d) == d \in Range(queue)

(* What is queued while Run is not about to drop its interest, under an      *)
(* interest that is set or about to be, is sent: stopping at a full buffer   *)
(* is safe although epoll is edge triggered.                                 *)
Watched(d) ==
    /\ Queued(d)
    /\ run # "drop"
    /\ interest \/ \E w \in Workers : pc[w] = "arm"

WatchedIsSent == \A d \in Datagrams : Watched(d) ~> (~Queued(d) \/ down)

(* handler.cpp:45: "Add to queue, send later." *)
QueuedIsSent == \A d \in Arming : Queued(d) ~> (~Queued(d) \/ down)
=============================================================================
