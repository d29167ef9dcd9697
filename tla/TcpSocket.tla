----------------------------- MODULE TcpSocket -----------------------------
(***************************************************************************)
(* One TcpSocket: handlers that Send and Receive on it from the pool's     *)
(* workers, and the thread of Server::Run, which turns EPOLLIN into Receive*)
(* jobs and flushes the send buffer on EPOLLOUT.  A byte is a number; the  *)
(* peer's bytes are frames, each with its length in its first two bytes.   *)
(* The connection stays open: closing it is not part of this module.       *)
(*                                                                         *)
(* The kernel takes what its buffer has room for and reports the socket    *)
(* writable while no more than two thirds are used.  Epoll is edge         *)
(* triggered: the socket joins the ready list when it becomes writable,    *)
(* when bytes arrive, and when its interest is modified while it is ready. *)
(***************************************************************************)
EXTENDS Integers, Sequences, SequencesExt

CONSTANTS Workers,
          Messages,  \* what the handlers send
          Frames,    \* what the peer sends
          SndBuf,    \* the kernel's send buffer, in bytes
          BufSize,   \* the size of Receive's buf
          Junk       \* what may lie beyond the end of m_recv_buf

Bytes  == 0 .. 255
Stream == FlattenSeq(Frames)

ASSUME TcpAssumption ==
    /\ Messages \subseteq Seq(Bytes) \ {<<>>}
    /\ Frames \in Seq(Seq(Bytes))
    /\ \A k \in DOMAIN Frames :
          Len(Frames[k]) >= 2 /\ Len(Frames[k]) = Frames[k][1] * 256 + Frames[k][2] + 2
    /\ SndBuf \in Nat \ {0}
    /\ BufSize \in Nat \ {0}
    /\ Junk \subseteq Bytes

VARIABLES
    todo,        \* messages no handler has sent
    pc,          \* pc[w]: before a call, after recv, or after a partial send
    buf,         \* buf[w]: Receive's buf
    m_send_buf,
    m_recv_buf,
    run,         \* where Server::Run is
    interest,    \* EPOLLOUT is in the socket's epoll events
    ready,       \* the socket is on epoll's ready list
    jobs,        \* Receive jobs nobody has started
    used,        \* bytes in the kernel's send buffer
    wire,        \* all bytes the kernel has taken
    given,       \* all bytes given to Send, by its critical sections
    arrived,     \* how much of Stream has arrived
    inbox,       \* arrived and not yet received
    delivered,   \* all bytes Receive has handed out
    overlapped   \* a recv has come between another's recv and its insert

sendVars == <<todo, m_send_buf, interest, used, wire, given>>
recvVars == <<buf, m_recv_buf, inbox, delivered, overlapped>>
vars     == <<sendVars, recvVars, pc, run, ready, jobs, arrived>>

TypeOK ==
    /\ todo \subseteq Messages
    /\ pc \in [Workers -> {"idle", "arm", "insert"}]
    /\ buf \in [Workers -> Seq(Bytes)]
    /\ m_send_buf \in Seq(Bytes)
    /\ m_recv_buf \in Seq(Bytes)
    /\ run \in {"wait", "flush", "drop"}
    /\ interest \in BOOLEAN
    /\ ready \in BOOLEAN
    /\ jobs \in Nat
    /\ used \in 0 .. SndBuf
    /\ wire \in Seq(Bytes)
    /\ given \in Seq(Bytes)
    /\ arrived \in 0 .. Len(Stream)
    /\ inbox \in Seq(Bytes)
    /\ delivered \in Seq(Bytes)
    /\ overlapped \in BOOLEAN

Init ==
    /\ todo = Messages
    /\ pc = [w \in Workers |-> "idle"]
    /\ buf = [w \in Workers |-> <<>>]
    /\ m_send_buf = <<>> /\ m_recv_buf = <<>>
    /\ run = "wait"
    /\ interest = FALSE
    /\ ready = FALSE
    /\ jobs = 0
    /\ used = 0
    /\ wire = <<>> /\ given = <<>>
    /\ arrived = 0
    /\ inbox = <<>> /\ delivered = <<>>
    /\ overlapped = FALSE

First(n, s)   == SubSeq(s, 1, n)
Without(n, s) == SubSeq(s, n + 1, Len(s))
AtMost(n, s)  == IF Len(s) <= n THEN Len(s) ELSE n

-----------------------------------------------------------------------------
(* The kernel *)

Writable(u) == 3 * u <= 2 * SndBuf

Drain(n) ==
    /\ n \in 1 .. used
    /\ used' = used - n
    /\ ready' = (ready \/ (interest /\ ~Writable(used) /\ Writable(used')))
    /\ UNCHANGED <<todo, m_send_buf, interest, wire, given, recvVars, pc, run, jobs, arrived>>

Arrive(n) ==
    /\ n \in 1 .. (Len(Stream) - arrived)
    /\ arrived' = arrived + n
    /\ inbox' = inbox \o SubSeq(Stream, arrived + 1, arrived + n)
    /\ ready' = TRUE
    /\ UNCHANGED <<sendVars, buf, m_recv_buf, delivered, overlapped, pc, run, jobs>>

(* epoll_ctl(EPOLL_CTL_MOD) looks at the socket. *)
Modify(out) ==
    /\ interest' = out
    /\ ready' = (ready \/ inbox # <<>> \/ (out /\ Writable(used)))

-----------------------------------------------------------------------------
(* Send(data), one critical section, and the handler's EpollModFd after it.  *)

SendBuffered(w, d) ==
    /\ pc[w] = "idle"
    /\ d \in todo
    /\ m_send_buf # <<>>
    /\ todo' = todo \ {d}
    /\ given' = given \o d
    /\ m_send_buf' = m_send_buf \o d
    /\ UNCHANGED <<interest, used, wire, recvVars, pc, run, ready, jobs, arrived>>

(* Fault: what send() does not take is dropped. *)
SendNow_Drops(w, d) ==
    LET n == AtMost(SndBuf - used, d)
    IN  /\ pc[w] = "idle"
        /\ d \in todo
        /\ m_send_buf = <<>>
        /\ todo' = todo \ {d}
        /\ given' = given \o d
        /\ wire' = wire \o First(n, d)
        /\ used' = used + n
        /\ pc' = [pc EXCEPT ![w] = IF n < Len(d) THEN "arm" ELSE "idle"]
        /\ UNCHANGED <<m_send_buf, interest, recvVars, run, ready, jobs, arrived>>

SendNow(w, d) ==
    LET n == AtMost(SndBuf - used, d)
    IN  /\ pc[w] = "idle"
        /\ d \in todo
        /\ m_send_buf = <<>>
        /\ todo' = todo \ {d}
        /\ given' = given \o d
        /\ wire' = wire \o First(n, d)
        /\ used' = used + n
        /\ m_send_buf' = Without(n, d)
        /\ pc' = [pc EXCEPT ![w] = IF n < Len(d) THEN "arm" ELSE "idle"]
        /\ UNCHANGED <<interest, recvVars, run, ready, jobs, arrived>>

Arm(w) ==
    /\ pc[w] = "arm"
    /\ Modify(TRUE)
    /\ pc' = [pc EXCEPT ![w] = "idle"]
    /\ UNCHANGED <<todo, m_send_buf, used, wire, given, recvVars, run, jobs, arrived>>

-----------------------------------------------------------------------------
(* Receive(data): recv, then one critical section of m_recv_mutex.           *)

Recv(w) ==
    LET n == AtMost(BufSize, inbox)
    IN  /\ pc[w] = "idle"
        /\ jobs > 0
        /\ jobs' = jobs - 1
        /\ buf' = [buf EXCEPT ![w] = First(n, inbox)]
        /\ inbox' = Without(n, inbox)
        /\ overlapped' = (overlapped \/ (n > 0 /\ \E v \in Workers : buf[v] # <<>>))
        /\ pc' = [pc EXCEPT ![w] = "insert"]
        /\ UNCHANGED <<sendVars, m_recv_buf, delivered, run, ready, arrived>>

(* Fault: the length read in the other byte order. *)
FrameLength_Swapped(s, n, junk) ==
    s[n + 1] + (IF n + 2 <= Len(s) THEN s[n + 2] ELSE junk) * 256 + 2

(* The second length byte may lie beyond the end: any value may be read.     *)
FrameLength(s, n, junk) ==
    s[n + 1] * 256 + (IF n + 2 <= Len(s) THEN s[n + 2] ELSE junk) + 2

(* Fault: `<` for `<=`. *)
FramesEnd_Strict(s, junk) ==
    LET end[n \in 0 .. Len(s)] ==
            IF n < Len(s) /\ n + FrameLength(s, n, junk) < Len(s)
            THEN end[n + FrameLength(s, n, junk)]
            ELSE n
    IN  end[0]

(* Where the whole frames at the front of s end. *)
FramesEnd(s, junk) ==
    LET end[n \in 0 .. Len(s)] ==
            IF n < Len(s) /\ n + FrameLength(s, n, junk) <= Len(s)
            THEN end[n + FrameLength(s, n, junk)]
            ELSE n
    IN  end[0]

Insert(w) ==
    \E junk \in Junk :
        LET all == m_recv_buf \o buf[w]
            n   == FramesEnd(all, junk)
        IN  /\ pc[w] = "insert"
            /\ m_recv_buf' = Without(n, all)
            /\ delivered' = delivered \o First(n, all)
            /\ buf' = [buf EXCEPT ![w] = <<>>]
            /\ pc' = [pc EXCEPT ![w] = "idle"]
            /\ UNCHANGED <<sendVars, inbox, overlapped, run, ready, jobs, arrived>>

-----------------------------------------------------------------------------
(* Server::Run: a Receive job on EPOLLIN; on EPOLLOUT Send(), one critical   *)
(* section, then EpollModFd if nothing is left.                              *)

Report ==
    /\ run = "wait"
    /\ ready
    /\ ready' = FALSE
    /\ jobs' = IF inbox # <<>> THEN jobs + 1 ELSE jobs
    /\ run' = IF interest /\ Writable(used) THEN "flush" ELSE "wait"
    /\ UNCHANGED <<sendVars, recvVars, pc, arrived>>

(* Fault: Run takes the buffer for empty whatever send() took. *)
Flush_DropsInterest ==
    LET n == AtMost(SndBuf - used, m_send_buf)
    IN  /\ run = "flush"
        /\ wire' = wire \o First(n, m_send_buf)
        /\ used' = used + n
        /\ m_send_buf' = Without(n, m_send_buf)
        /\ run' = "drop"
        /\ UNCHANGED <<todo, interest, given, recvVars, pc, ready, jobs, arrived>>

(* Fault: the flush does not wait for room. *)
Flush_Whole ==
    /\ run = "flush"
    /\ wire' = wire \o m_send_buf
    /\ used' = used + Len(m_send_buf)
    /\ m_send_buf' = <<>>
    /\ run' = "drop"
    /\ UNCHANGED <<todo, interest, given, recvVars, pc, ready, jobs, arrived>>

Flush ==
    LET n == AtMost(SndBuf - used, m_send_buf)
    IN  /\ run = "flush"
        /\ wire' = wire \o First(n, m_send_buf)
        /\ used' = used + n
        /\ m_send_buf' = Without(n, m_send_buf)
        /\ run' = IF m_send_buf' = <<>> THEN "drop" ELSE "wait"
        /\ UNCHANGED <<todo, interest, given, recvVars, pc, ready, jobs, arrived>>

DropInterest ==
    /\ run = "drop"
    /\ Modify(FALSE)
    /\ run' = "wait"
    /\ UNCHANGED <<todo, m_send_buf, used, wire, given, recvVars, pc, jobs, arrived>>

-----------------------------------------------------------------------------
MainStep == Report \/ Flush \/ DropInterest

Handler(w) == \/ \E d \in Messages : SendBuffered(w, d) \/ SendNow(w, d)
              \/ Arm(w)
              \/ Recv(w)
              \/ Insert(w)

Kernel == \/ \E n \in 1 .. SndBuf : Drain(n)
          \/ \E n \in 1 .. Len(Stream) : Arrive(n)

Next == MainStep \/ (\E w \in Workers : Handler(w)) \/ Kernel

Spec == Init /\ [][Next]_vars

(* Threads run, jobs are started, calls that were begun end, and the peer    *)
(* takes what the kernel holds.  Nobody need send anything.                  *)
FairSpec ==
    /\ Spec
    /\ WF_vars(MainStep)
    /\ \A w \in Workers : WF_vars(Arm(w)) /\ WF_vars(Recv(w)) /\ WF_vars(Insert(w))
    /\ WF_vars(\E n \in 1 .. SndBuf : Drain(n))

-----------------------------------------------------------------------------
(* Partial sends, flushes and buffered messages of several workers put the   *)
(* bytes on the wire in the order of the calls, each message in one piece.   *)
SentInOrder == wire \o m_send_buf = given

(* What Receive hands out is the peer's frames, whole and in order, however  *)
(* the bytes arrive, and no whole frame waits in m_recv_buf - unless one     *)
(* worker's recv has come between another's recv and its insert.             *)
FramesUnlessOverlapped ==
    ~overlapped =>
        \E k \in 0 .. Len(Frames) :
            /\ delivered = FlattenSeq(SubSeq(Frames, 1, k))
            /\ IF k = Len(Frames) THEN m_recv_buf = <<>>
                                  ELSE IsStrictPrefix(m_recv_buf, Frames[k + 1])

(* What a partial send has left is flushed, unless it was left while Run was *)
(* about to drop its interest in EPOLLOUT.                                   *)
Watched ==
    /\ m_send_buf # <<>>
    /\ run # "drop"
    /\ interest \/ \E w \in Workers : pc[w] = "arm"

BufferedIsSent == Watched ~> m_send_buf = <<>>

(* A frame that has arrived whole is handed out, whatever else the epoll     *)
(* events of the connection are for.                                         *)
FramesDelivered ==
    \A k \in 1 .. Len(Frames) :
        LET end == Len(FlattenSeq(SubSeq(Frames, 1, k)))
        IN  arrived >= end ~> (Len(delivered) >= end \/ overlapped)
=============================================================================
