----------------------------- MODULE ThreadPool -----------------------------
(***************************************************************************)
(* ThreadPool: its worker threads and the thread that owns it, which is    *)
(* the only one to call enqueue (Server::Run) and the destructor.          *)
(*                                                                         *)
(* m_queue_mutex guards m_tasks and m_stop: a critical section is one      *)
(* action.  m_condition is the set of threads that wait on it; a waiting   *)
(* thread leaves it when it is notified, or spuriously, and takes the      *)
(* mutex again before it looks at the predicate.                           *)
(***************************************************************************)
EXTENDS Integers, Sequences, FiniteSets

CONSTANTS Threads,  \* m_workers
          MaxJobs,  \* bound: calls of enqueue
          NoJob

ASSUME ThreadPoolAssumption ==
    /\ IsFiniteSet(Threads) /\ Threads # {}
    /\ MaxJobs \in Nat
    /\ NoJob \notin 1 .. MaxJobs

VARIABLES
    submitted,  \* calls of enqueue so far; the n-th job is job n
    tasks,      \* m_tasks
    stop,       \* m_stop
    owner,      \* where the owning thread is: in Run, enqueue or the destructor
    pc,         \* pc[w]: where worker w is in its loop
    job,        \* job[w]: local `task`
    finished    \* jobs that have run

vars == <<submitted, tasks, stop, owner, pc, job, finished>>

Jobs == 1 .. MaxJobs
OwnerStates == {"run", "notifyOne", "notifyAll", "join", "destroyed"}
WorkerStates == {"ready", "waiting", "running", "returned"}

TypeOK ==
    /\ submitted \in 0 .. MaxJobs
    /\ tasks \in Seq(Jobs)
    /\ stop \in BOOLEAN
    /\ owner \in OwnerStates
    /\ pc \in [Threads -> WorkerStates]
    /\ job \in [Threads -> Jobs \cup {NoJob}]
    /\ finished \subseteq Jobs

Init ==
    /\ submitted = 0
    /\ tasks = <<>>
    /\ stop = FALSE
    /\ owner = "run"
    /\ pc = [w \in Threads |-> "ready"]
    /\ job = [w \in Threads |-> NoJob]
    /\ finished = {}

Waiting == {w \in Threads : pc[w] = "waiting"}

-----------------------------------------------------------------------------
(* enqueue: under the lock, then notify_one without it.  m_stop is only set  *)
(* by the destructor, so this caller never meets the exception.              *)

Enqueue ==
    /\ owner = "run"
    /\ submitted < MaxJobs
    /\ submitted' = submitted + 1
    /\ tasks' = Append(tasks, submitted')
    /\ owner' = "notifyOne"
    /\ UNCHANGED <<stop, pc, job, finished>>

(* Fault: enqueue does not notify. *)
NotifyOne_Forgotten ==
    /\ owner = "notifyOne"
    /\ owner' = "run"
    /\ UNCHANGED <<submitted, tasks, stop, pc, job, finished>>

NotifyOne ==
    /\ owner = "notifyOne"
    /\ owner' = "run"
    /\ IF Waiting = {}
       THEN UNCHANGED pc
       ELSE \E w \in Waiting : pc' = [pc EXCEPT ![w] = "ready"]
    /\ UNCHANGED <<submitted, tasks, stop, job, finished>>

-----------------------------------------------------------------------------
(* ~ThreadPool *)

SetStop ==
    /\ owner = "run"
    /\ stop' = TRUE
    /\ owner' = "notifyAll"
    /\ UNCHANGED <<submitted, tasks, pc, job, finished>>

(* Fault: the destructor wakes one thread. *)
NotifyAll_One ==
    /\ owner = "notifyAll"
    /\ owner' = "join"
    /\ IF Waiting = {}
       THEN UNCHANGED pc
       ELSE \E w \in Waiting : pc' = [pc EXCEPT ![w] = "ready"]
    /\ UNCHANGED <<submitted, tasks, stop, job, finished>>

NotifyAll ==
    /\ owner = "notifyAll"
    /\ owner' = "join"
    /\ pc' = [w \in Threads |-> IF w \in Waiting THEN "ready" ELSE pc[w]]
    /\ UNCHANGED <<submitted, tasks, stop, job, finished>>

Join ==
    /\ owner = "join"
    /\ \A w \in Threads : pc[w] = "returned"
    /\ owner' = "destroyed"
    /\ UNCHANGED <<submitted, tasks, stop, pc, job, finished>>

-----------------------------------------------------------------------------
(* The loop of a worker. *)

Wait(w) ==
    /\ pc[w] = "ready"
    /\ ~stop
    /\ tasks = <<>>
    /\ pc' = [pc EXCEPT ![w] = "waiting"]
    /\ UNCHANGED <<submitted, tasks, stop, owner, job, finished>>

WakeSpuriously(w) ==
    /\ pc[w] = "waiting"
    /\ pc' = [pc EXCEPT ![w] = "ready"]
    /\ UNCHANGED <<submitted, tasks, stop, owner, job, finished>>

(* Fault: the thread returns as soon as m_stop is set. *)
ReturnWhenStopped_Undrained(w) ==
    /\ pc[w] = "ready"
    /\ stop
    /\ pc' = [pc EXCEPT ![w] = "returned"]
    /\ UNCHANGED <<submitted, tasks, stop, owner, job, finished>>

ReturnWhenStopped(w) ==
    /\ pc[w] = "ready"
    /\ stop
    /\ tasks = <<>>
    /\ pc' = [pc EXCEPT ![w] = "returned"]
    /\ UNCHANGED <<submitted, tasks, stop, owner, job, finished>>

(* Fault: front() without pop(). *)
TakeTask_NoPop(w) ==
    /\ pc[w] = "ready"
    /\ tasks # <<>>
    /\ job' = [job EXCEPT ![w] = Head(tasks)]
    /\ pc' = [pc EXCEPT ![w] = "running"]
    /\ UNCHANGED <<submitted, tasks, stop, owner, finished>>

TakeTask(w) ==
    /\ pc[w] = "ready"
    /\ tasks # <<>>
    /\ job' = [job EXCEPT ![w] = Head(tasks)]
    /\ tasks' = Tail(tasks)
    /\ pc' = [pc EXCEPT ![w] = "running"]
    /\ UNCHANGED <<submitted, stop, owner, finished>>

(* task() runs outside the lock; packaged_task keeps what it throws. *)
RunTask(w) ==
    /\ pc[w] = "running"
    /\ finished' = finished \cup {job[w]}
    /\ job' = [job EXCEPT ![w] = NoJob]
    /\ pc' = [pc EXCEPT ![w] = "ready"]
    /\ UNCHANGED <<submitted, tasks, stop, owner>>

-----------------------------------------------------------------------------
OwnerStep == Enqueue \/ NotifyOne \/ SetStop \/ NotifyAll \/ Join

Loop(w) == Wait(w) \/ ReturnWhenStopped(w) \/ TakeTask(w) \/ RunTask(w)

(* The owner has left the destructor: nothing remains to be done. *)
Destroyed == owner = "destroyed" /\ UNCHANGED vars

Next ==
    \/ OwnerStep
    \/ \E w \in Threads : Loop(w) \/ WakeSpuriously(w)
    \/ Destroyed

Spec == Init /\ [][Next]_vars

(* Threads run, and every job returns; nothing makes the owner enqueue or    *)
(* destroy, but a call it has begun goes on.  Spurious wake-ups may never    *)
(* come.                                                                     *)
FairSpec ==
    /\ Spec
    /\ WF_vars(NotifyOne)
    /\ WF_vars(NotifyAll)
    /\ WF_vars(Join)
    /\ \A w \in Threads : WF_vars(Loop(w))

-----------------------------------------------------------------------------
Running == {job[w] : w \in {v \in Threads : pc[v] = "running"}}
Ready   == {w \in Threads : pc[w] = "ready"}

(* No thread sleeps on the condition while more jobs wait than threads are   *)
(* awake to take them: notify_one after unlocking loses no wake-up.          *)
NoIdleThread ==
    Waiting # {} =>
        Len(tasks) <= Cardinality(Ready) + (IF owner = "notifyOne" THEN 1 ELSE 0)

(* When the destructor returns, every job that was enqueued has run: the     *)
(* threads leave their loops only on an empty queue.                         *)
DrainedWhenDestroyed == owner = "destroyed" => finished = 1 .. submitted

(* The destructor always returns: no thread sleeps through m_stop. *)
DestructorReturns == stop ~> owner = "destroyed"

(* The pool is a job queue: jobs start in the order of enqueue, each exactly *)
(* once, no more at a time than there are threads, and every job runs.       *)
Queue == INSTANCE JobQueue WITH queue <- tasks, running <- Running
ImplementsJobQueue == Queue!Spec
=============================================================================
