---------------------------- MODULE ServerProofs ----------------------------
(***************************************************************************)
(* What holds of the thread pool and of the process around it, for every   *)
(* number of threads, jobs, kinds of socket and nameservers: the pool is a *)
(* job queue that drains, and the sockets outlive the jobs.                *)
(***************************************************************************)
EXTENDS Server, SequenceLemmas, FiniteSetTheorems

-----------------------------------------------------------------------------
(* The thread pool, as a part of the process and by itself. *)

(* A worker holds a job exactly while it runs it. *)
HoldsWhileRunning == \A w \in Threads : pc[w] = "running" => job[w] \in Jobs

Typed == TypeOK /\ HoldsWhileRunning

(* m_stop is set exactly from the destructor's critical section on, a worker *)
(* leaves its loop only then, and join waits for all of them.                *)
StopProtocol ==
    /\ stop <=> owner \in {"notifyAll", "join", "destroyed"}
    /\ \A w \in Threads : pc[w] = "returned" => stop /\ tasks = <<>>
    /\ owner = "destroyed" => \A w \in Threads : pc[w] = "returned"

(* The queue holds the last jobs enqueued, in order.                         *)
InOrder ==
    /\ Len(tasks) <= submitted
    /\ \A n \in 1 .. Len(tasks) : tasks[n] = submitted - Len(tasks) + n

(* Every job that has left the queue is running, on one thread, or finished. *)
Accounted ==
    /\ \A j \in 1 .. (submitted - Len(tasks)) : j \in finished \cup Running
    /\ \A j \in finished \cup Running : 1 <= j /\ j <= submitted - Len(tasks)
    /\ \A v, w \in Threads :
          pc[v] = "running" /\ pc[w] = "running" /\ job[v] = job[w] => v = w

IInv == Typed /\ StopProtocol /\ InOrder /\ Accounted

-----------------------------------------------------------------------------
(* The constructor's state has the types. *)
LEMMA TypedInit == Init => Typed
<1>1. SUFFICES ASSUME Init PROVE Typed OBVIOUS
<1>2. MaxJobs \in Nat BY ThreadPoolAssumption
<1>3. <<>> \in Seq(Jobs) BY EmptySeq
<1>4. submitted \in 0 .. MaxJobs /\ tasks \in Seq(Jobs) /\ finished \subseteq Jobs
  BY <1>1, <1>2, <1>3 DEF Init
<1>5. stop \in BOOLEAN /\ owner \in OwnerStates BY <1>1 DEF Init, OwnerStates
<1>6. /\ pc \in [Threads -> WorkerStates]
      /\ job \in [Threads -> Jobs \cup {NoJob}]
      /\ \A w \in Threads : pc[w] # "running"
  BY <1>1 DEF Init, WorkerStates
<1>7. QED BY <1>4, <1>5, <1>6 DEF Typed, TypeOK, HoldsWhileRunning

(* Every step keeps the types. *)
LEMMA TypedStep == Typed /\ [Next]_vars => Typed'
<1>1. SUFFICES ASSUME Typed, [Next]_vars PROVE Typed' OBVIOUS
<1> USE <1>1 DEF Typed, TypeOK, HoldsWhileRunning, OwnerStates, WorkerStates
<1>2. MaxJobs \in Nat BY ThreadPoolAssumption
<1>3. CASE Enqueue
  <2>1. submitted + 1 \in Jobs /\ submitted + 1 \in 0 .. MaxJobs
    BY <1>2, <1>3 DEF Enqueue, Jobs
  <2>2. Append(tasks, submitted + 1) \in Seq(Jobs) BY <2>1, PushFacts
  <2>3. QED BY <1>3, <2>1, <2>2 DEF Enqueue
<1>4. CASE NotifyOne BY <1>4 DEF NotifyOne, Waiting
<1>5. CASE SetStop BY <1>5 DEF SetStop
<1>6. CASE NotifyAll BY <1>6 DEF NotifyAll, Waiting
<1>7. CASE Join BY <1>7 DEF Join
<1>8. ASSUME NEW w \in Threads, Wait(w) PROVE Typed' BY <1>8 DEF Wait
<1>9. ASSUME NEW w \in Threads, WakeSpuriously(w) PROVE Typed' BY <1>9 DEF WakeSpuriously
<1>10. ASSUME NEW w \in Threads, ReturnWhenStopped(w) PROVE Typed'
  BY <1>10 DEF ReturnWhenStopped
<1>11. ASSUME NEW w \in Threads, TakeTask(w) PROVE Typed'
  <2>1. Head(tasks) \in Jobs /\ Tail(tasks) \in Seq(Jobs) BY <1>11, PopFacts DEF TakeTask
  <2>2. QED BY <1>11, <2>1 DEF TakeTask
<1>12. ASSUME NEW w \in Threads, RunTask(w) PROVE Typed' BY <1>12 DEF RunTask
<1>13. CASE UNCHANGED vars BY <1>13 DEF vars
<1>14. QED
  BY <1>3, <1>4, <1>5, <1>6, <1>7, <1>8, <1>9, <1>10, <1>11, <1>12, <1>13
     DEF Next, OwnerStep, Loop, Destroyed

(* No thread stops, and nobody joins, before m_stop. *)
LEMMA StopStep == Typed /\ StopProtocol /\ [Next]_vars => StopProtocol'
<1>1. SUFFICES ASSUME Typed, StopProtocol, [Next]_vars PROVE StopProtocol' OBVIOUS
<1> USE <1>1 DEF Typed, TypeOK, StopProtocol, WorkerStates, OwnerStates
<1>2. CASE Enqueue
  <2>1. ~stop BY <1>2 DEF Enqueue
  <2>2. QED BY <1>2, <2>1 DEF Enqueue
<1>3. CASE NotifyOne BY <1>3 DEF NotifyOne, Waiting
<1>4. CASE SetStop BY <1>4 DEF SetStop
<1>5. CASE NotifyAll BY <1>5 DEF NotifyAll, Waiting
<1>6. CASE Join BY <1>6 DEF Join
<1>7. ASSUME NEW w \in Threads, Wait(w) PROVE StopProtocol' BY <1>7 DEF Wait
<1>8. ASSUME NEW w \in Threads, WakeSpuriously(w) PROVE StopProtocol' BY <1>8 DEF WakeSpuriously
<1>9. ASSUME NEW w \in Threads, ReturnWhenStopped(w) PROVE StopProtocol'
  BY <1>9 DEF ReturnWhenStopped
<1>10. ASSUME NEW w \in Threads, TakeTask(w) PROVE StopProtocol' BY <1>10 DEF TakeTask
<1>11. ASSUME NEW w \in Threads, RunTask(w) PROVE StopProtocol' BY <1>11 DEF RunTask
<1>12. CASE UNCHANGED vars BY <1>12 DEF vars
<1>13. QED
  BY <1>2, <1>3, <1>4, <1>5, <1>6, <1>7, <1>8, <1>9, <1>10, <1>11, <1>12
     DEF Next, OwnerStep, Loop, Destroyed

(* The queue stays the last jobs enqueued, in order. *)
LEMMA InOrderStep == Typed /\ InOrder /\ [Next]_vars => InOrder'
<1>1. SUFFICES ASSUME Typed, InOrder, [Next]_vars PROVE InOrder' OBVIOUS
<1>2. submitted \in Nat /\ tasks \in Seq(Jobs) /\ Len(tasks) \in Nat /\ MaxJobs \in Nat
  BY <1>1, ThreadPoolAssumption, EmptyFacts DEF Typed, TypeOK
<1>3. CASE Enqueue
  <2>1. submitted + 1 \in Jobs BY <1>2, <1>3 DEF Enqueue, Jobs
  <2>2. /\ Len(tasks') = Len(tasks) + 1
        /\ \A n \in 1 .. Len(tasks) : tasks'[n] = tasks[n]
        /\ tasks'[Len(tasks) + 1] = submitted + 1
    BY <1>2, <1>3, <2>1, PushFacts DEF Enqueue
  <2>3. submitted' = submitted + 1 BY <1>3 DEF Enqueue
  <2>4. QED BY <1>1, <1>2, <2>2, <2>3 DEF InOrder
<1>4. ASSUME NEW w \in Threads, TakeTask(w) PROVE InOrder'
  <2>1. /\ Len(tasks') = Len(tasks) - 1
        /\ Len(tasks) \in Nat \ {0}
        /\ \A n \in 1 .. Len(tasks) - 1 : tasks'[n] = tasks[n + 1]
    BY <1>2, <1>4, PopFacts DEF TakeTask
  <2>2. submitted' = submitted BY <1>4 DEF TakeTask
  <2>3. QED BY <1>1, <1>2, <2>1, <2>2 DEF InOrder
<1>5. CASE UNCHANGED <<submitted, tasks>> BY <1>1, <1>5 DEF InOrder
<1>6. QED
  BY <1>1, <1>3, <1>4, <1>5
     DEF Next, OwnerStep, Loop, Destroyed, NotifyOne, SetStop, NotifyAll, Join, Wait,
         WakeSpuriously, ReturnWhenStopped, RunTask, vars

(* Steps that move no job keep the account. *)
LEMMA AccountedSame ==
    ASSUME Accounted, UNCHANGED <<submitted, tasks, finished, job>>,
           \A w \in Threads : pc'[w] = "running" <=> pc[w] = "running"
    PROVE  Accounted'
<1>1. Running' = Running BY DEF Running
<1>2. QED BY <1>1 DEF Accounted

(* No job is dropped, run twice, or run on two threads. *)
LEMMA AccountedStep == Typed /\ InOrder /\ Accounted /\ [Next]_vars => Accounted'
<1>1. SUFFICES ASSUME Typed, InOrder, Accounted, [Next]_vars PROVE Accounted' OBVIOUS
<1>2. submitted \in Nat /\ tasks \in Seq(Jobs) /\ Len(tasks) \in Nat /\ MaxJobs \in Nat
  BY <1>1, ThreadPoolAssumption, EmptyFacts DEF Typed, TypeOK
<1>3. /\ pc \in [Threads -> WorkerStates]
      /\ job \in [Threads -> Jobs \cup {NoJob}]
      /\ \A w \in Threads : pc[w] = "running" => job[w] \in Jobs
      /\ \A j \in Jobs : j \in Nat
  BY <1>1, <1>2 DEF Typed, TypeOK, HoldsWhileRunning, Jobs
<1>4. CASE Enqueue
  <2>1. submitted + 1 \in Jobs BY <1>2, <1>4 DEF Enqueue, Jobs
  <2>2. submitted' - Len(tasks') = submitted - Len(tasks)
    BY <1>2, <1>4, <2>1, PushFacts DEF Enqueue
  <2>3. Running' = Running /\ UNCHANGED <<finished, pc, job>> BY <1>4 DEF Enqueue, Running
  <2>4. QED BY <1>1, <2>2, <2>3 DEF Accounted
<1>5. CASE NotifyOne BY <1>1, <1>3, <1>5, AccountedSame DEF NotifyOne, Waiting, WorkerStates
<1>6. CASE SetStop BY <1>1, <1>6, AccountedSame DEF SetStop
<1>7. CASE NotifyAll BY <1>1, <1>3, <1>7, AccountedSame DEF NotifyAll, Waiting, WorkerStates
<1>8. CASE Join BY <1>1, <1>8, AccountedSame DEF Join
<1>9. ASSUME NEW w \in Threads, Wait(w) \/ WakeSpuriously(w) \/ ReturnWhenStopped(w)
      PROVE  Accounted'
  BY <1>1, <1>3, <1>9, AccountedSame DEF Wait, WakeSpuriously, ReturnWhenStopped
<1>10. ASSUME NEW w \in Threads, TakeTask(w) PROVE Accounted'
  <2>1. /\ Len(tasks') = Len(tasks) - 1
        /\ Len(tasks) \in Nat \ {0}
        /\ Head(tasks) = tasks[1]
    BY <1>2, <1>10, PopFacts DEF TakeTask
  <2> DEFINE next == submitted - Len(tasks) + 1
  <2>2. Head(tasks) = next BY <1>1, <1>2, <2>1 DEF InOrder
  <2>3. submitted' - Len(tasks') = next BY <1>2, <1>10, <2>1 DEF TakeTask
  <2>4. /\ pc' = [pc EXCEPT ![w] = "running"]
        /\ job' = [job EXCEPT ![w] = next]
        /\ finished' = finished
        /\ pc[w] # "running"
    BY <1>10, <2>2 DEF TakeTask
  <2>5. /\ next \in Running'
        /\ \A j \in Running : j \in Running'
        /\ \A j \in Running' : j \in Running \/ j = next
    BY <1>3, <2>4 DEF Running
  <2>6. next \in Int /\ \A j \in 1 .. next : j \in 1 .. (next - 1) \/ j = next BY <1>2
  <2>7. next - 1 = submitted - Len(tasks) BY <1>2
  <2>8. \A j \in 1 .. next : j \in finished' \cup Running'
    BY <1>1, <2>4, <2>5, <2>6, <2>7 DEF Accounted
  <2>9. ASSUME NEW j \in finished' \cup Running' PROVE 1 <= j /\ j <= next
    <3>1. CASE j = next BY <3>1, <1>1, <1>2 DEF InOrder
    <3>2. CASE j # next
      <4>1. j \in finished \cup Running BY <3>2, <2>4, <2>5, <2>9
      <4>2. j \in Nat BY <4>1, <1>1, <1>3 DEF Running, Typed, TypeOK
      <4>3. 1 <= j /\ j <= submitted - Len(tasks) BY <1>1, <4>1 DEF Accounted
      <4>4. QED BY <4>2, <4>3, <1>2
    <3>3. QED BY <3>1, <3>2
  <2>10. ASSUME NEW u \in Threads, NEW v \in Threads,
                pc'[u] = "running", pc'[v] = "running", job'[u] = job'[v]
         PROVE  u = v
    <3>1. \A t \in Threads : pc[t] = "running" => job[t] # next
      <4>1. SUFFICES ASSUME NEW t \in Threads, pc[t] = "running", job[t] = next PROVE FALSE
        OBVIOUS
      <4>2. job[t] \in Running BY <4>1 DEF Running
      <4>3. next <= submitted - Len(tasks) BY <4>1, <4>2, <1>1 DEF Accounted
      <4>4. QED BY <4>3, <1>2
    <3>2. CASE u = w /\ v = w BY <3>2
    <3>3. CASE u = w /\ v # w BY <3>3, <3>1, <2>4, <2>10, <1>3
    <3>4. CASE u # w /\ v = w BY <3>4, <3>1, <2>4, <2>10, <1>3
    <3>5. CASE u # w /\ v # w
      <4>1. pc[u] = "running" /\ pc[v] = "running" /\ job[u] = job[v]
        BY <3>5, <2>4, <2>10, <1>3
      <4>2. QED BY <4>1, <1>1 DEF Accounted
    <3>6. QED BY <3>2, <3>3, <3>4, <3>5
  <2>11. QED BY <2>3, <2>8, <2>9, <2>10 DEF Accounted
<1>11. ASSUME NEW w \in Threads, RunTask(w) PROVE Accounted'
  <2>1. /\ pc' = [pc EXCEPT ![w] = "ready"]
        /\ job' = [job EXCEPT ![w] = NoJob]
        /\ finished' = finished \cup {job[w]}
        /\ pc[w] = "running"
        /\ UNCHANGED <<submitted, tasks>>
    BY <1>11 DEF RunTask
  <2>2. finished' \cup Running' = finished \cup Running BY <1>3, <2>1 DEF Running
  <2>3. \A v \in Threads : pc'[v] = "running" => pc[v] = "running" /\ job'[v] = job[v]
    BY <1>3, <2>1
  <2>4. QED BY <1>1, <2>1, <2>2, <2>3 DEF Accounted
<1>12. CASE UNCHANGED vars BY <1>1, <1>12, AccountedSame DEF vars
<1>13. QED
  BY <1>1, <1>4, <1>5, <1>6, <1>7, <1>8, <1>9, <1>10, <1>11, <1>12
     DEF Next, OwnerStep, Loop, Destroyed

-----------------------------------------------------------------------------
(* The strengthened invariant holds at the start ... *)
LEMMA IInvInit == Init => IInv
<1>1. SUFFICES ASSUME Init PROVE IInv OBVIOUS
<1>2. Typed BY <1>1, TypedInit
<1>3. StopProtocol BY <1>1 DEF Init, StopProtocol
<1>4. Len(tasks) = 0 /\ submitted = 0 BY <1>1 DEF Init
<1>5. InOrder BY <1>4 DEF InOrder
<1>6. Running = {} /\ finished = {} /\ \A w \in Threads : pc[w] # "running"
  BY <1>1 DEF Init, Running
<1>7. Accounted BY <1>4, <1>6 DEF Accounted
<1>8. QED BY <1>2, <1>3, <1>5, <1>7 DEF IInv

(* ... and after every step. *)
LEMMA IInvStep == IInv /\ [Next]_vars => IInv'
BY TypedStep, StopStep, InOrderStep, AccountedStep DEF IInv

LEMMA IInvAlways == Spec => []IInv
BY IInvInit, IInvStep, PTL DEF Spec

(* Every variable keeps its type. *)
THEOREM TypeCorrect == Spec => []TypeOK
<1>1. IInv => TypeOK BY DEF IInv, Typed
<1>2. QED BY <1>1, IInvAlways, PTL

(* ThreadPool's destructor (threadpool.cpp:40-49) returns only after every   *)
(* job that was ever enqueued has run.                                       *)
THEOREM Drained == Spec => []DrainedWhenDestroyed
<1>1. ASSUME IInv, owner = "destroyed" PROVE finished = 1 .. submitted
  <2>1. \A w \in Threads : pc[w] = "returned" BY <1>1 DEF IInv, StopProtocol
  <2>2. Running = {} BY <2>1 DEF Running
  <2>3. PICK w \in Threads : TRUE BY ThreadPoolAssumption
  <2>4. tasks = <<>> BY <1>1, <2>1, <2>3 DEF IInv, StopProtocol
  <2>5. Len(tasks) = 0 /\ submitted \in Nat
    BY <1>1, <2>4, ThreadPoolAssumption DEF IInv, Typed, TypeOK
  <2>6. finished \subseteq Nat
    BY <1>1, ThreadPoolAssumption DEF IInv, Typed, TypeOK, Jobs
  <2>7. \A j \in 1 .. submitted : j \in finished BY <1>1, <2>2, <2>5 DEF IInv, Accounted
  <2>8. \A j \in finished : 1 <= j /\ j <= submitted BY <1>1, <2>5, <2>6 DEF IInv, Accounted
  <2>9. finished \subseteq 1 .. submitted
    <3>1. SUFFICES ASSUME NEW j \in finished PROVE j \in 1 .. submitted OBVIOUS
    <3>2. j \in Nat BY <2>6
    <3>3. 1 <= j /\ j <= submitted BY <2>8
    <3>4. QED BY <3>2, <3>3, <2>5
  <2>10. QED BY <2>7, <2>9
<1>2. IInv => DrainedWhenDestroyed BY <1>1 DEF DrainedWhenDestroyed
<1>3. QED BY <1>2, IInvAlways, PTL

-----------------------------------------------------------------------------
(* Workers that are awake, when one of them wakes up or sleeps.              *)
LEMMA ReadySize == IsFiniteSet(Ready) /\ Cardinality(Ready) \in Nat
<1>1. Ready \in SUBSET Threads BY DEF Ready
<1>2. QED BY <1>1, FS_Subset, FS_CardinalityType, ThreadPoolAssumption

LEMMA OneMoreReady ==
    ASSUME TypeOK, NEW w \in Threads, pc[w] # "ready", pc' = [pc EXCEPT ![w] = "ready"]
    PROVE  Cardinality(Ready') = Cardinality(Ready) + 1
<1>1. Ready' = Ready \cup {w} BY DEF Ready, TypeOK
<1>2. w \notin Ready BY DEF Ready
<1>3. QED BY <1>1, <1>2, ReadySize, FS_AddElement

LEMMA OneLessReady ==
    ASSUME TypeOK, NEW w \in Threads, NEW s \in WorkerStates \ {"ready"},
           pc[w] = "ready", pc' = [pc EXCEPT ![w] = s]
    PROVE  Cardinality(Ready') = Cardinality(Ready) - 1
<1>1. Ready' = Ready \ {w} BY DEF Ready, TypeOK, WorkerStates
<1>2. w \in Ready BY DEF Ready
<1>3. QED BY <1>1, <1>2, ReadySize, FS_RemoveElement

(* What the owner's pending notify_one still owes. *)
Owed == IF owner = "notifyOne" THEN 1 ELSE 0

(* Every step leaves enough workers awake for the queue. *)
LEMMA NoIdleStep == Typed /\ NoIdleThread /\ [Next]_vars => NoIdleThread'
<1>1. SUFFICES ASSUME Typed, NoIdleThread, [Next]_vars, Waiting' # {}
               PROVE  Len(tasks)' <= Cardinality(Ready') + Owed'
  BY DEF NoIdleThread, Owed
<1>2. /\ TypeOK
      /\ tasks \in Seq(Jobs) /\ Len(tasks) \in Nat
      /\ tasks = <<>> <=> Len(tasks) = 0
  BY <1>1, EmptyFacts DEF Typed, TypeOK
<1>3. Cardinality(Ready) \in Nat BY ReadySize
<1>4. Owed \in 0 .. 1 BY DEF Owed
<1>5. Waiting # {} => Len(tasks) <= Cardinality(Ready) + Owed
  BY <1>1 DEF NoIdleThread, Owed
<1>6. CASE Enqueue
  <2>1. Ready' = Ready /\ Waiting' = Waiting /\ Owed = 0 /\ Owed' = 1
    BY <1>6 DEF Enqueue, Ready, Waiting, Owed
  <2>2. submitted + 1 \in Jobs /\ tasks' = Append(tasks, submitted + 1)
    BY <1>2, <1>6, ThreadPoolAssumption DEF Enqueue, TypeOK, Jobs
  <2>3. Len(tasks)' = Len(tasks) + 1 BY <1>2, <2>2, PushFacts
  <2>4. QED BY <1>1, <1>2, <1>3, <1>5, <2>1, <2>3
<1>7. CASE NotifyOne
  <2>1. Waiting # {} BY <1>1, <1>7 DEF NotifyOne, Waiting
  <2>2. PICK w \in Waiting : pc' = [pc EXCEPT ![w] = "ready"] BY <1>7, <2>1 DEF NotifyOne
  <2>3. Cardinality(Ready') = Cardinality(Ready) + 1
    BY <1>2, <2>2, OneMoreReady DEF Waiting
  <2>4. tasks' = tasks /\ Owed = 1 /\ Owed' = 0 BY <1>7 DEF NotifyOne, Owed
  <2>5. QED BY <1>2, <1>3, <1>5, <2>1, <2>3, <2>4
<1>8. CASE SetStop
  <2>1. Ready' = Ready /\ Waiting' = Waiting /\ tasks' = tasks /\ Owed' = Owed
    BY <1>8 DEF SetStop, Ready, Waiting, Owed
  <2>2. QED BY <1>1, <1>5, <2>1
<1>9. CASE NotifyAll
  <2>1. Waiting' = {} BY <1>9 DEF NotifyAll, Waiting
  <2>2. QED BY <1>1, <2>1
<1>10. CASE Join
  <2>1. Ready' = Ready /\ Waiting' = Waiting /\ tasks' = tasks /\ Owed' = Owed
    BY <1>10 DEF Join, Ready, Waiting, Owed
  <2>2. QED BY <1>1, <1>5, <2>1
<1>11. ASSUME NEW w \in Threads, Wait(w) \/ ReturnWhenStopped(w)
       PROVE  Len(tasks)' <= Cardinality(Ready') + Owed'
  <2>1. tasks' = tasks /\ Len(tasks) = 0 /\ Owed' = Owed
    BY <1>2, <1>11 DEF Wait, ReturnWhenStopped, Owed
  <2>2. Cardinality(Ready') \in Nat
    <3>1. Ready' \in SUBSET Threads BY DEF Ready
    <3>2. QED BY <3>1, FS_Subset, FS_CardinalityType, ThreadPoolAssumption
  <2>3. QED BY <1>4, <2>1, <2>2
<1>12. ASSUME NEW w \in Threads, WakeSpuriously(w)
       PROVE  Len(tasks)' <= Cardinality(Ready') + Owed'
  <2>1. Waiting # {} /\ tasks' = tasks /\ Owed' = Owed
    BY <1>12 DEF WakeSpuriously, Waiting, Owed
  <2>2. Cardinality(Ready') = Cardinality(Ready) + 1
    BY <1>2, <1>12, OneMoreReady DEF WakeSpuriously
  <2>3. QED BY <1>2, <1>3, <1>4, <1>5, <2>1, <2>2
<1>13. ASSUME NEW w \in Threads, TakeTask(w)
       PROVE  Len(tasks)' <= Cardinality(Ready') + Owed'
  <2>1. Waiting # {}
    BY <1>1, <1>2, <1>13 DEF TakeTask, Waiting, TypeOK
  <2>2. Len(tasks)' = Len(tasks) - 1 /\ Owed' = Owed
    BY <1>2, <1>13, PopFacts DEF TakeTask, Owed
  <2>3. Cardinality(Ready') = Cardinality(Ready) - 1
    BY <1>2, <1>13, OneLessReady DEF TakeTask, WorkerStates
  <2>4. QED BY <1>2, <1>3, <1>4, <1>5, <2>1, <2>2, <2>3
<1>14. ASSUME NEW w \in Threads, RunTask(w)
       PROVE  Len(tasks)' <= Cardinality(Ready') + Owed'
  <2>1. Waiting # {}
    BY <1>1, <1>2, <1>14 DEF RunTask, Waiting, TypeOK
  <2>2. tasks' = tasks /\ Owed' = Owed BY <1>14 DEF RunTask, Owed
  <2>3. Cardinality(Ready') = Cardinality(Ready) + 1
    BY <1>2, <1>14, OneMoreReady DEF RunTask
  <2>4. QED BY <1>2, <1>3, <1>4, <1>5, <2>1, <2>2, <2>3
<1>15. CASE UNCHANGED vars
  <2>1. Ready' = Ready /\ Waiting' = Waiting /\ tasks' = tasks /\ Owed' = Owed
    BY <1>15 DEF vars, Ready, Waiting, Owed
  <2>2. QED BY <1>1, <1>5, <2>1
<1>16. QED
  BY <1>1, <1>6, <1>7, <1>8, <1>9, <1>10, <1>11, <1>12, <1>13, <1>14, <1>15
     DEF Next, OwnerStep, Loop, Destroyed

(* No worker sleeps while more jobs wait than workers are awake for them:    *)
(* enqueue (threadpool.h:29) may notify after it has unlocked the mutex.     *)
THEOREM NoLostWakeUp == Spec => []NoIdleThread
<1>1. Init => NoIdleThread
  <2>1. SUFFICES ASSUME Init PROVE Waiting = {} BY DEF NoIdleThread
  <2>2. QED BY <2>1 DEF Init, Waiting
<1>2. Typed /\ NoIdleThread /\ [Next]_vars => (Typed /\ NoIdleThread)'
  BY TypedStep, NoIdleStep
<1>3. QED BY <1>1, <1>2, TypedInit, PTL DEF Spec

-----------------------------------------------------------------------------
(* Fewer jobs run than there are threads while one thread is not running.    *)
LEMMA FreeThread ==
    ASSUME TypeOK, NEW w \in Threads, pc[w] # "running"
    PROVE  Cardinality(Running) < Cardinality(Threads)
<1> DEFINE Busy == {v \in Threads : pc[v] = "running"}
<1> DEFINE jobOf == [v \in Busy |-> job[v]]
<1>1. Busy \in SUBSET (Threads \ {w}) OBVIOUS
<1>2. /\ IsFiniteSet(Threads \ {w})
      /\ Cardinality(Threads \ {w}) = Cardinality(Threads) - 1
      /\ Cardinality(Threads) \in Nat
  BY FS_RemoveElement, FS_CardinalityType, ThreadPoolAssumption
<1>3. /\ IsFiniteSet(Busy)
      /\ Cardinality(Busy) <= Cardinality(Threads) - 1
      /\ Cardinality(Busy) \in Nat
  BY <1>1, <1>2, FS_Subset, FS_CardinalityType
<1>4. jobOf \in Surjection(Busy, Running) BY DEF Surjection, Running
<1>5. Cardinality(Running) <= Cardinality(Busy) /\ Cardinality(Running) \in Nat
  BY <1>3, <1>4, FS_Surjection, FS_CardinalityType
<1>6. QED BY <1>2, <1>3, <1>5

(* A step that neither takes nor runs a job changes nothing that runs.       *)
LEMMA RunningSame ==
    ASSUME Typed, UNCHANGED job,
           \A v \in Threads : pc'[v] = "running" <=> pc[v] = "running"
    PROVE  Running' = Running
BY DEF Running

(* Every step of the pool is a step of the job queue, or leaves it alone.    *)
LEMMA QueueStep == IInv /\ IInv' /\ [Next]_vars => [Queue!Next]_(Queue!vars)
<1>1. SUFFICES ASSUME IInv, IInv', [Next]_vars PROVE [Queue!Next]_(Queue!vars) OBVIOUS
<1>2. Typed /\ TypeOK BY <1>1 DEF IInv, Typed
<1>3. ASSUME UNCHANGED <<submitted, tasks, finished, job>>,
             \A v \in Threads : pc'[v] = "running" <=> pc[v] = "running"
      PROVE  UNCHANGED Queue!vars
  BY <1>2, <1>3, RunningSame DEF Queue!vars
<1>4. CASE Enqueue
  <2>1. Running' = Running BY <1>4 DEF Enqueue, Running
  <2>2. Queue!Submit BY <1>4, <2>1 DEF Enqueue, Queue!Submit
  <2>3. QED BY <2>2 DEF Queue!Next
<1>5. CASE NotifyOne BY <1>2, <1>3, <1>5 DEF NotifyOne, Waiting, TypeOK
<1>6. CASE SetStop BY <1>3, <1>6 DEF SetStop
<1>7. CASE NotifyAll BY <1>2, <1>3, <1>7 DEF NotifyAll, Waiting, TypeOK
<1>8. CASE Join BY <1>3, <1>8 DEF Join
<1>9. ASSUME NEW w \in Threads, Wait(w) PROVE UNCHANGED Queue!vars
  BY <1>2, <1>3, <1>9 DEF Wait, TypeOK
<1>10. ASSUME NEW w \in Threads, WakeSpuriously(w) PROVE UNCHANGED Queue!vars
  BY <1>2, <1>3, <1>10 DEF WakeSpuriously, TypeOK
<1>11. ASSUME NEW w \in Threads, ReturnWhenStopped(w) PROVE UNCHANGED Queue!vars
  BY <1>2, <1>3, <1>11 DEF ReturnWhenStopped, TypeOK
<1>12. ASSUME NEW w \in Threads, TakeTask(w) PROVE Queue!Next
  <2>1. /\ pc[w] # "running"
        /\ pc' = [pc EXCEPT ![w] = "running"]
        /\ job' = [job EXCEPT ![w] = Head(tasks)]
    BY <1>12 DEF TakeTask
  <2>2. Running' = Running \cup {Head(tasks)} BY <1>2, <2>1 DEF Running, TypeOK
  <2>3. Cardinality(Running) < Cardinality(Threads) BY <1>2, <2>1, FreeThread
  <2>4. tasks # <<>> /\ tasks' = Tail(tasks) /\ UNCHANGED <<submitted, finished>>
    BY <1>12 DEF TakeTask
  (* JobQueue's instance of FiniteSets has a Cardinality of its own. *)
  <2>5. \A S : Queue!Cardinality(S) = Cardinality(S) BY DEF Cardinality, Queue!Cardinality
  <2>6. Queue!Start BY <2>2, <2>3, <2>4, <2>5 DEF Queue!Start
  <2>7. QED BY <2>6 DEF Queue!Next
<1>13. ASSUME NEW w \in Threads, RunTask(w) PROVE Queue!Next
  <2>1. /\ pc[w] = "running" /\ pc' = [pc EXCEPT ![w] = "ready"]
        /\ job' = [job EXCEPT ![w] = NoJob]
        /\ finished' = finished \cup {job[w]}
    BY <1>13 DEF RunTask
  <2>2. job[w] \in Running BY <2>1 DEF Running
  <2>3. \A v \in Threads : pc[v] = "running" /\ job[v] = job[w] => v = w
    BY <1>1, <2>1 DEF IInv, Accounted
  <2>4. Running' = Running \ {job[w]} BY <1>2, <2>1, <2>3 DEF Running, TypeOK
  <2>5. Queue!Finish(job[w]) BY <1>13, <2>1, <2>4 DEF RunTask, Queue!Finish
  <2>6. QED BY <2>2, <2>5 DEF Queue!Next
<1>14. CASE UNCHANGED vars BY <1>3, <1>14 DEF vars
<1>15. QED
  BY <1>1, <1>4, <1>5, <1>6, <1>7, <1>8, <1>9, <1>10, <1>11, <1>12, <1>13, <1>14
     DEF Next, OwnerStep, Loop, Destroyed

(* ThreadPool starts the jobs in the order of enqueue, each exactly once and *)
(* at most one per thread: it is a job queue.  (That every job starts is     *)
(* left to the model checker.)                                               *)
THEOREM QueueSafety == Spec => Queue!Init /\ [][Queue!Next]_(Queue!vars)
<1>1. Init => Queue!Init
  <2>1. SUFFICES ASSUME Init PROVE Queue!Init OBVIOUS
  <2>2. Running = {} BY <2>1 DEF Init, Running
  <2>3. QED BY <2>1, <2>2 DEF Init, Queue!Init
<1>2. QED BY <1>1, IInvAlways, QueueStep, PTL DEF Spec

-----------------------------------------------------------------------------
(* To the thread pool, whatever the process does is a step of its own, or    *)
(* nothing.                                                                  *)
LEMMA PoolStep == [ServerNext]_allVars => [Next]_vars
<1>1. SUFFICES ASSUME [ServerNext]_allVars PROVE [Next]_vars OBVIOUS
<1>2. CASE EnqueueJob BY <1>2 DEF EnqueueJob, Next, OwnerStep
<1>3. CASE Notify BY <1>3 DEF Notify, Next, OwnerStep
<1>4. CASE DestroyThreadPool BY <1>4 DEF DestroyThreadPool, Next, OwnerStep
<1>5. ASSUME NEW w \in Threads, Worker(w) \/ Spurious(w) PROVE [Next]_vars
  BY <1>5 DEF Worker, Spurious, Next
<1>6. CASE UNCHANGED vars BY <1>6
<1>7. CASE GiveHelp \/ ReadOptionsThrows \/ BlockSignals \/ ConstructThrows
           \/ AddRemoteThrows \/ CallRun \/ BatchDone \/ RunReturns \/ ReturnFromMain
  BY <1>7 DEF GiveHelp, ReadOptionsThrows, BlockSignals, ConstructThrows, AddRemoteThrows,
              CallRun, BatchDone, RunReturns, ReturnFromMain, Move
<1>8. CASE ReadOptions \/ Construct \/ EpollWait \/ DestroyServer \/ Outside
  BY <1>8 DEF ReadOptions, Construct, EpollWait, DestroyServer, Outside, Terminate, Alarm, Arrive
<1>9. CASE \/ \E r \in Remotes : AddRemote(r)
           \/ \E s \in Sockets : HandleEvent(s)
           \/ \E s \in {"term", "alrm"} : HandleSignal(s)
           \/ \E m \in Members : DestroyMember(m)
           \/ \E w \in Threads : Touch(w)
  BY <1>9 DEF AddRemote, HandleEvent, HandleSignal, DestroyMember, Touch
<1>10. QED
  BY <1>1, <1>2, <1>3, <1>4, <1>5, <1>6, <1>7, <1>8, <1>9
     DEF ServerNext, MainThread, ProcessEnded, allVars

(* The thread pool of the process behaves as ThreadPool says, whoever calls  *)
(* it, and whenever the process ends.                                        *)
THEOREM PoolInProcess == ServerSpec => Spec
<1>1. ServerInit => Init BY DEF ServerInit
<1>2. QED BY <1>1, PoolStep, PTL DEF ServerSpec, Spec

(* So a process that returns from its last destructor has run every job.     *)
THEOREM DrainedInProcess == ServerSpec => []DrainedWhenDestroyed
BY PoolInProcess, Drained, PTL

-----------------------------------------------------------------------------
(* Nothing is queued and nothing runs. *)
Quiet == tasks = <<>> /\ \A w \in Threads : pc[w] # "running"

(* Run's events become jobs before Run looks at m_stop again; as long as it  *)
(* may enqueue, there is a pool; without one, no job is left; and what was   *)
(* declared before the pool is destroyed after it.                           *)
Life ==
    /\ todo = <<>> \/ main = "batch"
    /\ main \in {"remotes", "run", "batch"} => "threadPool" \in members
    /\ "threadPool" \notin members => Quiet
    /\ "threadPool" \in members => DeclaredBefore \subseteq members

LEMMA LifeInit == ServerInit => Life
BY DEF ServerInit, Init, Life, Quiet

(* Only enqueue ends the quiet. *)
LEMMA QuietStep == Typed /\ Quiet /\ [Next]_vars => Enqueue \/ Quiet'
<1>1. SUFFICES ASSUME Typed, Quiet, [Next]_vars, ~Enqueue PROVE Quiet' OBVIOUS
<1> USE <1>1 DEF Typed, TypeOK, Quiet
<1>2. CASE NotifyOne BY <1>2 DEF NotifyOne, Waiting
<1>3. CASE SetStop BY <1>3 DEF SetStop
<1>4. CASE NotifyAll BY <1>4 DEF NotifyAll, Waiting
<1>5. CASE Join BY <1>5 DEF Join
<1>6. ASSUME NEW w \in Threads, Loop(w) PROVE Quiet'
  BY <1>6 DEF Loop, Wait, ReturnWhenStopped, TakeTask, RunTask
<1>7. ASSUME NEW w \in Threads, WakeSpuriously(w) PROVE Quiet' BY <1>7 DEF WakeSpuriously
<1>8. CASE UNCHANGED vars BY <1>8 DEF vars
<1>9. QED
  BY <1>2, <1>3, <1>4, <1>5, <1>6, <1>7, <1>8 DEF Next, OwnerStep, Destroyed

(* The destructor of the pool returns when all workers have: on an empty     *)
(* queue, and there is at least one.                                         *)
LEMMA DestroyedIsQuiet == IInv /\ owner = "destroyed" => Quiet
BY ThreadPoolAssumption DEF IInv, StopProtocol, Quiet

(* Steps that leave the members and Run's position alone. *)
LEMMA LifeSame ==
    ASSUME Life, UNCHANGED <<main, todo, members>>, Quiet => Quiet'
    PROVE  Life'
BY DEF Life

(* Members go in the order of Destruction: one declared before the pool goes *)
(* when the pool is gone.                                                    *)
LEMMA PoolGoesFirst ==
    ASSUME NEW m \in DeclaredBefore, NextMember(m)
    PROVE  "threadPool" \notin members
<1>1. /\ DOMAIN Destruction = 1 .. 10 /\ Destruction[5] = "threadPool"
      /\ \A n \in 1 .. 5 : Destruction[n] \notin DeclaredBefore
  BY DEF Destruction, DeclaredBefore
<1>2. PICK n \in 1 .. 10 : m = Destruction[n] /\ \A k \in 1 .. n - 1 : Destruction[k] \notin members
  BY <1>1 DEF NextMember
<1>3. n > 5 BY <1>1, <1>2
<1>4. QED BY <1>1, <1>2, <1>3

LEMMA LifeStep == IInv /\ Life /\ [ServerNext]_allVars => Life'
<1>1. SUFFICES ASSUME IInv, Life, [ServerNext]_allVars PROVE Life' OBVIOUS
<1>2. Enqueue \/ (Quiet => Quiet') BY <1>1, PoolStep, QuietStep DEF IInv
<1>3. UNCHANGED vars => (Quiet => Quiet') BY DEF vars, Quiet
<1>4. CASE EnqueueJob
  <2>1. main = "batch" /\ "threadPool" \in members BY <1>1, <1>4 DEF EnqueueJob, Life
  <2>2. QED BY <1>1, <1>4, <2>1 DEF EnqueueJob, mainVars, Life
<1>5. CASE Notify
  <2>1. ~Enqueue BY <1>5 DEF Notify, NotifyOne, NotifyAll, Join, Enqueue
  <2>2. QED BY <1>1, <1>2, <1>5, <2>1, LifeSame DEF Notify, serverVars, mainVars, loopVars
<1>6. CASE DestroyThreadPool
  <2>1. Quiet => Quiet' BY <1>6 DEF DestroyThreadPool, SetStop, Quiet
  <2>2. QED BY <1>1, <1>6, <2>1, LifeSame DEF DestroyThreadPool, serverVars, mainVars, loopVars
<1>7. ASSUME NEW w \in Threads, Worker(w) \/ Spurious(w) PROVE Life'
  <2>1. UNCHANGED owner
    BY <1>7 DEF Worker, Spurious, Loop, Wait, ReturnWhenStopped, TakeTask, RunTask, WakeSpuriously
  <2>2. ~Enqueue BY <2>1 DEF Enqueue
  <2>3. QED BY <1>1, <1>2, <1>7, <2>2, LifeSame DEF Worker, Spurious, serverVars, mainVars, loopVars
<1>8. CASE GiveHelp \/ ReadOptionsThrows \/ BlockSignals \/ ConstructThrows
           \/ AddRemoteThrows \/ CallRun \/ BatchDone \/ RunReturns \/ ReturnFromMain
  BY <1>1, <1>3, <1>8
     DEF GiveHelp, ReadOptionsThrows, BlockSignals, ConstructThrows, AddRemoteThrows, CallRun,
         BatchDone, RunReturns, ReturnFromMain, Move, At, Goto, loopVars, Life
<1>9. CASE ReadOptions \/ EpollWait \/ Outside
  BY <1>1, <1>3, <1>9
     DEF ReadOptions, EpollWait, Outside, Terminate, Alarm, Arrive, At, Goto, mainVars, loopVars,
         Life
<1>10. CASE Construct
  <2>1. "threadPool" \in Members /\ DeclaredBefore \subseteq Members
    <3>1. /\ 5 \in DOMAIN Destruction /\ Destruction[5] = "threadPool"
          /\ 6 .. 10 \subseteq DOMAIN Destruction
          /\ DeclaredBefore = {Destruction[n] : n \in 6 .. 10}
      BY DEF Destruction, DeclaredBefore
    <3>2. QED BY <3>1 DEF Members
  <2>2. QED BY <1>1, <1>10, <2>1 DEF Construct, At, Goto, loopVars, Life
<1>11. CASE DestroyServer
  BY <1>1, <1>3, <1>11 DEF DestroyServer, At, Goto, DeclaredBefore, Life
<1>12. ASSUME NEW m \in Members, DestroyMember(m) PROVE Life'
  <2>1. /\ main = "members" /\ main' = main /\ todo' = todo
        /\ members' = members \ {m} /\ UNCHANGED vars
    BY <1>12 DEF DestroyMember, At, mainVars, loopVars
  <2>2. CASE m = "threadPool"
    <3>1. owner = "destroyed" BY <1>12, <2>2 DEF DestroyMember
    <3>2. Quiet' BY <1>1, <1>3, <2>1, <3>1, DestroyedIsQuiet
    <3>3. QED BY <1>1, <2>1, <2>2, <3>2 DEF Life
  <2>3. CASE m # "threadPool"
    <3>1. m \in DeclaredBefore => "threadPool" \notin members
      BY <1>12, PoolGoesFirst DEF DestroyMember
    <3>2. QED BY <1>1, <1>3, <2>1, <2>3, <3>1 DEF Life
  <2>4. QED BY <2>2, <2>3
<1>13. CASE \/ \E r \in Remotes : AddRemote(r)
            \/ \E w \in Threads : Touch(w)
  BY <1>1, <1>3, <1>13 DEF AddRemote, Touch, At, Goto, mainVars, loopVars, Life
<1>14. CASE \/ \E s \in Sockets : HandleEvent(s)
            \/ \E s \in {"term", "alrm"} : HandleSignal(s)
  BY <1>1, <1>3, <1>14 DEF HandleEvent, HandleSignal, At, mainVars, Life
<1>15. CASE UNCHANGED allVars
  BY <1>1, <1>3, <1>15, LifeSame DEF allVars, serverVars, mainVars, loopVars
<1>16. QED
  BY <1>1, <1>4, <1>5, <1>6, <1>7, <1>8, <1>9, <1>10, <1>11, <1>12, <1>13, <1>14, <1>15
     DEF ServerNext, MainThread, ProcessEnded

(* What server.h declares before m_thread_pool is there for as long as a job *)
(* is queued or runs.                                                        *)
THEOREM SocketsOutlive == ServerSpec => []SocketsOutliveJobs
<1>1. ServerSpec => []IInv BY PoolInProcess, IInvAlways, PTL
<1>2. Life => SocketsOutliveJobs BY DEF Life, Quiet, SocketsOutliveJobs, Running
<1>3. QED BY <1>1, <1>2, LifeInit, LifeStep, PTL DEF ServerSpec
-----------------------------------------------------------------------------
(* The variables of the process have their types. *)
Kinds == DOMAIN Uses

LEMMA KindsFacts ==
    /\ Kinds = {"udpServer", "udpClient", "udpTimeout", "listener", "tcpServer", "tcpClient",
                "tcpTimeout"}
    /\ \A s \in Sockets \cup {"alrm"} : JobsOf[s] \in Seq(Kinds)
<1>1. Kinds = {"udpServer", "udpClient", "udpTimeout", "listener", "tcpServer", "tcpClient",
               "tcpTimeout"}
  BY DEF Kinds, Uses
<1>2. ASSUME NEW s \in Sockets \cup {"alrm"} PROVE JobsOf[s] \in Seq(Kinds)
  <2>1. CASE s = "alrm"
    <3>1. JobsOf[s] = <<"udpTimeout", "tcpTimeout">> BY <2>1 DEF JobsOf
    <3>2. QED BY <1>1, <3>1
  <2>2. CASE s # "alrm"
    <3>1. s \in SocketKinds BY <1>2, <2>2, ServerAssumption
    <3>2. JobsOf[s] = <<s>> /\ s \in Kinds BY <1>1, <2>2, <3>1 DEF JobsOf, SocketKinds
    <3>3. QED BY <3>2
  <2>3. QED BY <2>1, <2>2
<1>3. QED BY <1>1, <1>2

(* What the variables of Server are, beside those of the pool. *)
ProcessTypes ==
    /\ main \in Ended \cup {"options", "block", "construct", "remotes", "run", "batch",
                            "destruct", "members"}
    /\ nameservers \subseteq Remotes /\ clients \subseteq Remotes
    /\ signals \subseteq {"term", "alrm"}
    /\ ready \subseteq Sockets
    /\ batch \subseteq Sockets \cup {"signalfd"}
    /\ stopFlag \in BOOLEAN
    /\ members \subseteq Members \cup {"connections"}
    /\ dangled \in BOOLEAN

(* The jobs of an event wait in todo, and each is enqueued with its kind. *)
JobTypes ==
    /\ todo \in Seq(Kinds)
    /\ kind \in Seq(Kinds) /\ Len(kind) = submitted

LEMMA ProcessTypesInit == ServerInit => ProcessTypes /\ JobTypes
<1>1. <<>> \in Seq(Kinds) /\ Len(<<>>) = 0 OBVIOUS
<1>2. QED BY <1>1 DEF ServerInit, Init, ProcessTypes, JobTypes

LEMMA ProcessTypesStep == ProcessTypes /\ [ServerNext]_allVars => ProcessTypes'
<1>1. SUFFICES ASSUME ProcessTypes, [ServerNext]_allVars PROVE ProcessTypes' OBVIOUS
<1> USE <1>1 DEF ProcessTypes
<1>2. CASE EnqueueJob BY <1>2 DEF EnqueueJob, mainVars
<1>3. CASE Notify \/ DestroyThreadPool \/ \E w \in Threads : Worker(w) \/ Spurious(w)
  BY <1>3 DEF Notify, DestroyThreadPool, Worker, Spurious, serverVars, mainVars, loopVars
<1>4. CASE GiveHelp \/ ReadOptionsThrows \/ BlockSignals \/ ConstructThrows
           \/ AddRemoteThrows \/ CallRun \/ BatchDone \/ RunReturns \/ ReturnFromMain
  BY <1>4
     DEF GiveHelp, ReadOptionsThrows, BlockSignals, ConstructThrows, AddRemoteThrows, CallRun,
         BatchDone, RunReturns, ReturnFromMain, Move, Goto, loopVars, Ended
<1>5. CASE ReadOptions \/ Construct \/ DestroyServer
  BY <1>5 DEF ReadOptions, Construct, DestroyServer, Goto, loopVars
<1>6. CASE EpollWait BY <1>6 DEF EpollWait, Goto
<1>7. CASE Outside BY <1>7 DEF Outside, Terminate, Alarm, Arrive, Goto, mainVars, loopVars, Ended
<1>8. CASE \E r \in Remotes : AddRemote(r) BY <1>8 DEF AddRemote, loopVars
<1>9. CASE \/ \E m \in Members : DestroyMember(m)
           \/ \E w \in Threads : Touch(w)
  BY <1>9 DEF DestroyMember, Touch, mainVars, loopVars
<1>10. CASE \/ \E s \in Sockets : HandleEvent(s)
            \/ \E s \in {"term", "alrm"} : HandleSignal(s)
  BY <1>10 DEF HandleEvent, HandleSignal, mainVars
<1>11. CASE UNCHANGED allVars BY <1>11 DEF allVars, serverVars, mainVars, loopVars
<1>12. QED
  BY <1>1, <1>2, <1>3, <1>4, <1>5, <1>6, <1>7, <1>8, <1>9, <1>10, <1>11
     DEF ServerNext, MainThread, ProcessEnded

LEMMA JobTypesStep == ProcessTypes /\ JobTypes /\ [ServerNext]_allVars => JobTypes'
<1>1. SUFFICES ASSUME ProcessTypes, JobTypes, [ServerNext]_allVars PROVE JobTypes' OBVIOUS
<1> USE <1>1 DEF JobTypes
<1>2. CASE EnqueueJob
  <2>1. Head(todo) \in Kinds /\ Tail(todo) \in Seq(Kinds) BY <1>2, PopFacts DEF EnqueueJob
  <2>2. Append(kind, Head(todo)) \in Seq(Kinds) /\ Len(Append(kind, Head(todo))) = Len(kind) + 1
    BY <2>1, PushFacts
  <2>3. QED BY <1>2, <2>1, <2>2 DEF EnqueueJob, Enqueue
<1>3. ASSUME NEW s \in Sockets, HandleEvent(s) PROVE JobTypes'
  BY <1>3, KindsFacts DEF HandleEvent, vars
<1>4. ASSUME NEW s \in {"term", "alrm"}, HandleSignal(s) PROVE JobTypes'
  BY <1>4, KindsFacts DEF HandleSignal, vars
<1>5. CASE Notify \/ DestroyThreadPool \/ \E w \in Threads : Worker(w) \/ Spurious(w)
  BY <1>5
     DEF Notify, NotifyOne, NotifyAll, Join, DestroyThreadPool, SetStop, Worker, Spurious, Loop,
         Wait, ReturnWhenStopped, TakeTask, RunTask, WakeSpuriously, serverVars, loopVars
<1>6. CASE GiveHelp \/ ReadOptionsThrows \/ BlockSignals \/ ConstructThrows
           \/ AddRemoteThrows \/ CallRun \/ BatchDone \/ RunReturns \/ ReturnFromMain
  BY <1>6
     DEF GiveHelp, ReadOptionsThrows, BlockSignals, ConstructThrows, AddRemoteThrows, CallRun,
         BatchDone, RunReturns, ReturnFromMain, Move, vars, loopVars
<1>7. CASE ReadOptions \/ Construct \/ EpollWait \/ DestroyServer \/ Outside
  BY <1>7
     DEF ReadOptions, Construct, EpollWait, DestroyServer, Outside, Terminate, Alarm, Arrive, vars,
         loopVars
<1>8. CASE \/ \E r \in Remotes : AddRemote(r)
           \/ \E m \in Members : DestroyMember(m)
           \/ \E w \in Threads : Touch(w)
  BY <1>8 DEF AddRemote, DestroyMember, Touch, vars, loopVars
<1>9. CASE UNCHANGED allVars BY <1>9 DEF allVars, serverVars, loopVars, vars
<1>10. QED
  BY <1>1, <1>2, <1>3, <1>4, <1>5, <1>6, <1>7, <1>8, <1>9
     DEF ServerNext, MainThread, ProcessEnded

(* Every variable of the process keeps its type: each job has a handler, and *)
(* no member is destroyed that there is not.                                 *)
THEOREM ServerTypeCorrect == ServerSpec => []ServerTypeOK
<1>1. ServerSpec => []TypeOK BY PoolInProcess, TypeCorrect, PTL
<1>2. ServerSpec => [](ProcessTypes /\ JobTypes)
  BY ProcessTypesInit, ProcessTypesStep, JobTypesStep, PTL DEF ServerSpec
<1>3. TypeOK /\ ProcessTypes /\ JobTypes => ServerTypeOK
  BY DEF ServerTypeOK, ProcessTypes, JobTypes, Kinds
<1>4. QED BY <1>1, <1>2, <1>3, PTL
=============================================================================
