------------------------------ MODULE TaskPool ------------------------------
(***************************************************************************)
(* TaskPool<TaskT> (include/task.h, src/task.cpp): the table that maps the *)
(* 16-bit id written into a forwarded query to the task waiting for its    *)
(* answer.  Worker threads call it concurrently.  m_index_queue holds the  *)
(* free indices, m_pool the registered tasks, and each has a mutex.        *)
(* PutTask takes the two mutexes one after the other; DelTask takes        *)
(* m_queue_mutex while it holds m_pool_mutex.                              *)
(*                                                                         *)
(* One action is one critical section or one lock acquisition.  HasTask    *)
(* and GetTask change nothing and their shared lock blocks nobody for      *)
(* longer than the read, so they have no action here; UdpRelay models what *)
(* their callers do with the result.  task->timer, set under m_pool_mutex  *)
(* together with the slot, is also modelled there.                         *)
(***************************************************************************)
EXTENDS Integers, Sequences, Functions

CONSTANTS Threads,   \* the threads of the pool that call into the table
          Tasks,     \* identities of the task objects
          MaxIndex,  \* m_max_index, 65535 in the code
          NoTask,    \* a null shared_ptr
          NoThread,  \* an unlocked mutex
          Free,      \* what IndexAllocator calls an index nobody has
          InTransit  \* and an index that a call is moving

ASSUME PoolAssumption ==
    /\ MaxIndex \in Nat
    /\ NoTask \notin Tasks
    /\ NoThread \notin Threads
    /\ Free # InTransit
    /\ {Free, InTransit} \cap Tasks = {}

Indices == 0 .. MaxIndex
NoIndex == -1

VARIABLES indexQueue,  \* m_index_queue
          pool,        \* m_pool
          queueMutex,  \* the holder of m_queue_mutex
          poolMutex,   \* the exclusive holder of m_pool_mutex
          pc,          \* where each thread is in its call
          index,       \* the local or argument `index` of the call
          task,        \* the argument `task` of PutTask
          underflow    \* front()/pop() were called on an empty queue: undefined

vars == <<indexQueue, pool, queueMutex, poolMutex, pc, index, task, underflow>>

(* A call between its first and its last step, by the step it is about to take. *)
Putting  == {"putLockQueue", "putTake", "putLockPool", "putStore"}
Deleting == {"delLockPool", "delErase", "delLockQueue", "delPush"}

TypeOK ==
    /\ indexQueue \in Seq(Indices)
    /\ pool \in [Indices -> Tasks \cup {NoTask}]
    /\ queueMutex \in Threads \cup {NoThread}
    /\ poolMutex \in Threads \cup {NoThread}
    /\ pc \in [Threads -> {"idle"} \cup Putting \cup Deleting]
    /\ index \in [Threads -> Indices \cup {NoIndex}]
    /\ task \in [Threads -> Tasks \cup {NoTask}]
    /\ underflow \in BOOLEAN

-----------------------------------------------------------------------------
(* Fault: the constructor's loop runs one index too far. *)
InitialQueue_Overrun == [n \in 1 .. MaxIndex + 2 |-> n - 1]

(* The constructor pushes 0, 1, ..., m_max_index. *)
InitialQueue == [n \in 1 .. MaxIndex + 1 |-> n - 1]

Init ==
    /\ indexQueue = InitialQueue
    /\ pool = [i \in Indices |-> NoTask]
    /\ queueMutex = NoThread
    /\ poolMutex = NoThread
    /\ pc = [t \in Threads |-> "idle"]
    /\ index = [t \in Threads |-> NoIndex]
    /\ task = [t \in Threads |-> NoTask]
    /\ underflow = FALSE

(* The tasks the table, or a PutTask under way, refers to. *)
Live == {pool[i] : i \in Indices} \cup {task[t] : t \in Threads}

(* PutTask is called with a task just made by make_shared. *)
CallPutTask(t, k) ==
    /\ pc[t] = "idle"
    /\ k \notin Live
    /\ pc' = [pc EXCEPT ![t] = "putLockQueue"]
    /\ task' = [task EXCEPT ![t] = k]
    /\ UNCHANGED <<indexQueue, pool, queueMutex, poolMutex, index, underflow>>

(* DelTask is called with the id of a received packet or of an expired timer. *)
CallDelTask(t, i) ==
    /\ pc[t] = "idle"
    /\ pc' = [pc EXCEPT ![t] = "delLockPool"]
    /\ index' = [index EXCEPT ![t] = i]
    /\ UNCHANGED <<indexQueue, pool, queueMutex, poolMutex, task, underflow>>

LockQueue(t) ==
    /\ queueMutex = NoThread
    /\ queueMutex' = t
    /\ \/ /\ pc[t] = "putLockQueue"
          /\ pc' = [pc EXCEPT ![t] = "putTake"]
       \/ /\ pc[t] = "delLockQueue"
          /\ pc' = [pc EXCEPT ![t] = "delPush"]
    /\ UNCHANGED <<indexQueue, pool, poolMutex, index, task, underflow>>

LockPool(t) ==
    /\ poolMutex = NoThread
    /\ poolMutex' = t
    /\ \/ /\ pc[t] = "putLockPool"
          /\ pc' = [pc EXCEPT ![t] = "putStore"]
       \/ /\ pc[t] = "delLockPool"
          /\ pc' = [pc EXCEPT ![t] = "delErase"]
    /\ UNCHANGED <<indexQueue, pool, queueMutex, index, task, underflow>>

(* Fault: PutTask keeps m_queue_mutex until it returns. *)
TakeIndex_KeepsLock(t) ==
    /\ pc[t] = "putTake"
    /\ indexQueue # <<>>
    /\ index' = [index EXCEPT ![t] = Head(indexQueue)]
    /\ indexQueue' = Tail(indexQueue)
    /\ pc' = [pc EXCEPT ![t] = "putLockPool"]
    /\ UNCHANGED <<pool, queueMutex, poolMutex, task, underflow>>

(* Fault: front() without pop(). *)
TakeIndex_NoPop(t) ==
    /\ pc[t] = "putTake"
    /\ indexQueue # <<>>
    /\ index' = [index EXCEPT ![t] = Head(indexQueue)]
    /\ queueMutex' = NoThread
    /\ pc' = [pc EXCEPT ![t] = "putLockPool"]
    /\ UNCHANGED <<indexQueue, pool, poolMutex, task, underflow>>

(* index = m_index_queue.front(); m_index_queue.pop(); unlock.  On an empty *)
(* std::queue both are undefined: the index is whatever memory holds, and   *)
(* the queue stays corrupt.                                                 *)
TakeIndex(t) ==
    /\ pc[t] = "putTake"
    /\ IF indexQueue = <<>> \/ underflow
       THEN /\ \E i \in Indices : index' = [index EXCEPT ![t] = i]
            /\ underflow' = TRUE
            /\ UNCHANGED indexQueue
       ELSE /\ index' = [index EXCEPT ![t] = Head(indexQueue)]
            /\ indexQueue' = Tail(indexQueue)
            /\ UNCHANGED underflow
    /\ queueMutex' = NoThread
    /\ pc' = [pc EXCEPT ![t] = "putLockPool"]
    /\ UNCHANGED <<pool, poolMutex, task>>

(* m_pool[index] = task; unlock; return index. *)
StoreTask(t) ==
    /\ pc[t] = "putStore"
    /\ pool' = [pool EXCEPT ![index[t]] = task[t]]
    /\ poolMutex' = NoThread
    /\ pc' = [pc EXCEPT ![t] = "idle"]
    /\ index' = [index EXCEPT ![t] = NoIndex]
    /\ task' = [task EXCEPT ![t] = NoTask]
    /\ UNCHANGED <<indexQueue, queueMutex, underflow>>

(* Fault: DelTask does not look whether the slot is occupied. *)
EraseTask_Unchecked(t) ==
    /\ pc[t] = "delErase"
    /\ pool' = [pool EXCEPT ![index[t]] = NoTask]
    /\ pc' = [pc EXCEPT ![t] = "delLockQueue"]
    /\ UNCHANGED <<indexQueue, queueMutex, poolMutex, index, task, underflow>>

(* if (m_pool[index]) m_pool[index] = nullptr; an empty slot ends the call. *)
EraseTask(t) ==
    /\ pc[t] = "delErase"
    /\ \/ /\ pool[index[t]] # NoTask
          /\ pool' = [pool EXCEPT ![index[t]] = NoTask]
          /\ pc' = [pc EXCEPT ![t] = "delLockQueue"]
          /\ UNCHANGED <<poolMutex, index>>
       \/ /\ pool[index[t]] = NoTask
          /\ poolMutex' = NoThread
          /\ pc' = [pc EXCEPT ![t] = "idle"]
          /\ index' = [index EXCEPT ![t] = NoIndex]
          /\ UNCHANGED pool
    /\ UNCHANGED <<indexQueue, queueMutex, task, underflow>>

(* Fault: the freed index is not put back. *)
PushIndex_Leaks(t) ==
    /\ pc[t] = "delPush"
    /\ queueMutex' = NoThread
    /\ poolMutex' = NoThread
    /\ pc' = [pc EXCEPT ![t] = "idle"]
    /\ index' = [index EXCEPT ![t] = NoIndex]
    /\ UNCHANGED <<indexQueue, pool, task, underflow>>

(* m_index_queue.push(index); both locks go out of scope.  After an underflow *)
(* what is pushed no longer matters, as TakeIndex may return anything.         *)
PushIndex(t) ==
    /\ pc[t] = "delPush"
    /\ indexQueue' = IF underflow THEN indexQueue ELSE Append(indexQueue, index[t])
    /\ queueMutex' = NoThread
    /\ poolMutex' = NoThread
    /\ pc' = [pc EXCEPT ![t] = "idle"]
    /\ index' = [index EXCEPT ![t] = NoIndex]
    /\ UNCHANGED <<pool, task, underflow>>

Step(t) ==
    \/ LockQueue(t) \/ LockPool(t)
    \/ TakeIndex(t) \/ StoreTask(t)
    \/ EraseTask(t) \/ PushIndex(t)

Call(t) ==
    \/ \E k \in Tasks : CallPutTask(t, k)
    \/ \E i \in Indices : CallDelTask(t, i)

Next == \E t \in Threads : Call(t) \/ Step(t)

Spec == Init /\ [][Next]_vars

(* A thread inside a call is scheduled again; nobody has to call. *)
FairSpec == Spec /\ \A t \in Threads : WF_vars(Step(t))
-----------------------------------------------------------------------------
(* The index thread t has taken out of the queue, or out of a slot, and not *)
(* yet put into a slot, or into the queue.                                   *)
Carries(t) == pc[t] \in {"putLockPool", "putStore", "delLockQueue", "delPush"}

Occupied == {i \in Indices : pool[i] # NoTask}
Carried  == {index[t] : t \in {u \in Threads : Carries(u)}}

(* PutTask and DelTask (task.cpp:11-42), run by any number of threads, never *)
(* lose, duplicate or share an index: until the queue underflows, each one   *)
(* is once in the free queue, or names one registered task, or is carried by *)
(* exactly one call.                                                         *)
IndexConservation ==
    ~underflow =>
        /\ IsInjective(indexQueue)
        /\ \A t, u \in Threads :
               Carries(t) /\ Carries(u) /\ index[t] = index[u] => t = u
        /\ Range(indexQueue) \cap Occupied = {}
        /\ Range(indexQueue) \cap Carried = {}
        /\ Occupied \cap Carried = {}
        /\ Range(indexQueue) \cup Occupied \cup Carried = Indices

(* PutTask (task.cpp:20-23) never overwrites a registered task: a slot goes  *)
(* from one task to another only through DelTask.                            *)
SlotNeverOverwritten ==
    [][\A i \in Indices :
          pool[i] # NoTask /\ pool'[i] # pool[i] /\ ~underflow
             => pool'[i] = NoTask]_vars

(* PutTask (task.cpp:16) finds no free index only when every index names a   *)
(* task or is in the hands of a call: none leaks, however many calls have    *)
(* been made.                                                                *)
UnderflowsOnlyWhenFull ==
    [][underflow' /\ ~underflow => Occupied \cup Carried = Indices]_vars

(* DelTask (task.cpp:33-42) waits for the queue mutex while it holds the     *)
(* pool mutex; no order of the calls leaves it waiting for ever, so every    *)
(* index it takes out of a slot gets back into the queue.                    *)
ErasedIndexReturns ==
    \A t \in Threads : pc[t] = "delLockQueue" ~> pc[t] = "idle"

(* The state of the abstract allocator that the two containers stand for.    *)
Owner == [i \in Indices |-> IF pool[i] # NoTask THEN pool[i]
                            ELSE IF i \in Range(indexQueue) THEN Free
                            ELSE InTransit]

Allocator == INSTANCE IndexAllocator WITH owner <- Owner

(* Seen from outside, the two locks, the queue and the slots of task.cpp     *)
(* behave, until the queue underflows, as one table in which each index is   *)
(* reserved, registered, withdrawn and returned in that order and a task is  *)
(* registered once.                                                          *)
RefinesAllocator ==
    Allocator!Init /\ [][~underflow' => [Allocator!Next]_Owner]_vars
=============================================================================
