--------------------------- MODULE TaskPoolProofs ---------------------------
(***************************************************************************)
(* What holds of TaskPool for every number of threads, tasks and indices.  *)
(***************************************************************************)
EXTENDS TaskPool, SequenceLemmas

-----------------------------------------------------------------------------
(* The queue the constructor builds holds every index once. *)
LEMMA InitialQueueFacts ==
    /\ InitialQueue \in Seq(Indices)
    /\ Range(InitialQueue) = Indices
    /\ IsInjective(InitialQueue)
<1>1. MaxIndex \in Nat BY PoolAssumption
<1>2. \A n \in 1 .. MaxIndex + 1 : n - 1 \in Indices BY <1>1 DEF Indices
<1>3. InitialQueue \in [1 .. MaxIndex + 1 -> Indices]
  BY <1>2 DEF InitialQueue
<1>4. InitialQueue \in Seq(Indices)
  <2>1. MaxIndex + 1 \in Nat BY <1>1
  <2>2. QED BY <2>1, <1>3, SeqDef
<1>5. Range(InitialQueue) = Indices
  <2>1. ASSUME NEW i \in Indices PROVE i \in Range(InitialQueue)
    <3>1. i + 1 \in 1 .. MaxIndex + 1 /\ (i + 1) - 1 = i BY <1>1 DEF Indices
    <3>2. QED BY <3>1 DEF InitialQueue, Range
  <2>2. QED BY <2>1, <1>2 DEF InitialQueue, Range
<1>6. IsInjective(InitialQueue)
  BY <1>1 DEF IsInjective, InitialQueue
<1>7. QED BY <1>4, <1>5, <1>6

-----------------------------------------------------------------------------
(* The local variables of a call have values while the call needs them. *)
LocalsOK ==
    \A t \in Threads :
        /\ pc[t] \in Deleting \cup {"putLockPool", "putStore"} => index[t] \in Indices
        /\ pc[t] \in Putting => task[t] \in Tasks
        /\ pc[t] \notin Putting => task[t] = NoTask

TypeInv == TypeOK /\ LocalsOK

(* IndexConservation, index by index and without the sets of indices. *)
Conserved ==
    ~underflow =>
        /\ IsInjective(indexQueue)
        /\ \A t, u \in Threads :
               Carries(t) /\ Carries(u) /\ index[t] = index[u] => t = u
        /\ \A t \in Threads :
               Carries(t) => index[t] \notin Range(indexQueue) /\ pool[index[t]] = NoTask
        /\ \A i \in Indices : ~(i \in Range(indexQueue) /\ pool[i] # NoTask)
        /\ \A i \in Indices : \/ i \in Range(indexQueue)
                              \/ pool[i] # NoTask
                              \/ \E t \in Threads : Carries(t) /\ index[t] = i

(* The task a PutTask is about to register is registered nowhere yet, and no *)
(* two calls register the same one.                                          *)
Fresh ==
    \A t \in Threads :
        pc[t] \in Putting =>
            /\ \A i \in Indices : pool[i] # task[t]
            /\ \A u \in Threads : task[u] = task[t] => u = t

LEMMA TypeInit == Init => TypeInv
  BY InitialQueueFacts, PoolAssumption
     DEF Init, TypeInv, TypeOK, LocalsOK, Putting, Deleting

LEMMA TypeStep == TypeInv /\ [Next]_vars => TypeInv'
<1> SUFFICES ASSUME TypeInv, [Next]_vars PROVE TypeInv'
  OBVIOUS
<1> USE DEF TypeInv, TypeOK, LocalsOK, Putting, Deleting
<1>1. ASSUME NEW t \in Threads, NEW k \in Tasks, CallPutTask(t, k) PROVE TypeInv'
  BY <1>1 DEF CallPutTask
<1>2. ASSUME NEW t \in Threads, NEW i \in Indices, CallDelTask(t, i) PROVE TypeInv'
  BY <1>2 DEF CallDelTask
<1>3. ASSUME NEW t \in Threads, LockQueue(t) PROVE TypeInv'
  BY <1>3 DEF LockQueue
<1>4. ASSUME NEW t \in Threads, LockPool(t) PROVE TypeInv'
  BY <1>4 DEF LockPool
<1>5. ASSUME NEW t \in Threads, TakeIndex(t) PROVE TypeInv'
  <2>1. indexQueue' \in Seq(Indices) /\ index' \in [Threads -> Indices \cup {NoIndex}]
    BY <1>5, DequeueFacts DEF TakeIndex
  <2>2. index'[t] \in Indices /\ \A u \in Threads \ {t} : index'[u] = index[u]
    BY <1>5, DequeueFacts DEF TakeIndex
  <2>3. QED BY <1>5, <2>1, <2>2 DEF TakeIndex
<1>6. ASSUME NEW t \in Threads, StoreTask(t) PROVE TypeInv'
  BY <1>6 DEF StoreTask
<1>7. ASSUME NEW t \in Threads, EraseTask(t) PROVE TypeInv'
  BY <1>7 DEF EraseTask
<1>8. ASSUME NEW t \in Threads, PushIndex(t) PROVE TypeInv'
  <2>1. indexQueue' \in Seq(Indices)
    BY <1>8, EnqueueFacts DEF PushIndex
  <2>2. QED BY <1>8, <2>1 DEF PushIndex
<1>9. CASE UNCHANGED vars
  BY <1>9 DEF vars
<1>10. QED
  BY <1>1, <1>2, <1>3, <1>4, <1>5, <1>6, <1>7, <1>8, <1>9 DEF Next, Call, Step

(* The variables of the pool keep their types in every run of any number of *)
(* PutTask and DelTask calls (task.cpp:11-42).                              *)
THEOREM TypeCorrect == Spec => []TypeOK
<1>1. Spec => []TypeInv
  BY TypeInit, TypeStep, PTL DEF Spec
<1>2. TypeInv => TypeOK BY DEF TypeInv
<1>3. QED BY <1>1, <1>2, PTL

-----------------------------------------------------------------------------
LEMMA ConservedInit == Init => Conserved
  BY InitialQueueFacts DEF Init, Conserved, Carries

LEMMA ConservedStep == TypeInv /\ Conserved /\ [Next]_vars => Conserved'
<1> SUFFICES ASSUME TypeInv, Conserved, [Next]_vars, ~underflow' PROVE Conserved'
  BY DEF Conserved
<1> USE DEF TypeInv, TypeOK, LocalsOK, Conserved, Carries, Putting, Deleting
<1>0. ~underflow
  BY DEF Next, Call, Step, vars, CallPutTask, CallDelTask, LockQueue, LockPool,
         TakeIndex, StoreTask, EraseTask, PushIndex
<1>1. ASSUME NEW t \in Threads, NEW k \in Tasks, CallPutTask(t, k) PROVE Conserved'
  BY <1>0, <1>1 DEF CallPutTask
<1>2. ASSUME NEW t \in Threads, NEW i \in Indices, CallDelTask(t, i) PROVE Conserved'
  BY <1>0, <1>2 DEF CallDelTask
<1>3. ASSUME NEW t \in Threads, LockQueue(t) PROVE Conserved'
  BY <1>0, <1>3 DEF LockQueue
<1>4. ASSUME NEW t \in Threads, LockPool(t) PROVE Conserved'
  BY <1>0, <1>4 DEF LockPool
<1>5. ASSUME NEW t \in Threads, TakeIndex(t) PROVE Conserved'
  <2>1. /\ indexQueue # <<>>
        /\ index' = [index EXCEPT ![t] = Head(indexQueue)]
        /\ indexQueue' = Tail(indexQueue)
        /\ pc' = [pc EXCEPT ![t] = "putLockPool"]
        /\ pool' = pool
    BY <1>0, <1>5 DEF TakeIndex
  <2>2. /\ Head(indexQueue) \in Indices
        /\ Head(indexQueue) \in Range(indexQueue)
        /\ Range(indexQueue) = Range(indexQueue') \cup {Head(indexQueue)}
        /\ IsInjective(indexQueue')
        /\ Head(indexQueue) \notin Range(indexQueue')
    BY <1>0, <2>1, DequeueFacts
  <2>3. \A i \in Indices : \/ i \in Range(indexQueue')
                           \/ pool'[i] # NoTask
                           \/ \E u \in Threads : Carries(u)' /\ index'[u] = i
    <3>1. SUFFICES ASSUME NEW i \in Indices, i \notin Range(indexQueue'), pool[i] = NoTask
                   PROVE  \E u \in Threads : Carries(u)' /\ index'[u] = i
      BY <2>1
    <3>2. CASE i = Head(indexQueue)
      BY <3>2, <2>1
    <3>3. CASE i # Head(indexQueue)
      <4>1. PICK u \in Threads : Carries(u) /\ index[u] = i
        BY <1>0, <3>1, <3>3, <2>2
      <4>2. u # t BY <4>1, <1>5 DEF TakeIndex
      <4>3. QED BY <4>1, <4>2, <2>1
    <3>4. QED BY <3>2, <3>3
  <2>4. QED BY <1>0, <1>5, <2>1, <2>2, <2>3 DEF TakeIndex
<1>6. ASSUME NEW t \in Threads, StoreTask(t) PROVE Conserved'
  <2>1. task[t] # NoTask /\ index[t] \in Indices
    BY <1>6, PoolAssumption DEF StoreTask
  <2>2. QED BY <1>0, <1>6, <2>1 DEF StoreTask
<1>7. ASSUME NEW t \in Threads, EraseTask(t) PROVE Conserved'
  <2>1. index[t] \in Indices
    BY <1>7 DEF EraseTask
  <2>2. QED BY <1>0, <1>7, <2>1 DEF EraseTask
<1>8. ASSUME NEW t \in Threads, PushIndex(t) PROVE Conserved'
  <2>1. /\ index[t] \in Indices
        /\ index[t] \notin Range(indexQueue)
        /\ indexQueue' = Append(indexQueue, index[t])
    BY <1>0, <1>8 DEF PushIndex
  <2>2. /\ Range(indexQueue') = Range(indexQueue) \cup {index[t]}
        /\ IsInjective(indexQueue')
    BY <1>0, <2>1, EnqueueFacts
  <2>3. QED BY <1>0, <1>8, <2>1, <2>2 DEF PushIndex
<1>9. CASE UNCHANGED vars
  BY <1>0, <1>9 DEF vars
<1>10. QED
  BY <1>1, <1>2, <1>3, <1>4, <1>5, <1>6, <1>7, <1>8, <1>9 DEF Next, Call, Step

LEMMA ConservedSuffices == TypeInv /\ Conserved => IndexConservation
<1> SUFFICES ASSUME TypeInv, Conserved, ~underflow
             PROVE  /\ IsInjective(indexQueue)
                    /\ \A t, u \in Threads :
                           Carries(t) /\ Carries(u) /\ index[t] = index[u] => t = u
                    /\ Range(indexQueue) \cap Occupied = {}
                    /\ Range(indexQueue) \cap Carried = {}
                    /\ Occupied \cap Carried = {}
                    /\ Range(indexQueue) \cup Occupied \cup Carried = Indices
  BY DEF IndexConservation
<1>1. Range(indexQueue) \subseteq Indices
  BY LenProperties DEF TypeInv, TypeOK, Range
<1>2. Carried \subseteq Indices
  BY DEF Carried, Carries, TypeInv, LocalsOK, Deleting
<1>3. QED
  BY <1>1, <1>2 DEF Conserved, Occupied, Carried

(* However the calls of any number of threads interleave, no index is lost, *)
(* duplicated or shared before the queue underflows (task.cpp:11-42).       *)
THEOREM Conservation == Spec => []IndexConservation
<1>1. Spec => [](TypeInv /\ Conserved)
  BY TypeInit, TypeStep, ConservedInit, ConservedStep, PTL DEF Spec
<1>2. QED BY <1>1, ConservedSuffices, PTL

(* No PutTask ever overwrites a registered task (task.cpp:20-23). *)
THEOREM NoOverwrite == Spec => SlotNeverOverwritten
<1>1. TypeInv /\ Conserved /\ [Next]_vars
         => [\A i \in Indices : pool[i] # NoTask /\ pool'[i] # pool[i] /\ ~underflow
                                   => pool'[i] = NoTask]_vars
  <2> SUFFICES ASSUME TypeInv, Conserved, Next, NEW i \in Indices,
                      pool[i] # NoTask, pool'[i] # pool[i], ~underflow
               PROVE  pool'[i] = NoTask
    OBVIOUS
  <2> USE DEF TypeInv, TypeOK
  <2>1. ASSUME NEW t \in Threads, StoreTask(t) PROVE FALSE
    BY <2>1 DEF StoreTask, Conserved, Carries
  <2>2. ASSUME NEW t \in Threads, EraseTask(t) PROVE pool'[i] = NoTask
    BY <2>2 DEF EraseTask
  <2>3. QED
    BY <2>1, <2>2 DEF Next, Call, Step, CallPutTask, CallDelTask, LockQueue, LockPool,
                      TakeIndex, PushIndex
<1>2. Spec => [](TypeInv /\ Conserved)
  BY TypeInit, TypeStep, ConservedInit, ConservedStep, PTL DEF Spec
<1>3. QED BY <1>1, <1>2, PTL DEF Spec, SlotNeverOverwritten

-----------------------------------------------------------------------------
LEMMA FreshInit == Init => Fresh
  BY DEF Init, Fresh, Putting

LEMMA FreshStep == TypeInv /\ Fresh /\ [Next]_vars => Fresh'
<1> SUFFICES ASSUME TypeInv, Fresh, [Next]_vars PROVE Fresh'
  OBVIOUS
<1> USE DEF TypeInv, TypeOK, LocalsOK, Fresh, Putting, Deleting
<1>1. ASSUME NEW t \in Threads, NEW k \in Tasks, CallPutTask(t, k) PROVE Fresh'
  BY <1>1 DEF CallPutTask, Live
<1>2. ASSUME NEW t \in Threads, NEW i \in Indices, CallDelTask(t, i) PROVE Fresh'
  BY <1>2 DEF CallDelTask
<1>3. ASSUME NEW t \in Threads, LockQueue(t) PROVE Fresh'
  BY <1>3 DEF LockQueue
<1>4. ASSUME NEW t \in Threads, LockPool(t) PROVE Fresh'
  BY <1>4 DEF LockPool
<1>5. ASSUME NEW t \in Threads, TakeIndex(t) PROVE Fresh'
  BY <1>5 DEF TakeIndex
<1>6. ASSUME NEW t \in Threads, StoreTask(t) PROVE Fresh'
  <2>1. task[t] \in Tasks
    BY <1>6 DEF StoreTask
  <2>2. QED BY <1>6, <2>1, PoolAssumption DEF StoreTask
<1>7. ASSUME NEW t \in Threads, EraseTask(t) PROVE Fresh'
  BY <1>7, PoolAssumption DEF EraseTask
<1>8. ASSUME NEW t \in Threads, PushIndex(t) PROVE Fresh'
  BY <1>8 DEF PushIndex
<1>9. CASE UNCHANGED vars
  BY <1>9 DEF vars
<1>10. QED
  BY <1>1, <1>2, <1>3, <1>4, <1>5, <1>6, <1>7, <1>8, <1>9 DEF Next, Call, Step

(* A step that changes neither the slots nor the queue leaves every owner. *)
LEMMA SameOwner == pool' = pool /\ indexQueue' = indexQueue => Owner' = Owner
  BY DEF Owner

(* When one slot or one queue entry changes, only that index changes owner. *)
LEMMA OneOwnerChanges ==
    ASSUME NEW i \in Indices, NEW o,
           \A j \in Indices \ {i} : pool'[j] = pool[j],
           \A j \in Indices \ {i} : j \in Range(indexQueue') <=> j \in Range(indexQueue),
           Owner'[i] = o
    PROVE  Owner' = [Owner EXCEPT ![i] = o]
  BY DEF Owner

LEMMA RefinementInit == Init => Allocator!Init
  BY InitialQueueFacts, PoolAssumption DEF Init, Allocator!Init, Owner

LEMMA RefinementStep ==
    TypeInv /\ Conserved /\ Fresh /\ ~underflow /\ ~underflow' /\ [Next]_vars
        => [Allocator!Next]_Owner
<1> SUFFICES ASSUME TypeInv, Conserved, Fresh, ~underflow, ~underflow', [Next]_vars
             PROVE  [Allocator!Next]_Owner
  OBVIOUS
<1> USE DEF TypeInv, TypeOK, LocalsOK, Putting, Deleting
<1>1. ASSUME NEW t \in Threads, TakeIndex(t) PROVE Allocator!Next
  <2> DEFINE i == Head(indexQueue)
  <2>1. /\ indexQueue # <<>>
        /\ indexQueue' = Tail(indexQueue)
        /\ pool' = pool
    BY <1>1 DEF TakeIndex
  <2>2. /\ i \in Indices
        /\ i \in Range(indexQueue)
        /\ Range(indexQueue) = Range(indexQueue') \cup {i}
        /\ i \notin Range(indexQueue')
    BY <2>1, DequeueFacts DEF Conserved
  <2>3. pool[i] = NoTask
    BY <2>2 DEF Conserved
  <2>4. Owner[i] = Free /\ Owner'[i] = InTransit
    BY <2>1, <2>2, <2>3 DEF Owner
  <2> HIDE DEF i
  <2>5. Owner' = [Owner EXCEPT ![i] = InTransit]
    BY <2>1, <2>2, <2>4, OneOwnerChanges
  <2>6. QED BY <2>2, <2>4, <2>5 DEF Allocator!Next, Allocator!Reserve
<1>2. ASSUME NEW t \in Threads, StoreTask(t) PROVE Allocator!Next
  <2> DEFINE i == index[t]
             k == task[t]
  <2>1. /\ i \in Indices
        /\ k \in Tasks
        /\ k # NoTask
        /\ pool' = [pool EXCEPT ![i] = k]
        /\ indexQueue' = indexQueue
    BY <1>2, PoolAssumption DEF StoreTask
  <2>2. i \notin Range(indexQueue) /\ pool[i] = NoTask
    BY <1>2 DEF StoreTask, Conserved, Carries
  <2>3. \A j \in Indices : pool[j] # k
    BY <1>2 DEF StoreTask, Fresh
  <2>4. \A j \in Indices : Owner[j] # k
    BY <2>1, <2>3, PoolAssumption DEF Owner
  <2>5. Owner[i] = InTransit /\ Owner'[i] = k
    BY <2>1, <2>2 DEF Owner
  <2> HIDE DEF i, k
  <2>6. Owner' = [Owner EXCEPT ![i] = k]
    BY <2>1, <2>5, OneOwnerChanges
  <2>7. QED BY <2>1, <2>4, <2>5, <2>6 DEF Allocator!Next, Allocator!Register
<1>3. ASSUME NEW t \in Threads, EraseTask(t) PROVE Allocator!Next \/ UNCHANGED Owner
  <2>1. CASE pool[index[t]] # NoTask
    <3> DEFINE i == index[t]
    <3>1. /\ i \in Indices
          /\ pool[i] \in Tasks
          /\ pool' = [pool EXCEPT ![i] = NoTask]
          /\ indexQueue' = indexQueue
      BY <1>3, <2>1 DEF EraseTask
    <3>2. i \notin Range(indexQueue)
      BY <2>1, <3>1 DEF Conserved
    <3>3. Owner[i] \in Tasks /\ Owner'[i] = InTransit
      BY <2>1, <3>1, <3>2 DEF Owner
    <3> HIDE DEF i
    <3>4. Owner' = [Owner EXCEPT ![i] = InTransit]
      BY <3>1, <3>3, OneOwnerChanges
    <3>5. QED BY <3>1, <3>3, <3>4 DEF Allocator!Next, Allocator!Withdraw
  <2>2. CASE pool[index[t]] = NoTask
    BY <1>3, <2>2, SameOwner DEF EraseTask
  <2>3. QED BY <2>1, <2>2
<1>4. ASSUME NEW t \in Threads, PushIndex(t) PROVE Allocator!Next
  <2> DEFINE i == index[t]
  <2>1. /\ i \in Indices
        /\ i \notin Range(indexQueue)
        /\ pool[i] = NoTask
        /\ pool' = pool
        /\ indexQueue' = Append(indexQueue, i)
    BY <1>4 DEF PushIndex, Conserved, Carries
  <2>2. Range(indexQueue') = Range(indexQueue) \cup {i}
    BY <2>1, EnqueueFacts
  <2>3. Owner[i] = InTransit /\ Owner'[i] = Free
    BY <2>1, <2>2 DEF Owner
  <2> HIDE DEF i
  <2>4. Owner' = [Owner EXCEPT ![i] = Free]
    BY <2>1, <2>2, <2>3, OneOwnerChanges
  <2>5. QED BY <2>1, <2>3, <2>4 DEF Allocator!Next, Allocator!Return
<1>5. ASSUME NEW t \in Threads, Call(t) \/ LockQueue(t) \/ LockPool(t)
      PROVE  UNCHANGED Owner
  BY <1>5, SameOwner DEF Call, CallPutTask, CallDelTask, LockQueue, LockPool
<1>6. CASE UNCHANGED vars
  BY <1>6, SameOwner DEF vars
<1>7. QED
  BY <1>1, <1>2, <1>3, <1>4, <1>5, <1>6 DEF Next, Step

LEMMA UnderflowStays == [Next]_vars /\ ~underflow' => ~underflow
  BY DEF Next, Call, CallPutTask, CallDelTask, Step, LockQueue, LockPool, TakeIndex,
         StoreTask, EraseTask, PushIndex, vars

(* As long as the queue does not underflow, the two containers under their  *)
(* two mutexes implement the abstract allocator (task.cpp:11-42).           *)
THEOREM Refinement == Spec => RefinesAllocator
<1>1. Spec => [](TypeInv /\ Conserved /\ Fresh)
  <2>1. TypeInv /\ Conserved /\ Fresh /\ [Next]_vars => (TypeInv /\ Conserved /\ Fresh)'
    BY TypeStep, ConservedStep, FreshStep
  <2>2. Init => TypeInv /\ Conserved /\ Fresh
    BY TypeInit, ConservedInit, FreshInit
  <2>3. QED BY <2>1, <2>2, PTL DEF Spec
<1>2. TypeInv /\ Conserved /\ Fresh /\ [Next]_vars
         => [~underflow' => [Allocator!Next]_Owner]_vars
  BY RefinementStep, UnderflowStays
<1>3. QED
  BY <1>1, <1>2, RefinementInit, PTL DEF Spec, RefinesAllocator

(* PutTask takes from an empty queue only when no index is left: none has   *)
(* leaked (task.cpp:11-42).                                                 *)
THEOREM NoLeak == Spec => UnderflowsOnlyWhenFull
<1>1. Spec => []IndexConservation
  BY Conservation
<1>2. IndexConservation /\ [Next]_vars
         => [underflow' /\ ~underflow => Occupied \cup Carried = Indices]_vars
  <2> SUFFICES ASSUME IndexConservation, Next, underflow', ~underflow
               PROVE  Occupied \cup Carried = Indices
    BY DEF vars
  <2>1. PICK t \in Threads : TakeIndex(t)
    BY DEF Next, Call, CallPutTask, CallDelTask, Step, LockQueue, LockPool, StoreTask,
           EraseTask, PushIndex
  <2>2. indexQueue = <<>>
    BY <2>1 DEF TakeIndex
  <2>3. Range(indexQueue) = {}
    BY <2>2 DEF Range
  <2>4. QED BY <2>3 DEF IndexConservation
<1>3. QED BY <1>1, <1>2, PTL DEF Spec, UnderflowsOnlyWhenFull
=============================================================================
