--------------------------- MODULE IndexAllocator ---------------------------
(***************************************************************************)
(* What the task pool promises its callers: every DNS index is at any      *)
(* moment free, in transit inside one call, or owned by one task, and it   *)
(* moves between these only in the order                                   *)
(*      free -> in transit -> owned -> in transit -> free.                 *)
(* There is no queue, no slot array and no lock here; TaskPool adds them.  *)
(***************************************************************************)
CONSTANTS Tasks,      \* the tasks that can be registered
          Indices,    \* the DNS message ids the pool hands out
          Free,       \* the state of an index nobody has
          InTransit   \* the state of an index a PutTask or a DelTask is moving

VARIABLE owner  \* owner[i]: Free, InTransit, or the task registered under i

Init == owner = [i \in Indices |-> Free]

Reserve(i) ==
    /\ owner[i] = Free
    /\ owner' = [owner EXCEPT ![i] = InTransit]

Register(i, k) ==
    /\ owner[i] = InTransit
    /\ \A j \in Indices : owner[j] # k
    /\ owner' = [owner EXCEPT ![i] = k]

Withdraw(i) ==
    /\ owner[i] \in Tasks
    /\ owner' = [owner EXCEPT ![i] = InTransit]

Return(i) ==
    /\ owner[i] = InTransit
    /\ owner' = [owner EXCEPT ![i] = Free]

Next == \E i \in Indices :
            \/ Reserve(i)
            \/ \E k \in Tasks : Register(i, k)
            \/ Withdraw(i)
            \/ Return(i)

Spec == Init /\ [][Next]_owner
=============================================================================
