------------------------------ MODULE JobQueue ------------------------------
(***************************************************************************)
(* What the forwarder's event loop expects of its thread pool: jobs start  *)
(* in the order they were submitted, each exactly once, at most as many at *)
(* a time as there are threads, and a free thread never ignores a job for  *)
(* ever.                                                                   *)
(***************************************************************************)
EXTENDS Integers, Sequences, FiniteSets

CONSTANTS Threads, MaxJobs

VARIABLES submitted,  \* jobs are numbered in the order of submission
          queue,      \* jobs that have not started
          running,
          finished

vars == <<submitted, queue, running, finished>>

Init ==
    /\ submitted = 0
    /\ queue = <<>>
    /\ running = {}
    /\ finished = {}

Submit ==
    /\ submitted < MaxJobs
    /\ submitted' = submitted + 1
    /\ queue' = Append(queue, submitted')
    /\ UNCHANGED <<running, finished>>

Start ==
    /\ queue # <<>>
    /\ Cardinality(running) < Cardinality(Threads)
    /\ running' = running \cup {Head(queue)}
    /\ queue' = Tail(queue)
    /\ UNCHANGED <<submitted, finished>>

Finish(j) ==
    /\ running' = running \ {j}
    /\ finished' = finished \cup {j}
    /\ UNCHANGED <<submitted, queue>>

Next == Submit \/ Start \/ \E j \in running : Finish(j)

Spec == Init /\ [][Next]_vars /\ WF_vars(Start) /\ \A j \in 1 .. MaxJobs : WF_vars(j \in running /\ Finish(j))
=============================================================================
