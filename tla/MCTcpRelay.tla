----------------------------- MODULE MCTcpRelay -----------------------------
(* One client sends its queries on one connection, another only connects.    *)
EXTENDS TcpRelay, TLC

CONSTANTS c1, n1, n2, a1, w1

MCConnOf     == [q \in Queries |-> c1]
MCQuestionOf == [q \in Queries |-> <<n1, n2, n1>>[q]]

(* Addresses are interchangeable until one has been used, and workers when   *)
(* all are idle.  Exchanging them maps behaviours to behaviours: it is       *)
(* enough to look at those in which the first is taken first.                *)
FirstAddressFirst ==
    (\A c \in Conns : conn[c] # "closed") => object[a1] # None \/ \A a \in Addrs : object[a] = None

FirstWorkerFirst ==
    (\A w \in Workers : pc[w] = "idle") => \A w \in Workers \ {w1} : pc'[w] = "idle"
=============================================================================
