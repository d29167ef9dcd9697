---------------------------- MODULE MCUdpRelay ----------------------------
(* Instances of UdpRelay: two questions, the first query alone in asking the *)
(* second of them; one address family, or the nameservers on the other.      *)
EXTENDS UdpRelay, TLC

CONSTANTS q1, r1, a, b, v4, v6

QuestionOf_ab     == [q \in Queries |-> IF q = q1 THEN b ELSE a]
ClientFamily_v4   == [q \in Queries |-> v4]
RemoteFamily_v4   == [r \in Remotes |-> v4]
RemoteFamily_v6   == [r \in Remotes |-> v6]

(* Workers are interchangeable, and so are the queries that ask the same.    *)
Symmetry == Permutations(Workers) \cup Permutations(Queries \ {q1})

(* With two queries, exchanging them and their questions maps behaviours to  *)
(* behaviours: it is enough to look at those in which q1 is sent first.      *)
FirstQueryFirst == sent # {} => q1 \in sent
=============================================================================
