------------------------------ MODULE MCChurn -------------------------------
(* The subscriptions change between the dispatch of an event and its resume:  *)
(* from s1 (with one retry) and s2 to s2 alone, to a subscription whose       *)
(* filter rejects the event, to one whose subscriber is gone, and to none.    *)
EXTENDS Delivery, TLC

CONSTANTS e1, s1, s2, s3, w1, w2, r1

ChurnOwner == 1 :> s1 @@ 2 :> s2 @@ 3 :> s1 @@ 4 :> s3
ChurnPattern == [b \in 1..4 |-> {e1}]
ChurnFilter == [b \in 1..4 |-> IF b = 3 THEN {} ELSE {e1}]
ChurnLimit == 1 :> 1 @@ 2 :> 0 @@ 3 :> 1 @@ 4 :> 0
ChurnTables == {{1, 2}, {2}, {3, 4}, {}}
ChurnParallel == [s \in {s1, s2, s3} |-> 1]

\* Workers are interchangeable.
Alike == Permutations(Workers)
=============================================================================
