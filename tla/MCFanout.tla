------------------------------ MODULE MCFanout ------------------------------
(* One event for two subscribers, all of whose subscriptions match.  s1 has   *)
(* limits of zero and, twice, one; s2 the default limit and a negative one.   *)
EXTENDS Delivery, TLC

CONSTANTS e1, s1, s2, w1, w2, r1

FanoutOwner == 1 :> s1 @@ 2 :> s1 @@ 3 :> s2 @@ 4 :> s1 @@ 5 :> s2
FanoutPattern == [b \in 1..5 |-> {e1}]
FanoutFilter == [b \in 1..5 |-> {e1}]
FanoutLimit == 1 :> 0 @@ 2 :> 1 @@ 3 :> NoLimit @@ 4 :> 1 @@ 5 :> -1
FanoutParallel == [s \in {s1, s2} |-> 1]

\* Workers and tracker addresses are interchangeable.
Alike == Permutations(Workers) \cup Permutations(Runs)
=============================================================================
