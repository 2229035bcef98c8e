----------------------------- MODULE MCRegistry -----------------------------
(* One subscriber, registered with subscriptions to p1 and p2.  One body asks *)
(* for the same; the other drops p1 and names p2 twice, the terms that count  *)
(* last.                                                                      *)
EXTENDS Registry, TLC

CONSTANTS u1, h1, h2, r1, r2, p1, p2, e1

Wish(p, t) == [pattern |-> p, terms |-> t]
Bodies ==
    {[url |-> u1, settings |-> 1, subs |-> <<Wish(p1, 1), Wish(p2, 1)>>],
     [url |-> u1, settings |-> 2, subs |-> <<Wish(p2, 1), Wish(p2, 2)>>]}
OneStored ==
    [subscribers |-> {[id |-> 1, url |-> u1, settings |-> 1]},
     subscriptions |-> {[id |-> 2, owner |-> 1, pattern |-> p1, terms |-> 1],
                        [id |-> 3, owner |-> 1, pattern |-> p2, terms |-> 1]},
     lastId |-> 3]
MatchesE1 == [p \in {p1, p2} |-> {e1}]

\* Handlers are interchangeable, and readers are.
Alike == Permutations(Handlers) \cup Permutations(Readers)
=============================================================================
