----------------------------- MODULE MCLiveView -----------------------------
(* Three events, two goroutines that publish, and one page.  Its filter has a wildcard *)
(* and another case of letters: the queries select e1 and e2 with it, and the stream   *)
(* passes e1 and e3.  A link made with the other filter is read as this one.           *)
EXTENDS LiveView, TLC
CONSTANTS e1, e2, e3, c1, noFilter, order, paid

OneFilter == [c \in {c1} |-> order]
ByQuery == noFilter :> {e1, e2, e3} @@ order :> {e1, e2} @@ paid :> {e2, e3}
ByStream == noFilter :> {e1, e2, e3} @@ order :> {e1, e3} @@ paid :> {e2, e3}
ByLink == noFilter :> noFilter @@ order :> order @@ paid :> order
=============================================================================
