----------------------------- MODULE MCPipeline -----------------------------
(* Two events compete for one slot everywhere: DeliveryChan, taskQueue and    *)
(* the semaphore of s1, which both events are for, e1 with a retry; e2 is for *)
(* s2 as well.  s3 also matches e2 but its filter rejects it, and s4 is gone. *)
EXTENDS Replay, TLC

CONSTANTS e1, e2, s1, s2, s3, s4, w1, w2, r1, r2, r3, g1

PipelineOwner == 1 :> s1 @@ 2 :> s2 @@ 3 :> s3 @@ 4 :> s4 @@ 5 :> s1
PipelinePattern == 1 :> {e1} @@ 2 :> {e2} @@ 3 :> {e2} @@ 4 :> {e1} @@ 5 :> {e2}
PipelineFilter == 1 :> {e1, e2} @@ 2 :> {e1, e2} @@ 3 :> {e1} @@ 4 :> {e1, e2} @@ 5 :> {e1, e2}
PipelineLimit == 1 :> 1 @@ 2 :> 0 @@ 3 :> 0 @@ 4 :> 0 @@ 5 :> 0
PipelineParallel == [s \in {s1, s2, s3, s4} |-> 1]

\* Workers and tracker addresses are interchangeable.
Alike == Permutations(Workers) \cup Permutations(Runs)
=============================================================================
