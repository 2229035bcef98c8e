---------------------------- MODULE MCSemaphores ----------------------------
(* Up to three tasks for one subscriber, and one for another. *)
EXTENDS Semaphores, TLC
CONSTANTS s1, s2, t1, t2, t3, t4, i1, i2, i3, i4, i5

Targets == [t \in Tasks |-> IF t = t4 THEN s2 ELSE s1]
SomeSizes == {-1, 1, 2}
=============================================================================
