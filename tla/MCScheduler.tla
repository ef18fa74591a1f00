---------------------------- MODULE MCScheduler ----------------------------
(* Instances of Scheduler for TLC. *)
EXTENDS Scheduler, TLC

CONSTANTS t1, t2, t3

TwoThreads   == {t1, t2}
ThreeThreads == {t1, t2, t3}
Naps         == {1, 3}
Symmetry2    == Permutations(TwoThreads)
Symmetry3    == Permutations(ThreeThreads)
=============================================================================
