--------------------------- MODULE MCGuardedSync ---------------------------
(* Bounds and symmetry for checking GuardedSync with TLC.                  *)
EXTENDS GuardedSync, TLC

\* Tasks and configurations are interchangeable; no liveness is checked with it.
Symmetry == Permutations(Tasks) \cup Permutations(Configs)
=============================================================================
