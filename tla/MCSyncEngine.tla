---------------------------- MODULE MCSyncEngine ----------------------------
(* Bounds and symmetry for checking SyncEngine with TLC.                   *)
EXTENDS SyncEngine, TLC

\* Keys, contents and tasks are interchangeable; no liveness is checked with it.
Symmetry == Permutations(Keys) \cup Permutations(Vals) \cup Permutations(Tasks)
=============================================================================
