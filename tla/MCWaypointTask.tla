--------------------------- MODULE MCWaypointTask ---------------------------
(* Small instances of WaypointTask for TLC. *)
EXTENDS WaypointMotion, TLC

\* The tasks are interchangeable: sound for the safety run only.
TaskSymmetry == Permutations(Tasks)
=============================================================================
