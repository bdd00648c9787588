------------------------ MODULE MCRuntimeSupervisor ------------------------
(* Pids and recovery tasks are interchangeable. *)
EXTENDS RuntimeSupervisor, TLC

Symmetry == Permutations(Proc) \cup Permutations(Recoveries)
=============================================================================
