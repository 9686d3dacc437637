---------------------------- MODULE MCWorkspace ----------------------------
(* A new installation: the server has no thread, so the two threads, like  *)
(* the two tasks, are interchangeable.                                     *)
EXTENDS Workspace

CONSTANTS a, b, k1, k2

Symmetry == Permutations(Tasks) \cup Permutations(Threads)
=============================================================================
