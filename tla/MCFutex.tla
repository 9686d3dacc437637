------------------------------ MODULE MCFutex ------------------------------
(* Two keys, two bitsets and wake counts up to two; threads and keys are      *)
(* interchangeable.                                                        *)
EXTENDS Futex, TLC
Symmetry == Permutations(FutexThreads) \cup Permutations(Keys)
=============================================================================
