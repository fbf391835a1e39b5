------------------------------ MODULE MCThreads ------------------------------
(***************************************************************************)
(* Model checking of Threads: the main thread and two or three others,     *)
(* whose objects may be created, deleted and created again without bound.  *)
(***************************************************************************)
EXTENDS Threads, TLC

\* All threads but main are interchangeable (safety runs only).
ThreadSymmetry == Permutations(Thread \ {main})

=============================================================================
