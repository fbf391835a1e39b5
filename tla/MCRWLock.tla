------------------------------ MODULE MCRWLock ------------------------------
(***************************************************************************)
(* Model checking of RWLock: threads that read and write in any order.     *)
(***************************************************************************)
EXTENDS RWLock, TLC

CONSTANTS t1, t2, t3

ThreeThreads == <<t1, t2, t3>>

OneUnit == [s \in Sem |-> 1]

=============================================================================
