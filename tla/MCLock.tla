------------------------------- MODULE MCLock -------------------------------
(***************************************************************************)
(* Model checking of LockUsers: one lock, up to four threads.              *)
(***************************************************************************)
EXTENDS LockUsers, TLC

CONSTANTS t1, t2, t3, t4

ThreeThreads == <<t1, t2, t3>>
FourThreads == <<t1, t2, t3, t4>>

OneUnit == [s \in Sem |-> 1]

=============================================================================
