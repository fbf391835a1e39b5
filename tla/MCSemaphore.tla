------------------------------ MODULE MCSemaphore ------------------------------
(***************************************************************************)
(* Model checking of SemaphoreUsers: one semaphore, four threads.          *)
(***************************************************************************)
EXTENDS SemaphoreUsers, TLC

CONSTANTS t1, t2, t3, t4

FourThreads == <<t1, t2, t3, t4>>

OneUnit == [s \in Sem |-> 1]

=============================================================================
