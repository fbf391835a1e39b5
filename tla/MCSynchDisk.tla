----------------------------- MODULE MCSynchDisk -----------------------------
(***************************************************************************)
(* Model checking of SynchDisk: threads that read and write sectors.       *)
(***************************************************************************)
EXTENDS SynchDisk, TLC

CONSTANTS t1, t2, t3

ThreeThreads == <<t1, t2, t3>>

\* The lock's semaphore starts at 1, the one of the interrupt at 0.
DiskValues == [s \in Sem |-> IF s = lock THEN 1 ELSE 0]

=============================================================================
