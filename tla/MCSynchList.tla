----------------------------- MODULE MCSynchList -----------------------------
(***************************************************************************)
(* Model checking of SynchList: three threads that append and remove.      *)
(***************************************************************************)
EXTENDS SynchList, TLC

CONSTANTS t1, t2, t3

ThreeThreads == <<t1, t2, t3>>

OneUnit == [s \in Sem |-> 1]

=============================================================================
