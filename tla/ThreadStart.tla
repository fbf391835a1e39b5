---------------------------- MODULE ThreadStart ----------------------------
(***************************************************************************)
(* Where the modules of kernel code start: all their threads have been     *)
(* forked by the first one and none of the others has run yet.             *)
(***************************************************************************)
EXTENDS Scheduler

CONSTANT Start   \* the threads, in the order of their Fork

ASSUME StartAssumption ==
    /\ Start \in Seq(Thread)
    /\ Start # <<>>
    /\ \A t \in Thread : \E i \in 1..Len(Start) : Start[i] = t
    /\ \A i, j \in 1..Len(Start) : Start[i] = Start[j] => i = j

\* The first thread runs, the others are on the ready list.
StartThreads ==
    /\ currentThread = Head(Start)
    /\ readyList = Tail(Start)
    /\ status = [t \in Thread |-> IF t = Head(Start) THEN "RUNNING" ELSE "READY"]

=============================================================================
