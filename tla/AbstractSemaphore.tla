-------------------------- MODULE AbstractSemaphore --------------------------
(***************************************************************************)
(* What a semaphore promises (threads/synch.h): a non-negative value; P    *)
(* waits until the value is positive and decrements it in the same step;   *)
(* V increments it.  There is no queue, no scheduler and no wake-up here.  *)
(* The fairness is the promise that matters: when the value is positive    *)
(* and somebody waits in P, a waiter gets through - no wake-up is lost.    *)
(***************************************************************************)
EXTENDS Naturals

CONSTANTS Thread, Initial

VARIABLES value,    \* the value of the semaphore
          waiting   \* threads inside of P

vars == <<value, waiting>>

Init == value = Initial /\ waiting = {}

PassP ==
    /\ value > 0
    /\ value' = value - 1
    /\ UNCHANGED waiting

EnterP(t) ==
    /\ t \notin waiting
    /\ waiting' = waiting \cup {t}
    /\ UNCHANGED value

LeaveP(t) ==
    /\ t \in waiting
    /\ value > 0
    /\ value' = value - 1
    /\ waiting' = waiting \ {t}

V == value' = value + 1 /\ UNCHANGED waiting

Next == PassP \/ V \/ \E t \in Thread : EnterP(t) \/ LeaveP(t)

Safety == Init /\ [][Next]_vars

Service == WF_vars(\E t \in Thread : LeaveP(t))

Spec == Safety /\ Service

=============================================================================
