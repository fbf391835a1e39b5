----------------------------- MODULE MCInterrupt -----------------------------
(***************************************************************************)
(* Model checking of Interrupt: two threads, two devices and the timer     *)
(* over a dozen ticks.                                                     *)
(***************************************************************************)
EXTENDS Interrupt

CONSTANTS t1, t2, t3

TwoThreads == <<t1, t2>>
ThreeThreads == <<t1, t2, t3>>

=============================================================================
