------------------------------ MODULE Condition ------------------------------
(***************************************************************************)
(* class Condition of threads/synch.cc (Mesa semantics).  Wait calls       *)
(* Lock::Release, which enables interrupts, and only then disables them to *)
(* queue the thread and sleep.                                             *)
(***************************************************************************)
EXTENDS Lock

CONSTANT Cond   \* the Condition objects

VARIABLE condQueue   \* threads waiting for each condition, in FIFO order

CondTypeOK == condQueue \in [Cond -> Seq(Thread)]

\* Condition::Condition
CondInit == condQueue = [c \in Cond |-> <<>>]

\* Condition::Wait after its call of Release: the end of Release, then the
\* thread queues itself and sleeps.  It resumes at label woken, where it
\* enables interrupts and calls Acquire.
WaitSleep(c, l, woken) ==
    /\ ForgetHolder(l)
    /\ condQueue' = [condQueue EXCEPT ![c] = Append(@, currentThread)]
    /\ SleepCPU
    /\ Goto(currentThread, woken)

\* Condition::Signal: the first waiter, if any, becomes ready.
Signal(c) ==
    IF condQueue[c] = <<>>
    THEN UNCHANGED <<condQueue, schedVars>>
    ELSE /\ condQueue' = [condQueue EXCEPT ![c] = Tail(@)]
         /\ ReadyToRun(Head(condQueue[c]))

=============================================================================
