---------------------------- MODULE SemaphoreUsers ----------------------------
(***************************************************************************)
(* Threads and an interrupt handler that use one semaphore in every        *)
(* possible order.  A thread is at label "run" outside of the semaphore's  *)
(* code and at label "P" while it sleeps in P or has been woken there.     *)
(***************************************************************************)
EXTENDS Semaphore, FiniteSets

CONSTANTS sem,       \* the semaphore
          MaxValue   \* bound: no V is called at this value

ASSUME SemAssumption == sem \in Sem
ASSUME ThreadAssumption == IsFiniteSet(Thread)
ASSUME MaxValueAssumption == MaxValue \in Nat

semUserVars == <<schedVars, semVars, pc>>

SemUserTypeOK ==
    /\ SchedTypeOK
    /\ SemTypeOK
    /\ pc \in [Thread -> {"run", "P"}]

SemUserInit ==
    /\ StartThreads
    /\ SemInit
    /\ pc = [t \in Thread |-> "run"]

CallP(t) == At(t, "run") /\ P(sem, "P", "run")

\* The thread was woken by a V, dispatched, and tests the value again.
ResumeP(t) == At(t, "P") /\ P(sem, "P", "run")

CallV(t) ==
    /\ At(t, "run")
    /\ value[sem] < MaxValue
    /\ V(sem)
    /\ UNCHANGED pc

\* An interrupt handler calls V, as the disk, console and network drivers do.
HandlerV ==
    /\ InterruptAt({"run"})
    /\ value[sem] < MaxValue
    /\ V(sem)
    /\ UNCHANGED pc

\* A voluntary yield and a time slice look the same here: both happen at
\* the only label with interrupts enabled.
SemUserYield == YieldAt({"run"}) /\ UNCHANGED <<semVars, pc>>

SemUserEndIdle == LeaveIdle /\ UNCHANGED <<semVars, pc>>

SemUserNext ==
    \/ \E t \in Thread : CallP(t) \/ ResumeP(t) \/ CallV(t)
    \/ HandlerV \/ SemUserYield \/ SemUserEndIdle

SemUserSpec == SemUserInit /\ [][SemUserNext]_semUserVars

\* Fairness: the processor does not stop inside of P or in the idle loop,
\* and a thread outside of P does not keep the processor for ever.  Nobody
\* is obliged to call P or V.
SemUserFairSpec ==
    /\ SemUserSpec
    /\ WF_semUserVars(\E t \in Thread : ResumeP(t))
    /\ WF_semUserVars(SemUserEndIdle)
    /\ WF_semUserVars(SemUserYield)

-----------------------------------------------------------------------------
(***************************************************************************)
(* Properties.                                                             *)
(***************************************************************************)
InP == {t \in Thread : pc[t] = "P"}

Queued == {t \in Thread : \E i \in 1..Len(queue[sem]) : queue[sem][i] = t}

\* Woken by a V, and not yet through the test of the while loop in P.
Woken == InP \ Queued

\* The queue holds exactly the threads asleep in P, each once: V never makes
\* a thread ready that is running or already ready.
QueueExact ==
    /\ \A i, j \in 1..Len(queue[sem]) : queue[sem][i] = queue[sem][j] => i = j
    /\ Queued = {t \in InP : status[t] = "BLOCKED"}

\* No lost wake-up: while threads sleep in the queue, every unit of the value
\* has a woken thread on its way to take it.  Otherwise P sleeps although
\* the value is positive and no V need ever come.
NoLostWakeup ==
    queue[sem] # <<>> => value[sem] <= Cardinality(Woken)

Abs == INSTANCE AbstractSemaphore
         WITH value <- value[sem], waiting <- InP, Initial <- InitialValue[sem]

\* P and V implement the abstract semaphore of synch.h, with its promise that
\* a waiter gets through when the value stays positive.
ImplementsSemaphore == Abs!Spec

\* The safety part of the same promise.
ImplementsSafety == Abs!Safety

=============================================================================
