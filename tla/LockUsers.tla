------------------------------ MODULE LockUsers ------------------------------
(***************************************************************************)
(* Threads that acquire and release one lock.  Labels of pc:               *)
(*   "out"   outside of the lock's code                                    *)
(*   "P"     asleep, or woken, in the P of Acquire                         *)
(*   "got"   P has returned, threadHoldTheLock is not written yet          *)
(*   "cs"    in the critical section                                       *)
(*   "gave"  V of Release has returned, threadHoldTheLock not cleared yet  *)
(***************************************************************************)
EXTENDS Lock, FiniteSets

CONSTANT lock    \* the lock

ASSUME TheLockAssumption == lock \in LockId

lockUserVars == <<schedVars, semVars, pc, lockVars>>

LockUserTypeOK ==
    /\ SchedTypeOK
    /\ SemTypeOK
    /\ LockTypeOK
    /\ pc \in [Thread -> {"out", "P", "got", "cs", "gave"}]

LockUserInit ==
    /\ StartThreads
    /\ SemInit
    /\ LockInit
    /\ pc = [t \in Thread |-> "out"]

CallAcquire(t) == At(t, "out") /\ Acquire(lock, "P", "got")

ResumeAcquire(t) == At(t, "P") /\ Acquire(lock, "P", "got")

EndAcquire(t) ==
    /\ At(t, "got")
    /\ RecordHolder(lock)
    /\ Goto(t, "cs")
    /\ UNCHANGED <<schedVars, semVars>>

CallRelease(t) == At(t, "cs") /\ Release(lock, "gave", "out")

EndRelease(t) ==
    /\ At(t, "gave")
    /\ ForgetHolder(lock)
    /\ Goto(t, "out")
    /\ UNCHANGED <<schedVars, semVars>>

\* The clients' own code may yield inside and outside of the critical section.
LockUserYield == YieldAt({"out", "cs"}) /\ UNCHANGED <<semVars, pc, lockVars>>

\* The timer may take the processor wherever interrupts were just enabled.
\* (No interrupt handler uses the lock, so an idle loop, reached when every
\* thread sleeps, is never left and needs no action.)
Preempt == TimeSlice({"got", "gave"}) /\ UNCHANGED <<semVars, pc, lockVars>>

Step(t) ==
    EndRelease(t) \/ EndAcquire(t) \/ ResumeAcquire(t)

LockUserNext ==
    \/ \E t \in Thread : CallAcquire(t) \/ CallRelease(t) \/ Step(t)
    \/ LockUserYield \/ Preempt

LockUserSpec == LockUserInit /\ [][LockUserNext]_lockUserVars

\* Fairness: the processor never stops inside of the lock's code; a thread
\* in client code yields now and then; and a critical section, however often
\* it yields, is finite and ends in Release (hence strong fairness:
\* CallRelease is only enabled while the thread runs).
LockUserFairSpec ==
    /\ LockUserSpec
    /\ \A t \in Thread : WF_lockUserVars(Step(t)) /\ SF_lockUserVars(CallRelease(t))
    /\ WF_lockUserVars(LockUserYield)

-----------------------------------------------------------------------------
(***************************************************************************)
(* Properties.                                                             *)
(***************************************************************************)
Inside(t) == pc[t] \in {"got", "cs"}

\* At most one thread is between the P of Acquire and the V of Release, with
\* and without time slices, whatever threadHoldTheLock says.
MutualExclusion == \A t, u \in Thread : Inside(t) /\ Inside(u) => t = u

\* isHeldByCurrentThread is never true for a thread outside of the lock, so
\* that a stray Release cannot open somebody else's critical section.
HolderIsInside ==
    holder[lock] # NoThread => pc[holder[lock]] \in {"cs", "gave"}

\* Without the timer a thread waiting in Acquire means that the lock changes
\* hands again.
LockPassedOn ==
    (~randomYield /\ \E t \in Thread : pc[t] = "P")
        ~> (\E t \in Thread : pc[t] = "got")

=============================================================================
