------------------------------- MODULE RWLock -------------------------------
(***************************************************************************)
(* class RWLock of threads/synch.cc: the lock rdlock protects the count of *)
(* readers, and the semaphore wrlock is held by a writer or, together, by  *)
(* all readers.  Labels of pc:                                             *)
(*   "out", "reading", "writing"   the clients' own code                   *)
(*   "rP", "uP"      in the P of rdlock->Acquire (rdLock, rdUnlock)        *)
(*   "rGot", "uGot"  that P has returned                                   *)
(*   "rwP"           first reader, in wrlock->P, with rdlock held          *)
(*   "rIn"           first reader, wrlock->P has returned                  *)
(*   "uOut"          last reader, wrlock->V has returned                   *)
(*   "rGave", "uGave"  V of rdlock->Release has returned                   *)
(*   "wP"            writer, in wrlock->P                                  *)
(***************************************************************************)
EXTENDS Lock, FiniteSets

CONSTANTS rdlock, wrlock  \* the RWLock's lock and semaphore

ASSUME FieldsAssumption ==
    rdlock \in LockId /\ wrlock \in Sem \ LockId /\ InitialValue[wrlock] = 1

VARIABLE readers   \* RWLock::readers

vars == <<schedVars, semVars, pc, lockVars, readers>>

Label == {"out", "reading", "writing", "rP", "rGot", "rwP", "rIn", "rGave",
          "uP", "uGot", "uOut", "uGave", "wP"}

\* Labels that follow an enabling of interrupts inside of the lock's code.
IntOn == {"rGot", "rIn", "rGave", "uGot", "uOut", "uGave"}

TypeOK ==
    /\ SchedTypeOK
    /\ SemTypeOK
    /\ LockTypeOK
    /\ pc \in [Thread -> Label]
    /\ readers \in 0 .. Cardinality(Thread)

\* RWLock::RWLock
Init ==
    /\ StartThreads
    /\ SemInit
    /\ LockInit
    /\ pc = [t \in Thread |-> "out"]
    /\ readers = 0

-----------------------------------------------------------------------------
\* rdlock->Acquire() at the start of rdLock and rdUnlock.
AcquireFor(t, from, again, got) ==
    /\ At(t, from)
    /\ Acquire(rdlock, again, got)
    /\ UNCHANGED readers

\* RWLock::rdLock
CallRdLock(t) == AcquireFor(t, "out", "rP", "rGot")

ResumeRdLock(t) == AcquireFor(t, "rP", "rP", "rGot")

\* A faulty rdLock in which no reader takes wrlock.
FirstReaderFree(t) ==
    /\ At(t, "rGot")
    /\ readers = 0
    /\ RecordHolder(rdlock)
    /\ Goto(t, "rIn")
    /\ UNCHANGED <<schedVars, semVars, readers>>

FirstReader(t) ==
    /\ At(t, "rGot")
    /\ readers = 0
    /\ RecordHolder(rdlock)
    /\ P(wrlock, "rwP", "rIn")
    /\ UNCHANGED readers

ResumeFirstReader(t) ==
    /\ At(t, "rwP")
    /\ P(wrlock, "rwP", "rIn")
    /\ UNCHANGED <<lockVars, readers>>

EnterFirst(t) ==
    /\ At(t, "rIn")
    /\ readers' = readers + 1
    /\ Release(rdlock, "rGave", "reading")

EnterOther(t) ==
    /\ At(t, "rGot")
    /\ readers # 0
    /\ RecordHolder(rdlock)
    /\ readers' = readers + 1
    /\ V(rdlock)
    /\ Goto(t, "rGave")

\* RWLock::rdUnlock
CallRdUnlock(t) == AcquireFor(t, "reading", "uP", "uGot")

ResumeRdUnlock(t) == AcquireFor(t, "uP", "uP", "uGot")

\* A faulty rdUnlock: only the last reader decrements the count.
LeaveCountsLast(t) ==
    /\ At(t, "uGot")
    /\ RecordHolder(rdlock)
    /\ readers' = IF readers = 1 THEN 0 ELSE readers
    /\ IF readers = 1 THEN V(wrlock) /\ Goto(t, "uOut")
                      ELSE V(rdlock) /\ Goto(t, "uGave")

\* The last reader gives wrlock back, the others release rdlock at once.
LeaveReader(t) ==
    /\ At(t, "uGot")
    /\ RecordHolder(rdlock)
    /\ readers' = readers - 1
    /\ IF readers = 1 THEN V(wrlock) /\ Goto(t, "uOut")
                      ELSE V(rdlock) /\ Goto(t, "uGave")

LeaveLast(t) ==
    /\ At(t, "uOut")
    /\ Release(rdlock, "uGave", "out")
    /\ UNCHANGED readers

\* The second half of rdlock->Release().
EndRelease(t) ==
    /\ \/ At(t, "rGave") /\ Goto(t, "reading")
       \/ At(t, "uGave") /\ Goto(t, "out")
    /\ ForgetHolder(rdlock)
    /\ UNCHANGED <<schedVars, semVars, readers>>

\* RWLock::wrLock and wrUnlock
CallWrLock(t) ==
    /\ At(t, "out")
    /\ P(wrlock, "wP", "writing")
    /\ UNCHANGED <<lockVars, readers>>

ResumeWrLock(t) ==
    /\ At(t, "wP")
    /\ P(wrlock, "wP", "writing")
    /\ UNCHANGED <<lockVars, readers>>

CallWrUnlock(t) ==
    /\ At(t, "writing")
    /\ V(wrlock)
    /\ Goto(t, "out")
    /\ UNCHANGED <<lockVars, readers>>

Yield ==
    /\ YieldAt({"out", "reading", "writing"})
    /\ UNCHANGED <<semVars, pc, lockVars, readers>>

Preempt == TimeSlice(IntOn) /\ UNCHANGED <<semVars, pc, lockVars, readers>>

Step(t) ==
    \/ ResumeRdLock(t) \/ FirstReader(t) \/ ResumeFirstReader(t)
    \/ EnterFirst(t) \/ EnterOther(t)
    \/ ResumeRdUnlock(t) \/ LeaveReader(t) \/ LeaveLast(t)
    \/ EndRelease(t) \/ ResumeWrLock(t)

Unlock(t) == CallRdUnlock(t) \/ CallWrUnlock(t)

Next ==
    \/ \E t \in Thread : CallRdLock(t) \/ CallWrLock(t) \/ Unlock(t) \/ Step(t)
    \/ Yield \/ Preempt

Spec == Init /\ [][Next]_vars

\* Fairness: the processor never stops inside of the lock's code; client
\* code does not keep it for ever; and reading and writing, however often
\* they yield, are finite.
FairSpec ==
    /\ Spec
    /\ \A t \in Thread : WF_vars(Step(t)) /\ SF_vars(Unlock(t))
    /\ SF_vars(Yield)

-----------------------------------------------------------------------------
(***************************************************************************)
(* Properties.                                                             *)
(***************************************************************************)
\* Threads counted in readers, from the increment to the decrement.
Reader == {t \in Thread : pc[t] \in {"rGave", "reading", "uP", "uGot"}}

Writer == {t \in Thread : pc[t] = "writing"}

\* A writer is alone: nobody else writes, nobody reads, and no first reader
\* has got past wrlock.
WriterAlone ==
    /\ \A t, u \in Writer : t = u
    /\ Writer # {} => Reader \cup {t \in Thread : pc[t] = "rIn"} = {}

\* The count is exact although several readers enter and leave at once; if
\* it were not, wrlock would be given back too early or never.
ReadersExact == readers = Cardinality(Reader)

\* Without the timer neither half of the lock is lost: when wrlock is taken
\* there is a writer or a reader that will give it back, and when rdlock is
\* taken a thread is in its critical section.
NeitherLockLost ==
    ~randomYield =>
        /\ value[wrlock] = 0 =>
             Writer \cup Reader \cup {t \in Thread : pc[t] = "rIn"} # {}
        /\ value[rdlock] = 0 =>
             \E t \in Thread : pc[t] \in {"rGot", "rwP", "rIn", "uGot", "uOut"}

\* What rdLock and rdUnlock keep true of the count and of both locks.
RWLockInv == TypeOK /\ ReadersExact /\ NeitherLockLost

\* Without the timer the lock goes on being granted while anyone waits for
\* it.  (A given reader or writer may starve: readers overtake writers, and
\* a running thread overtakes a woken one.)
AccessGranted ==
    (~randomYield /\ \E t \in Thread : pc[t] \in {"rP", "rwP", "wP", "uP"})
        ~> (\E t \in Thread : pc[t] \in {"rGave", "writing", "uGave"})

=============================================================================
