------------------------------ MODULE SynchList ------------------------------
(***************************************************************************)
(* threads/synchlist.cc: a list with a lock and the condition listEmpty,   *)
(* used by threads that call Append, Remove and Mapcar in any order.  Only *)
(* the number of items matters here.  Labels of pc:                        *)
(*   "out"                 outside of the list's code                      *)
(*   "aP", "rP", "mP"      in the P of Acquire (Append, Remove, Mapcar)    *)
(*   "aGot", "rGot", "mGot"  P has returned, the lock is ours              *)
(*   "aSig"                Signal has returned, in Append                  *)
(*   "wGave"               V of the Release in Wait has returned           *)
(*   "wWoken"              asleep in Wait, or signalled and resumed        *)
(*   "gave"                V of the final Release has returned             *)
(***************************************************************************)
EXTENDS Condition, FiniteSets

CONSTANTS lock, listEmpty,  \* the SynchList's fields
          MaxItems          \* bound on the items, those being appended included

ASSUME FieldsAssumption == lock \in LockId /\ listEmpty \in Cond
ASSUME MaxItemsAssumption == MaxItems \in Nat

VARIABLE listLen   \* number of items on the list

vars == <<schedVars, semVars, pc, lockVars, condQueue, listLen>>

Label == {"out", "aP", "rP", "mP", "aGot", "rGot", "mGot", "aSig", "wGave",
          "wWoken", "gave"}

\* Labels that follow an enabling of interrupts inside of the list's code.
IntOn == {"aGot", "rGot", "mGot", "aSig", "wGave", "wWoken", "gave"}

TypeOK ==
    /\ SchedTypeOK
    /\ SemTypeOK
    /\ LockTypeOK
    /\ CondTypeOK
    /\ pc \in [Thread -> Label]
    /\ listLen \in 0..MaxItems

Init ==
    /\ StartThreads
    /\ SemInit
    /\ LockInit
    /\ CondInit
    /\ pc = [t \in Thread |-> "out"]
    /\ listLen = 0

-----------------------------------------------------------------------------
\* lock->Acquire() at the start of each operation and at the end of Wait.
AcquireFor(t, from, again, got) ==
    /\ At(t, from)
    /\ Acquire(lock, again, got)
    /\ UNCHANGED <<condQueue, listLen>>

\* lock->Release() right after the holder was recorded, so that the test in
\* Release succeeds.
AcquiredThenRelease(t, next) ==
    /\ RecordHolder(lock)
    /\ V(lock)
    /\ Goto(t, next)

\* Threads that have called Append and not put their item on the list yet.
Appending == {t \in Thread : pc[t] \in {"aP", "aGot"}}

\* SynchList::Append
CallAppend(t) ==
    /\ listLen + Cardinality(Appending) < MaxItems
    /\ AcquireFor(t, "out", "aP", "aGot")

ResumeAppend(t) == AcquireFor(t, "aP", "aP", "aGot")

\* A faulty Append that signals only when the list was empty.
AppendSignalsOnce(t) ==
    /\ At(t, "aGot")
    /\ RecordHolder(lock)
    /\ listLen' = listLen + 1
    /\ IF listLen = 0 THEN Signal(listEmpty) ELSE UNCHANGED <<condQueue, schedVars>>
    /\ Goto(t, "aSig")
    /\ UNCHANGED semVars

AppendItem(t) ==
    /\ At(t, "aGot")
    /\ RecordHolder(lock)
    /\ listLen' = listLen + 1
    /\ Signal(listEmpty)
    /\ Goto(t, "aSig")
    /\ UNCHANGED semVars

EndAppend(t) ==
    /\ At(t, "aSig")
    /\ Release(lock, "gave", "out")
    /\ UNCHANGED <<condQueue, listLen>>

\* SynchList::Remove
CallRemove(t) == AcquireFor(t, "out", "rP", "rGot")

ResumeRemove(t) == AcquireFor(t, "rP", "rP", "rGot")

\* A faulty Remove that reads the item and does not take it off.
RemoveKeepsItem(t) ==
    /\ At(t, "rGot")
    /\ listLen > 0
    /\ AcquiredThenRelease(t, "gave")
    /\ UNCHANGED <<condQueue, listLen>>

RemoveItem(t) ==
    /\ At(t, "rGot")
    /\ listLen > 0
    /\ listLen' = listLen - 1
    /\ AcquiredThenRelease(t, "gave")
    /\ UNCHANGED condQueue

WaitRelease(t) ==
    /\ At(t, "rGot")
    /\ listLen = 0
    /\ AcquiredThenRelease(t, "wGave")
    /\ UNCHANGED <<condQueue, listLen>>

WaitForItem(t) ==
    /\ At(t, "wGave")
    /\ WaitSleep(listEmpty, lock, "wWoken")
    /\ UNCHANGED <<semVars, listLen>>

\* A faulty Wait that returns without the lock.
WaitWithoutLock(t) ==
    /\ At(t, "wWoken")
    /\ Goto(t, "rGot")
    /\ UNCHANGED <<schedVars, semVars, lockVars, condQueue, listLen>>

WaitAcquire(t) == AcquireFor(t, "wWoken", "rP", "rGot")

\* SynchList::Mapcar
CallMapcar(t) == AcquireFor(t, "out", "mP", "mGot")

ResumeMapcar(t) == AcquireFor(t, "mP", "mP", "mGot")

MapcarItems(t) ==
    /\ At(t, "mGot")
    /\ AcquiredThenRelease(t, "gave")
    /\ UNCHANGED <<condQueue, listLen>>

\* The second half of the Release that ends each operation.
EndRelease(t) ==
    /\ At(t, "gave")
    /\ ForgetHolder(lock)
    /\ Goto(t, "out")
    /\ UNCHANGED <<schedVars, semVars, condQueue, listLen>>

Yield == YieldAt({"out"}) /\ UNCHANGED <<semVars, pc, lockVars, condQueue, listLen>>

Preempt == TimeSlice(IntOn) /\ UNCHANGED <<semVars, pc, lockVars, condQueue, listLen>>

\* When every thread sleeps in Remove the idle loop is never left: no handler
\* of this program appends to a SynchList here, so there is no such action.
Step(t) ==
    \/ ResumeAppend(t) \/ AppendItem(t) \/ EndAppend(t)
    \/ ResumeRemove(t) \/ RemoveItem(t)
    \/ WaitRelease(t) \/ WaitForItem(t) \/ WaitAcquire(t)
    \/ ResumeMapcar(t) \/ MapcarItems(t) \/ EndRelease(t)

Next ==
    \/ \E t \in Thread : CallAppend(t) \/ CallRemove(t) \/ CallMapcar(t) \/ Step(t)
    \/ Yield \/ Preempt

Spec == Init /\ [][Next]_vars

\* Fairness: the processor never stops inside of the list's code, and a
\* thread that is outside of it again and again does not keep the processor
\* for ever (strong fairness, since Yield is disabled while the thread is in
\* the list's code).
FairSpec ==
    /\ Spec
    /\ \A t \in Thread : WF_vars(Step(t))
    /\ SF_vars(Yield)

-----------------------------------------------------------------------------
(***************************************************************************)
(* Properties.                                                             *)
(***************************************************************************)
\* Threads in Remove that will still look at the list before they sleep.
AboutToLook == {t \in Thread : pc[t] \in {"rP", "rGot"}}
               \cup {t \in Thread : pc[t] = "wWoken" /\ status[t] # "BLOCKED"}

\* Append wakes "anyone waiting for an element to be appended" and Remove
\* waits only "if the list is empty": while a thread sleeps on listEmpty,
\* every item on the list has a thread on its way to take it.
NoLostSignal ==
    condQueue[listEmpty] # <<>> => listLen <= Cardinality(AboutToLook)

\* The queue of listEmpty holds exactly the threads asleep in Wait, each
\* once, so that Signal never makes a thread ready that is not blocked.
SleepersQueued ==
    LET q == condQueue[listEmpty]
    IN  /\ \A i, j \in 1..Len(q) : q[i] = q[j] => i = j
        /\ {q[i] : i \in 1..Len(q)} =
             {t \in Thread : pc[t] = "wWoken" /\ status[t] = "BLOCKED"}

\* One thread at a time works on the list, also when threads come back from
\* Wait: this is what makes the list's own code safe.
ListExclusion ==
    \A t, u \in Thread :
        pc[t] \in {"aGot", "rGot", "mGot", "aSig"}
        /\ pc[u] \in {"aGot", "rGot", "mGot", "aSig"} => t = u

\* What Append, Remove and Wait keep true of the list, its lock and the queue
\* of its condition between them.
SynchListInv == TypeOK /\ SleepersQueued /\ ListExclusion

InRemove == {t \in Thread : pc[t] \in {"rP", "rGot", "wGave", "wWoken"}}

Abs == INSTANCE AbstractSemaphore
         WITH value <- listLen, waiting <- InRemove, Initial <- 0

\* The list is a semaphore that counts its items: Remove is P and Append is
\* V, with and without the timer.
CountsItems == Abs!Safety

\* Without the timer Wait is atomic, no signal is lost, and the list also
\* keeps the semaphore's promise: an item on the list is taken when somebody
\* waits for one.
ItemsTaken == ~randomYield => Abs!Service

=============================================================================
