-------------------------------- MODULE Lock --------------------------------
(***************************************************************************)
(* class Lock of threads/synch.cc: a semaphore of value 1 and the field    *)
(* threadHoldTheLock.  The lock l owns semaphore l.  The field is written  *)
(* after P and after V have enabled interrupts again, so both operations   *)
(* are two steps with a preemption point between them.                     *)
(***************************************************************************)
EXTENDS Semaphore

CONSTANT LockId   \* the Lock objects, each with a semaphore of its own

ASSUME LockAssumption ==
    /\ LockId \subseteq Sem
    /\ \A l \in LockId : InitialValue[l] = 1

VARIABLES holder,      \* threadHoldTheLock of each lock
          randomYield  \* Nachos was started with -rs: there is a timer

lockVars == <<holder, randomYield>>

LockTypeOK ==
    /\ holder \in [LockId -> Thread \cup {NoThread}]
    /\ randomYield \in BOOLEAN

\* Lock::Lock, and the option of Initialize().
LockInit ==
    /\ holder = [l \in LockId |-> NoThread]
    /\ randomYield \in BOOLEAN

isHeldByCurrentThread(l) == holder[l] = currentThread

\* Lock::Acquire, first half: semaphore->P().
Acquire(l, again, done) == P(l, again, done) /\ UNCHANGED lockVars

\* Lock::Acquire, second half.
RecordHolder(l) ==
    holder' = [holder EXCEPT ![l] = currentThread] /\ UNCHANGED randomYield

\* Lock::Release, first half: V() by the recorded holder; for anyone else
\* Release does nothing at all, and control is at label skip.
Release(l, half, skip) ==
    /\ IF isHeldByCurrentThread(l)
       THEN V(l) /\ Goto(currentThread, half)
       ELSE Goto(currentThread, skip) /\ UNCHANGED <<semVars, schedVars>>
    /\ UNCHANGED lockVars

\* A faulty Release that does not clear threadHoldTheLock.
KeepHolder(l) == UNCHANGED lockVars

\* Lock::Release, second half: threadHoldTheLock = NULL, whoever it names.
ForgetHolder(l) ==
    holder' = [holder EXCEPT ![l] = NoThread] /\ UNCHANGED randomYield

\* Interrupt::OneTick, called when interrupts are enabled: the timer handler
\* has asked for a yield.  labels are the places where OneTick has just run.
TimeSlice(labels) == randomYield /\ YieldAt(labels)

=============================================================================
