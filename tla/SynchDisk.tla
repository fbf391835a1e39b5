------------------------------ MODULE SynchDisk ------------------------------
(***************************************************************************)
(* filesys/synchdisk.cc over machine/disk.cc: a lock admits one thread at  *)
(* a time to the disk, and a semaphore makes it wait for the interrupt     *)
(* that ends its request.  ReadSector and WriteSector differ only in the   *)
(* direction of the transfer and are one operation here.  Labels of pc:    *)
(*   "out"   outside of the disk's code                                    *)
(*   "P"     in the P of lock->Acquire                                     *)
(*   "got"   that P has returned                                           *)
(*   "io"    request sent, in semaphore->P                                 *)
(*   "done"  semaphore->P has returned                                     *)
(*   "gave"  V of lock->Release has returned                               *)
(***************************************************************************)
EXTENDS Lock, FiniteSets

CONSTANTS lock, semaphore  \* the SynchDisk's fields

ASSUME FieldsAssumption ==
    /\ lock \in LockId
    /\ semaphore \in Sem \ LockId
    /\ InitialValue[semaphore] = 0

VARIABLES active,    \* Disk::active: a disk interrupt is pending
          request,   \* the thread whose transfer the disk performs
          finished   \* the thread whose transfer was reported last

diskVars == <<active, request, finished>>

vars == <<schedVars, semVars, pc, lockVars, diskVars>>

Label == {"out", "P", "got", "io", "done", "gave"}

\* Labels that follow an enabling of interrupts.
IntOn == {"out", "got", "done", "gave"}

TypeOK ==
    /\ SchedTypeOK
    /\ SemTypeOK
    /\ LockTypeOK
    /\ pc \in [Thread -> Label]
    /\ active \in BOOLEAN
    /\ request \in Thread \cup {NoThread}
    /\ finished \in Thread \cup {NoThread}

\* SynchDisk::SynchDisk and Disk::Disk
Init ==
    /\ StartThreads
    /\ SemInit
    /\ LockInit
    /\ pc = [t \in Thread |-> "out"]
    /\ active = FALSE
    /\ request = NoThread
    /\ finished = NoThread

-----------------------------------------------------------------------------
\* SynchDisk::ReadSector, WriteSector
CallSector(t) ==
    /\ At(t, "out")
    /\ Acquire(lock, "P", "got")
    /\ UNCHANGED diskVars

ResumeAcquire(t) ==
    /\ At(t, "P")
    /\ Acquire(lock, "P", "got")
    /\ UNCHANGED diskVars

\* Disk::ReadRequest, WriteRequest: ASSERT(!active) is a property below.
Request(t) ==
    /\ active' = TRUE
    /\ request' = t
    /\ UNCHANGED finished

\* The request and the first pass through semaphore->P().
SendRequest(t) ==
    /\ At(t, "got")
    /\ RecordHolder(lock)
    /\ Request(t)
    /\ P(semaphore, "io", "done")

ResumeIO(t) ==
    /\ At(t, "io")
    /\ P(semaphore, "io", "done")
    /\ UNCHANGED <<lockVars, diskVars>>

CallRelease(t) ==
    /\ At(t, "done")
    /\ Release(lock, "gave", "out")
    /\ UNCHANGED diskVars

EndRelease(t) ==
    /\ At(t, "gave")
    /\ ForgetHolder(lock)
    /\ Goto(t, "out")
    /\ UNCHANGED <<schedVars, semVars, diskVars>>

\* A faulty interrupt handler that leaves active set.
HandleStillActive ==
    /\ active
    /\ InterruptAt(IntOn)
    /\ finished' = request
    /\ V(semaphore)
    /\ UNCHANGED <<pc, lockVars, active, request>>

\* The disk interrupt: Disk::HandleInterrupt and SynchDisk::RequestDone.
HandleInterrupt ==
    /\ active
    /\ InterruptAt(IntOn)
    /\ active' = FALSE
    /\ finished' = request
    /\ V(semaphore)
    /\ UNCHANGED <<pc, lockVars, request>>

Yield == YieldAt({"out"}) /\ UNCHANGED <<semVars, pc, lockVars, diskVars>>

Preempt == TimeSlice(IntOn \ {"out"}) /\ UNCHANGED <<semVars, pc, lockVars, diskVars>>

EndIdle == LeaveIdle /\ UNCHANGED <<semVars, pc, lockVars, diskVars>>

Step(t) ==
    \/ ResumeAcquire(t) \/ SendRequest(t) \/ ResumeIO(t)
    \/ CallRelease(t) \/ EndRelease(t)

Next ==
    \/ \E t \in Thread : CallSector(t) \/ Step(t)
    \/ HandleInterrupt \/ Yield \/ Preempt \/ EndIdle

Spec == Init /\ [][Next]_vars

\* Fairness: the processor never stops inside of the disk's code or in the
\* idle loop, the pending interrupt is served (the clock advances whenever
\* interrupts are enabled and in Idle), and a thread outside of the disk's
\* code does not keep the processor for ever.
FairSpec ==
    /\ Spec
    /\ \A t \in Thread : WF_vars(Step(t))
    /\ SF_vars(HandleInterrupt)
    /\ WF_vars(EndIdle)
    /\ SF_vars(Yield)

-----------------------------------------------------------------------------
(***************************************************************************)
(* Properties.                                                             *)
(***************************************************************************)
\* ASSERT(!active) in Disk::ReadRequest and WriteRequest, "only one request
\* at a time": the disk is quiet and no old completion is left over in the
\* semaphore when a thread is about to send its request.
DiskQuiet ==
    (\E t \in Thread : pc[t] = "got") => ~active /\ value[semaphore] = 0

\* ReadSector and WriteSector return "only once the data is actually read or
\* written": a thread gets past semaphore->P only when its own transfer has
\* been reported, not by the interrupt of an earlier request.
ReturnsAfterOwnIO ==
    \A t \in Thread : pc[t] = "done" => finished = t /\ request = t /\ ~active

\* The thread whose transfer is pending is the one that sleeps on the
\* semaphore: the interrupt wakes nobody else.
InterruptWakesRequester ==
    /\ active => pc[request] = "io"
    /\ \A i \in 1..Len(queue[semaphore]) : queue[semaphore][i] = request

\* The disk's request, the semaphore and the sleeping thread belong together
\* at every step of ReadSector, WriteSector and the interrupt handler, and no
\* call returns on the interrupt of another.
DiskInv == TypeOK /\ DiskQuiet /\ InterruptWakesRequester /\ ReturnsAfterOwnIO

\* Without the timer, while a thread wants the disk, requests go on being
\* completed.
DiskKeepsServing ==
    (~randomYield /\ \E t \in Thread : pc[t] \in {"P", "io"})
        ~> (\E t \in Thread : pc[t] = "done")

=============================================================================
