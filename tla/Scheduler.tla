------------------------------ MODULE Scheduler ------------------------------
(***************************************************************************)
(* The dispatcher of Nachos: threads/scheduler.cc and the part of          *)
(* threads/thread.cc (Yield, Sleep) that gives the processor away.  Nachos *)
(* simulates one processor, and every routine here runs with interrupts    *)
(* disabled, so each operator is one atomic change of the dispatcher's     *)
(* state; a module that models kernel code extends this one and conjoins   *)
(* the operators with the change of its own state.                         *)
(*                                                                         *)
(* A thread that sleeps while nobody is ready keeps the processor and      *)
(* spins in Interrupt::Idle: then currentThread is a thread that is not    *)
(* RUNNING, which is what Idling says.                                     *)
(***************************************************************************)
EXTENDS Naturals, Sequences

CONSTANTS Thread,    \* the Thread objects (addresses)
          NoThread   \* the NULL pointer

ASSUME NoThreadAssumption == NoThread \notin Thread

VARIABLES currentThread,  \* the thread that holds the processor (system.cc)
          status,         \* ThreadStatus of every Thread object
          readyList       \* FIFO queue of threads that are ready

schedVars == <<currentThread, status, readyList>>

ThreadStatus == {"JUST_CREATED", "RUNNING", "READY", "BLOCKED"}

SchedTypeOK ==
    /\ currentThread \in Thread
    /\ status \in [Thread -> ThreadStatus]
    /\ readyList \in Seq(Thread)

(***************************************************************************)
(* Where the processor is.                                                 *)
(***************************************************************************)
Running(t) == currentThread = t /\ status[t] = "RUNNING"

Idling == status[currentThread] # "RUNNING"

(***************************************************************************)
(* Operations.                                                             *)
(***************************************************************************)
\* Scheduler::ReadyToRun: mark the thread READY and queue it.
ReadyToRun(t) ==
    /\ status' = [status EXCEPT ![t] = "READY"]
    /\ readyList' = Append(readyList, t)
    /\ UNCHANGED currentThread

\* FindNextToRun takes the head of the ready list, and Run makes it the
\* current, RUNNING thread.  st is the status the caller has left, rest the
\* ready list without the head and with what the caller has queued.
Run(st, rest) ==
    /\ currentThread' = Head(readyList)
    /\ status' = [st EXCEPT ![Head(readyList)] = "RUNNING"]
    /\ readyList' = rest

\* A faulty Yield that puts the caller at the front of the ready list.
YieldToFront ==
    IF readyList = <<>>
    THEN UNCHANGED schedVars
    ELSE Run([status EXCEPT ![currentThread] = "READY"],
             <<currentThread>> \o Tail(readyList))

\* Thread::Yield: nothing happens when no other thread is ready.
YieldCPU ==
    IF readyList = <<>>
    THEN UNCHANGED schedVars
    ELSE Run([status EXCEPT ![currentThread] = "READY"],
             Append(Tail(readyList), currentThread))

\* Thread::Sleep: the caller blocks; with no ready thread it stays on the
\* processor, idling.
SleepCPU ==
    LET blocked == [status EXCEPT ![currentThread] = "BLOCKED"]
    IN  IF readyList = <<>>
        THEN status' = blocked /\ UNCHANGED <<currentThread, readyList>>
        ELSE Run(blocked, Tail(readyList))

\* The end of the loop in Thread::Sleep: an interrupt handler has made some
\* thread ready, so Idle returns and that thread is run.
LeaveIdle ==
    /\ Idling
    /\ readyList # <<>>
    /\ Run(status, Tail(readyList))

(***************************************************************************)
(* What the dispatcher's users rely on: only the current thread can be     *)
(* RUNNING, and a thread is READY exactly when it is on the ready list,    *)
(* once.  A thread queued twice would be resumed inside a critical region  *)
(* it had already left; a READY thread off the list would never run.       *)
(***************************************************************************)
OneRunning ==
    \A t \in Thread : status[t] = "RUNNING" => t = currentThread

ReadyExact ==
    \A t \in Thread :
        status[t] = "READY" <=> \E i \in 1..Len(readyList) : readyList[i] = t

ReadyOnce ==
    \A i, j \in 1..Len(readyList) : readyList[i] = readyList[j] => i = j

SchedulerInv == OneRunning /\ ReadyExact /\ ReadyOnce

=============================================================================
