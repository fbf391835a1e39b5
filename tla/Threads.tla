------------------------------- MODULE Threads -------------------------------
(***************************************************************************)
(* The life of Nachos threads (threads/thread.cc with scheduler.cc): the   *)
(* constructor, Fork, Yield, Sleep, Finish, the wake-up by a               *)
(* synchronisation primitive or an interrupt handler, the idle loop, and   *)
(* the deferred destruction of a finished thread.                          *)
(*                                                                         *)
(* All wait queues together (semaphores, conditions) are the set waiting.  *)
(* A thread forked but never run is in fresh: the first SWITCH to it goes  *)
(* to ThreadRoot and not to the end of Scheduler::Run, where the carcass   *)
(* of a finished thread is deleted.                                        *)
(***************************************************************************)
EXTENDS Scheduler, Integers, FiniteSets

CONSTANTS main,     \* the thread Initialize() creates for main()
          MaxTid    \* length of threadMap (128 in thread.h)

ASSUME MainAssumption == main \in Thread
ASSUME MaxTidAssumption == MaxTid \in Nat \ {0}

VARIABLES live,                 \* Thread objects that are allocated
          fresh,                \* forked, and not dispatched yet
          waiting,              \* on the queue of some semaphore or condition
          blockedList,          \* members of Scheduler::blockedList
          threadToBeDestroyed,  \* carcass to delete at the next switch
          tid,                  \* thread id, -1 when none was left
          threadMap,            \* threadMap[i]: thread id i is taken
          halted                \* Interrupt::Halt was reached

lifeVars == <<live, fresh, waiting, blockedList, threadToBeDestroyed,
              tid, threadMap, halted>>

vars == <<schedVars, lifeVars>>

Tids == 0 .. MaxTid - 1

TypeOK ==
    /\ SchedTypeOK
    /\ live \subseteq Thread
    /\ fresh \subseteq Thread
    /\ waiting \subseteq Thread
    /\ blockedList \subseteq Thread
    /\ threadToBeDestroyed \in Thread \cup {NoThread}
    /\ tid \in [Thread -> Tids \cup {-1}]
    /\ threadMap \in [Tids -> BOOLEAN]
    /\ halted \in BOOLEAN

\* Initialize(): the main thread is constructed, so it has thread id 0, and
\* is RUNNING without having been forked.
Init ==
    /\ currentThread = main
    /\ status = [t \in Thread |-> IF t = main THEN "RUNNING" ELSE "JUST_CREATED"]
    /\ readyList = <<>>
    /\ live = {main}
    /\ fresh = {}
    /\ waiting = {}
    /\ blockedList = {}
    /\ threadToBeDestroyed = NoThread
    /\ tid = [t \in Thread |-> IF t = main THEN 0 ELSE -1]
    /\ threadMap = [i \in Tids |-> i = 0]
    /\ halted = FALSE

Executing == ~halted /\ ~Idling

-----------------------------------------------------------------------------
(***************************************************************************)
(* Thread ids.                                                             *)
(***************************************************************************)
\* The ids the constructor's loop can stop at: the lowest free entry of
\* threadMap, or -1 when every entry is taken.
IsNextTid(i) ==
    IF \A j \in Tids : threadMap[j]
    THEN i = -1
    ELSE /\ i \in Tids
         /\ ~threadMap[i]
         /\ \A j \in 0 .. i - 1 : threadMap[j]

-----------------------------------------------------------------------------
(***************************************************************************)
(* Steps of the running thread.                                            *)
(***************************************************************************)
\* The constructor, called by the running thread for a new object t.
New(t) ==
    /\ Executing
    /\ t \notin live
    /\ live' = live \cup {t}
    /\ status' = [status EXCEPT ![t] = "JUST_CREATED"]
    /\ \E i \in Tids \cup {-1} :
         /\ IsNextTid(i)
         /\ tid' = [tid EXCEPT ![t] = i]
         /\ threadMap' = IF i = -1 THEN threadMap
                                   ELSE [threadMap EXCEPT ![i] = TRUE]
    /\ UNCHANGED <<currentThread, readyList, fresh, waiting, blockedList,
                   threadToBeDestroyed, halted>>

\* Thread::Fork gives t a stack that starts in ThreadRoot and queues it.
Fork(t) ==
    /\ Executing
    /\ t \in live
    /\ status[t] = "JUST_CREATED"
    /\ fresh' = fresh \cup {t}
    /\ ReadyToRun(t)
    /\ UNCHANGED <<live, waiting, blockedList, threadToBeDestroyed, tid,
                   threadMap, halted>>

\* A faulty destructor that does not give the thread id back.
DestroyKeepsTid(t) == live' = live \ {t} /\ UNCHANGED threadMap

\* ~Thread.  The write to threadMap[-1], for a thread without an id, falls
\* outside of the array and leaves the map as it is.
Destroy(t) ==
    /\ live' = live \ {t}
    /\ threadMap' = IF tid[t] \in Tids
                    THEN [threadMap EXCEPT ![tid[t]] = FALSE]
                    ELSE threadMap

\* A faulty Run that does not set threadToBeDestroyed to NULL after delete.
AfterSwitchNoReset(next, carcass) ==
    /\ threadToBeDestroyed' = carcass
    /\ IF next \in fresh
       THEN fresh' = fresh \ {next} /\ UNCHANGED <<live, threadMap>>
       ELSE /\ IF carcass = NoThread THEN UNCHANGED <<live, threadMap>>
                                     ELSE Destroy(carcass)
            /\ UNCHANGED fresh

\* What Scheduler::Run does once SWITCH has moved the processor to next,
\* carcass being threadToBeDestroyed at that time.  Only a thread that has
\* run before returns from SWITCH into Run and deletes the carcass.
AfterSwitch(next, carcass) ==
    IF next \in fresh
    THEN /\ fresh' = fresh \ {next}
         /\ threadToBeDestroyed' = carcass
         /\ UNCHANGED <<live, threadMap>>
    ELSE /\ threadToBeDestroyed' = NoThread
         /\ IF carcass = NoThread THEN UNCHANGED <<live, threadMap>>
                                  ELSE Destroy(carcass)
         /\ UNCHANGED fresh

\* When nobody is ready Run is not called, and the carcass stays.
SwitchIfReady(carcass) ==
    IF readyList = <<>>
    THEN /\ threadToBeDestroyed' = carcass
         /\ UNCHANGED <<live, threadMap, fresh>>
    ELSE AfterSwitch(Head(readyList), carcass)

\* Thread::Yield, called by the thread or on return from a timer interrupt.
Yield ==
    /\ Executing
    /\ readyList # <<>>
    /\ YieldCPU
    /\ SwitchIfReady(threadToBeDestroyed)
    /\ UNCHANGED <<waiting, blockedList, tid, halted>>

\* A synchronisation primitive queues the running thread and calls Sleep.
Sleep ==
    /\ Executing
    /\ waiting' = waiting \cup {currentThread}
    /\ blockedList' = blockedList \cup {currentThread}
    /\ SleepCPU
    /\ SwitchIfReady(threadToBeDestroyed)
    /\ UNCHANGED <<tid, halted>>

\* Thread::Finish: become the carcass and sleep, on no queue.
Finish ==
    /\ Executing
    /\ blockedList' = blockedList \cup {currentThread}
    /\ SleepCPU
    /\ SwitchIfReady(currentThread)
    /\ UNCHANGED <<waiting, tid, halted>>

-----------------------------------------------------------------------------
(***************************************************************************)
(* Steps on behalf of other threads and of devices.                        *)
(***************************************************************************)
\* Faulty wake-ups: the thread is left on its queue, or it is looked for on
\* blockedList, where finished threads are too.
WakeUpFirst(t) ==
    /\ ~halted
    /\ t \in waiting
    /\ ReadyToRun(t)
    /\ UNCHANGED lifeVars

WakeUpFromBlockedList(t) ==
    /\ ~halted
    /\ t \in blockedList \cap live
    /\ status[t] = "BLOCKED"
    /\ waiting' = waiting \ {t}
    /\ threadToBeDestroyed' = IF t = threadToBeDestroyed THEN NoThread
                                                        ELSE threadToBeDestroyed
    /\ ReadyToRun(t)
    /\ UNCHANGED <<live, fresh, blockedList, tid, threadMap, halted>>

\* Semaphore::V, Condition::Signal or an interrupt handler takes t off its
\* queue and makes it ready; the processor may be executing or idle.
WakeUp(t) ==
    /\ ~halted
    /\ t \in waiting
    /\ waiting' = waiting \ {t}
    /\ ReadyToRun(t)
    /\ UNCHANGED <<live, fresh, blockedList, threadToBeDestroyed, tid,
                   threadMap, halted>>

\* The sleeping thread leaves Interrupt::Idle and runs the ready thread.
EndIdle ==
    /\ ~halted
    /\ LeaveIdle
    /\ AfterSwitch(Head(readyList), threadToBeDestroyed)
    /\ UNCHANGED <<waiting, blockedList, tid, halted>>

\* Interrupt::Idle finds no interrupt to wait for and stops the machine.
Halt ==
    /\ ~halted
    /\ Idling
    /\ readyList = <<>>
    /\ halted' = TRUE
    /\ UNCHANGED <<schedVars, live, fresh, waiting, blockedList,
                   threadToBeDestroyed, tid, threadMap>>

Halted == halted /\ UNCHANGED vars

Next ==
    \/ \E t \in Thread : New(t) \/ Fork(t) \/ WakeUp(t)
    \/ Yield \/ Sleep \/ Finish \/ EndIdle \/ Halt \/ Halted

Spec == Init /\ [][Next]_vars

\* Fairness: the processor never stops between instructions, so an idle
\* loop with a ready thread goes on (EndIdle), and every thread gives the
\* processor up now and then, on its own (Sleep, Finish) or because the
\* timer of the -rs option makes it yield.
FairSpec == Spec /\ WF_vars(EndIdle) /\ WF_vars(Yield \/ Sleep \/ Finish)

-----------------------------------------------------------------------------
(***************************************************************************)
(* Properties.                                                             *)
(***************************************************************************)
\* Every pointer the kernel follows leads to an allocated thread: the
\* current thread, the ready threads, the waiting ones and the carcass are
\* live, and a fresh thread is one that is queued to run.  The destructor
\* is called in one place (Scheduler::Run); this says it is never too early.
NoDanglingThread ==
    /\ currentThread \in live
    /\ \A i \in 1..Len(readyList) : readyList[i] \in live
    /\ waiting \subseteq live
    /\ threadToBeDestroyed # NoThread => threadToBeDestroyed \in live
    /\ fresh \subseteq {t \in live : status[t] = "READY"}

\* The thread that Scheduler::Run will delete is finished for good: it is
\* BLOCKED, no queue holds it, and it is the current thread only in the idle
\* loop of its own Finish.  This is what ASSERT(this != currentThread) in
\* ~Thread and the comment of Thread::Finish need.
CarcassIsDead ==
    threadToBeDestroyed # NoThread =>
        /\ status[threadToBeDestroyed] = "BLOCKED"
        /\ threadToBeDestroyed \notin waiting

\* A blocked thread waits on one queue, so that exactly one V or Signal can
\* wake it: a thread on a wait queue is never READY or RUNNING at once.
WaitersAreBlocked == \A t \in waiting : status[t] = "BLOCKED"

\* threadMap is exact through any order of creation and destruction: an
\* entry is taken exactly when one live thread has that id, and no two live
\* threads share an id.
TidExact ==
    /\ \A i \in Tids : threadMap[i] <=> \E t \in live : tid[t] = i
    /\ \A t, u \in live : tid[t] = tid[u] /\ tid[t] # -1 => t = u

\* A finished thread never comes back: once it is the carcass it stays
\* BLOCKED as long as the object exists, whatever the other threads do.
CarcassNeverRuns ==
    [][\A t \in Thread :
          t = threadToBeDestroyed /\ t \in live' => status'[t] = "BLOCKED"]_vars

\* The ready list is served in order: a thread that is READY gets the
\* processor, unless the machine halts (Scheduler::FindNextToRun).
ReadyEventuallyRuns ==
    \A t \in Thread : status[t] = "READY" ~> (status[t] = "RUNNING" \/ halted)

=============================================================================
