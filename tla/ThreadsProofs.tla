---------------------------- MODULE ThreadsProofs ----------------------------
(***************************************************************************)
(* Proofs about threads and their synchronisation, for any set of threads: *)
(* their lives (Threads, any size of threadMap), and the semaphore and the *)
(* lock of threads/synch.cc used in every possible order (SemaphoreUsers,  *)
(* LockUsers).  The three specifications are separate; they share the      *)
(* dispatcher (Scheduler) and its lemmas (SchedulerProofs).                *)
(***************************************************************************)
EXTENDS Threads, SemaphoreUsers, LockUsers, SchedulerProofs, FiniteSetTheorems

-----------------------------------------------------------------------------
(***************************************************************************)
(* The lives of threads.  The inductive invariant LifeInv joins the type,  *)
(* the dispatcher's invariant and the three properties of the threads'     *)
(* lives; each needs the others (a carcass is not dispatched because it is *)
(* BLOCKED, a waiter is not the carcass, a ready thread is never the one   *)
(* deleted).                                                               *)
(***************************************************************************)
LifeInv ==
    /\ TypeOK
    /\ SchedulerInv
    /\ NoDanglingThread
    /\ CarcassIsDead
    /\ WaitersAreBlocked

LEMMA LifeInvInit == Init => LifeInv
<1> SUFFICES ASSUME Init PROVE LifeInv
  OBVIOUS
<1> USE NoThreadAssumption, MainAssumption, MaxTidAssumption DEF Init
<1>1. TypeOK
  BY DEF TypeOK, SchedTypeOK, ThreadStatus, Tids
<1>2. SchedulerInv
  BY DEF SchedulerInv, OneRunning, ReadyExact, ReadyOnce
<1>3. NoDanglingThread /\ CarcassIsDead /\ WaitersAreBlocked
  BY DEF NoDanglingThread, CarcassIsDead, WaitersAreBlocked
<1> QED BY <1>1, <1>2, <1>3 DEF LifeInv

\* Members of the ready list are exactly the READY threads.
LEMMA ReadyMember ==
    ASSUME SchedOK
    PROVE  \A i \in 1..Len(readyList) :
             readyList[i] \in Thread /\ status[readyList[i]] = "READY"
  BY DEF SchedOK, SchedTypeOK, SchedulerInv, ReadyExact

\* What a switch of the processor to the head of the ready list leaves of
\* every thread's status: the old thread gets old, the head is RUNNING.
SwitchedFrom(old) ==
    /\ currentThread' = Head(readyList)
    /\ status' = [[status EXCEPT ![currentThread] = old]
                     EXCEPT ![Head(readyList)] = "RUNNING"]

\* Scheduler::Run after SWITCH: deleting the carcass leaves no dangling
\* pointer, and a carcass that is kept stays dead.
LEMMA SwitchSafe ==
    ASSUME LifeInv, SchedOK', readyList # <<>>,
           NEW old \in {"READY", "BLOCKED", status[currentThread]},
           SwitchedFrom(old),
           NEW carcass \in Thread \cup {NoThread},
           carcass # NoThread =>
               carcass \in live /\ status'[carcass] = "BLOCKED" /\ carcass \notin waiting',
           waiting' \subseteq waiting \cup {currentThread},
           \A t \in waiting' : status'[t] = "BLOCKED",
           currentThread \notin fresh \/ old = "READY" \/ status[currentThread] = old,
           AfterSwitch(Head(readyList), carcass)
    PROVE  /\ NoDanglingThread'
           /\ CarcassIsDead'
           /\ live' \subseteq Thread
           /\ fresh' \subseteq Thread
           /\ threadToBeDestroyed' \in Thread \cup {NoThread}
           /\ threadMap' \in [Tids -> BOOLEAN]
<1> DEFINE next == Head(readyList)
<1>0. SchedOK
  BY DEF LifeInv, TypeOK, SchedOK
<1>1. /\ next \in Thread
      /\ next \in live
      /\ status[next] = "READY"
      /\ currentThread \in live /\ currentThread \in Thread
      /\ live \subseteq Thread /\ fresh \subseteq live
      /\ \A t \in fresh : status[t] = "READY"
      /\ status \in [Thread -> ThreadStatus]
      /\ threadMap \in [Tids -> BOOLEAN]
  <2>1. 1 \in 1..Len(readyList) /\ next = readyList[1] /\ next \in Thread /\ status[next] = "READY"
    BY <1>0, ReadyListShape
  <2> QED BY <2>1 DEF LifeInv, NoDanglingThread, TypeOK, SchedTypeOK
<1>2. /\ status'[next] = "RUNNING"
      /\ currentThread' = next
      /\ \A t \in Thread : t # next /\ t # currentThread => status'[t] = status[t]
      /\ currentThread # next => status'[currentThread] = old
  BY <1>1 DEF SwitchedFrom
<1>3. carcass # next
  BY <1>1, <1>2, NoThreadAssumption
<1>4. CASE next \in fresh
  <2>1. /\ fresh' = fresh \ {next} /\ threadToBeDestroyed' = carcass
        /\ live' = live /\ threadMap' = threadMap
    BY <1>4 DEF AfterSwitch
  <2>2. \A i \in 1..Len(readyList') : readyList'[i] \in live
    <3> SUFFICES ASSUME NEW i \in 1..Len(readyList') PROVE readyList'[i] \in live
      OBVIOUS
    <3>1. readyList'[i] \in Thread /\ status'[readyList'[i]] = "READY"
      BY DEF SchedOK, SchedTypeOK, SchedulerInv, ReadyExact
    <3>2. readyList'[i] = currentThread \/ status[readyList'[i]] = "READY"
      BY <1>1, <1>2, <3>1
    <3>3. \A t \in Thread : status[t] = "READY" => t \in live
      BY <1>0 DEF SchedOK, SchedulerInv, ReadyExact, LifeInv, NoDanglingThread
    <3> QED BY <1>1, <3>1, <3>2, <3>3
  <2>3. fresh' \subseteq {t \in live' : status'[t] = "READY"}
    BY <1>1, <1>2, <2>1
  <2>4. NoDanglingThread'
    BY <1>1, <1>2, <2>1, <2>2, <2>3 DEF NoDanglingThread, LifeInv
  <2>5. CarcassIsDead'
    BY <2>1 DEF CarcassIsDead
  <2> QED BY <1>1, <2>1, <2>4, <2>5
<1>5. CASE next \notin fresh
  <2>1. /\ fresh' = fresh /\ threadToBeDestroyed' = NoThread
        /\ live' = live \ {carcass}
        /\ threadMap' \in [Tids -> BOOLEAN]
    <3>1. CASE carcass = NoThread
      BY <1>1, <1>5, <3>1, NoThreadAssumption DEF AfterSwitch
    <3>2. CASE carcass # NoThread
      BY <1>1, <1>5, <3>2 DEF AfterSwitch, Destroy
    <3> QED BY <3>1, <3>2
  <2>2. \A t \in Thread : status'[t] = "READY" => t \in live'
    <3> SUFFICES ASSUME NEW t \in Thread, status'[t] = "READY" PROVE t \in live'
      OBVIOUS
    <3>1. t = currentThread \/ status[t] = "READY"
      BY <1>2
    <3>2. t \in live
      BY <1>0, <1>1, <3>1 DEF SchedOK, SchedulerInv, ReadyExact, LifeInv, NoDanglingThread
    <3>3. t # carcass
      BY NoThreadAssumption
    <3> QED BY <2>1, <3>2, <3>3
  <2>3. \A i \in 1..Len(readyList') : readyList'[i] \in live'
    BY <2>2 DEF SchedOK, SchedTypeOK, SchedulerInv, ReadyExact
  <2>4. \A t \in fresh : status'[t] = "READY"
    BY <1>1, <1>2, <1>5
  <2>5. waiting' \subseteq live'
    BY <1>1, <2>1, NoThreadAssumption DEF LifeInv, NoDanglingThread
  <2>6. NoDanglingThread'
    BY <1>1, <1>2, <1>3, <2>1, <2>2, <2>3, <2>4, <2>5 DEF NoDanglingThread
  <2>7. CarcassIsDead'
    BY <2>1 DEF CarcassIsDead
  <2> QED BY <1>1, <2>1, <2>6, <2>7
<1> QED BY <1>4, <1>5

\* When nobody is ready, Run is not called: the thread that goes to sleep
\* stays on the processor and the carcass stays where it is.
LEMMA NoSwitchSafe ==
    ASSUME LifeInv, SchedOK', readyList = <<>>, Executing, SleepCPU,
           NEW carcass \in Thread \cup {NoThread},
           carcass # NoThread =>
               carcass \in live /\ status'[carcass] = "BLOCKED" /\ carcass \notin waiting',
           waiting' \subseteq waiting \cup {currentThread},
           SwitchIfReady(carcass)
    PROVE  /\ NoDanglingThread'
           /\ CarcassIsDead'
           /\ live' \subseteq Thread
           /\ fresh' \subseteq Thread
           /\ threadToBeDestroyed' \in Thread \cup {NoThread}
           /\ threadMap' \in [Tids -> BOOLEAN]
<1>1. /\ threadToBeDestroyed' = carcass
      /\ live' = live /\ threadMap' = threadMap /\ fresh' = fresh
      /\ currentThread' = currentThread /\ readyList' = readyList
      /\ status' = [status EXCEPT ![currentThread] = "BLOCKED"]
  BY DEF SwitchIfReady, SleepCPU
<1>2. fresh' \subseteq {t \in live' : status'[t] = "READY"}
  BY <1>1 DEF LifeInv, NoDanglingThread, Executing, Idling, TypeOK, SchedTypeOK
<1>3. NoDanglingThread'
  BY <1>1, <1>2 DEF LifeInv, NoDanglingThread
<1>4. CarcassIsDead'
  BY <1>1 DEF CarcassIsDead
<1> QED BY <1>1, <1>3, <1>4 DEF LifeInv, TypeOK

LEMMA LifeInvNext == LifeInv /\ [Next]_vars => LifeInv'
<1> SUFFICES ASSUME LifeInv, [Next]_vars PROVE LifeInv'
  OBVIOUS
<1> USE NoThreadAssumption
<1>0. /\ SchedOK
      /\ TypeOK /\ NoDanglingThread /\ CarcassIsDead /\ WaitersAreBlocked
      /\ currentThread \in Thread
      /\ status \in [Thread -> ThreadStatus]
      /\ live \subseteq Thread /\ waiting \subseteq live
  BY DEF LifeInv, TypeOK, SchedTypeOK, SchedOK, NoDanglingThread
<1>ready. \A t \in Thread : status[t] = "READY" => t \in live
  BY <1>0 DEF SchedOK, SchedulerInv, ReadyExact, NoDanglingThread
<1>1. ASSUME NEW t \in Thread, New(t) PROVE LifeInv'
  <2>1. /\ t \notin live /\ live' = live \cup {t}
        /\ status' = [status EXCEPT ![t] = "JUST_CREATED"]
        /\ UNCHANGED <<currentThread, readyList, fresh, waiting, blockedList,
                       threadToBeDestroyed, halted>>
    BY <1>1 DEF New
  <2>2. t # currentThread /\ status[t] # "READY" /\ t \notin waiting /\ t # threadToBeDestroyed
    BY <1>0, <1>ready, <2>1 DEF NoDanglingThread
  <2>3. tid' \in [Thread -> Tids \cup {-1}] /\ threadMap' \in [Tids -> BOOLEAN]
    <3>1. PICK i \in Tids \cup {-1} :
            /\ tid' = [tid EXCEPT ![t] = i]
            /\ threadMap' = IF i = -1 THEN threadMap ELSE [threadMap EXCEPT ![i] = TRUE]
      BY <1>1 DEF New
    <3> QED BY <1>0, <3>1 DEF TypeOK
  <2>4. TypeOK'
    BY <1>0, <2>1, <2>3 DEF TypeOK, SchedTypeOK, ThreadStatus
  <2>5. SchedulerInv'
    BY <1>0, <2>1, <2>2
       DEF SchedOK, SchedTypeOK, SchedulerInv, OneRunning, ReadyExact, ReadyOnce
  <2>6. NoDanglingThread'
    BY <1>0, <2>1, <2>2 DEF NoDanglingThread
  <2>7. CarcassIsDead' /\ WaitersAreBlocked'
    BY <1>0, <2>1, <2>2 DEF CarcassIsDead, WaitersAreBlocked, TypeOK
  <2> QED BY <2>4, <2>5, <2>6, <2>7 DEF LifeInv
\* A thread that is neither READY nor RUNNING becomes READY.
<1>wake. ASSUME NEW t \in live, status[t] \notin {"READY", "RUNNING"}, ReadyToRun(t),
                t # threadToBeDestroyed,
                waiting' \subseteq waiting \ {t},
                fresh' \in {fresh, fresh \cup {t}},
                UNCHANGED <<live, threadToBeDestroyed, threadMap, tid, halted, blockedList>>
         PROVE  LifeInv'
  <2>1. t \in Thread /\ status' = [status EXCEPT ![t] = "READY"]
        /\ currentThread' = currentThread /\ readyList' = Append(readyList, t)
    BY <1>0, <1>wake DEF ReadyToRun
  <2>2. SchedOK'
    BY <1>0, <1>wake, <2>1, ReadyToRunOK
  <2>3. TypeOK'
    BY <1>0, <1>wake, <2>1, <2>2 DEF TypeOK, SchedOK
  <2>4. \A i \in 1..Len(readyList') : readyList'[i] \in live
    <3> SUFFICES ASSUME NEW i \in 1..Len(readyList') PROVE readyList'[i] \in live
      OBVIOUS
    <3>1. readyList'[i] \in Thread /\ status'[readyList'[i]] = "READY"
      BY <2>2 DEF SchedOK, SchedTypeOK, SchedulerInv, ReadyExact
    <3>2. readyList'[i] = t \/ status[readyList'[i]] = "READY"
      BY <1>0, <2>1, <3>1
    <3> QED BY <1>ready, <3>1, <3>2
  <2>5. \A u \in fresh' : u \in live /\ status'[u] = "READY"
    BY <1>0, <1>wake, <2>1 DEF NoDanglingThread
  <2>6. NoDanglingThread'
    BY <1>0, <1>wake, <2>1, <2>4, <2>5 DEF NoDanglingThread
  <2>7. CarcassIsDead'
    BY <1>0, <1>wake, <2>1 DEF CarcassIsDead, TypeOK
  <2>8. WaitersAreBlocked'
    BY <1>0, <1>wake, <2>1 DEF WaitersAreBlocked
  <2> QED BY <2>2, <2>3, <2>6, <2>7, <2>8 DEF LifeInv, SchedOK
<1>2. ASSUME NEW t \in Thread, Fork(t) PROVE LifeInv'
  <2>1. /\ t \in live /\ status[t] = "JUST_CREATED" /\ ReadyToRun(t)
        /\ fresh' = fresh \cup {t} /\ waiting' = waiting
        /\ UNCHANGED <<live, threadToBeDestroyed, threadMap, tid, halted, blockedList>>
    BY <1>2 DEF Fork
  <2>2. t \notin waiting /\ t # threadToBeDestroyed
    BY <1>0, <2>1 DEF WaitersAreBlocked, CarcassIsDead
  <2> QED BY <1>wake, <2>1, <2>2
<1>3. ASSUME NEW t \in Thread, WakeUp(t) PROVE LifeInv'
  <2>1. /\ t \in waiting /\ ReadyToRun(t)
        /\ fresh' = fresh /\ waiting' = waiting \ {t}
        /\ UNCHANGED <<live, threadToBeDestroyed, threadMap, tid, halted, blockedList>>
    BY <1>3 DEF WakeUp
  <2>2. t \in live /\ status[t] = "BLOCKED" /\ t # threadToBeDestroyed
    BY <1>0, <2>1 DEF WaitersAreBlocked, CarcassIsDead
  <2> QED BY <1>wake, <2>1, <2>2
<1>run. Executing => /\ status[currentThread] = "RUNNING"
                     /\ currentThread \in live
                     /\ currentThread \notin waiting
                     /\ currentThread \notin fresh
                     /\ currentThread # threadToBeDestroyed
  BY <1>0 DEF Executing, Idling, WaitersAreBlocked, CarcassIsDead, NoDanglingThread
<1>4. CASE Yield
  <2>1. /\ Executing /\ readyList # <<>> /\ YieldCPU
        /\ AfterSwitch(Head(readyList), threadToBeDestroyed)
        /\ UNCHANGED <<waiting, blockedList, tid, halted>>
    BY <1>4 DEF Yield, SwitchIfReady
  <2>2. SchedOK'
    BY <1>0, <1>run, <2>1, YieldOK
  <2>3. SwitchedFrom("READY")
    BY <2>1 DEF YieldCPU, Run, SwitchedFrom
  <2>4. status[Head(readyList)] = "READY" /\ Head(readyList) \in Thread
    BY <1>0, <2>1, ReadyListShape
  <2>5. \A t \in Thread : status[t] = "BLOCKED" => status'[t] = "BLOCKED"
    BY <1>0, <1>run, <2>1, <2>3, <2>4 DEF SwitchedFrom
  <2>6. threadToBeDestroyed # NoThread =>
          /\ threadToBeDestroyed \in live
          /\ status'[threadToBeDestroyed] = "BLOCKED"
          /\ threadToBeDestroyed \notin waiting'
    BY <1>0, <2>1, <2>5 DEF NoDanglingThread, CarcassIsDead
  <2>7. \A t \in waiting' : status'[t] = "BLOCKED"
    BY <1>0, <2>1, <2>5 DEF WaitersAreBlocked
  <2>8. waiting' \subseteq waiting \cup {currentThread}
        /\ threadToBeDestroyed \in Thread \cup {NoThread}
    BY <1>0, <2>1 DEF TypeOK
  <2>9. /\ NoDanglingThread' /\ CarcassIsDead'
        /\ live' \subseteq Thread /\ fresh' \subseteq Thread
        /\ threadToBeDestroyed' \in Thread \cup {NoThread}
        /\ threadMap' \in [Tids -> BOOLEAN]
    BY <1>run, <2>1, <2>2, <2>3, <2>6, <2>7, <2>8, SwitchSafe
  <2> QED BY <1>0, <2>1, <2>2, <2>7, <2>9 DEF LifeInv, TypeOK, SchedOK, WaitersAreBlocked
\* Sleep and Finish: the running thread blocks, and carcass is what Run will
\* find in threadToBeDestroyed.
<1>sleep. ASSUME Executing, SleepCPU,
                 NEW carcass \in Thread \cup {NoThread},
                 SwitchIfReady(carcass),
                 waiting' \in {waiting, waiting \cup {currentThread}},
                 carcass \in {threadToBeDestroyed, currentThread},
                 carcass = currentThread => waiting' = waiting,
                 blockedList' \subseteq Thread,
                 UNCHANGED <<tid, halted>>
          PROVE  LifeInv'
  <2>1. SchedOK'
    BY <1>0, <1>run, <1>sleep, SleepOK
  <2>2. readyList # <<>> => SwitchedFrom("BLOCKED")
    BY <1>sleep DEF SleepCPU, Run, SwitchedFrom
  <2>3. readyList # <<>> => status[Head(readyList)] = "READY" /\ Head(readyList) \in Thread
    BY <1>0, ReadyListShape
  <2>4. \A t \in Thread : status[t] = "BLOCKED" \/ t = currentThread => status'[t] = "BLOCKED"
    <3>1. CASE readyList = <<>>
      BY <1>0, <1>sleep, <3>1 DEF SleepCPU
    <3>2. CASE readyList # <<>>
      BY <1>0, <1>run, <1>sleep, <2>2, <2>3, <3>2 DEF SwitchedFrom
    <3> QED BY <3>1, <3>2
  <2>5. carcass # NoThread =>
          carcass \in live /\ status'[carcass] = "BLOCKED" /\ carcass \notin waiting'
    BY <1>0, <1>run, <1>sleep, <2>4 DEF NoDanglingThread, CarcassIsDead
  <2>6. \A t \in waiting' : status'[t] = "BLOCKED"
    BY <1>0, <1>sleep, <2>4 DEF WaitersAreBlocked
  <2>7. waiting' \subseteq waiting \cup {currentThread}
    BY <1>sleep
  <2>8. /\ NoDanglingThread' /\ CarcassIsDead'
        /\ live' \subseteq Thread /\ fresh' \subseteq Thread
        /\ threadToBeDestroyed' \in Thread \cup {NoThread}
        /\ threadMap' \in [Tids -> BOOLEAN]
    <3>1. CASE readyList = <<>>
      BY <1>sleep, <2>1, <2>5, <2>7, <3>1, NoSwitchSafe
    <3>2. CASE readyList # <<>>
      <4>1. AfterSwitch(Head(readyList), carcass)
        BY <1>sleep, <3>2 DEF SwitchIfReady
      <4> QED BY <1>run, <1>sleep, <2>1, <2>2, <2>5, <2>6, <2>7, <3>2, <4>1, SwitchSafe
    <3> QED BY <3>1, <3>2
  <2> QED BY <1>0, <1>sleep, <2>1, <2>6, <2>7, <2>8 DEF LifeInv, TypeOK, SchedOK, WaitersAreBlocked
<1>5. CASE Sleep
  <2>1. /\ Executing /\ SleepCPU /\ SwitchIfReady(threadToBeDestroyed)
        /\ waiting' = waiting \cup {currentThread}
        /\ blockedList' = blockedList \cup {currentThread}
        /\ UNCHANGED <<tid, halted>>
    BY <1>5 DEF Sleep
  <2>2. threadToBeDestroyed # currentThread
    BY <1>run, <2>1
  <2> QED BY <1>0, <1>sleep, <2>1, <2>2 DEF TypeOK
<1>6. CASE Finish
  <2>1. /\ Executing /\ SleepCPU /\ SwitchIfReady(currentThread)
        /\ waiting' = waiting
        /\ blockedList' = blockedList \cup {currentThread}
        /\ UNCHANGED <<tid, halted>>
    BY <1>6 DEF Finish
  <2> QED BY <1>0, <1>sleep, <2>1 DEF TypeOK
<1>7. CASE EndIdle
  <2>1. /\ LeaveIdle /\ readyList # <<>>
        /\ AfterSwitch(Head(readyList), threadToBeDestroyed)
        /\ UNCHANGED <<waiting, blockedList, tid, halted>>
    BY <1>7 DEF EndIdle, LeaveIdle
  <2>2. SchedOK'
    BY <1>0, <2>1, LeaveIdleOK
  <2>3. SwitchedFrom(status[currentThread])
    BY <1>0, <2>1 DEF LeaveIdle, Run, SwitchedFrom
  <2>4. status[Head(readyList)] = "READY" /\ Head(readyList) \in Thread
    BY <1>0, <2>1, ReadyListShape
  <2>5. \A t \in Thread : status[t] = "BLOCKED" => status'[t] = "BLOCKED"
    BY <1>0, <2>3, <2>4 DEF SwitchedFrom
  <2>6. threadToBeDestroyed # NoThread =>
          /\ threadToBeDestroyed \in live
          /\ status'[threadToBeDestroyed] = "BLOCKED"
          /\ threadToBeDestroyed \notin waiting'
    BY <1>0, <2>1, <2>5 DEF NoDanglingThread, CarcassIsDead
  <2>7. \A t \in waiting' : status'[t] = "BLOCKED"
    BY <1>0, <2>1, <2>5 DEF WaitersAreBlocked
  <2>8. waiting' \subseteq waiting \cup {currentThread}
        /\ threadToBeDestroyed \in Thread \cup {NoThread}
    BY <1>0, <2>1 DEF TypeOK
  <2>9. /\ NoDanglingThread' /\ CarcassIsDead'
        /\ live' \subseteq Thread /\ fresh' \subseteq Thread
        /\ threadToBeDestroyed' \in Thread \cup {NoThread}
        /\ threadMap' \in [Tids -> BOOLEAN]
    BY <2>1, <2>2, <2>3, <2>6, <2>7, <2>8, SwitchSafe
  <2> QED BY <1>0, <2>1, <2>2, <2>7, <2>9 DEF LifeInv, TypeOK, SchedOK, WaitersAreBlocked
<1>8. CASE Halt \/ Halted \/ UNCHANGED vars
  BY <1>8 DEF Halt, Halted, vars, schedVars, lifeVars, LifeInv, TypeOK, SchedTypeOK,
              SchedulerInv, OneRunning, ReadyExact, ReadyOnce, NoDanglingThread,
              CarcassIsDead, WaitersAreBlocked
<1> QED BY <1>1, <1>2, <1>3, <1>4, <1>5, <1>6, <1>7, <1>8 DEF Next

\* Every pointer to a Thread that the kernel follows is valid, the carcass is
\* dead, waiters are blocked and the ready list is exact, for any number of
\* threads, in every order of New, Fork, Yield, Sleep, Finish and wake-ups.
THEOREM LifeInvariant == Spec => []LifeInv
  BY LifeInvInit, LifeInvNext, PTL DEF Spec

\* The type of the state of threads and scheduler.
THEOREM TypeCorrect == Spec => []TypeOK
<1>1. LifeInv => TypeOK
  BY DEF LifeInv
<1> QED BY <1>1, LifeInvariant, PTL

\* Scheduler: one RUNNING thread at most, READY means on the list, once.
THEOREM SchedulerSafe == Spec => []SchedulerInv
<1>1. LifeInv => SchedulerInv
  BY DEF LifeInv
<1> QED BY <1>1, LifeInvariant, PTL

\* Scheduler::Run never deletes a thread that is still referenced.
THEOREM NoDanglingThreadSafe == Spec => []NoDanglingThread
<1>1. LifeInv => NoDanglingThread
  BY DEF LifeInv
<1> QED BY <1>1, LifeInvariant, PTL

\* The thread about to be destroyed is blocked and on no wait queue.
THEOREM CarcassIsDeadSafe == Spec => []CarcassIsDead
<1>1. LifeInv => CarcassIsDead
  BY DEF LifeInv
<1> QED BY <1>1, LifeInvariant, PTL

-----------------------------------------------------------------------------
(***************************************************************************)
(* Thread ids.                                                             *)
(***************************************************************************)
TidInv == LifeInv /\ TidExact

\* ~Thread frees exactly the entry of the thread that is deleted.
LEMMA DestroyTid ==
    ASSUME TypeOK, TidExact, NEW c \in live, Destroy(c), tid' = tid
    PROVE  TidExact'
<1> USE DEF TidExact, Destroy, TypeOK
<1>1. \A t, u \in live' : tid'[t] = tid'[u] /\ tid'[t] # -1 => t = u
  OBVIOUS
<1>2. CASE tid[c] \in Tids
  <2> SUFFICES ASSUME NEW i \in Tids
               PROVE  threadMap'[i] <=> \E t \in live' : tid'[t] = i
    BY <1>1
  <2>0. i # -1
    BY MaxTidAssumption DEF Tids
  <2>1. CASE i = tid[c]
    BY <1>2, <2>0, <2>1
  <2>2. CASE i # tid[c]
    BY <1>2, <2>2
  <2> QED BY <2>1, <2>2
<1>3. CASE tid[c] \notin Tids
  BY <1>1, <1>3
<1> QED BY <1>2, <1>3

\* Scheduler::Run after SWITCH deletes a live carcass or nothing.
LEMMA SwitchTid ==
    ASSUME TypeOK, TidExact, tid' = tid, NEW next \in Thread,
           NEW carcass \in live \cup {NoThread}, AfterSwitch(next, carcass)
    PROVE  TidExact'
<1>1. CASE UNCHANGED <<live, threadMap>>
  BY <1>1 DEF TidExact
<1>2. CASE ~UNCHANGED <<live, threadMap>>
  <2>1. carcass \in live /\ Destroy(carcass)
    BY <1>2 DEF AfterSwitch
  <2> QED BY <2>1, DestroyTid
<1> QED BY <1>1, <1>2

LEMMA TidInvNext == TidInv /\ [Next]_vars => TidInv'
<1> SUFFICES ASSUME TidInv, [Next]_vars PROVE TidExact'
  BY LifeInvNext DEF TidInv
<1> USE NoThreadAssumption
<1>0. /\ LifeInv /\ TypeOK /\ TidExact /\ SchedOK
      /\ currentThread \in live
      /\ threadToBeDestroyed \in live \cup {NoThread}
  BY DEF TidInv, LifeInv, TypeOK, NoDanglingThread, SchedOK
<1>1. ASSUME NEW t \in Thread, New(t) PROVE TidExact'
  <2>1. PICK i \in Tids \cup {-1} :
          /\ IsNextTid(i)
          /\ tid' = [tid EXCEPT ![t] = i]
          /\ threadMap' = IF i = -1 THEN threadMap ELSE [threadMap EXCEPT ![i] = TRUE]
    BY <1>1 DEF New
  <2>2. t \notin live /\ live' = live \cup {t}
    BY <1>1 DEF New
  <2>3. i # -1 => i \in Tids /\ ~threadMap[i] /\ \A u \in live : tid[u] # i
    BY <1>0, <2>1 DEF IsNextTid, TidExact
  <2>4. -1 \notin Tids
    BY MaxTidAssumption DEF Tids
  <2>5. \A u \in live : u # t /\ u \in Thread /\ tid'[u] = tid[u]
    BY <1>0, <2>1, <2>2 DEF TypeOK
  <2>6. tid'[t] = i
    BY <1>0, <2>1 DEF TypeOK
  <2>7. \A u, v \in live' : tid'[u] = tid'[v] /\ tid'[u] # -1 => u = v
    BY <1>0, <2>2, <2>3, <2>5, <2>6 DEF TidExact
  <2>8. ASSUME NEW j \in Tids PROVE threadMap'[j] <=> \E u \in live' : tid'[u] = j
    <3>1. CASE j = i
      BY <1>0, <2>1, <2>2, <2>4, <2>6, <3>1 DEF TypeOK
    <3>2. CASE j # i
      <4>1. threadMap'[j] = threadMap[j]
        BY <1>0, <2>1, <3>2 DEF TypeOK
      <4>2. (\E u \in live : tid[u] = j) <=> (\E u \in live' : tid'[u] = j)
        BY <2>2, <2>5, <2>6, <3>2
      <4> QED BY <1>0, <4>1, <4>2 DEF TidExact
    <3> QED BY <3>1, <3>2
  <2> QED BY <2>7, <2>8 DEF TidExact
<1>2. CASE UNCHANGED <<live, threadMap, tid>>
  BY <1>0, <1>2 DEF TidExact
<1>3. ASSUME NEW carcass \in live \cup {NoThread}, SwitchIfReady(carcass), tid' = tid
      PROVE  TidExact'
  <2>1. CASE readyList = <<>>
    BY <1>2, <1>3, <2>1 DEF SwitchIfReady
  <2>2. CASE readyList # <<>>
    BY <1>0, <1>3, <2>2, SwitchTid, ReadyListShape DEF SwitchIfReady
  <2> QED BY <2>1, <2>2
<1>4. CASE Yield \/ Sleep
  BY <1>0, <1>3, <1>4 DEF Yield, Sleep
<1>5. CASE Finish
  BY <1>0, <1>3, <1>5 DEF Finish
<1>6. CASE EndIdle
  BY <1>0, <1>6, SwitchTid, ReadyListShape DEF EndIdle, LeaveIdle
<1>7. CASE (\E t \in Thread : Fork(t) \/ WakeUp(t)) \/ Halt \/ Halted \/ UNCHANGED vars
  BY <1>2, <1>7 DEF Fork, WakeUp, Halt, Halted, vars, lifeVars
<1> QED BY <1>1, <1>4, <1>5, <1>6, <1>7 DEF Next

\* threadMap is exact and ids are unique, also when ids run out and the
\* threads without one come and go.
THEOREM TidsExact == Spec => []TidExact
<1>1. Init => TidInv
  <2> SUFFICES ASSUME Init PROVE TidExact
    BY LifeInvInit DEF TidInv
  <2> QED BY MainAssumption, MaxTidAssumption DEF Init, TidExact, Tids
<1>2. TidInv => TidExact
  BY DEF TidInv
<1> QED BY <1>1, <1>2, TidInvNext, PTL DEF Spec

-----------------------------------------------------------------------------
(***************************************************************************)
(* A finished thread stays finished.                                       *)
(***************************************************************************)
LEMMA CarcassStep ==
    ASSUME LifeInv, Next, NEW t \in Thread, t = threadToBeDestroyed, t \in live'
    PROVE  status'[t] = "BLOCKED"
<1> USE NoThreadAssumption
<1>0. /\ status[t] = "BLOCKED" /\ t \in live /\ t \notin waiting
      /\ SchedOK /\ status \in [Thread -> ThreadStatus] /\ currentThread \in Thread
  BY DEF LifeInv, CarcassIsDead, NoDanglingThread, TypeOK, SchedTypeOK, SchedOK
<1>1. readyList # <<>> => t # Head(readyList)
  BY <1>0, ReadyListShape
<1>2. ASSUME NEW u \in Thread, New(u) \/ Fork(u) \/ WakeUp(u)
      PROVE  status'[t] = "BLOCKED"
  BY <1>0, <1>2 DEF New, Fork, WakeUp, ReadyToRun
<1>3. CASE Yield
  <2>1. t # currentThread
    BY <1>0, <1>3 DEF Yield, Executing, Idling
  <2> QED BY <1>0, <1>1, <1>3, <2>1 DEF Yield, YieldCPU, Run
<1>4. CASE Sleep \/ Finish
  <2>1. SleepCPU
    BY <1>4 DEF Sleep, Finish
  <2>2. CASE readyList = <<>>
    BY <1>0, <2>1, <2>2 DEF SleepCPU
  <2>3. CASE readyList # <<>>
    BY <1>0, <1>1, <2>1, <2>3 DEF SleepCPU, Run
  <2> QED BY <2>2, <2>3
<1>5. CASE EndIdle
  BY <1>0, <1>1, <1>5 DEF EndIdle, LeaveIdle, Run
<1>6. CASE Halt \/ Halted
  BY <1>0, <1>6 DEF Halt, Halted, vars, schedVars
<1> QED BY <1>2, <1>3, <1>4, <1>5, <1>6 DEF Next

\* Once finished, a thread is BLOCKED until its object is deleted: neither a
\* wake-up nor a dispatch ever reaches it.
THEOREM CarcassNeverRunsSafe == Spec => CarcassNeverRuns
<1>1. LifeInv /\ [Next]_vars =>
        [\A t \in Thread :
           t = threadToBeDestroyed /\ t \in live' => status'[t] = "BLOCKED"]_vars
  BY CarcassStep
<1> QED BY <1>1, LifeInvariant, PTL DEF Spec, CarcassNeverRuns

-----------------------------------------------------------------------------
(***************************************************************************)
(* The semaphore, for any finite set of threads and any initial value: no  *)
(* wake-up is lost, and P and V implement the abstract semaphore (its      *)
(* safety part).  NoLostWakeup is inductive together with QueueExact, which *)
(* in turn needs the dispatcher's invariant: V may only make ready a thread *)
(* that is BLOCKED.                                                        *)
(***************************************************************************)
SemInv ==
    /\ SemUserTypeOK
    /\ SchedulerInv
    /\ QueueExact
    /\ NoLostWakeup

\* All threads start READY but the first, which is RUNNING.
LEMMA StartOK == SemUserInit => SchedOK
  BY StartAssumption, StartedOK DEF SemUserInit, StartThreads

LEMMA SemInvInit == SemUserInit => SemInv
<1> SUFFICES ASSUME SemUserInit PROVE SemInv
  OBVIOUS
<1> USE SemAssumption, InitialValueAssumption
<1>1. SchedTypeOK /\ SchedulerInv
  BY StartOK DEF SchedOK
<1>2. SemUserTypeOK
  BY <1>1 DEF SemUserTypeOK, SemTypeOK, SemUserInit, SemInit
<1>3. queue[sem] = <<>> /\ InP = {}
  BY DEF SemUserInit, SemInit, InP
<1>4. QueueExact /\ NoLostWakeup
  BY <1>3 DEF QueueExact, NoLostWakeup, Queued
<1> QED BY <1>1, <1>2, <1>4 DEF SemInv

\* Sets of threads are finite, so their cardinalities are natural numbers.
LEMMA WokenFinite == IsFiniteSet(Woken) /\ Cardinality(Woken) \in Nat
<1>1. IsFiniteSet(Woken)
  BY ThreadAssumption, FS_Subset DEF Woken, InP
<1> QED BY <1>1, FS_CardinalityType

\* A step that leaves the semaphore and pc alone and neither blocks nor
\* unblocks a thread preserves the invariant.
LEMMA FrameOK ==
    ASSUME SemInv, SchedOK', UNCHANGED <<semVars, pc>>,
           \A t \in Thread : status'[t] = "BLOCKED" <=> status[t] = "BLOCKED"
    PROVE  SemInv'
<1>1. SemUserTypeOK'
  BY DEF SemInv, SemUserTypeOK, SemTypeOK, SchedOK, semVars
<1>2. /\ queue' = queue /\ value' = value
      /\ InP' = InP /\ Queued' = Queued /\ Woken' = Woken
  BY DEF semVars, InP, Queued, Woken
<1>3. QueueExact'
  BY <1>2 DEF SemInv, QueueExact, InP
<1>4. NoLostWakeup'
  BY <1>2 DEF SemInv, NoLostWakeup
<1> QED BY <1>1, <1>3, <1>4 DEF SemInv, SchedOK

\* One pass of the running thread through the loop of P.
LEMMA PassOK ==
    ASSUME SemInv, NEW t \in Thread, Running(t), P(sem, "P", "run")
    PROVE  SemInv'
<1> USE SemAssumption
<1>0. /\ SemUserTypeOK /\ SchedOK /\ QueueExact /\ NoLostWakeup
      /\ currentThread = t /\ status[t] = "RUNNING"
      /\ value \in [Sem -> Nat] /\ queue \in [Sem -> Seq(Thread)]
      /\ pc \in [Thread -> {"run", "P"}]
      /\ status \in [Thread -> ThreadStatus]
  BY DEF SemInv, SemUserTypeOK, SchedOK, Running, SemTypeOK, SchedTypeOK
<1>1. t \notin Queued
  BY <1>0 DEF QueueExact
<1>2. CASE value[sem] > 0
  <2>1. /\ value' = [value EXCEPT ![sem] = @ - 1]
        /\ pc' = [pc EXCEPT ![t] = "run"]
        /\ queue' = queue /\ UNCHANGED schedVars
    BY <1>0, <1>2 DEF P, Goto
  <2>2. SemUserTypeOK' /\ SchedulerInv'
    <3>1. value' \in [Sem -> Nat] /\ value'[sem] = value[sem] - 1
      BY <1>0, <1>2, <2>1
    <3> QED BY <1>0, <2>1, <3>1 DEF SemUserTypeOK, SchedTypeOK, SemTypeOK, schedVars, SchedOK,
              SchedulerInv, OneRunning, ReadyExact, ReadyOnce
  <2>3. Queued' = Queued /\ InP' = InP \ {t} /\ Woken' = Woken \ {t}
    BY <1>0, <2>1 DEF Queued, InP, Woken
  <2>4. QueueExact'
    BY <1>0, <1>1, <2>1, <2>3 DEF QueueExact, InP, schedVars
  <2>5. NoLostWakeup'
    <3> SUFFICES ASSUME queue'[sem] # <<>>
                 PROVE  value'[sem] <= Cardinality(Woken')
      BY DEF NoLostWakeup
    <3>1. value[sem] <= Cardinality(Woken) /\ value'[sem] = value[sem] - 1
      BY <1>0, <2>1 DEF NoLostWakeup
    <3>2. Cardinality(Woken') >= Cardinality(Woken) - 1 /\ Cardinality(Woken') \in Nat
      <4>1. CASE t \in Woken
        <5>1. IsFiniteSet(Woken \ {t}) /\ Cardinality(Woken \ {t}) = Cardinality(Woken) - 1
          BY <4>1, WokenFinite, FS_RemoveElement
        <5>2. Cardinality(Woken \ {t}) \in Nat
          BY <5>1, FS_CardinalityType
        <5> QED BY <2>3, <5>1, <5>2, WokenFinite
      <4>2. CASE t \notin Woken
        <5>1. Woken' = Woken
          BY <2>3, <4>2
        <5> QED BY <5>1, WokenFinite
      <4> QED BY <4>1, <4>2
    <3> QED BY <1>0, <3>1, <3>2, WokenFinite
  <2> QED BY <2>2, <2>4, <2>5 DEF SemInv
<1>3. CASE value[sem] = 0
  <2>1. /\ queue' = [queue EXCEPT ![sem] = Append(@, t)]
        /\ pc' = [pc EXCEPT ![t] = "P"]
        /\ SleepCPU /\ value' = value
    BY <1>0, <1>3 DEF P, Goto
  <2>2. SchedOK'
    BY <1>0, <2>1, SleepOK
  <2>3. SemUserTypeOK'
    BY <1>0, <2>1, <2>2 DEF SemUserTypeOK, SemTypeOK, SchedOK
  <2>4. \A u \in Thread : status'[u] = "BLOCKED" <=> status[u] = "BLOCKED" \/ u = t
    <3>1. CASE readyList = <<>>
      BY <1>0, <2>1, <3>1 DEF SleepCPU
    <3>2. CASE readyList # <<>>
      <4>1. Head(readyList) \in Thread /\ status[Head(readyList)] = "READY"
        BY <1>0, <3>2, ReadyListShape
      <4>2. status' = [[status EXCEPT ![t] = "BLOCKED"] EXCEPT ![Head(readyList)] = "RUNNING"]
        BY <1>0, <2>1, <3>2 DEF SleepCPU, Run
      <4> QED BY <1>0, <4>1, <4>2
    <3> QED BY <3>1, <3>2
  <2> DEFINE q == queue[sem]
  <2>5. /\ q \in Seq(Thread) /\ Len(q) \in Nat
        /\ queue'[sem] = Append(q, t)
        /\ Len(queue'[sem]) = Len(q) + 1
        /\ \A i \in 1..Len(q) : queue'[sem][i] = q[i]
        /\ queue'[sem][Len(q) + 1] = t
    BY <1>0, <2>1
  <2>6. \A i \in 1..Len(q) : q[i] # t
    BY <1>1 DEF Queued
  <2>7. Queued' = Queued \cup {t}
    <3>1. ASSUME NEW u \in Queued' PROVE u \in Queued \cup {t}
      BY <2>5, <3>1 DEF Queued
    <3>2. ASSUME NEW u \in Queued \cup {t} PROVE u \in Queued'
      <4>1. CASE u = t
        BY <2>5, <4>1 DEF Queued
      <4>2. CASE u # t
        <5>1. PICK i \in 1..Len(q) : q[i] = u
          BY <3>2, <4>2 DEF Queued
        <5>2. i \in 1..Len(queue'[sem]) /\ queue'[sem][i] = u /\ u \in Thread
          BY <2>5, <3>2, <4>2, <5>1 DEF Queued
        <5> QED BY <5>2 DEF Queued
      <4> QED BY <4>1, <4>2
    <3> QED BY <3>1, <3>2
  <2>8. InP' = InP \cup {t}
    BY <1>0, <2>1 DEF InP
  <2>9. QueueExact'
    <3>1. \A i, j \in 1..Len(queue'[sem]) : queue'[sem][i] = queue'[sem][j] => i = j
      BY <1>0, <2>5, <2>6 DEF QueueExact
    <3>2. Queued' = {u \in InP' : status'[u] = "BLOCKED"}
      BY <1>0, <2>4, <2>7, <2>8 DEF QueueExact, InP
    <3> QED BY <3>1, <3>2 DEF QueueExact
  <2>10. IsFiniteSet(Woken') /\ Cardinality(Woken') \in Nat
    BY ThreadAssumption, FS_Subset, FS_CardinalityType DEF Woken, InP
  <2>11. NoLostWakeup'
    BY <1>3, <2>1, <2>10 DEF NoLostWakeup
  <2> QED BY <2>2, <2>3, <2>9, <2>11 DEF SemInv, SchedOK
<1>4. value[sem] > 0 \/ value[sem] = 0
  BY <1>0
<1> QED BY <1>2, <1>3, <1>4

\* V, whoever calls it.
LEMMA VOK ==
    ASSUME SemInv, V(sem), UNCHANGED pc
    PROVE  SemInv'
<1> USE SemAssumption
<1> DEFINE q == queue[sem]
<1>0. /\ SemUserTypeOK /\ SchedOK /\ QueueExact /\ NoLostWakeup
      /\ value \in [Sem -> Nat] /\ queue \in [Sem -> Seq(Thread)]
      /\ status \in [Thread -> ThreadStatus]
      /\ q \in Seq(Thread)
  BY DEF SemInv, SemUserTypeOK, SchedOK, SemTypeOK, SchedTypeOK
<1>1. value' = [value EXCEPT ![sem] = @ + 1]
  BY DEF V
<1>2. value' \in [Sem -> Nat] /\ value'[sem] = value[sem] + 1
  BY <1>0, <1>1
<1>3. InP' = InP
  BY DEF InP
<1>4. CASE q = <<>>
  <2>1. queue' = queue /\ UNCHANGED schedVars
    BY <1>4 DEF V
  <2>2. SemUserTypeOK' /\ SchedulerInv'
    BY <1>0, <1>2, <2>1 DEF SemUserTypeOK, SchedTypeOK, SemTypeOK, schedVars, SchedOK,
              SchedulerInv, OneRunning, ReadyExact, ReadyOnce
  <2>3. QueueExact' /\ NoLostWakeup'
    BY <1>0, <1>3, <1>4, <2>1 DEF QueueExact, NoLostWakeup, Queued, schedVars, InP
  <2> QED BY <2>2, <2>3 DEF SemInv
<1>5. CASE q # <<>>
  <2> DEFINE h == Head(q)
  <2>1. queue' = [queue EXCEPT ![sem] = Tail(@)] /\ ReadyToRun(h)
    BY <1>5 DEF V
  <2>2. /\ h \in Thread /\ h = q[1] /\ Len(q) \in Nat \ {0}
        /\ queue'[sem] \in Seq(Thread) /\ queue' \in [Sem -> Seq(Thread)]
        /\ Len(queue'[sem]) = Len(q) - 1
        /\ \A i \in 1..Len(q)-1 : queue'[sem][i] = q[i + 1]
    BY <1>0, <1>5, <2>1
  <2>3. h \in Queued /\ h \in InP /\ status[h] = "BLOCKED"
    <3>1. h \in Queued
      BY <2>2 DEF Queued
    <3> QED BY <1>0, <3>1 DEF QueueExact
  <2>4. SchedOK'
    BY <1>0, <2>1, <2>2, <2>3, ReadyToRunOK
  <2>5. SemUserTypeOK'
    BY <1>0, <1>2, <2>2, <2>4 DEF SemUserTypeOK, SemTypeOK, SchedOK
  <2>6. \A i, j \in 1..Len(q) : q[i] = q[j] => i = j
    BY <1>0 DEF QueueExact
  <2>7. Queued' = Queued \ {h}
    <3>1. ASSUME NEW u \in Queued' PROVE u \in Queued \ {h}
      <4>1. PICK i \in 1..Len(q)-1 : queue'[sem][i] = u
        BY <2>2, <3>1 DEF Queued
      <4>2. i + 1 \in 1..Len(q) /\ q[i + 1] = u /\ i + 1 # 1 /\ 1 \in 1..Len(q)
        BY <2>2, <4>1
      <4>3. u # h
        BY <2>2, <2>6, <4>2
      <4> QED BY <3>1, <4>2, <4>3 DEF Queued
    <3>2. ASSUME NEW u \in Queued, u # h PROVE u \in Queued'
      <4>1. PICK i \in 1..Len(q) : q[i] = u
        BY <3>2 DEF Queued
      <4>2. i # 1
        BY <2>2, <3>2, <4>1
      <4>3. i - 1 \in 1..Len(q)-1 /\ queue'[sem][i - 1] = u
        BY <2>2, <4>1, <4>2
      <4>4. i - 1 \in 1..Len(queue'[sem])
        BY <2>2, <4>3
      <4> QED BY <3>2, <4>3, <4>4 DEF Queued
    <3> QED BY <3>1, <3>2
  <2>8. status' = [status EXCEPT ![h] = "READY"]
    BY <2>1 DEF ReadyToRun
  <2>9. QueueExact'
    <3>1. \A i, j \in 1..Len(queue'[sem]) : queue'[sem][i] = queue'[sem][j] => i = j
      BY <2>2, <2>6
    <3>2. Queued' = {u \in InP' : status'[u] = "BLOCKED"}
      BY <1>0, <1>3, <2>7, <2>8 DEF QueueExact, InP
    <3> QED BY <3>1, <3>2 DEF QueueExact
  <2>10. NoLostWakeup'
    <3>1. value[sem] <= Cardinality(Woken)
      BY <1>0, <1>5 DEF NoLostWakeup
    <3>2. Woken' = Woken \cup {h} /\ h \notin Woken
      BY <1>3, <2>3, <2>7 DEF Woken
    <3>3. Cardinality(Woken \cup {h}) = Cardinality(Woken) + 1
      BY <3>2, WokenFinite, FS_AddElement
    <3>4. Cardinality(Woken') = Cardinality(Woken) + 1
      BY <3>2, <3>3
    <3> QED BY <1>0, <1>2, <3>1, <3>4, WokenFinite DEF NoLostWakeup
  <2> QED BY <2>4, <2>5, <2>9, <2>10 DEF SemInv, SchedOK
<1> QED BY <1>4, <1>5

LEMMA SemInvNext == SemInv /\ [SemUserNext]_semUserVars => SemInv'
<1> SUFFICES ASSUME SemInv, [SemUserNext]_semUserVars PROVE SemInv'
  OBVIOUS
<1>0. /\ SchedOK /\ status \in [Thread -> ThreadStatus] /\ currentThread \in Thread
  BY DEF SemInv, SemUserTypeOK, SchedOK, SchedTypeOK
<1>1. ASSUME NEW t \in Thread, CallP(t) \/ ResumeP(t) PROVE SemInv'
  BY <1>1, PassOK DEF CallP, ResumeP, At
<1>2. ASSUME NEW t \in Thread, CallV(t) PROVE SemInv'
  BY <1>2, VOK DEF CallV
<1>3. CASE HandlerV
  BY <1>3, VOK DEF HandlerV
<1>4. CASE SemUserYield
  <2>1. /\ YieldCPU /\ readyList # <<>> /\ status[currentThread] = "RUNNING"
        /\ UNCHANGED <<semVars, pc>>
    BY <1>4 DEF SemUserYield, YieldAt, Running
  <2>2. SchedOK'
    BY <1>0, <2>1, YieldOK
  <2>3. Head(readyList) \in Thread /\ status[Head(readyList)] = "READY"
    BY <1>0, <2>1, ReadyListShape
  <2>4. status' = [[status EXCEPT ![currentThread] = "READY"]
                      EXCEPT ![Head(readyList)] = "RUNNING"]
    BY <2>1 DEF YieldCPU, Run
  <2>5. \A t \in Thread : status'[t] = "BLOCKED" <=> status[t] = "BLOCKED"
    BY <1>0, <2>1, <2>3, <2>4
  <2> QED BY <2>1, <2>2, <2>5, FrameOK
<1>5. CASE SemUserEndIdle
  <2>1. LeaveIdle /\ readyList # <<>> /\ UNCHANGED <<semVars, pc>>
    BY <1>5 DEF SemUserEndIdle, LeaveIdle
  <2>2. SchedOK'
    BY <1>0, <2>1, LeaveIdleOK
  <2>3. Head(readyList) \in Thread /\ status[Head(readyList)] = "READY"
    BY <1>0, <2>1, ReadyListShape
  <2>4. status' = [status EXCEPT ![Head(readyList)] = "RUNNING"]
    BY <2>1 DEF LeaveIdle, Run
  <2>5. \A t \in Thread : status'[t] = "BLOCKED" <=> status[t] = "BLOCKED"
    BY <1>0, <2>3, <2>4
  <2> QED BY <2>1, <2>2, <2>5, FrameOK
<1>6. CASE UNCHANGED semUserVars
  <2>1. UNCHANGED <<semVars, pc>> /\ UNCHANGED schedVars
    BY <1>6 DEF semUserVars
  <2>2. SchedOK' /\ status' = status
    BY <1>0, <2>1 DEF schedVars, SchedOK, SchedTypeOK, SchedulerInv, OneRunning,
                      ReadyExact, ReadyOnce
  <2> QED BY <2>1, <2>2, FrameOK
<1> QED BY <1>1, <1>2, <1>3, <1>4, <1>5, <1>6 DEF SemUserNext

\* The inductive invariant of the semaphore and its dispatcher.
THEOREM SemInvariant == SemUserSpec => []SemInv
  BY SemInvInit, SemInvNext, PTL DEF SemUserSpec

\* Semaphore::V never loses a wake-up, for any number of threads and with
\* any number of V calls from threads and interrupt handlers.
THEOREM NoLostWakeupSafe == SemUserSpec => []NoLostWakeup
<1>1. SemInv => NoLostWakeup
  BY DEF SemInv
<1> QED BY <1>1, SemInvariant, PTL

\* The queue of a semaphore holds exactly the threads asleep in P.
THEOREM QueueExactSafe == SemUserSpec => []QueueExact
<1>1. SemInv => QueueExact
  BY DEF SemInv
<1> QED BY <1>1, SemInvariant, PTL

-----------------------------------------------------------------------------
(***************************************************************************)
(* Refinement: every step of P, V and the dispatcher is a step of the      *)
(* abstract semaphore, or leaves it unchanged.                             *)
(***************************************************************************)
LEMMA AbsStep == SemInv /\ [SemUserNext]_semUserVars => [Abs!Next]_(Abs!vars)
<1> SUFFICES ASSUME SemInv, [SemUserNext]_semUserVars PROVE [Abs!Next]_(Abs!vars)
  OBVIOUS
<1> USE SemAssumption DEF Abs!Next, Abs!vars, Abs!PassP, Abs!EnterP, Abs!LeaveP, Abs!V
<1>0. /\ value \in [Sem -> Nat] /\ pc \in [Thread -> {"run", "P"}]
  BY DEF SemInv, SemUserTypeOK, SemTypeOK
<1>1. ASSUME NEW t \in Thread, CallP(t) PROVE [Abs!Next]_(Abs!vars)
  <2>1. currentThread = t /\ pc[t] = "run" /\ t \notin InP
    BY <1>1 DEF CallP, At, Running, InP
  <2>2. CASE value[sem] > 0
    <3>1. value'[sem] = value[sem] - 1 /\ InP' = InP
      BY <1>0, <1>1, <2>1, <2>2 DEF CallP, P, Goto, InP
    <3> QED BY <2>2, <3>1
  <2>3. CASE value[sem] = 0
    <3>1. value'[sem] = value[sem] /\ InP' = InP \cup {t}
      BY <1>0, <1>1, <2>1, <2>3 DEF CallP, P, Goto, InP
    <3> QED BY <2>1, <3>1
  <2> QED BY <1>0, <2>2, <2>3
<1>2. ASSUME NEW t \in Thread, ResumeP(t) PROVE [Abs!Next]_(Abs!vars)
  <2>1. currentThread = t /\ pc[t] = "P" /\ t \in InP
    BY <1>2 DEF ResumeP, At, Running, InP
  <2>2. CASE value[sem] > 0
    <3>1. value'[sem] = value[sem] - 1 /\ InP' = InP \ {t}
      BY <1>0, <1>2, <2>1, <2>2 DEF ResumeP, P, Goto, InP
    <3> QED BY <2>1, <2>2, <3>1
  <2>3. CASE value[sem] = 0
    <3>1. value'[sem] = value[sem] /\ InP' = InP
      BY <1>0, <1>2, <2>1, <2>3 DEF ResumeP, P, Goto, InP
    <3> QED BY <3>1
  <2> QED BY <1>0, <2>2, <2>3
<1>3. CASE HandlerV \/ \E t \in Thread : CallV(t)
  <2>1. value'[sem] = value[sem] + 1 /\ InP' = InP
    BY <1>0, <1>3 DEF HandlerV, CallV, V, InP
  <2> QED BY <2>1
<1>4. CASE SemUserYield \/ SemUserEndIdle \/ UNCHANGED semUserVars
  <2>1. value' = value /\ InP' = InP
    BY <1>4 DEF SemUserYield, SemUserEndIdle, semUserVars, semVars, InP
  <2> QED BY <2>1
<1> QED BY <1>1, <1>2, <1>3, <1>4 DEF SemUserNext

\* Semaphore::P and V implement the atomic semaphore that synch.h describes.
THEOREM SemaphoreRefinement == SemUserSpec => ImplementsSafety
<1>1. SemUserInit => Abs!Init
  BY SemAssumption DEF SemUserInit, SemInit, InP, Abs!Init
<1> QED BY <1>1, AbsStep, SemInvariant, PTL DEF SemUserSpec, ImplementsSafety, Abs!Safety

-----------------------------------------------------------------------------
(***************************************************************************)
(* The lock, with and without time slices.  The inductive invariant ties   *)
(* the semaphore's value to the critical section: the value is at most 1,  *)
(* and 0 while a thread is inside.  The field threadHoldTheLock only       *)
(* matters through HolderIsInside: Release calls V for a thread inside, or *)
(* not at all.                                                             *)
(***************************************************************************)
LockInv ==
    /\ LockUserTypeOK
    /\ value[lock] <= 1
    /\ \A t \in Thread : Inside(t) => value[lock] = 0
    /\ MutualExclusion
    /\ HolderIsInside

LEMMA LockInvInit == LockUserInit => LockInv
<1> SUFFICES ASSUME LockUserInit PROVE LockInv
  OBVIOUS
<1> USE StartAssumption, TheLockAssumption, LockAssumption, InitialValueAssumption
    DEF LockUserInit, StartThreads, SemInit, LockInit
<1>1. LockUserTypeOK
  BY DEF LockUserTypeOK, SchedTypeOK, ThreadStatus, SemTypeOK, LockTypeOK
<1>2. value[lock] = 1 /\ holder[lock] = NoThread
  OBVIOUS
<1>3. \A t \in Thread : ~Inside(t)
  BY DEF Inside
<1> QED BY <1>1, <1>2, <1>3 DEF LockInv, MutualExclusion, HolderIsInside

LEMMA LockInvNext == LockInv /\ [LockUserNext]_lockUserVars => LockInv'
<1> SUFFICES ASSUME LockInv, [LockUserNext]_lockUserVars PROVE LockInv'
  OBVIOUS
<1> USE TheLockAssumption, LockAssumption, NoThreadAssumption
<1>0. /\ SchedTypeOK /\ currentThread \in Thread
      /\ value \in [Sem -> Nat] /\ queue \in [Sem -> Seq(Thread)]
      /\ holder \in [LockId -> Thread \cup {NoThread}] /\ randomYield \in BOOLEAN
      /\ pc \in [Thread -> {"out", "P", "got", "cs", "gave"}]
      /\ lock \in Sem
      /\ value[lock] \in Nat /\ value[lock] <= 1
      /\ \A t \in Thread : Inside(t) => value[lock] = 0
      /\ MutualExclusion
      /\ HolderIsInside
  BY DEF LockInv, LockUserTypeOK, SchedTypeOK, SemTypeOK, LockTypeOK
\* A pass through P by a thread that is not inside.
<1>1. ASSUME NEW t \in Thread, pc[t] \in {"out", "P"}, currentThread = t,
             Acquire(lock, "P", "got")
      PROVE  LockInv'
  <2>0. holder[lock] # t /\ holder' = holder /\ randomYield' = randomYield /\ ~Inside(t)
    BY <1>0, <1>1 DEF HolderIsInside, Acquire, Inside, lockVars
  <2>1. CASE value[lock] > 0
    <3>1. /\ value' = [value EXCEPT ![lock] = @ - 1] /\ pc' = [pc EXCEPT ![t] = "got"]
          /\ queue' = queue /\ UNCHANGED schedVars
      BY <1>1, <2>1 DEF Acquire, P, Goto
    <3>2. value'[lock] = 0 /\ value' \in [Sem -> Nat]
      BY <1>0, <2>1, <3>1
    <3>3. \A u \in Thread : ~Inside(u)
      BY <1>0, <2>1
    <3>4. \A u \in Thread : Inside(u)' => u = t
      BY <1>0, <3>1, <3>3 DEF Inside
    <3>5. LockUserTypeOK'
      BY <1>0, <2>0, <3>1, <3>2, SchedTypes DEF LockUserTypeOK, SemTypeOK, LockTypeOK
    <3>6. HolderIsInside'
      BY <1>0, <2>0, <3>1 DEF HolderIsInside
    <3> QED BY <3>2, <3>4, <3>5, <3>6 DEF LockInv, MutualExclusion
  <2>2. CASE value[lock] = 0
    <3>1. /\ value' = value /\ pc' = [pc EXCEPT ![t] = "P"]
          /\ queue' = [queue EXCEPT ![lock] = Append(@, t)] /\ SleepCPU
      BY <1>1, <2>2 DEF Acquire, P, Goto
    <3>2. LockUserTypeOK'
      BY <1>0, <2>0, <3>1, SchedTypes DEF LockUserTypeOK, SemTypeOK, LockTypeOK
    <3>3. \A u \in Thread : Inside(u)' => Inside(u)
      BY <1>0, <3>1 DEF Inside
    <3>4. HolderIsInside'
      BY <1>0, <2>0, <3>1 DEF HolderIsInside
    <3> QED BY <1>0, <3>1, <3>2, <3>3, <3>4 DEF LockInv, MutualExclusion
  <2> QED BY <1>0, <2>1, <2>2
<1>2. ASSUME NEW t \in Thread, CallAcquire(t) \/ ResumeAcquire(t) PROVE LockInv'
  BY <1>1, <1>2 DEF CallAcquire, ResumeAcquire, At, Running
<1>3. ASSUME NEW t \in Thread, EndAcquire(t) PROVE LockInv'
  <2>1. /\ currentThread = t /\ pc[t] = "got"
        /\ holder' = [holder EXCEPT ![lock] = t] /\ pc' = [pc EXCEPT ![t] = "cs"]
        /\ UNCHANGED <<value, queue, randomYield>> /\ UNCHANGED schedVars
    BY <1>3 DEF EndAcquire, At, Running, RecordHolder, Goto, semVars
  <2>2. \A u \in Thread : Inside(u)' <=> Inside(u)
    BY <1>0, <2>1 DEF Inside
  <2>3. LockUserTypeOK'
    BY <1>0, <2>1, SchedTypes DEF LockUserTypeOK, SemTypeOK, LockTypeOK
  <2>4. HolderIsInside'
    BY <1>0, <2>1 DEF HolderIsInside
  <2> QED BY <1>0, <2>1, <2>2, <2>3, <2>4 DEF LockInv, MutualExclusion
<1>4. ASSUME NEW t \in Thread, CallRelease(t) PROVE LockInv'
  <2>0. /\ currentThread = t /\ pc[t] = "cs" /\ Inside(t)
        /\ holder' = holder /\ randomYield' = randomYield
    BY <1>4 DEF CallRelease, At, Running, Release, Inside, lockVars
  <2>1. /\ value[lock] = 0
        /\ \A u \in Thread : Inside(u) => u = t
    BY <1>0, <2>0 DEF MutualExclusion
  <2>2. CASE holder[lock] = t
    <3>1. V(lock) /\ pc' = [pc EXCEPT ![t] = "gave"]
      BY <1>4, <2>0, <2>2 DEF CallRelease, Release, isHeldByCurrentThread, Goto
    <3>2. value' = [value EXCEPT ![lock] = @ + 1]
      BY <3>1 DEF V
    <3>3. value'[lock] = 1 /\ value' \in [Sem -> Nat]
      BY <1>0, <2>1, <3>2
    <3>4. SchedTypeOK' /\ queue' \in [Sem -> Seq(Thread)]
      <4>1. CASE queue[lock] = <<>>
        BY <1>0, <3>1, <4>1, SchedTypes DEF V
      <4>2. CASE queue[lock] # <<>>
        <5>1. Head(queue[lock]) \in Thread /\ Tail(queue[lock]) \in Seq(Thread)
          BY <1>0, <4>2
        <5> QED BY <1>0, <3>1, <4>2, <5>1, SchedTypes DEF V
      <4> QED BY <4>1, <4>2
    <3>5. LockUserTypeOK'
      BY <1>0, <2>0, <3>1, <3>3, <3>4 DEF LockUserTypeOK, SemTypeOK, LockTypeOK
    <3>6. \A u \in Thread : ~Inside(u)'
      BY <1>0, <2>1, <3>1 DEF Inside
    <3>7. HolderIsInside'
      BY <1>0, <2>0, <2>2, <3>1 DEF HolderIsInside
    <3> QED BY <3>3, <3>5, <3>6, <3>7 DEF LockInv, MutualExclusion
  <2>3. CASE holder[lock] # t
    <3>1. /\ pc' = [pc EXCEPT ![t] = "out"]
          /\ UNCHANGED <<value, queue>> /\ UNCHANGED schedVars
      BY <1>4, <2>0, <2>3 DEF CallRelease, Release, isHeldByCurrentThread, Goto, semVars
    <3>2. LockUserTypeOK'
      BY <1>0, <2>0, <3>1, SchedTypes DEF LockUserTypeOK, SemTypeOK, LockTypeOK
    <3>3. \A u \in Thread : ~Inside(u)'
      BY <1>0, <2>1, <3>1 DEF Inside
    <3>4. HolderIsInside'
      BY <1>0, <2>0, <2>3, <3>1 DEF HolderIsInside
    <3> QED BY <1>0, <3>1, <3>2, <3>3, <3>4 DEF LockInv, MutualExclusion
  <2> QED BY <2>2, <2>3
<1>5. ASSUME NEW t \in Thread, EndRelease(t) PROVE LockInv'
  <2>1. /\ currentThread = t /\ pc[t] = "gave"
        /\ holder' = [holder EXCEPT ![lock] = NoThread] /\ pc' = [pc EXCEPT ![t] = "out"]
        /\ UNCHANGED <<value, queue, randomYield>> /\ UNCHANGED schedVars
    BY <1>5 DEF EndRelease, At, Running, ForgetHolder, Goto, semVars
  <2>2. \A u \in Thread : Inside(u)' <=> Inside(u)
    BY <1>0, <2>1 DEF Inside
  <2>3. LockUserTypeOK'
    BY <1>0, <2>1, SchedTypes DEF LockUserTypeOK, SemTypeOK, LockTypeOK
  <2>4. HolderIsInside'
    BY <1>0, <2>1 DEF HolderIsInside
  <2> QED BY <1>0, <2>1, <2>2, <2>3, <2>4 DEF LockInv, MutualExclusion
<1>6. CASE LockUserYield \/ Preempt \/ UNCHANGED lockUserVars
  <2>1. /\ YieldCPU \/ LeaveIdle \/ UNCHANGED schedVars
        /\ UNCHANGED <<value, queue, pc, holder, randomYield>>
    BY <1>6 DEF LockUserYield, Preempt, TimeSlice, YieldAt, lockUserVars, semVars, lockVars
  <2>2. LockUserTypeOK'
    BY <1>0, <2>1, SchedTypes DEF LockUserTypeOK, SemTypeOK, LockTypeOK
  <2>3. \A u \in Thread : Inside(u)' <=> Inside(u)
    BY <2>1 DEF Inside
  <2>4. HolderIsInside'
    BY <1>0, <2>1 DEF HolderIsInside
  <2> QED BY <1>0, <2>1, <2>2, <2>3, <2>4 DEF LockInv, MutualExclusion
<1> QED BY <1>2, <1>3, <1>4, <1>5, <1>6 DEF LockUserNext, Step

\* The inductive invariant of the lock.
THEOREM LockInvariant == LockUserSpec => []LockInv
  BY LockInvInit, LockInvNext, PTL DEF LockUserSpec

\* Acquire and Release give mutual exclusion, for any number of threads and
\* any placing of time slices.
THEOREM MutualExclusionSafe == LockUserSpec => []MutualExclusion
<1>1. LockInv => MutualExclusion
  BY DEF LockInv
<1> QED BY <1>1, LockInvariant, PTL

\* isHeldByCurrentThread is only ever true inside of the lock.
THEOREM HolderIsInsideSafe == LockUserSpec => []HolderIsInside
<1>1. LockInv => HolderIsInside
  BY DEF LockInv
<1> QED BY <1>1, LockInvariant, PTL

==============================================================================
