---------------------------- MODULE DeviceProofs ----------------------------
(***************************************************************************)
(* The devices and what is built on them: the synchronized list that the   *)
(* mailboxes are made of, the console with its echo, the post office over  *)
(* the network, the elevator bank and the timing of the disk, each for any *)
(* number of threads, characters, machines, lifts or sectors.              *)
(***************************************************************************)
EXTENDS SynchList, Console, PostOffice, Elevator, Disk, SchedulerProofs,
        FiniteSetTheorems, SequenceTheorems, WellFoundedInduction

-----------------------------------------------------------------------------
(***************************************************************************)
(* SynchList for any number of threads, with and without time slices: one  *)
(* thread at a time works on the list, the queue of listEmpty holds just   *)
(* the threads asleep in Wait, and the list implements a semaphore that    *)
(* counts its items.  Without the timer no signal is lost.                 *)
(*                                                                         *)
(* The inductive invariant gives the lock to one thread at a time, from    *)
(* the P of Acquire to the V of Release, and separates the two queues: the *)
(* threads on the lock's queue are BLOCKED in P and those on the queue of  *)
(* listEmpty are BLOCKED in Wait, each queued once, so V never resumes a   *)
(* thread in Wait and Signal never resumes a thread in P.                  *)
(***************************************************************************)
Holding(t) == pc[t] \in {"aGot", "rGot", "mGot", "aSig"}

InP(t) == pc[t] \in {"aP", "rP", "mP"}

InWait(t) == pc[t] = "wWoken" /\ status[t] = "BLOCKED"

OneHolds ==
    /\ value[lock] <= 1
    /\ \A t \in Thread : Holding(t) => value[lock] = 0
    /\ \A t, u \in Thread : Holding(t) /\ Holding(u) => t = u

LockQueueOK ==
    /\ QueuedOnce(queue[lock])
    /\ \A t \in OnQueue(queue[lock]) : InP(t) /\ status[t] = "BLOCKED"

CondQueueOK ==
    /\ QueuedOnce(condQueue[listEmpty])
    /\ \A t \in Thread : t \in OnQueue(condQueue[listEmpty]) <=> InWait(t)

\* TypeOK without the bound on the items, which RoomLeft gives.
TypesOK ==
    /\ SchedTypeOK /\ SemTypeOK /\ LockTypeOK /\ CondTypeOK
    /\ pc \in [Thread -> Label]
    /\ listLen \in Nat

RoomLeft == listLen + Cardinality(Appending) <= MaxItems

QueuesInv == TypesOK /\ SchedulerInv /\ OneHolds /\ LockQueueOK /\ CondQueueOK

-----------------------------------------------------------------------------
\* What P and V do to the dispatcher, the semaphore and the caller's label,
\* when the threads on the semaphore's queue are BLOCKED.
LEMMA POutcome ==
    ASSUME SchedOK, SemTypeOK, status[currentThread] = "RUNNING",
           NEW s \in Sem, NEW again, NEW done, P(s, again, done)
    PROVE  /\ SchedOK' /\ SemTypeOK'
           /\ \/ /\ value[s] > 0 /\ value' = [value EXCEPT ![s] = @ - 1] /\ queue' = queue
                 /\ pc' = [pc EXCEPT ![currentThread] = done]
                 /\ UNCHANGED schedVars
              \/ /\ value[s] = 0 /\ value' = value
                 /\ queue' = [queue EXCEPT ![s] = Append(@, currentThread)]
                 /\ pc' = [pc EXCEPT ![currentThread] = again]
                 /\ \A t \in Thread : status'[t] = "BLOCKED"
                                        <=> t = currentThread \/ status[t] = "BLOCKED"
<1>1. CASE value[s] > 0
  <2>1. /\ value' = [value EXCEPT ![s] = @ - 1] /\ queue' = queue
        /\ pc' = [pc EXCEPT ![currentThread] = done] /\ UNCHANGED schedVars
    BY <1>1 DEF P, Goto
  <2>2. SchedOK'
    BY <2>1 DEF SchedOK, SchedTypeOK, SchedulerInv, OneRunning, ReadyExact, ReadyOnce, schedVars
  <2> QED BY <1>1, <2>1, <2>2 DEF SemTypeOK
<1>2. CASE value[s] = 0
  <2>1. /\ queue' = [queue EXCEPT ![s] = Append(@, currentThread)] /\ value' = value
        /\ pc' = [pc EXCEPT ![currentThread] = again] /\ SleepCPU
    BY <1>2 DEF P, Goto
  <2>2. SchedOK'
    BY <2>1, SleepOK
  <2>3. SemTypeOK'
    BY <2>1 DEF SemTypeOK, SchedOK, SchedTypeOK
  <2> QED BY <1>2, <2>1, <2>2, <2>3, SleepBlocks
<1> QED BY <1>1, <1>2 DEF SemTypeOK

LEMMA VOutcome ==
    ASSUME SchedOK, SemTypeOK, NEW s \in Sem, V(s),
           queue[s] # <<>> => status[Head(queue[s])] = "BLOCKED"
    PROVE  /\ SchedOK' /\ SemTypeOK' /\ currentThread' = currentThread
           /\ value' = [value EXCEPT ![s] = @ + 1]
           /\ \/ queue[s] = <<>> /\ queue' = queue /\ status' = status
              \/ /\ queue[s] # <<>> /\ Head(queue[s]) \in Thread
                 /\ queue' = [queue EXCEPT ![s] = Tail(@)]
                 /\ \A t \in Thread : status'[t] = "BLOCKED"
                                        <=> t # Head(queue[s]) /\ status[t] = "BLOCKED"
<1>0. value' = [value EXCEPT ![s] = @ + 1] /\ value' \in [Sem -> Nat]
  BY DEF V, SemTypeOK
<1>1. CASE queue[s] = <<>>
  <2>1. UNCHANGED schedVars /\ queue' = queue
    BY <1>1 DEF V
  <2>2. SchedOK'
    BY <2>1 DEF SchedOK, SchedTypeOK, SchedulerInv, OneRunning, ReadyExact, ReadyOnce, schedVars
  <2> QED BY <1>0, <1>1, <2>1, <2>2 DEF SemTypeOK, schedVars
<1>2. CASE queue[s] # <<>>
  <2>1. Head(queue[s]) \in Thread /\ Tail(queue[s]) \in Seq(Thread)
    BY <1>2 DEF SemTypeOK
  <2>2. ReadyToRun(Head(queue[s])) /\ queue' = [queue EXCEPT ![s] = Tail(@)]
    BY <1>2 DEF V
  <2>3. SchedOK'
    BY <1>2, <2>1, <2>2, ReadyToRunOK
  <2>4. currentThread' = currentThread
    BY <2>2 DEF ReadyToRun
  <2> QED BY <1>0, <1>2, <2>1, <2>2, <2>3, <2>4, ReadyToRunUnblocks DEF SemTypeOK
<1> QED BY <1>1, <1>2

\* The fields of the lock keep their type.
LEMMA HolderType ==
    ASSUME LockTypeOK, SchedTypeOK,
           RecordHolder(lock) \/ ForgetHolder(lock) \/ UNCHANGED lockVars
    PROVE  LockTypeOK'
  BY FieldsAssumption DEF LockTypeOK, SchedTypeOK, RecordHolder, ForgetHolder, lockVars

LEMMA QueuesInit == Init => QueuesInv
<1> SUFFICES ASSUME Init PROVE QueuesInv
  OBVIOUS
<1> USE FieldsAssumption, LockAssumption, InitialValueAssumption
<1>1. SchedOK
  BY StartAssumption, StartedOK DEF Init, StartThreads
<1>2. SemTypeOK /\ LockTypeOK /\ CondTypeOK /\ pc \in [Thread -> Label]
  BY DEF SemTypeOK, LockTypeOK, CondTypeOK, Label, Init, SemInit, LockInit, CondInit
<1>3. /\ value[lock] = 1 /\ listLen = 0
      /\ queue[lock] = <<>> /\ condQueue[listEmpty] = <<>>
      /\ \A t \in Thread : pc[t] = "out"
  BY DEF Init, SemInit, CondInit
<1>4. OnQueue(<<>>) = {} /\ QueuedOnce(<<>>)
  BY DEF OnQueue, QueuedOnce
<1> QED BY <1>1, <1>2, <1>3, <1>4
        DEF QueuesInv, TypesOK, SchedOK, OneHolds, Holding, LockQueueOK, CondQueueOK, InWait

LEMMA QueuesNext == QueuesInv /\ [Next]_vars => QueuesInv'
<1> SUFFICES ASSUME QueuesInv, [Next]_vars PROVE QueuesInv'
  OBVIOUS
<1>0. /\ SchedOK /\ SemTypeOK /\ LockTypeOK /\ CondTypeOK /\ pc \in [Thread -> Label]
      /\ SchedTypeOK /\ currentThread \in Thread /\ listLen \in Nat
      /\ lock \in Sem /\ listEmpty \in Cond
      /\ value \in [Sem -> Nat] /\ queue \in [Sem -> Seq(Thread)]
      /\ condQueue \in [Cond -> Seq(Thread)]
      /\ value[lock] \in Nat /\ queue[lock] \in Seq(Thread) /\ condQueue[listEmpty] \in Seq(Thread)
      /\ OnQueue(queue[lock]) \subseteq Thread
      /\ OneHolds /\ LockQueueOK /\ CondQueueOK
  BY FieldsAssumption, LockAssumption
     DEF QueuesInv, TypesOK, SchedOK, SchedTypeOK, SemTypeOK, CondTypeOK, OnQueue
\* lock->Acquire: one pass through P.
<1>1. ASSUME NEW t \in Thread, NEW from \in {"out", "aP", "rP", "mP", "wWoken"},
             NEW again \in {"aP", "rP", "mP"}, NEW taken \in {"aGot", "rGot", "mGot"},
             AcquireFor(t, from, again, taken)
      PROVE  QueuesInv'
  <2>1. /\ currentThread = t /\ status[t] = "RUNNING" /\ pc[t] = from
        /\ P(lock, again, taken) /\ UNCHANGED lockVars /\ condQueue' = condQueue /\ listLen' = listLen
    BY <1>1 DEF AcquireFor, At, Running, Acquire
  <2>2. SchedOK' /\ SemTypeOK' /\ LockTypeOK' /\ CondTypeOK'
    BY <1>0, <2>1, POutcome, HolderType DEF CondTypeOK
  <2>3. pc' \in [Thread -> Label] /\ \A u \in Thread : u # t => pc'[u] = pc[u]
    BY <1>0, <2>1 DEF P, Goto, Label
  <2>4. TypesOK' /\ SchedulerInv'
    BY <1>0, <2>1, <2>2, <2>3 DEF TypesOK, SchedOK
  <2>5. t \notin OnQueue(queue[lock])
    BY <1>0, <2>1 DEF LockQueueOK
  <2>6. CASE value[lock] > 0
    <3>1. /\ value' = [value EXCEPT ![lock] = @ - 1] /\ queue' = queue
          /\ pc' = [pc EXCEPT ![t] = taken] /\ status' = status
      BY <1>0, <2>1, <2>6, POutcome DEF schedVars
    <3>2. OneHolds'
      <4>1. value'[lock] = 0 /\ \A u \in Thread : ~Holding(u)
        BY <1>0, <2>6, <3>1 DEF OneHolds
      <4>2. \A u \in Thread : Holding(u)' => u = t
        BY <2>3, <4>1 DEF Holding
      <4> QED BY <4>1, <4>2 DEF OneHolds
    <3>3. LockQueueOK'
      BY <1>0, <2>3, <2>5, <3>1 DEF LockQueueOK, InP
    <3>4. CondQueueOK'
      BY <1>0, <2>1, <2>3, <3>1 DEF CondQueueOK, InWait
    <3> QED BY <2>4, <3>2, <3>3, <3>4 DEF QueuesInv
  <2>7. CASE value[lock] = 0
    <3>1. /\ value' = value /\ queue' = [queue EXCEPT ![lock] = Append(@, t)]
          /\ pc' = [pc EXCEPT ![t] = again]
          /\ \A u \in Thread : status'[u] = "BLOCKED" <=> u = t \/ status[u] = "BLOCKED"
      BY <1>0, <2>1, <2>7, POutcome
    <3>2. OneHolds'
      BY <1>0, <3>1 DEF OneHolds, Holding
    <3>3. LockQueueOK'
      <4>1. /\ QueuedOnce(queue'[lock])
            /\ OnQueue(queue'[lock]) = OnQueue(queue[lock]) \cup {t}
        BY <1>0, <2>5, <3>1, JoinQueue DEF LockQueueOK
      <4>2. InP(t)' /\ status'[t] = "BLOCKED"
        BY <1>0, <3>1 DEF InP
      <4>3. \A u \in OnQueue(queue[lock]) : InP(u)' /\ status'[u] = "BLOCKED"
        BY <1>0, <2>3, <2>5, <3>1 DEF LockQueueOK, InP
      <4> QED BY <4>1, <4>2, <4>3 DEF LockQueueOK
    <3>4. CondQueueOK'
      <4>1. \A u \in Thread : InWait(u)' <=> InWait(u)
        BY <1>0, <2>1, <2>3, <3>1 DEF InWait
      <4> QED BY <1>0, <2>1, <4>1 DEF CondQueueOK
    <3> QED BY <2>4, <3>2, <3>3, <3>4 DEF QueuesInv
  <2> QED BY <1>0, <2>6, <2>7
\* A thread that holds the lock gives it back; in Append the Release may find
\* another thread in the field and do nothing.
<1>2. ASSUME NEW t \in Thread, NEW l \in {"gave", "wGave", "out"},
             Holding(t), pc' = [pc EXCEPT ![t] = l],
             V(lock) \/ UNCHANGED <<semVars, schedVars>>,
             LockTypeOK', condQueue' = condQueue, listLen' \in Nat
      PROVE  QueuesInv'
  <2>1. value[lock] = 0 /\ \A u \in Thread : Holding(u) => u = t
    BY <1>0, <1>2 DEF OneHolds
  <2>2. /\ pc' \in [Thread -> Label]
        /\ \A u \in Thread : ~Holding(u)'
        /\ \A u \in Thread : pc[u] \in {"aP", "rP", "mP", "wWoken"} => pc'[u] = pc[u]
        /\ \A u \in Thread : pc'[u] = "wWoken" => pc[u] = "wWoken"
    BY <1>0, <1>2, <2>1 DEF Holding, Label
  <2>3. queue[lock] # <<>> =>
          Head(queue[lock]) \in OnQueue(queue[lock]) /\ status[Head(queue[lock])] = "BLOCKED"
    BY <1>0, LeaveQueue DEF LockQueueOK
  <2>4. /\ SchedOK' /\ SemTypeOK' /\ value'[lock] <= 1
        /\ LockQueueOK' /\ CondQueueOK'
    <3>1. CASE queue'[lock] = queue[lock] /\ status' = status
      <4>1. LockQueueOK' /\ CondQueueOK'
        BY <1>0, <1>2, <2>2, <3>1 DEF LockQueueOK, CondQueueOK, InP, InWait
      <4>2. CASE V(lock)
        BY <1>0, <2>1, <2>3, <4>1, <4>2, VOutcome
      <4>3. CASE UNCHANGED <<semVars, schedVars>>
        BY <1>0, <2>1, <4>1, <4>3
           DEF SchedOK, SchedTypeOK, SchedulerInv, OneRunning, ReadyExact, ReadyOnce,
               schedVars, semVars, SemTypeOK
      <4> QED BY <1>2, <4>2, <4>3
    <3>2. CASE V(lock) /\ queue[lock] # <<>>
      <4>1. SchedOK' /\ SemTypeOK' /\ value' = [value EXCEPT ![lock] = @ + 1]
        BY <1>0, <2>3, <3>2, VOutcome
      <4>2. /\ queue' = [queue EXCEPT ![lock] = Tail(@)]
            /\ \A u \in Thread : status'[u] = "BLOCKED"
                                   <=> u # Head(queue[lock]) /\ status[u] = "BLOCKED"
        BY <1>0, <2>3, <3>2, VOutcome
      <4>3. /\ QueuedOnce(queue'[lock])
            /\ OnQueue(queue'[lock]) = OnQueue(queue[lock]) \ {Head(queue[lock])}
        BY <1>0, <3>2, <4>2, LeaveQueue DEF LockQueueOK
      <4>4. LockQueueOK'
        BY <1>0, <2>2, <4>2, <4>3 DEF LockQueueOK, InP
      <4>5. pc[Head(queue[lock])] # "wWoken"
        BY <1>0, <2>3, <3>2 DEF LockQueueOK, InP
      <4>6. CondQueueOK'
        BY <1>0, <1>2, <2>2, <4>2, <4>5 DEF CondQueueOK, InWait
      <4> QED BY <1>0, <2>1, <4>1, <4>4, <4>6
    <3>3. CASE V(lock) /\ queue[lock] = <<>>
      BY <1>0, <2>3, <3>1, <3>3, VOutcome
    <3>4. CASE UNCHANGED <<semVars, schedVars>>
      BY <3>1, <3>4 DEF semVars, schedVars
    <3> QED BY <1>2, <3>2, <3>3, <3>4
  <2>5. OneHolds'
    BY <2>2, <2>4 DEF OneHolds
  <2>6. TypesOK' /\ SchedulerInv'
    BY <1>0, <1>2, <2>2, <2>4 DEF TypesOK, SchedOK, CondTypeOK
  <2> QED BY <2>4, <2>5, <2>6 DEF QueuesInv
<1>3. ASSUME NEW t \in Thread,
             EndAppend(t) \/ RemoveItem(t) \/ WaitRelease(t) \/ MapcarItems(t)
      PROVE  QueuesInv'
  <2>1. /\ Holding(t) /\ condQueue' = condQueue /\ listLen' \in Nat
        /\ RecordHolder(lock) \/ UNCHANGED lockVars
    BY <1>0, <1>3 DEF EndAppend, RemoveItem, WaitRelease, MapcarItems, AcquiredThenRelease,
                      Release, At, Holding
  <2>2. /\ \E l \in {"gave", "wGave", "out"} : pc' = [pc EXCEPT ![t] = l]
        /\ V(lock) \/ UNCHANGED <<semVars, schedVars>>
    BY <1>3 DEF EndAppend, RemoveItem, WaitRelease, MapcarItems, AcquiredThenRelease,
                Release, At, Running, Goto
  <2>3. LockTypeOK'
    BY <1>0, <2>1, HolderType
  <2> QED BY <1>2, <2>1, <2>2, <2>3
\* Append puts its item on the list and signals.
<1>4. ASSUME NEW t \in Thread, AppendItem(t) PROVE QueuesInv'
  <2>1. /\ pc[t] = "aGot" /\ pc' = [pc EXCEPT ![t] = "aSig"] /\ RecordHolder(lock)
        /\ value' = value /\ queue' = queue /\ listLen' = listLen + 1 /\ Signal(listEmpty)
    BY <1>4 DEF AppendItem, At, Goto, semVars
  <2>2. OneHolds'
    BY <1>0, <2>1 DEF OneHolds, Holding
  <2>3. pc' \in [Thread -> Label] /\ LockTypeOK' /\ SemTypeOK' /\ listLen' \in Nat
    BY <1>0, <2>1, HolderType DEF SemTypeOK, Label
  <2>4. SchedOK' /\ CondTypeOK' /\ LockQueueOK' /\ CondQueueOK'
    <3>1. CASE condQueue[listEmpty] = <<>>
      <4>1. condQueue' = condQueue /\ UNCHANGED schedVars
        BY <2>1, <3>1 DEF Signal
      <4>2. SchedOK' /\ CondTypeOK'
        BY <1>0, <4>1 DEF SchedOK, SchedTypeOK, SchedulerInv, OneRunning, ReadyExact, ReadyOnce,
                          schedVars, CondTypeOK
      <4>3. LockQueueOK' /\ CondQueueOK'
        BY <1>0, <2>1, <4>1 DEF LockQueueOK, CondQueueOK, InP, InWait, schedVars
      <4> QED BY <4>2, <4>3
    <3>2. CASE condQueue[listEmpty] # <<>>
      <4> DEFINE h == Head(condQueue[listEmpty])
      <4>1. condQueue' = [condQueue EXCEPT ![listEmpty] = Tail(@)] /\ ReadyToRun(h)
        BY <2>1, <3>2 DEF Signal
      <4>2. h \in Thread /\ InWait(h) /\ Tail(condQueue[listEmpty]) \in Seq(Thread)
        BY <1>0, <3>2, LeaveQueue DEF CondQueueOK
      <4>3. /\ QueuedOnce(condQueue'[listEmpty])
            /\ OnQueue(condQueue'[listEmpty]) = OnQueue(condQueue[listEmpty]) \ {h}
        BY <1>0, <3>2, <4>1, LeaveQueue DEF CondQueueOK
      <4> HIDE DEF h
      <4>4. SchedOK'
        BY <1>0, <4>1, <4>2, ReadyToRunOK DEF InWait
      <4>5. CondTypeOK'
        BY <1>0, <4>1, <4>2 DEF CondTypeOK
      <4>6. \A u \in Thread : status'[u] = "BLOCKED" <=> u # h /\ status[u] = "BLOCKED"
        BY <1>0, <4>1, <4>2, ReadyToRunUnblocks
      <4>7. LockQueueOK'
        <5>1. h \notin OnQueue(queue[lock])
          BY <1>0, <4>2 DEF LockQueueOK, InP, InWait
        <5> QED BY <1>0, <2>1, <4>6, <5>1 DEF LockQueueOK, InP
      <4>8. CondQueueOK'
        BY <1>0, <2>1, <4>3, <4>6 DEF CondQueueOK, InWait
      <4> QED BY <4>4, <4>5, <4>7, <4>8
    <3> QED BY <3>1, <3>2
  <2>5. TypesOK' /\ SchedulerInv'
    BY <2>3, <2>4 DEF TypesOK, SchedOK
  <2> QED BY <2>2, <2>4, <2>5 DEF QueuesInv
\* Wait: the thread queues itself on listEmpty and sleeps.
<1>5. ASSUME NEW t \in Thread, WaitForItem(t) PROVE QueuesInv'
  <2>1. /\ currentThread = t /\ status[t] = "RUNNING" /\ pc[t] = "wGave"
        /\ pc' = [pc EXCEPT ![t] = "wWoken"] /\ ForgetHolder(lock) /\ SleepCPU
        /\ condQueue' = [condQueue EXCEPT ![listEmpty] = Append(@, t)]
        /\ value' = value /\ queue' = queue /\ listLen' = listLen
    BY <1>5 DEF WaitForItem, WaitSleep, At, Running, Goto, semVars
  <2>2. SchedOK' /\ SemTypeOK' /\ LockTypeOK'
    BY <1>0, <2>1, SleepOK, HolderType DEF SemTypeOK
  <2>3. \A u \in Thread : status'[u] = "BLOCKED" <=> u = t \/ status[u] = "BLOCKED"
    BY <1>0, <2>1, SleepBlocks
  <2>4. t \notin OnQueue(condQueue[listEmpty]) /\ t \notin OnQueue(queue[lock])
    BY <1>0, <2>1 DEF CondQueueOK, LockQueueOK, InWait
  <2>5. /\ QueuedOnce(condQueue'[listEmpty]) /\ condQueue'[listEmpty] \in Seq(Thread)
        /\ OnQueue(condQueue'[listEmpty]) = OnQueue(condQueue[listEmpty]) \cup {t}
    BY <1>0, <2>1, <2>4, JoinQueue DEF CondQueueOK
  <2>6. CondTypeOK' /\ pc' \in [Thread -> Label]
    BY <1>0, <2>1, JoinQueue DEF CondTypeOK, Label
  <2>7. OneHolds'
    BY <1>0, <2>1 DEF OneHolds, Holding
  <2>8. LockQueueOK'
    BY <1>0, <2>1, <2>3, <2>4 DEF LockQueueOK, InP
  <2>9. CondQueueOK'
    BY <1>0, <2>1, <2>3, <2>5 DEF CondQueueOK, InWait
  <2> QED BY <1>0, <2>1, <2>2, <2>6, <2>7, <2>8, <2>9 DEF QueuesInv, TypesOK, SchedOK
<1>6. ASSUME NEW t \in Thread, EndRelease(t) PROVE QueuesInv'
  <2>1. /\ pc[t] = "gave" /\ pc' = [pc EXCEPT ![t] = "out"] /\ ForgetHolder(lock)
        /\ UNCHANGED schedVars /\ UNCHANGED <<value, queue, condQueue, listLen>>
    BY <1>6 DEF EndRelease, At, Goto, semVars
  <2>2. SchedOK' /\ SemTypeOK' /\ LockTypeOK' /\ CondTypeOK'
    BY <1>0, <2>1, HolderType
       DEF SchedOK, SchedTypeOK, SchedulerInv, OneRunning, ReadyExact, ReadyOnce, schedVars,
           SemTypeOK, CondTypeOK
  <2>3. pc' \in [Thread -> Label]
    BY <1>0, <2>1 DEF Label
  <2>4. OneHolds'
    BY <1>0, <2>1 DEF OneHolds, Holding
  <2>5. LockQueueOK'
    BY <1>0, <2>1 DEF LockQueueOK, InP, schedVars
  <2>6. CondQueueOK'
    BY <1>0, <2>1 DEF CondQueueOK, InWait, schedVars
  <2> QED BY <1>0, <2>1, <2>2, <2>3, <2>4, <2>5, <2>6 DEF QueuesInv, TypesOK, SchedOK
\* The processor changes hands.
<1>7. CASE Yield \/ Preempt \/ UNCHANGED vars
  <2>1. /\ \/ status[currentThread] = "RUNNING" /\ readyList # <<>> /\ YieldCPU
           \/ UNCHANGED schedVars
        /\ UNCHANGED <<value, queue, pc, holder, randomYield, condQueue, listLen>>
    BY <1>7 DEF Yield, Preempt, TimeSlice, YieldAt, Running, vars, semVars, lockVars
  <2>2. SchedOK'
    <3>1. CASE UNCHANGED schedVars
      BY <1>0, <3>1 DEF SchedOK, SchedTypeOK, SchedulerInv, OneRunning, ReadyExact, ReadyOnce, schedVars
    <3> QED BY <1>0, <2>1, <3>1, YieldOK
  <2>3. TypesOK' /\ SchedulerInv'
    BY <1>0, <2>1, <2>2 DEF TypesOK, SchedOK, SemTypeOK, LockTypeOK, CondTypeOK
  <2>4. \A u \in Thread : status'[u] = "BLOCKED" <=> status[u] = "BLOCKED"
    BY <1>0, <2>1, SwitchBlocksNone
  <2>5. OneHolds'
    BY <1>0, <2>1 DEF OneHolds, Holding
  <2>6. LockQueueOK'
    BY <1>0, <2>1, <2>4 DEF LockQueueOK, InP
  <2>7. CondQueueOK'
    BY <1>0, <2>1, <2>4 DEF CondQueueOK, InWait
  <2> QED BY <2>3, <2>5, <2>6, <2>7 DEF QueuesInv
<1>8. ASSUME NEW t \in Thread,
             \/ CallAppend(t) \/ ResumeAppend(t) \/ CallRemove(t) \/ ResumeRemove(t)
             \/ WaitAcquire(t) \/ CallMapcar(t) \/ ResumeMapcar(t)
      PROVE  QueuesInv'
  BY <1>1, <1>8 DEF CallAppend, ResumeAppend, CallRemove, ResumeRemove, WaitAcquire,
                    CallMapcar, ResumeMapcar
<1> QED BY <1>3, <1>4, <1>5, <1>6, <1>7, <1>8 DEF Next, Step

-----------------------------------------------------------------------------
(***************************************************************************)
(* The number of items and the implementation of a counting semaphore.     *)
(***************************************************************************)
\* What a step does to the labels and to the number of items.
Move(t, l) ==
    /\ currentThread = t
    /\ pc' = [pc EXCEPT ![t] = l]
    /\ \/ /\ pc[t] = "out" /\ l \in {"aP", "aGot"} /\ listLen' = listLen
          /\ listLen + Cardinality(Appending) < MaxItems
       \/ pc[t] = "out" /\ l \in {"rP", "rGot", "mP", "mGot"} /\ listLen' = listLen
       \/ pc[t] = "aP" /\ l \in {"aP", "aGot"} /\ listLen' = listLen
       \/ pc[t] = "aGot" /\ l = "aSig" /\ listLen' = listLen + 1
       \/ pc[t] = "rGot" /\ l = "gave" /\ listLen > 0 /\ listLen' = listLen - 1
       \/ pc[t] = "rGot" /\ l = "wGave" /\ listLen = 0 /\ listLen' = listLen
       \/ pc[t] = "wGave" /\ l = "wWoken" /\ listLen' = listLen
       \/ pc[t] \in {"rP", "wWoken"} /\ l \in {"rP", "rGot"} /\ listLen' = listLen
       \/ pc[t] = "mP" /\ l \in {"mP", "mGot"} /\ listLen' = listLen
       \/ pc[t] \in {"aSig", "mGot", "gave"} /\ l \in {"gave", "out"} /\ listLen' = listLen

LEMMA StepMoves ==
    [Next]_vars => \/ pc' = pc /\ listLen' = listLen
                   \/ \E t \in Thread, l \in Label : Move(t, l)
<1> SUFFICES ASSUME [Next]_vars
             PROVE  \/ pc' = pc /\ listLen' = listLen
                    \/ \E t \in Thread, l \in Label : Move(t, l)
  OBVIOUS
<1>1. ASSUME NEW t \in Thread, NEW from, NEW again \in Label, NEW taken \in Label,
             AcquireFor(t, from, again, taken)
      PROVE  /\ currentThread = t /\ pc[t] = from /\ listLen' = listLen
             /\ \E l \in {again, taken} : pc' = [pc EXCEPT ![t] = l]
  BY <1>1 DEF AcquireFor, At, Running, Acquire, P, Goto
<1>2. ASSUME NEW t \in Thread, CallAppend(t) \/ CallRemove(t) \/ CallMapcar(t)
      PROVE  \E l \in Label : Move(t, l)
  BY <1>1, <1>2 DEF CallAppend, CallRemove, CallMapcar, Move, Label
<1>3. ASSUME NEW t \in Thread, ResumeAppend(t) \/ ResumeRemove(t) \/ WaitAcquire(t) \/ ResumeMapcar(t)
      PROVE  \E l \in Label : Move(t, l)
  BY <1>1, <1>3 DEF ResumeAppend, ResumeRemove, WaitAcquire, ResumeMapcar, Move, Label
<1>4. ASSUME NEW t \in Thread, AppendItem(t) \/ RemoveItem(t) \/ WaitRelease(t) \/ MapcarItems(t)
      PROVE  \E l \in Label : Move(t, l)
  BY <1>4 DEF AppendItem, RemoveItem, WaitRelease, MapcarItems, AcquiredThenRelease, At, Running,
              Goto, Move, Label
<1>5. ASSUME NEW t \in Thread, EndAppend(t) \/ WaitForItem(t) \/ EndRelease(t)
      PROVE  \E l \in Label : Move(t, l)
  <2>1. currentThread = t /\ listLen' = listLen
    BY <1>5 DEF EndAppend, WaitForItem, EndRelease, At, Running
  <2>2. \/ pc[t] \in {"aSig", "gave"} /\ \E l \in {"gave", "out"} : pc' = [pc EXCEPT ![t] = l]
        \/ pc[t] = "wGave" /\ pc' = [pc EXCEPT ![t] = "wWoken"]
    BY <1>5 DEF EndAppend, WaitForItem, WaitSleep, EndRelease, At, Running, Release, Goto
  <2> QED BY <2>1, <2>2 DEF Move, Label
<1>6. CASE Yield \/ Preempt \/ UNCHANGED vars
  BY <1>6 DEF Yield, Preempt, vars
<1> QED BY <1>2, <1>3, <1>4, <1>5, <1>6 DEF Next, Step

LEMMA ThreadFinite == IsFiniteSet(Thread)
  BY StartAssumption DEF IsFiniteSet

LEMMA AppendingFinite == IsFiniteSet(Appending) /\ Cardinality(Appending) \in Nat
<1>1. Appending \in SUBSET Thread
  BY DEF Appending
<1> QED BY <1>1, ThreadFinite, FS_Subset, FS_CardinalityType

\* Append keeps the room it asked for until its item is on the list.
LEMMA RoomNext == QueuesInv /\ RoomLeft /\ [Next]_vars => RoomLeft'
<1> SUFFICES ASSUME QueuesInv, RoomLeft, [Next]_vars PROVE RoomLeft'
  OBVIOUS
<1>0. pc \in [Thread -> Label] /\ listLen \in Nat /\ MaxItems \in Nat
  BY MaxItemsAssumption DEF QueuesInv, TypesOK
<1>1. CASE pc' = pc /\ listLen' = listLen
  BY <1>1 DEF RoomLeft, Appending
<1>2. ASSUME NEW t \in Thread, NEW l \in Label, Move(t, l) PROVE RoomLeft'
  <2>1. CASE pc[t] = "out" /\ l \in {"aP", "aGot"}
    <3>1. Appending' = Appending \cup {t} /\ t \notin Appending
      BY <1>0, <1>2, <2>1 DEF Move, Appending
    <3>2. Cardinality(Appending') = Cardinality(Appending) + 1
      BY <3>1, AppendingFinite, FS_AddElement
    <3>3. listLen' = listLen /\ listLen + Cardinality(Appending) < MaxItems
      BY <1>2, <2>1 DEF Move
    <3> QED BY <1>0, <3>2, <3>3, AppendingFinite DEF RoomLeft
  <2>2. CASE pc[t] = "aGot"
    <3>1. Appending' = Appending \ {t} /\ t \in Appending /\ listLen' = listLen + 1
      BY <1>0, <1>2, <2>2 DEF Move, Appending
    <3>2. Cardinality(Appending') = Cardinality(Appending) - 1
      BY <3>1, AppendingFinite, FS_RemoveElement
    <3> QED BY <1>0, <3>1, <3>2, AppendingFinite DEF RoomLeft
  <2>3. CASE ~(pc[t] = "out" /\ l \in {"aP", "aGot"}) /\ pc[t] # "aGot"
    <3>1. Appending' = Appending
      BY <1>0, <1>2, <2>3 DEF Move, Appending
    <3>2. listLen' \in {listLen, listLen - 1}
      BY <1>2, <2>3 DEF Move
    <3> QED BY <1>0, <3>1, <3>2, AppendingFinite DEF RoomLeft
  <2> QED BY <2>1, <2>2, <2>3
<1> QED BY <1>1, <1>2, StepMoves

\* The inductive invariant of the synchronised list.
THEOREM ListLockInvariant == Spec => [](QueuesInv /\ RoomLeft)
<1>1. Init => QueuesInv /\ RoomLeft
  <2>1. ASSUME Init PROVE RoomLeft
    <3>1. Appending = {} /\ listLen = 0
      BY <2>1 DEF Init, Appending
    <3> QED BY <3>1, FS_EmptySet, MaxItemsAssumption DEF RoomLeft
  <2> QED BY <2>1, QueuesInit
<1>2. QueuesInv /\ RoomLeft /\ [Next]_vars => (QueuesInv /\ RoomLeft)'
  BY QueuesNext, RoomNext
<1> QED BY <1>1, <1>2, PTL DEF Spec

\* Append, Remove, Wait and Mapcar keep the list to one thread at a time, also
\* when threads come back from Wait, and the queue of listEmpty holds exactly
\* the threads asleep in Wait.
THEOREM SynchListInvariant == Spec => []SynchListInv
<1>1. QueuesInv /\ RoomLeft => SynchListInv
  <2> SUFFICES ASSUME QueuesInv, RoomLeft PROVE SynchListInv
    OBVIOUS
  <2>1. listLen \in 0..MaxItems
    BY AppendingFinite, MaxItemsAssumption DEF QueuesInv, TypesOK, RoomLeft
  <2>2. TypeOK
    BY <2>1 DEF QueuesInv, TypesOK, TypeOK
  <2>3. ListExclusion
    BY DEF QueuesInv, OneHolds, Holding, ListExclusion
  <2>4. SleepersQueued
    <3>1. OnQueue(condQueue[listEmpty]) \subseteq Thread
      BY FieldsAssumption DEF QueuesInv, TypesOK, CondTypeOK, OnQueue
    <3>2. OnQueue(condQueue[listEmpty]) = {t \in Thread : pc[t] = "wWoken" /\ status[t] = "BLOCKED"}
      BY <3>1 DEF QueuesInv, CondQueueOK, InWait
    <3> QED BY <3>2 DEF QueuesInv, CondQueueOK, SleepersQueued, OnQueue, QueuedOnce
  <2> QED BY <2>2, <2>3, <2>4 DEF SynchListInv
<1> QED BY <1>1, ListLockInvariant, PTL

\* SynchList is a semaphore that counts its items: each step of Append and
\* Remove is a step of the abstract semaphore or leaves it alone, with and
\* without time slices.
THEOREM ListCountsItems == Spec => CountsItems
<1>1. Init => Abs!Init
  BY DEF Init, Abs!Init, InRemove
<1>2. QueuesInv /\ [Next]_vars => [Abs!Next]_(Abs!vars)
  <2> SUFFICES ASSUME QueuesInv, [Next]_vars PROVE [Abs!Next]_(Abs!vars)
    OBVIOUS
  <2>0. pc \in [Thread -> Label] /\ listLen \in Nat
    BY DEF QueuesInv, TypesOK
  <2>1. CASE pc' = pc /\ listLen' = listLen
    BY <2>1 DEF Abs!vars, InRemove
  <2>2. ASSUME NEW t \in Thread, NEW l \in Label, Move(t, l) PROVE [Abs!Next]_(Abs!vars)
    <3>1. CASE pc[t] = "out" /\ l \in {"rP", "rGot"}
      <4>1. t \notin InRemove /\ InRemove' = InRemove \cup {t} /\ listLen' = listLen
        BY <2>0, <2>2, <3>1 DEF Move, InRemove
      <4> QED BY <4>1 DEF Abs!Next, Abs!EnterP
    <3>2. CASE pc[t] = "rGot" /\ l = "gave"
      <4>1. /\ t \in InRemove /\ InRemove' = InRemove \ {t}
            /\ listLen > 0 /\ listLen' = listLen - 1
        BY <2>0, <2>2, <3>2 DEF Move, InRemove
      <4> QED BY <4>1 DEF Abs!Next, Abs!LeaveP
    <3>3. CASE pc[t] = "aGot"
      <4>1. InRemove' = InRemove /\ listLen' = listLen + 1
        BY <2>0, <2>2, <3>3 DEF Move, InRemove
      <4> QED BY <4>1 DEF Abs!Next, Abs!V
    <3>4. CASE /\ ~(pc[t] = "out" /\ l \in {"rP", "rGot"})
               /\ ~(pc[t] = "rGot" /\ l = "gave")
               /\ pc[t] # "aGot"
      <4>1. InRemove' = InRemove /\ listLen' = listLen
        BY <2>0, <2>2, <3>4 DEF Move, InRemove
      <4> QED BY <4>1 DEF Abs!vars
    <3> QED BY <3>1, <3>2, <3>3, <3>4
  <2> QED BY <2>1, <2>2, StepMoves
<1> QED BY <1>1, <1>2, ListLockInvariant, PTL DEF Spec, CountsItems, Abs!Safety

-----------------------------------------------------------------------------
(***************************************************************************)
(* Without the timer no signal is lost: the V in Wait and the sleep that   *)
(* follows it are one step for everybody else, so a thread goes to sleep   *)
(* only on an empty list.                                                  *)
(***************************************************************************)
SleepsOnEmpty ==
    \A t \in Thread : pc[t] = "wGave" => t = currentThread /\ listLen = 0

NoTimerInv == ~randomYield => SleepsOnEmpty /\ NoLostSignal

LEMMA LookersFinite == IsFiniteSet(AboutToLook) /\ Cardinality(AboutToLook) \in Nat
<1>1. AboutToLook \in SUBSET Thread
  BY DEF AboutToLook
<1> QED BY <1>1, ThreadFinite, FS_Subset, FS_CardinalityType

LEMMA NoTimerNext == QueuesInv /\ NoTimerInv /\ [Next]_vars => NoTimerInv'
<1> SUFFICES ASSUME QueuesInv, NoTimerInv, [Next]_vars, ~randomYield'
             PROVE  SleepsOnEmpty' /\ NoLostSignal'
  BY DEF NoTimerInv
<1>0. /\ SchedOK /\ SemTypeOK /\ pc \in [Thread -> Label] /\ currentThread \in Thread
      /\ listLen \in Nat /\ lock \in Sem /\ listEmpty \in Cond
      /\ condQueue \in [Cond -> Seq(Thread)] /\ queue[lock] \in Seq(Thread)
      /\ condQueue[listEmpty] \in Seq(Thread)
      /\ OnQueue(queue[lock]) \subseteq Thread
      /\ LockQueueOK /\ CondQueueOK
  BY FieldsAssumption, LockAssumption
     DEF QueuesInv, TypesOK, SchedOK, SchedTypeOK, SemTypeOK, CondTypeOK, OnQueue
<1>a. randomYield' = randomYield
  BY DEF Next, Step, CallAppend, CallRemove, CallMapcar, ResumeAppend, ResumeRemove, ResumeMapcar,
         WaitAcquire, AcquireFor, Acquire, AppendItem, EndAppend, Release, RemoveItem, WaitRelease,
         AcquiredThenRelease, WaitForItem, WaitSleep, MapcarItems, EndRelease, RecordHolder,
         ForgetHolder, Yield, Preempt, lockVars, vars
<1>b. SleepsOnEmpty /\ NoLostSignal
  BY <1>a DEF NoTimerInv
<1>g. IsFiniteSet(AboutToLook') /\ Cardinality(AboutToLook') \in Nat
  <2>1. AboutToLook' \in SUBSET Thread
    BY DEF AboutToLook
  <2> QED BY <2>1, ThreadFinite, FS_Subset, FS_CardinalityType
\* An empty list, or more threads that will look at it.
<1>c. ASSUME listLen' = 0 PROVE NoLostSignal'
  BY <1>c, <1>g DEF NoLostSignal
<1>d. ASSUME listLen' = listLen, condQueue' = condQueue, AboutToLook \subseteq AboutToLook'
      PROVE  NoLostSignal'
  <2>1. Cardinality(AboutToLook) <= Cardinality(AboutToLook')
    BY <1>d, <1>g, FS_Subset
  <2> QED BY <1>0, <1>b, <1>d, <1>g, <2>1, LookersFinite DEF NoLostSignal
<1>e. ASSUME NEW t \in Thread, t = currentThread, NEW l, pc' = [pc EXCEPT ![t] = l], l # "wGave"
      PROVE  SleepsOnEmpty'
  BY <1>0, <1>b, <1>e DEF SleepsOnEmpty
\* V wakes a thread in P and leaves those in Wait as they are.
<1>f. ASSUME V(lock)
      PROVE  /\ currentThread' = currentThread
             /\ \A u \in Thread : pc[u] = "wWoken" => (status'[u] = "BLOCKED" <=> status[u] = "BLOCKED")
  <2>1. queue[lock] # <<>> => /\ Head(queue[lock]) \in Thread
                              /\ status[Head(queue[lock])] = "BLOCKED"
                              /\ pc[Head(queue[lock])] # "wWoken"
    BY <1>0, LeaveQueue DEF LockQueueOK, InP
  <2> QED BY <1>0, <1>f, <2>1, VOutcome
\* Acquire.
<1>1. ASSUME NEW t \in Thread, NEW from \in {"out", "aP", "rP", "mP", "wWoken"},
             NEW again \in {"aP", "rP", "mP"}, NEW taken \in {"aGot", "rGot", "mGot"},
             AcquireFor(t, from, again, taken),
             from \in {"rP", "wWoken"} => again = "rP" /\ taken = "rGot"
      PROVE  SleepsOnEmpty' /\ NoLostSignal'
  <2>1. /\ currentThread = t /\ status[t] = "RUNNING" /\ pc[t] = from
        /\ P(lock, again, taken) /\ condQueue' = condQueue /\ listLen' = listLen
    BY <1>1 DEF AcquireFor, At, Running, Acquire
  <2>2. PICK l \in {again, taken} :
          /\ pc' = [pc EXCEPT ![t] = l]
          /\ \A u \in Thread : u # t => (status'[u] = "BLOCKED" <=> status[u] = "BLOCKED")
    BY <1>0, <2>1, POutcome DEF schedVars
  <2>3. AboutToLook \subseteq AboutToLook'
    BY <1>0, <1>1, <2>1, <2>2 DEF AboutToLook
  <2> QED BY <1>d, <1>e, <2>1, <2>2, <2>3
<1>2. ASSUME NEW t \in Thread,
             \/ CallAppend(t) \/ ResumeAppend(t) \/ CallRemove(t) \/ ResumeRemove(t)
             \/ WaitAcquire(t) \/ CallMapcar(t) \/ ResumeMapcar(t)
      PROVE  SleepsOnEmpty' /\ NoLostSignal'
  BY <1>1, <1>2 DEF CallAppend, ResumeAppend, CallRemove, ResumeRemove, WaitAcquire,
                    CallMapcar, ResumeMapcar
\* Append adds an item and a thread that will look, while one sleeps.
<1>3. ASSUME NEW t \in Thread, AppendItem(t) PROVE SleepsOnEmpty' /\ NoLostSignal'
  <2>1. /\ currentThread = t /\ pc[t] = "aGot" /\ pc' = [pc EXCEPT ![t] = "aSig"]
        /\ listLen' = listLen + 1 /\ Signal(listEmpty)
    BY <1>3 DEF AppendItem, At, Running, Goto
  <2>2. SleepsOnEmpty'
    BY <1>e, <2>1
  <2>3. CASE condQueue[listEmpty] = <<>>
    BY <2>1, <2>2, <2>3 DEF Signal, NoLostSignal
  <2>4. CASE condQueue[listEmpty] # <<>>
    <3> DEFINE h == Head(condQueue[listEmpty])
    <3>1. ReadyToRun(h) /\ h \in Thread /\ InWait(h)
      BY <1>0, <2>1, <2>4, LeaveQueue DEF CondQueueOK, Signal
    <3> HIDE DEF h
    <3>2. \A u \in Thread : status'[u] = "BLOCKED" <=> u # h /\ status[u] = "BLOCKED"
      BY <1>0, <3>1, ReadyToRunUnblocks
    <3>3. AboutToLook' = AboutToLook \cup {h} /\ h \notin AboutToLook
      BY <1>0, <2>1, <3>1, <3>2 DEF AboutToLook, InWait
    <3>4. Cardinality(AboutToLook') = Cardinality(AboutToLook) + 1
      BY <3>3, LookersFinite, FS_AddElement
    <3>5. listLen <= Cardinality(AboutToLook)
      BY <1>b, <2>4 DEF NoLostSignal
    <3>6. NoLostSignal'
      BY <1>0, <2>1, <3>4, <3>5, LookersFinite DEF NoLostSignal
    <3> QED BY <2>2, <3>6
  <2> QED BY <2>3, <2>4
\* Remove takes an item, and no longer looks.
<1>4. ASSUME NEW t \in Thread, RemoveItem(t) PROVE SleepsOnEmpty' /\ NoLostSignal'
  <2>1. /\ currentThread = t /\ pc[t] = "rGot" /\ pc' = [pc EXCEPT ![t] = "gave"]
        /\ listLen > 0 /\ listLen' = listLen - 1 /\ V(lock) /\ condQueue' = condQueue
    BY <1>4 DEF RemoveItem, AcquiredThenRelease, At, Running, Goto
  <2>2. AboutToLook' = AboutToLook \ {t} /\ t \in AboutToLook
    BY <1>0, <1>f, <2>1 DEF AboutToLook
  <2>3. Cardinality(AboutToLook') = Cardinality(AboutToLook) - 1
    BY <2>2, LookersFinite, FS_RemoveElement
  <2>4. NoLostSignal'
    BY <1>0, <1>b, <2>1, <2>3, LookersFinite DEF NoLostSignal
  <2> QED BY <1>e, <2>1, <2>4
<1>5. ASSUME NEW t \in Thread, WaitRelease(t) PROVE SleepsOnEmpty' /\ NoLostSignal'
  <2>1. /\ currentThread = t /\ pc[t] = "rGot" /\ pc' = [pc EXCEPT ![t] = "wGave"]
        /\ listLen = 0 /\ listLen' = listLen /\ V(lock)
    BY <1>5 DEF WaitRelease, AcquiredThenRelease, At, Running, Goto
  <2>2. SleepsOnEmpty'
    BY <1>0, <1>b, <1>f, <2>1 DEF SleepsOnEmpty
  <2> QED BY <1>c, <2>1, <2>2
\* The thread that goes to sleep has just seen an empty list.
<1>6. ASSUME NEW t \in Thread, WaitForItem(t) PROVE SleepsOnEmpty' /\ NoLostSignal'
  <2>1. /\ currentThread = t /\ pc[t] = "wGave" /\ pc' = [pc EXCEPT ![t] = "wWoken"]
        /\ listLen' = listLen
    BY <1>6 DEF WaitForItem, WaitSleep, At, Running, Goto
  <2>2. listLen = 0
    BY <1>b, <2>1 DEF SleepsOnEmpty
  <2> QED BY <1>c, <1>e, <2>1, <2>2
<1>7. ASSUME NEW t \in Thread, EndAppend(t) \/ MapcarItems(t) \/ EndRelease(t)
      PROVE  SleepsOnEmpty' /\ NoLostSignal'
  <2>1. /\ currentThread = t /\ pc[t] \in {"aSig", "mGot", "gave"}
        /\ listLen' = listLen /\ condQueue' = condQueue
    BY <1>7 DEF EndAppend, MapcarItems, EndRelease, At, Running
  <2>2. PICK l \in {"gave", "out"} : pc' = [pc EXCEPT ![t] = l]
    BY <1>7, <2>1 DEF EndAppend, MapcarItems, EndRelease, AcquiredThenRelease, Release, Goto
  <2>3. V(lock) \/ UNCHANGED schedVars
    BY <1>7 DEF EndAppend, MapcarItems, EndRelease, AcquiredThenRelease, Release
  <2>4. AboutToLook \subseteq AboutToLook'
    BY <1>0, <1>f, <2>1, <2>2, <2>3 DEF AboutToLook, schedVars
  <2> QED BY <1>d, <1>e, <2>1, <2>2, <2>4
<1>8. CASE Yield
  <2>1. /\ pc[currentThread] = "out" /\ status[currentThread] = "RUNNING" /\ YieldCPU
        /\ UNCHANGED <<pc, condQueue, listLen>>
    BY <1>8 DEF Yield, YieldAt, Running
  <2>2. AboutToLook' = AboutToLook
    BY <1>0, <2>1, SwitchBlocksNone DEF AboutToLook
  <2>3. SleepsOnEmpty'
    BY <1>b, <2>1 DEF SleepsOnEmpty
  <2> QED BY <1>d, <2>1, <2>2, <2>3
<1>9. CASE Preempt \/ UNCHANGED vars
  <2>1. UNCHANGED vars
    BY <1>9, <1>a DEF Preempt, TimeSlice
  <2> QED BY <1>b, <2>1 DEF vars, schedVars, SleepsOnEmpty, NoLostSignal, AboutToLook
<1> QED BY <1>2, <1>3, <1>4, <1>5, <1>6, <1>7, <1>8, <1>9 DEF Next, Step

\* Without the timer Append's signal is never lost: while a thread sleeps on
\* listEmpty, every item on the list has a thread on its way to take it.  (With
\* time slices this fails, as run SynchListLost shows.)
THEOREM SignalNotLostWithoutTimer == Spec => [](~randomYield => NoLostSignal)
<1>1. Init => NoTimerInv
  <2> SUFFICES ASSUME Init PROVE SleepsOnEmpty /\ NoLostSignal
    BY DEF NoTimerInv
  <2>1. condQueue[listEmpty] = <<>> /\ \A t \in Thread : pc[t] = "out"
    BY FieldsAssumption DEF Init, CondInit
  <2> QED BY <2>1 DEF SleepsOnEmpty, NoLostSignal
<1>2. QueuesInv /\ NoTimerInv /\ [Next]_vars => NoTimerInv'
  BY NoTimerNext
<1>3. NoTimerInv => (~randomYield => NoLostSignal)
  BY DEF NoTimerInv
<1> QED BY <1>1, <1>2, <1>3, ListLockInvariant, PTL DEF Spec

-----------------------------------------------------------------------------
(***************************************************************************)
(* The console.  The buffer of one character and the two semaphores lose   *)
(* and repeat nothing between the keyboard and the display.                *)
(***************************************************************************)
\* ConsoleTest has one thread, c; Char is a set of bytes that are not EOF.
EchoTypeOK(c, Char) ==
    /\ typed \in Seq(Char) /\ keyboard \in Seq(Char) /\ display \in Seq(Char)
    /\ incoming \in Char \cup {EOF}
    /\ readAvail \in Nat /\ writeDone \in Nat
    /\ conPc \in [{c} -> {"read", "get", "put", "written", "halt"}]
    /\ conCh \in [{c} -> Char \cup {EOF}]

\* A character in the buffer is announced once: by a unit of readAvail, or to
\* the thread that has taken it.
CharAnnounced(c) ==
    /\ incoming = EOF => readAvail = 0 /\ conPc[c] # "get"
    /\ incoming # EOF => \/ readAvail = 1 /\ conPc[c] # "get"
                         \/ readAvail = 0 /\ conPc[c] = "get"

\* A write has one interrupt or one unit of writeDone, until its thread has
\* waited for it.
WriteOwed(c) ==
    /\ conPc[c] \in {"read", "get", "put"} => ~putBusy /\ ~writeInt /\ writeDone = 0
    /\ conPc[c] = "written" => \/ putBusy /\ writeInt /\ writeDone = 0
                               \/ ~putBusy /\ ~writeInt /\ writeDone = 1

\* What the thread, the buffer and the keyboard hold of the input.
InHand(c) == One(conPc[c] = "put", conCh[c])
InBufferChar == One(incoming # EOF, incoming)

Echo(c, Char) ==
    /\ conPc[c] = "put" => conCh[c] \in Char
    /\ typed = display \o InHand(c) \o InBufferChar \o keyboard

EchoInv(c, Char) == EchoTypeOK(c, Char) /\ CharAnnounced(c) /\ WriteOwed(c) /\ Echo(c, Char)

\* A sequence moves from one place of a concatenation to the next.
LEMMA ShiftLeft ==
    ASSUME NEW S, NEW s \in Seq(S), NEW t \in Seq(S), NEW e \in S
    PROVE  /\ s \o <<>> \o <<e>> \o t = s \o <<e>> \o <<>> \o t
           /\ Append(s, e) = s \o <<e>> \o <<>>
           /\ t # <<>> => s \o <<>> \o t = s \o <<Head(t)>> \o Tail(t)
<1>1. <<e>> \in Seq(S) /\ s \o <<e>> \in Seq(S)
  BY ConcatProperties
<1>2. s \o <<>> = s /\ (s \o <<e>>) \o <<>> = s \o <<e>>
  BY <1>1, ConcatEmptySeq
<1>3. Append(s, e) = s \o <<e>>
  BY AppendIsConcat
<1>4. ASSUME t # <<>> PROVE s \o t = s \o <<Head(t)>> \o Tail(t)
  <2>1. Head(t) \in S /\ Tail(t) \in Seq(S) /\ <<Head(t)>> \in Seq(S)
    BY <1>4, HeadTailProperties
  <2>2. t = <<Head(t)>> \o Tail(t)
    BY <1>4, <2>1
  <2>3. s \o (<<Head(t)>> \o Tail(t)) = s \o <<Head(t)>> \o Tail(t)
    BY <2>1, ConcatAssociative
  <2> QED BY <2>2, <2>3
<1> QED BY <1>2, <1>3, <1>4

LEMMA EchoInit ==
    ASSUME NEW c, Client = {c}, NEW Char, Inputs \subseteq Seq(Char), ConsoleInit
    PROVE  EchoInv(c, Char)
<1> USE DEF ConsoleInit
<1>1. EchoTypeOK(c, Char)
  BY DEF EchoTypeOK
<1>2. CharAnnounced(c) /\ WriteOwed(c)
  BY DEF CharAnnounced, WriteOwed
<1>3. InHand(c) = <<>> /\ InBufferChar = <<>>
  BY DEF InHand, InBufferChar, One
<1>4. typed = <<>> \o <<>> \o <<>> \o typed
  <2>1. <<>> \in Seq(Char) /\ typed \in Seq(Char)
    BY EmptySeq
  <2> QED BY <2>1, ConcatEmptySeq
<1>5. Echo(c, Char)
  BY <1>3, <1>4 DEF Echo
<1> QED BY <1>1, <1>2, <1>5 DEF EchoInv

LEMMA EchoNext ==
    ASSUME NEW c, Client = {c}, NEW Char, EOF \notin Char,
           EchoInv(c, Char), [ConsoleNext]_conVars
    PROVE  EchoInv(c, Char)'
<1>0. EchoTypeOK(c, Char) /\ CharAnnounced(c) /\ WriteOwed(c) /\ Echo(c, Char)
  BY DEF EchoInv
<1>a. /\ display \in Seq(Char) /\ keyboard \in Seq(Char) /\ InHand(c) \in Seq(Char)
      /\ InBufferChar \in Seq(Char) /\ display \o InHand(c) \in Seq(Char)
  <2>1. display \in Seq(Char) /\ keyboard \in Seq(Char)
    BY <1>0 DEF EchoTypeOK
  <2>2. \A x \in Char : <<x>> \in Seq(Char)
    OBVIOUS
  <2>3. InHand(c) \in Seq(Char)
    BY <1>0, <2>2 DEF Echo, InHand, One
  <2>4. InBufferChar \in Seq(Char)
    BY <1>0, <2>2 DEF EchoTypeOK, InBufferChar, One
  <2> QED BY <2>1, <2>3, <2>4, ConcatProperties
\* The poll takes the next character into the empty buffer.
<1>1. CASE CheckCharAvail
  <2>1. /\ incoming = EOF /\ keyboard # <<>> /\ incoming' = Head(keyboard)
        /\ keyboard' = Tail(keyboard) /\ readAvail' = readAvail + 1
        /\ UNCHANGED <<putBusy, writeInt, writeDone, conPc, conCh, typed, display>>
    BY <1>1 DEF CheckCharAvail
  <2>2. Head(keyboard) \in Char /\ Tail(keyboard) \in Seq(Char) /\ Head(keyboard) # EOF
    BY <1>a, <2>1, HeadTailProperties
  <2>3. EchoTypeOK(c, Char)'
    BY <1>0, <2>1, <2>2 DEF EchoTypeOK
  <2>4. CharAnnounced(c)' /\ WriteOwed(c)'
    BY <1>0, <2>1, <2>2 DEF EchoTypeOK, CharAnnounced, WriteOwed
  <2>5. /\ InHand(c)' = InHand(c) /\ InBufferChar = <<>>
        /\ InBufferChar' = <<Head(keyboard)>>
    BY <2>1, <2>2 DEF InHand, InBufferChar, One
  <2>6. (display \o InHand(c)) \o <<>> \o keyboard
          = (display \o InHand(c)) \o <<Head(keyboard)>> \o Tail(keyboard)
    BY <1>a, <2>1, <2>2, ShiftLeft
  <2>7. Echo(c, Char)'
    BY <1>0, <2>1, <2>5, <2>6 DEF Echo
  <2> QED BY <2>3, <2>4, <2>7 DEF EchoInv
<1>2. CASE WriteDone
  <2>1. /\ writeInt /\ writeInt' = FALSE /\ putBusy' = FALSE /\ writeDone' = writeDone + 1
        /\ conPc[c] # "halt"
        /\ UNCHANGED <<keyboard, incoming, readAvail, conPc, conCh, typed, display>>
    BY <1>2 DEF WriteDone, ConsoleUp
  <2>2. EchoTypeOK(c, Char)'
    BY <1>0, <2>1 DEF EchoTypeOK
  <2>3. CharAnnounced(c)' /\ WriteOwed(c)'
    BY <1>0, <2>1 DEF EchoTypeOK, CharAnnounced, WriteOwed
  <2>4. Echo(c, Char)'
    BY <1>0, <2>1 DEF Echo, InHand, InBufferChar
  <2> QED BY <2>2, <2>3, <2>4 DEF EchoInv
<1>3. CASE WaitForChar(c)
  <2>1. /\ conPc[c] = "read" /\ readAvail > 0 /\ readAvail' = readAvail - 1
        /\ conPc' = [conPc EXCEPT ![c] = "get"] /\ conPc'[c] = "get"
        /\ UNCHANGED <<keyboard, incoming, putBusy, writeInt, writeDone, conCh, typed, display>>
    BY <1>0, <1>3 DEF WaitForChar, EchoTypeOK
  <2>2. EchoTypeOK(c, Char)'
    BY <1>0, <2>1 DEF EchoTypeOK, CharAnnounced
  <2>3. CharAnnounced(c)' /\ WriteOwed(c)'
    BY <1>0, <2>1 DEF EchoTypeOK, CharAnnounced, WriteOwed
  <2>4. Echo(c, Char)'
    BY <1>0, <2>1 DEF Echo, InHand, InBufferChar, One
  <2> QED BY <2>2, <2>3, <2>4 DEF EchoInv
\* The character goes from the buffer into the hands of the thread.
<1>4. CASE GetChar(c)
  <2>1. /\ conPc[c] = "get" /\ conCh' = [conCh EXCEPT ![c] = incoming] /\ incoming' = EOF
        /\ conPc' = [conPc EXCEPT ![c] = "put"] /\ conPc'[c] = "put" /\ conCh'[c] = incoming
        /\ UNCHANGED <<keyboard, putBusy, writeInt, readAvail, writeDone, typed, display>>
    BY <1>0, <1>4 DEF GetChar, EchoTypeOK
  <2>2. EchoTypeOK(c, Char)'
    BY <1>0, <2>1 DEF EchoTypeOK
  <2>3. incoming \in Char /\ readAvail = 0
    BY <1>0, <2>1 DEF EchoTypeOK, CharAnnounced
  <2>4. CharAnnounced(c)' /\ WriteOwed(c)'
    BY <1>0, <2>1, <2>3 DEF CharAnnounced, WriteOwed
  <2>5. /\ InHand(c) = <<>> /\ InBufferChar = <<incoming>>
        /\ InHand(c)' = <<incoming>> /\ InBufferChar' = <<>>
    BY <2>1, <2>3 DEF InHand, InBufferChar, One
  <2>6. display \o <<>> \o <<incoming>> \o keyboard = display \o <<incoming>> \o <<>> \o keyboard
    BY <1>a, <2>3, ShiftLeft
  <2>7. Echo(c, Char)'
    BY <1>0, <2>1, <2>3, <2>5, <2>6 DEF Echo
  <2> QED BY <2>2, <2>4, <2>7 DEF EchoInv
\* And from there to the display.
<1>5. CASE PutChar(c)
  <2>1. conPc[c] = "put" /\ ~putBusy
    BY <1>0, <1>5 DEF PutChar, WriteOwed
  <2>2. /\ display' = Append(display, conCh[c]) /\ putBusy' = TRUE /\ writeInt' = TRUE
        /\ conPc' = [conPc EXCEPT ![c] = "written"] /\ conPc'[c] = "written"
        /\ UNCHANGED <<keyboard, incoming, readAvail, writeDone, conCh, typed>>
    BY <1>0, <1>5, <2>1 DEF PutChar, EchoTypeOK
  <2>3. conCh[c] \in Char
    BY <1>0, <2>1 DEF Echo
  <2>4. Append(display, conCh[c]) \in Seq(Char)
    BY <1>a, <2>3, AppendProperties
  <2>5. EchoTypeOK(c, Char)'
    BY <1>0, <2>2, <2>4 DEF EchoTypeOK
  <2>6. CharAnnounced(c)' /\ WriteOwed(c)'
    BY <1>0, <2>1, <2>2 DEF CharAnnounced, WriteOwed
  <2>7. /\ InHand(c) = <<conCh[c]>> /\ InHand(c)' = <<>> /\ InBufferChar' = InBufferChar
    BY <2>1, <2>2 DEF InHand, InBufferChar, One
  <2>8. Append(display, conCh[c]) \o <<>> = display \o <<conCh[c]>>
    <3>1. Append(display, conCh[c]) \o <<>> = Append(display, conCh[c])
      BY <2>4, ConcatEmptySeq
    <3> QED BY <1>a, <2>3, <3>1, AppendIsConcat
  <2>9. Echo(c, Char)'
    BY <1>0, <2>2, <2>7, <2>8 DEF Echo
  <2> QED BY <2>5, <2>6, <2>9 DEF EchoInv
<1>6. CASE WaitWritten(c)
  <2>1. /\ conPc[c] = "written" /\ writeDone > 0 /\ writeDone' = writeDone - 1
        /\ conPc' \in [{c} -> {"read", "get", "put", "written", "halt"}]
        /\ conPc'[c] \in {"read", "halt"}
        /\ UNCHANGED <<keyboard, incoming, putBusy, writeInt, readAvail, conCh, typed, display>>
    BY <1>0, <1>6 DEF WaitWritten, EchoTypeOK
  <2>2. writeDone = 1 /\ ~putBusy /\ ~writeInt
    BY <1>0, <2>1 DEF WriteOwed
  <2>3. EchoTypeOK(c, Char)'
    BY <1>0, <2>1, <2>2 DEF EchoTypeOK
  <2>4. CharAnnounced(c)' /\ WriteOwed(c)'
    BY <1>0, <2>1, <2>2 DEF CharAnnounced, WriteOwed
  <2>5. Echo(c, Char)'
    BY <1>0, <2>1 DEF Echo, InHand, InBufferChar, One
  <2> QED BY <2>3, <2>4, <2>5 DEF EchoInv
<1>7. CASE UNCHANGED conVars
  BY <1>0, <1>7
     DEF conVars, EchoInv, EchoTypeOK, CharAnnounced, WriteOwed, Echo, InHand, InBufferChar
<1> QED
  BY <1>1, <1>2, <1>3, <1>4, <1>5, <1>6, <1>7 DEF ConsoleNext, ConsoleStep

\* Console::CheckCharAvail, GetChar and PutChar with ConsoleTest's one thread
\* lose and repeat no character, whatever is typed, as long as no typed byte
\* has the value EOF; and PutChar's assertion ~putBusy holds.
THEOREM EchoExactSafe ==
    ASSUME NEW c, Client = {c}, NEW Char, Inputs \subseteq Seq(Char), EOF \notin Char
    PROVE  ConsoleSpec => []EchoExact
<1>1. ConsoleInit => EchoInv(c, Char)
  BY EchoInit
<1>2. EchoInv(c, Char) /\ [ConsoleNext]_conVars => EchoInv(c, Char)'
  BY EchoNext
<1>3. EchoInv(c, Char) => EchoExact
  BY DEF EchoInv, WriteOwed, Echo, InHand, InBufferChar, EchoExact, PutWaitsForDevice
<1> QED BY <1>1, <1>2, <1>3, PTL DEF ConsoleSpec

-----------------------------------------------------------------------------
(***************************************************************************)
(* The post office.  Although the network device never sets sendBusy, a    *)
(* machine has at most one packet on its way out, whatever the network     *)
(* loses: the lock covers Network::Send and the wait for its interrupt.    *)
(* And messageAvailable counts the packet in the device's only buffer.     *)
(***************************************************************************)
PostTypeOK ==
    /\ phase \in [Mailer -> {"call", "send", "sent"}]
    /\ sendLock \in [Node -> Mailer \cup {Nobody}]
    /\ sendInt \in [Node -> Nat]
    /\ messageSent \in [Node -> Nat]
    /\ messageAvailable \in [Node -> Nat]
    /\ DOMAIN inbox = Node

\* A thread inside of PostOffice::Send holds the lock of its machine.
SenderHoldsLock ==
    \A m \in Mailer : phase[m] \in {"send", "sent"} => sendLock[Home[m]] = m

\* The thread that waits for the send interrupt, if there is one, accounts for
\* the only interrupt or unit of messageSent.
SendsOwed ==
    \A n \in Node :
        /\ (\E m \in Mailer : Home[m] = n /\ phase[m] = "sent") => sendInt[n] + messageSent[n] = 1
        /\ (\A m \in Mailer : Home[m] = n => phase[m] # "sent") => sendInt[n] + messageSent[n] = 0

\* The buffer holds at most one packet.
OnePacket == \A n \in Node : inbox[n] = <<>> \/ Len(inbox[n]) = 1

PostInv == PostTypeOK /\ SenderHoldsLock /\ SendsOwed /\ PacketCounted /\ OnePacket

-----------------------------------------------------------------------------
LEMMA PostInvInit == MailInit => PostInv
<1> SUFFICES ASSUME MailInit PROVE PostInv
  OBVIOUS
<1> USE MailAssumption DEF MailInit
<1>1. PostTypeOK
  BY DEF PostTypeOK
<1>2. SenderHoldsLock /\ SendsOwed
  BY DEF SenderHoldsLock, SendsOwed
<1>3. PacketCounted /\ OnePacket
  BY DEF PacketCounted, OnePacket
<1> QED BY <1>1, <1>2, <1>3 DEF PostInv

LEMMA PostInvNext == PostInv /\ [MailNext]_mailVars => PostInv'
<1> SUFFICES ASSUME PostInv, [MailNext]_mailVars PROVE PostInv'
  OBVIOUS
<1> USE MailAssumption
<1>0. PostTypeOK /\ SenderHoldsLock /\ SendsOwed /\ PacketCounted /\ OnePacket
  BY DEF PostInv
\* Steps that leave the incoming side alone.
<1>1. ASSUME UNCHANGED <<inbox, messageAvailable>>
      PROVE  PacketCounted' /\ OnePacket'
  BY <1>0, <1>1 DEF PacketCounted, OnePacket
<1>2. ASSUME NEW m \in Mailer, AcquireSendLock(m) PROVE PostInv'
  <2>1. /\ phase[m] = "call" /\ sendLock[Home[m]] = Nobody
        /\ sendLock' = [sendLock EXCEPT ![Home[m]] = m] /\ phase' = [phase EXCEPT ![m] = "send"]
        /\ UNCHANGED <<inbox, sendInt, messageAvailable, messageSent>>
    BY <1>2 DEF AcquireSendLock
  <2>2. PostTypeOK'
    BY <1>0, <2>1 DEF PostTypeOK
  <2>3. SenderHoldsLock'
    BY <1>0, <2>1 DEF PostTypeOK, SenderHoldsLock
  <2>4. \A k \in Mailer : phase'[k] = "sent" <=> phase[k] = "sent"
    BY <1>0, <2>1 DEF PostTypeOK
  <2>5. SendsOwed'
    BY <1>0, <2>1, <2>4 DEF SendsOwed
  <2> QED BY <1>1, <2>1, <2>2, <2>3, <2>5 DEF PostInv
<1>3. ASSUME NEW m \in Mailer, NetworkSend(m) PROVE PostInv'
  <2>1. /\ phase[m] = "send" /\ sendInt' = [sendInt EXCEPT ![Home[m]] = @ + 1]
        /\ phase' = [phase EXCEPT ![m] = "sent"]
        /\ UNCHANGED <<inbox, messageAvailable, messageSent, sendLock>>
    BY <1>3 DEF NetworkSend
  <2>2. PostTypeOK'
    BY <1>0, <2>1 DEF PostTypeOK
  <2>3. SenderHoldsLock'
    BY <1>0, <2>1 DEF PostTypeOK, SenderHoldsLock
  <2>4. \A k \in Mailer : Home[k] = Home[m] => phase[k] # "sent"
    BY <1>0, <2>1 DEF SenderHoldsLock
  <2>5. SendsOwed'
    <3> SUFFICES ASSUME NEW n \in Node
                 PROVE  /\ (\E k \in Mailer : Home[k] = n /\ phase'[k] = "sent")
                              => sendInt'[n] + messageSent'[n] = 1
                        /\ (\A k \in Mailer : Home[k] = n => phase'[k] # "sent")
                              => sendInt'[n] + messageSent'[n] = 0
      BY DEF SendsOwed
    <3>1. CASE n = Home[m]
      <4>1. sendInt[n] + messageSent[n] = 0
        BY <1>0, <2>4, <3>1 DEF SendsOwed
      <4> QED BY <1>0, <2>1, <3>1, <4>1 DEF PostTypeOK
    <3>2. CASE n # Home[m]
      BY <1>0, <2>1, <3>2 DEF PostTypeOK, SendsOwed
    <3> QED BY <3>1, <3>2
  <2> QED BY <1>1, <2>1, <2>2, <2>3, <2>5 DEF PostInv
<1>4. ASSUME NEW m \in Mailer, EndSend(m) PROVE PostInv'
  <2>1. /\ phase[m] = "sent" /\ messageSent[Home[m]] > 0
        /\ messageSent' = [messageSent EXCEPT ![Home[m]] = @ - 1]
        /\ sendLock' = [sendLock EXCEPT ![Home[m]] = Nobody]
        /\ phase' = [phase EXCEPT ![m] = "call"]
        /\ UNCHANGED <<inbox, messageAvailable, sendInt>>
    BY <1>4 DEF EndSend
  <2>2. PostTypeOK'
    BY <1>0, <2>1 DEF PostTypeOK
  \* No other thread of the machine is inside of Send.
  <2>3. \A k \in Mailer : Home[k] = Home[m] /\ k # m => phase[k] \notin {"send", "sent"}
    BY <1>0, <2>1 DEF SenderHoldsLock
  <2>4. SenderHoldsLock'
    <3> SUFFICES ASSUME NEW k \in Mailer, phase'[k] \in {"send", "sent"}
                 PROVE  sendLock'[Home[k]] = k
      BY DEF SenderHoldsLock
    <3>1. k # m /\ phase[k] \in {"send", "sent"}
      BY <1>0, <2>1 DEF PostTypeOK
    <3>2. Home[k] # Home[m]
      BY <2>3, <3>1
    <3> QED BY <1>0, <2>1, <3>1, <3>2 DEF PostTypeOK, SenderHoldsLock
  <2>5. SendsOwed'
    <3> SUFFICES ASSUME NEW n \in Node
                 PROVE  /\ (\E k \in Mailer : Home[k] = n /\ phase'[k] = "sent")
                              => sendInt'[n] + messageSent'[n] = 1
                        /\ (\A k \in Mailer : Home[k] = n => phase'[k] # "sent")
                              => sendInt'[n] + messageSent'[n] = 0
      BY DEF SendsOwed
    <3>1. CASE n = Home[m]
      <4>1. sendInt[n] + messageSent[n] = 1
        BY <1>0, <2>1, <3>1 DEF SendsOwed
      <4>2. sendInt'[n] + messageSent'[n] = 0
        BY <1>0, <2>1, <3>1, <4>1 DEF PostTypeOK
      <4>3. \A k \in Mailer : Home[k] = n => phase'[k] # "sent"
        BY <1>0, <2>1, <2>3, <3>1 DEF PostTypeOK
      <4> QED BY <4>2, <4>3
    <3>2. CASE n # Home[m]
      BY <1>0, <2>1, <3>2 DEF PostTypeOK, SendsOwed
    <3> QED BY <3>1, <3>2
  <2> QED BY <1>1, <2>1, <2>2, <2>4, <2>5 DEF PostInv
\* The unit moves from the interrupt to the semaphore.
<1>5. ASSUME NEW n \in Node, SendDone(n) PROVE PostInv'
  <2>1. /\ sendInt[n] > 0 /\ sendInt' = [sendInt EXCEPT ![n] = @ - 1]
        /\ messageSent' = [messageSent EXCEPT ![n] = @ + 1]
        /\ UNCHANGED <<phase, inbox, messageAvailable, sendLock>>
    BY <1>5 DEF SendDone
  <2>2. PostTypeOK'
    BY <1>0, <2>1 DEF PostTypeOK
  <2>3. SenderHoldsLock'
    BY <1>0, <2>1 DEF SenderHoldsLock
  <2>4. \A k \in Node : sendInt'[k] + messageSent'[k] = sendInt[k] + messageSent[k]
    BY <1>0, <2>1 DEF PostTypeOK
  <2>5. SendsOwed'
    BY <1>0, <2>1, <2>4 DEF SendsOwed
  <2> QED BY <1>1, <2>1, <2>2, <2>3, <2>5 DEF PostInv
\* Steps that leave the outgoing side alone.
<1>6. ASSUME UNCHANGED <<phase, sendLock, sendInt, messageSent>>
      PROVE  SenderHoldsLock' /\ SendsOwed'
  BY <1>0, <1>6 DEF SenderHoldsLock, SendsOwed
<1>7. ASSUME NEW n \in Node, CheckPktAvail(n) PROVE PostInv'
  <2>1. /\ inbox[n] = <<>> /\ inbox' = [inbox EXCEPT ![n] = <<Head(wire[n])>>]
        /\ messageAvailable' = [messageAvailable EXCEPT ![n] = @ + 1]
        /\ UNCHANGED <<phase, sendLock, sendInt, messageSent>>
    BY <1>7 DEF CheckPktAvail
  <2>2. PostTypeOK'
    BY <1>0, <2>1 DEF PostTypeOK
  <2>3. messageAvailable[n] = 0
    BY <1>0, <2>1 DEF PacketCounted
  <2>4. \A k \in Node : k # n => inbox'[k] = inbox[k] /\ messageAvailable'[k] = messageAvailable[k]
    BY <1>0, <2>1 DEF PostTypeOK
  <2>5. messageAvailable'[n] = 1 /\ inbox'[n] = <<Head(wire[n])>>
    BY <1>0, <2>1, <2>3 DEF PostTypeOK
  <2>6. Len(<<Head(wire[n])>>) = 1
    OBVIOUS
  <2>7. PacketCounted' /\ OnePacket'
    BY <1>0, <2>4, <2>5, <2>6 DEF PacketCounted, OnePacket
  <2> QED BY <1>6, <2>1, <2>2, <2>7 DEF PostInv
<1>8. ASSUME NEW n \in Node, PostalReceive(n) PROVE PostInv'
  <2>1. /\ messageAvailable[n] > 0
        /\ messageAvailable' = [messageAvailable EXCEPT ![n] = @ - 1]
        /\ inbox' = [inbox EXCEPT ![n] = <<>>]
        /\ UNCHANGED <<phase, sendLock, sendInt, messageSent>>
    BY <1>8 DEF PostalReceive, NetworkReceive
  <2>2. PostTypeOK'
    BY <1>0, <2>1 DEF PostTypeOK
  <2>3. messageAvailable[n] = 1
    <3>1. messageAvailable[n] = Len(inbox[n])
      BY <1>0 DEF PacketCounted
    <3>2. inbox[n] # <<>>
      BY <2>1, <3>1
    <3> QED BY <1>0, <3>1, <3>2 DEF OnePacket
  <2>4. \A k \in Node : k # n => inbox'[k] = inbox[k] /\ messageAvailable'[k] = messageAvailable[k]
    BY <1>0, <2>1 DEF PostTypeOK
  <2>5. messageAvailable'[n] = 0 /\ inbox'[n] = <<>>
    BY <1>0, <2>1, <2>3 DEF PostTypeOK
  <2>6. PacketCounted' /\ OnePacket'
    BY <1>0, <2>4, <2>5 DEF PacketCounted, OnePacket
  <2> QED BY <1>6, <2>1, <2>2, <2>6 DEF PostInv
\* Mail boxes, the end of a machine and stuttering concern neither side.
<1>9. ASSUME UNCHANGED <<phase, sendLock, sendInt, messageSent, inbox, messageAvailable>>
      PROVE  PostInv'
  BY <1>0, <1>1, <1>6, <1>9 DEF PostInv, PostTypeOK
<1>10. ASSUME NEW n \in Node, Put(n) PROVE PostInv'
  BY <1>9, <1>10 DEF Put
<1>11. ASSUME NEW m \in Mailer, Receive(m) \/ HaltMachine(m) PROVE PostInv'
  BY <1>9, <1>11 DEF Receive, HaltMachine
<1>12. CASE UNCHANGED mailVars
  BY <1>9, <1>12 DEF mailVars
<1> QED
  BY <1>2, <1>3, <1>4, <1>5, <1>7, <1>8, <1>10, <1>11, <1>12
     DEF MailNext, MailStep, Deliver

\* The inductive invariant of the post offices.
THEOREM PostInvariant == MailSpec => []PostInv
  BY PostInvInit, PostInvNext, PTL DEF MailSpec

\* PostOffice::Send has at most one packet of its machine on the way, and the
\* send interrupt belongs to the thread that holds sendLock.
THEOREM OneSendAtATimeSafe == MailSpec => []OneSendAtATime
<1>1. PostInv => OneSendAtATime
  <2> SUFFICES ASSUME PostInv, NEW n \in Node
               PROVE  LET sending == {m \in Mailer : Home[m] = n /\ phase[m] = "sent"}
                      IN  /\ sendInt[n] + messageSent[n] = (IF sending = {} THEN 0 ELSE 1)
                          /\ \A m \in sending : sendLock[n] = m
    BY DEF OneSendAtATime
  <2> DEFINE sending == {m \in Mailer : Home[m] = n /\ phase[m] = "sent"}
  <2>1. \A m \in sending : sendLock[n] = m
    BY DEF PostInv, SenderHoldsLock
  <2>2. sending # {} => sendInt[n] + messageSent[n] = 1
    BY DEF PostInv, SendsOwed
  <2>3. sending = {} => sendInt[n] + messageSent[n] = 0
    BY DEF PostInv, SendsOwed
  <2> QED BY <2>1, <2>2, <2>3
<1> QED BY <1>1, PostInvariant, PTL

\* The postal worker never takes an empty buffer of the network device for a
\* packet, nor leaves a packet unannounced.
THEOREM PacketCountedSafe == MailSpec => []PacketCounted
<1>1. PostInv => PacketCounted
  BY DEF PostInv
<1> QED BY <1>1, PostInvariant, PTL

-----------------------------------------------------------------------------
(***************************************************************************)
(* The order of the mail.  For each box, what was received, what lies in   *)
(* the box and what is still on the way to it make up what was posted.     *)
(* What ForBox computes is needed for sequences of every length: where a   *)
(* proof by induction is called for, the least counterexample is taken.    *)
(***************************************************************************)
\* Every set of natural numbers that has an element has a smallest one.
LEMMA Least ==
    ASSUME NEW S \in SUBSET Nat, S # {}
    PROVE  \E n \in S : \A m \in S : n <= m
<1> DEFINE R == OpToRel(<, Nat)
<1>1. IsWellFoundedOn(R, Nat)
  BY NatLessThanWellFounded
<1>2. \A a, b \in Nat : a < b => <<a, b>> \in R
  BY DEF OpToRel
<1> HIDE DEF R
<1>3. PICK n \in S : \A m \in S : <<m, n>> \notin R
  BY <1>1, WFMin
<1>4. \A m \in S : ~(m < n) /\ m \in Nat /\ n \in Nat
  BY <1>2, <1>3
<1>5. \A m \in S : n <= m
  BY <1>4
<1> QED BY <1>3, <1>5

\* f is the loop over the first n packets of s that picks those for box b.
PickStep(s, b, x, i) == IF s[i].box = b THEN Append(x, s[i]) ELSE x
Picks(f, s, b, n) == f = [i \in 0..n |-> IF i = 0 THEN <<>> ELSE PickStep(s, b, f[i - 1], i)]

\* Such a loop exists for every sequence ...
LEMMA PicksExists ==
    ASSUME NEW s, NEW b, NEW n \in Nat
    PROVE  \E f : Picks(f, s, b, n)
<1> DEFINE bad == {k \in Nat : ~ \E f : Picks(f, s, b, k)}
<1>1. ASSUME bad # {} PROVE FALSE
  <2>1. PICK k \in bad : \A m \in bad : k <= m
    BY <1>1, Least
  <2>2. k \in Nat /\ ~ \E f : Picks(f, s, b, k)
    OBVIOUS
  <2>3. CASE k = 0
    <3> DEFINE f == [i \in 0..0 |-> <<>>]
    <3>1. Picks(f, s, b, 0)
      BY DEF Picks
    <3> QED BY <2>2, <2>3, <3>1
  <2>4. CASE k # 0
    <3>1. k - 1 \in Nat /\ ~(k <= k - 1)
      BY <2>2, <2>4
    <3>2. k - 1 \notin bad
      BY <2>1, <3>1
    <3>3. PICK g : Picks(g, s, b, k - 1)
      BY <3>1, <3>2
    <3> DEFINE f == [i \in 0..k |-> IF i = k THEN PickStep(s, b, g[k - 1], k) ELSE g[i]]
    <3>4. ASSUME NEW i \in 0..k
          PROVE  f[i] = IF i = 0 THEN <<>> ELSE PickStep(s, b, f[i - 1], i)
      <4>1. CASE i = k
        <5>1. f[i] = PickStep(s, b, g[k - 1], k) /\ i # 0
          BY <2>4, <4>1
        <5>2. k - 1 \in 0..k /\ k - 1 # k
          BY <2>2, <2>4
        <5>3. f[i - 1] = g[k - 1]
          BY <4>1, <5>2
        <5> HIDE DEF f
        <5> QED BY <4>1, <5>1, <5>3
      <4>2. CASE i # k
        <5>1. i \in 0..k-1 /\ (i # 0 => i - 1 \in 0..k /\ i - 1 # k)
          BY <2>2, <4>2
        <5>2. f[i] = g[i] /\ (i # 0 => f[i - 1] = g[i - 1])
          BY <4>2, <5>1
        <5>3. g[i] = IF i = 0 THEN <<>> ELSE PickStep(s, b, g[i - 1], i)
          BY <3>3, <5>1 DEF Picks
        <5> HIDE DEF f
        <5> QED BY <5>2, <5>3
      <4> QED BY <4>1, <4>2
    <3>5. f = [i \in 0..k |-> f[i]]
      OBVIOUS
    <3> HIDE DEF f
    <3>6. Picks(f, s, b, k)
      BY <3>4, <3>5 DEF Picks
    <3> QED BY <2>2, <3>6
  <2> QED BY <2>3, <2>4
<1> QED BY <1>1

\* ... and ForBox is where it ends.
LEMMA ForBoxPicks ==
    ASSUME NEW s, NEW b, Len(s) \in Nat
    PROVE  \E f : Picks(f, s, b, Len(s)) /\ ForBox(s, b) = f[Len(s)]
<1> DEFINE body(w) == [i \in 0..Len(s) |-> IF i = 0 THEN <<>>
                         ELSE IF s[i].box = b THEN Append(w[i - 1], s[i]) ELSE w[i - 1]]
           pick == CHOOSE w : w = body(w)
<1>1. PICK f : Picks(f, s, b, Len(s))
  BY PicksExists
<1>2. f = body(f)
  BY <1>1 DEF Picks, PickStep
<1> HIDE DEF body
<1>3. pick = body(pick)
  BY <1>2
<1>4. Picks(pick, s, b, Len(s))
  <2> HIDE DEF pick
  <2> QED BY <1>3 DEF Picks, PickStep, body
<1>5. ForBox(s, b) = pick[Len(s)]
  BY DEF ForBox, body
<1> QED BY <1>4, <1>5

\* Append and concatenation.
AppendsBehind(a, x, e) == Append(a \o x, e) = a \o Append(x, e)
LEMMA AppendConcat ==
    ASSUME NEW S, NEW a \in Seq(S), NEW x \in Seq(S), NEW e \in S
    PROVE  AppendsBehind(a, x, e)
<1>0. <<e>> \in Seq(S)
  OBVIOUS
<1> PICK u \in Seq(S) : u = <<e>>
  BY <1>0
<1>1. a \o x \in Seq(S)
  BY ConcatProperties
<1>2. Append(a \o x, e) = (a \o x) \o u
  BY <1>1, AppendIsConcat
<1>3. Append(x, e) = x \o u
  BY AppendIsConcat
<1>4. (a \o x) \o u = a \o (x \o u)
  BY ConcatAssociative
<1> QED BY <1>2, <1>3, <1>4 DEF AppendsBehind

\* What comes before stays before.
PicksBehind(t, j, s, i, b, a, x) == PickStep(t, b, a \o x, j) = a \o PickStep(s, b, x, i)
LEMMA PickConcat ==
    ASSUME NEW S, NEW a \in Seq(S), NEW x \in Seq(S), NEW b, NEW s, NEW i, s[i] \in S,
           NEW t, NEW j, t[j] = s[i]
    PROVE  PicksBehind(t, j, s, i, b, a, x)
<1>1. AppendsBehind(a, x, s[i])
  BY AppendConcat
<1> QED BY <1>1 DEF AppendsBehind, PicksBehind, PickStep

\* One turn of the loop.
LEMMA PicksTurn ==
    ASSUME NEW f, NEW s, NEW b, NEW n \in Nat, Picks(f, s, b, n)
    PROVE  /\ f[0] = <<>>
           /\ \A i \in 1..n : f[i] = PickStep(s, b, f[i - 1], i) /\ i - 1 \in 0..n
<1>1. \A i \in 0..n : f[i] = IF i = 0 THEN <<>> ELSE PickStep(s, b, f[i - 1], i)
  BY DEF Picks
<1>2. 0 \in 0..n /\ \A i \in 1..n : i \in 0..n /\ i # 0 /\ i - 1 \in 0..n
  OBVIOUS
<1> QED BY <1>1, <1>2

LEMMA PicksType ==
    ASSUME NEW S, NEW s \in Seq(S), NEW b, NEW f, Picks(f, s, b, Len(s))
    PROVE  \A i \in 0..Len(s) : f[i] \in Seq(S)
<1> DEFINE bad == {i \in 0..Len(s) : f[i] \notin Seq(S)}
<1>0. Len(s) \in Nat /\ \A i \in 1..Len(s) : s[i] \in S
  OBVIOUS
<1>1. /\ f[0] = <<>>
      /\ \A i \in 1..Len(s) : f[i] = PickStep(s, b, f[i - 1], i) /\ i - 1 \in 0..Len(s)
  BY <1>0, PicksTurn
<1>2. ASSUME bad # {} PROVE FALSE
  <2>0. bad \in SUBSET Nat
    BY <1>0
  <2>1. PICK k \in bad : \A m \in bad : k <= m
    BY <1>2, <2>0, Least
  <2>2. k # 0
    <3>1. <<>> \in Seq(S)
      BY EmptySeq
    <3> QED BY <1>1, <3>1
  <2>3. k \in 1..Len(s) /\ k - 1 \in 0..Len(s) /\ ~(k <= k - 1)
    BY <1>0, <2>2
  <2>4. f[k - 1] \in Seq(S) /\ s[k] \in S
    BY <1>0, <2>1, <2>3
  <2>5. f[k] \in Seq(S)
    <3>1. Append(f[k - 1], s[k]) \in Seq(S)
      BY <2>4, AppendProperties
    <3>2. f[k] = PickStep(s, b, f[k - 1], k)
      BY <1>1, <2>3
    <3> QED BY <2>4, <3>1, <3>2 DEF PickStep
  <2> QED BY <2>5
<1> QED BY <1>2

LEMMA ForBoxType ==
    ASSUME NEW S, NEW s \in Seq(S), NEW b
    PROVE  ForBox(s, b) \in Seq(S)
<1>1. Len(s) \in Nat /\ Len(s) \in 0..Len(s)
  OBVIOUS
<1>2. PICK f : Picks(f, s, b, Len(s)) /\ ForBox(s, b) = f[Len(s)]
  BY <1>1, ForBoxPicks
<1> QED BY <1>1, <1>2, PicksType

LEMMA ForBoxEmpty ==
    ASSUME NEW b
    PROVE  ForBox(<<>>, b) = <<>>
<1>1. Len(<<>>) = 0
  OBVIOUS
<1>2. PICK f : Picks(f, <<>>, b, 0) /\ ForBox(<<>>, b) = f[0]
  BY <1>1, ForBoxPicks
<1> QED BY <1>2, PicksTurn

\* A packet at the end of the way ...
LEMMA ForBoxAppend ==
    ASSUME NEW S, NEW s \in Seq(S), NEW p \in S, NEW b
    PROVE  ForBox(Append(s, p), b) =
             IF p.box = b THEN Append(ForBox(s, b), p) ELSE ForBox(s, b)
<1> DEFINE t == Append(s, p)
           L == Len(s)
<1>0. /\ L \in Nat /\ Len(t) = L + 1 /\ t[L + 1] = p /\ \A i \in 1..L : t[i] = s[i]
      /\ L + 1 \in Nat /\ L + 1 \in 1..L+1 /\ (L + 1) - 1 = L /\ L \in 0..L
  OBVIOUS
<1>1. PICK f : Picks(f, s, b, L) /\ ForBox(s, b) = f[L]
  BY <1>0, ForBoxPicks
<1>2. PICK g : Picks(g, t, b, L + 1) /\ ForBox(t, b) = g[L + 1]
  BY <1>0, ForBoxPicks
<1> HIDE DEF t, L
<1>3. /\ f[0] = <<>>
      /\ \A i \in 1..L : f[i] = PickStep(s, b, f[i - 1], i) /\ i - 1 \in 0..L
  BY <1>0, <1>1, PicksTurn
<1>4. /\ g[0] = <<>>
      /\ \A i \in 1..L+1 : g[i] = PickStep(t, b, g[i - 1], i) /\ i - 1 \in 0..L+1
  BY <1>0, <1>2, PicksTurn
<1> DEFINE bad == {i \in 0..L : g[i] # f[i]}
<1>5. ASSUME bad # {} PROVE FALSE
  <2>0. bad \in SUBSET Nat
    BY <1>0
  <2>1. PICK k \in bad : \A m \in bad : k <= m
    BY <1>5, <2>0, Least
  <2>2. k # 0
    BY <1>3, <1>4
  <2>3. k \in 1..L /\ k \in 1..L+1 /\ k - 1 \in 0..L /\ ~(k <= k - 1)
    BY <1>0, <2>2
  <2>4. g[k - 1] = f[k - 1] /\ t[k] = s[k]
    BY <1>0, <2>1, <2>3
  <2>5. g[k] = PickStep(t, b, g[k - 1], k) /\ f[k] = PickStep(s, b, f[k - 1], k)
    BY <1>3, <1>4, <2>3
  <2>6. g[k] = f[k]
    BY <2>4, <2>5 DEF PickStep
  <2> QED BY <2>6
<1>6. g[L] = f[L]
  BY <1>0, <1>5
<1>7. g[L + 1] = PickStep(t, b, g[L], L + 1)
  BY <1>0, <1>4
<1>8. ForBox(t, b) = IF p.box = b THEN Append(ForBox(s, b), p) ELSE ForBox(s, b)
  BY <1>0, <1>1, <1>2, <1>6, <1>7 DEF PickStep
<1> QED BY <1>8 DEF t

\* ... and one at its beginning.
LEMMA ForBoxCons ==
    ASSUME NEW S, NEW s \in Seq(S), NEW p \in S, NEW b
    PROVE  ForBox(<<p>> \o s, b) =
             IF p.box = b THEN <<p>> \o ForBox(s, b) ELSE ForBox(s, b)
<1> DEFINE t == <<p>> \o s
           L == Len(s)
           pre == IF p.box = b THEN <<p>> ELSE <<>>
<1>0. /\ L \in Nat /\ Len(t) = L + 1 /\ t[1] = p
      /\ \A i \in 1..L : t[i + 1] = s[i] /\ s[i] \in S
      /\ L + 1 \in Nat /\ L + 1 \in 1..L+1 /\ L \in 0..L /\ 1 \in 1..L+1 /\ 1 - 1 = 0
      /\ pre \in Seq(S)
  <2>1. <<p>> \in Seq(S) /\ Len(<<p>>) = 1 /\ <<p>>[1] = p /\ <<>> \in Seq(S)
    OBVIOUS
  <2>2. /\ Len(t) = 1 + L
        /\ \A i \in 1..1+L : t[i] = IF i <= 1 THEN <<p>>[i] ELSE s[i - 1]
    BY <2>1, ConcatProperties
  <2>3. L \in Nat /\ \A i \in 1..L : s[i] \in S
    OBVIOUS
  <2> HIDE DEF t, L
  <2>4. ASSUME NEW i \in 1..L PROVE t[i + 1] = s[i]
    <3>1. i + 1 \in 1..1+L /\ ~(i + 1 <= 1) /\ (i + 1) - 1 = i
      BY <2>3
    <3> QED BY <2>2, <3>1
  <2>5. t[1] = p
    <3>1. 1 \in 1..1+L /\ 1 <= 1
      BY <2>3
    <3> QED BY <2>1, <2>2, <3>1
  <2>6. pre \in Seq(S)
    BY <2>1
  <2>7. Len(t) = L + 1 /\ L + 1 \in Nat /\ L + 1 \in 1..L+1 /\ L \in 0..L /\ 1 \in 1..L+1
    BY <2>2, <2>3
  <2> QED BY <2>3, <2>4, <2>5, <2>6, <2>7
<1>1. PICK f : Picks(f, s, b, L) /\ ForBox(s, b) = f[L]
  BY <1>0, ForBoxPicks
<1>2. PICK g : Picks(g, t, b, L + 1) /\ ForBox(t, b) = g[L + 1]
  BY <1>0, ForBoxPicks
<1>t. \A i \in 0..L : f[i] \in Seq(S)
  BY <1>1, PicksType
<1> HIDE DEF t, L
<1>3. /\ f[0] = <<>>
      /\ \A i \in 1..L : f[i] = PickStep(s, b, f[i - 1], i) /\ i - 1 \in 0..L
  BY <1>0, <1>1, PicksTurn
<1>4. /\ g[0] = <<>>
      /\ \A i \in 1..L+1 : g[i] = PickStep(t, b, g[i - 1], i) /\ i - 1 \in 0..L+1
  BY <1>0, <1>2, PicksTurn
<1>p. g[1] = pre
  <2>1. g[1] = PickStep(t, b, g[0], 1)
    BY <1>0, <1>4
  <2>2. Append(<<>>, p) = <<p>>
    OBVIOUS
  <2> QED BY <1>0, <1>4, <2>1, <2>2 DEF PickStep
<1> HIDE DEF pre
<1>e. pre \o <<>> = pre
  BY <1>0, ConcatEmptySeq
<1> DEFINE bad == {i \in 0..L : g[i + 1] # pre \o f[i]}
<1>5. ASSUME bad # {} PROVE FALSE
  <2>0. bad \in SUBSET Nat
    BY <1>0
  <2>1. PICK k \in bad : \A m \in bad : k <= m
    BY <1>5, <2>0, Least
  <2>2. k # 0
    <3>1. 0 + 1 = 1
      OBVIOUS
    <3>2. g[0 + 1] = pre \o f[0]
      BY <1>3, <1>p, <1>e, <3>1
    <3> QED BY <3>2
  <2>3. /\ k \in 1..L /\ k + 1 \in 1..L+1 /\ k - 1 \in 0..L /\ ~(k <= k - 1)
        /\ (k - 1) + 1 = k /\ (k + 1) - 1 = k
    BY <1>0, <2>2
  <2>4. g[k] = pre \o f[k - 1] /\ t[k + 1] = s[k]
    BY <1>0, <2>1, <2>3
  <2>5. g[k + 1] = PickStep(t, b, g[k], k + 1) /\ f[k] = PickStep(s, b, f[k - 1], k)
    BY <1>3, <1>4, <2>3
  <2>6. f[k - 1] \in Seq(S) /\ s[k] \in S /\ pre \in Seq(S)
    BY <1>0, <1>t, <2>3
  <2>7. PickStep(t, b, pre \o f[k - 1], k + 1) = pre \o PickStep(s, b, f[k - 1], k)
    <3> HIDE DEF bad
    <3>1. PicksBehind(t, k + 1, s, k, b, pre, f[k - 1])
      BY <2>4, <2>6, PickConcat
    <3> QED BY <3>1 DEF PicksBehind
  <2>8. g[k + 1] = pre \o f[k]
    BY <2>4, <2>5, <2>7
  <2> QED BY <2>8
<1>6. g[L + 1] = pre \o f[L]
  BY <1>0, <1>5
<1>7. <<>> \o f[L] = f[L]
  BY <1>0, <1>t, ConcatEmptySeq
<1>8. ForBox(t, b) = IF p.box = b THEN <<p>> \o ForBox(s, b) ELSE ForBox(s, b)
  BY <1>1, <1>2, <1>6, <1>7 DEF pre
<1> QED BY <1>8 DEF t

-----------------------------------------------------------------------------
\* A box is in order: what was posted is what was received, what lies in the
\* box and what is on the way to it.
Exact(K, g, x, w, b) == K = g \o x \o ForBox(w, b)

LEMMA ExactSend ==
    ASSUME NEW S, NEW g \in Seq(S), NEW x \in Seq(S), NEW w \in Seq(S), NEW p \in S,
           NEW b, NEW K, Exact(K, g, x, w, b)
    PROVE  Exact(IF p.box = b THEN Append(K, p) ELSE K, g, x, Append(w, p), b)
<1> PICK f \in Seq(S) : f = ForBox(w, b)
  BY ForBoxType
<1>1. g \o x \in Seq(S) /\ K = (g \o x) \o f
  BY ConcatProperties DEF Exact
<1>2. AppendsBehind(g \o x, f, p)
  BY <1>1, AppendConcat
<1>3. CASE p.box = b
  <2>1. ForBox(Append(w, p), b) = Append(f, p)
    BY <1>3, ForBoxAppend
  <2> QED BY <1>1, <1>2, <1>3, <2>1 DEF AppendsBehind, Exact
<1>4. CASE p.box # b
  <2>1. ForBox(Append(w, p), b) = f
    BY <1>4, ForBoxAppend
  <2> QED BY <1>1, <1>4, <2>1 DEF Exact
<1> QED BY <1>3, <1>4

LEMMA ExactPut ==
    ASSUME NEW S, NEW g \in Seq(S), NEW x \in Seq(S), NEW w \in Seq(S), NEW p \in S,
           NEW b, NEW K, Exact(K, g, x, <<p>> \o w, b)
    PROVE  Exact(K, g, IF p.box = b THEN Append(x, p) ELSE x, w, b)
<1> PICK f \in Seq(S) : f = ForBox(w, b)
  BY ForBoxType
<1>1. K = (g \o x) \o ForBox(<<p>> \o w, b)
  BY DEF Exact
<1>2. CASE p.box = b
  <2>0. <<p>> \in Seq(S)
    OBVIOUS
  <2> PICK u \in Seq(S) : u = <<p>>
    BY <2>0
  <2>1. ForBox(<<p>> \o w, b) = u \o f
    BY <1>2, ForBoxCons
  <2>2. g \o x \in Seq(S) /\ x \o u \in Seq(S)
    BY ConcatProperties
  <2>3. (g \o x) \o (u \o f) = ((g \o x) \o u) \o f
    <3> PICK gx \in Seq(S) : gx = g \o x
      BY <2>2
    <3>1. (gx \o u) \o f = gx \o (u \o f)
      BY ConcatAssociative
    <3> QED BY <3>1
  <2>4. (g \o x) \o u = g \o (x \o u)
    BY ConcatAssociative
  <2>5. x \o u = Append(x, p)
    BY AppendIsConcat
  <2> QED BY <1>1, <1>2, <2>1, <2>3, <2>4, <2>5 DEF Exact
<1>3. CASE p.box # b
  <2>1. ForBox(<<p>> \o w, b) = f
    BY <1>3, ForBoxCons
  <2> QED BY <1>1, <1>3, <2>1 DEF Exact
<1> QED BY <1>2, <1>3

LEMMA ExactGet ==
    ASSUME NEW S, NEW g \in Seq(S), NEW x \in Seq(S), x # <<>>, NEW w \in Seq(S),
           NEW b, NEW K, Exact(K, g, x, w, b)
    PROVE  Exact(K, Append(g, Head(x)), Tail(x), w, b)
<1>1. Head(x) \in S /\ Tail(x) \in Seq(S) /\ <<Head(x)>> \in Seq(S) /\ x = <<Head(x)>> \o Tail(x)
  OBVIOUS
<1> PICK h \in Seq(S), r \in Seq(S) : h = <<Head(x)>> /\ r = Tail(x)
  BY <1>1
<1>2. x = h \o r
  BY <1>1
<1>3. g \o (h \o r) = (g \o h) \o r
  BY ConcatAssociative
<1>4. g \o h = Append(g, Head(x))
  BY <1>1, AppendIsConcat
<1>5. g \o x = Append(g, Head(x)) \o Tail(x)
  BY <1>2, <1>3, <1>4
<1> QED BY <1>5 DEF Exact

\* The way of a packet, the oldest first: worker, buffer, wire.
Way(v, i, w) == v \o i \o w

LEMMA WayType ==
    ASSUME NEW S, NEW v \in Seq(S), NEW i \in Seq(S), NEW w \in Seq(S)
    PROVE  Way(v, i, w) \in Seq(S)
<1> PICK u \in Seq(S) : u = v \o i
  BY ConcatProperties
<1> QED BY ConcatProperties DEF Way

WayGrows(v, i, w, p) == Way(v, i, Append(w, p)) = Append(Way(v, i, w), p)
LEMMA WaySend ==
    ASSUME NEW S, NEW v \in Seq(S), NEW i \in Seq(S), NEW w \in Seq(S), NEW p \in S
    PROVE  WayGrows(v, i, w, p)
<1> PICK u \in Seq(S) : u = v \o i
  BY ConcatProperties
<1>1. AppendsBehind(u, w, p)
  BY AppendConcat
<1> QED BY <1>1 DEF AppendsBehind, Way, WayGrows

LEMMA WayCheck ==
    ASSUME NEW S, NEW v \in Seq(S), NEW w \in Seq(S), w # <<>>
    PROVE  Way(v, <<Head(w)>>, Tail(w)) = Way(v, <<>>, w)
<1>1. Head(w) \in S /\ Tail(w) \in Seq(S) /\ <<Head(w)>> \in Seq(S) /\ w = <<Head(w)>> \o Tail(w)
  OBVIOUS
<1> PICK h \in Seq(S), r \in Seq(S) : h = <<Head(w)>> /\ r = Tail(w)
  BY <1>1
<1>2. (v \o h) \o r = v \o (h \o r)
  BY ConcatAssociative
<1>3. v \o <<>> = v
  BY ConcatEmptySeq
<1> QED BY <1>1, <1>2, <1>3 DEF Way

LEMMA WayReceive ==
    ASSUME NEW S, NEW i \in Seq(S), NEW w \in Seq(S)
    PROVE  Way(i, <<>>, w) = Way(<<>>, i, w)
<1>1. i \o <<>> = i /\ <<>> \o i = i
  BY ConcatEmptySeq
<1> QED BY <1>1 DEF Way

WayStarts(p, i, w) == Way(<<p>>, i, w) = <<p>> \o Way(<<>>, i, w)
LEMMA WayPut ==
    ASSUME NEW S, NEW p \in S, NEW i \in Seq(S), NEW w \in Seq(S)
    PROVE  WayStarts(p, i, w)
<1>0. <<p>> \in Seq(S)
  OBVIOUS
<1> PICK u \in Seq(S) : u = <<p>>
  BY <1>0
<1>1. <<>> \o i = i
  BY ConcatEmptySeq
<1>2. (u \o i) \o w = u \o (i \o w)
  BY ConcatAssociative
<1> QED BY <1>1, <1>2 DEF Way, WayStarts

-----------------------------------------------------------------------------
\* Every packet is of some set S, which grows with what is sent.
MailTyped(S) ==
    /\ wire \in [Node -> Seq(S)] /\ inbox \in [Node -> Seq(S)] /\ worker \in [Node -> Seq(S)]
    /\ boxes \in [Node -> [Box -> Seq(S)]]
    /\ got \in [Node -> [Box -> Seq(S)]]
    /\ posted \in [Node -> [Box -> Seq(S)]]
\* The worker has at most one packet in its hands.
WorkerOne == \A n \in Node : worker[n] = <<>> \/ Len(worker[n]) = 1
WayTo(n) == Way(worker[n], inbox[n], wire[n])
InOrder == \A n \in Node, b \in Box : Exact(posted[n][b], got[n][b], boxes[n][b], WayTo(n), b)
MailInv == (\E S : MailTyped(S)) /\ WorkerOne /\ InOrder

LEMMA MailInvInit == MailInit => MailInv
<1> SUFFICES ASSUME MailInit PROVE MailInv
  OBVIOUS
<1>1. MailTyped({})
  <2>1. <<>> \in Seq({})
    BY EmptySeq
  <2> QED BY <2>1 DEF MailInit, MailTyped
<1>2. WorkerOne
  BY DEF MailInit, WorkerOne
<1>4. ASSUME NEW b PROVE Exact(<<>>, <<>>, <<>>, Way(<<>>, <<>>, <<>>), b)
  <2>1. <<>> \o <<>> = <<>>
    OBVIOUS
  <2>2. Way(<<>>, <<>>, <<>>) = <<>>
    BY <2>1 DEF Way
  <2>3. ForBox(<<>>, b) = <<>>
    BY ForBoxEmpty
  <2> QED BY <2>1, <2>2, <2>3 DEF Exact
<1>5. InOrder
  BY <1>4 DEF MailInit, InOrder, WayTo
<1> QED BY <1>1, <1>2, <1>5 DEF MailInv

LEMMA TypedMore ==
    ASSUME NEW S, NEW T, S \subseteq T, MailTyped(S)
    PROVE  MailTyped(T)
<1>1. \A s : s \in Seq(S) => s \in Seq(T)
  BY SeqMonotonic
<1> QED BY <1>1 DEF MailTyped

LEMMA TypedAt ==
    ASSUME NEW S, MailTyped(S), NEW n \in Node
    PROVE  /\ wire[n] \in Seq(S) /\ inbox[n] \in Seq(S) /\ worker[n] \in Seq(S)
           /\ WayTo(n) \in Seq(S)
           /\ \A b \in Box :
                boxes[n][b] \in Seq(S) /\ got[n][b] \in Seq(S) /\ posted[n][b] \in Seq(S)
<1>1. wire[n] \in Seq(S) /\ inbox[n] \in Seq(S) /\ worker[n] \in Seq(S)
  BY DEF MailTyped
<1>2. \A b \in Box : boxes[n][b] \in Seq(S) /\ got[n][b] \in Seq(S) /\ posted[n][b] \in Seq(S)
  BY DEF MailTyped
<1>3. WayTo(n) \in Seq(S)
  BY <1>1, WayType DEF WayTo
<1> QED BY <1>1, <1>2, <1>3

\* A packet goes on the wire and into the history of its box.
LEMMA SendInOrder ==
    ASSUME MailInv, NEW p,
           wire' = [wire EXCEPT ![p.to] = Append(@, p)],
           posted' = [posted EXCEPT ![p.to][p.box] = Append(@, p)],
           UNCHANGED <<inbox, worker, boxes, got>>
    PROVE  MailInv'
<1> PICK S0 : MailTyped(S0)
  BY DEF MailInv
<1> PICK S : S = S0 \cup {p}
  OBVIOUS
<1>0. p \in S
  OBVIOUS
<1>1. MailTyped(S) /\ WorkerOne /\ InOrder
  BY TypedMore DEF MailInv
<1>2. \A n \in Node : wire'[n] = IF n = p.to THEN Append(wire[n], p) ELSE wire[n]
  BY <1>1 DEF MailTyped
<1>3. \A n \in Node, b \in Box :
        posted'[n][b] = IF n = p.to /\ b = p.box THEN Append(posted[n][b], p) ELSE posted[n][b]
  BY <1>1 DEF MailTyped
<1>4. \A s \in Seq(S) : Append(s, p) \in Seq(S)
  BY <1>0, AppendProperties
<1>5. wire' \in [Node -> Seq(S)]
  BY <1>1, <1>4 DEF MailTyped
<1>6. posted' \in [Node -> [Box -> Seq(S)]]
  <2>1. \A n \in Node : posted[n] \in [Box -> Seq(S)]
    BY <1>1 DEF MailTyped
  <2>2. \A n \in Node : [posted[n] EXCEPT ![p.box] = Append(@, p)] \in [Box -> Seq(S)]
    BY <1>4, <2>1
  <2>3. posted' = [posted EXCEPT ![p.to] = [posted[p.to] EXCEPT ![p.box] = Append(@, p)]]
    OBVIOUS
  <2>4. CASE p.to \in Node
    <3> PICK q \in [Box -> Seq(S)] : q = [posted[p.to] EXCEPT ![p.box] = Append(@, p)]
      BY <2>2, <2>4
    <3>1. posted' = [posted EXCEPT ![p.to] = q]
      BY <2>3
    <3> QED BY <1>1, <3>1 DEF MailTyped
  <2>5. CASE p.to \notin Node
    <3>1. posted' = posted
      BY <1>1, <2>3, <2>5 DEF MailTyped
    <3> QED BY <1>1, <3>1 DEF MailTyped
  <2> QED BY <2>4, <2>5
<1>7. MailTyped(S)'
  BY <1>1, <1>5, <1>6 DEF MailTyped
<1>8. ASSUME NEW n \in Node, NEW b \in Box
      PROVE  Exact(posted[n][b], got[n][b], boxes[n][b], WayTo(n), b)'
  <2>1. Exact(posted[n][b], got[n][b], boxes[n][b], WayTo(n), b)
    BY <1>1 DEF InOrder
  <2>2. /\ wire[n] \in Seq(S) /\ inbox[n] \in Seq(S) /\ worker[n] \in Seq(S)
        /\ WayTo(n) \in Seq(S) /\ boxes[n][b] \in Seq(S) /\ got[n][b] \in Seq(S)
    BY <1>1, TypedAt
  <2>3. CASE n = p.to
    <3>1. WayTo(n)' = Append(WayTo(n), p)
      <4> PICK v \in Seq(S), i \in Seq(S), w \in Seq(S) :
            v = worker[n] /\ i = inbox[n] /\ w = wire[n]
        BY <2>2
      <4>1. WayGrows(v, i, w, p)
        BY <1>0, WaySend
      <4>2. wire'[n] = Append(w, p)
        BY <1>2, <2>3
      <4> QED BY <4>1, <4>2 DEF WayTo, WayGrows
    <3>2. Exact(IF p.box = b THEN Append(posted[n][b], p) ELSE posted[n][b],
                got[n][b], boxes[n][b], Append(WayTo(n), p), b)
      BY <1>0, <2>1, <2>2, ExactSend
    <3>3. posted'[n][b] = IF p.box = b THEN Append(posted[n][b], p) ELSE posted[n][b]
      BY <1>3, <2>3
    <3> QED BY <3>1, <3>2, <3>3
  <2>4. CASE n # p.to
    <3>1. WayTo(n)' = WayTo(n) /\ posted'[n][b] = posted[n][b]
      BY <1>2, <1>3, <2>4 DEF WayTo
    <3> QED BY <2>1, <3>1
  <2> QED BY <2>3, <2>4
<1>9. InOrder'
  BY <1>8 DEF InOrder
<1>10. WorkerOne'
  BY <1>1 DEF WorkerOne
<1> QED BY <1>7, <1>9, <1>10 DEF MailInv

\* A packet moves from the wire to the buffer ...
LEMMA CheckInOrder ==
    ASSUME MailInv, NEW n \in Node, CheckPktAvail(n)
    PROVE  MailInv'
<1> PICK S : MailTyped(S)
  BY DEF MailInv
<1>1. WorkerOne /\ InOrder
  BY DEF MailInv
<1>2. /\ inbox[n] = <<>> /\ wire[n] # <<>>
      /\ inbox' = [inbox EXCEPT ![n] = <<Head(wire[n])>>]
      /\ wire' = [wire EXCEPT ![n] = Tail(@)]
      /\ UNCHANGED <<worker, boxes, posted, got>>
  BY DEF CheckPktAvail
<1>3. /\ wire[n] \in Seq(S) /\ worker[n] \in Seq(S)
  BY TypedAt
<1>4. Tail(wire[n]) \in Seq(S) /\ <<Head(wire[n])>> \in Seq(S)
  <2> PICK w \in Seq(S) : w = wire[n]
    BY <1>3
  <2>1. Tail(w) \in Seq(S) /\ <<Head(w)>> \in Seq(S)
    BY <1>2
  <2> QED BY <2>1
<1>5. MailTyped(S)'
  BY <1>2, <1>4 DEF MailTyped
<1>6. \A k \in Node : WayTo(k)' = WayTo(k)
  <2>1. ASSUME NEW k \in Node, k # n PROVE WayTo(k)' = WayTo(k)
    BY <1>2, <2>1 DEF WayTo, MailTyped
  <2>2. WayTo(n)' = WayTo(n)
    <3>1. inbox'[n] = <<Head(wire[n])>> /\ wire'[n] = Tail(wire[n]) /\ worker'[n] = worker[n]
      BY <1>2 DEF MailTyped
    <3>2. Way(worker[n], <<Head(wire[n])>>, Tail(wire[n])) = Way(worker[n], <<>>, wire[n])
      BY <1>2, <1>3, WayCheck
    <3> QED BY <1>2, <3>1, <3>2 DEF WayTo
  <2> QED BY <2>1, <2>2
<1>7. InOrder'
  BY <1>1, <1>2, <1>6 DEF InOrder
<1>8. WorkerOne'
  BY <1>1, <1>2 DEF WorkerOne
<1> QED BY <1>5, <1>7, <1>8 DEF MailInv

\* ... from there to the worker ...
LEMMA ReceiveInOrder ==
    ASSUME MailInv, OnePacket, NEW n \in Node, PostalReceive(n)
    PROVE  MailInv'
<1> PICK S : MailTyped(S)
  BY DEF MailInv
<1>1. WorkerOne /\ InOrder
  BY DEF MailInv
<1>2. /\ worker[n] = <<>>
      /\ worker' = [worker EXCEPT ![n] = inbox[n]]
      /\ inbox' = [inbox EXCEPT ![n] = <<>>]
      /\ UNCHANGED <<wire, boxes, posted, got>>
  BY DEF PostalReceive, NetworkReceive
<1>3. wire[n] \in Seq(S) /\ inbox[n] \in Seq(S) /\ <<>> \in Seq(S)
  BY TypedAt, EmptySeq
<1>4. MailTyped(S)'
  BY <1>2, <1>3 DEF MailTyped
<1>5. \A k \in Node : WayTo(k)' = WayTo(k)
  <2>1. ASSUME NEW k \in Node, k # n PROVE WayTo(k)' = WayTo(k)
    BY <1>2, <2>1 DEF WayTo, MailTyped
  <2>2. WayTo(n)' = WayTo(n)
    <3>1. worker'[n] = inbox[n] /\ inbox'[n] = <<>> /\ wire'[n] = wire[n]
      BY <1>2 DEF MailTyped
    <3>2. Way(inbox[n], <<>>, wire[n]) = Way(<<>>, inbox[n], wire[n])
      BY <1>3, WayReceive
    <3> QED BY <1>2, <3>1, <3>2 DEF WayTo
  <2> QED BY <2>1, <2>2
<1>6. InOrder'
  BY <1>1, <1>2, <1>5 DEF InOrder
<1>7. WorkerOne'
  BY <1>1, <1>2 DEF WorkerOne, OnePacket, MailTyped
<1> QED BY <1>4, <1>6, <1>7 DEF MailInv

\* ... from the worker into its box ...
LEMMA PutInOrder ==
    ASSUME MailInv, NEW n \in Node, Put(n)
    PROVE  MailInv'
<1> PICK S : MailTyped(S)
  BY DEF MailInv
<1>1. WorkerOne /\ InOrder
  BY DEF MailInv
<1>2. worker[n] \in Seq(S) /\ worker[n] # <<>> /\ Len(worker[n]) = 1
  BY <1>1, TypedAt DEF Put, WorkerOne
<1> PICK p \in S : worker[n] = <<p>> /\ worker[n][1] = p
  <2> PICK v \in Seq(S) : v = worker[n]
    BY <1>2
  <2>1. Len(v) = 1 /\ v[1] \in S
    BY <1>2
  <2>2. v = <<v[1]>>
    BY <2>1
  <2> QED BY <2>1, <2>2
<1>3. /\ boxes' = [boxes EXCEPT ![n][p.box] = Append(@, p)]
      /\ worker' = [worker EXCEPT ![n] = <<>>]
      /\ UNCHANGED <<wire, inbox, posted, got>>
  BY DEF Put
<1>4. \A s \in Seq(S) : Append(s, p) \in Seq(S)
  BY AppendProperties
<1>5. /\ \A k \in Node, b \in Box :
           boxes'[k][b] = IF k = n /\ b = p.box THEN Append(boxes[k][b], p) ELSE boxes[k][b]
      /\ \A k \in Node : worker'[k] = IF k = n THEN <<>> ELSE worker[k]
  BY <1>3 DEF MailTyped
<1>6. boxes' \in [Node -> [Box -> Seq(S)]]
  <2>1. \A k \in Node : boxes[k] \in [Box -> Seq(S)]
    BY DEF MailTyped
  <2>2. \A k \in Node : [boxes[k] EXCEPT ![p.box] = Append(@, p)] \in [Box -> Seq(S)]
    BY <1>4, <2>1
  <2>3. boxes' = [boxes EXCEPT ![n] = [boxes[n] EXCEPT ![p.box] = Append(@, p)]]
    BY <1>3
  <2> QED BY <2>2, <2>3 DEF MailTyped
<1>7. MailTyped(S)'
  <2>1. <<>> \in Seq(S)
    BY EmptySeq
  <2> QED BY <1>3, <1>6, <2>1 DEF MailTyped
<1>8. ASSUME NEW k \in Node, NEW b \in Box
      PROVE  Exact(posted[k][b], got[k][b], boxes[k][b], WayTo(k), b)'
  <2>1. Exact(posted[k][b], got[k][b], boxes[k][b], WayTo(k), b)
    BY <1>1 DEF InOrder
  <2>2. CASE k = n
    <3>1. /\ wire[n] \in Seq(S) /\ inbox[n] \in Seq(S)
          /\ boxes[n][b] \in Seq(S) /\ got[n][b] \in Seq(S)
      BY TypedAt
    <3> PICK i \in Seq(S), v \in Seq(S) : i = inbox[n] /\ v = wire[n]
      BY <3>1
    <3>2. WayTo(n)' = Way(<<>>, i, v)
      BY <1>3, <1>5 DEF WayTo
    <3>3. WayTo(n)' \in Seq(S)
      <4> PICK e \in Seq(S) : e = <<>>
        BY EmptySeq
      <4>1. Way(e, i, v) \in Seq(S)
        BY WayType
      <4> QED BY <3>2, <4>1
    <3>4. WayTo(n) = <<p>> \o WayTo(n)'
      <4>1. WayStarts(p, i, v)
        BY WayPut
      <4> QED BY <3>2, <4>1 DEF WayTo, WayStarts
    <3> PICK w \in Seq(S) : w = WayTo(n)'
      BY <3>3
    <3>5. Exact(posted[n][b], got[n][b], boxes[n][b], <<p>> \o w, b)
      BY <2>1, <2>2, <3>4
    <3>6. Exact(posted[n][b], got[n][b],
                IF p.box = b THEN Append(boxes[n][b], p) ELSE boxes[n][b], w, b)
      BY <3>1, <3>5, ExactPut
    <3>7. boxes'[n][b] = IF p.box = b THEN Append(boxes[n][b], p) ELSE boxes[n][b]
      BY <1>5
    <3> QED BY <1>3, <2>2, <3>6, <3>7
  <2>3. CASE k # n
    <3>1. WayTo(k)' = WayTo(k) /\ boxes'[k][b] = boxes[k][b]
      BY <1>3, <1>5, <2>3 DEF WayTo
    <3> QED BY <1>3, <2>1, <3>1
  <2> QED BY <2>2, <2>3
<1>9. InOrder'
  BY <1>8 DEF InOrder
<1>10. WorkerOne'
  BY <1>1, <1>5 DEF WorkerOne
<1> QED BY <1>7, <1>9, <1>10 DEF MailInv

\* ... and out of it to a reader.
LEMMA GetInOrder ==
    ASSUME MailInv, NEW n \in Node, NEW c, boxes[n][c] # <<>>,
           boxes' = [boxes EXCEPT ![n][c] = Tail(@)],
           got' = [got EXCEPT ![n][c] = Append(@, Head(boxes[n][c]))],
           UNCHANGED <<wire, inbox, worker, posted>>
    PROVE  MailInv'
<1> PICK S : MailTyped(S)
  BY DEF MailInv
<1>1. WorkerOne /\ InOrder
  BY DEF MailInv
<1>2. \A k \in Node : WayTo(k)' = WayTo(k)
  BY DEF WayTo
<1>3. WorkerOne'
  BY <1>1 DEF WorkerOne
<1>4. CASE c \notin Box
  <2>1. boxes' = boxes /\ got' = got
    BY <1>4 DEF MailTyped
  <2>2. MailTyped(S)'
    BY <2>1 DEF MailTyped
  <2>3. InOrder'
    BY <1>1, <1>2, <2>1 DEF InOrder
  <2> QED BY <1>3, <2>2, <2>3 DEF MailInv
<1>5. CASE c \in Box
  <2>1. boxes[n][c] \in Seq(S) /\ got[n][c] \in Seq(S)
    BY <1>5, TypedAt
  <2> PICK x \in Seq(S), g \in Seq(S) : x = boxes[n][c] /\ g = got[n][c]
    BY <2>1
  <2>2. Tail(x) \in Seq(S) /\ Head(x) \in S /\ x # <<>>
    OBVIOUS
  <2>3. Append(g, Head(x)) \in Seq(S)
    BY <2>2, AppendProperties
  <2>4. \A k \in Node, b \in Box :
          /\ boxes'[k][b] = IF k = n /\ b = c THEN Tail(x) ELSE boxes[k][b]
          /\ got'[k][b] = IF k = n /\ b = c THEN Append(g, Head(x)) ELSE got[k][b]
    BY DEF MailTyped
  <2>5. boxes' \in [Node -> [Box -> Seq(S)]] /\ got' \in [Node -> [Box -> Seq(S)]]
    <3>1. boxes[n] \in [Box -> Seq(S)] /\ got[n] \in [Box -> Seq(S)]
      BY DEF MailTyped
    <3>2. [boxes[n] EXCEPT ![c] = Tail(x)] \in [Box -> Seq(S)]
      BY <2>2, <3>1
    <3>3. [got[n] EXCEPT ![c] = Append(g, Head(x))] \in [Box -> Seq(S)]
      BY <2>3, <3>1
    <3>4. /\ boxes' = [boxes EXCEPT ![n] = [boxes[n] EXCEPT ![c] = Tail(x)]]
          /\ got' = [got EXCEPT ![n] = [got[n] EXCEPT ![c] = Append(g, Head(x))]]
      OBVIOUS
    <3> QED BY <3>2, <3>3, <3>4 DEF MailTyped
  <2>6. MailTyped(S)'
    BY <2>5 DEF MailTyped
  <2>7. ASSUME NEW k \in Node, NEW b \in Box
        PROVE  Exact(posted[k][b], got[k][b], boxes[k][b], WayTo(k), b)'
    <3>1. Exact(posted[k][b], got[k][b], boxes[k][b], WayTo(k), b)
      BY <1>1 DEF InOrder
    <3>2. CASE k = n /\ b = c
      <4>1. WayTo(n) \in Seq(S)
        BY TypedAt
      <4>2. Exact(posted[n][c], Append(g, Head(x)), Tail(x), WayTo(n), c)
        BY <2>2, <3>1, <3>2, <4>1, ExactGet
      <4> QED BY <1>2, <1>5, <2>4, <3>2, <4>2
    <3>3. CASE ~(k = n /\ b = c)
      BY <1>2, <2>4, <3>1, <3>3
    <3> QED BY <3>2, <3>3
  <2>8. InOrder'
    BY <2>7 DEF InOrder
  <2> QED BY <1>3, <2>6, <2>8 DEF MailInv
<1> QED BY <1>4, <1>5

LEMMA MailInvNext == MailInv /\ OnePacket /\ [MailNext]_mailVars => MailInv'
<1> SUFFICES ASSUME MailInv, OnePacket, [MailNext]_mailVars PROVE MailInv'
  OBVIOUS
<1>1. ASSUME UNCHANGED <<wire, inbox, worker, boxes, posted, got>> PROVE MailInv'
  BY <1>1 DEF MailInv, MailTyped, WorkerOne, InOrder, WayTo
<1>2. ASSUME NEW m \in Mailer, NetworkSend(m) PROVE MailInv'
  <2>1. CASE UNCHANGED <<wire, posted>>
    BY <1>1, <1>2, <2>1 DEF NetworkSend
  <2>2. CASE ~UNCHANGED <<wire, posted>>
    <3> PICK p : p = MailOf(m)
      OBVIOUS
    <3>1. /\ wire' = [wire EXCEPT ![p.to] = Append(@, p)]
          /\ posted' = [posted EXCEPT ![p.to][p.box] = Append(@, p)]
          /\ UNCHANGED <<inbox, worker, boxes, got>>
      BY <1>2, <2>2 DEF NetworkSend
    <3> QED BY <3>1, SendInOrder
  <2> QED BY <2>1, <2>2
<1>3. ASSUME NEW m \in Mailer, Receive(m) PROVE MailInv'
  <2> PICK n \in Node : n = Home[m]
    BY MailAssumption
  <2> PICK c : c = Head(script[m]).box
    OBVIOUS
  <2>1. /\ boxes[n][c] # <<>>
        /\ boxes' = [boxes EXCEPT ![n][c] = Tail(@)]
        /\ got' = [got EXCEPT ![n][c] = Append(@, Head(boxes[n][c]))]
        /\ UNCHANGED <<wire, inbox, worker, posted>>
    BY <1>3 DEF Receive
  <2> QED BY <2>1, GetInOrder
<1>4. ASSUME NEW m \in Mailer, AcquireSendLock(m) \/ EndSend(m) \/ HaltMachine(m) PROVE MailInv'
  BY <1>1, <1>4 DEF AcquireSendLock, EndSend, HaltMachine
<1>5. ASSUME NEW n \in Node, SendDone(n) PROVE MailInv'
  BY <1>1, <1>5 DEF SendDone
<1>6. ASSUME NEW n \in Node, CheckPktAvail(n) PROVE MailInv'
  BY <1>6, CheckInOrder
<1>7. ASSUME NEW n \in Node, PostalReceive(n) PROVE MailInv'
  BY <1>7, ReceiveInOrder
<1>8. ASSUME NEW n \in Node, Put(n) PROVE MailInv'
  BY <1>8, PutInOrder
<1>9. CASE UNCHANGED mailVars
  BY <1>1, <1>9 DEF mailVars
<1> QED BY <1>2, <1>3, <1>4, <1>5, <1>6, <1>7, <1>8, <1>9 DEF MailNext, MailStep, Deliver

\* From the wire through the device's only buffer and the postal worker to the
\* box and its reader no mail is lost, repeated, misfiled or overtaken, for any
\* number of machines, boxes and threads and whatever the network drops.
THEOREM MailExactSafe == MailSpec => []MailExact
<1>1. PostInv /\ MailInv /\ [MailNext]_mailVars => MailInv'
  BY MailInvNext DEF PostInv
<1>2. PostInv /\ MailInv => MailExact
  BY DEF PostInv, MailInv, MailExact, InOrder, Exact, WayTo, Way
<1> QED BY <1>1, <1>2, MailInvInit, PostInvariant, PTL DEF MailSpec

-----------------------------------------------------------------------------
(***************************************************************************)
(* The end of MailTest.  Any number of pairs of machines run MailTest with *)
(* each other; or the scripts never halt a machine.                        *)
(***************************************************************************)
\* The threads T run MailTest, each with its peer, one on a machine.
Paired(T, peer) ==
    /\ T \subseteq Mailer
    /\ peer \in [T -> T]
    /\ \A m \in T : peer[peer[m]] = m
    /\ \A m, k \in T : Home[m] = Home[k] => m = k

RunsMailTests(s, T, peer) ==
    \A m \in Mailer : s[m] = IF m \in T THEN MailTest(Home[peer[m]]) ELSE <<>>

NeverHalts(s) ==
    \E C : /\ \A c \in C : c.call # "Halt"
           /\ s \in [Mailer -> Seq(C)]

\* What main() runs on machines with a network: a machine halts at the end of
\* MailTest only.
HaltsAfterMailTest ==
    /\ {0, 1} \subseteq Box
    /\ \A s \in Scripts : /\ DOMAIN s = Mailer
                          /\ \/ NeverHalts(s)
                             \/ \E T, peer : Paired(T, peer) /\ RunsMailTests(s, T, peer)

\* What is left of MailTest before its k-th call.
RestOf(far, k) == SubSeq(MailTest(far), k, 5)

LEMMA RestProperties ==
    ASSUME NEW far
    PROVE  /\ RestOf(far, 1) = MailTest(far)
           /\ RestOf(far, 6) = <<>>
           /\ \A k \in 1..5 : /\ RestOf(far, k) # <<>>
                              /\ Head(RestOf(far, k)) = MailTest(far)[k]
                              /\ Tail(RestOf(far, k)) = RestOf(far, k + 1)
<1> PICK M : M = MailTest(far)
  OBVIOUS
<1> DEFINE C == {Send0(far, 0, 1), Receive0(0), Ack, Receive0(1), Halt0}
<1>1. M \in Seq(C) /\ Len(M) = 5
  BY DEF MailTest
<1> HIDE DEF C
<1>2. \A k \in 1..6 : RestOf(far, k) = SubSeq(M, k, 5)
  BY DEF RestOf
<1>3. SubSeq(M, 1, 5) = M
  BY <1>1, SubSeqFull
<1>4. SubSeq(M, 6, 5) = <<>>
  BY <1>1, SubSeqEmpty
<1>5. ASSUME NEW k \in 1..5
      PROVE  /\ RestOf(far, k) # <<>>
             /\ Head(RestOf(far, k)) = M[k]
             /\ Tail(RestOf(far, k)) = RestOf(far, k + 1)
  <2>1. k + 1 \in 1..6 /\ k \in 1..6 /\ 5 \in k..5 /\ k \in 1..Len(M) /\ 5 \in k..Len(M)
    BY <1>1
  <2>2. Head(SubSeq(M, k, 5)) = M[k] /\ Tail(SubSeq(M, k, 5)) = SubSeq(M, k + 1, 5)
    BY <1>1, <2>1, HeadTailOfSubSeq
  <2>3. Len(SubSeq(M, k, 5)) = 6 - k
    BY <1>1, <2>1, SubSeqProperties
  <2>4. SubSeq(M, k, 5) # <<>>
    <3> PICK q : q = SubSeq(M, k, 5)
      OBVIOUS
    <3>1. Len(q) # 0
      BY <2>3
    <3> QED BY <3>1
  <2> QED BY <1>2, <2>1, <2>2, <2>4
<1>6. RestOf(far, 1) = MailTest(far) /\ RestOf(far, 6) = <<>>
  BY <1>2, <1>3, <1>4
<1> QED BY <1>5, <1>6

\* The parts of a concatenation.
Joins(z, g, x) == z = g \o x
PartsOf(z, g, x) ==
    /\ Len(g) \in Nat /\ Len(x) \in Nat /\ Len(z) = Len(g) + Len(x)
    /\ \A i \in 1..Len(g) : i \in 1..Len(z) /\ z[i] = g[i]
    /\ \A i \in 1..Len(x) : Len(g) + i \in 1..Len(z) /\ z[Len(g) + i] = x[i]
LEMMA ConcatParts ==
    ASSUME NEW S, NEW g \in Seq(S), NEW x \in Seq(S), NEW z, Joins(z, g, x)
    PROVE  z \in Seq(S) /\ PartsOf(z, g, x)
<1>1. /\ z \in Seq(S) /\ Len(z) = Len(g) + Len(x)
      /\ \A i \in 1..Len(g) + Len(x) : z[i] = IF i <= Len(g) THEN g[i] ELSE x[i - Len(g)]
  BY ConcatProperties DEF Joins
<1>2. Len(g) \in Nat /\ Len(x) \in Nat
  OBVIOUS
<1>3. PICK a \in Nat, c \in Nat : a = Len(g) /\ c = Len(x)
  BY <1>2
<1>4. ASSUME NEW i \in 1..a PROVE i \in 1..a + c /\ z[i] = g[i]
  BY <1>1, <1>3
<1>5. ASSUME NEW i \in 1..c PROVE a + i \in 1..a + c /\ z[a + i] = x[i]
  <2>1. a + i \in 1..a + c /\ ~(a + i <= a) /\ a + i - a = i
    OBVIOUS
  <2> QED BY <1>1, <1>3, <2>1
<1> QED BY <1>1, <1>2, <1>3, <1>4, <1>5 DEF PartsOf

\* The first of a box is one of those posted to it.
LEMMA HeadWasPosted ==
    ASSUME MailInv, NEW n \in Node, NEW b \in Box, boxes[n][b] # <<>>
    PROVE  \E i \in 1..Len(posted[n][b]) : Head(boxes[n][b]) = posted[n][b][i]
<1>1. PICK S : MailTyped(S)
  BY DEF MailInv
<1>2. WayTo(n) \in Seq(S)
  BY <1>1, TypedAt
<1>3. ForBox(WayTo(n), b) \in Seq(S)
  BY <1>2, ForBoxType
<1>4. PICK p, g, x, y : p = posted[n][b] /\ g = got[n][b] /\ x = boxes[n][b] /\ y = ForBox(WayTo(n), b)
  OBVIOUS
<1>5. p \in Seq(S) /\ g \in Seq(S) /\ x \in Seq(S) /\ y \in Seq(S)
  BY <1>1, <1>3, <1>4, TypedAt
<1>6. p = g \o x \o y
  BY <1>4 DEF MailInv, InOrder, Exact
<1>7. PICK z : Joins(z, g, x)
  BY DEF Joins
<1>8. Joins(p, z, y)
  BY <1>6, <1>7 DEF Joins
<1>9. z \in Seq(S) /\ PartsOf(z, g, x)
  BY <1>5, <1>7, ConcatParts
<1>10. PartsOf(p, z, y)
  BY <1>5, <1>8, <1>9, ConcatParts
<1>11. Len(x) > 0 /\ Head(x) = x[1]
  BY <1>4, <1>5
<1>12. Len(g) + 1 \in 1..Len(z) /\ z[Len(g) + 1] = Head(x)
  BY <1>9, <1>11 DEF PartsOf
<1>13. Len(g) + 1 \in 1..Len(p) /\ p[Len(g) + 1] = Head(x)
  BY <1>10, <1>12 DEF PartsOf
<1> QED BY <1>4, <1>13

LEMMA ReceivedWasPosted ==
    ASSUME MailInv, NEW n \in Node, NEW b \in Box, Len(got[n][b]) > 0
    PROVE  Len(posted[n][b]) > 0
<1>1. PICK S : MailTyped(S)
  BY DEF MailInv
<1>2. WayTo(n) \in Seq(S)
  BY <1>1, TypedAt
<1>3. ForBox(WayTo(n), b) \in Seq(S)
  BY <1>2, ForBoxType
<1>4. PICK p, g, x, y : p = posted[n][b] /\ g = got[n][b] /\ x = boxes[n][b] /\ y = ForBox(WayTo(n), b)
  OBVIOUS
<1>5. p \in Seq(S) /\ g \in Seq(S) /\ x \in Seq(S) /\ y \in Seq(S)
  BY <1>1, <1>3, <1>4, TypedAt
<1>6. p = g \o x \o y
  BY <1>4 DEF MailInv, InOrder, Exact
<1>7. PICK z : Joins(z, g, x)
  BY DEF Joins
<1>8. Joins(p, z, y)
  BY <1>6, <1>7 DEF Joins
<1>9. z \in Seq(S) /\ PartsOf(z, g, x)
  BY <1>5, <1>7, ConcatParts
<1>10. PartsOf(p, z, y)
  BY <1>5, <1>8, <1>9, ConcatParts
<1>11. Len(p) = Len(g) + Len(x) + Len(y) /\ Len(g) > 0 /\ Len(g) \in Nat /\ Len(x) \in Nat /\ Len(y) \in Nat
  BY <1>4, <1>9, <1>10 DEF PartsOf
<1>12. Len(p) > 0
  BY <1>11
<1> QED BY <1>4, <1>12

\* A packet of box b makes what is posted to b longer than what was received.
LEMMA OnTheWay ==
    ASSUME MailInv, NEW n \in Node, WayTo(n) # <<>>, Head(WayTo(n)).box \in Box
    PROVE  \E b \in Box : Len(posted[n][b]) > Len(got[n][b])
<1>1. PICK S : MailTyped(S)
  BY DEF MailInv
<1>2. WayTo(n) \in Seq(S)
  BY <1>1, TypedAt
<1>3. PICK s : s = WayTo(n)
  OBVIOUS
<1>4. Head(s) \in S /\ Tail(s) \in Seq(S) /\ s = <<Head(s)>> \o Tail(s)
  BY <1>2, <1>3
<1>5. PICK h \in S, t \in Seq(S) : h = Head(s) /\ t = Tail(s)
  BY <1>4
<1>6. PICK b \in Box : b = h.box
  BY <1>3, <1>5
<1>7. ForBox(s, b) = <<h>> \o ForBox(t, b)
  BY <1>4, <1>5, <1>6, ForBoxCons
<1>8. ForBox(t, b) \in Seq(S) /\ ForBox(s, b) \in Seq(S)
  BY <1>2, <1>3, <1>5, ForBoxType
<1>9. PICK p, g, x, y, r, o : p = posted[n][b] /\ g = got[n][b] /\ x = boxes[n][b] /\ y = ForBox(s, b)
                              /\ r = ForBox(t, b) /\ o = <<h>>
  OBVIOUS
<1>10. p \in Seq(S) /\ g \in Seq(S) /\ x \in Seq(S) /\ y \in Seq(S) /\ r \in Seq(S)
  BY <1>1, <1>8, <1>9, TypedAt
<1>11. o \in Seq(S) /\ Len(o) = 1
  BY <1>9
<1>12. p = g \o x \o y
  BY <1>3, <1>9 DEF MailInv, InOrder, Exact
<1>13. PICK z : Joins(z, g, x)
  BY DEF Joins
<1>14. Joins(p, z, y) /\ Joins(y, o, r)
  BY <1>7, <1>9, <1>12, <1>13 DEF Joins
<1>15. z \in Seq(S) /\ PartsOf(z, g, x) /\ PartsOf(y, o, r)
  BY <1>10, <1>11, <1>13, <1>14, ConcatParts
<1>16. PartsOf(p, z, y)
  BY <1>10, <1>14, <1>15, ConcatParts
<1>17. Len(p) = Len(g) + Len(x) + 1 + Len(r) /\ Len(g) \in Nat /\ Len(x) \in Nat /\ Len(r) \in Nat
  BY <1>11, <1>15, <1>16 DEF PartsOf
<1>18. Len(p) > Len(g)
  BY <1>17
<1> QED BY <1>9, <1>18

\* The packets of a sequence go to boxes.
ToBoxes(s) == \A i \in 1..Len(s) : s[i].box \in Box

\* When all that was posted has been received, nothing is on the way.
LEMMA NothingOnTheWay ==
    ASSUME MailInv, NEW n \in Node,
           \A b \in Box : Len(posted[n][b]) <= Len(got[n][b]),
           ToBoxes(wire[n]), ToBoxes(inbox[n]), ToBoxes(worker[n])
    PROVE  wire[n] = <<>> /\ inbox[n] = <<>>
<1>1. PICK S : MailTyped(S)
  BY DEF MailInv
<1>2. PICK v, i, w, s : v = worker[n] /\ i = inbox[n] /\ w = wire[n] /\ s = WayTo(n)
  OBVIOUS
<1>3. v \in Seq(S) /\ i \in Seq(S) /\ w \in Seq(S) /\ s \in Seq(S)
  BY <1>1, <1>2, TypedAt
<1>4. PICK u : Joins(u, v, i)
  BY DEF Joins
<1>5. Joins(s, u, w)
  BY <1>2, <1>4 DEF WayTo, Way, Joins
<1>6. u \in Seq(S) /\ PartsOf(u, v, i)
  BY <1>3, <1>4, ConcatParts
<1>7. PartsOf(s, u, w)
  BY <1>3, <1>5, <1>6, ConcatParts
<1>8. ASSUME s # <<>> PROVE s[1].box \in Box
  <2>1. Len(s) > 0
    BY <1>3, <1>8
  <2>2. CASE Len(v) > 0
    <3>1. 1 \in 1..Len(v)
      BY <1>6, <2>2 DEF PartsOf
    <3>2. 1 \in 1..Len(u) /\ u[1] = v[1]
      BY <1>6, <3>1 DEF PartsOf
    <3>3. s[1] = u[1]
      BY <1>7, <3>2 DEF PartsOf
    <3> QED BY <1>2, <3>1, <3>2, <3>3 DEF ToBoxes
  <2>3. CASE Len(v) = 0 /\ Len(i) > 0
    <3>1. 1 \in 1..Len(i) /\ Len(v) + 1 = 1
      BY <1>6, <2>3 DEF PartsOf
    <3>2. 1 \in 1..Len(u) /\ u[1] = i[1]
      BY <1>6, <3>1 DEF PartsOf
    <3>3. s[1] = u[1]
      BY <1>7, <3>2 DEF PartsOf
    <3> QED BY <1>2, <3>1, <3>2, <3>3 DEF ToBoxes
  <2>4. CASE Len(v) = 0 /\ Len(i) = 0
    <3>1. Len(u) = 0 /\ Len(w) \in Nat /\ Len(s) = Len(u) + Len(w)
      BY <1>6, <1>7, <2>4 DEF PartsOf
    <3>2. 1 \in 1..Len(w) /\ Len(u) + 1 = 1
      BY <2>1, <3>1
    <3>3. s[1] = w[1]
      BY <1>7, <3>2 DEF PartsOf
    <3> QED BY <1>2, <3>2, <3>3 DEF ToBoxes
  <2>5. Len(v) \in Nat /\ Len(i) \in Nat
    BY <1>6 DEF PartsOf
  <2> QED BY <2>2, <2>3, <2>4, <2>5
<1>9. s = <<>>
  <2> SUFFICES ASSUME s # <<>> PROVE FALSE
    OBVIOUS
  <2>1. Head(s).box \in Box
    BY <1>3, <1>8
  <2>2. PICK b \in Box : Len(posted[n][b]) > Len(got[n][b])
    BY <1>2, <2>1, OnTheWay
  <2>3. Len(posted[n][b]) \in Nat /\ Len(got[n][b]) \in Nat
    BY <1>1, TypedAt
  <2> QED BY <2>2, <2>3
<1>10. Len(s) = 0
  BY <1>9
<1>11. Len(s) = Len(u) + Len(w) /\ Len(u) = Len(v) + Len(i) /\ Len(u) \in Nat /\ Len(w) \in Nat
       /\ Len(v) \in Nat /\ Len(i) \in Nat
  BY <1>6, <1>7 DEF PartsOf
<1>12. Len(i) = 0 /\ Len(w) = 0
  <2>1. PICK a \in Nat, c \in Nat, e \in Nat : a = Len(v) /\ c = Len(i) /\ e = Len(w)
    BY <1>11
  <2>2. a + c + e = 0
    BY <1>10, <1>11, <2>1
  <2>3. c = 0 /\ e = 0
    BY <2>2
  <2> QED BY <2>1, <2>3
<1> QED BY <1>2, <1>3, <1>12

\* Where thread m is in its MailTest, st[m] being its next call.
Staged(T, peer, st) ==
    /\ st \in [T -> 1..6] /\ DOMAIN script = Mailer /\ DOMAIN letter = Mailer
    /\ \A m \in T : /\ script[m] = RestOf(Home[peer[m]], st[m])
                    /\ phase[m] # "call" => st[m] \in {1, 3}
    /\ \A m \in Mailer \ T : script[m] = <<>>
    /\ \A n \in halted : \E m \in T : n = Home[m] /\ st[m] = 6

\* Thread p has sent its greeting, and its acknowledgement.
Greeted(st, p) == st[p] > 1 \/ phase[p] = "sent"
Acked(st, p) == st[p] > 3 \/ (st[p] = 3 /\ phase[p] = "sent")

\* Only the peer sends, one mail to each of the boxes 0 and 1.
PostedBy(T, peer, st) ==
    \A m \in T : \A b \in Box :
        LET sent == posted[Home[m]][b]
        IN  /\ Len(sent) <= 1
            /\ Len(sent) > 0 => \/ b = 0 /\ Greeted(st, peer[m])
                                \/ b = 1 /\ Acked(st, peer[m])
            /\ \A i \in 1..Len(sent) : sent[i].from = Home[peer[m]] /\ sent[i].reply = 1

\* What thread m has received by now.
ReceivedBy(T, peer, st) ==
    \A m \in T :
        /\ st[m] >= 3 => Len(got[Home[m]][0]) > 0
        /\ st[m] >= 5 => Len(got[Home[m]][1]) > 0
        /\ st[m] = 3 => letter[m].from = Home[peer[m]] /\ letter[m].reply = 1

\* All packets on their way go to boxes.
BoxesExist == \A n \in Node : ToBoxes(wire[n]) /\ ToBoxes(inbox[n]) /\ ToBoxes(worker[n])

Exchange(T, peer, st) ==
    Staged(T, peer, st) /\ PostedBy(T, peer, st) /\ ReceivedBy(T, peer, st) /\ BoxesExist

HaltInv ==
    \/ halted = {} /\ NeverHalts(script)
    \/ \E T, peer, st : Paired(T, peer) /\ Exchange(T, peer, st)

LEMMA HaltInvInit ==
    ASSUME HaltsAfterMailTest, MailInit
    PROVE  HaltInv
<1>1. CASE NeverHalts(script)
  BY <1>1 DEF HaltInv, MailInit
<1>2. CASE \E T, peer : Paired(T, peer) /\ RunsMailTests(script, T, peer)
  <2>1. PICK T, peer : Paired(T, peer) /\ RunsMailTests(script, T, peer)
    BY <1>2
  <2> DEFINE st == [m \in T |-> 1]
  <2>2. T \subseteq Mailer /\ peer \in [T -> T] /\ \A m \in T : Home[m] \in Node
    BY <2>1, MailAssumption DEF Paired
  <2>3. Staged(T, peer, st)
    <3>1. \A m \in T : script[m] = RestOf(Home[peer[m]], 1)
      BY <2>1, <2>2, RestProperties DEF RunsMailTests
    <3>2. \A m \in Mailer \ T : script[m] = <<>>
      BY <2>1 DEF RunsMailTests
    <3>3. DOMAIN script = Mailer /\ DOMAIN letter = Mailer
      BY DEF MailInit, HaltsAfterMailTest
    <3> QED BY <2>2, <3>1, <3>2, <3>3 DEF Staged, MailInit
  <2>4. \A n \in Node, b \in Box : posted[n][b] = <<>>
    BY DEF MailInit
  <2>5. PostedBy(T, peer, st)
    BY <2>2, <2>4 DEF PostedBy
  <2>6. ReceivedBy(T, peer, st)
    BY DEF ReceivedBy
  <2>7. BoxesExist
    BY DEF BoxesExist, ToBoxes, MailInit
  <2> QED BY <2>1, <2>3, <2>5, <2>6, <2>7 DEF HaltInv, Exchange
<1>3. script \in Scripts
  BY DEF MailInit
<1> QED BY <1>1, <1>2, <1>3 DEF HaltsAfterMailTest

\* Of scripts that never halt a machine.
LEMMA NeverHaltsNext ==
    ASSUME halted = {}, NeverHalts(script), MailNext
    PROVE  halted' = {} /\ NeverHalts(script')
<1>1. PICK C : (\A c \in C : c.call # "Halt") /\ script \in [Mailer -> Seq(C)]
  BY DEF NeverHalts
<1>2. \A m \in Mailer : script[m] # <<>> => Head(script[m]) \in C /\ Tail(script[m]) \in Seq(C)
  BY <1>1
<1>3. \A m \in Mailer : ~HaltMachine(m)
  BY <1>1, <1>2 DEF HaltMachine, Calls
<1>4. ASSUME NEW m \in Mailer, EndSend(m) \/ Receive(m) PROVE halted' = {} /\ NeverHalts(script')
  <2>1. script[m] # <<>> /\ script' = [script EXCEPT ![m] = Tail(@)] /\ halted' = halted
    BY <1>4 DEF EndSend, Receive, Calls
  <2>2. script' \in [Mailer -> Seq(C)]
    BY <1>1, <1>2, <2>1
  <2> QED BY <1>1, <2>1, <2>2 DEF NeverHalts
<1>5. ASSUME NEW m \in Mailer, AcquireSendLock(m) \/ NetworkSend(m) PROVE halted' = {} /\ NeverHalts(script')
  BY <1>5 DEF AcquireSendLock, NetworkSend
<1>6. ASSUME NEW n \in Node, Deliver(n) PROVE halted' = {} /\ NeverHalts(script')
  BY <1>6 DEF Deliver, SendDone, CheckPktAvail, PostalReceive, NetworkReceive, Put
<1> QED BY <1>3, <1>4, <1>5, <1>6 DEF MailNext, MailStep

\* A call that thread m is about to make is the one of its stage.
LEMMA CallOfStage ==
    ASSUME NEW T, NEW peer, NEW st, Paired(T, peer), Staged(T, peer, st), NEW m \in Mailer, NEW C,
           Calls(m, C)
    PROVE  /\ m \in T /\ peer[m] \in T /\ st[m] \in 1..5
           /\ Head(script[m]) = MailTest(Home[peer[m]])[st[m]]
           /\ Tail(script[m]) = RestOf(Home[peer[m]], st[m] + 1)
           /\ MailTest(Home[peer[m]])[st[m]].call \in C
<1>1. script[m] # <<>> /\ Head(script[m]).call \in C
  BY DEF Calls
<1>2. m \in T
  BY <1>1 DEF Staged
<1>3. script[m] = RestOf(Home[peer[m]], st[m]) /\ st[m] \in 1..6
  BY <1>2 DEF Staged
<1>4. st[m] # 6
  BY <1>1, <1>3, RestProperties
<1>5. st[m] \in 1..5
  BY <1>3, <1>4
<1>6. Head(script[m]) = MailTest(Home[peer[m]])[st[m]] /\ Tail(script[m]) = RestOf(Home[peer[m]], st[m] + 1)
  BY <1>3, <1>5, RestProperties
<1>7. peer[m] \in T
  BY <1>2 DEF Paired
<1> QED BY <1>1, <1>2, <1>5, <1>6, <1>7

\* The calls one by one.
LEMMA MailTestCalls ==
    ASSUME NEW far
    PROVE  /\ MailTest(far)[1] = Send0(far, 0, 1) /\ MailTest(far)[1].call = "Send"
           /\ MailTest(far)[2].call = "Receive" /\ MailTest(far)[2].box = 0
           /\ MailTest(far)[3].call = "Ack"
           /\ MailTest(far)[4].call = "Receive" /\ MailTest(far)[4].box = 1
           /\ MailTest(far)[5].call = "Halt"
  BY DEF MailTest, Send0, Receive0, Ack, Halt0

\* A step of thread m takes its stage to k.
NextCall(m, far, k) ==
    /\ script' = [script EXCEPT ![m] = RestOf(far, k)]
    /\ DOMAIN phase = Mailer
    /\ DOMAIN letter' = DOMAIN letter
    /\ phase' = [phase EXCEPT ![m] = "call"]
    /\ \/ halted' = halted
       \/ halted' = halted \cup {Home[m]} /\ k = 6
LEMMA StageMoves ==
    ASSUME NEW T, NEW peer, NEW st, Paired(T, peer), Staged(T, peer, st), NEW m \in T,
           NEW k \in 1..6, k >= st[m], NEW s2, s2 = [st EXCEPT ![m] = k],
           NextCall(m, Home[peer[m]], k)
    PROVE  Staged(T, peer, s2)'
<1>1. T \subseteq Mailer /\ st \in [T -> 1..6] /\ m \in Mailer /\ DOMAIN script = Mailer
  BY DEF Paired, Staged
<1>2. s2 \in [T -> 1..6]
  BY <1>1
<1>3. ASSUME NEW j \in T
      PROVE  script'[j] = RestOf(Home[peer[j]], s2[j]) /\ (phase'[j] # "call" => s2[j] \in {1, 3})
  BY <1>1, <1>3 DEF Staged, NextCall
<1>4. \A j \in Mailer \ T : script'[j] = <<>>
  BY <1>1 DEF Staged, NextCall
<1>5. \A n \in halted' : \E j \in T : n = Home[j] /\ s2[j] = 6
  <2> SUFFICES ASSUME NEW n \in halted' PROVE \E j \in T : n = Home[j] /\ s2[j] = 6
    OBVIOUS
  <2>1. CASE n \in halted
    <3>1. PICK j \in T : n = Home[j] /\ st[j] = 6
      BY <2>1 DEF Staged
    <3>2. s2[j] = 6
      BY <1>1, <3>1
    <3> QED BY <3>1, <3>2
  <2>2. CASE n \notin halted
    BY <1>1, <2>2 DEF NextCall
  <2> QED BY <2>1, <2>2
<1>6. DOMAIN script' = Mailer /\ DOMAIN letter' = Mailer
  BY <1>1 DEF NextCall, Staged
<1> QED BY <1>2, <1>3, <1>4, <1>5, <1>6 DEF Staged

\* The history of thread m's peer knows of no later mail when m goes on.
LEMMA PostedKept ==
    ASSUME NEW T, NEW peer, NEW st, NEW s2, PostedBy(T, peer, st), UNCHANGED posted, peer \in [T -> T],
           \A p \in T : (Greeted(st, p) => Greeted(s2, p)') /\ (Acked(st, p) => Acked(s2, p)')
    PROVE  PostedBy(T, peer, s2)'
<1> SUFFICES ASSUME NEW m \in T, NEW b \in Box
             PROVE  LET sent == posted'[Home[m]][b]
                    IN  /\ Len(sent) <= 1
                        /\ Len(sent) > 0 => \/ b = 0 /\ Greeted(s2, peer[m])'
                                            \/ b = 1 /\ Acked(s2, peer[m])'
                        /\ \A i \in 1..Len(sent) : sent[i].from = Home[peer[m]] /\ sent[i].reply = 1
  BY DEF PostedBy
<1> PICK p \in T : p = peer[m]
  OBVIOUS
<1> QED BY DEF PostedBy

\* The postal worker and the device move packets on.
LEMMA BoxesExistKept ==
    ASSUME MailInv, BoxesExist, NEW n \in Node, Deliver(n)
    PROVE  BoxesExist'
<1> PICK S : MailTyped(S)
  BY DEF MailInv
<1>0. /\ wire \in [Node -> Seq(S)] /\ inbox \in [Node -> Seq(S)] /\ worker \in [Node -> Seq(S)]
  BY DEF MailTyped
<1>1. CASE SendDone(n)
  BY <1>1 DEF SendDone, BoxesExist
<1>2. CASE CheckPktAvail(n)
  <2> PICK w \in Seq(S) : w = wire[n]
    BY <1>0
  <2>1. /\ w # <<>> /\ inbox' = [inbox EXCEPT ![n] = <<Head(w)>>] /\ wire' = [wire EXCEPT ![n] = Tail(w)] /\ worker' = worker
    BY <1>2 DEF CheckPktAvail
  <2>2. ToBoxes(w)
    BY DEF BoxesExist
  <2>3. ToBoxes(Tail(w)) /\ ToBoxes(<<Head(w)>>)
    BY <2>1, <2>2 DEF ToBoxes
  <2> QED BY <1>0, <2>1, <2>3 DEF BoxesExist
<1>3. CASE PostalReceive(n)
  <2>1. /\ worker' = [worker EXCEPT ![n] = inbox[n]] /\ inbox' = [inbox EXCEPT ![n] = <<>>] /\ wire' = wire
    BY <1>3 DEF PostalReceive, NetworkReceive
  <2>2. ToBoxes(<<>>)
    BY DEF ToBoxes
  <2> QED BY <1>0, <2>1, <2>2 DEF BoxesExist
<1>4. CASE Put(n)
  <2>1. /\ worker' = [worker EXCEPT ![n] = <<>>] /\ UNCHANGED <<inbox, wire>>
    BY <1>4 DEF Put
  <2>2. ToBoxes(<<>>)
    BY DEF ToBoxes
  <2> QED BY <1>0, <2>1, <2>2 DEF BoxesExist
<1> QED BY <1>1, <1>2, <1>3, <1>4 DEF Deliver

Goes(T, peer) == \E s2 : Exchange(T, peer, s2)'

LEMMA ExchangeAcquire ==
    ASSUME PostInv, NEW T, NEW peer, NEW st, Paired(T, peer), Exchange(T, peer, st),
           NEW m \in Mailer, AcquireSendLock(m)
    PROVE  Goes(T, peer)
<1>0. Staged(T, peer, st) /\ PostedBy(T, peer, st) /\ ReceivedBy(T, peer, st) /\ BoxesExist
  BY DEF Exchange
<1>1. /\ Calls(m, {"Send", "Ack"}) /\ phase[m] = "call" /\ phase' = [phase EXCEPT ![m] = "send"]
      /\ UNCHANGED <<script, halted, letter, posted, got, wire, inbox, worker>>
  BY DEF AcquireSendLock
<1>2. m \in T /\ st[m] \in 1..5 /\ MailTest(Home[peer[m]])[st[m]].call \in {"Send", "Ack"}
  BY <1>0, <1>1, CallOfStage
<1>3. st[m] \in {1, 3}
  BY <1>2, MailTestCalls
<1>4. phase \in [Mailer -> {"call", "send", "sent"}] /\ T \subseteq Mailer /\ peer \in [T -> T]
  BY DEF PostInv, PostTypeOK, Paired
<1>5. Staged(T, peer, st)'
  BY <1>0, <1>1, <1>3, <1>4 DEF Staged
<1>6. PostedBy(T, peer, st)'
  <2>1. \A p \in T : (Greeted(st, p) => Greeted(st, p)') /\ (Acked(st, p) => Acked(st, p)')
    BY <1>1, <1>4 DEF Greeted, Acked
  <2> QED BY <1>0, <1>1, <1>4, <2>1, PostedKept
<1>7. ReceivedBy(T, peer, st)' /\ BoxesExist'
  BY <1>0, <1>1 DEF ReceivedBy, BoxesExist
<1> QED BY <1>5, <1>6, <1>7 DEF Goes, Exchange

LEMMA ExchangeEnd ==
    ASSUME PostInv, NEW T, NEW peer, NEW st, Paired(T, peer), Exchange(T, peer, st),
           NEW m \in Mailer, EndSend(m)
    PROVE  Goes(T, peer)
<1>0. Staged(T, peer, st) /\ PostedBy(T, peer, st) /\ ReceivedBy(T, peer, st) /\ BoxesExist
  BY DEF Exchange
<1>1. /\ Calls(m, {"Send", "Ack"}) /\ phase[m] = "sent" /\ phase' = [phase EXCEPT ![m] = "call"]
      /\ script' = [script EXCEPT ![m] = Tail(script[m])]
      /\ UNCHANGED <<halted, letter, posted, got, wire, inbox, worker>>
  BY DEF EndSend
<1>2. /\ m \in T /\ st[m] \in 1..5 /\ MailTest(Home[peer[m]])[st[m]].call \in {"Send", "Ack"}
      /\ Tail(script[m]) = RestOf(Home[peer[m]], st[m] + 1)
  BY <1>0, <1>1, CallOfStage
<1>3. st[m] \in {1, 3}
  BY <1>2, MailTestCalls
<1>4. phase \in [Mailer -> {"call", "send", "sent"}] /\ T \subseteq Mailer /\ peer \in [T -> T]
  BY DEF PostInv, PostTypeOK, Paired
<1>5. st \in [T -> 1..6]
  BY <1>0 DEF Staged
<1> PICK k \in 1..6 : k = st[m] + 1
  BY <1>3
<1> PICK s2 : s2 = [st EXCEPT ![m] = k]
  OBVIOUS
<1>6. Staged(T, peer, s2)'
  <2>1. script' = [script EXCEPT ![m] = RestOf(Home[peer[m]], k)] /\ DOMAIN phase = Mailer
    BY <1>1, <1>2, <1>4
  <2>2. k >= st[m]
    BY <1>3
  <2>3. NextCall(m, Home[peer[m]], k)
    BY <1>1, <2>1 DEF NextCall
  <2> QED BY <1>0, <1>2, <2>2, <2>3, StageMoves
<1>7. PostedBy(T, peer, s2)'
  <2>1. ASSUME NEW p \in T PROVE (Greeted(st, p) => Greeted(s2, p)') /\ (Acked(st, p) => Acked(s2, p)')
    <3>1. CASE p = m
      <4>1. s2[m] = st[m] + 1 /\ phase[m] = "sent"
        BY <1>1, <1>2, <1>5
      <4>2. s2[m] > 1 /\ (st[m] = 3 => s2[m] > 3) /\ ~(st[m] > 3)
        BY <1>3, <4>1
      <4> QED BY <3>1, <4>2 DEF Greeted, Acked
    <3>2. CASE p # m
      BY <1>1, <1>4, <1>5, <3>2 DEF Greeted, Acked
    <3> QED BY <3>1, <3>2
  <2> QED BY <1>0, <1>1, <1>4, <2>1, PostedKept
<1>8. ReceivedBy(T, peer, s2)' /\ BoxesExist'
  BY <1>0, <1>1, <1>3, <1>5 DEF ReceivedBy, BoxesExist
<1> QED BY <1>6, <1>7, <1>8 DEF Goes, Exchange

LEMMA ExchangeHalt ==
    ASSUME PostInv, NEW T, NEW peer, NEW st, Paired(T, peer), Exchange(T, peer, st),
           NEW m \in Mailer, HaltMachine(m)
    PROVE  Goes(T, peer)
<1>0. Staged(T, peer, st) /\ PostedBy(T, peer, st) /\ ReceivedBy(T, peer, st) /\ BoxesExist
  BY DEF Exchange
<1>1. /\ Calls(m, {"Halt"}) /\ halted' = halted \cup {Home[m]}
      /\ script' = [script EXCEPT ![m] = <<>>]
      /\ UNCHANGED <<phase, letter, posted, got, wire, inbox, worker>>
  BY DEF HaltMachine
<1>2. m \in T /\ st[m] \in 1..5 /\ MailTest(Home[peer[m]])[st[m]].call \in {"Halt"}
  BY <1>0, <1>1, CallOfStage
<1>3. st[m] = 5
  BY <1>2, MailTestCalls
<1>4. phase \in [Mailer -> {"call", "send", "sent"}] /\ T \subseteq Mailer /\ peer \in [T -> T]
  BY DEF PostInv, PostTypeOK, Paired
<1>5. st \in [T -> 1..6] /\ phase[m] = "call"
  BY <1>0, <1>2, <1>3 DEF Staged
<1> PICK s2 : s2 = [st EXCEPT ![m] = 6]
  OBVIOUS
<1>6. Staged(T, peer, s2)'
  <2>1. phase' = [phase EXCEPT ![m] = "call"]
    BY <1>1, <1>4, <1>5
  <2>2. script' = [script EXCEPT ![m] = RestOf(Home[peer[m]], 6)]
    BY <1>1, RestProperties
  <2>3. 6 \in 1..6 /\ 6 >= st[m]
    BY <1>3
  <2>4. NextCall(m, Home[peer[m]], 6)
    BY <1>1, <1>4, <2>1, <2>2 DEF NextCall
  <2> QED BY <1>0, <1>2, <2>3, <2>4, StageMoves
<1>7. PostedBy(T, peer, s2)'
  <2>1. ASSUME NEW p \in T PROVE (Greeted(st, p) => Greeted(s2, p)') /\ (Acked(st, p) => Acked(s2, p)')
    BY <1>1, <1>3, <1>5 DEF Greeted, Acked
  <2> QED BY <1>0, <1>1, <1>4, <2>1, PostedKept
<1>8. ReceivedBy(T, peer, s2)' /\ BoxesExist'
  BY <1>0, <1>1, <1>3, <1>5 DEF ReceivedBy, BoxesExist
<1> QED BY <1>6, <1>7, <1>8 DEF Goes, Exchange

\* The mail of a call of MailTest.
LEMMA MailTestMail ==
    ASSUME NEW T, NEW peer, NEW st, Paired(T, peer), Exchange(T, peer, st),
           NEW m \in Mailer, Calls(m, {"Send", "Ack"})
    PROVE  /\ m \in T /\ peer[m] \in T /\ st[m] \in {1, 3}
           /\ MailOf(m).from = Home[m] /\ MailOf(m).to = Home[peer[m]] /\ MailOf(m).reply = 1
           /\ MailOf(m).box = IF st[m] = 1 THEN 0 ELSE 1
<1>0. Staged(T, peer, st) /\ ReceivedBy(T, peer, st)
  BY DEF Exchange
<1>1. /\ m \in T /\ peer[m] \in T /\ st[m] \in 1..5
      /\ Head(script[m]) = MailTest(Home[peer[m]])[st[m]]
      /\ MailTest(Home[peer[m]])[st[m]].call \in {"Send", "Ack"}
  BY <1>0, CallOfStage
<1>2. st[m] \in {1, 3}
  BY <1>1, MailTestCalls
<1>3. CASE st[m] = 1
  <2>1. Head(script[m]) = Send0(Home[peer[m]], 0, 1) /\ Head(script[m]).call = "Send"
    BY <1>1, <1>3, MailTestCalls
  <2> QED BY <1>1, <1>3, <2>1 DEF MailOf, Send0
<1>4. CASE st[m] = 3
  <2>1. Head(script[m]).call = "Ack"
    BY <1>1, <1>4, MailTestCalls
  <2>2. letter[m].from = Home[peer[m]] /\ letter[m].reply = 1
    BY <1>0, <1>1, <1>4 DEF ReceivedBy
  <2> QED BY <1>1, <1>4, <2>1, <2>2 DEF MailOf
<1> QED BY <1>1, <1>2, <1>3, <1>4

LEMMA ExchangeSend ==
    ASSUME HaltsAfterMailTest, MailInv, PostInv, NEW T, NEW peer, NEW st, Paired(T, peer), Exchange(T, peer, st),
           NEW m \in Mailer, NetworkSend(m)
    PROVE  Goes(T, peer)
<1>0. Staged(T, peer, st) /\ PostedBy(T, peer, st) /\ ReceivedBy(T, peer, st) /\ BoxesExist
  BY DEF Exchange
<1>1. /\ Calls(m, {"Send", "Ack"}) /\ phase[m] = "send" /\ phase' = [phase EXCEPT ![m] = "sent"]
      /\ UNCHANGED <<script, halted, letter, got, inbox, worker>>
  BY DEF NetworkSend
<1>2. PICK p : p = MailOf(m)
  OBVIOUS
<1>3. PICK k : k = peer[m]
  OBVIOUS
<1>4. /\ m \in T /\ k \in T /\ st[m] \in {1, 3}
      /\ p.from = Home[m] /\ p.to = Home[k] /\ p.reply = 1
      /\ p.box = IF st[m] = 1 THEN 0 ELSE 1
  BY <1>1, <1>2, <1>3, MailTestMail
<1>5. /\ phase \in [Mailer -> {"call", "send", "sent"}] /\ T \subseteq Mailer /\ peer \in [T -> T]
      /\ peer[k] = m /\ Home[k] \in Node /\ p.box \in Box
      /\ \A j \in T : Home[j] = Home[k] => j = k
  BY <1>3, <1>4, MailAssumption DEF PostInv, PostTypeOK, Paired, HaltsAfterMailTest
<1>6. Staged(T, peer, st)'
  BY <1>0, <1>1, <1>4, <1>5 DEF Staged
<1>7. ReceivedBy(T, peer, st)'
  BY <1>0, <1>1 DEF ReceivedBy
<1>8. \A j \in T : (Greeted(st, j) => Greeted(st, j)') /\ (Acked(st, j) => Acked(st, j)')
  BY <1>1, <1>5 DEF Greeted, Acked
<1>9. CASE UNCHANGED <<wire, posted>>
  <2>1. PostedBy(T, peer, st)'
    BY <1>0, <1>5, <1>8, <1>9, PostedKept
  <2>2. BoxesExist'
    BY <1>0, <1>1, <1>9 DEF BoxesExist
  <2> QED BY <1>6, <1>7, <2>1, <2>2 DEF Goes, Exchange
<1>10. CASE ~UNCHANGED <<wire, posted>>
  <2>1. /\ wire' = [wire EXCEPT ![Home[k]] = Append(@, p)]
        /\ posted' = [posted EXCEPT ![Home[k]][p.box] = Append(@, p)]
    BY <1>2, <1>4, <1>10 DEF NetworkSend
  <2>2. PICK S : MailTyped(S)
    BY DEF MailInv
  <2>3. wire \in [Node -> Seq(S)] /\ posted \in [Node -> [Box -> Seq(S)]]
    BY <2>2 DEF MailTyped
  <2>4. BoxesExist'
    <3>1. PICK w \in Seq(S) : w = wire[Home[k]]
      BY <1>5, <2>3
    <3>2. ToBoxes(w)
      BY <1>0, <1>5, <3>1 DEF BoxesExist
    <3>3. ToBoxes(Append(w, p))
      BY <1>5, <3>2 DEF ToBoxes
    <3>4. \A n \in Node : wire'[n] = IF n = Home[k] THEN Append(w, p) ELSE wire[n]
      BY <2>1, <2>3, <3>1
    <3> QED BY <1>0, <1>1, <3>3, <3>4 DEF BoxesExist
  <2>5. Len(posted[Home[k]][p.box]) = 0
    <3>1. posted[Home[k]][p.box] \in Seq(S)
      BY <1>5, <2>3
    <3>2. ~Greeted(st, m) \/ st[m] = 3
      BY <1>1, <1>4 DEF Greeted
    <3>3. ~Acked(st, m)
      BY <1>1, <1>4 DEF Acked
    <3>4. ~(Len(posted[Home[k]][p.box]) > 0)
      BY <1>0, <1>4, <1>5, <3>2, <3>3 DEF PostedBy
    <3> QED BY <3>1, <3>4
  <2>6. posted'[Home[k]][p.box] = <<p>>
    <3>1. PICK w \in Seq(S) : w = posted[Home[k]][p.box]
      BY <1>5, <2>3
    <3>2. w = <<>>
      BY <2>5, <3>1
    <3>3. posted'[Home[k]][p.box] = Append(w, p)
      BY <1>5, <2>1, <2>3, <3>1
    <3> QED BY <3>2, <3>3
  <2>7. \A n \in Node, b \in Box : n # Home[k] \/ b # p.box => posted'[n][b] = posted[n][b]
    BY <1>5, <2>1, <2>3
  <2>8. (p.box = 0 /\ Greeted(st, m)') \/ (p.box = 1 /\ Acked(st, m)')
    BY <1>1, <1>4, <1>5 DEF Greeted, Acked
  <2>9. PostedBy(T, peer, st)'
    <3> SUFFICES ASSUME NEW j \in T, NEW b \in Box
                 PROVE  LET sent == posted'[Home[j]][b]
                        IN  /\ Len(sent) <= 1
                            /\ Len(sent) > 0 => \/ b = 0 /\ Greeted(st, peer[j])'
                                                \/ b = 1 /\ Acked(st, peer[j])'
                            /\ \A i \in 1..Len(sent) : sent[i].from = Home[peer[j]] /\ sent[i].reply = 1
      BY DEF PostedBy
    <3>1. CASE j = k /\ b = p.box
      <4>1. PICK q : q = <<p>>
        OBVIOUS
      <4>2. Len(q) = 1 /\ \A i \in 1..Len(q) : q[i] = p
        BY <4>1
      <4>3. posted'[Home[j]][b] = q /\ peer[j] = m
        BY <1>5, <2>6, <3>1, <4>1
      <4>4. \/ b = 0 /\ Greeted(st, m)'
            \/ b = 1 /\ Acked(st, m)'
        BY <2>8, <3>1
      <4>5. \/ b = 0 /\ Greeted(st, peer[j])'
            \/ b = 1 /\ Acked(st, peer[j])'
        BY <4>3, <4>4
      <4>6. \A i \in 1..Len(q) : q[i].from = Home[peer[j]] /\ q[i].reply = 1
        BY <1>4, <4>2, <4>3
      <4>7. Len(posted'[Home[j]][b]) <= 1
        <5>1. Len(q) <= 1
          BY <4>1
        <5> QED BY <4>3, <5>1
      <4>8. \A i \in 1..Len(posted'[Home[j]][b]) :
               posted'[Home[j]][b][i].from = Home[peer[j]] /\ posted'[Home[j]][b][i].reply = 1
        BY <4>3, <4>6
      <4> QED BY <4>5, <4>7, <4>8
    <3>2. CASE ~(j = k /\ b = p.box)
      <4>1. Home[j] \in Node /\ (Home[j] # Home[k] \/ b # p.box)
        BY <1>5, <3>2, MailAssumption
      <4>2. posted'[Home[j]][b] = posted[Home[j]][b] /\ peer[j] \in T
        BY <1>5, <2>7, <4>1
      <4> QED BY <1>0, <1>8, <4>2 DEF PostedBy
    <3> QED BY <3>1, <3>2
  <2> QED BY <1>6, <1>7, <2>4, <2>9 DEF Goes, Exchange
<1> QED BY <1>9, <1>10

LEMMA ExchangeReceive ==
    ASSUME HaltsAfterMailTest, MailInv, PostInv, NEW T, NEW peer, NEW st, Paired(T, peer), Exchange(T, peer, st),
           NEW m \in Mailer, Receive(m)
    PROVE  Goes(T, peer)
<1>0. Staged(T, peer, st) /\ PostedBy(T, peer, st) /\ ReceivedBy(T, peer, st) /\ BoxesExist
  BY DEF Exchange
<1>1. PICK n, b : n = Home[m] /\ b = Head(script[m]).box
  OBVIOUS
<1>2. /\ Calls(m, {"Receive"}) /\ boxes[n][b] # <<>>
      /\ letter' = [letter EXCEPT ![m] = Head(boxes[n][b])]
      /\ got' = [got EXCEPT ![n][b] = Append(@, Head(boxes[n][b]))]
      /\ script' = [script EXCEPT ![m] = Tail(script[m])]
      /\ UNCHANGED <<phase, halted, wire, inbox, worker, posted>>
  BY <1>1 DEF Receive
<1>3. /\ m \in T /\ st[m] \in 1..5 /\ MailTest(Home[peer[m]])[st[m]].call \in {"Receive"}
      /\ Head(script[m]) = MailTest(Home[peer[m]])[st[m]]
      /\ Tail(script[m]) = RestOf(Home[peer[m]], st[m] + 1)
  BY <1>0, <1>2, CallOfStage
<1>4. st[m] \in {2, 4}
  BY <1>3, MailTestCalls
<1>5. b = IF st[m] = 2 THEN 0 ELSE 1
  BY <1>1, <1>3, <1>4, MailTestCalls
<1>6. /\ phase \in [Mailer -> {"call", "send", "sent"}] /\ T \subseteq Mailer /\ peer \in [T -> T]
      /\ n \in Node /\ b \in Box /\ {0, 1} \subseteq Box
      /\ \A j \in T : Home[j] = n => j = m
  BY <1>1, <1>3, <1>4, <1>5, MailAssumption DEF PostInv, PostTypeOK, Paired, HaltsAfterMailTest
<1>7. st \in [T -> 1..6] /\ phase[m] = "call"
  BY <1>0, <1>3, <1>4 DEF Staged
<1>8. PICK k \in 1..6 : k = st[m] + 1
  BY <1>4
<1>9. PICK s2 : s2 = [st EXCEPT ![m] = k]
  OBVIOUS
<1>10. Staged(T, peer, s2)'
  <2>1. script' = [script EXCEPT ![m] = RestOf(Home[peer[m]], k)] /\ DOMAIN phase = Mailer
    BY <1>2, <1>3, <1>6, <1>8
  <2>2. k >= st[m] /\ phase' = [phase EXCEPT ![m] = "call"]
    BY <1>2, <1>4, <1>6, <1>7, <1>8
  <2>3. NextCall(m, Home[peer[m]], k)
    BY <1>2, <2>1, <2>2 DEF NextCall
  <2> QED BY <1>0, <1>3, <1>9, <2>2, <2>3, StageMoves
<1>11. PostedBy(T, peer, s2)'
  <2>1. ASSUME NEW p \in T PROVE (Greeted(st, p) => Greeted(s2, p)') /\ (Acked(st, p) => Acked(s2, p)')
    BY <1>2, <1>4, <1>7, <1>8, <1>9 DEF Greeted, Acked
  <2> QED BY <1>0, <1>2, <1>6, <2>1, PostedKept
<1>12. BoxesExist'
  BY <1>0, <1>2 DEF BoxesExist
<1>13. Head(boxes[n][b]).from = Home[peer[m]] /\ Head(boxes[n][b]).reply = 1
  <2>1. PICK i \in 1..Len(posted[n][b]) : Head(boxes[n][b]) = posted[n][b][i]
    BY <1>2, <1>6, HeadWasPosted
  <2> QED BY <1>0, <1>1, <1>3, <1>6, <2>1 DEF PostedBy
<1>14. PICK S : MailTyped(S)
  BY DEF MailInv
<1>15. got \in [Node -> [Box -> Seq(S)]] /\ Head(boxes[n][b]) \in S
  <2>1. boxes[n][b] \in Seq(S)
    BY <1>6, <1>14 DEF MailTyped
  <2> QED BY <1>2, <1>14, <2>1 DEF MailTyped
<1>16. Len(got'[n][b]) > 0
  <2>1. PICK w \in Seq(S), h \in S : w = got[n][b] /\ h = Head(boxes[n][b])
    BY <1>6, <1>15
  <2>2. got'[n][b] = Append(w, h)
    BY <1>2, <1>6, <1>15, <2>1
  <2> QED BY <2>2
<1>17. \A x \in Node, c \in Box : x # n \/ c # b => got'[x][c] = got[x][c]
  BY <1>2, <1>6, <1>15
<1>18. ReceivedBy(T, peer, s2)'
  <2> SUFFICES ASSUME NEW j \in T
               PROVE  /\ s2[j] >= 3 => Len(got'[Home[j]][0]) > 0
                      /\ s2[j] >= 5 => Len(got'[Home[j]][1]) > 0
                      /\ s2[j] = 3 => letter'[j].from = Home[peer[j]] /\ letter'[j].reply = 1
    BY DEF ReceivedBy
  <2>1. CASE j = m
    <3>1. s2[j] = k /\ Home[j] = n
      BY <1>1, <1>7, <1>9, <2>1
    <3>2. CASE st[m] = 2
      <4>1. k = 3 /\ b = 0
        BY <1>5, <1>8, <3>2
      <4>2. letter'[m] = Head(boxes[n][b])
        BY <1>0, <1>2 DEF Staged
      <4> QED BY <1>13, <1>16, <2>1, <3>1, <4>1, <4>2
    <3>3. CASE st[m] = 4
      <4>1. k = 5 /\ b = 1
        BY <1>5, <1>8, <3>3
      <4>2. Len(got[n][0]) > 0
        BY <1>0, <1>1, <1>3, <3>3 DEF ReceivedBy
      <4>3. got'[n][0] = got[n][0]
        BY <1>6, <1>17, <4>1
      <4> QED BY <1>16, <3>1, <4>1, <4>2, <4>3
    <3> QED BY <1>4, <3>2, <3>3
  <2>2. CASE j # m
    <3>1. s2[j] = st[j] /\ Home[j] # n /\ Home[j] \in Node
      BY <1>6, <1>7, <1>9, <2>2, MailAssumption
    <3>2. letter'[j] = letter[j]
      BY <1>2, <2>2
    <3>3. got'[Home[j]][0] = got[Home[j]][0] /\ got'[Home[j]][1] = got[Home[j]][1]
      BY <1>6, <1>17, <3>1
    <3> QED BY <1>0, <3>1, <3>2, <3>3 DEF ReceivedBy
  <2> QED BY <2>1, <2>2
<1> QED BY <1>10, <1>11, <1>12, <1>18 DEF Goes, Exchange

LEMMA ExchangeDeliver ==
    ASSUME MailInv, NEW T, NEW peer, NEW st, Exchange(T, peer, st), NEW n \in Node, Deliver(n)
    PROVE  Goes(T, peer)
<1>0. Staged(T, peer, st) /\ PostedBy(T, peer, st) /\ ReceivedBy(T, peer, st) /\ BoxesExist
  BY DEF Exchange
<1>1. UNCHANGED <<script, phase, halted, letter, posted, got>>
  BY DEF Deliver, SendDone, CheckPktAvail, PostalReceive, Put
<1>2. Staged(T, peer, st)'
  BY <1>0, <1>1 DEF Staged
<1>3. PostedBy(T, peer, st)'
  BY <1>0, <1>1 DEF PostedBy, Greeted, Acked
<1>4. ReceivedBy(T, peer, st)'
  BY <1>0, <1>1 DEF ReceivedBy
<1>5. BoxesExist'
  BY <1>0, BoxesExistKept
<1> QED BY <1>2, <1>3, <1>4, <1>5 DEF Goes, Exchange

LEMMA HaltInvNext ==
    ASSUME HaltsAfterMailTest, MailInv, PostInv, HaltInv, [MailNext]_mailVars
    PROVE  HaltInv'
<1>1. CASE UNCHANGED mailVars
  <2>1. UNCHANGED <<script, phase, halted, letter, posted, got, wire, inbox, worker>>
    BY <1>1 DEF mailVars
  <2>2. ASSUME NEW T, NEW peer, NEW st, Exchange(T, peer, st) PROVE Exchange(T, peer, st)'
    BY <2>1, <2>2 DEF Exchange, Staged, PostedBy, Greeted, Acked, ReceivedBy, BoxesExist
  <2> QED BY <2>1, <2>2 DEF HaltInv
<1>2. CASE MailNext /\ halted = {} /\ NeverHalts(script)
  BY <1>2, NeverHaltsNext DEF HaltInv
<1>3. ASSUME MailNext, NEW T, NEW peer, NEW st, Paired(T, peer), Exchange(T, peer, st)
      PROVE  HaltInv'
  <2>1. Goes(T, peer)
    <3>1. ASSUME NEW m \in Mailer, MailStep(m) PROVE Goes(T, peer)
      BY <1>3, <3>1, ExchangeAcquire, ExchangeSend, ExchangeEnd, ExchangeReceive, ExchangeHalt DEF MailStep
    <3>2. ASSUME NEW n \in Node, Deliver(n) PROVE Goes(T, peer)
      BY <1>3, <3>2, ExchangeDeliver
    <3> QED BY <1>3, <3>1, <3>2 DEF MailNext
  <2> QED BY <1>3, <2>1 DEF Goes, HaltInv
<1> QED BY <1>1, <1>2, <1>3 DEF HaltInv

\* A machine halts after it has received both mails that its peer sends.
LEMMA HaltInvLeaves ==
    ASSUME MailInv, HaltInv, HaltsAfterMailTest
    PROVE  HaltLeavesNothing
<1>1. CASE halted = {}
  BY <1>1 DEF HaltLeavesNothing
<1>2. ASSUME NEW T, NEW peer, NEW st, Paired(T, peer), Exchange(T, peer, st)
      PROVE  HaltLeavesNothing
  <2>0. Staged(T, peer, st) /\ PostedBy(T, peer, st) /\ ReceivedBy(T, peer, st) /\ BoxesExist
    BY <1>2 DEF Exchange
  <2> SUFFICES ASSUME NEW n \in halted
               PROVE  /\ wire[n] = <<>> /\ inbox[n] = <<>>
                      /\ \A m \in Mailer : Calls(m, {"Send", "Ack"}) => MailOf(m).to # n \/ phase[m] = "sent"
    BY DEF HaltLeavesNothing
  <2>1. PICK j \in T : n = Home[j] /\ st[j] = 6
    BY <2>0 DEF Staged
  <2>2. n \in Node /\ T \subseteq Mailer /\ peer \in [T -> T] /\ {0, 1} \subseteq Box
    BY <1>2, <2>1, MailAssumption DEF Paired, HaltsAfterMailTest
  <2>3. PICK S : MailTyped(S)
    BY DEF MailInv
  <2>4. \A b \in Box : posted[n][b] \in Seq(S) /\ got[n][b] \in Seq(S)
    BY <2>2, <2>3 DEF MailTyped
  <2>5. Len(got[n][0]) > 0 /\ Len(got[n][1]) > 0
    BY <2>0, <2>1 DEF ReceivedBy
  <2>6. ASSUME NEW b \in Box PROVE Len(posted[n][b]) <= Len(got[n][b])
    <3>1. Len(posted[n][b]) <= 1 /\ (Len(posted[n][b]) > 0 => b \in {0, 1})
      BY <2>0, <2>1 DEF PostedBy
    <3>2. Len(posted[n][b]) \in Nat /\ Len(got[n][b]) \in Nat
      BY <2>4
    <3> QED BY <2>5, <3>1, <3>2
  <2>7. wire[n] = <<>> /\ inbox[n] = <<>>
    BY <2>0, <2>2, <2>6, NothingOnTheWay DEF BoxesExist
  <2>8. ASSUME NEW m \in Mailer, Calls(m, {"Send", "Ack"}), MailOf(m).to = n
        PROVE  phase[m] = "sent"
    <3>1. m \in T /\ peer[m] \in T /\ st[m] \in {1, 3} /\ Home[peer[m]] = n
      BY <1>2, <2>8, MailTestMail
    <3>2. peer[m] = j /\ peer[j] = m
      BY <1>2, <2>1, <3>1 DEF Paired
    <3>3. Len(posted[n][1]) > 0
      BY <2>2, <2>5, ReceivedWasPosted
    <3>4. Acked(st, m)
      BY <2>0, <2>1, <2>2, <3>2, <3>3 DEF PostedBy
    <3> QED BY <3>1, <3>4 DEF Acked
  <2> QED BY <2>7, <2>8
<1> QED BY <1>1, <1>2 DEF HaltInv

\* When a machine halts at the end of MailTest nobody has anything for it any
\* more: for any number of pairs of machines, with loss too.
THEOREM HaltLeavesNothingSafe ==
    ASSUME HaltsAfterMailTest
    PROVE  MailSpec => []HaltLeavesNothing
<1>1. MailInit => HaltInv
  BY HaltInvInit
<1>2. MailInv /\ PostInv /\ HaltInv /\ [MailNext]_mailVars => HaltInv'
  BY HaltInvNext
<1>3. MailInv /\ HaltInv => HaltLeavesNothing
  BY HaltInvLeaves
<1>4. PostInv /\ MailInv /\ [MailNext]_mailVars => MailInv'
  BY MailInvNext DEF PostInv
<1> QED BY <1>1, <1>2, <1>3, <1>4, MailInvInit, PostInvariant, PTL DEF MailSpec

-----------------------------------------------------------------------------
(***************************************************************************)
(* The elevator bank.  No lift in motion and no posted event is without an *)
(* interrupt to come, and a lift only moves towards its destination.       *)
(***************************************************************************)
LiftTypeOK ==
    /\ inMotion \in [Lift -> BOOLEAN]
    /\ lastFloor \in [Lift -> Int]
    /\ goingTo \in [Lift -> Int]
    /\ arrive \in [Lift -> Int]
    /\ ints \in [0..DelayPerFloor -> Nat]
    /\ wakeup \in [{"rider", "controller"} -> Nat]
    /\ waiting \subseteq {"rider", "controller"}

LiftInv == LiftTypeOK /\ LiftHasInterrupt /\ EventNotified

\* A lift in motion has somewhere to go; needs RedirectBack FALSE.
HasWay == \A e \in Lift : inMotion[e] => goingTo[e] # lastFloor[e]

-----------------------------------------------------------------------------
LEMMA LiftInvInit == ElevatorInit => LiftInv /\ HasWay
<1> SUFFICES ASSUME ElevatorInit PROVE LiftInv /\ HasWay
  OBVIOUS
<1> USE ElevatorAssumption DEF ElevatorInit
<1>1. LiftTypeOK
  BY DEF LiftTypeOK
<1>2. LiftHasInterrupt /\ EventNotified /\ HasWay
  BY DEF LiftHasInterrupt, EventNotified, HasWay
<1> QED BY <1>1, <1>2 DEF LiftInv

\* An interrupt more keeps what waits for one.
LEMMA MorePending ==
    ASSUME ints \in [0..DelayPerFloor -> Nat], NEW k \in 0..DelayPerFloor,
           ints' = Schedule(ints, k)
    PROVE  /\ ints' \in [0..DelayPerFloor -> Nat]
           /\ Pending' = Pending \cup {k}
  BY ElevatorAssumption DEF Schedule, Pending

\* The calls of the controller.
LEMMA ControllerKeeps == LiftInv /\ ControllerStep => LiftInv'
<1> SUFFICES ASSUME LiftInv, NEW e \in Lift,
                    OpenDoors(e) \/ CloseDoors(e) \/ \E f \in Floor : MoveTo(f, e)
             PROVE  LiftInv'
  BY DEF ControllerStep
<1> USE ElevatorAssumption
<1>0. LiftTypeOK /\ LiftHasInterrupt /\ EventNotified
  BY DEF LiftInv
<1>1. CASE OpenDoors(e)
  <2>1. /\ ints' = Schedule(ints, 1) /\ 1 \in 0..DelayPerFloor
        /\ UNCHANGED <<inMotion, lastFloor, goingTo, arrive, wakeup, waiting>>
    BY <1>1 DEF OpenDoors
  <2>2. ints' \in [0..DelayPerFloor -> Nat] /\ Pending' = Pending \cup {1}
    BY <1>0, <2>1, MorePending DEF LiftTypeOK
  <2> QED BY <1>0, <2>1, <2>2 DEF LiftInv, LiftTypeOK, LiftHasInterrupt, EventNotified
<1>2. CASE CloseDoors(e)
  <2>1. UNCHANGED <<inMotion, lastFloor, goingTo, arrive, ints, controllerEvents,
                    riderEvents, wakeup, waiting>>
    BY <1>2 DEF CloseDoors
  <2> QED
    BY <1>0, <2>1
       DEF LiftInv, LiftTypeOK, LiftHasInterrupt, EventNotified, Pending, EventsOf
<1>3. ASSUME NEW f \in Floor, MoveTo(f, e) PROVE LiftInv'
  <2>0. /\ goingTo' = [goingTo EXCEPT ![e] = f] /\ f \in Int
        /\ UNCHANGED <<lastFloor, controllerEvents, riderEvents, wakeup, waiting>>
    BY <1>3 DEF MoveTo, Floor
  <2>1. CASE inMotion[e]
    <3>1. UNCHANGED <<inMotion, arrive, ints>>
      BY <1>3, <2>1 DEF MoveTo
    <3> QED
      BY <1>0, <2>0, <3>1
         DEF LiftInv, LiftTypeOK, LiftHasInterrupt, EventNotified, Pending, EventsOf
  <2>2. CASE ~inMotion[e]
    <3>1. /\ inMotion' = [inMotion EXCEPT ![e] = TRUE]
          /\ arrive' = [arrive EXCEPT ![e] = DelayPerFloor]
          /\ ints' = Schedule(ints, DelayPerFloor) /\ DelayPerFloor \in 0..DelayPerFloor
      BY <1>3, <2>2 DEF MoveTo
    <3>2. ints' \in [0..DelayPerFloor -> Nat] /\ Pending' = Pending \cup {DelayPerFloor}
      BY <1>0, <3>1, MorePending DEF LiftTypeOK
    <3>3. LiftTypeOK'
      BY <1>0, <2>0, <3>1, <3>2 DEF LiftTypeOK
    <3>4. LiftHasInterrupt'
      <4> SUFFICES ASSUME NEW g \in Lift, inMotion'[g]
                   PROVE  \E k \in Pending' : k >= arrive'[g]
        BY DEF LiftHasInterrupt
      <4>1. CASE g = e
        <5>1. arrive'[g] = DelayPerFloor /\ DelayPerFloor \in Pending'
          BY <1>0, <3>1, <3>2, <4>1 DEF LiftTypeOK
        <5> QED BY <5>1
      <4>2. CASE g # e
        BY <1>0, <3>1, <3>2, <4>2 DEF LiftTypeOK, LiftHasInterrupt
      <4> QED BY <4>1, <4>2
    <3>5. EventNotified'
      BY <1>0, <2>0, <3>2 DEF EventNotified, EventsOf
    <3> QED BY <3>3, <3>4, <3>5 DEF LiftInv
  <2> QED BY <2>1, <2>2
<1> QED BY <1>1, <1>2, <1>3

\* The calls of the rider.
LEMMA RiderKeeps == LiftInv /\ RiderStep => LiftInv'
<1> SUFFICES ASSUME LiftInv, RiderStep PROVE LiftInv'
  OBVIOUS
<1> USE ElevatorAssumption
<1>0. LiftTypeOK /\ LiftHasInterrupt /\ EventNotified
  BY DEF LiftInv
<1>1. ASSUME NEW ev, NEW f, NEW e, Press(ev, f, e) PROVE LiftInv'
  <2>1. /\ ints' = Schedule(ints, 1) /\ 1 \in 0..DelayPerFloor
        /\ UNCHANGED <<inMotion, lastFloor, goingTo, arrive, wakeup, waiting>>
    BY <1>1 DEF Press
  <2>2. ints' \in [0..DelayPerFloor -> Nat] /\ Pending' = Pending \cup {1}
    BY <1>0, <2>1, MorePending DEF LiftTypeOK
  <2> QED BY <1>0, <2>1, <2>2 DEF LiftInv, LiftTypeOK, LiftHasInterrupt, EventNotified
<1>2. ASSUME NEW f \in Floor, NEW e \in Lift, EnterElevator(f, e) \/ ExitElevator(f, e)
      PROVE  LiftInv'
  <2>1. UNCHANGED <<inMotion, lastFloor, goingTo, arrive, ints, controllerEvents,
                    riderEvents, wakeup, waiting>>
    BY <1>2 DEF EnterElevator, ExitElevator
  <2> QED
    BY <1>0, <2>1
       DEF LiftInv, LiftTypeOK, LiftHasInterrupt, EventNotified, Pending, EventsOf
<1> QED BY <1>1, <1>2 DEF RiderStep, PressButton, PressFloor

\* A thread takes an event, or waits, or is woken.
LEMMA WaitKeeps ==
    ASSUME LiftInv, NEW who \in {"rider", "controller"}, WaitStep(who)
    PROVE  LiftInv'
<1>0. LiftTypeOK /\ LiftHasInterrupt /\ EventNotified
  BY DEF LiftInv
<1>1. UNCHANGED <<inMotion, lastFloor, goingTo, arrive, ints>>
  BY DEF WaitStep, WaitForNextEvent, getNextEvent, WakeUp
<1>2. LiftHasInterrupt'
  BY <1>0, <1>1 DEF LiftHasInterrupt, Pending
<1>3. CASE WaitForNextEvent(who)
  <2>1. /\ EventsOf(who) = <<>> /\ waiting' = waiting \cup {who}
        /\ UNCHANGED <<controllerEvents, riderEvents, wakeup>>
    BY <1>3 DEF WaitForNextEvent
  <2> QED
    BY <1>0, <1>1, <1>2, <2>1 DEF LiftInv, LiftTypeOK, EventNotified, Pending, EventsOf
<1>4. CASE getNextEvent(who)
  <2>1. who \notin waiting /\ waiting' = waiting /\ wakeup' = wakeup
    BY <1>4 DEF getNextEvent, Awake
  <2>2. \A w \in waiting : EventsOf(w)' = EventsOf(w)
    BY <1>0, <1>4, <2>1 DEF getNextEvent, EventsOf, LiftTypeOK
  <2> QED
    BY <1>0, <1>1, <1>2, <2>1, <2>2 DEF LiftInv, LiftTypeOK, EventNotified, Pending
<1>5. CASE WakeUp(who)
  <2>1. /\ wakeup[who] > 0 /\ wakeup' = [wakeup EXCEPT ![who] = @ - 1]
        /\ waiting' = waiting \ {who} /\ UNCHANGED <<controllerEvents, riderEvents>>
    BY <1>5 DEF WakeUp
  <2>2. LiftTypeOK'
    BY <1>0, <1>1, <2>1 DEF LiftTypeOK
  <2>3. EventNotified'
    BY <1>0, <1>1, <2>1 DEF LiftTypeOK, EventNotified, Pending, EventsOf
  <2> QED BY <1>2, <2>2, <2>3 DEF LiftInv
<1> QED BY <1>3, <1>4, <1>5 DEF WaitStep

\* Time passes: interrupts and arrivals come nearer together.
LEMMA TickKeeps == LiftInv /\ Tick => LiftInv'
<1> SUFFICES ASSUME LiftInv, Tick PROVE LiftInv'
  OBVIOUS
<1> USE ElevatorAssumption
<1>0. LiftTypeOK /\ LiftHasInterrupt /\ EventNotified
  BY DEF LiftInv
<1>1. /\ ints[0] = 0
      /\ ints' = [k \in 0..DelayPerFloor |-> IF k = DelayPerFloor THEN 0 ELSE ints[k + 1]]
      /\ arrive' = [e \in Lift |-> IF inMotion[e] THEN arrive[e] - 1 ELSE 0]
      /\ UNCHANGED <<inMotion, lastFloor, goingTo, controllerEvents, riderEvents,
                     wakeup, waiting>>
  BY DEF Tick
<1>2. LiftTypeOK'
  BY <1>0, <1>1 DEF LiftTypeOK
<1>3. \A k \in Pending : k - 1 \in Pending'
  <2> SUFFICES ASSUME NEW k \in Pending PROVE k - 1 \in Pending'
    OBVIOUS
  <2>1. k \in 0..DelayPerFloor /\ ints[k] > 0 /\ k # 0
    BY <1>1 DEF Pending
  <2>2. k - 1 \in 0..DelayPerFloor /\ k - 1 # DelayPerFloor /\ (k - 1) + 1 = k
    BY <2>1
  <2>3. ints'[k - 1] = ints[k]
    BY <1>1, <2>2
  <2> QED BY <2>1, <2>2, <2>3 DEF Pending
<1>4. LiftHasInterrupt'
  <2> SUFFICES ASSUME NEW e \in Lift, inMotion'[e]
               PROVE  \E k \in Pending' : k >= arrive'[e]
    BY DEF LiftHasInterrupt
  <2>1. PICK k \in Pending : k >= arrive[e]
    BY <1>0, <1>1 DEF LiftHasInterrupt
  <2>2. k - 1 >= arrive'[e]
    BY <1>0, <1>1, <2>1 DEF LiftTypeOK, Pending
  <2> QED BY <1>3, <2>1, <2>2
<1>5. EventNotified'
  BY <1>0, <1>1, <1>3 DEF EventNotified, EventsOf
<1> QED BY <1>2, <1>4, <1>5 DEF LiftInv

\* The handler moves the lifts that are due, and schedules one interrupt for
\* all that go on.
LEMMA InterruptKeeps == LiftInv /\ HandleInterrupt => LiftInv'
<1> SUFFICES ASSUME LiftInv, HandleInterrupt PROVE LiftInv'
  OBVIOUS
<1> USE ElevatorAssumption
<1>0. LiftTypeOK /\ LiftHasInterrupt /\ EventNotified
  BY DEF LiftInv
<1>1. /\ ints[0] > 0
      /\ ints' = NextFloor([ints EXCEPT ![0] = @ - 1])
      /\ lastFloor' = [e \in Lift |-> FloorAfter(e)]
      /\ inMotion' = [e \in Lift |-> inMotion[e] /\ e \notin Arrived]
      /\ arrive' = [e \in Lift |-> IF e \in Arrived THEN 0
                                   ELSE IF e \in GoesOn THEN arrive[e] + DelayPerFloor
                                   ELSE arrive[e]]
      /\ wakeup' = [wakeup EXCEPT !["rider"] = Notify("rider", riderEvents),
                                  !["controller"] = Notify("controller", controllerEvents')]
      /\ UNCHANGED <<goingTo, riderEvents, waiting>>
  BY DEF HandleInterrupt
<1>2. ints' \in [0..DelayPerFloor -> Nat]
  <2> DEFINE served == [ints EXCEPT ![0] = @ - 1]
  <2>1. served \in [0..DelayPerFloor -> Nat]
    BY <1>0, <1>1 DEF LiftTypeOK
  <2>2. [served EXCEPT ![DelayPerFloor] = @ + 1] \in [0..DelayPerFloor -> Nat]
    BY <2>1
  <2> QED BY <1>1, <2>1, <2>2 DEF NextFloor, Schedule
<1>3. /\ \A k \in Pending : k # 0 => k \in Pending'
      /\ Reached \ Arrived # {} => DelayPerFloor \in Pending'
  <2>1. CASE Reached \ Arrived = {}
    <3>1. ints' = [ints EXCEPT ![0] = @ - 1]
      BY <1>1, <2>1 DEF NextFloor
    <3> QED BY <1>0, <2>1, <3>1 DEF LiftTypeOK, Pending
  <2>2. CASE Reached \ Arrived # {}
    <3>1. ints' = [[ints EXCEPT ![0] = @ - 1] EXCEPT ![DelayPerFloor] = @ + 1]
      BY <1>1, <2>2 DEF NextFloor, Schedule
    <3>2. \A k \in 0..DelayPerFloor : k # 0 => ints'[k] >= ints[k]
      BY <1>0, <3>1 DEF LiftTypeOK
    <3>3. ints'[DelayPerFloor] > 0
      BY <1>0, <3>1 DEF LiftTypeOK
    <3> QED BY <1>0, <1>2, <3>2, <3>3 DEF LiftTypeOK, Pending
  <2> QED BY <2>1, <2>2
<1>4. LiftTypeOK'
  <2>1. lastFloor' \in [Lift -> Int]
    BY <1>0, <1>1 DEF LiftTypeOK, FloorAfter
  <2>2. arrive' \in [Lift -> Int] /\ inMotion' \in [Lift -> BOOLEAN]
    BY <1>0, <1>1 DEF LiftTypeOK
  <2>3. wakeup' \in [{"rider", "controller"} -> Nat]
    BY <1>0, <1>1 DEF LiftTypeOK, Notify
  <2> QED BY <1>0, <1>1, <1>2, <2>1, <2>2, <2>3 DEF LiftTypeOK
<1>5. LiftHasInterrupt'
  <2> SUFFICES ASSUME NEW e \in Lift, inMotion'[e]
               PROVE  \E k \in Pending' : k >= arrive'[e]
    BY DEF LiftHasInterrupt
  <2>0. inMotion[e] /\ e \notin Arrived /\ arrive[e] \in Int
    BY <1>0, <1>1 DEF LiftTypeOK
  <2>1. CASE e \in Reached
    <3>1. arrive[e] <= 0 /\ DelayPerFloor \in Pending'
      BY <1>3, <2>0, <2>1 DEF Reached
    <3>2. arrive'[e] <= DelayPerFloor
      BY <1>1, <2>0, <3>1
    <3> QED BY <3>1, <3>2
  <2>2. CASE e \notin Reached
    <3>1. arrive[e] > 0 /\ e \notin GoesOn
      BY <2>0, <2>2 DEF Reached, GoesOn
    <3>2. PICK k \in Pending : k >= arrive[e]
      BY <1>0, <2>0 DEF LiftHasInterrupt
    <3>3. k # 0 /\ arrive'[e] = arrive[e]
      BY <1>1, <2>0, <3>1, <3>2 DEF Pending
    <3> QED BY <1>3, <3>2, <3>3
  <2> QED BY <2>1, <2>2
<1>6. EventNotified'
  <2> SUFFICES ASSUME NEW who \in waiting', (EventsOf(who) # <<>>)'
               PROVE  wakeup'[who] > 0
    BY DEF EventNotified
  <2>1. CASE who = "rider"
    BY <1>0, <1>1, <2>1 DEF LiftTypeOK, Notify, EventsOf
  <2>2. CASE who = "controller"
    BY <1>0, <1>1, <2>2 DEF LiftTypeOK, Notify, EventsOf
  <2> QED BY <1>0, <1>1, <2>1, <2>2 DEF LiftTypeOK
<1> QED BY <1>4, <1>5, <1>6 DEF LiftInv

LEMMA LiftInvNext == LiftInv /\ [ElevatorNext]_liftVars => LiftInv'
<1> SUFFICES ASSUME LiftInv, [ElevatorNext]_liftVars PROVE LiftInv'
  OBVIOUS
<1>1. CASE UNCHANGED liftVars
  BY <1>1 DEF liftVars, LiftInv, LiftTypeOK, LiftHasInterrupt, EventNotified, Pending, EventsOf
<1> QED
  BY <1>1, ControllerKeeps, RiderKeeps, WaitKeeps, TickKeeps, InterruptKeeps DEF ElevatorNext

\* ElevatorBank::HandleInterrupt forgets nothing: for any number of lifts, a
\* lift in motion has an interrupt at or after its arrival, and an event on
\* which a thread waits will be announced.
THEOREM ElevatorSafe == LiftSpec => []ElevatorInv
<1>1. LiftInv => ElevatorInv
  BY DEF LiftInv, ElevatorInv
<1> QED BY <1>1, LiftInvInit, LiftInvNext, PTL DEF LiftSpec

-----------------------------------------------------------------------------
\* A lift that goes on is not yet where it goes.
LEMMA WayKeeps ==
    ASSUME ~RedirectBack, LiftInv, HasWay, [ElevatorNext]_liftVars
    PROVE  HasWay'
<1>0. LiftTypeOK
  BY DEF LiftInv
<1>1. ASSUME NEW f \in Floor, NEW e \in Lift, MoveTo(f, e) PROVE HasWay'
  <2>1. /\ lastFloor[e] # f /\ goingTo' = [goingTo EXCEPT ![e] = f] /\ lastFloor' = lastFloor
        /\ inMotion' = inMotion \/ inMotion' = [inMotion EXCEPT ![e] = TRUE]
    BY <1>1 DEF MoveTo
  <2> QED BY <1>0, <2>1 DEF LiftTypeOK, HasWay
<1>2. CASE HandleInterrupt
  <2>1. /\ lastFloor' = [e \in Lift |-> FloorAfter(e)] /\ goingTo' = goingTo
        /\ inMotion' = [e \in Lift |-> inMotion[e] /\ e \notin Arrived]
    BY <1>2 DEF HandleInterrupt
  <2> QED BY <1>0, <2>1 DEF LiftTypeOK, HasWay, Arrived, FloorAfter
<1>3. ASSUME UNCHANGED <<inMotion, lastFloor, goingTo>> PROVE HasWay'
  BY <1>3 DEF HasWay
<1>4. ASSUME NEW e \in Lift, OpenDoors(e) \/ CloseDoors(e) PROVE HasWay'
  BY <1>3, <1>4 DEF OpenDoors, CloseDoors
<1>5. CASE RiderStep
  BY <1>3, <1>5
     DEF RiderStep, PressButton, PressFloor, Press, EnterElevator, ExitElevator
<1>6. ASSUME NEW who, WaitStep(who) PROVE HasWay'
  BY <1>3, <1>6 DEF WaitStep, WaitForNextEvent, getNextEvent, WakeUp
<1>7. CASE Tick
  BY <1>3, <1>7 DEF Tick
<1>8. CASE UNCHANGED liftVars
  BY <1>3, <1>8 DEF liftVars
<1> QED
  BY <1>1, <1>2, <1>4, <1>5, <1>6, <1>7, <1>8 DEF ElevatorNext, ControllerStep

\* Only the handler moves a lift, and towards its destination.
LEMMA TowardsStep ==
    ASSUME LiftInv, HasWay, [ElevatorNext]_liftVars
    PROVE  \A e \in Lift : lastFloor'[e] # lastFloor[e] =>
               Distance(lastFloor'[e], goingTo[e]) < Distance(lastFloor[e], goingTo[e])
<1>0. LiftTypeOK
  BY DEF LiftInv
<1>1. CASE HandleInterrupt
  <2> SUFFICES ASSUME NEW e \in Lift, lastFloor'[e] # lastFloor[e]
               PROVE  Distance(lastFloor'[e], goingTo[e]) < Distance(lastFloor[e], goingTo[e])
    OBVIOUS
  <2>1. /\ lastFloor'[e] = FloorAfter(e) /\ e \in Reached
        /\ lastFloor[e] \in Int /\ goingTo[e] \in Int /\ goingTo[e] # lastFloor[e]
    BY <1>0, <1>1 DEF HandleInterrupt, FloorAfter, LiftTypeOK, HasWay, Reached
  <2>2. CASE goingTo[e] > lastFloor[e]
    BY <2>1, <2>2 DEF FloorAfter, Distance
  <2>3. CASE goingTo[e] < lastFloor[e]
    BY <2>1, <2>3 DEF FloorAfter, Distance
  <2> QED BY <2>1, <2>2, <2>3
<1>2. ASSUME lastFloor' = lastFloor
      PROVE  \A e \in Lift : lastFloor'[e] = lastFloor[e]
  BY <1>2
<1>3. ControllerStep \/ RiderStep \/ Tick \/ UNCHANGED liftVars => lastFloor' = lastFloor
  BY DEF ControllerStep, OpenDoors, CloseDoors, MoveTo, RiderStep, PressButton, PressFloor,
         Press, EnterElevator, ExitElevator, Tick, liftVars
<1>4. \A who : WaitStep(who) => lastFloor' = lastFloor
  BY DEF WaitStep, WaitForNextEvent, getNextEvent, WakeUp
<1> QED BY <1>1, <1>2, <1>3, <1>4 DEF ElevatorNext

\* ReachedNextFloor moves a lift towards its destination, as long as no lift in
\* motion is sent back to the floor it has just left.
THEOREM MovesTowardsSafe ==
    ASSUME ~RedirectBack
    PROVE  LiftSpec => MovesTowards
<1>1. LiftInv /\ HasWay /\ [ElevatorNext]_liftVars => (LiftInv /\ HasWay)'
  BY LiftInvNext, WayKeeps
<1>2. LiftInv /\ HasWay /\ [ElevatorNext]_liftVars =>
        [\A e \in Lift : lastFloor'[e] # lastFloor[e] =>
            Distance(lastFloor'[e], goingTo[e]) < Distance(lastFloor[e], goingTo[e])]_liftVars
  BY TowardsStep
<1> QED BY <1>1, <1>2, LiftInvInit, PTL DEF LiftSpec, MovesTowards

-----------------------------------------------------------------------------
(***************************************************************************)
(* The timing of the disk.  The formulas with div and mod are the first    *)
(* time at which the sector has passed under the head of a turning disk.   *)
(***************************************************************************)
\* Division by a positive number, and its inverse.
LEMMA DivMod ==
    ASSUME NEW a \in Int, NEW b \in Int, b > 0
    PROVE  /\ a \div b \in Int
           /\ a % b \in 0..b-1
           /\ a = b * (a \div b) + (a % b)
<1>1. a \div b \in Int
  OBVIOUS
<1>2. a % b \in 0..b-1
  OBVIOUS
<1>3. a = b * (a \div b) + (a % b)
  OBVIOUS
<1> QED BY <1>1, <1>2, <1>3

LEMMA DivModUnique ==
    ASSUME NEW b \in Int, b > 0, NEW q \in Int, NEW r \in 0..b-1
    PROVE  (b * q + r) \div b = q /\ (b * q + r) % b = r
  OBVIOUS

LEMMA SmallMod ==
    ASSUME NEW b \in Int, b > 0, NEW r \in 0..b-1
    PROVE  r % b = r /\ (b + r) % b = r
  OBVIOUS

\* Multiples of a positive number.
LEMMA Multiples ==
    ASSUME NEW b \in Int, b > 0, NEW x \in Int, NEW y \in Int
    PROVE  /\ b * x \in Int
           /\ b * x < b * y <=> x < y
           /\ (b * x) % b = 0 /\ (b * x) \div b = x
           /\ b * (x + y) = b * x + b * y
           /\ b * (x - y) = b * x - b * y
<1>1. b * x \in Int /\ b * y \in Int
  OBVIOUS
<1>2. b * (x + y) = b * x + b * y /\ b * (x - y) = b * x - b * y
  OBVIOUS
<1>3. \A z \in Int : (z >= 1 => b * z >= b) /\ (z <= 0 => b * z <= 0)
  OBVIOUS
<1>4. b * x < b * y <=> x < y
  <2>1. y - x \in Int /\ b * (y - x) = b * y - b * x
    OBVIOUS
  <2> QED BY <1>1, <1>3, <2>1
<1>5. (b * x) % b = 0 /\ (b * x) \div b = x
  <2>1. 0 \in 0..b-1 /\ b * x + 0 = b * x
    BY <1>1
  <2> QED BY <2>1, DivModUnique
<1> QED BY <1>1, <1>2, <1>4, <1>5

\* What the head does: s is D sectors ahead of the sector f, and none of those
\* in between is s.
LEMMA SectorsAhead ==
    ASSUME NEW s \in Int, NEW f \in Int
    PROVE  /\ ModuloDiff(s, f) \in 0 .. SectorsPerTrack - 1
           /\ (f + ModuloDiff(s, f)) % SectorsPerTrack = s % SectorsPerTrack
           /\ \A j \in 0 .. ModuloDiff(s, f) - 1 :
                 (f + j) % SectorsPerTrack # s % SectorsPerTrack
<1> DEFINE K == SectorsPerTrack
           a == s % K
           b == f % K
           q == f \div K
           D == ModuloDiff(s, f)
<1>1. K \in Int /\ K > 0
  BY DiskAssumption
<1>2. a \in 0..K-1
  BY <1>1, DivMod
<1>3. b \in 0..K-1 /\ q \in Int /\ f = K * q + b
  BY <1>1, DivMod
<1>4. D = IF a >= b THEN a - b ELSE a - b + K
  <2>1. D = (a - b + K) % K
    BY DEF ModuloDiff
  <2> HIDE DEF a, b, D, K
  <2>2. CASE a >= b
    <3>1. a - b \in 0..K-1 /\ a - b + K = K + (a - b)
      BY <1>1, <1>2, <1>3, <2>2
    <3>2. (K + (a - b)) % K = a - b
      BY <1>1, <3>1, SmallMod
    <3> QED BY <2>1, <2>2, <3>1, <3>2
  <2>3. CASE ~(a >= b)
    <3>1. a - b + K \in 0..K-1
      BY <1>1, <1>2, <1>3, <2>3
    <3>2. (a - b + K) % K = a - b + K
      BY <1>1, <3>1, SmallMod
    <3> QED BY <2>1, <2>3, <3>2
  <2> QED BY <2>2, <2>3
<1> HIDE DEF K, a, b, q, D
<1>5. D \in 0..K-1
  BY <1>1, <1>2, <1>3, <1>4
\* The sector j further.
<1>6. ASSUME NEW j \in 0..K-1
      PROVE  (f + j) % K = IF b + j < K THEN b + j ELSE b + j - K
  <2>1. CASE b + j < K
    <3>1. b + j \in 0..K-1 /\ f + j = K * q + (b + j)
      BY <1>1, <1>3, <2>1, Multiples
    <3>2. (K * q + (b + j)) % K = b + j
      BY <1>1, <1>3, <3>1, DivModUnique
    <3> QED BY <2>1, <3>1, <3>2
  <2>2. CASE ~(b + j < K)
    <3> DEFINE u == q + 1
    <3>1. u \in Int /\ K * u = K * q + K /\ K * q \in Int /\ K * u \in Int
      BY <1>1, <1>3
    <3> HIDE DEF u
    <3>2. b + j - K \in 0..K-1 /\ f + j = K * u + (b + j - K)
      BY <1>1, <1>3, <2>2, <3>1
    <3>3. (K * u + (b + j - K)) % K = b + j - K
      BY <1>1, <3>1, <3>2, DivModUnique
    <3> QED BY <2>2, <3>2, <3>3
  <2> QED BY <2>1, <2>2
<1>7. (f + D) % K = a
  <2>1. (f + D) % K = IF b + D < K THEN b + D ELSE b + D - K
    BY <1>5, <1>6
  <2> QED BY <1>1, <1>2, <1>3, <1>4, <2>1
<1>8. ASSUME NEW j \in 0 .. D - 1 PROVE (f + j) % K # a
  <2>1. j \in 0..K-1
    BY <1>1, <1>5
  <2>2. (f + j) % K = IF b + j < K THEN b + j ELSE b + j - K
    BY <1>6, <2>1
  <2> QED BY <1>1, <1>2, <1>3, <1>4, <2>1, <2>2
<1> QED BY <1>5, <1>7, <1>8 DEF K, a, D

DiskTypeOK ==
    /\ clock \in Nat
    /\ lastSector \in DiskSector
    /\ bufferInit \in Nat
    /\ arrived \in Nat

\* The track buffer is loaded from a sector boundary on, after the head came
\* to the track.
BufferAtBoundary == bufferInit % RotationTime = 0 /\ bufferInit >= arrived

DiskTimeInv == DiskTypeOK /\ BufferAtBoundary /\ LatencyExact

\* Disk::TimeToSeek finds the first sector boundary after the seek.
LEMMA TimeAfterBoundary ==
    ASSUME DiskTypeOK, NEW s \in DiskSector
    PROVE  /\ Seek(s) \in Nat
           /\ TimeAfter(s) \in Nat
           /\ TimeAfter(s) = RotationTime * (TimeAfter(s) \div RotationTime)
           /\ TimeAfter(s) \div RotationTime \in Int
           /\ TimeAfter(s) % RotationTime = 0
           /\ TimeAfter(s) >= clock + Seek(s)
           /\ TimeAfter(s) - RotationTime < clock + Seek(s)
<1> DEFINE R == RotationTime
           x == clock + Seek(s)
           over == x % R
           q == x \div R
<1>1. R \in Int /\ R > 0 /\ clock \in Nat
  BY DiskAssumption DEF DiskTypeOK
<1>2. Track(s) \in Int /\ Track(lastSector) \in Int
  BY DiskAssumption, DivMod DEF Track, DiskTypeOK, DiskSector
<1>3. Seek(s) \in Nat
  <2>1. \A d \in Nat : SeekTime * d \in Nat
    BY DiskAssumption
  <2>2. (IF Track(s) > Track(lastSector) THEN Track(s) - Track(lastSector)
                                         ELSE Track(lastSector) - Track(s)) \in Nat
    BY <1>2
  <2> QED BY <2>1, <2>2 DEF Seek
<1>5. TimeAfter(s) = x + (IF over > 0 THEN R - over ELSE 0)
  BY DEF TimeAfter, Rotation
<1>a. x \in Int
  BY <1>1, <1>3
<1> HIDE DEF R, x
<1>4. x \in Int /\ over \in 0..R-1 /\ q \in Int /\ x = R * q + over
  BY <1>1, <1>a, DivMod
<1> HIDE DEF over, q
<1>6. PICK t \in Int : TimeAfter(s) = R * t
  <2>1. CASE over > 0
    <3>1. R * (q + 1) = R * q + R /\ R * q \in Int
      BY <1>1, <1>4
    <3>2. TimeAfter(s) = R * (q + 1)
      BY <1>1, <1>4, <1>5, <2>1, <3>1
    <3> QED BY <1>4, <3>2
  <2>2. CASE ~(over > 0)
    <3>1. R * q \in Int /\ over = 0
      BY <1>1, <1>4, <2>2
    <3>2. TimeAfter(s) = R * q
      BY <1>4, <1>5, <3>1
    <3> QED BY <1>4, <3>2
  <2> QED BY <2>1, <2>2
<1>7. TimeAfter(s) % R = 0 /\ TimeAfter(s) \div R = t
  BY <1>1, <1>6, Multiples
<1>8. /\ TimeAfter(s) >= x /\ TimeAfter(s) - R < x /\ TimeAfter(s) \in Int
  BY <1>1, <1>4, <1>5
<1>9. x \in Nat
  BY <1>1, <1>3 DEF x
<1> QED BY <1>3, <1>6, <1>7, <1>8, <1>9 DEF R, x

\* A sector passes at a boundary.
LEMMA PassesAt ==
    ASSUME NEW s, NEW from \in Int, NEW to \in Int, NEW t \in Int,
           t % SectorsPerTrack = s % SectorsPerTrack,
           from <= RotationTime * t, RotationTime * t <= to - RotationTime
    PROVE  Passes(s, from, to)
<1>1. RotationTime \in Int /\ RotationTime > 0
  BY DiskAssumption
<1>2. /\ RotationTime * t \in Int /\ (RotationTime * t) % RotationTime = 0
      /\ (RotationTime * t) \div RotationTime = t
  BY <1>1, Multiples
<1>3. RotationTime * t \in from .. to - RotationTime
  BY <1>1, <1>2
<1> QED BY <1>2, <1>3 DEF Passes

\* The sector has passed for the first time.
FirstPass(s, from, to) == Passes(s, from, to) /\ ~Passes(s, from, to - 1)

\* ComputeLatency for what the track buffer does not have.
LEMMA LatencyTurned ==
    ASSUME DiskTypeOK, NEW s \in DiskSector, NEW writing, ~InBuffer(s, writing)
    PROVE  FirstPass(s, clock + Seek(s), clock + ComputeLatency(s, writing))
<1> DEFINE R == RotationTime
           K == SectorsPerTrack
           start == clock + Seek(s)
           due == clock + ComputeLatency(s, writing)
           T == TimeAfter(s)
           t == TimeAfter(s) \div R
           D == ModuloDiff(s, t)
<1>1. R \in Int /\ R > 0 /\ K \in Int /\ K > 0 /\ clock \in Nat /\ s \in Int
  BY DiskAssumption DEF DiskTypeOK, DiskSector
<1>2. /\ Seek(s) \in Nat /\ T \in Nat /\ T = R * t /\ t \in Int /\ T >= start /\ T - R < start
  BY TimeAfterBoundary
<1>3. /\ D \in 0..K-1 /\ (t + D) % K = s % K
      /\ \A j \in 0..D-1 : (t + j) % K # s % K
  BY <1>1, <1>2, SectorsAhead
<1>4. due = clock + (T - clock + D * R + R)
  BY DEF ComputeLatency
<1>5. start \in Int
  BY <1>1, <1>2
<1> HIDE DEF R, K, T, t, D, start, due
<1>6. D \in Int /\ t + D \in Int /\ D * R = R * D /\ R * D \in Nat /\ R * (t + D) = R * t + R * D
  <2>1. D \in Nat
    BY <1>1, <1>3
  <2>2. D * R = R * D /\ R * D \in Nat
    BY <1>1, <2>1
  <2> QED BY <1>1, <1>2, <2>1, <2>2, Multiples
<1>7. due = R * (t + D) + R /\ due \in Int
  BY <1>1, <1>2, <1>4, <1>6
<1>8. R * (t + D) = T + R * D /\ R * (t + D) \in Int
  BY <1>1, <1>2, <1>6
<1>9. Passes(s, start, due)
  <2>1. start <= R * (t + D)
    BY <1>2, <1>5, <1>6, <1>8
  <2>2. R * (t + D) <= due - R
    BY <1>1, <1>7, <1>8
  <2> QED BY <1>3, <1>5, <1>6, <1>7, <2>1, <2>2, PassesAt DEF R, K
<1>10. ~Passes(s, start, due - 1)
  <2> SUFFICES ASSUME Passes(s, start, due - 1) PROVE FALSE
    OBVIOUS
  <2>1. PICK k \in start .. (due - 1) - R : k % R = 0 /\ (k \div R) % K = s % K
    BY DEF Passes, R, K
  <2> DEFINE u == k \div R
  <2>2. k \in Int /\ start <= k /\ k <= (due - 1) - R
    BY <1>1, <1>5, <1>7, <2>1
  <2>3. u \in Int /\ k = R * u
    <3>1. u \in Int /\ k = R * u + (k % R) /\ R * u \in Int
      BY <1>1, <2>2, DivMod, Multiples
    <3> QED BY <2>1, <3>1
  <2> HIDE DEF u
  <2>4. R * u < R * (t + D)
    BY <1>1, <1>7, <1>8, <2>2, <2>3
  <2>5. R * (t - 1) < R * u
    <3>1. R * (t - 1) = R * t - R
      BY <1>1, <1>2
    <3> QED BY <1>1, <1>2, <1>5, <2>2, <2>3, <3>1
  <2>6. u < t + D /\ t - 1 < u
    BY <1>1, <1>2, <1>6, <2>3, <2>4, <2>5, Multiples
  <2>7. u - t \in 0..D-1 /\ t + (u - t) = u
    BY <1>2, <1>6, <2>3, <2>6
  <2> QED BY <1>3, <2>1, <2>7 DEF u
<1>11. FirstPass(s, start, due)
  BY <1>9, <1>10 DEF FirstPass
<1> QED BY <1>11 DEF start, due

\* ComputeLatency for what the track buffer has.
LEMMA LatencyBuffered ==
    ASSUME DiskTypeOK, BufferAtBoundary, NEW s \in DiskSector, NEW writing,
           InBuffer(s, writing)
    PROVE  LET due == clock + ComputeLatency(s, writing)
           IN  /\ ~writing /\ Seek(s) = 0
               /\ Passes(s, arrived, due)
               /\ due = clock + RotationTime
<1> DEFINE R == RotationTime
           K == SectorsPerTrack
           T == TimeAfter(s)
           t == TimeAfter(s) \div R
           b == bufferInit \div R
           D == ModuloDiff(s, b)
<1>1. /\ R \in Int /\ R > 0 /\ K \in Int /\ K > 0 /\ clock \in Nat /\ s \in Int
      /\ bufferInit \in Nat /\ arrived \in Nat
  BY DiskAssumption DEF DiskTypeOK, DiskSector
<1>2. /\ T \in Nat /\ T = R * t /\ t \in Int /\ T - R < clock + Seek(s)
  BY TimeAfterBoundary
<1>3. b \in Int /\ bufferInit = R * b /\ arrived <= bufferInit
  <2>1. b \in Int /\ bufferInit = R * b + (bufferInit % R) /\ R * b \in Int
    BY <1>1, DivMod, Multiples
  <2> QED BY <1>1, <2>1 DEF BufferAtBoundary
<1>4. D \in 0..K-1 /\ (b + D) % K = s % K
  BY <1>1, <1>3, SectorsAhead
<1>5. ~writing /\ Seek(s) = 0 /\ (T - bufferInit) \div R > D /\ ComputeLatency(s, writing) = R
  BY DEF InBuffer, ComputeLatency
<1> HIDE DEF R, K, T, t, b, D
<1>6. (T - bufferInit) \div R = t - b
  <2>1. T - bufferInit = R * (t - b) /\ t - b \in Int
    BY <1>1, <1>2, <1>3, Multiples
  <2>2. (R * (t - b)) \div R = t - b
    BY <1>1, <2>1, Multiples
  <2> QED BY <2>1, <2>2
<1>7. b + D \in Int /\ t - 1 \in Int /\ ~(t - 1 < b + D) /\ b <= b + D
  BY <1>1, <1>2, <1>3, <1>4, <1>5, <1>6
<1>8. R * (b + D) <= R * (t - 1) /\ R * b <= R * (b + D) /\ R * (b + D) \in Int
  BY <1>1, <1>3, <1>7, Multiples
<1>9. R * (t - 1) = T - R
  BY <1>1, <1>2, Multiples
<1>10. arrived <= R * (b + D) /\ R * (b + D) <= (clock + R) - R
  BY <1>1, <1>2, <1>3, <1>5, <1>8, <1>9
<1>11. Passes(s, arrived, clock + R)
  BY <1>1, <1>4, <1>7, <1>10, PassesAt DEF R, K
<1> QED BY <1>5, <1>11 DEF R

LEMMA DiskTimeInit == DiskInit => DiskTimeInv
<1> SUFFICES ASSUME DiskInit PROVE DiskTimeInv
  OBVIOUS
<1>1. DiskTypeOK
  <2>1. SectorsPerTrack * NumTracks > 0 /\ SectorsPerTrack * NumTracks \in Int
    BY DiskAssumption
  <2> QED BY <2>1 DEF DiskInit, DiskTypeOK, DiskSector
<1>2. BufferAtBoundary
  BY DiskAssumption DEF DiskInit, BufferAtBoundary
<1>3. LatencyExact
  BY DEF DiskInit, LatencyExact
<1> QED BY <1>1, <1>2, <1>3 DEF DiskTimeInv

LEMMA DiskTimeNext == DiskTimeInv /\ [DiskNext]_diskVars => DiskTimeInv'
<1> SUFFICES ASSUME DiskTimeInv, [DiskNext]_diskVars PROVE DiskTimeInv'
  OBVIOUS
<1>0. DiskTypeOK /\ BufferAtBoundary /\ LatencyExact
  BY DEF DiskTimeInv
<1>1. ASSUME NEW s \in DiskSector, NEW writing \in BOOLEAN, Request(s, writing)
      PROVE  DiskTimeInv'
  <2>1. /\ clock' = clock /\ lastSector' = s
        /\ bufferInit' = IF Seek(s) # 0 THEN TimeAfter(s) ELSE bufferInit
        /\ arrived' = IF Seek(s) # 0 THEN clock + Seek(s) ELSE arrived
        /\ order'.sector = s /\ order'.writing = writing /\ order'.sent = clock
        /\ order'.seek = Seek(s) /\ order'.due = clock + ComputeLatency(s, writing)
    BY <1>1 DEF Request, UpdateLast
  <2>2. /\ Seek(s) \in Nat /\ TimeAfter(s) \in Nat /\ TimeAfter(s) % RotationTime = 0
        /\ TimeAfter(s) >= clock + Seek(s)
    BY <1>0, TimeAfterBoundary
  <2>3. DiskTypeOK'
    BY <1>0, <2>1, <2>2 DEF DiskTypeOK
  <2>4. BufferAtBoundary'
    BY <1>0, <2>1, <2>2 DEF BufferAtBoundary
  <2>5. LatencyExact'
    <3>1. CASE InBuffer(s, writing)
      <4>1. /\ ~writing /\ Seek(s) = 0 /\ Passes(s, arrived, clock + ComputeLatency(s, writing))
            /\ clock + ComputeLatency(s, writing) = clock + RotationTime
        BY <1>0, <3>1, LatencyBuffered
      <4> QED BY <2>1, <4>1 DEF LatencyExact, Passes
    <3>2. CASE ~InBuffer(s, writing)
      <4>1. FirstPass(order'.sector, order'.sent + order'.seek, order'.due)
        BY <1>0, <2>1, <3>2, LatencyTurned
      <4> QED BY <4>1 DEF LatencyExact, FirstPass, Passes
    <3> QED BY <3>1, <3>2
  <2> QED BY <2>3, <2>4, <2>5 DEF DiskTimeInv
<1>2. CASE DiskTick \/ RequestDone \/ UNCHANGED diskVars
  <2>1. /\ clock' = clock + 1 \/ clock' = clock
        /\ active' => active
        /\ UNCHANGED <<lastSector, bufferInit, order, arrived>>
    BY <1>2 DEF DiskTick, RequestDone, diskVars
  <2>2. DiskTypeOK' /\ BufferAtBoundary'
    BY <1>0, <2>1 DEF DiskTypeOK, BufferAtBoundary
  <2>3. LatencyExact'
    BY <1>0, <2>1 DEF LatencyExact, Passes
  <2> QED BY <2>2, <2>3 DEF DiskTimeInv
<1> QED BY <1>1, <1>2 DEF DiskNext

\* Disk::ComputeLatency, with its track buffer, is what a turning disk takes:
\* for any geometry and speeds, whatever is read and written and when.
THEOREM LatencyExactSafe == DiskSpec => []LatencyExact
<1>1. DiskTimeInv => LatencyExact
  BY DEF DiskTimeInv
<1> QED BY <1>1, DiskTimeInit, DiskTimeNext, PTL DEF DiskSpec

=============================================================================
