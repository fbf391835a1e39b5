--------------------------- MODULE SchedulerProofs ---------------------------
(***************************************************************************)
(* Every operation of the dispatcher preserves its type and SchedulerInv.  *)
(* The modules that extend Scheduler cite these lemmas for the part of     *)
(* their steps that concerns the processor.                                *)
(***************************************************************************)
EXTENDS Scheduler, TLAPS

SchedOK == SchedTypeOK /\ SchedulerInv

\* A ready list that is not empty has a head and a tail in Thread; the head
\* is READY, and the tail is the list shifted by one.
LEMMA ReadyListShape ==
    ASSUME SchedOK, readyList # <<>>
    PROVE  /\ Head(readyList) \in Thread
           /\ Head(readyList) = readyList[1]
           /\ status[Head(readyList)] = "READY"
           /\ Tail(readyList) \in Seq(Thread)
           /\ Len(readyList) \in Nat \ {0}
           /\ Len(Tail(readyList)) = Len(readyList) - 1
           /\ \A i \in 1..Len(Tail(readyList)) : Tail(readyList)[i] = readyList[i + 1]
  BY DEF SchedOK, SchedTypeOK, SchedulerInv, ReadyExact

\* Scheduler::ReadyToRun keeps the ready list exact when the thread was
\* neither READY nor RUNNING, as it is for all callers.
LEMMA ReadyToRunOK ==
    ASSUME SchedOK, NEW t \in Thread, status[t] \notin {"READY", "RUNNING"},
           ReadyToRun(t)
    PROVE  SchedOK'
<1> USE DEF SchedOK, SchedTypeOK, ThreadStatus, ReadyToRun
<1>1. SchedTypeOK'
  OBVIOUS
<1>2. OneRunning'
  BY DEF SchedulerInv, OneRunning
<1>3. /\ Len(readyList') = Len(readyList) + 1
      /\ \A i \in 1..Len(readyList) : readyList'[i] = readyList[i]
      /\ readyList'[Len(readyList) + 1] = t
      /\ Len(readyList) \in Nat
  OBVIOUS
<1>4. \A i \in 1..Len(readyList) : readyList[i] # t
  BY DEF SchedulerInv, ReadyExact
<1>5. ReadyOnce'
  BY <1>3, <1>4 DEF SchedulerInv, ReadyOnce
<1>6. ReadyExact'
  <2> SUFFICES ASSUME NEW u \in Thread
               PROVE  status'[u] = "READY"
                        <=> \E i \in 1..Len(readyList') : readyList'[i] = u
    BY DEF ReadyExact
  <2>1. CASE u = t
    BY <1>3, <2>1
  <2>2. CASE u # t
    BY <1>3, <2>2 DEF SchedulerInv, ReadyExact
  <2> QED BY <2>1, <2>2
<1> QED BY <1>1, <1>2, <1>5, <1>6 DEF SchedulerInv

\* Thread::Yield with another thread ready.
LEMMA YieldOK ==
    ASSUME SchedOK, status[currentThread] = "RUNNING", readyList # <<>>, YieldCPU
    PROVE  SchedOK'
<1> DEFINE n == Len(readyList)
           me == currentThread
<1>1. /\ currentThread' = Head(readyList)
      /\ status' = [[status EXCEPT ![me] = "READY"] EXCEPT ![Head(readyList)] = "RUNNING"]
      /\ readyList' = Append(Tail(readyList), me)
  BY DEF YieldCPU, Run
<1>2. /\ me \in Thread
      /\ status \in [Thread -> ThreadStatus]
      /\ \A i \in 1..n : readyList[i] # me
  BY DEF SchedOK, SchedTypeOK, SchedulerInv, ReadyExact
<1>3. /\ n \in Nat \ {0}
      /\ Len(readyList') = n
      /\ \A i \in 1..n-1 : readyList'[i] = readyList[i + 1]
      /\ readyList'[n] = me
      /\ readyList' \in Seq(Thread)
  BY <1>1, <1>2, ReadyListShape
<1>4. SchedTypeOK'
  BY <1>1, <1>2, <1>3, ReadyListShape DEF SchedTypeOK, ThreadStatus
<1>5. OneRunning'
  BY <1>1, <1>2, ReadyListShape DEF SchedOK, SchedulerInv, OneRunning
<1>6. \A i, j \in 1..n : readyList[i] = readyList[j] => i = j
  BY DEF SchedOK, SchedulerInv, ReadyOnce
<1>7. ReadyOnce'
  <2> SUFFICES ASSUME NEW i \in 1..n, NEW j \in 1..n, readyList'[i] = readyList'[j]
               PROVE  i = j
    BY <1>3 DEF ReadyOnce
  <2>1. CASE i # n /\ j # n
    BY <1>3, <1>6, <2>1
  <2>2. CASE i = n \/ j = n
    BY <1>2, <1>3, <2>2
  <2> QED BY <2>1, <2>2
<1>8. ReadyExact'
  <2> SUFFICES ASSUME NEW u \in Thread
               PROVE  status'[u] = "READY" <=> \E i \in 1..n : readyList'[i] = u
    BY <1>3 DEF ReadyExact
  <2>1. CASE u = me
    <3>1. me # Head(readyList)
      BY <1>2, <1>3, ReadyListShape
    <3>2. status'[u] = "READY"
      BY <1>1, <1>2, <2>1, <3>1
    <3>3. n \in 1..n /\ readyList'[n] = u
      BY <1>3, <2>1
    <3> QED BY <3>2, <3>3
  <2>2. CASE u = Head(readyList)
    <3>1. \A i \in 1..n : readyList'[i] # u
      BY <1>2, <1>3, <1>6, <2>2, ReadyListShape
    <3> QED BY <1>1, <1>2, <2>2, <3>1
  <2>3. CASE u # me /\ u # Head(readyList)
    <3>1. status'[u] = status[u]
      BY <1>1, <1>2, <2>3
    <3>2. (\E i \in 1..n : readyList[i] = u) <=> (\E i \in 1..n : readyList'[i] = u)
      <4>1. ASSUME NEW i \in 1..n, readyList[i] = u PROVE \E k \in 1..n : readyList'[k] = u
        <5>1. i # 1
          BY <4>1, <2>3, ReadyListShape
        <5>2. i - 1 \in 1..n-1 /\ readyList'[i - 1] = u
          BY <1>3, <4>1, <5>1
        <5> QED BY <5>2, <1>3
      <4>2. ASSUME NEW i \in 1..n, readyList'[i] = u PROVE \E k \in 1..n : readyList[k] = u
        <5>1. i # n
          BY <1>3, <2>3, <4>2
        <5>2. i + 1 \in 1..n /\ readyList[i + 1] = u
          BY <1>3, <4>2, <5>1
        <5> QED BY <5>2
      <4> QED BY <4>1, <4>2
    <3> QED BY <3>1, <3>2 DEF SchedOK, SchedulerInv, ReadyExact
  <2> QED BY <2>1, <2>2, <2>3
<1> QED BY <1>4, <1>5, <1>7, <1>8 DEF SchedOK, SchedulerInv

\* The head of the ready list is run, and the old thread, which is not
\* RUNNING any more, is left alone: st is the status after it gave up.
LEMMA RunOK ==
    ASSUME SchedOK, readyList # <<>>,
           NEW st \in [Thread -> ThreadStatus],
           \A t \in Thread : st[t] # "RUNNING",
           \A t \in Thread : st[t] = "READY" <=> status[t] = "READY",
           Run(st, Tail(readyList))
    PROVE  SchedOK'
<1> DEFINE n == Len(readyList)
<1>1. /\ currentThread' = Head(readyList)
      /\ status' = [st EXCEPT ![Head(readyList)] = "RUNNING"]
      /\ readyList' = Tail(readyList)
  BY DEF Run
<1>2. /\ n \in Nat \ {0}
      /\ Len(readyList') = n - 1
      /\ \A i \in 1..n-1 : readyList'[i] = readyList[i + 1]
      /\ readyList' \in Seq(Thread)
  BY <1>1, ReadyListShape
<1>3. \A i, j \in 1..n : readyList[i] = readyList[j] => i = j
  BY DEF SchedOK, SchedulerInv, ReadyOnce
<1>4. SchedTypeOK'
  BY <1>1, <1>2, ReadyListShape DEF SchedTypeOK, ThreadStatus
<1>5. OneRunning'
  BY <1>1, ReadyListShape DEF OneRunning
<1>6. ReadyOnce'
  BY <1>2, <1>3 DEF ReadyOnce
<1>7. ReadyExact'
  <2> SUFFICES ASSUME NEW u \in Thread
               PROVE  status'[u] = "READY" <=> \E i \in 1..n-1 : readyList'[i] = u
    BY <1>2 DEF ReadyExact
  <2>1. CASE u = Head(readyList)
    <3>1. \A i \in 1..n-1 : readyList'[i] # u
      BY <1>2, <1>3, <2>1, ReadyListShape
    <3> QED BY <1>1, <2>1, <3>1
  <2>2. CASE u # Head(readyList)
    <3>1. status'[u] = "READY" <=> status[u] = "READY"
      BY <1>1, <2>2
    <3>2. ASSUME NEW i \in 1..n, readyList[i] = u PROVE \E k \in 1..n-1 : readyList'[k] = u
      <4>1. i # 1
        BY <3>2, <2>2, ReadyListShape
      <4>2. i - 1 \in 1..n-1 /\ readyList'[i - 1] = u
        BY <1>2, <3>2, <4>1
      <4> QED BY <4>2
    <3>3. ASSUME NEW i \in 1..n-1, readyList'[i] = u PROVE \E k \in 1..n : readyList[k] = u
      <4>1. i + 1 \in 1..n /\ readyList[i + 1] = u
        BY <1>2, <3>3
      <4> QED BY <4>1
    <3> QED BY <3>1, <3>2, <3>3 DEF SchedOK, SchedulerInv, ReadyExact
  <2> QED BY <2>1, <2>2
<1> QED BY <1>4, <1>5, <1>6, <1>7 DEF SchedOK, SchedulerInv

\* Thread::Sleep by the running thread.
LEMMA SleepOK ==
    ASSUME SchedOK, status[currentThread] = "RUNNING", SleepCPU
    PROVE  SchedOK'
<1> DEFINE blocked == [status EXCEPT ![currentThread] = "BLOCKED"]
<1>1. /\ blocked \in [Thread -> ThreadStatus]
      /\ \A t \in Thread : blocked[t] # "RUNNING"
      /\ \A t \in Thread : blocked[t] = "READY" <=> status[t] = "READY"
  BY DEF SchedOK, SchedTypeOK, ThreadStatus, SchedulerInv, OneRunning
<1>2. CASE readyList = <<>>
  <2>1. status' = blocked /\ UNCHANGED <<currentThread, readyList>>
    BY <1>2 DEF SleepCPU
  <2> HIDE DEF blocked
  <2>2. SchedTypeOK'
    BY <1>1, <2>1 DEF SchedOK, SchedTypeOK
  <2> QED BY <1>1, <2>1, <2>2
          DEF SchedOK, SchedulerInv, OneRunning, ReadyExact, ReadyOnce
<1>3. CASE readyList # <<>>
  <2>1. Run(blocked, Tail(readyList))
    BY <1>3 DEF SleepCPU
  <2> HIDE DEF blocked
  <2> QED BY <1>1, <1>3, <2>1, RunOK
<1> QED BY <1>2, <1>3

\* The end of the idle loop.
LEMMA LeaveIdleOK ==
    ASSUME SchedOK, LeaveIdle
    PROVE  SchedOK'
<1>1. /\ status \in [Thread -> ThreadStatus]
      /\ \A t \in Thread : status[t] # "RUNNING"
  BY DEF SchedOK, SchedTypeOK, SchedulerInv, OneRunning, LeaveIdle, Idling
<1> QED BY <1>1, RunOK DEF LeaveIdle

\* Which threads an operation of the dispatcher blocks and unblocks: Sleep
\* blocks its caller, ReadyToRun unblocks its argument, and giving the
\* processor to another thread does neither.
LEMMA SleepBlocks ==
    ASSUME SchedOK, status[currentThread] = "RUNNING", SleepCPU
    PROVE  \A t \in Thread : status'[t] = "BLOCKED"
                               <=> t = currentThread \/ status[t] = "BLOCKED"
<1>0. status \in [Thread -> ThreadStatus] /\ currentThread \in Thread
  BY DEF SchedOK, SchedTypeOK
<1>1. CASE readyList = <<>>
  BY <1>0, <1>1 DEF SleepCPU
<1>2. CASE readyList # <<>>
  BY <1>0, <1>2, ReadyListShape DEF SleepCPU, Run
<1> QED BY <1>1, <1>2

LEMMA ReadyToRunUnblocks ==
    ASSUME SchedOK, NEW w \in Thread, ReadyToRun(w)
    PROVE  \A t \in Thread : status'[t] = "BLOCKED" <=> t # w /\ status[t] = "BLOCKED"
  BY DEF SchedOK, SchedTypeOK, ReadyToRun

LEMMA SwitchBlocksNone ==
    ASSUME SchedOK,
           (status[currentThread] = "RUNNING" /\ YieldCPU) \/ LeaveIdle \/ UNCHANGED schedVars
    PROVE  \A t \in Thread : status'[t] = "BLOCKED" <=> status[t] = "BLOCKED"
<1>0. status \in [Thread -> ThreadStatus] /\ currentThread \in Thread
  BY DEF SchedOK, SchedTypeOK
<1>1. CASE readyList = <<>>
  BY <1>1 DEF YieldCPU, LeaveIdle, schedVars
<1>2. CASE readyList # <<>> /\ status[currentThread] = "RUNNING" /\ YieldCPU
  BY <1>0, <1>2, ReadyListShape DEF YieldCPU, Run
<1>3. CASE readyList # <<>> /\ LeaveIdle
  BY <1>0, <1>3, ReadyListShape DEF LeaveIdle, Run
<1>4. CASE UNCHANGED schedVars
  BY <1>4 DEF schedVars
<1> QED BY <1>1, <1>2, <1>3, <1>4

\* Threads that were forked in the order of list: the first one runs, and the
\* others are READY, in that order.
LEMMA StartedOK ==
    ASSUME NEW list \in Seq(Thread), list # <<>>,
           \A t \in Thread : \E i \in 1..Len(list) : list[i] = t,
           \A i, j \in 1..Len(list) : list[i] = list[j] => i = j,
           currentThread = Head(list), readyList = Tail(list),
           status = [t \in Thread |-> IF t = Head(list) THEN "RUNNING" ELSE "READY"]
    PROVE  SchedOK
<1>1. /\ Head(list) \in Thread /\ Head(list) = list[1]
      /\ Len(list) \in Nat \ {0}
      /\ readyList \in Seq(Thread)
      /\ Len(readyList) = Len(list) - 1
      /\ \A i \in 1..Len(readyList) : readyList[i] = list[i + 1]
  OBVIOUS
<1>2. SchedTypeOK
  BY <1>1 DEF SchedTypeOK, ThreadStatus
<1>3. OneRunning
  BY DEF OneRunning
<1>4. ReadyOnce
  BY <1>1 DEF ReadyOnce
<1>5. ReadyExact
  <2> SUFFICES ASSUME NEW t \in Thread
               PROVE  status[t] = "READY" <=> \E i \in 1..Len(readyList) : readyList[i] = t
    BY DEF ReadyExact
  <2>1. CASE t = Head(list)
    BY <1>1, <2>1
  <2>2. CASE t # Head(list)
    <3>1. PICK k \in 1..Len(list) : list[k] = t
      OBVIOUS
    <3>2. k - 1 \in 1..Len(readyList) /\ readyList[k - 1] = t
      BY <1>1, <2>2, <3>1
    <3> QED BY <2>2, <3>2
  <2> QED BY <2>1, <2>2
<1> QED BY <1>2, <1>3, <1>4, <1>5 DEF SchedOK, SchedulerInv

\* The queues of semaphores and conditions: who is on one, and that nobody is
\* on it twice.
OnQueue(q) == {q[i] : i \in 1..Len(q)}
QueuedOnce(q) == \A i, j \in 1..Len(q) : q[i] = q[j] => i = j

LEMMA JoinQueue ==
    ASSUME NEW q \in Seq(Thread), NEW t \in Thread
    PROVE  /\ Append(q, t) \in Seq(Thread)
           /\ OnQueue(Append(q, t)) = OnQueue(q) \cup {t}
           /\ QueuedOnce(q) /\ t \notin OnQueue(q) => QueuedOnce(Append(q, t))
<1> DEFINE n == Len(q)
           r == Append(q, t)
<1>1. /\ n \in Nat /\ Len(r) = n + 1 /\ r \in Seq(Thread)
      /\ \A i \in 1..n : r[i] = q[i]
      /\ r[n + 1] = t
  OBVIOUS
<1>2. \A i \in 1..Len(r) : i = n + 1 \/ i \in 1..n
  BY <1>1
<1>3. n + 1 \in 1..Len(r) /\ \A i \in 1..n : i \in 1..Len(r)
  BY <1>1
<1> HIDE DEF n, r
<1>4. OnQueue(r) = OnQueue(q) \cup {t}
  BY <1>1, <1>2, <1>3 DEF OnQueue, n
<1>5. ASSUME QueuedOnce(q), t \notin OnQueue(q) PROVE QueuedOnce(r)
  <2>1. \A i \in 1..n : q[i] # t
    BY <1>5 DEF OnQueue, n
  <2> QED BY <1>1, <1>2, <1>5, <2>1 DEF QueuedOnce, n
<1> QED BY <1>1, <1>4, <1>5 DEF r

LEMMA LeaveQueue ==
    ASSUME NEW q \in Seq(Thread), q # <<>>
    PROVE  /\ Head(q) \in OnQueue(q) /\ Head(q) \in Thread /\ Tail(q) \in Seq(Thread)
           /\ QueuedOnce(q) => /\ OnQueue(Tail(q)) = OnQueue(q) \ {Head(q)}
                               /\ QueuedOnce(Tail(q))
<1> DEFINE n == Len(q)
           r == Tail(q)
           h == Head(q)
<1>1. /\ n \in Nat \ {0} /\ Len(r) = n - 1 /\ r \in Seq(Thread)
      /\ h = q[1] /\ h \in Thread
      /\ \A i \in 1..Len(r) : r[i] = q[i + 1]
  OBVIOUS
<1>2. /\ 1 \in 1..n
      /\ \A i \in 1..Len(r) : i + 1 \in 1..n /\ i + 1 # 1
      /\ \A i \in 1..n : i # 1 => i - 1 \in 1..Len(r) /\ (i - 1) + 1 = i
      /\ \A i, j \in 1..Len(r) : i + 1 = j + 1 => i = j
  BY <1>1
<1> HIDE DEF n, r, h
<1>3. h \in OnQueue(q)
  BY <1>1, <1>2 DEF OnQueue, n
<1>4. ASSUME QueuedOnce(q) PROVE OnQueue(r) = OnQueue(q) \ {h} /\ QueuedOnce(r)
  <2>1. QueuedOnce(r)
    BY <1>1, <1>2, <1>4 DEF QueuedOnce, n
  <2>2. ASSUME NEW x \in OnQueue(r) PROVE x \in OnQueue(q) \ {h}
    <3>1. PICK i \in 1..Len(r) : x = q[i + 1]
      BY <1>1, <2>2 DEF OnQueue
    <3> QED BY <1>1, <1>2, <1>4, <3>1 DEF OnQueue, QueuedOnce, n
  <2>3. ASSUME NEW x \in OnQueue(q), x # h PROVE x \in OnQueue(r)
    <3>1. PICK i \in 1..n : x = q[i]
      BY <2>3 DEF OnQueue, n
    <3>2. i - 1 \in 1..Len(r) /\ r[i - 1] = x
      BY <1>1, <1>2, <2>3, <3>1
    <3> QED BY <3>2 DEF OnQueue
  <2> QED BY <2>1, <2>2, <2>3
<1> QED BY <1>1, <1>3, <1>4 DEF r, h

\* The dispatcher's operations keep the type of its state.
LEMMA SchedTypes ==
    ASSUME SchedTypeOK,
           \/ \E t \in Thread : ReadyToRun(t)
           \/ YieldCPU \/ SleepCPU \/ LeaveIdle
           \/ UNCHANGED schedVars
    PROVE  SchedTypeOK'
<1> USE DEF SchedTypeOK, ThreadStatus
<1>0. readyList # <<>> => Head(readyList) \in Thread /\ Tail(readyList) \in Seq(Thread)
  OBVIOUS
<1>1. CASE \E t \in Thread : ReadyToRun(t)
  BY <1>1 DEF ReadyToRun
<1>2. CASE YieldCPU
  <2>1. CASE readyList = <<>>
    BY <1>2, <2>1 DEF YieldCPU, schedVars
  <2>2. CASE readyList # <<>>
    <3>1. /\ currentThread' = Head(readyList)
          /\ status' = [[status EXCEPT ![currentThread] = "READY"]
                          EXCEPT ![Head(readyList)] = "RUNNING"]
          /\ readyList' = Append(Tail(readyList), currentThread)
      BY <1>2, <2>2 DEF YieldCPU, Run
    <3>2. readyList' \in Seq(Thread)
      BY <1>0, <2>2, <3>1
    <3>3. status' \in [Thread -> ThreadStatus]
      BY <3>1
    <3> QED BY <1>0, <2>2, <3>1, <3>2, <3>3
  <2> QED BY <2>1, <2>2
<1>3. CASE SleepCPU
  BY <1>0, <1>3 DEF SleepCPU, Run
<1>4. CASE LeaveIdle
  BY <1>0, <1>4 DEF LeaveIdle, Run
<1>5. CASE UNCHANGED schedVars
  BY <1>5 DEF schedVars
<1> QED BY <1>1, <1>2, <1>3, <1>4, <1>5

=============================================================================
