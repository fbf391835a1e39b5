--------------------------- MODULE SynchDiskProofs ---------------------------
(***************************************************************************)
(* SynchDisk for any number of threads, with and without time slices: no   *)
(* request is sent to a busy disk, the interrupt wakes the thread whose    *)
(* transfer it reports, and no call returns on the interrupt of another.   *)
(*                                                                         *)
(* The inductive invariant gives the lock to one thread at a time, from    *)
(* the P of Acquire to the V of Release; says that the transfer, the unit  *)
(* of the semaphore and the sleeping thread belong to that thread; and     *)
(* says that a queued thread is BLOCKED and queued once, so that V of one  *)
(* semaphore never resumes a thread that waits on the other.               *)
(***************************************************************************)
EXTENDS SynchDisk, SchedulerProofs

Holding(t) == pc[t] \in {"got", "io", "done"}

OneHolds ==
    /\ value[lock] <= 1
    /\ \A t \in Thread : Holding(t) => value[lock] = 0
    /\ \A t, u \in Thread : Holding(t) /\ Holding(u) => t = u

LockQueueOK ==
    /\ QueuedOnce(queue[lock])
    /\ \A t \in OnQueue(queue[lock]) : pc[t] = "P" /\ status[t] = "BLOCKED"

IOQueueOK ==
    queue[semaphore] # <<>> =>
        queue[semaphore] = <<request>> /\ active /\ status[request] = "BLOCKED"

\* The disk, the semaphore and the thread that waits, at each stage of a
\* transfer: pending, reported, taken note of.
TransferOK ==
    /\ value[semaphore] <= 1
    /\ active => request \in Thread /\ pc[request] = "io" /\ value[semaphore] = 0
    /\ value[semaphore] = 1 => request \in Thread /\ pc[request] = "io" /\ finished = request
    /\ \A t \in Thread : pc[t] = "io" => request = t /\ (active \/ value[semaphore] = 1)
    /\ \A t \in Thread : pc[t] = "done" => request = t /\ finished = t

SynchDiskInv ==
    TypeOK /\ SchedulerInv /\ OneHolds /\ LockQueueOK /\ IOQueueOK /\ TransferOK

-----------------------------------------------------------------------------
\* What P and V do to the dispatcher, the semaphore and the caller's label,
\* when the threads on the semaphore's queue are BLOCKED.
LEMMA POutcome ==
    ASSUME SchedOK, SemTypeOK, status[currentThread] = "RUNNING",
           NEW s \in Sem, NEW again, NEW done, P(s, again, done)
    PROVE  /\ SchedOK' /\ SemTypeOK'
           /\ \/ /\ value[s] > 0 /\ value' = [value EXCEPT ![s] = @ - 1] /\ queue' = queue
                 /\ pc' = [pc EXCEPT ![currentThread] = done]
                 /\ UNCHANGED schedVars
              \/ /\ value[s] = 0 /\ value' = value
                 /\ queue' = [queue EXCEPT ![s] = Append(@, currentThread)]
                 /\ pc' = [pc EXCEPT ![currentThread] = again]
                 /\ \A t \in Thread : status'[t] = "BLOCKED"
                                        <=> t = currentThread \/ status[t] = "BLOCKED"
<1>1. CASE value[s] > 0
  <2>1. /\ value' = [value EXCEPT ![s] = @ - 1] /\ queue' = queue
        /\ pc' = [pc EXCEPT ![currentThread] = done] /\ UNCHANGED schedVars
    BY <1>1 DEF P, Goto
  <2>2. SchedOK'
    BY <2>1 DEF SchedOK, SchedTypeOK, SchedulerInv, OneRunning, ReadyExact, ReadyOnce, schedVars
  <2> QED BY <1>1, <2>1, <2>2 DEF SemTypeOK
<1>2. CASE value[s] = 0
  <2>1. /\ queue' = [queue EXCEPT ![s] = Append(@, currentThread)] /\ value' = value
        /\ pc' = [pc EXCEPT ![currentThread] = again] /\ SleepCPU
    BY <1>2 DEF P, Goto
  <2>2. SchedOK'
    BY <2>1, SleepOK
  <2>3. SemTypeOK'
    BY <2>1 DEF SemTypeOK, SchedOK, SchedTypeOK
  <2> QED BY <1>2, <2>1, <2>2, <2>3, SleepBlocks
<1> QED BY <1>1, <1>2 DEF SemTypeOK

LEMMA VOutcome ==
    ASSUME SchedOK, SemTypeOK, NEW s \in Sem, V(s),
           queue[s] # <<>> => status[Head(queue[s])] = "BLOCKED"
    PROVE  /\ SchedOK' /\ SemTypeOK' /\ currentThread' = currentThread
           /\ value' = [value EXCEPT ![s] = @ + 1]
           /\ \/ queue[s] = <<>> /\ queue' = queue /\ status' = status
              \/ /\ queue[s] # <<>> /\ Head(queue[s]) \in Thread
                 /\ queue' = [queue EXCEPT ![s] = Tail(@)]
                 /\ \A t \in Thread : status'[t] = "BLOCKED"
                                        <=> t # Head(queue[s]) /\ status[t] = "BLOCKED"
<1>0. value' = [value EXCEPT ![s] = @ + 1] /\ value' \in [Sem -> Nat]
  BY DEF V, SemTypeOK
<1>1. CASE queue[s] = <<>>
  <2>1. UNCHANGED schedVars /\ queue' = queue
    BY <1>1 DEF V
  <2>2. SchedOK'
    BY <2>1 DEF SchedOK, SchedTypeOK, SchedulerInv, OneRunning, ReadyExact, ReadyOnce, schedVars
  <2> QED BY <1>0, <1>1, <2>1, <2>2 DEF SemTypeOK, schedVars
<1>2. CASE queue[s] # <<>>
  <2>1. Head(queue[s]) \in Thread /\ Tail(queue[s]) \in Seq(Thread)
    BY <1>2 DEF SemTypeOK
  <2>2. ReadyToRun(Head(queue[s])) /\ queue' = [queue EXCEPT ![s] = Tail(@)]
    BY <1>2 DEF V
  <2>3. SchedOK'
    BY <1>2, <2>1, <2>2, ReadyToRunOK
  <2>4. currentThread' = currentThread
    BY <2>2 DEF ReadyToRun
  <2> QED BY <1>0, <1>2, <2>1, <2>2, <2>3, <2>4, ReadyToRunUnblocks DEF SemTypeOK
<1> QED BY <1>1, <1>2

\* The fields of the lock keep their type.
LEMMA HolderType ==
    ASSUME LockTypeOK, SchedTypeOK,
           RecordHolder(lock) \/ ForgetHolder(lock) \/ UNCHANGED lockVars
    PROVE  LockTypeOK'
  BY FieldsAssumption DEF LockTypeOK, SchedTypeOK, RecordHolder, ForgetHolder, lockVars

LEMMA SynchDiskInit == Init => SynchDiskInv
<1> SUFFICES ASSUME Init PROVE SynchDiskInv
  OBVIOUS
<1> USE FieldsAssumption, LockAssumption, InitialValueAssumption
<1>1. SchedOK
  BY StartAssumption, StartedOK DEF Init, StartThreads
<1>2. TypeOK
  <2>1. active \in BOOLEAN /\ request \in Thread \cup {NoThread} /\ finished \in Thread \cup {NoThread}
    BY DEF Init
  <2>2. SemTypeOK /\ LockTypeOK /\ pc \in [Thread -> Label]
    BY DEF SemTypeOK, LockTypeOK, Label, Init, SemInit, LockInit
  <2> QED BY <1>1, <2>1, <2>2 DEF TypeOK, SchedOK
<1>3. /\ value[lock] = 1 /\ value[semaphore] = 0
      /\ queue[lock] = <<>> /\ queue[semaphore] = <<>>
      /\ \A t \in Thread : pc[t] = "out"
      /\ ~active
  BY DEF Init, SemInit
<1>4. OnQueue(<<>>) = {} /\ QueuedOnce(<<>>)
  BY DEF OnQueue, QueuedOnce
<1> QED BY <1>1, <1>2, <1>3, <1>4
        DEF SynchDiskInv, SchedOK, OneHolds, Holding, LockQueueOK, IOQueueOK, TransferOK

LEMMA SynchDiskNext == SynchDiskInv /\ [Next]_vars => SynchDiskInv'
<1> SUFFICES ASSUME SynchDiskInv, [Next]_vars PROVE SynchDiskInv'
  OBVIOUS
<1>0. /\ SchedOK /\ SemTypeOK /\ LockTypeOK /\ pc \in [Thread -> Label]
      /\ SchedTypeOK /\ currentThread \in Thread
      /\ active \in BOOLEAN /\ request \in Thread \cup {NoThread}
      /\ finished \in Thread \cup {NoThread}
      /\ lock \in Sem /\ semaphore \in Sem /\ lock # semaphore
      /\ value \in [Sem -> Nat] /\ queue \in [Sem -> Seq(Thread)]
      /\ value[lock] \in Nat /\ value[semaphore] \in Nat
      /\ queue[lock] \in Seq(Thread) /\ queue[semaphore] \in Seq(Thread)
      /\ OnQueue(queue[lock]) \subseteq Thread
      /\ OneHolds /\ LockQueueOK /\ IOQueueOK /\ TransferOK
  BY FieldsAssumption, LockAssumption
     DEF SynchDiskInv, TypeOK, SchedOK, SchedTypeOK, SemTypeOK, OnQueue
\* A step that leaves the lock's queue alone, the labels of its threads and
\* that they are BLOCKED.
<1>q. ASSUME queue'[lock] = queue[lock],
             \A u \in Thread : pc[u] = "P" /\ status[u] = "BLOCKED"
                               => pc'[u] = "P" /\ status'[u] = "BLOCKED"
      PROVE  LockQueueOK'
  BY <1>0, <1>q DEF LockQueueOK
\* A RUNNING thread is on neither queue.
<1>a. ASSUME NEW t \in Thread, status[t] = "RUNNING"
      PROVE  /\ t \notin OnQueue(queue[lock])
             /\ request = t => queue[semaphore] = <<>>
  BY <1>0, <1>a DEF LockQueueOK, IOQueueOK
\* Unless its holder waits for the disk, the disk is quiet.
<1>b. ASSUME \A u \in Thread : pc[u] # "io"
      PROVE  active = FALSE /\ value[semaphore] = 0 /\ queue[semaphore] = <<>>
  <2>1. active = FALSE
    BY <1>0, <1>b DEF TransferOK
  <2>2. value[semaphore] = 0
    BY <1>0, <1>b DEF TransferOK
  <2> QED BY <1>0, <2>1, <2>2 DEF IOQueueOK
\* Acquire.
<1>1. ASSUME NEW t \in Thread, CallSector(t) \/ ResumeAcquire(t) PROVE SynchDiskInv'
  <2>1. /\ currentThread = t /\ status[t] = "RUNNING" /\ pc[t] \in {"out", "P"}
        /\ P(lock, "P", "got") /\ UNCHANGED lockVars
        /\ UNCHANGED <<active, request, finished>>
    BY <1>1 DEF CallSector, ResumeAcquire, At, Running, Acquire, diskVars
  <2>2. SchedOK' /\ SemTypeOK' /\ LockTypeOK'
    BY <1>0, <2>1, POutcome, HolderType
  <2>3. pc' \in [Thread -> Label] /\ \A u \in Thread : u # t => pc'[u] = pc[u]
    BY <1>0, <2>1 DEF P, Goto, Label
  <2>4. TypeOK' /\ SchedulerInv'
    BY <1>0, <2>1, <2>2, <2>3 DEF TypeOK, SchedOK
  <2>5. CASE value[lock] > 0
    <3>1. /\ value' = [value EXCEPT ![lock] = @ - 1] /\ queue' = queue
          /\ pc' = [pc EXCEPT ![t] = "got"] /\ status' = status
      BY <1>0, <2>1, <2>5, POutcome DEF schedVars
    <3>2. /\ value'[lock] = 0 /\ value'[semaphore] = value[semaphore]
          /\ \A u \in Thread : ~Holding(u)
      BY <1>0, <2>5, <3>1 DEF OneHolds
    <3>3. OneHolds'
      BY <1>0, <3>1, <3>2 DEF OneHolds, Holding
    <3>4. LockQueueOK'
      BY <1>0, <1>a, <2>1, <2>3, <3>1 DEF LockQueueOK
    <3>5. IOQueueOK' /\ TransferOK'
      <4>1. \A u \in Thread : pc[u] # "io"
        BY <3>2 DEF Holding
      <4>2. active = FALSE /\ value[semaphore] = 0 /\ queue[semaphore] = <<>>
        BY <1>b, <4>1
      <4>3. \A u \in Thread : pc'[u] \notin {"io", "done"}
        BY <1>0, <3>1, <3>2 DEF Holding
      <4> QED BY <2>1, <3>1, <3>2, <4>2, <4>3 DEF IOQueueOK, TransferOK
    <3> QED BY <2>4, <3>3, <3>4, <3>5 DEF SynchDiskInv
  <2>6. CASE value[lock] = 0
    <3>1. /\ value' = value /\ queue' = [queue EXCEPT ![lock] = Append(@, t)]
          /\ pc' = [pc EXCEPT ![t] = "P"]
          /\ \A u \in Thread : status'[u] = "BLOCKED" <=> u = t \/ status[u] = "BLOCKED"
      BY <1>0, <2>1, <2>6, POutcome
    <3>2. OneHolds'
      BY <1>0, <3>1 DEF OneHolds, Holding
    <3>3. LockQueueOK'
      <4>1. t \notin OnQueue(queue[lock])
        BY <1>a, <2>1
      <4>2. /\ QueuedOnce(queue'[lock])
            /\ OnQueue(queue'[lock]) = OnQueue(queue[lock]) \cup {t}
        BY <1>0, <3>1, <4>1, JoinQueue DEF LockQueueOK
      <4>3. pc'[t] = "P" /\ status'[t] = "BLOCKED"
        BY <1>0, <3>1
      <4> QED BY <1>0, <3>1, <4>1, <4>2, <4>3 DEF LockQueueOK
    <3>4. queue'[semaphore] = queue[semaphore] /\ (\A u \in Thread : pc'[u] \in {"io", "done"} <=> pc[u] \in {"io", "done"})
      BY <1>0, <2>1, <3>1
    <3>5. TransferOK'
      BY <1>0, <2>1, <2>3, <3>1 DEF TransferOK
    <3>6. IOQueueOK'
      BY <1>0, <2>1, <3>1, <3>4 DEF IOQueueOK, TransferOK
    <3> QED BY <2>4, <3>2, <3>3, <3>5, <3>6 DEF SynchDiskInv
  <2> QED BY <1>0, <2>5, <2>6
\* The request is sent to a quiet disk, and its thread goes to sleep.
<1>2. ASSUME NEW t \in Thread, SendRequest(t) PROVE SynchDiskInv'
  <2>1. /\ currentThread = t /\ status[t] = "RUNNING" /\ pc[t] = "got"
        /\ P(semaphore, "io", "done") /\ RecordHolder(lock)
        /\ active' = TRUE /\ request' = t /\ finished' = finished
    BY <1>2 DEF SendRequest, Request, At, Running
  <2>2. \A u \in Thread : Holding(u) => u = t
    BY <1>0, <2>1 DEF OneHolds, Holding
  <2>3. active = FALSE /\ value[semaphore] = 0 /\ queue[semaphore] = <<>>
    BY <1>b, <2>1, <2>2 DEF Holding
  <2>4. SchedOK' /\ SemTypeOK' /\ LockTypeOK'
    BY <1>0, <2>1, POutcome, HolderType
  <2>5. /\ value' = value /\ queue' = [queue EXCEPT ![semaphore] = Append(@, t)]
        /\ pc' = [pc EXCEPT ![t] = "io"]
        /\ \A u \in Thread : status'[u] = "BLOCKED" <=> u = t \/ status[u] = "BLOCKED"
    <3>1. /\ value' = value /\ queue' = [queue EXCEPT ![semaphore] = Append(@, t)]
          /\ pc' = [pc EXCEPT ![t] = "io"] /\ SleepCPU
      BY <2>1, <2>3 DEF P, Goto
    <3> QED BY <1>0, <2>1, <3>1, SleepBlocks
  <2>6. TypeOK' /\ SchedulerInv'
    <3>1. pc' \in [Thread -> Label]
      BY <1>0, <2>5 DEF Label
    <3>2. active' \in BOOLEAN /\ request' \in Thread \cup {NoThread} /\ finished' \in Thread \cup {NoThread}
      BY <1>0, <2>1
    <3> QED BY <2>4, <3>1, <3>2 DEF TypeOK, SchedOK
  <2>7. OneHolds'
    BY <1>0, <2>1, <2>5 DEF OneHolds, Holding
  <2>8. LockQueueOK'
    <3>1. queue'[lock] = queue[lock]
      BY <1>0, <2>5
    <3>2. t \notin OnQueue(queue[lock])
      BY <1>a, <2>1
    <3> QED BY <1>0, <2>5, <3>1, <3>2 DEF LockQueueOK
  <2>9. IOQueueOK'
    <3>1. queue'[semaphore] = <<t>>
      BY <1>0, <2>3, <2>5
    <3> QED BY <2>1, <2>5, <3>1 DEF IOQueueOK
  <2>10. TransferOK'
    <3>1. \A u \in Thread : u # t => pc'[u] \notin {"io", "done"}
      BY <1>0, <2>2, <2>5 DEF Holding
    <3>2. pc'[t] = "io" /\ value'[semaphore] = 0
      BY <1>0, <2>3, <2>5
    <3> QED BY <2>1, <3>1, <3>2 DEF TransferOK
  <2> QED BY <2>6, <2>7, <2>8, <2>9, <2>10 DEF SynchDiskInv
\* The thread that waits for its transfer looks at the semaphore again.
<1>3. ASSUME NEW t \in Thread, ResumeIO(t) PROVE SynchDiskInv'
  <2>1. /\ currentThread = t /\ status[t] = "RUNNING" /\ pc[t] = "io"
        /\ P(semaphore, "io", "done") /\ UNCHANGED lockVars
        /\ UNCHANGED <<active, request, finished>>
    BY <1>3 DEF ResumeIO, At, Running, diskVars
  <2>2. /\ \A u \in Thread : Holding(u) => u = t
        /\ request = t /\ queue[semaphore] = <<>>
    BY <1>0, <1>a, <2>1 DEF OneHolds, Holding, TransferOK
  <2>3. SchedOK' /\ SemTypeOK' /\ LockTypeOK'
    BY <1>0, <2>1, POutcome, HolderType
  <2>4. PICK l \in {"io", "done"} : pc' = [pc EXCEPT ![t] = l]
    BY <2>1 DEF P, Goto
  <2>5. TypeOK' /\ SchedulerInv'
    BY <1>0, <2>1, <2>3, <2>4 DEF TypeOK, SchedOK, Label
  <2>6. OneHolds' /\ LockQueueOK'
    <3>1. /\ value'[lock] = value[lock] /\ queue'[lock] = queue[lock]
          /\ \A u \in Thread : status[u] = "BLOCKED" => status'[u] = "BLOCKED"
      BY <1>0, <2>1, POutcome DEF schedVars
    <3>2. t \notin OnQueue(queue[lock])
      BY <1>a, <2>1
    <3>3. LockQueueOK'
      BY <1>0, <2>4, <3>1, <3>2 DEF LockQueueOK
    <3>4. OneHolds'
      BY <1>0, <2>1, <2>4, <3>1 DEF OneHolds, Holding
    <3> QED BY <3>3, <3>4
  <2>7. \A u \in Thread : u # t => pc'[u] \notin {"io", "done"}
    BY <1>0, <2>2, <2>4 DEF Holding
  <2>8. CASE value[semaphore] > 0
    <3>1. /\ value' = [value EXCEPT ![semaphore] = @ - 1] /\ queue' = queue
          /\ pc' = [pc EXCEPT ![t] = "done"]
      BY <1>0, <2>1, <2>8, POutcome
    <3>2. value[semaphore] = 1 /\ finished = t /\ active = FALSE
      BY <1>0, <2>2, <2>8 DEF TransferOK
    <3>3. value'[semaphore] = 0 /\ queue'[semaphore] = <<>> /\ pc'[t] = "done"
      BY <1>0, <2>2, <3>1, <3>2
    <3>4. IOQueueOK' /\ TransferOK'
      BY <2>1, <2>2, <2>7, <3>2, <3>3 DEF IOQueueOK, TransferOK
    <3> QED BY <2>5, <2>6, <3>4 DEF SynchDiskInv
  <2>9. CASE value[semaphore] = 0
    <3>1. /\ value' = value /\ queue' = [queue EXCEPT ![semaphore] = Append(@, t)]
          /\ pc' = [pc EXCEPT ![t] = "io"] /\ status'[t] = "BLOCKED"
      BY <1>0, <2>1, <2>9, POutcome
    <3>2. active = TRUE
      BY <1>0, <2>1, <2>9 DEF TransferOK
    <3>3. queue'[semaphore] = <<t>> /\ pc'[t] = "io"
      BY <1>0, <2>2, <3>1
    <3>4. IOQueueOK' /\ TransferOK'
      BY <2>1, <2>2, <2>7, <2>9, <3>1, <3>2, <3>3 DEF IOQueueOK, TransferOK
    <3> QED BY <2>5, <2>6, <3>4 DEF SynchDiskInv
  <2> QED BY <1>0, <2>8, <2>9
\* Release, which does nothing when the field names another thread.
<1>4. ASSUME NEW t \in Thread, CallRelease(t) PROVE SynchDiskInv'
  <2>1. /\ currentThread = t /\ pc[t] = "done" /\ UNCHANGED lockVars
        /\ UNCHANGED <<active, request, finished>>
    BY <1>4 DEF CallRelease, At, Running, Release, diskVars
  <2>2. PICK l \in {"gave", "out"} :
          /\ pc' = [pc EXCEPT ![t] = l]
          /\ V(lock) \/ UNCHANGED <<semVars, schedVars>>
    BY <1>4, <2>1 DEF CallRelease, Release, Goto
  <2>3. value[lock] = 0 /\ \A u \in Thread : Holding(u) => u = t
    BY <1>0, <2>1 DEF OneHolds, Holding
  <2>4. active = FALSE /\ value[semaphore] = 0 /\ queue[semaphore] = <<>>
    BY <1>b, <2>1, <2>3 DEF Holding
  <2>5. /\ pc' \in [Thread -> Label]
        /\ \A u \in Thread : ~Holding(u)'
        /\ \A u \in Thread : pc[u] = "P" => pc'[u] = "P"
    BY <1>0, <2>1, <2>2, <2>3 DEF Holding, Label
  <2>6. /\ SchedOK' /\ SemTypeOK' /\ value'[lock] <= 1 /\ LockQueueOK'
        /\ value'[semaphore] = 0 /\ queue'[semaphore] = <<>>
    <3>1. CASE V(lock)
      <4>1. queue[lock] # <<>> => status[Head(queue[lock])] = "BLOCKED"
        BY <1>0, LeaveQueue DEF LockQueueOK
      <4>2. SchedOK' /\ SemTypeOK' /\ value' = [value EXCEPT ![lock] = @ + 1]
        BY <1>0, <3>1, <4>1, VOutcome
      <4>3. value'[lock] <= 1 /\ value'[semaphore] = 0
        BY <1>0, <2>3, <2>4, <4>2
      <4>4. CASE queue[lock] = <<>>
        <5>1. queue' = queue
          BY <1>0, <3>1, <4>1, <4>4, VOutcome
        <5>2. status' = status
          BY <1>0, <3>1, <4>1, <4>4, VOutcome
        <5>3. LockQueueOK'
          BY <1>q, <2>5, <5>1, <5>2
        <5> QED BY <2>4, <4>2, <4>3, <5>1, <5>3
      <4>5. CASE queue[lock] # <<>>
        <5>1. /\ queue' = [queue EXCEPT ![lock] = Tail(@)]
              /\ \A u \in Thread : status'[u] = "BLOCKED"
                                     <=> u # Head(queue[lock]) /\ status[u] = "BLOCKED"
          BY <1>0, <3>1, <4>1, <4>5, VOutcome
        <5>2. /\ queue'[semaphore] = <<>> /\ QueuedOnce(queue'[lock])
              /\ OnQueue(queue'[lock]) = OnQueue(queue[lock]) \ {Head(queue[lock])}
          BY <1>0, <2>4, <4>5, <5>1, LeaveQueue DEF LockQueueOK
        <5>3. LockQueueOK'
          BY <1>0, <2>5, <5>1, <5>2 DEF LockQueueOK
        <5> QED BY <4>2, <4>3, <5>2, <5>3
      <4> QED BY <4>4, <4>5
    <3>2. CASE UNCHANGED <<semVars, schedVars>>
      <4>1. SchedOK' /\ SemTypeOK'
        BY <1>0, <3>2 DEF SchedOK, SchedTypeOK, SchedulerInv, OneRunning, ReadyExact, ReadyOnce,
                          schedVars, semVars, SemTypeOK
      <4>2. LockQueueOK'
        BY <1>q, <2>5, <3>2 DEF semVars, schedVars
      <4> QED BY <1>0, <2>3, <2>4, <3>2, <4>1, <4>2 DEF semVars
    <3> QED BY <2>2, <3>1, <3>2
  <2>7. TypeOK' /\ SchedulerInv'
    BY <1>0, <2>1, <2>5, <2>6, HolderType DEF TypeOK, SchedOK
  <2>8. OneHolds'
    BY <2>5, <2>6 DEF OneHolds
  <2>9. IOQueueOK' /\ TransferOK'
    BY <2>1, <2>4, <2>5, <2>6 DEF IOQueueOK, TransferOK, Holding
  <2> QED BY <2>6, <2>7, <2>8, <2>9 DEF SynchDiskInv
<1>5. ASSUME NEW t \in Thread, EndRelease(t) PROVE SynchDiskInv'
  <2>1. /\ pc[t] = "gave" /\ pc' = [pc EXCEPT ![t] = "out"] /\ ForgetHolder(lock)
        /\ UNCHANGED schedVars /\ UNCHANGED <<value, queue, active, request, finished>>
    BY <1>5 DEF EndRelease, At, Goto, semVars, diskVars
  <2>2. SchedOK' /\ SemTypeOK' /\ LockTypeOK'
    BY <1>0, <2>1, HolderType
       DEF SchedOK, SchedTypeOK, SchedulerInv, OneRunning, ReadyExact, ReadyOnce, schedVars, SemTypeOK
  <2>3. TypeOK' /\ SchedulerInv'
    BY <1>0, <2>1, <2>2 DEF TypeOK, SchedOK, Label
  <2>4. OneHolds'
    BY <1>0, <2>1 DEF OneHolds, Holding
  <2>5. LockQueueOK'
    BY <1>0, <1>q, <2>1 DEF schedVars
  <2>6. IOQueueOK' /\ TransferOK'
    BY <1>0, <2>1 DEF IOQueueOK, TransferOK, schedVars
  <2> QED BY <2>3, <2>4, <2>5, <2>6 DEF SynchDiskInv
\* The interrupt reports the pending transfer and wakes its thread.
<1>6. CASE HandleInterrupt
  <2>1. /\ active /\ active' = FALSE /\ finished' = request /\ request' = request
        /\ V(semaphore) /\ UNCHANGED lockVars /\ pc' = pc
    BY <1>6 DEF HandleInterrupt
  <2>2. request \in Thread /\ pc[request] = "io" /\ value[semaphore] = 0
    BY <1>0, <2>1 DEF TransferOK
  <2>3. queue[semaphore] # <<>> => Head(queue[semaphore]) = request /\ status[request] = "BLOCKED"
    BY <1>0 DEF IOQueueOK
  <2>4. SchedOK' /\ SemTypeOK' /\ LockTypeOK' /\ value' = [value EXCEPT ![semaphore] = @ + 1]
    BY <1>0, <2>1, <2>3, VOutcome, HolderType
  <2>5. TypeOK' /\ SchedulerInv'
    <3>1. active' \in BOOLEAN
      BY <2>1
    <3> QED BY <1>0, <2>1, <2>4, <3>1 DEF TypeOK, SchedOK
  <2>6. value'[semaphore] = 1 /\ value'[lock] = value[lock]
    BY <1>0, <2>2, <2>4
  <2>7. /\ queue'[semaphore] = <<>> /\ queue'[lock] = queue[lock]
        /\ \A u \in Thread : u # request /\ status[u] = "BLOCKED" => status'[u] = "BLOCKED"
    <3>1. CASE queue[semaphore] = <<>>
      BY <1>0, <2>1, <2>3, <3>1, VOutcome
    <3>2. CASE queue[semaphore] # <<>>
      <4>1. /\ queue' = [queue EXCEPT ![semaphore] = Tail(@)]
            /\ \A u \in Thread : status'[u] = "BLOCKED" <=> u # request /\ status[u] = "BLOCKED"
        BY <1>0, <2>1, <2>3, <3>2, VOutcome
      <4>2. queue[semaphore] = <<request>>
        BY <1>0, <3>2 DEF IOQueueOK
      <4> QED BY <1>0, <4>1, <4>2
    <3> QED BY <3>1, <3>2
  <2>8. OneHolds'
    BY <1>0, <2>1, <2>6 DEF OneHolds, Holding
  <2>9. LockQueueOK'
    <3>1. request \notin OnQueue(queue[lock])
      BY <1>0, <2>2 DEF LockQueueOK
    <3> QED BY <1>0, <2>1, <2>7, <3>1 DEF LockQueueOK
  <2>10. IOQueueOK'
    BY <2>7 DEF IOQueueOK
  <2>11. TransferOK'
    <3>1. \A u \in Thread : pc[u] \in {"io", "done"} => u = request /\ pc[u] = "io"
      BY <1>0, <2>2 DEF OneHolds, Holding
    <3> QED BY <2>1, <2>2, <2>6, <3>1 DEF TransferOK
  <2> QED BY <2>5, <2>8, <2>9, <2>10, <2>11 DEF SynchDiskInv
\* The processor changes hands.
<1>7. CASE Yield \/ Preempt \/ EndIdle \/ UNCHANGED vars
  <2>1. /\ \/ status[currentThread] = "RUNNING" /\ readyList # <<>> /\ YieldCPU
           \/ LeaveIdle \/ UNCHANGED schedVars
        /\ UNCHANGED <<value, queue, pc, holder, randomYield, active, request, finished>>
    BY <1>7 DEF Yield, Preempt, TimeSlice, YieldAt, Running, EndIdle, vars, semVars, lockVars, diskVars
  <2>2. SchedOK'
    <3>1. CASE UNCHANGED schedVars
      BY <1>0, <3>1 DEF SchedOK, SchedTypeOK, SchedulerInv, OneRunning, ReadyExact, ReadyOnce, schedVars
    <3> QED BY <1>0, <2>1, <3>1, YieldOK, LeaveIdleOK
  <2>3. TypeOK' /\ SchedulerInv'
    BY <1>0, <2>1, <2>2 DEF TypeOK, SchedOK, SemTypeOK, LockTypeOK
  <2>4. \A u \in Thread : status'[u] = "BLOCKED" <=> status[u] = "BLOCKED"
    BY <1>0, <2>1, SwitchBlocksNone
  <2>5. OneHolds'
    BY <1>0, <2>1 DEF OneHolds, Holding
  <2>6. LockQueueOK'
    BY <1>q, <2>1, <2>4
  <2>7. TransferOK'
    BY <1>0, <2>1 DEF TransferOK
  <2>8. IOQueueOK'
    BY <1>0, <2>1, <2>4 DEF IOQueueOK, TransferOK
  <2> QED BY <2>3, <2>5, <2>6, <2>7, <2>8 DEF SynchDiskInv
<1> QED BY <1>1, <1>2, <1>3, <1>4, <1>5, <1>6, <1>7 DEF Next, Step

\* The inductive invariant of the synchronous disk.
THEOREM SynchDiskInvariant == Spec => []SynchDiskInv
  BY SynchDiskInit, SynchDiskNext, PTL DEF Spec

\* Disk::ReadRequest and WriteRequest never meet an active disk, the disk's
\* interrupt wakes the thread that waits for it and no other, and ReadSector
\* and WriteSector return only after their own transfer was reported, for any
\* number of threads and any placing of time slices.
THEOREM DiskInvariant == Spec => []DiskInv
<1>1. SynchDiskInv => DiskInv
  <2> SUFFICES ASSUME SynchDiskInv PROVE DiskInv
    OBVIOUS
  <2>0. TypeOK /\ OneHolds /\ IOQueueOK /\ TransferOK /\ value[semaphore] \in Nat /\ active \in BOOLEAN
    BY FieldsAssumption DEF SynchDiskInv, TypeOK, SemTypeOK
  <2>1. ASSUME NEW t \in Thread, pc[t] \in {"got", "done"}
        PROVE  active = FALSE /\ value[semaphore] = 0
    <3>1. \A u \in Thread : pc[u] # "io"
      BY <2>0, <2>1 DEF OneHolds, Holding
    <3> QED BY <2>0, <3>1 DEF TransferOK
  <2>2. DiskQuiet
    BY <2>1 DEF DiskQuiet
  <2>3. InterruptWakesRequester
    BY <2>0 DEF InterruptWakesRequester, TransferOK, IOQueueOK
  <2>4. ReturnsAfterOwnIO
    BY <2>0, <2>1 DEF ReturnsAfterOwnIO, TransferOK
  <2> QED BY <2>0, <2>2, <2>3, <2>4 DEF DiskInv
<1> QED BY <1>1, SynchDiskInvariant, PTL

\* A thread that sleeps for its transfer is never forgotten: as long as it is
\* in semaphore->P, either the disk still owes it the interrupt or the unit of
\* that interrupt is there for it to take.
THEOREM CompletionNotLost ==
    Spec => [](\A t \in Thread :
                 pc[t] = "io" => request = t /\ (active \/ value[semaphore] = 1))
<1>1. SynchDiskInv => \A t \in Thread :
                        pc[t] = "io" => request = t /\ (active \/ value[semaphore] = 1)
  BY DEF SynchDiskInv, TransferOK
<1> QED BY <1>1, SynchDiskInvariant, PTL

=============================================================================
