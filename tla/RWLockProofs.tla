---------------------------- MODULE RWLockProofs ----------------------------
(***************************************************************************)
(* A writer is alone and the count of readers is exact, for any number of  *)
(* threads, with and without time slices.  The inductive invariant says    *)
(* who has what: one thread at a time is inside of rdlock, wherever the    *)
(* field threadHoldTheLock points; wrlock has at most one unit, and none   *)
(* while a writer, a first reader or a counted reader is in.  Without the  *)
(* timer the field can be trusted as well, and neither lock is lost.       *)
(***************************************************************************)
EXTENDS RWLock, SchedulerProofs, FiniteSetTheorems

\* Where a thread is counted in readers.
CountedAt == {"rGave", "reading", "uP", "uGot"}

\* Threads between the P of rdlock and its V, and past the P of wrlock.
InRd(t) == pc[t] \in {"rGot", "rwP", "rIn", "uGot", "uOut"}
InWr(t) == pc[t] \in {"rIn", "writing"}

OneInRd ==
    /\ value[rdlock] <= 1
    /\ \A t \in Thread : InRd(t) => value[rdlock] = 0
    /\ \A t, u \in Thread : InRd(t) /\ InRd(u) => t = u

OneInWr ==
    /\ value[wrlock] <= 1
    /\ \A t \in Thread : InWr(t) => value[wrlock] = 0 /\ readers = 0
    /\ \A t \in Thread : pc[t] = "rwP" => readers = 0
    /\ \A t, u \in Thread : InWr(t) /\ InWr(u) => t = u
    /\ readers > 0 => value[wrlock] = 0

TypesOK ==
    /\ SchedTypeOK
    /\ SemTypeOK
    /\ LockTypeOK
    /\ pc \in [Thread -> Label]
    /\ readers \in Nat

RWInv == TypesOK /\ OneInRd /\ OneInWr /\ ReadersExact

-----------------------------------------------------------------------------
LEMMA ThreadFinite == IsFiniteSet(Thread)
  BY StartAssumption DEF IsFiniteSet

LEMMA ReaderFinite == IsFiniteSet(Reader) /\ Cardinality(Reader) \in Nat
<1>1. Reader \in SUBSET Thread
  BY DEF Reader
<1> QED BY <1>1, ThreadFinite, FS_Subset, FS_CardinalityType

\* How the number of readers changes when thread t goes to label l.
LEMMA ReaderStep ==
    ASSUME pc \in [Thread -> Label], NEW t \in Thread, NEW l,
           pc' = [pc EXCEPT ![t] = l]
    PROVE  Cardinality(Reader') = CASE l \in CountedAt /\ pc[t] \notin CountedAt -> Cardinality(Reader) + 1
                                    [] l \notin CountedAt /\ pc[t] \in CountedAt -> Cardinality(Reader) - 1
                                    [] OTHER -> Cardinality(Reader)
<1>1. CASE l \in CountedAt /\ pc[t] \notin CountedAt
  <2>1. Reader' = Reader \cup {t} /\ t \notin Reader
    BY <1>1 DEF Reader, CountedAt
  <2> QED BY <1>1, <2>1, ReaderFinite, FS_AddElement
<1>2. CASE l \notin CountedAt /\ pc[t] \in CountedAt
  <2>1. Reader' = Reader \ {t} /\ t \in Reader
    BY <1>2 DEF Reader, CountedAt
  <2> QED BY <1>2, <2>1, ReaderFinite, FS_RemoveElement
<1>3. CASE (l \in CountedAt) = (pc[t] \in CountedAt)
  <2>1. Reader' = Reader
    BY <1>3 DEF Reader, CountedAt
  <2> QED BY <1>3, <2>1
<1> QED BY <1>1, <1>2, <1>3

\* What P and V do to types, values and labels.
LEMMA POutcome ==
    ASSUME SchedTypeOK, SemTypeOK, NEW s \in Sem, NEW again, NEW done, P(s, again, done)
    PROVE  /\ SchedTypeOK' /\ SemTypeOK'
           /\ \/ /\ value[s] > 0 /\ value' = [value EXCEPT ![s] = @ - 1]
                 /\ pc' = [pc EXCEPT ![currentThread] = done]
              \/ /\ value[s] = 0 /\ value' = value
                 /\ pc' = [pc EXCEPT ![currentThread] = again]
<1>1. CASE value[s] > 0
  <2>1. /\ value' = [value EXCEPT ![s] = @ - 1] /\ queue' = queue
        /\ pc' = [pc EXCEPT ![currentThread] = done] /\ UNCHANGED schedVars
    BY <1>1 DEF P, Goto
  <2>2. SchedTypeOK'
    BY <2>1, SchedTypes
  <2> QED BY <1>1, <2>1, <2>2 DEF SemTypeOK
<1>2. CASE value[s] = 0
  <2>1. /\ queue' = [queue EXCEPT ![s] = Append(@, currentThread)] /\ value' = value
        /\ pc' = [pc EXCEPT ![currentThread] = again] /\ SleepCPU
    BY <1>2 DEF P, Goto
  <2>2. SchedTypeOK'
    BY <2>1, SchedTypes
  <2> QED BY <1>2, <2>1, <2>2 DEF SemTypeOK, SchedTypeOK
<1> QED BY <1>1, <1>2 DEF SemTypeOK

LEMMA VOutcome ==
    ASSUME SchedTypeOK, SemTypeOK, NEW s \in Sem, V(s)
    PROVE  SchedTypeOK' /\ SemTypeOK' /\ value' = [value EXCEPT ![s] = @ + 1]
<1>0. value' = [value EXCEPT ![s] = @ + 1] /\ value' \in [Sem -> Nat]
  BY DEF V, SemTypeOK
<1>1. CASE queue[s] = <<>>
  BY <1>0, <1>1, SchedTypes DEF V, SemTypeOK
<1>2. CASE queue[s] # <<>>
  <2>1. Head(queue[s]) \in Thread /\ Tail(queue[s]) \in Seq(Thread)
    BY <1>2 DEF SemTypeOK
  <2>2. ReadyToRun(Head(queue[s])) /\ queue' = [queue EXCEPT ![s] = Tail(@)]
    BY <1>2 DEF V
  <2>3. SchedTypeOK'
    BY <2>1, <2>2, SchedTypes
  <2> QED BY <1>0, <2>1, <2>2, <2>3 DEF SemTypeOK
<1> QED BY <1>1, <1>2

\* The fields of the lock keep their type.
LEMMA HolderType ==
    ASSUME LockTypeOK, SchedTypeOK,
           RecordHolder(rdlock) \/ ForgetHolder(rdlock) \/ UNCHANGED lockVars
    PROVE  LockTypeOK'
  BY FieldsAssumption DEF LockTypeOK, SchedTypeOK, RecordHolder, ForgetHolder, lockVars

LEMMA RWInvInit == Init => RWInv
<1> SUFFICES ASSUME Init PROVE RWInv
  OBVIOUS
<1> USE StartAssumption, FieldsAssumption, LockAssumption, InitialValueAssumption
    DEF Init, StartThreads, SemInit, LockInit
<1>1. TypesOK
  BY DEF TypesOK, SchedTypeOK, ThreadStatus, SemTypeOK, LockTypeOK, Label
<1>2. value[rdlock] = 1 /\ value[wrlock] = 1
  OBVIOUS
<1>3. \A t \in Thread : pc[t] = "out"
  OBVIOUS
<1>4. Reader = {}
  BY <1>3 DEF Reader
<1>5. ReadersExact
  BY <1>4, FS_EmptySet DEF ReadersExact
<1> QED BY <1>1, <1>2, <1>3, <1>5 DEF RWInv, OneInRd, OneInWr, InRd, InWr

LEMMA RWInvNext == RWInv /\ [Next]_vars => RWInv'
<1> SUFFICES ASSUME RWInv, [Next]_vars PROVE RWInv'
  OBVIOUS
<1>0. /\ SchedTypeOK /\ SemTypeOK /\ LockTypeOK /\ pc \in [Thread -> Label]
      /\ readers \in Nat
      /\ value \in [Sem -> Nat] /\ value[rdlock] \in Nat /\ value[wrlock] \in Nat
      /\ rdlock \in Sem /\ wrlock \in Sem /\ rdlock # wrlock
      /\ OneInRd /\ OneInWr /\ readers = Cardinality(Reader)
  BY FieldsAssumption, LockAssumption DEF RWInv, TypesOK, SemTypeOK, ReadersExact
\* Reduces a step of thread t, from its label to label l, to its effect on the
\* values of the two locks and on the count.
<1>1. ASSUME NEW t \in Thread, NEW l \in Label, pc' = [pc EXCEPT ![t] = l],
             SchedTypeOK', SemTypeOK', LockTypeOK', readers' \in Nat,
             OneInRd', OneInWr',
             readers' = CASE l \in CountedAt /\ pc[t] \notin CountedAt -> readers + 1
                          [] l \notin CountedAt /\ pc[t] \in CountedAt -> readers - 1
                          [] OTHER -> readers
      PROVE  RWInv'
  <2>1. Cardinality(Reader') = readers'
    BY <1>0, <1>1, ReaderStep
  <2>2. TypesOK'
    BY <1>0, <1>1 DEF TypesOK
  <2> QED BY <1>1, <2>1, <2>2 DEF RWInv, ReadersExact
\* P of rdlock, by a thread that enters or leaves as a reader.
<1>2. ASSUME NEW t \in Thread, CallRdLock(t) \/ ResumeRdLock(t)
                               \/ CallRdUnlock(t) \/ ResumeRdUnlock(t)
      PROVE  RWInv'
  <2>1. PICK from \in {"out", "rP", "reading", "uP"}, again \in {"rP", "uP"}, got \in {"rGot", "uGot"} :
          /\ AcquireFor(t, from, again, got)
          /\ (from \in {"out", "rP"} /\ again = "rP" /\ got = "rGot")
             \/ (from \in {"reading", "uP"} /\ again = "uP" /\ got = "uGot")
    BY <1>2 DEF CallRdLock, ResumeRdLock, CallRdUnlock, ResumeRdUnlock
  <2>2. /\ currentThread = t /\ pc[t] = from /\ readers' = readers
        /\ UNCHANGED lockVars /\ P(rdlock, again, got)
    BY <2>1 DEF AcquireFor, At, Running, Acquire
  <2>3. /\ SchedTypeOK' /\ SemTypeOK' /\ LockTypeOK'
        /\ \/ /\ value[rdlock] > 0 /\ value' = [value EXCEPT ![rdlock] = @ - 1]
              /\ pc' = [pc EXCEPT ![t] = got]
           \/ /\ value[rdlock] = 0 /\ value' = value
              /\ pc' = [pc EXCEPT ![t] = again]
    BY <1>0, <2>2, POutcome, HolderType
  <2>4. PICK l \in {again, got} :
          /\ pc' = [pc EXCEPT ![t] = l]
          /\ \/ l = got /\ value[rdlock] > 0 /\ value' = [value EXCEPT ![rdlock] = @ - 1]
             \/ l = again /\ value' = value
    BY <2>3
  <2>5. OneInRd'
    BY <1>0, <2>1, <2>2, <2>4 DEF OneInRd, InRd
  <2>6. OneInWr'
    BY <1>0, <2>1, <2>2, <2>4 DEF OneInWr, InWr
  <2>7. l \in Label /\ (l \in CountedAt) = (pc[t] \in CountedAt)
    BY <2>1, <2>2, <2>4 DEF Label, CountedAt
  <2> QED BY <1>0, <1>1, <2>2, <2>3, <2>4, <2>5, <2>6, <2>7
\* P of wrlock by the first reader.
<1>3. ASSUME NEW t \in Thread, FirstReader(t) \/ ResumeFirstReader(t)
      PROVE  RWInv'
  <2>1. /\ currentThread = t /\ pc[t] \in {"rGot", "rwP"} /\ readers' = readers /\ readers = 0
        /\ RecordHolder(rdlock) \/ UNCHANGED lockVars
        /\ P(wrlock, "rwP", "rIn")
    BY <1>0, <1>3 DEF FirstReader, ResumeFirstReader, At, Running, OneInWr
  <2>2. /\ SchedTypeOK' /\ SemTypeOK' /\ LockTypeOK'
        /\ \/ /\ value[wrlock] > 0 /\ value' = [value EXCEPT ![wrlock] = @ - 1]
              /\ pc' = [pc EXCEPT ![t] = "rIn"]
           \/ /\ value[wrlock] = 0 /\ value' = value
              /\ pc' = [pc EXCEPT ![t] = "rwP"]
    BY <1>0, <2>1, POutcome, HolderType
  <2>3. PICK l \in {"rwP", "rIn"} :
          /\ pc' = [pc EXCEPT ![t] = l]
          /\ \/ l = "rIn" /\ value[wrlock] > 0 /\ value' = [value EXCEPT ![wrlock] = @ - 1]
             \/ l = "rwP" /\ value' = value
    BY <2>2
  <2>4. OneInRd'
    BY <1>0, <2>1, <2>3 DEF OneInRd, InRd
  <2>5. OneInWr'
    BY <1>0, <2>1, <2>3 DEF OneInWr, InWr
  <2>6. l \in Label /\ (l \in CountedAt) = (pc[t] \in CountedAt)
    BY <2>1, <2>3 DEF Label, CountedAt
  <2> QED BY <1>0, <1>1, <2>1, <2>2, <2>3, <2>4, <2>5, <2>6
\* The first reader is counted; Release may do nothing.
<1>4. ASSUME NEW t \in Thread, EnterFirst(t) PROVE RWInv'
  <2>1. /\ currentThread = t /\ pc[t] = "rIn" /\ readers' = readers + 1 /\ UNCHANGED lockVars
        /\ \/ V(rdlock) /\ pc' = [pc EXCEPT ![t] = "rGave"]
           \/ UNCHANGED <<semVars, schedVars>> /\ pc' = [pc EXCEPT ![t] = "reading"]
    BY <1>4 DEF EnterFirst, At, Running, Release, Goto
  <2>2. PICK l \in {"rGave", "reading"} :
          /\ pc' = [pc EXCEPT ![t] = l]
          /\ V(rdlock) \/ UNCHANGED <<semVars, schedVars>>
    BY <2>1
  <2>3. /\ SchedTypeOK' /\ SemTypeOK' /\ LockTypeOK'
        /\ value' = [value EXCEPT ![rdlock] = @ + 1] \/ value' = value
    <3>1. CASE V(rdlock)
      BY <1>0, <2>1, <3>1, VOutcome, HolderType
    <3>2. CASE UNCHANGED <<semVars, schedVars>>
      BY <1>0, <2>1, <3>2, SchedTypes, HolderType DEF semVars, SemTypeOK
    <3> QED BY <2>2, <3>1, <3>2
  <2>4. OneInRd'
    BY <1>0, <2>1, <2>2, <2>3 DEF OneInRd, InRd
  <2>5. OneInWr'
    <3>1. readers = 0 /\ value[wrlock] = 0 /\ \A u \in Thread : InWr(u) => u = t
      BY <1>0, <2>1 DEF OneInWr, InWr
    <3>2. value'[wrlock] = 0 /\ \A u \in Thread : ~InWr(u)'
      BY <1>0, <2>2, <2>3, <3>1 DEF InWr
    <3>3. \A u \in Thread : pc'[u] # "rwP"
      BY <1>0, <2>1, <2>2 DEF OneInRd, InRd
    <3> QED BY <3>2, <3>3 DEF OneInWr
  <2>6. l \in Label /\ l \in CountedAt /\ pc[t] \notin CountedAt /\ readers' \in Nat
    BY <1>0, <2>1, <2>2 DEF Label, CountedAt
  <2> QED BY <1>0, <1>1, <2>1, <2>2, <2>3, <2>4, <2>5, <2>6
\* Further readers are counted.
<1>5. ASSUME NEW t \in Thread, EnterOther(t) PROVE RWInv'
  <2>1. /\ currentThread = t /\ pc[t] = "rGot" /\ readers' = readers + 1 /\ readers > 0
        /\ RecordHolder(rdlock) /\ V(rdlock) /\ pc' = [pc EXCEPT ![t] = "rGave"]
    BY <1>0, <1>5 DEF EnterOther, At, Running, Goto
  <2>2. /\ SchedTypeOK' /\ SemTypeOK' /\ LockTypeOK'
        /\ value' = [value EXCEPT ![rdlock] = @ + 1]
    BY <1>0, <2>1, VOutcome, HolderType
  <2>3. OneInRd'
    BY <1>0, <2>1, <2>2 DEF OneInRd, InRd
  <2>4. OneInWr'
    BY <1>0, <2>1, <2>2 DEF OneInWr, InWr
  <2>5. "rGave" \in Label /\ "rGave" \in CountedAt /\ pc[t] \notin CountedAt /\ readers' \in Nat
    BY <1>0, <2>1 DEF Label, CountedAt
  <2> QED BY <1>1, <2>1, <2>2, <2>3, <2>4, <2>5
\* A reader is counted out; the last one opens wrlock.
<1>6. ASSUME NEW t \in Thread, LeaveReader(t) PROVE RWInv'
  <2>1. /\ currentThread = t /\ pc[t] = "uGot" /\ readers' = readers - 1
        /\ RecordHolder(rdlock)
        /\ \/ readers = 1 /\ V(wrlock) /\ pc' = [pc EXCEPT ![t] = "uOut"]
           \/ readers # 1 /\ V(rdlock) /\ pc' = [pc EXCEPT ![t] = "uGave"]
    BY <1>6 DEF LeaveReader, At, Running, Goto
  <2>2. readers > 0
    <3>1. t \in Reader
      BY <2>1 DEF Reader
    <3> QED BY <1>0, <3>1, ReaderFinite, FS_EmptySet
  <2>3. /\ value[wrlock] = 0 /\ value[rdlock] = 0
        /\ \A u \in Thread : ~InWr(u) /\ pc[u] # "rwP"
        /\ \A u \in Thread : InRd(u) => u = t
    BY <1>0, <2>1, <2>2 DEF OneInWr, OneInRd, InRd
  <2>4. SchedTypeOK' /\ SemTypeOK' /\ LockTypeOK'
    BY <1>0, <2>1, VOutcome, HolderType
  <2>5. CASE readers = 1
    <3>1. value' = [value EXCEPT ![wrlock] = @ + 1] /\ pc' = [pc EXCEPT ![t] = "uOut"]
      BY <1>0, <2>1, <2>5, VOutcome
    <3>2. OneInRd'
      BY <1>0, <2>3, <3>1 DEF OneInRd, InRd
    <3>3. OneInWr'
      BY <1>0, <2>1, <2>3, <2>5, <3>1 DEF OneInWr, InWr
    <3>4. "uOut" \in Label /\ "uOut" \notin CountedAt /\ pc[t] \in CountedAt /\ readers' \in Nat
      BY <1>0, <2>1, <2>2 DEF Label, CountedAt
    <3> QED BY <1>1, <2>1, <2>4, <3>1, <3>2, <3>3, <3>4
  <2>6. CASE readers # 1
    <3>1. value' = [value EXCEPT ![rdlock] = @ + 1] /\ pc' = [pc EXCEPT ![t] = "uGave"]
      BY <1>0, <2>1, <2>6, VOutcome
    <3>2. OneInRd'
      BY <1>0, <2>3, <3>1 DEF OneInRd, InRd
    <3>3. OneInWr'
      BY <1>0, <2>1, <2>3, <2>6, <3>1 DEF OneInWr, InWr
    <3>4. "uGave" \in Label /\ "uGave" \notin CountedAt /\ pc[t] \in CountedAt /\ readers' \in Nat
      BY <1>0, <2>1, <2>2 DEF Label, CountedAt
    <3> QED BY <1>1, <2>1, <2>4, <3>1, <3>2, <3>3, <3>4
  <2> QED BY <2>5, <2>6
\* The end of Release in rdUnlock by the last reader; it may do nothing.
<1>7. ASSUME NEW t \in Thread, LeaveLast(t) PROVE RWInv'
  <2>1. /\ currentThread = t /\ pc[t] = "uOut" /\ readers' = readers /\ UNCHANGED lockVars
        /\ \/ V(rdlock) /\ pc' = [pc EXCEPT ![t] = "uGave"]
           \/ UNCHANGED <<semVars, schedVars>> /\ pc' = [pc EXCEPT ![t] = "out"]
    BY <1>7 DEF LeaveLast, At, Running, Release, Goto
  <2>2. PICK l \in {"uGave", "out"} :
          /\ pc' = [pc EXCEPT ![t] = l]
          /\ V(rdlock) \/ UNCHANGED <<semVars, schedVars>>
    BY <2>1
  <2>3. /\ SchedTypeOK' /\ SemTypeOK' /\ LockTypeOK'
        /\ value' = [value EXCEPT ![rdlock] = @ + 1] \/ value' = value
    <3>1. CASE V(rdlock)
      BY <1>0, <2>1, <3>1, VOutcome, HolderType
    <3>2. CASE UNCHANGED <<semVars, schedVars>>
      BY <1>0, <2>1, <3>2, SchedTypes, HolderType DEF semVars, SemTypeOK
    <3> QED BY <2>2, <3>1, <3>2
  <2>4. OneInRd'
    BY <1>0, <2>1, <2>2, <2>3 DEF OneInRd, InRd
  <2>5. OneInWr'
    BY <1>0, <2>1, <2>2, <2>3 DEF OneInWr, InWr
  <2>6. l \in Label /\ l \notin CountedAt /\ pc[t] \notin CountedAt
    BY <2>1, <2>2 DEF Label, CountedAt
  <2> QED BY <1>0, <1>1, <2>1, <2>2, <2>3, <2>4, <2>5, <2>6
\* The field of rdlock is cleared.
<1>8. ASSUME NEW t \in Thread, EndRelease(t) PROVE RWInv'
  <2>1. PICK l \in {"reading", "out"} :
          /\ pc' = [pc EXCEPT ![t] = l]
          /\ (l = "reading" /\ pc[t] = "rGave") \/ (l = "out" /\ pc[t] = "uGave")
    BY <1>8 DEF EndRelease, At, Goto
  <2>2. ForgetHolder(rdlock) /\ UNCHANGED schedVars /\ value' = value /\ queue' = queue
        /\ readers' = readers
    BY <1>8 DEF EndRelease, semVars
  <2>3. SchedTypeOK' /\ SemTypeOK' /\ LockTypeOK'
    BY <1>0, <2>2, SchedTypes, HolderType DEF SemTypeOK
  <2>4. OneInRd'
    BY <1>0, <2>1, <2>2 DEF OneInRd, InRd
  <2>5. OneInWr'
    BY <1>0, <2>1, <2>2 DEF OneInWr, InWr
  <2>6. l \in Label /\ (l \in CountedAt) = (pc[t] \in CountedAt)
    BY <2>1 DEF Label, CountedAt
  <2> QED BY <1>0, <1>1, <2>1, <2>2, <2>3, <2>4, <2>5, <2>6
\* P of wrlock by a writer.
<1>9. ASSUME NEW t \in Thread, CallWrLock(t) \/ ResumeWrLock(t) PROVE RWInv'
  <2>1. /\ currentThread = t /\ pc[t] \in {"out", "wP"} /\ readers' = readers
        /\ UNCHANGED lockVars /\ P(wrlock, "wP", "writing")
    BY <1>9 DEF CallWrLock, ResumeWrLock, At, Running
  <2>2. /\ SchedTypeOK' /\ SemTypeOK' /\ LockTypeOK'
        /\ \/ /\ value[wrlock] > 0 /\ value' = [value EXCEPT ![wrlock] = @ - 1]
              /\ pc' = [pc EXCEPT ![t] = "writing"]
           \/ /\ value[wrlock] = 0 /\ value' = value
              /\ pc' = [pc EXCEPT ![t] = "wP"]
    BY <1>0, <2>1, POutcome, HolderType
  <2>3. PICK l \in {"wP", "writing"} :
          /\ pc' = [pc EXCEPT ![t] = l]
          /\ \/ l = "writing" /\ value[wrlock] > 0 /\ value' = [value EXCEPT ![wrlock] = @ - 1]
             \/ l = "wP" /\ value' = value
    BY <2>2
  <2>4. OneInRd'
    BY <1>0, <2>1, <2>3 DEF OneInRd, InRd
  <2>5. OneInWr'
    BY <1>0, <2>1, <2>3 DEF OneInWr, InWr
  <2>6. l \in Label /\ l \notin CountedAt /\ pc[t] \notin CountedAt
    BY <2>1, <2>3 DEF Label, CountedAt
  <2> QED BY <1>0, <1>1, <2>1, <2>2, <2>3, <2>4, <2>5, <2>6
<1>10. ASSUME NEW t \in Thread, CallWrUnlock(t) PROVE RWInv'
  <2>1. /\ pc[t] = "writing" /\ readers' = readers
        /\ UNCHANGED lockVars /\ V(wrlock) /\ pc' = [pc EXCEPT ![t] = "out"]
    BY <1>10 DEF CallWrUnlock, At, Goto
  <2>2. /\ SchedTypeOK' /\ SemTypeOK' /\ LockTypeOK'
        /\ value' = [value EXCEPT ![wrlock] = @ + 1]
    BY <1>0, <2>1, VOutcome, HolderType
  <2>3. OneInRd'
    BY <1>0, <2>1, <2>2 DEF OneInRd, InRd
  <2>4. OneInWr'
    BY <1>0, <2>1, <2>2 DEF OneInWr, InWr
  <2> QED BY <1>0, <1>1, <2>1, <2>2, <2>3, <2>4 DEF Label, CountedAt
<1>11. CASE Yield \/ Preempt \/ UNCHANGED vars
  <2>1. /\ YieldCPU \/ UNCHANGED schedVars
        /\ UNCHANGED <<value, queue, pc, holder, randomYield, readers>>
    BY <1>11 DEF Yield, Preempt, TimeSlice, YieldAt, vars, semVars, lockVars
  <2>2. TypesOK'
    BY <1>0, <2>1, SchedTypes DEF TypesOK, SemTypeOK, LockTypeOK
  <2>3. OneInRd' /\ OneInWr'
    BY <1>0, <2>1 DEF OneInRd, OneInWr, InRd, InWr
  <2>4. ReadersExact'
    BY <1>0, <2>1 DEF ReadersExact, Reader
  <2> QED BY <2>2, <2>3, <2>4 DEF RWInv
<1> QED
  BY <1>2, <1>3, <1>4, <1>5, <1>6, <1>7, <1>8, <1>9, <1>10, <1>11 DEF Next, Step, Unlock

\* The inductive invariant of the reader-writer lock.
THEOREM RWInvariant == Spec => []RWInv
  BY RWInvInit, RWInvNext, PTL DEF Spec

\* rdLock, rdUnlock, wrLock and wrUnlock keep writers alone, for any number of
\* threads and any placing of time slices.
THEOREM WriterAloneSafe == Spec => []WriterAlone
<1>1. RWInv => WriterAlone
  <2> SUFFICES ASSUME RWInv PROVE WriterAlone
    OBVIOUS
  <2>1. \A t \in Writer : readers = 0 /\ InWr(t)
    BY DEF RWInv, OneInWr, InWr, Writer
  <2>2. readers = 0 => Reader = {}
    BY ReaderFinite, FS_EmptySet DEF RWInv, ReadersExact
  <2>3. \A t, u \in Thread : InWr(t) /\ InWr(u) => t = u
    BY DEF RWInv, OneInWr
  <2>4. \A t, u \in Writer : t = u
    BY <2>1, <2>3 DEF Writer
  <2>5. \A t \in Writer, u \in Thread : pc[u] # "rIn"
    BY <2>1, <2>3 DEF Writer, InWr
  <2> QED BY <2>1, <2>2, <2>4, <2>5 DEF WriterAlone
<1> QED BY <1>1, RWInvariant, PTL

\* RWLock::readers is the number of threads that read, so the lock is given
\* back exactly by the last reader.
THEOREM ReadersExactSafe == Spec => []ReadersExact
<1>1. RWInv => ReadersExact
  BY DEF RWInv
<1> QED BY <1>1, RWInvariant, PTL

-----------------------------------------------------------------------------
(***************************************************************************)
(* Neither lock is lost.  wrlock is taken only while somebody is in.  For  *)
(* rdlock this needs a run without time slices: then only the running      *)
(* thread is at a label that follows an enabling of interrupts, so no      *)
(* Release clears threadHoldTheLock of a thread that took the lock since.  *)
(***************************************************************************)
WrTaken ==
    value[wrlock] = 0 =>
        \E t \in Thread : pc[t] \in {"writing", "rIn"} \cup CountedAt

IntOnRuns == \A t \in Thread : pc[t] \in IntOn => t = currentThread

HolderNamed ==
    \A t \in Thread : pc[t] \in {"rwP", "rIn", "uOut"} => holder[rdlock] = t

GaveIsFree ==
    \A t \in Thread : pc[t] \in {"rGave", "uGave"} => value[rdlock] = 1

RdTaken == value[rdlock] = 0 => \E t \in Thread : InRd(t)

NoTimerInv ==
    ~randomYield => IntOnRuns /\ HolderNamed /\ GaveIsFree /\ RdTaken

LEMMA WrTakenNext == RWInv /\ WrTaken /\ [Next]_vars => WrTaken'
<1> SUFFICES ASSUME RWInv, WrTaken, [Next]_vars PROVE WrTaken'
  OBVIOUS
<1>0. /\ SchedTypeOK /\ SemTypeOK /\ LockTypeOK /\ pc \in [Thread -> Label]
      /\ value \in [Sem -> Nat] /\ value[wrlock] \in Nat /\ readers \in Nat
      /\ rdlock \in Sem /\ wrlock \in Sem /\ rdlock # wrlock
  BY FieldsAssumption, LockAssumption DEF RWInv, TypesOK, SemTypeOK
\* A step that neither takes nor gives wrlock and leaves nobody's place in it.
<1>1. ASSUME NEW t \in Thread, NEW l, pc' = [pc EXCEPT ![t] = l],
             value'[wrlock] = value[wrlock],
             pc[t] \in {"writing", "rIn"} \cup CountedAt
               => l \in {"writing", "rIn"} \cup CountedAt
      PROVE  WrTaken'
  BY <1>0, <1>1 DEF WrTaken
<1>2. ASSUME NEW t \in Thread, CallRdLock(t) \/ ResumeRdLock(t)
                               \/ CallRdUnlock(t) \/ ResumeRdUnlock(t)
      PROVE  WrTaken'
  <2>1. PICK from \in {"out", "rP", "reading", "uP"}, again \in {"rP", "uP"}, got \in {"rGot", "uGot"} :
          /\ AcquireFor(t, from, again, got)
          /\ (from \in {"out", "rP"} /\ again = "rP" /\ got = "rGot")
             \/ (from \in {"reading", "uP"} /\ again = "uP" /\ got = "uGot")
    BY <1>2 DEF CallRdLock, ResumeRdLock, CallRdUnlock, ResumeRdUnlock
  <2>2. currentThread = t /\ pc[t] = from /\ P(rdlock, again, got)
    BY <2>1 DEF AcquireFor, At, Running, Acquire
  <2>3. PICK l \in {again, got} :
          /\ pc' = [pc EXCEPT ![t] = l]
          /\ value' = value \/ value' = [value EXCEPT ![rdlock] = @ - 1]
    BY <1>0, <2>2, POutcome
  <2>4. value'[wrlock] = value[wrlock]
    BY <1>0, <2>3
  <2> QED BY <1>1, <2>1, <2>2, <2>3, <2>4 DEF CountedAt
<1>3. ASSUME NEW t \in Thread, FirstReader(t) \/ ResumeFirstReader(t)
      PROVE  WrTaken'
  <2>1. currentThread = t /\ pc[t] \in {"rGot", "rwP"} /\ P(wrlock, "rwP", "rIn")
    BY <1>3 DEF FirstReader, ResumeFirstReader, At, Running
  <2>2. \/ pc' = [pc EXCEPT ![t] = "rIn"]
        \/ value' = value /\ pc' = [pc EXCEPT ![t] = "rwP"]
    BY <1>0, <2>1, POutcome
  <2>3. CASE pc' = [pc EXCEPT ![t] = "rIn"]
    BY <1>0, <2>3 DEF WrTaken
  <2>4. CASE value' = value /\ pc' = [pc EXCEPT ![t] = "rwP"]
    BY <1>1, <2>1, <2>4 DEF CountedAt
  <2> QED BY <2>2, <2>3, <2>4
<1>4. ASSUME NEW t \in Thread, EnterFirst(t) \/ EnterOther(t) PROVE WrTaken'
  <2>1. pc' = [pc EXCEPT ![t] = "rGave"] \/ pc' = [pc EXCEPT ![t] = "reading"]
    BY <1>4 DEF EnterFirst, EnterOther, At, Running, Release, Goto
  <2> QED BY <1>0, <2>1 DEF WrTaken, CountedAt
\* A reader that is not the last leaves others behind.
<1>5. ASSUME NEW t \in Thread, LeaveReader(t) PROVE WrTaken'
  <2>1. CASE readers = 1
    <3>1. V(wrlock)
      BY <1>5, <2>1 DEF LeaveReader
    <3> QED BY <1>0, <3>1, VOutcome DEF WrTaken
  <2>2. CASE readers # 1
    <3>1. readers' = readers - 1 /\ t \in Reader
      BY <1>5 DEF LeaveReader, At, Reader
    <3>2. readers # 0
      BY <3>1, ReaderFinite, FS_EmptySet DEF RWInv, ReadersExact
    <3>3. RWInv'
      BY RWInvNext
    <3>4. readers' = Cardinality(Reader')
      BY <3>3 DEF RWInv, ReadersExact
    <3>5. Reader' # {}
      BY <1>0, <2>2, <3>1, <3>2, <3>4, FS_EmptySet
    <3> QED BY <3>5 DEF WrTaken, Reader, CountedAt
  <2> QED BY <2>1, <2>2
<1>6. ASSUME NEW t \in Thread, LeaveLast(t) \/ EndRelease(t) PROVE WrTaken'
  <2>1. PICK l \in {"uGave", "out", "reading"} :
          /\ pc' = [pc EXCEPT ![t] = l]
          /\ pc[t] \in {"uOut", "uGave"} \/ (pc[t] = "rGave" /\ l = "reading")
          /\ V(rdlock) \/ UNCHANGED semVars
    BY <1>6 DEF LeaveLast, EndRelease, At, Running, Release, Goto
  <2>2. value'[wrlock] = value[wrlock]
    BY <1>0, <2>1, VOutcome DEF semVars
  <2> QED BY <1>1, <2>1, <2>2 DEF CountedAt
<1>7. ASSUME NEW t \in Thread, CallWrLock(t) \/ ResumeWrLock(t) PROVE WrTaken'
  <2>1. currentThread = t /\ pc[t] \in {"out", "wP"} /\ P(wrlock, "wP", "writing")
    BY <1>7 DEF CallWrLock, ResumeWrLock, At, Running
  <2>2. \/ pc' = [pc EXCEPT ![t] = "writing"]
        \/ value' = value /\ pc' = [pc EXCEPT ![t] = "wP"]
    BY <1>0, <2>1, POutcome
  <2>3. CASE pc' = [pc EXCEPT ![t] = "writing"]
    BY <1>0, <2>3 DEF WrTaken
  <2>4. CASE value' = value /\ pc' = [pc EXCEPT ![t] = "wP"]
    BY <1>1, <2>1, <2>4 DEF CountedAt
  <2> QED BY <2>2, <2>3, <2>4
<1>8. ASSUME NEW t \in Thread, CallWrUnlock(t) PROVE WrTaken'
  BY <1>0, <1>8, VOutcome DEF CallWrUnlock, WrTaken
<1>9. CASE Yield \/ Preempt \/ UNCHANGED vars
  BY <1>9 DEF Yield, Preempt, vars, semVars, WrTaken
<1> QED
  BY <1>2, <1>3, <1>4, <1>5, <1>6, <1>7, <1>8, <1>9 DEF Next, Step, Unlock

\* Without the timer: what one step of thread t, from its label to label l,
\* has to keep of each part.
LEMMA NoTimerInvNext == RWInv /\ NoTimerInv /\ [Next]_vars => NoTimerInv'
<1> SUFFICES ASSUME RWInv, NoTimerInv, [Next]_vars, ~randomYield'
             PROVE  (IntOnRuns /\ HolderNamed /\ GaveIsFree /\ RdTaken)'
  BY DEF NoTimerInv
<1>0. /\ SchedTypeOK /\ SemTypeOK /\ LockTypeOK /\ pc \in [Thread -> Label]
      /\ value \in [Sem -> Nat] /\ value[rdlock] \in Nat
      /\ holder \in [LockId -> Thread \cup {NoThread}] /\ rdlock \in LockId
      /\ rdlock \in Sem /\ wrlock \in Sem /\ rdlock # wrlock
      /\ OneInRd
  BY FieldsAssumption, LockAssumption DEF RWInv, TypesOK, SemTypeOK, LockTypeOK
<1>a. randomYield' = randomYield
  BY DEF Next, Step, Unlock, CallRdLock, ResumeRdLock, CallRdUnlock, ResumeRdUnlock, AcquireFor,
         Acquire, FirstReader, ResumeFirstReader, EnterFirst, EnterOther, LeaveReader,
         LeaveLast, EndRelease, CallWrLock, ResumeWrLock, CallWrUnlock, Yield, Preempt,
         RecordHolder, ForgetHolder, Release, lockVars, vars
<1>b. IntOnRuns /\ HolderNamed /\ GaveIsFree /\ RdTaken
  BY <1>a DEF NoTimerInv
<1>c. V(rdlock) \/ V(wrlock) \/ UNCHANGED schedVars => currentThread' = currentThread
  BY DEF V, ReadyToRun, schedVars
\* Only the thread that runs moves, and it stops running only in a P, at a
\* label where it does not have the processor.
<1>1. ASSUME NEW t \in Thread, NEW l, t = currentThread, pc' = [pc EXCEPT ![t] = l],
             l \in IntOn => currentThread' = t
      PROVE  IntOnRuns'
  BY <1>0, <1>b, <1>1 DEF IntOnRuns
<1>2. ASSUME NEW t \in Thread, CallRdLock(t) \/ ResumeRdLock(t)
                               \/ CallRdUnlock(t) \/ ResumeRdUnlock(t)
      PROVE  (IntOnRuns /\ HolderNamed /\ GaveIsFree /\ RdTaken)'
  <2>1. PICK again \in {"rP", "uP"}, got \in {"rGot", "uGot"} :
          P(rdlock, again, got) /\ pc[t] \in {"out", "rP", "reading", "uP"}
    BY <1>2 DEF CallRdLock, ResumeRdLock, CallRdUnlock, ResumeRdUnlock, AcquireFor, Acquire, At
  <2>2. currentThread = t /\ holder' = holder
    BY <1>2 DEF CallRdLock, ResumeRdLock, CallRdUnlock, ResumeRdUnlock, AcquireFor, Acquire,
                At, Running, lockVars
  <2>3. CASE value[rdlock] > 0
    <3>1. /\ value' = [value EXCEPT ![rdlock] = @ - 1] /\ pc' = [pc EXCEPT ![t] = got]
          /\ currentThread' = currentThread
      BY <2>1, <2>2, <2>3 DEF P, Goto, schedVars
    <3>2. IntOnRuns'
      BY <1>1, <2>2, <3>1
    <3>3. HolderNamed'
      BY <1>0, <1>b, <2>2, <3>1 DEF HolderNamed
    <3>4. GaveIsFree'
      <4>1. \A u \in Thread : u # t => pc[u] \notin IntOn
        BY <1>b, <2>2 DEF IntOnRuns
      <4> QED BY <1>0, <3>1, <4>1 DEF GaveIsFree, IntOn
    <3>5. RdTaken'
      BY <1>0, <3>1 DEF RdTaken, InRd
    <3> QED BY <3>2, <3>3, <3>4, <3>5
  <2>4. CASE value[rdlock] = 0
    <3>1. value' = value /\ pc' = [pc EXCEPT ![t] = again]
      BY <2>1, <2>2, <2>4 DEF P, Goto
    <3>2. IntOnRuns'
      BY <1>1, <2>1, <2>2, <3>1 DEF IntOn
    <3>3. HolderNamed' /\ GaveIsFree'
      BY <1>0, <1>b, <2>2, <3>1 DEF HolderNamed, GaveIsFree
    <3>4. RdTaken'
      BY <1>0, <1>b, <2>1, <3>1 DEF RdTaken, InRd
    <3> QED BY <3>2, <3>3, <3>4
  <2> QED BY <1>0, <2>3, <2>4
\* The first reader records itself and stays inside of rdlock.
<1>3. ASSUME NEW t \in Thread, FirstReader(t) \/ ResumeFirstReader(t)
      PROVE  (IntOnRuns /\ HolderNamed /\ GaveIsFree /\ RdTaken)'
  <2>1. /\ currentThread = t /\ pc[t] \in {"rGot", "rwP"} /\ P(wrlock, "rwP", "rIn")
        /\ holder' = [holder EXCEPT ![rdlock] = t] \/ (pc[t] = "rwP" /\ holder' = holder)
    BY <1>3 DEF FirstReader, ResumeFirstReader, At, Running, RecordHolder, lockVars
  <2>2. PICK l \in {"rwP", "rIn"} :
          /\ pc' = [pc EXCEPT ![t] = l]
          /\ l = "rIn" => currentThread' = t
          /\ value'[rdlock] = value[rdlock]
    BY <1>0, <2>1 DEF P, Goto, schedVars
  <2>3. IntOnRuns'
    BY <1>1, <2>1, <2>2 DEF IntOn
  <2>4. value[rdlock] = 0 /\ (\A u \in Thread : InRd(u) => u = t) /\ holder'[rdlock] = t
    BY <1>0, <1>b, <2>1 DEF OneInRd, InRd, HolderNamed
  <2>5. HolderNamed'
    BY <1>0, <2>2, <2>4 DEF HolderNamed, InRd
  <2>6. GaveIsFree'
    BY <1>0, <1>b, <2>2 DEF GaveIsFree
  <2>7. RdTaken'
    BY <1>0, <2>2 DEF RdTaken, InRd
  <2> QED BY <2>3, <2>5, <2>6, <2>7
\* Release by the thread that the field names: it does give the lock back.
<1>4. ASSUME NEW t \in Thread, NEW l \in {"rGave", "uGave"},
             currentThread = t, InRd(t), V(rdlock), pc' = [pc EXCEPT ![t] = l]
      PROVE  (IntOnRuns /\ HolderNamed /\ GaveIsFree /\ RdTaken)'
  <2>1. value' = [value EXCEPT ![rdlock] = @ + 1] /\ currentThread' = t
    BY <1>0, <1>4, <1>c, VOutcome
  <2>2. value[rdlock] = 0 /\ \A u \in Thread : InRd(u) => u = t
    BY <1>0, <1>4 DEF OneInRd
  <2>3. value'[rdlock] = 1
    BY <1>0, <2>1, <2>2
  <2>4. IntOnRuns'
    BY <1>1, <1>4, <2>1
  <2>5. HolderNamed'
    BY <1>0, <1>4, <2>2 DEF HolderNamed, InRd
  <2> QED BY <2>3, <2>4, <2>5 DEF GaveIsFree, RdTaken
<1>5. ASSUME NEW t \in Thread, EnterFirst(t) \/ LeaveLast(t)
      PROVE  (IntOnRuns /\ HolderNamed /\ GaveIsFree /\ RdTaken)'
  <2>1. currentThread = t /\ pc[t] \in {"rIn", "uOut"}
    BY <1>5 DEF EnterFirst, LeaveLast, At, Running
  <2>2. isHeldByCurrentThread(rdlock)
    BY <1>b, <2>1 DEF HolderNamed, isHeldByCurrentThread
  <2>3. V(rdlock) /\ \E l \in {"rGave", "uGave"} : pc' = [pc EXCEPT ![t] = l]
    BY <1>5, <2>1, <2>2 DEF EnterFirst, LeaveLast, Release, Goto
  <2> QED BY <1>4, <2>1, <2>3 DEF InRd
<1>6. ASSUME NEW t \in Thread, EnterOther(t)
      PROVE  (IntOnRuns /\ HolderNamed /\ GaveIsFree /\ RdTaken)'
  BY <1>4, <1>6 DEF EnterOther, At, Running, Goto, InRd
<1>7. ASSUME NEW t \in Thread, LeaveReader(t)
      PROVE  (IntOnRuns /\ HolderNamed /\ GaveIsFree /\ RdTaken)'
  <2>1. currentThread = t /\ pc[t] = "uGot" /\ holder' = [holder EXCEPT ![rdlock] = t]
    BY <1>7 DEF LeaveReader, At, Running, RecordHolder
  <2>2. CASE readers = 1
    <3>1. V(wrlock) /\ pc' = [pc EXCEPT ![t] = "uOut"]
      BY <1>7, <2>2 DEF LeaveReader, Goto
    <3>2. value'[rdlock] = value[rdlock] /\ currentThread' = t
      BY <1>0, <1>c, <2>1, <3>1, VOutcome
    <3>3. IntOnRuns'
      BY <1>1, <2>1, <3>1, <3>2
    <3>4. \A u \in Thread : InRd(u) => u = t
      BY <1>0, <2>1 DEF OneInRd, InRd
    <3>5. HolderNamed'
      BY <1>0, <2>1, <3>1, <3>4 DEF HolderNamed, InRd
    <3>6. GaveIsFree'
      BY <1>0, <1>b, <3>1, <3>2 DEF GaveIsFree
    <3>7. RdTaken'
      BY <1>0, <3>1 DEF RdTaken, InRd
    <3> QED BY <3>3, <3>5, <3>6, <3>7
  <2>3. CASE readers # 1
    BY <1>4, <1>7, <2>1, <2>3 DEF LeaveReader, Goto, InRd
  <2> QED BY <2>2, <2>3
\* The field is cleared while the lock is free, so it named nobody inside.
<1>8. ASSUME NEW t \in Thread, EndRelease(t)
      PROVE  (IntOnRuns /\ HolderNamed /\ GaveIsFree /\ RdTaken)'
  <2>1. /\ currentThread = t /\ pc[t] \in {"rGave", "uGave"}
        /\ \E l \in {"reading", "out"} : pc' = [pc EXCEPT ![t] = l]
        /\ currentThread' = t /\ value' = value
    BY <1>8 DEF EndRelease, At, Running, Goto, schedVars, semVars
  <2>2. value[rdlock] = 1
    BY <1>b, <2>1 DEF GaveIsFree
  <2>3. \A u \in Thread : ~InRd(u)
    BY <1>0, <2>2 DEF OneInRd
  <2>4. IntOnRuns'
    BY <1>1, <2>1
  <2>5. HolderNamed'
    BY <1>0, <2>1, <2>3 DEF HolderNamed, InRd
  <2>6. GaveIsFree' /\ RdTaken'
    BY <2>1, <2>2 DEF GaveIsFree, RdTaken
  <2> QED BY <2>4, <2>5, <2>6
\* Writers do not touch rdlock.
<1>9. ASSUME NEW t \in Thread, CallWrLock(t) \/ ResumeWrLock(t) \/ CallWrUnlock(t)
      PROVE  (IntOnRuns /\ HolderNamed /\ GaveIsFree /\ RdTaken)'
  <2>1. /\ currentThread = t /\ pc[t] \in {"out", "wP", "writing"} /\ holder' = holder
        /\ P(wrlock, "wP", "writing") \/ (V(wrlock) /\ pc' = [pc EXCEPT ![t] = "out"])
    BY <1>9 DEF CallWrLock, ResumeWrLock, CallWrUnlock, At, Running, Goto, lockVars
  <2>2. PICK l \in {"out", "wP", "writing"} : pc' = [pc EXCEPT ![t] = l]
    BY <2>1 DEF P, Goto
  <2>3. value'[rdlock] = value[rdlock]
    BY <1>0, <2>1, POutcome, VOutcome
  <2>4. IntOnRuns'
    BY <1>1, <2>1, <2>2 DEF IntOn
  <2>5. HolderNamed' /\ GaveIsFree'
    BY <1>0, <1>b, <2>1, <2>2, <2>3 DEF HolderNamed, GaveIsFree
  <2>6. RdTaken'
    BY <1>0, <1>b, <2>1, <2>2, <2>3 DEF RdTaken, InRd
  <2> QED BY <2>4, <2>5, <2>6
\* A client yields outside of the lock's code, where nobody else is either.
<1>10. CASE Yield
  <2>1. /\ pc[currentThread] \in {"out", "reading", "writing"}
        /\ UNCHANGED <<pc, value, holder>>
    BY <1>10 DEF Yield, YieldAt, semVars, lockVars
  <2>2. \A t \in Thread : pc[t] \notin IntOn
    BY <1>b, <2>1 DEF IntOnRuns, IntOn
  <2> QED BY <1>b, <2>1, <2>2 DEF IntOnRuns, HolderNamed, GaveIsFree, RdTaken, InRd
<1>11. CASE Preempt \/ UNCHANGED vars
  <2>1. UNCHANGED vars
    BY <1>11, <1>a DEF Preempt, TimeSlice
  <2> QED BY <1>b, <2>1 DEF vars, schedVars, semVars, lockVars, IntOnRuns, HolderNamed, GaveIsFree, RdTaken, InRd
<1> QED
  BY <1>2, <1>3, <1>5, <1>6, <1>7, <1>8, <1>9, <1>10, <1>11 DEF Next, Step, Unlock

\* RWLock::rdLock and rdUnlock keep the count of readers exact and within the
\* number of threads, wrlock is taken only while a writer or a reader is in,
\* and without the timer rdlock is taken only while a thread is in its
\* critical section: neither lock is lost.
THEOREM RWLockInvariant == Spec => []RWLockInv
<1>1. Init => RWInv /\ WrTaken /\ NoTimerInv
  <2> SUFFICES ASSUME Init PROVE WrTaken /\ NoTimerInv
    BY RWInvInit
  <2>1. /\ value[rdlock] = 1 /\ value[wrlock] = 1
        /\ \A t \in Thread : pc[t] = "out"
    BY FieldsAssumption, LockAssumption, InitialValueAssumption DEF Init, SemInit
  <2> QED BY <2>1 DEF WrTaken, NoTimerInv, IntOnRuns, IntOn, HolderNamed, GaveIsFree, RdTaken
<1>2. RWInv /\ WrTaken /\ NoTimerInv /\ [Next]_vars => (RWInv /\ WrTaken /\ NoTimerInv)'
  BY RWInvNext, WrTakenNext, NoTimerInvNext
<1>3. RWInv /\ WrTaken /\ NoTimerInv => RWLockInv
  <2> SUFFICES ASSUME RWInv, WrTaken, NoTimerInv PROVE RWLockInv
    OBVIOUS
  <2>1. readers \in 0 .. Cardinality(Thread)
    <3>1. Reader \in SUBSET Thread
      BY DEF Reader
    <3>2. Cardinality(Reader) <= Cardinality(Thread) /\ Cardinality(Thread) \in Nat
      BY <3>1, ThreadFinite, FS_Subset, FS_CardinalityType
    <3> QED BY <3>2, ReaderFinite DEF RWInv, ReadersExact
  <2>2. TypeOK
    BY <2>1 DEF RWInv, TypesOK, TypeOK
  <2>3. NeitherLockLost
    <3>1. ASSUME value[wrlock] = 0
          PROVE  Writer \cup Reader \cup {t \in Thread : pc[t] = "rIn"} # {}
      BY <3>1 DEF WrTaken, Writer, Reader, CountedAt
    <3>2. ASSUME ~randomYield, value[rdlock] = 0
          PROVE  \E t \in Thread : pc[t] \in {"rGot", "rwP", "rIn", "uGot", "uOut"}
      BY <3>2 DEF NoTimerInv, RdTaken, InRd
    <3> QED BY <3>1, <3>2 DEF NeitherLockLost
  <2> QED BY <2>2, <2>3 DEF RWLockInv, RWInv
<1> QED BY <1>1, <1>2, <1>3, PTL DEF Spec

=============================================================================
