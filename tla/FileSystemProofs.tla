-------------------------- MODULE FileSystemProofs --------------------------
(***************************************************************************)
(* The file system, for a disk of any size, any threads, paths and sizes   *)
(* of files.  First the mutexes of the sectors: what ReadAt and WriteAt    *)
(* lock and in which order.  Then the disk: sectors belong to one file and *)
(* are marked in the bit map, at every write of a sector.  What the files  *)
(* hold is proved in FileContentProofs.                                    *)
(*                                                                         *)
(* The inductive invariant FilesInv says of the disk, and of every disk    *)
(* that the writes still to be made would produce one by one, that it      *)
(* holds a tree of files (Shape) with names that clients can tell apart    *)
(* (NamesOK), whose sectors are marked except those in target (Marked) and *)
(* which has the files that threads have open and write to (UsersOK).      *)
(***************************************************************************)
EXTENDS FileSystem, FiniteSetTheorems, SequenceTheorems, WellFoundedInduction, TLAPS

-----------------------------------------------------------------------------
(***************************************************************************)
(* Natural numbers, quotients and remainders.                              *)
(***************************************************************************)
\* A set of natural numbers has a least element.
LEMMA Least ==
    ASSUME NEW S \in SUBSET Nat, S # {}
    PROVE  \E n \in S : \A m \in S : n <= m
<1> DEFINE R == OpToRel(<, Nat)
<1>1. IsWellFoundedOn(R, Nat)
  BY NatLessThanWellFounded
<1>2. \A a, b \in Nat : a < b => <<a, b>> \in R
  BY DEF OpToRel
<1> HIDE DEF R
<1>3. PICK n \in S : \A m \in S : <<m, n>> \notin R
  BY <1>1, WFMin
<1>4. \A m \in S : ~(m < n) /\ m \in Nat /\ n \in Nat
  BY <1>2, <1>3
<1>5. \A m \in S : n <= m
  BY <1>4
<1> QED BY <1>3, <1>5

\* Quotient and remainder.
LEMMA DivMod ==
    ASSUME NEW a \in Int, NEW b \in Int, b > 0
    PROVE  /\ a \div b \in Int
           /\ a % b \in 0..b-1
           /\ a = b * (a \div b) + (a % b)
<1>1. a \div b \in Int
  OBVIOUS
<1>2. a % b \in 0..b-1
  OBVIOUS
<1>3. a = b * (a \div b) + (a % b)
  OBVIOUS
<1> QED BY <1>1, <1>2, <1>3

\* They are the only ones with these bounds.
LEMMA DivModUnique ==
    ASSUME NEW b \in Int, b > 0, NEW q \in Int, NEW r \in 0..b-1
    PROVE  (b * q + r) \div b = q /\ (b * q + r) % b = r
  OBVIOUS

\* Multiples of the divisor.
LEMMA Multiples ==
    ASSUME NEW b \in Int, b > 0, NEW x \in Int, NEW y \in Int
    PROVE  /\ b * x \in Int
           /\ b * x < b * y <=> x < y
           /\ (b * x) % b = 0 /\ (b * x) \div b = x
           /\ b * (x + y) = b * x + b * y
           /\ b * (x - y) = b * x - b * y
<1>1. b * x \in Int /\ b * y \in Int
  OBVIOUS
<1>2. b * (x + y) = b * x + b * y /\ b * (x - y) = b * x - b * y
  OBVIOUS
<1>3. \A z \in Int : (z >= 1 => b * z >= b) /\ (z <= 0 => b * z <= 0)
  OBVIOUS
<1>4. b * x < b * y <=> x < y
  <2>1. y - x \in Int /\ b * (y - x) = b * y - b * x
    OBVIOUS
  <2> QED BY <1>1, <1>3, <2>1
<1>5. (b * x) % b = 0 /\ (b * x) \div b = x
  <2>1. 0 \in 0..b-1 /\ b * x + 0 = b * x
    BY <1>1
  <2> QED BY <2>1, DivModUnique
<1> QED BY <1>1, <1>2, <1>4, <1>5

-----------------------------------------------------------------------------
(***************************************************************************)
(* The mutexes of the sectors.  Whatever is on the disk, ReadAt and        *)
(* WriteAt hold exactly the mutexes of the sectors they have locked and    *)
(* not yet transferred, and wait in no circle.                             *)
(***************************************************************************)
TransferField == {"pc", "op", "pos", "len", "solo", "sectors", "locked", "done", "buf", "want"}

\* The state of one request: it locks all of its sectors, then transfers them.
Progress(x) ==
    /\ DOMAIN x = TransferField
    /\ x.pc \in {"idle", "arr_P", "rw_P", "io", "done"}
    /\ x.locked \in Nat /\ x.done \in Nat
    /\ x.done <= x.locked
    /\ x.pc \in {"idle", "arr_P"} => x.locked = 0
    /\ x.pc = "rw_P" => x.done = 0
    /\ x.pc = "io" => x.locked = Len(x.sectors) /\ x.done < x.locked
    /\ x.pc = "done" => x.done = x.locked

\* No sector is locked twice.
LockedOnce(x) ==
    \A i, j \in x.done + 1..x.locked :
        x.sectors[i] \in Sector /\ x.sectors[i] = x.sectors[j] => i = j

\* When the program has ended, so has the possession of its mutexes.
NoneWhenDown == machine = "down" => \A s \in Sector : mutex[s] = NoThread

TransferInv ==
    /\ DOMAIN xfer = Thread
    /\ \A t \in Thread : Progress(xfer[t]) /\ LockedOnce(xfer[t])
    /\ mutex \in [Sector -> Thread \cup {NoThread}]
    /\ array_mutex \in Thread \cup {NoThread}
    /\ NoneWhenDown
    /\ LocksExact

\* A thread that does nothing holds nothing.
LEMMA IdleProgress ==
    /\ Progress(NoTransfer) /\ LockedOnce(NoTransfer)
    /\ NoTransfer.pc = "idle" /\ NoTransfer.locked = 0 /\ NoTransfer.done = 0
<1>1. Progress(NoTransfer)
  BY DEF Progress, NoTransfer, TransferField
<1>2. NoTransfer.pc = "idle" /\ NoTransfer.locked = 0 /\ NoTransfer.done = 0
  BY DEF NoTransfer
<1>3. LockedOnce(NoTransfer)
  BY <1>2 DEF LockedOnce
<1> QED BY <1>1, <1>2, <1>3

\* Every thread is idle: after the start and after the end of the program.
LEMMA AllIdle ==
    ASSUME xfer = [t \in Thread |-> NoTransfer],
           mutex = [s \in Sector |-> NoThread],
           array_mutex = NoThread
    PROVE  TransferInv
<1>1. \A t \in Thread : xfer[t] = NoTransfer
  OBVIOUS
<1>2. \A t \in Thread : Held(t) = {}
  BY <1>1, IdleProgress DEF Held
<1>3. LocksExact
  BY <1>1, <1>2, IdleProgress, NoThreadAssumption DEF LocksExact
<1>4. \A t \in Thread : Progress(xfer[t]) /\ LockedOnce(xfer[t])
  BY <1>1, IdleProgress
<1> QED BY <1>3, <1>4 DEF TransferInv, NoneWhenDown

\* After format and restart no thread is in ReadAt or WriteAt, and no mutex is taken.
LEMMA AllIdleNext ==
    ASSUME xfer' = [t \in Thread |-> NoTransfer],
           mutex' = [s \in Sector |-> NoThread],
           array_mutex' = NoThread
    PROVE  TransferInv'
<1>1. (xfer = [t \in Thread |-> NoTransfer] /\ mutex = [s \in Sector |-> NoThread]
        /\ array_mutex = NoThread => TransferInv)'
  BY AllIdle, PTL
<1> QED BY <1>1

\* The steps that begin or end a request of t, or move it on without a mutex.
LEMMA OneMoves ==
    ASSUME TransferInv, NEW t \in Thread, NEW x,
           xfer' = [xfer EXCEPT ![t] = x],
           Progress(x), x.locked = x.done, xfer[t].locked = xfer[t].done,
           UNCHANGED <<machine, mutex>>,
           array_mutex' \in Thread \cup {NoThread},
           \A u \in Thread : array_mutex' = u <=> xfer'[u].pc = "rw_P"
    PROVE  TransferInv'
<1>1. \A u \in Thread : xfer'[u] = IF u = t THEN x ELSE xfer[u]
  BY DEF TransferInv
<1>2. x.locked \in Nat /\ xfer[t].locked \in Nat
  BY DEF TransferInv, Progress
<1>3. LockedOnce(x)
  BY <1>2 DEF LockedOnce
<1>4. \A u \in Thread : Held(u)' = Held(u)
  <2>1. Held(t)' = {} /\ Held(t) = {}
    BY <1>1, <1>2 DEF Held
  <2>2. \A u \in Thread : u # t => Held(u)' = Held(u)
    BY <1>1 DEF Held
  <2> QED BY <2>1, <2>2
<1>5. LocksExact'
  BY <1>4 DEF LocksExact, TransferInv
<1>6. \A u \in Thread : Progress(xfer'[u]) /\ LockedOnce(xfer'[u])
  BY <1>1, <1>3 DEF TransferInv
<1> QED BY <1>5, <1>6 DEF TransferInv, NoneWhenDown

\* arr_P.
LEMMA LockArrayKeeps ==
    ASSUME TransferInv, NEW t \in Thread, LockArray(t)
    PROVE  TransferInv'
<1> PICK x : x = [xfer[t] EXCEPT !.pc = "rw_P"]
  OBVIOUS
<1>0. Progress(xfer[t]) /\ DOMAIN xfer = Thread
  BY DEF TransferInv
<1>1. /\ xfer' = [xfer EXCEPT ![t] = x] /\ array_mutex' = t /\ array_mutex = NoThread
      /\ xfer[t].pc = "arr_P" /\ UNCHANGED <<machine, mutex>>
  BY DEF LockArray
<1>2. /\ DOMAIN x = TransferField /\ x.pc = "rw_P" /\ x.locked = xfer[t].locked
      /\ x.done = xfer[t].done /\ x.sectors = xfer[t].sectors
  BY <1>0 DEF Progress, TransferField
<1>3. Progress(x) /\ x.locked = x.done /\ xfer[t].locked = xfer[t].done
  BY <1>0, <1>1, <1>2 DEF Progress
<1>4. \A u \in Thread : array_mutex' = u <=> xfer'[u].pc = "rw_P"
  <2>1. \A u \in Thread : xfer[u].pc # "rw_P"
    BY <1>1, NoThreadAssumption DEF TransferInv, LocksExact
  <2> QED BY <1>0, <1>1, <1>2, <2>1
<1> QED BY <1>1, <1>3, <1>4, OneMoves

\* ReadAt and WriteAt begin, a call returns.
LEMMA BeginKeeps ==
    ASSUME TransferInv, NEW t \in Thread, xfer[t].pc \in {"idle", "done"}, NEW x,
           xfer' = [xfer EXCEPT ![t] = x], DOMAIN x = TransferField,
           x.pc \in {"idle", "arr_P"}, x.locked = 0, x.done = 0,
           UNCHANGED <<machine, mutex, array_mutex>>
    PROVE  TransferInv'
<1>0. Progress(xfer[t]) /\ DOMAIN xfer = Thread
  BY DEF TransferInv
<1>1. Progress(x) /\ x.locked = x.done /\ xfer[t].locked = xfer[t].done
  BY <1>0 DEF Progress
<1>2. \A u \in Thread : array_mutex' = u <=> xfer'[u].pc = "rw_P"
  BY <1>0 DEF TransferInv, LocksExact
<1> QED BY <1>1, <1>2, OneMoves DEF TransferInv

\* rw_P.
LEMMA LockSectorKeeps ==
    ASSUME TransferInv, NEW t \in Thread, LockSector(t)
    PROVE  TransferInv'
<1> PICK s : s = xfer[t].sectors[xfer[t].locked + 1]
  OBVIOUS
<1> PICK want : want = IF xfer[t].locked + 1 = Len(xfer[t].sectors) /\ xfer[t].op = "read"
                       THEN SubSeq(shadow[handle[t]], xfer[t].pos + 1, xfer[t].pos + xfer[t].len)
                       ELSE <<>>
  OBVIOUS
<1> PICK pc : pc = IF xfer[t].locked + 1 = Len(xfer[t].sectors) THEN "io" ELSE "rw_P"
  OBVIOUS
<1> PICK x : x = [xfer[t] EXCEPT !.locked = @ + 1, !.pc = pc, !.want = want]
  OBVIOUS
<1>0. Progress(xfer[t]) /\ LockedOnce(xfer[t]) /\ DOMAIN xfer = Thread
  BY DEF TransferInv
<1>1. /\ xfer[t].pc = "rw_P" /\ mutex[s] = NoThread
      /\ mutex' = [mutex EXCEPT ![s] = t]
      /\ array_mutex' = (IF pc = "io" THEN NoThread ELSE t)
      /\ machine = "up" /\ machine' = machine
  BY DEF LockSector, SectorFree, ArrayAfter
<1>2. xfer' = [xfer EXCEPT ![t] = x]
  <2>1. xfer' = [xfer EXCEPT ![t].locked = @ + 1, ![t].pc = pc, ![t].want = want]
    BY DEF LockSector
  <2> QED BY <1>0, <2>1
<1>3. /\ DOMAIN x = TransferField /\ x.pc = pc /\ x.locked = xfer[t].locked + 1
      /\ x.done = xfer[t].done /\ x.sectors = xfer[t].sectors
  BY <1>0 DEF Progress, TransferField
<1>4. xfer[t].locked \in Nat /\ xfer[t].done = 0
  BY <1>0, <1>1 DEF Progress
<1>5. Progress(x)
  BY <1>3, <1>4 DEF Progress
<1>6. \A u \in Thread : xfer'[u] = IF u = t THEN x ELSE xfer[u]
  BY <1>0, <1>2
<1>7. Held(t)' = Held(t) \cup {s}
  <2>1. xfer'[t] = x
    BY <1>6
  <2>2. Held(t)' = {xfer[t].sectors[j] : j \in 1..xfer[t].locked + 1}
    BY <1>3, <1>4, <2>1 DEF Held
  <2>3. Held(t) = {xfer[t].sectors[j] : j \in 1..xfer[t].locked}
    BY <1>4 DEF Held
  <2> QED BY <1>4, <2>2, <2>3
<1>8. \A u \in Thread : u # t => Held(u)' = Held(u)
  BY <1>6 DEF Held
<1>9. s \notin Sector \/ s \notin Held(t)
  BY <1>1, NoThreadAssumption DEF TransferInv, LocksExact
<1>10. LockedOnce(x)
  <2> SUFFICES ASSUME NEW i \in 1..xfer[t].locked + 1, NEW j \in 1..xfer[t].locked + 1,
                      xfer[t].sectors[i] \in Sector, xfer[t].sectors[i] = xfer[t].sectors[j]
               PROVE  i = j
    BY <1>3, <1>4 DEF LockedOnce
  <2>1. \A k \in 1..xfer[t].locked : xfer[t].sectors[k] \in Held(t)
    BY <1>4 DEF Held
  <2>2. CASE i \in 1..xfer[t].locked /\ j \in 1..xfer[t].locked
    BY <1>0, <1>4, <2>2 DEF LockedOnce
  <2>3. CASE i = xfer[t].locked + 1 \/ j = xfer[t].locked + 1
    BY <1>4, <1>9, <2>1, <2>3
  <2> QED BY <1>4, <2>2, <2>3
<1>11. mutex' \in [Sector -> Thread \cup {NoThread}]
  BY <1>1 DEF TransferInv
<1>12. \A r \in Sector : mutex'[r] = IF r = s THEN t ELSE mutex[r]
  BY <1>1 DEF TransferInv
<1>13. LocksExact'
  <2>1. \A u \in Thread : array_mutex' = u <=> xfer'[u].pc = "rw_P"
    <3>1. \A u \in Thread : u # t => xfer[u].pc # "rw_P"
      BY <1>1 DEF TransferInv, LocksExact
    <3>2. pc # "rw_P" => pc = "io"
      OBVIOUS
    <3>3. pc = "io" => pc # "rw_P"
      OBVIOUS
    <3> QED BY <1>1, <1>3, <1>6, <3>1, <3>2, <3>3, NoThreadAssumption
  <2>2. ASSUME NEW u \in Thread, NEW r \in Sector PROVE mutex'[r] = u <=> r \in Held(u)'
    <3>1. mutex[r] = u <=> r \in Held(u)
      BY DEF TransferInv, LocksExact
    <3>2. CASE r = s
      BY <1>1, <1>7, <1>8, <1>12, <3>1, <3>2, NoThreadAssumption
    <3>3. CASE r # s
      BY <1>7, <1>8, <1>12, <3>1, <3>3
    <3> QED BY <3>2, <3>3
  <2> QED BY <2>1, <2>2 DEF LocksExact
<1>14. \A u \in Thread : Progress(xfer'[u]) /\ LockedOnce(xfer'[u])
  BY <1>5, <1>6, <1>10 DEF TransferInv
<1>15. NoneWhenDown'
  BY <1>1 DEF NoneWhenDown
<1>16. DOMAIN xfer' = Thread /\ array_mutex' \in Thread \cup {NoThread}
  BY <1>0, <1>1, <1>2
<1> QED BY <1>11, <1>13, <1>14, <1>15, <1>16 DEF TransferInv

\* A transfer, and rw_V of its sector.
LEMMA TransferKeeps ==
    ASSUME TransferInv, NEW t \in Thread, TransferSector(t)
    PROVE  TransferInv'
<1> PICK i : i = xfer[t].done + 1
  OBVIOUS
<1> PICK s : s = xfer[t].sectors[i]
  OBVIOUS
<1> PICK pc : pc = IF i = Len(xfer[t].sectors) THEN "done" ELSE "io"
  OBVIOUS
<1> PICK buf : buf = IF xfer[t].op = "read" THEN Append(xfer[t].buf, BytesAt(disk, s))
                     ELSE xfer[t].buf
  OBVIOUS
<1> PICK x : x = [xfer[t] EXCEPT !.done = i, !.pc = pc, !.buf = buf]
  OBVIOUS
<1>0. Progress(xfer[t]) /\ LockedOnce(xfer[t]) /\ DOMAIN xfer = Thread
  BY DEF TransferInv
<1>1. /\ xfer[t].pc = "io"
      /\ mutex' = [mutex EXCEPT ![s] = NoThread]
      /\ array_mutex' = array_mutex
      /\ machine = "up" /\ machine' = machine
  BY DEF TransferSector
<1>2. xfer' = [xfer EXCEPT ![t] = x]
  <2>1. xfer' = [xfer EXCEPT ![t].done = i, ![t].pc = pc, ![t].buf = buf]
    BY <1>0 DEF TransferSector, Progress, TransferField
  <2> QED BY <1>0, <2>1
<1>3. /\ DOMAIN x = TransferField /\ x.pc = pc /\ x.locked = xfer[t].locked
      /\ x.done = i /\ x.sectors = xfer[t].sectors
  BY <1>0 DEF Progress, TransferField
<1>4. /\ xfer[t].locked \in Nat /\ xfer[t].done \in Nat /\ i \in Nat /\ i = xfer[t].done + 1
      /\ xfer[t].locked = Len(xfer[t].sectors) /\ i <= xfer[t].locked
  BY <1>0, <1>1 DEF Progress
<1>5. Progress(x)
  BY <1>3, <1>4 DEF Progress
<1>6. \A u \in Thread : xfer'[u] = IF u = t THEN x ELSE xfer[u]
  BY <1>0, <1>2
<1>7. /\ Held(t)' = {xfer[t].sectors[j] : j \in i + 1..xfer[t].locked}
      /\ Held(t) = {xfer[t].sectors[j] : j \in i..xfer[t].locked}
  <2>1. xfer'[t] = x
    BY <1>6
  <2> QED BY <1>3, <1>4, <2>1 DEF Held
<1>8. \A u \in Thread : u # t => Held(u)' = Held(u)
  BY <1>6 DEF Held
<1>9. \A r \in Sector : r \in Held(t)' <=> r \in Held(t) /\ r # s
  <2> SUFFICES ASSUME NEW r \in Sector PROVE r \in Held(t)' <=> r \in Held(t) /\ r # s
    OBVIOUS
  <2>1. i \in i..xfer[t].locked /\ \A j \in i + 1..xfer[t].locked : j \in i..xfer[t].locked /\ j # i
    BY <1>4
  <2>2. \A j \in i..xfer[t].locked : j = i \/ j \in i + 1..xfer[t].locked
    BY <1>4
  <2>3. \A j, k \in i..xfer[t].locked :
          xfer[t].sectors[j] \in Sector /\ xfer[t].sectors[j] = xfer[t].sectors[k] => j = k
    BY <1>0, <1>4 DEF LockedOnce
  <2> QED BY <1>7, <2>1, <2>2, <2>3
<1>10. LockedOnce(x)
  BY <1>0, <1>3, <1>4 DEF LockedOnce
<1>11. mutex' \in [Sector -> Thread \cup {NoThread}]
  BY <1>1 DEF TransferInv
<1>12. \A r \in Sector : mutex'[r] = IF r = s THEN NoThread ELSE mutex[r]
  BY <1>1 DEF TransferInv
<1>13. s \in Held(t)
  BY <1>4, <1>7
<1>14. LocksExact'
  <2>1. \A u \in Thread : array_mutex' = u <=> xfer'[u].pc = "rw_P"
    <3>1. pc # "rw_P"
      OBVIOUS
    <3>2. \A u \in Thread : array_mutex = u <=> xfer[u].pc = "rw_P"
      BY DEF TransferInv, LocksExact
    <3>3. array_mutex # t
      BY <1>1, <3>2
    <3> QED BY <1>1, <1>3, <1>6, <3>1, <3>2, <3>3
  <2>2. ASSUME NEW u \in Thread, NEW r \in Sector PROVE mutex'[r] = u <=> r \in Held(u)'
    <3>1. \A v \in Thread : mutex[r] = v <=> r \in Held(v)
      BY DEF TransferInv, LocksExact
    <3>2. CASE u = t
      BY <1>9, <1>12, <3>1, <3>2, NoThreadAssumption
    <3>3. CASE u # t
      BY <1>8, <1>12, <1>13, <3>1, <3>3, NoThreadAssumption
    <3> QED BY <3>2, <3>3
  <2> QED BY <2>1, <2>2 DEF LocksExact
<1>15. \A u \in Thread : Progress(xfer'[u]) /\ LockedOnce(xfer'[u])
  BY <1>5, <1>6, <1>10 DEF TransferInv
<1>16. NoneWhenDown'
  BY <1>1 DEF NoneWhenDown
<1>17. DOMAIN xfer' = Thread /\ array_mutex' \in Thread \cup {NoThread}
  BY <1>0, <1>1, <1>2 DEF TransferInv
<1> QED BY <1>11, <1>14, <1>15, <1>16, <1>17 DEF TransferInv

\* The mutexes before the first step.
LEMMA TransferInvInit == Init => TransferInv
  BY AllIdle DEF Init

\* Each step keeps the invariant of the mutexes.
LEMMA TransferInvNext == TransferInv /\ [Next]_vars => TransferInv'
<1> SUFFICES ASSUME TransferInv, [Next]_vars PROVE TransferInv'
  OBVIOUS
<1>1. ASSUME UNCHANGED <<xfer, mutex, array_mutex>>,
             machine' = machine \/ machine' = "up"
      PROVE  TransferInv'
  <2>1. \A u \in Thread : Held(u)' = Held(u)
    BY <1>1 DEF Held
  <2>2. LocksExact'
    BY <1>1, <2>1 DEF LocksExact, TransferInv
  <2>3. NoneWhenDown'
    BY <1>1 DEF NoneWhenDown, TransferInv
  <2> QED BY <1>1, <2>2, <2>3 DEF TransferInv
<1>2. ASSUME GoDown PROVE TransferInv'
  BY <1>2, AllIdleNext DEF GoDown
<1>3. ASSUME NEW t \in Thread, NEW p, NEW b, NEW k, Create(t, p, b, k) PROVE TransferInv'
  BY <1>1, <1>3 DEF Create
<1>4. ASSUME NEW t \in Thread, NEW p, Open(t, p) \/ Remove(t, p) PROVE TransferInv'
  BY <1>1, <1>4 DEF Open, Remove
<1>5. ASSUME NEW t \in Thread, Close(t) PROVE TransferInv'
  BY <1>1, <1>5 DEF Close
<1>6. ASSUME WriteSector \/ Restart \/ Format PROVE TransferInv'
  BY <1>1, <1>6 DEF WriteSector, Restart, Format
<1>7. ASSUME AssertFails \/ Crash PROVE TransferInv'
  BY <1>2, <1>7 DEF AssertFails, Crash
<1>8. ASSUME NEW t \in Thread, ReadFile(t) PROVE TransferInv'
  <2>1. PICK r \in ClientRequest : ReadAt(t, r[1], r[2])
    BY <1>8 DEF ReadFile
  <2> PICK len : len = IF r[1] + r[2] > disk[handle[t]].numBytes
                       THEN disk[handle[t]].numBytes - r[1] ELSE r[2]
    OBVIOUS
  <2> PICK sec : sec = Sectors(disk, disk[handle[t]], r[1], len)
    OBVIOUS
  <2> PICK x : x = [NoTransfer EXCEPT !.pc = "arr_P", !.op = "read", !.pos = r[1],
                                      !.len = len, !.sectors = sec]
    OBVIOUS
  <2>2. /\ xfer' = [xfer EXCEPT ![t] = x] /\ xfer[t].pc = "idle"
        /\ UNCHANGED <<machine, mutex, array_mutex>>
    BY <2>1 DEF ReadAt, CanStart
  <2>3. DOMAIN x = TransferField /\ x.pc = "arr_P" /\ x.locked = 0 /\ x.done = 0
    BY DEF NoTransfer, TransferField
  <2> QED BY <2>2, <2>3, BeginKeeps
<1>9. ASSUME NEW t \in Thread, WriteFile(t) PROVE TransferInv'
  <2>1. PICK r \in ClientRequest : WriteAt(t, r[1], r[2])
    BY <1>9 DEF WriteFile
  <2>2. PICK solo, sec, buf :
          xfer' = [xfer EXCEPT ![t] =
                     [NoTransfer EXCEPT !.pc = "arr_P", !.op = "write", !.pos = r[1],
                        !.len = r[2], !.solo = solo, !.sectors = sec, !.buf = buf]]
    BY <2>1 DEF WriteAt
  <2> PICK x : x = [NoTransfer EXCEPT !.pc = "arr_P", !.op = "write", !.pos = r[1],
                        !.len = r[2], !.solo = solo, !.sectors = sec, !.buf = buf]
    OBVIOUS
  <2>3. /\ xfer' = [xfer EXCEPT ![t] = x] /\ xfer[t].pc = "idle"
        /\ UNCHANGED <<machine, mutex, array_mutex>>
    BY <2>1, <2>2 DEF WriteAt, CanStart
  <2>4. DOMAIN x = TransferField /\ x.pc = "arr_P" /\ x.locked = 0 /\ x.done = 0
    BY DEF NoTransfer, TransferField
  <2> QED BY <2>3, <2>4, BeginKeeps
<1>10. ASSUME NEW t \in Thread, Return(t) PROVE TransferInv'
  <2> PICK x : x = NoTransfer
    OBVIOUS
  <2>1. /\ xfer' = [xfer EXCEPT ![t] = x] /\ xfer[t].pc = "done"
        /\ UNCHANGED <<machine, mutex, array_mutex>>
    BY <1>10 DEF Return
  <2>2. DOMAIN x = TransferField /\ x.pc = "idle" /\ x.locked = 0 /\ x.done = 0
    BY DEF NoTransfer, TransferField
  <2> QED BY <2>1, <2>2, BeginKeeps
<1>11. ASSUME NEW t \in Thread, DoTransfer(t) PROVE TransferInv'
  <2>1. ASSUME StrayMutex(t) PROVE TransferInv'
    BY <1>2, <2>1 DEF StrayMutex
  <2> QED BY <1>8, <1>9, <1>10, <1>11, <2>1, LockArrayKeeps, LockSectorKeeps, TransferKeeps
          DEF DoTransfer
<1>12. CASE UNCHANGED vars
  BY <1>1, <1>12 DEF vars, fileVars
<1> QED BY <1>3, <1>4, <1>5, <1>6, <1>7, <1>11, <1>12 DEF Next

\* The inductive invariant of the transfers.
THEOREM TransferInvariant == Spec => []TransferInv
  BY TransferInvInit, TransferInvNext, PTL DEF Spec

\* OpenFile::ReadAt and WriteAt hold the mutex of a sector exactly from its
\* rw_P to its rw_V, and array_mutex from arr_P to arr_V: no sector is in two
\* transfers at once, for any number of threads and whatever is on the disk.
THEOREM LocksExactSafe == Spec => []LocksExact
<1>1. TransferInv => LocksExact
  BY DEF TransferInv
<1> QED BY <1>1, TransferInvariant, PTL

\* Threads in ReadAt and WriteAt never wait for each other in a circle: the
\* thread that has the sector another waits for is transferring and waits for
\* no mutex.
THEOREM HolderMovesOnSafe == Spec => []HolderMovesOn
<1>1. TransferInv => HolderMovesOn
  <2> SUFFICES ASSUME TransferInv, NEW t \in Thread, NEW u \in Thread, NEW s \in Sector,
                      t # u, xfer[t].pc = "rw_P", mutex[s] = u
               PROVE  xfer[u].pc = "io"
    BY DEF HolderMovesOn
  <2>1. s \in Held(u) /\ Progress(xfer[u])
    BY DEF TransferInv, LocksExact
  <2>2. xfer[u].pc # "rw_P"
    BY DEF TransferInv, LocksExact
  <2>3. xfer[u].locked # xfer[u].done
    BY <2>1 DEF Held, Progress
  <2> QED BY <2>1, <2>2, <2>3 DEF Progress
<1> QED BY <1>1, TransferInvariant, PTL

\* While a thread has a sector locked, the transfers of other threads do not
\* touch it, and after a stop nobody has a mutex.
THEOREM LockedSectorStableSafe == Spec => LockedSectorStable
<1> DEFINE Stable == \A s \in Sector :
                       mutex[s] # NoThread /\ disk'[s] # disk[s]
                         => todo' # todo \/ xfer'[mutex[s]] # xfer[mutex[s]]
<1>1. TransferInv /\ [Next]_vars => [Stable]_vars
  <2> SUFFICES ASSUME TransferInv, Next, NEW s \in Sector, mutex[s] # NoThread,
                      disk'[s] # disk[s], todo' = todo
               PROVE  xfer'[mutex[s]] # xfer[mutex[s]]
    OBVIOUS
  <2>1. machine # "down"
    BY DEF TransferInv, NoneWhenDown
  <2>2. WriteSector => FALSE
    BY DEF WriteSector
  <2>3. PICK t \in Thread : TransferSector(t)
    <3>1. ASSUME NEW t \in Thread, NEW p, NEW b, NEW k, Create(t, p, b, k) PROVE disk' = disk
      BY <3>1 DEF Create
    <3>2. ASSUME NEW t \in Thread, NEW p, Open(t, p) \/ Remove(t, p) PROVE disk' = disk
      BY <3>2 DEF Open, Remove
    <3>3. ASSUME NEW t \in Thread, Close(t) PROVE disk' = disk
      BY <3>3 DEF Close
    <3>4. ASSUME NEW t \in Thread, DoTransfer(t), ~TransferSector(t) PROVE disk' = disk
      BY <3>4 DEF DoTransfer, ReadFile, ReadAt, WriteFile, WriteAt, LockArray, LockSector,
           StrayMutex, GoDown, Return
    <3>5. ASSUME AssertFails \/ Crash PROVE disk' = disk
      BY <3>5 DEF AssertFails, Crash, GoDown
    <3>6. ~Restart /\ ~Format
      BY <2>1 DEF Restart, Format
    <3> QED BY <2>2, <3>1, <3>2, <3>3, <3>4, <3>5, <3>6 DEF Next
  <2>4. Progress(xfer[t]) /\ DOMAIN xfer = Thread
    BY DEF TransferInv
  <2>5. /\ xfer[t].pc = "io" /\ s = xfer[t].sectors[xfer[t].done + 1]
        /\ xfer'[t].done = xfer[t].done + 1
    BY <2>3, <2>4 DEF TransferSector, Progress, TransferField
  <2>6. s \in Held(t) /\ xfer[t].done \in Nat
    BY <2>4, <2>5 DEF Held, Progress
  <2>7. mutex[s] = t
    BY <2>6 DEF TransferInv, LocksExact
  <2> QED BY <2>5, <2>6, <2>7
<1> QED BY <1>1, TransferInvariant, PTL DEF Spec, LockedSectorStable

-----------------------------------------------------------------------------
(***************************************************************************)
(* The tree of files on the disk.  Shape says what is on a sound disk: F   *)
(* are its files and G its directories, each file has a header in order,   *)
(* entries lead to files of F, and no sector belongs to two of them.       *)
(***************************************************************************)
\* The contents of a directory or of the bit map on disk d, and the sectors
\* that a file owns: header, index tables, data.
ContentOf(d, D) == DataSector(d, d[D], 1)
TableOf(d, D) == d[ContentOf(d, D)].table
MarkedOn(d) == d[ContentOf(d, FreeMapSector)].marked
OwnedBy(d, f) == (Blocks(d, d[f]) \cup {f}) \ {NoSector}

HeaderField == {"kind", "fileType", "numBytes", "numSectors", "primaryIndexTable", "numVisits"}
EntryField == {"inUse", "name", "sector"}

\* What is said of a header by itself, and of the sectors that it leads to.
Fields(x) ==
    /\ DOMAIN x = HeaderField
    /\ x.kind = "header"
    /\ x.fileType \in {0, 1}
    /\ x.numSectors \in Nat
    /\ x.numBytes \in Nat
    /\ divRoundUp(x.numBytes, SectorSize) <= x.numSectors

\* No sector is twice in a file.
DataOnce(d, f) ==
    \A i, j \in 1..d[f].numSectors :
        DataSector(d, d[f], i) = DataSector(d, d[f], j) /\ DataSector(d, d[f], i) # NoSector => i = j
HeaderOK(d, f) ==
    /\ f \in Sector
    /\ Fields(d[f])
    /\ \A s \in Tables(d[f]) : s \in Sector /\ s # f /\ d[s].kind = "table"
    /\ \A i \in 1..d[f].numSectors :
          /\ DataSector(d, d[f], i) \in Sector \cup {NoSector}
          /\ DataSector(d, d[f], i) \notin Tables(d[f]) \cup {f}
    /\ DataOnce(d, f)

TableOK(table) ==
    /\ DOMAIN table = 1..NumDirEntries
    /\ \A i \in 1..NumDirEntries : DOMAIN table[i] = EntryField /\ table[i].inUse \in BOOLEAN

\* A directory and the bit map each have one data sector.
OneSector(d, f, kind) ==
    /\ d[f].fileType = 1
    /\ d[f].numSectors = 1
    /\ ContentOf(d, f) \in Sector
    /\ d[ContentOf(d, f)].kind = kind

DirOK(d, D) == OneSector(d, D, "dir") /\ TableOK(TableOf(d, D))
MapOK(d) == OneSector(d, FreeMapSector, "map") /\ MarkedOn(d) \subseteq Sector

\* Entries in use lead to files of F, those of the root also to directories of
\* G, and no two of them to the same file.
LinksOK(d, F, G) ==
    \A D \in G : \A i \in InUse(TableOf(d, D)) :
        /\ TableOf(d, D)[i].sector \in F \ {FreeMapSector, DirectorySector}
        /\ d[TableOf(d, D)[i].sector].fileType = 1 =>
              D = DirectorySector /\ TableOf(d, D)[i].sector \in G
LinkedOnce(d, G) ==
    \A D, E \in G : \A i \in InUse(TableOf(d, D)), j \in InUse(TableOf(d, E)) :
        TableOf(d, D)[i].sector = TableOf(d, E)[j].sector => D = E /\ i = j
NoneShared(d, F) ==
    \A f, g \in F : f # g => OwnedBy(d, f) \cap OwnedBy(d, g) = {}

\* Disk d holds a tree of files: F are its files, G its directories.
Shape(d, F, G) ==
    /\ DOMAIN d = Sector
    /\ FreeMapSector \in F /\ FreeMapSector \notin G
    /\ DirectorySector \in G /\ G \subseteq F
    /\ MapOK(d)
    /\ \A D \in G : DirOK(d, D)
    /\ \A f \in F : HeaderOK(d, f)
    /\ LinksOK(d, F, G)
    /\ LinkedOnce(d, G)
    /\ NoneShared(d, F)

\* The i-th of n things is in one of the parts of size b.
LEMMA PartIndex ==
    ASSUME NEW b \in Nat, b > 0, NEW n \in Nat, NEW i \in 1..n
    PROVE  /\ divRoundUp(n, b) \in Int
           /\ ((i - 1) \div b) + 1 \in 1..divRoundUp(n, b)
           /\ ((i - 1) % b) + 1 \in 1..b
<1>1. b \in Int /\ b > 0
  OBVIOUS
<1> PICK q \in Int : q = (i - 1) \div b
  BY <1>1, DivMod
<1> PICK r \in 0..b-1 : r = (i - 1) % b
  BY <1>1, DivMod
<1> PICK p \in Int : p = (n + b - 1) \div b
  BY <1>1, DivMod
<1> PICK u \in 0..b-1 : u = (n + b - 1) % b
  BY <1>1, DivMod
<1>2. i - 1 = b * q + r /\ n + b - 1 = b * p + u
  BY <1>1, DivMod
<1>3. q >= 0
  <2>1. b * (0 - 1) < b * q
    BY <1>1, <1>2
  <2>2. 0 - 1 < q
    BY <1>1, <2>1, Multiples
  <2> QED BY <2>2
<1>4. q < p
  <2>1. b * q < b * p
    <3>1. b * q \in Int /\ b * p \in Int
      BY <1>1
    <3> QED BY <1>1, <1>2, <3>1
  <2> QED BY <1>1, <2>1, Multiples
<1> QED BY <1>1, <1>3, <1>4 DEF divRoundUp

\* The i-th data sector is found through one of the file's index tables.
LEMMA TableIndex ==
    ASSUME NEW n \in Nat, NEW i \in 1..n
    PROVE  /\ ((i - 1) \div IndexSize) + 1 \in 1..NumTables(n)
           /\ ((i - 1) % IndexSize) + 1 \in 1..IndexSize
<1>1. IndexSize \in Nat /\ IndexSize > 0
  BY SizesAssumption
<1> QED BY <1>1, PartIndex DEF NumTables

\* A disk with the same header, as far as the layout is concerned, and the same
\* index tables has the file in the same place.
SameLayout(d, e, f) ==
    /\ e[f].numSectors = d[f].numSectors
    /\ e[f].primaryIndexTable = d[f].primaryIndexTable
    /\ \A s \in Tables(d[f]) : e[s] = d[s]

\* The same layout means the same sectors.
LEMMA LayoutKept ==
    ASSUME NEW d, NEW e, NEW f, d[f].numSectors \in Nat, SameLayout(d, e, f)
    PROVE  /\ Tables(e[f]) = Tables(d[f])
           /\ \A i \in 1..d[f].numSectors : DataSector(e, e[f], i) = DataSector(d, d[f], i)
           /\ OwnedBy(e, f) = OwnedBy(d, f)
<1>1. Tables(e[f]) = Tables(d[f])
  BY DEF SameLayout, Tables
<1>2. ASSUME NEW i \in 1..d[f].numSectors
      PROVE  DataSector(e, e[f], i) = DataSector(d, d[f], i)
  <2> PICK k : k = ((i - 1) \div IndexSize) + 1
    OBVIOUS
  <2>1. k \in 1..NumTables(d[f].numSectors)
    BY TableIndex
  <2>2. d[f].primaryIndexTable[k] \in Tables(d[f])
    BY <2>1 DEF Tables
  <2> QED BY <2>2 DEF SameLayout, DataSector
<1>3. Blocks(e, e[f]) = Blocks(d, d[f])
  BY <1>1, <1>2 DEF Blocks, SameLayout
<1> QED BY <1>1, <1>2, <1>3 DEF OwnedBy

\* A header with the same layout is still in order.
LEMMA HeaderKept ==
    ASSUME NEW d, NEW e, NEW f, HeaderOK(d, f), SameLayout(d, e, f), Fields(e[f])
    PROVE  HeaderOK(e, f)
<1>1. d[f].numSectors \in Nat
  BY DEF HeaderOK, Fields
<1>2. /\ Tables(e[f]) = Tables(d[f])
      /\ \A i \in 1..d[f].numSectors : DataSector(e, e[f], i) = DataSector(d, d[f], i)
  BY <1>1, LayoutKept
<1>3. \A s \in Tables(d[f]) : e[s] = d[s]
  BY DEF SameLayout
<1>4. e[f].numSectors = d[f].numSectors
  BY DEF SameLayout
<1>5. DataOnce(e, f)
  BY <1>2, <1>4 DEF DataOnce, HeaderOK
<1> QED BY <1>2, <1>3, <1>4, <1>5 DEF HeaderOK

\* What a file owns.
LEMMA Owns ==
    ASSUME NEW d, NEW f, HeaderOK(d, f)
    PROVE  /\ f \in OwnedBy(d, f)
           /\ Tables(d[f]) \subseteq OwnedBy(d, f)
           /\ \A i \in 1..d[f].numSectors :
                 DataSector(d, d[f], i) # NoSector => DataSector(d, d[f], i) \in OwnedBy(d, f)
           /\ OwnedBy(d, f) \subseteq Sector
<1>1. NoSector \notin Sector
  BY SizesAssumption DEF NoSector, Sector
<1> QED BY <1>1 DEF OwnedBy, HeaderOK, Blocks

\* The contents of a directory or of the bit map are nothing else.
LEMMA ContentAlone ==
    ASSUME NEW d, NEW F, NEW G, Shape(d, F, G), NEW D \in G \cup {FreeMapSector}
    PROVE  /\ D \in F
           /\ ContentOf(d, D) \in Sector
           /\ ContentOf(d, D) \in OwnedBy(d, D)
           /\ \A f \in F : ContentOf(d, D) # f /\ ContentOf(d, D) \notin Tables(d[f])
           /\ \A E \in G \cup {FreeMapSector} : E # D => ContentOf(d, E) # ContentOf(d, D)
<1>0. NoSector \notin Sector
  BY SizesAssumption DEF NoSector, Sector
<1>1. \A E \in G \cup {FreeMapSector} :
         /\ E \in F /\ HeaderOK(d, E) /\ d[E].numSectors = 1 /\ ContentOf(d, E) \in Sector
  BY DEF Shape, DirOK, MapOK, OneSector
<1>2. \A E \in G \cup {FreeMapSector} :
         /\ ContentOf(d, E) \in OwnedBy(d, E)
         /\ ContentOf(d, E) # E /\ ContentOf(d, E) \notin Tables(d[E])
  <2> TAKE E \in G \cup {FreeMapSector}
  <2>1. HeaderOK(d, E) /\ 1 \in 1..d[E].numSectors /\ ContentOf(d, E) # NoSector
    BY <1>0, <1>1
  <2>2. ContentOf(d, E) \in OwnedBy(d, E)
    BY <2>1, Owns DEF ContentOf
  <2> QED BY <2>1, <2>2 DEF HeaderOK, ContentOf
<1>3. ASSUME NEW f \in F, f # D PROVE ContentOf(d, D) # f /\ ContentOf(d, D) \notin Tables(d[f])
  <2>1. HeaderOK(d, f)
    BY DEF Shape
  <2>2. f \in OwnedBy(d, f) /\ Tables(d[f]) \subseteq OwnedBy(d, f)
    BY <2>1, Owns
  <2>3. OwnedBy(d, f) \cap OwnedBy(d, D) = {}
    BY <1>1, <1>3 DEF Shape, NoneShared
  <2> QED BY <1>2, <2>2, <2>3
<1>4. ASSUME NEW E \in G \cup {FreeMapSector}, E # D PROVE ContentOf(d, E) # ContentOf(d, D)
  <2>1. OwnedBy(d, E) \cap OwnedBy(d, D) = {}
    BY <1>1, <1>4 DEF Shape, NoneShared
  <2> QED BY <1>2, <2>1
<1> QED BY <1>1, <1>2, <1>3, <1>4

\* The same tree of files on another disk: headers and index tables lead to the
\* same places and the directories to the same files.
SameEntries(x, y) ==
    /\ TableOK(y)
    /\ \A i \in 1..NumDirEntries : y[i].inUse = x[i].inUse /\ y[i].sector = x[i].sector
Similar(d, e, F, G) ==
    /\ DOMAIN e = Sector
    /\ \A f \in F : SameLayout(d, e, f) /\ Fields(e[f]) /\ e[f].fileType = d[f].fileType
    /\ \A D \in G : /\ e[ContentOf(d, D)].kind = "dir"
                    /\ SameEntries(TableOf(d, D), e[ContentOf(d, D)].table)
    /\ e[ContentOf(d, FreeMapSector)].kind = "map"
    /\ e[ContentOf(d, FreeMapSector)].marked \subseteq Sector

\* Similar disks have their files in the same places.
LEMMA SimilarPlaces ==
    ASSUME NEW d, NEW e, NEW F, NEW G, Shape(d, F, G), Similar(d, e, F, G)
    PROVE  /\ \A f \in F : /\ OwnedBy(e, f) = OwnedBy(d, f)
                           /\ e[f].fileType = d[f].fileType
                           /\ e[f].numSectors = d[f].numSectors
                           /\ \A i \in 1..d[f].numSectors :
                                 DataSector(e, e[f], i) = DataSector(d, d[f], i)
           /\ \A D \in G \cup {FreeMapSector} : ContentOf(e, D) = ContentOf(d, D)
           /\ \A D \in G : SameEntries(TableOf(d, D), TableOf(e, D))
<1>1. ASSUME NEW f \in F
      PROVE  /\ OwnedBy(e, f) = OwnedBy(d, f)
             /\ \A i \in 1..d[f].numSectors : DataSector(e, e[f], i) = DataSector(d, d[f], i)
             /\ e[f].fileType = d[f].fileType
             /\ e[f].numSectors = d[f].numSectors
  <2>1. SameLayout(d, e, f) /\ e[f].fileType = d[f].fileType
    BY DEF Similar
  <2>2. d[f].numSectors \in Nat
    BY DEF Shape, HeaderOK, Fields
  <2>3. e[f].numSectors = d[f].numSectors
    BY <2>1 DEF SameLayout
  <2>4. /\ OwnedBy(e, f) = OwnedBy(d, f)
        /\ \A i \in 1..d[f].numSectors : DataSector(e, e[f], i) = DataSector(d, d[f], i)
    BY <2>1, <2>2, LayoutKept
  <2> QED BY <2>1, <2>3, <2>4
<1>2. \A D \in G \cup {FreeMapSector} : D \in F /\ d[D].numSectors = 1
  BY DEF Shape, DirOK, MapOK, OneSector
<1>3. \A D \in G \cup {FreeMapSector} : ContentOf(e, D) = ContentOf(d, D)
  BY <1>1, <1>2 DEF ContentOf
<1>4. \A D \in G : SameEntries(TableOf(d, D), TableOf(e, D))
  BY <1>3 DEF Similar, TableOf
<1> QED BY <1>1, <1>3, <1>4

\* Similar disks hold the same tree.
LEMMA SimilarShape ==
    ASSUME NEW d, NEW e, NEW F, NEW G, Shape(d, F, G), Similar(d, e, F, G)
    PROVE  Shape(e, F, G)
<1>1. \A f \in F : OwnedBy(e, f) = OwnedBy(d, f) /\ e[f].fileType = d[f].fileType
                   /\ e[f].numSectors = d[f].numSectors
  BY SimilarPlaces
<1>2. \A D \in G \cup {FreeMapSector} : ContentOf(e, D) = ContentOf(d, D)
  BY SimilarPlaces
<1>3. \A D \in G : SameEntries(TableOf(d, D), TableOf(e, D))
  BY SimilarPlaces
<1>4. \A f \in F : HeaderOK(e, f)
  BY HeaderKept DEF Shape, Similar
<1>5. ASSUME NEW D \in G PROVE DirOK(e, D)
  <2>1. D \in F /\ DirOK(d, D)
    BY DEF Shape
  <2>2. e[ContentOf(d, D)].kind = "dir"
    BY DEF Similar
  <2>3. TableOK(TableOf(e, D))
    BY <1>3 DEF SameEntries
  <2> QED BY <1>1, <1>2, <2>1, <2>2, <2>3 DEF DirOK, OneSector
<1>6. MapOK(e)
  <2>1. FreeMapSector \in F /\ MapOK(d)
    BY DEF Shape
  <2> QED BY <1>1, <1>2, <2>1 DEF MapOK, OneSector, MarkedOn, Similar
<1>7. \A D \in G : /\ InUse(TableOf(e, D)) = InUse(TableOf(d, D))
                   /\ \A i \in InUse(TableOf(d, D)) :
                         TableOf(e, D)[i].sector = TableOf(d, D)[i].sector
  BY <1>3 DEF SameEntries, InUse
<1>8. LinksOK(e, F, G)
  BY <1>1, <1>7 DEF LinksOK, Shape
<1>9. LinkedOnce(e, G)
  BY <1>7 DEF LinkedOnce, Shape
<1>10. NoneShared(e, F)
  BY <1>1 DEF NoneShared, Shape
<1>11. DOMAIN e = Sector
  BY DEF Similar
<1> QED BY <1>4, <1>5, <1>6, <1>8, <1>9, <1>10, <1>11 DEF Shape

\* The names in the directories.  A directory that a client can name has been
\* made since the program was started, and its entries have names of their own.
DirName == {p[1] : p \in DirPath}
TopName == {p[1] : p \in {q \in FilePath : Len(q) = 1}}
NamedOnce(table) ==
    /\ \A i \in InUse(table) : table[i].name # Lost
    /\ \A i, j \in InUse(table) : table[i].name = table[j].name => i = j
RootNames(d, x) ==
    \A i \in InUse(x) :
        /\ x[i].name \in {Lost} \cup DirName \cup TopName
        /\ x[i].name \in DirName => d[x[i].sector].fileType = 1
        /\ d[x[i].sector].fileType = 1 /\ x[i].name # Lost => NamedOnce(TableOf(d, x[i].sector))
NamesOK(d) == RootNames(d, TableOf(d, DirectorySector))

\* What the threads have open is there, and a thread writes to data sectors of
\* a regular file.
WritesInside(d, f, x) ==
    /\ x.pc # "idle"
    /\ f # NoSector
    /\ d[f].fileType = 0
    /\ \A j \in 1..Len(x.sectors) :
          \E i \in 1..d[f].numSectors : x.sectors[j] = DataSector(d, d[f], i)
UsersOK(d, F, open, x) ==
    \A t \in Thread :
        /\ open[t] # NoSector => open[t] \in F
        /\ x[t].op = "write" => WritesInside(d, open[t], x[t])

Marked(d, F, tg) == \A f \in F : OwnedBy(d, f) \subseteq MarkedOn(d) \cup tg

Sound(d, F, G, tg, open, x) ==
    /\ Shape(d, F, G)
    /\ NamesOK(d)
    /\ Marked(d, F, tg)
    /\ UsersOK(d, F, open, x)

\* The names are as they were when the tables are.
LEMMA NamesKept ==
    ASSUME NEW d, NEW e, NEW F, NEW G, Shape(d, F, G), Similar(d, e, F, G), NamesOK(d),
           \A D \in G : e[ContentOf(d, D)].table = TableOf(d, D)
    PROVE  NamesOK(e)
<1>1. \A f \in F : e[f].fileType = d[f].fileType
  BY SimilarPlaces
<1>2. \A D \in G : TableOf(e, D) = TableOf(d, D)
  <2>1. \A D \in G \cup {FreeMapSector} : ContentOf(e, D) = ContentOf(d, D)
    BY SimilarPlaces
  <2> QED BY <2>1 DEF TableOf
<1>3. DirectorySector \in G /\ LinksOK(d, F, G)
  BY DEF Shape
<1>4. \A i \in InUse(TableOf(d, DirectorySector)) :
         /\ TableOf(d, DirectorySector)[i].sector \in F
         /\ d[TableOf(d, DirectorySector)[i].sector].fileType = 1 =>
               TableOf(d, DirectorySector)[i].sector \in G
  BY <1>3 DEF LinksOK
<1> QED BY <1>1, <1>2, <1>3, <1>4 DEF NamesOK, RootNames

\* What threads have open or write is still there on a similar disk.
LEMMA UsersKept ==
    ASSUME NEW d, NEW e, NEW F, NEW G, NEW open, NEW x, Shape(d, F, G), Similar(d, e, F, G),
           UsersOK(d, F, open, x)
    PROVE  UsersOK(e, F, open, x)
<1>1. ASSUME NEW f \in F, NEW y, WritesInside(d, f, y) PROVE WritesInside(e, f, y)
  <2>1. /\ e[f].fileType = d[f].fileType /\ e[f].numSectors = d[f].numSectors
        /\ \A i \in 1..d[f].numSectors : DataSector(e, e[f], i) = DataSector(d, d[f], i)
    BY SimilarPlaces
  <2> QED BY <1>1, <2>1 DEF WritesInside
<1>2. \A f, y : WritesInside(d, f, y) => f # NoSector
  BY DEF WritesInside
<1> QED BY <1>1, <1>2 DEF UsersOK

\* Sectors that are written outside of the tree, and changes of a header that
\* leave its layout alone, change nothing.
LEMMA SoundSimilar ==
    ASSUME NEW d, NEW e, NEW F, NEW G, NEW tg, NEW tg2, NEW open, NEW x,
           Sound(d, F, G, tg, open, x), Similar(d, e, F, G), tg \subseteq tg2,
           \A D \in G : e[ContentOf(d, D)].table = TableOf(d, D),
           e[ContentOf(d, FreeMapSector)].marked = MarkedOn(d)
    PROVE  Sound(e, F, G, tg2, open, x)
<1>1. Shape(d, F, G) /\ Shape(e, F, G)
  BY SimilarShape DEF Sound
<1>2. NamesOK(e)
  BY <1>1, NamesKept DEF Sound
<1>3. UsersOK(e, F, open, x)
  BY <1>1, UsersKept DEF Sound
<1>4. \A f \in F : OwnedBy(e, f) = OwnedBy(d, f)
  BY <1>1, SimilarPlaces
<1>5. MarkedOn(e) = MarkedOn(d)
  <2>1. ContentOf(e, FreeMapSector) = ContentOf(d, FreeMapSector)
    <3>1. \A D \in G \cup {FreeMapSector} : ContentOf(e, D) = ContentOf(d, D)
      BY <1>1, SimilarPlaces
    <3> QED BY <3>1
  <2> QED BY <2>1 DEF MarkedOn
<1>6. Marked(e, F, tg2)
  BY <1>4, <1>5 DEF Marked, Sound
<1> QED BY <1>1, <1>2, <1>3, <1>6 DEF Sound

\* The same for another bit map.
LEMMA SoundMap ==
    ASSUME NEW d, NEW e, NEW F, NEW G, NEW tg, NEW tg2, NEW open, NEW x,
           NEW map \in SUBSET Sector,
           Sound(d, F, G, tg, open, x), DOMAIN e = Sector,
           e[ContentOf(d, FreeMapSector)] = MapFile(map),
           \A s \in Sector : s # ContentOf(d, FreeMapSector) => e[s] = d[s],
           \A f \in F : OwnedBy(d, f) \subseteq map \cup tg2
    PROVE  /\ Sound(e, F, G, tg2, open, x)
           /\ MarkedOn(e) = map
<1> PICK c : c = ContentOf(d, FreeMapSector)
  OBVIOUS
<1>0. Shape(d, F, G)
  BY DEF Sound
<1>1. /\ c \in Sector
      /\ \A f \in F : c # f /\ c \notin Tables(d[f])
      /\ \A E \in G : E # FreeMapSector => ContentOf(d, E) # c
  BY <1>0, ContentAlone
<1>2. FreeMapSector \notin G
  BY <1>0 DEF Shape
<1>3. ASSUME NEW f \in F
      PROVE  SameLayout(d, e, f) /\ Fields(e[f]) /\ e[f].fileType = d[f].fileType
  <2>1. HeaderOK(d, f)
    BY <1>0 DEF Shape
  <2>2. e[f] = d[f] /\ \A s \in Tables(d[f]) : e[s] = d[s]
    BY <1>1, <2>1 DEF HeaderOK
  <2> QED BY <2>1, <2>2 DEF SameLayout, HeaderOK
<1>4. ASSUME NEW D \in G
      PROVE  /\ e[ContentOf(d, D)] = d[ContentOf(d, D)]
             /\ e[ContentOf(d, D)].kind = "dir" /\ TableOK(TableOf(d, D))
  <2>1. DirOK(d, D)
    BY <1>0 DEF Shape
  <2>2. e[ContentOf(d, D)] = d[ContentOf(d, D)]
    BY <1>1, <1>2, <2>1 DEF DirOK, OneSector
  <2> QED BY <2>1, <2>2 DEF DirOK, OneSector
<1>5. \A D \in G : e[ContentOf(d, D)].table = TableOf(d, D)
  BY <1>4 DEF TableOf
<1>6. e[c].kind = "map" /\ e[c].marked = map
  BY DEF MapFile
<1>7. Similar(d, e, F, G)
  BY <1>3, <1>4, <1>5, <1>6 DEF Similar, SameEntries
<1>8. Shape(e, F, G)
  BY <1>0, <1>7, SimilarShape
<1>9. NamesOK(e)
  BY <1>0, <1>5, <1>7, NamesKept DEF Sound
<1>10. UsersOK(e, F, open, x)
  BY <1>0, <1>7, UsersKept DEF Sound
<1>11. MarkedOn(e) = map
  <2>1. \A D \in G \cup {FreeMapSector} : ContentOf(e, D) = ContentOf(d, D)
    BY <1>0, <1>7, SimilarPlaces
  <2> QED BY <1>6, <2>1 DEF MarkedOn
<1>12. Marked(e, F, tg2)
  <2>1. \A f \in F : OwnedBy(e, f) = OwnedBy(d, f)
    BY <1>0, <1>7, SimilarPlaces
  <2> QED BY <1>11, <2>1 DEF Marked
<1> QED BY <1>8, <1>9, <1>10, <1>11, <1>12 DEF Sound

SameHeader(x, y) ==
    /\ Fields(y)
    /\ y.fileType = x.fileType
    /\ y.numSectors = x.numSectors
    /\ y.primaryIndexTable = x.primaryIndexTable

\* Nothing of the tree is written but such fields of headers as numVisits.
Spared(d, e, F, G) ==
    /\ DOMAIN e = Sector
    /\ \A f \in F : SameHeader(d[f], e[f])
    /\ \A f \in F : \A s \in Tables(d[f]) : e[s] = d[s]
    /\ \A D \in G \cup {FreeMapSector} : e[ContentOf(d, D)] = d[ContentOf(d, D)]

SparedSame(d, e, F, G) ==
    /\ MarkedOn(e) = MarkedOn(d)
    /\ \A D \in G : TableOf(e, D) = TableOf(d, D) /\ ContentOf(e, D) = ContentOf(d, D)
    /\ ContentOf(e, FreeMapSector) = ContentOf(d, FreeMapSector)
    /\ \A f \in F : OwnedBy(e, f) = OwnedBy(d, f)

\* A disk on which only data or counts differ is as sound.
LEMMA SoundSpared ==
    ASSUME NEW d, NEW e, NEW F, NEW G, NEW tg, NEW tg2, NEW open, NEW x,
           Sound(d, F, G, tg, open, x), Spared(d, e, F, G), tg \subseteq tg2
    PROVE  Sound(e, F, G, tg2, open, x) /\ SparedSame(d, e, F, G)
<1>0. Shape(d, F, G)
  BY DEF Sound
<1>1. \A f \in F : SameLayout(d, e, f) /\ Fields(e[f]) /\ e[f].fileType = d[f].fileType
  BY DEF Spared, SameHeader, SameLayout
<1>2. ASSUME NEW D \in G
      PROVE  /\ e[ContentOf(d, D)].kind = "dir"
             /\ SameEntries(TableOf(d, D), e[ContentOf(d, D)].table)
             /\ e[ContentOf(d, D)].table = TableOf(d, D)
  <2>1. DirOK(d, D)
    BY <1>0 DEF Shape
  <2>2. e[ContentOf(d, D)] = d[ContentOf(d, D)]
    BY DEF Spared
  <2> QED BY <2>1, <2>2 DEF DirOK, OneSector, SameEntries, TableOf
<1>3. /\ e[ContentOf(d, FreeMapSector)].kind = "map"
      /\ e[ContentOf(d, FreeMapSector)].marked = MarkedOn(d)
      /\ MarkedOn(d) \subseteq Sector
  <2>1. MapOK(d)
    BY <1>0 DEF Shape
  <2>2. e[ContentOf(d, FreeMapSector)] = d[ContentOf(d, FreeMapSector)]
    BY DEF Spared
  <2> QED BY <2>1, <2>2 DEF MapOK, OneSector, MarkedOn
<1>4. Similar(d, e, F, G)
  BY <1>1, <1>2, <1>3 DEF Similar, Spared
<1>5. Sound(e, F, G, tg2, open, x)
  BY <1>2, <1>3, <1>4, SoundSimilar
<1>6. /\ \A D \in G \cup {FreeMapSector} : ContentOf(e, D) = ContentOf(d, D)
      /\ \A f \in F : OwnedBy(e, f) = OwnedBy(d, f) /\ e[f].fileType = d[f].fileType
  BY <1>0, <1>4, SimilarPlaces
<1>7. MarkedOn(e) = MarkedOn(d) /\ \A D \in G : TableOf(e, D) = TableOf(d, D)
  BY <1>2, <1>3, <1>6 DEF MarkedOn, TableOf
<1> QED BY <1>5, <1>6, <1>7 DEF SparedSame

\* Sectors that no file owns are written.
LEMMA FreshSpared ==
    ASSUME NEW d, NEW e, NEW F, NEW G, Shape(d, F, G), DOMAIN e = Sector,
           \A f \in F : \A s \in OwnedBy(d, f) : e[s] = d[s]
    PROVE  Spared(d, e, F, G)
<1>1. ASSUME NEW f \in F
      PROVE  SameHeader(d[f], e[f]) /\ \A s \in Tables(d[f]) : e[s] = d[s]
  <2>1. HeaderOK(d, f)
    BY DEF Shape
  <2>2. f \in OwnedBy(d, f) /\ Tables(d[f]) \subseteq OwnedBy(d, f)
    BY <2>1, Owns
  <2>3. e[f] = d[f] /\ \A s \in Tables(d[f]) : e[s] = d[s]
    BY <2>2
  <2>4. Fields(d[f])
    BY <2>1 DEF HeaderOK
  <2> QED BY <2>3, <2>4 DEF SameHeader
<1>2. ASSUME NEW D \in G \cup {FreeMapSector} PROVE e[ContentOf(d, D)] = d[ContentOf(d, D)]
  <2>1. D \in F /\ ContentOf(d, D) \in OwnedBy(d, D)
    BY ContentAlone
  <2> QED BY <2>1
<1> QED BY <1>1, <1>2 DEF Spared

\* The header of one file is written.
LEMMA HeaderSpared ==
    ASSUME NEW d, NEW e, NEW F, NEW G, Shape(d, F, G), DOMAIN e = Sector,
           NEW h \in F, SameHeader(d[h], e[h]), \A s \in Sector : s # h => e[s] = d[s]
    PROVE  Spared(d, e, F, G)
<1>1. ASSUME NEW f \in F PROVE HeaderOK(d, f) /\ Fields(d[f]) /\ f \in Sector
  BY DEF Shape, HeaderOK
<1>2. ASSUME NEW f \in F PROVE SameHeader(d[f], e[f])
  <2>1. CASE f = h
    BY <2>1
  <2>2. CASE f # h
    BY <1>1, <2>2 DEF SameHeader
  <2> QED BY <2>1, <2>2
<1>3. ASSUME NEW f \in F, NEW s \in Tables(d[f]) PROVE e[s] = d[s]
  <2>1. s # h
    <3>1. CASE f = h
      BY <1>1, <3>1 DEF HeaderOK
    <3>2. CASE f # h
      <4>1. s \in OwnedBy(d, f) /\ h \in OwnedBy(d, h)
        BY <1>1, Owns
      <4>2. OwnedBy(d, f) \cap OwnedBy(d, h) = {}
        BY <3>2 DEF Shape, NoneShared
      <4> QED BY <4>1, <4>2
    <3> QED BY <3>1, <3>2
  <2>2. s \in Sector
    BY <1>1 DEF HeaderOK
  <2> QED BY <2>1, <2>2
<1>4. ASSUME NEW D \in G \cup {FreeMapSector} PROVE e[ContentOf(d, D)] = d[ContentOf(d, D)]
  <2>1. ContentOf(d, D) \in Sector /\ ContentOf(d, D) # h
    BY ContentAlone
  <2> QED BY <2>1
<1> QED BY <1>2, <1>3, <1>4 DEF Spared

\* A data sector of a regular file is written.
LEMMA DataSpared ==
    ASSUME NEW d, NEW e, NEW F, NEW G, Shape(d, F, G), DOMAIN e = Sector,
           NEW h \in F, d[h].fileType = 0, NEW i \in 1..d[h].numSectors,
           \A s \in Sector : s # DataSector(d, d[h], i) => e[s] = d[s]
    PROVE  Spared(d, e, F, G)
<1> PICK c : c = DataSector(d, d[h], i)
  OBVIOUS
<1>0. NoSector \notin Sector
  BY SizesAssumption DEF NoSector, Sector
<1>1. ASSUME NEW f \in F PROVE HeaderOK(d, f) /\ Fields(d[f]) /\ f \in Sector
  BY DEF Shape, HeaderOK
<1>2. ASSUME NEW f \in F, NEW s \in OwnedBy(d, f), f # h PROVE s # c
  <2>1. CASE c = NoSector
    BY <2>1 DEF OwnedBy
  <2>2. CASE c # NoSector
    <3>1. c \in OwnedBy(d, h)
      BY <1>1, <2>2, Owns
    <3>2. OwnedBy(d, f) \cap OwnedBy(d, h) = {}
      BY <1>2 DEF Shape, NoneShared
    <3> QED BY <3>1, <3>2
  <2> QED BY <2>1, <2>2
<1>3. ASSUME NEW f \in F PROVE e[f] = d[f]
  <2>1. f # c
    <3>1. CASE f = h
      BY <1>1, <3>1 DEF HeaderOK
    <3>2. CASE f # h
      BY <1>1, <1>2, <3>2, Owns
    <3> QED BY <3>1, <3>2
  <2> QED BY <1>1, <2>1
<1>4. ASSUME NEW f \in F, NEW s \in Tables(d[f]) PROVE e[s] = d[s]
  <2>1. s # c
    <3>1. CASE f = h
      BY <1>1, <3>1 DEF HeaderOK
    <3>2. CASE f # h
      <4>1. s \in OwnedBy(d, f)
        BY <1>1, Owns
      <4> QED BY <1>2, <3>2, <4>1
    <3> QED BY <3>1, <3>2
  <2>2. s \in Sector
    BY <1>1 DEF HeaderOK
  <2> QED BY <2>1, <2>2
<1>5. ASSUME NEW D \in G \cup {FreeMapSector} PROVE e[ContentOf(d, D)] = d[ContentOf(d, D)]
  <2>1. D \in F /\ ContentOf(d, D) \in Sector /\ ContentOf(d, D) \in OwnedBy(d, D)
    BY ContentAlone
  <2>2. D # h
    BY DEF Shape, DirOK, MapOK, OneSector
  <2> QED BY <1>2, <2>1, <2>2
<1> QED BY <1>1, <1>3, <1>4, <1>5 DEF Spared, SameHeader

-----------------------------------------------------------------------------
(***************************************************************************)
(* Directories are written: an entry goes or comes.                        *)
(***************************************************************************)
\* Only sector c differs.
OnlyAt(d, e, c) == \A s \in Sector : s # c => e[s] = d[s]

\* Disk e is disk d with another table in directory D.
NewTable(d, e, D, tab) ==
    /\ TableOK(tab)
    /\ DOMAIN e = Sector
    /\ e[ContentOf(d, D)] = DirFile(tab)
    /\ OnlyAt(d, e, ContentOf(d, D))

\* A file that does not own the sector is left alone.
SamePlaces(d, e, f) ==
    \A i \in 1..d[f].numSectors : DataSector(e, e[f], i) = DataSector(d, d[f], i)

\* A write apart from the sectors of a file leaves the file as it is.
LEMMA FileApart ==
    ASSUME NEW d, NEW e, NEW f, NEW c, HeaderOK(d, f), c # f, c \notin Tables(d[f]),
           OnlyAt(d, e, c)
    PROVE  /\ e[f] = d[f]
           /\ HeaderOK(e, f)
           /\ OwnedBy(e, f) = OwnedBy(d, f)
           /\ SamePlaces(d, e, f)
<1>1. e[f] = d[f] /\ Fields(e[f]) /\ \A s \in Tables(d[f]) : e[s] = d[s]
  BY DEF HeaderOK, OnlyAt
<1>2. SameLayout(d, e, f)
  BY <1>1 DEF SameLayout
<1>3. HeaderOK(e, f)
  BY <1>1, <1>2, HeaderKept
<1>4. d[f].numSectors \in Nat
  BY DEF HeaderOK, Fields
<1>5. OwnedBy(e, f) = OwnedBy(d, f)
  BY <1>2, <1>4, LayoutKept
<1>6. SamePlaces(d, e, f)
  BY <1>2, <1>4, LayoutKept DEF SamePlaces
<1> QED BY <1>1, <1>3, <1>5, <1>6

\* What that means for files and directories.
OneTable(d, e, F, G, D, tab) ==
    /\ \A f \in F : e[f] = d[f] /\ HeaderOK(e, f) /\ OwnedBy(e, f) = OwnedBy(d, f)
    /\ \A E \in G \cup {FreeMapSector} : ContentOf(e, E) = ContentOf(d, E)
    /\ \A E \in G : DirOK(e, E) /\ TableOf(e, E) = IF E = D THEN tab ELSE TableOf(d, E)
    /\ MapOK(e)
    /\ MarkedOn(e) = MarkedOn(d)

\* A new table for a directory changes this directory alone.
LEMMA TableWritten ==
    ASSUME NEW d, NEW e, NEW F, NEW G, Shape(d, F, G), NEW D \in G, NEW tab,
           NewTable(d, e, D, tab)
    PROVE  OneTable(d, e, F, G, D, tab)
<1> PICK c : c = ContentOf(d, D)
  OBVIOUS
<1>0. /\ c \in Sector
      /\ \A f \in F : c # f /\ c \notin Tables(d[f])
      /\ \A E \in G \cup {FreeMapSector} : E # D => ContentOf(d, E) # c
  BY ContentAlone
<1>1. ASSUME NEW f \in F
      PROVE  /\ e[f] = d[f] /\ HeaderOK(e, f) /\ OwnedBy(e, f) = OwnedBy(d, f)
             /\ SamePlaces(d, e, f)
  <2>1. HeaderOK(d, f) /\ c # f /\ c \notin Tables(d[f])
    BY <1>0 DEF Shape
  <2>2. OnlyAt(d, e, c)
    BY DEF NewTable
  <2> QED BY <2>1, <2>2, FileApart
<1>2. \A E \in G \cup {FreeMapSector} :
         /\ E \in F /\ d[E].numSectors = 1 /\ d[E].fileType = 1 /\ ContentOf(d, E) \in Sector
  BY DEF Shape, DirOK, MapOK, OneSector
<1>3. \A E \in G \cup {FreeMapSector} : ContentOf(e, E) = ContentOf(d, E)
  BY <1>1, <1>2 DEF ContentOf, SamePlaces
<1>4. ASSUME NEW E \in G
      PROVE  DirOK(e, E) /\ TableOf(e, E) = IF E = D THEN tab ELSE TableOf(d, E)
  <2>1. CASE E = D
    <3>1. e[ContentOf(e, E)].kind = "dir" /\ TableOf(e, E) = tab
      BY <1>3, <2>1 DEF NewTable, DirFile, TableOf
    <3>2. TableOK(tab)
      BY DEF NewTable
    <3> QED BY <1>1, <1>2, <1>3, <2>1, <3>1, <3>2 DEF DirOK, OneSector
  <2>2. CASE E # D
    <3>1. e[ContentOf(e, E)] = d[ContentOf(d, E)]
      BY <1>0, <1>2, <1>3, <2>2 DEF NewTable, OnlyAt
    <3>2. DirOK(d, E)
      BY DEF Shape
    <3> QED BY <1>1, <1>2, <1>3, <2>2, <3>1, <3>2 DEF DirOK, OneSector, TableOf
  <2> QED BY <2>1, <2>2
<1>5. MapOK(e) /\ MarkedOn(e) = MarkedOn(d)
  <2>1. FreeMapSector # D /\ MapOK(d) /\ FreeMapSector \in F
    BY DEF Shape
  <2>2. e[ContentOf(e, FreeMapSector)] = d[ContentOf(d, FreeMapSector)]
    BY <1>0, <1>2, <1>3, <2>1 DEF NewTable, OnlyAt
  <2> QED BY <1>1, <1>2, <1>3, <2>1, <2>2 DEF MapOK, OneSector, MarkedOn
<1> QED BY <1>1, <1>3, <1>4, <1>5 DEF OneTable

\* Entries of a directory are cleared: a part of the files is left.
Fewer(x, y) == InUse(y) \subseteq InUse(x) /\ \A i \in InUse(y) : y[i] = x[i]

\* A table with fewer entries in use leaves a tree of fewer files.
LEMMA Unlinking ==
    ASSUME NEW d, NEW e, NEW F, NEW G, Shape(d, F, G), NamesOK(d),
           NEW D \in G, NEW tab, NewTable(d, e, D, tab), Fewer(TableOf(d, D), tab),
           NEW F2 \in SUBSET F, NEW G2 \in SUBSET G, G2 \subseteq F2,
           FreeMapSector \in F2, DirectorySector \in G2,
           \A E \in G2 : \A i \in InUse(TableOf(e, E)) :
              /\ TableOf(e, E)[i].sector \in F2
              /\ TableOf(e, E)[i].sector \in G => TableOf(e, E)[i].sector \in G2
    PROVE  /\ Shape(e, F2, G2)
           /\ NamesOK(e)
<1>1. /\ \A f \in F : e[f] = d[f] /\ HeaderOK(e, f) /\ OwnedBy(e, f) = OwnedBy(d, f)
      /\ \A E \in G : DirOK(e, E) /\ TableOf(e, E) = IF E = D THEN tab ELSE TableOf(d, E)
      /\ MapOK(e)
  BY TableWritten DEF OneTable
<1>2. \A E \in G : Fewer(TableOf(d, E), TableOf(e, E))
  BY <1>1 DEF Fewer
<1>3. \A E \in G : \A i \in InUse(TableOf(e, E)) :
         i \in InUse(TableOf(d, E)) /\ TableOf(e, E)[i] = TableOf(d, E)[i]
  BY <1>2 DEF Fewer
<1>4. LinksOK(e, F2, G2)
  <2> SUFFICES ASSUME NEW E \in G2, NEW i \in InUse(TableOf(e, E)), NEW s,
                      s = TableOf(e, E)[i].sector
               PROVE  /\ s \in F2 \ {FreeMapSector, DirectorySector}
                      /\ e[s].fileType = 1 => E = DirectorySector /\ s \in G2
    BY DEF LinksOK
  <2>1. E \in G /\ i \in InUse(TableOf(d, E)) /\ s = TableOf(d, E)[i].sector /\ s \in F2
    BY <1>3
  <2>2. /\ s \in F \ {FreeMapSector, DirectorySector}
        /\ d[s].fileType = 1 => E = DirectorySector /\ s \in G
    BY <2>1 DEF Shape, LinksOK
  <2> QED BY <1>1, <2>1, <2>2
<1>5. LinkedOnce(e, G2)
  BY <1>3 DEF LinkedOnce, Shape
<1>6. NoneShared(e, F2)
  BY <1>1 DEF NoneShared, Shape
<1>7. DOMAIN e = Sector
  BY DEF NewTable
<1>8. Shape(e, F2, G2)
  BY <1>1, <1>4, <1>5, <1>6, <1>7 DEF Shape
<1>9. NamesOK(e)
  <2> SUFFICES ASSUME NEW i \in InUse(TableOf(e, DirectorySector)), NEW y,
                      y = TableOf(e, DirectorySector)[i]
               PROVE  /\ y.name \in {Lost} \cup DirName \cup TopName
                      /\ y.name \in DirName => e[y.sector].fileType = 1
                      /\ e[y.sector].fileType = 1 /\ y.name # Lost => NamedOnce(TableOf(e, y.sector))
    BY DEF NamesOK, RootNames
  <2>1. /\ DirectorySector \in G
        /\ i \in InUse(TableOf(d, DirectorySector)) /\ y = TableOf(d, DirectorySector)[i]
    BY <1>3
  <2>2. /\ y.name \in {Lost} \cup DirName \cup TopName
        /\ y.name \in DirName => d[y.sector].fileType = 1
        /\ d[y.sector].fileType = 1 /\ y.name # Lost => NamedOnce(TableOf(d, y.sector))
    BY <2>1 DEF NamesOK, RootNames
  <2>3. y.sector \in F /\ (d[y.sector].fileType = 1 => y.sector \in G)
    BY <2>1 DEF Shape, LinksOK
  <2>4. ASSUME NEW E \in G, NamedOnce(TableOf(d, E)) PROVE NamedOnce(TableOf(e, E))
    BY <1>3, <2>4 DEF NamedOnce
  <2> QED BY <1>1, <2>2, <2>3, <2>4
<1> QED BY <1>8, <1>9

\* A new file is entered into a directory.
NameFree(x, n) == \A i \in InUse(x) : x[i].name # n
Besides(x, y, j) == \A i \in InUse(y) : i # j => i \in InUse(x) /\ y[i] = x[i]
Named(d, D, n, type) ==
    /\ n # Lost
    /\ D = DirectorySector => n \in DirName \cup TopName /\ (n \in DirName => type = 1)
    /\ D # DirectorySector => NameFree(TableOf(d, D), n)

\* A new name keeps names apart.
LEMMA NamedMore ==
    ASSUME NEW x, NEW y, NEW j, NEW n, NamedOnce(x), n # Lost, y[j].name = n,
           NameFree(x, n), Besides(x, y, j)
    PROVE  NamedOnce(y)
  BY DEF NamedOnce, NameFree, Besides

\* An entry for a new file makes a tree with one file more.
LEMMA Linking ==
    ASSUME NEW d, NEW e, NEW F, NEW G, Shape(d, F, G), NamesOK(d),
           NEW D \in G, NEW h, NEW n, NEW j \in 1..NumDirEntries,
           ~TableOf(d, D)[j].inUse,
           NewTable(d, e, D, [TableOf(d, D) EXCEPT ![j] = Entry(TRUE, n, h)]),
           HeaderOK(d, h), h \notin F, \A f \in F : OwnedBy(d, f) \cap OwnedBy(d, h) = {},
           d[h].fileType = 1 =>
              D = DirectorySector /\ DirOK(d, h) /\ InUse(TableOf(d, h)) = {},
           Named(d, D, n, d[h].fileType)
    PROVE  \E G2 : /\ Shape(e, F \cup {h}, G2)
                   /\ NamesOK(e)
                   /\ MarkedOn(e) = MarkedOn(d)
                   /\ \A f \in F \cup {h} : OwnedBy(e, f) = OwnedBy(d, f)
                   /\ \A E \in G \cup {FreeMapSector} : ContentOf(e, E) = ContentOf(d, E)
<1> PICK c : c = ContentOf(d, D)
  OBVIOUS
<1>20. c \in OwnedBy(d, D) /\ D \in F
  BY ContentAlone
<1>2. c \notin OwnedBy(d, h) /\ OnlyAt(d, e, c)
  BY <1>20 DEF NewTable
<1>3. c # h /\ c \notin Tables(d[h])
  BY <1>2, Owns
<1>4. e[h] = d[h] /\ HeaderOK(e, h) /\ OwnedBy(e, h) = OwnedBy(d, h) /\ SamePlaces(d, e, h)
  BY <1>2, <1>3, FileApart
<1> PICK x : x = TableOf(d, D)
  OBVIOUS
<1> PICK tab : tab = [x EXCEPT ![j] = Entry(TRUE, n, h)]
  OBVIOUS
<1>0. NewTable(d, e, D, tab)
  OBVIOUS
<1>1. /\ \A f \in F : e[f] = d[f] /\ HeaderOK(e, f) /\ OwnedBy(e, f) = OwnedBy(d, f)
      /\ \A E \in G \cup {FreeMapSector} : ContentOf(e, E) = ContentOf(d, E)
      /\ \A E \in G : DirOK(e, E) /\ TableOf(e, E) = IF E = D THEN tab ELSE TableOf(d, E)
      /\ MapOK(e) /\ MarkedOn(e) = MarkedOn(d)
  <2>1. OneTable(d, e, F, G, D, tab)
    BY <1>0, TableWritten
  <2> QED BY <2>1 DEF OneTable
<1> PICK G2 : G2 = G \cup {g \in {h} : d[g].fileType = 1}
  OBVIOUS
<1>5. ASSUME d[h].fileType = 1
      PROVE  DirOK(e, h) /\ InUse(TableOf(e, h)) = {}
  <2>1. DirOK(d, h) /\ d[h].numSectors = 1 /\ ContentOf(d, h) \in Sector
    BY <1>5 DEF DirOK, OneSector
  <2>2. SamePlaces(d, e, h)
    BY <1>4
  <2>3. ContentOf(e, h) = ContentOf(d, h)
    BY <2>1, <2>2 DEF ContentOf, SamePlaces
  <2>4. ContentOf(d, h) # c
    <3>1. ContentOf(d, h) # NoSector
      BY <2>1, SizesAssumption DEF NoSector, Sector
    <3>2. ContentOf(d, h) \in OwnedBy(d, h)
      BY <2>1, <3>1, Owns DEF ContentOf
    <3> QED BY <1>2, <3>2
  <2>5. e[ContentOf(e, h)] = d[ContentOf(d, h)]
    BY <1>2, <2>1, <2>3, <2>4 DEF OnlyAt
  <2> QED BY <1>4, <1>5, <2>1, <2>3, <2>5 DEF DirOK, OneSector, TableOf
<1>6. ASSUME NEW i \in InUse(tab), i # j PROVE i \in InUse(x) /\ tab[i] = x[i]
  BY <1>6 DEF InUse
<1>7. TableOK(x)
  BY DEF Shape, DirOK
<1>8. tab[j].sector = h /\ tab[j].name = n
  BY <1>7 DEF TableOK, Entry
<1>9. \A E \in G2 : E \in G \/ (E = h /\ InUse(TableOf(e, E)) = {})
  BY <1>5
\* An entry in use is the new one, or was there before.
<1>10. ASSUME NEW E \in G2, NEW i \in InUse(TableOf(e, E))
       PROVE  /\ E \in G
              /\ \/ E = D /\ i = j /\ TableOf(e, E)[i].sector = h
                 \/ i \in InUse(TableOf(d, E)) /\ TableOf(e, E)[i] = TableOf(d, E)[i]
                    /\ TableOf(e, E)[i].sector \in F
  <2>1. E \in G
    BY <1>9
  <2>2. CASE E = D /\ i = j
    BY <1>1, <1>8, <2>1, <2>2
  <2>3. CASE ~(E = D /\ i = j)
    <3>1. i \in InUse(TableOf(d, E)) /\ TableOf(e, E)[i] = TableOf(d, E)[i]
      BY <1>1, <1>6, <2>1, <2>3
    <3>2. TableOf(d, E)[i].sector \in F
      BY <2>1, <3>1 DEF Shape, LinksOK
    <3> QED BY <2>1, <3>1, <3>2
  <2> QED BY <2>1, <2>2, <2>3
<1>11. LinksOK(e, F \cup {h}, G2)
  <2> SUFFICES ASSUME NEW E \in G2, NEW i \in InUse(TableOf(e, E)), NEW s,
                      s = TableOf(e, E)[i].sector
               PROVE  /\ s \in (F \cup {h}) \ {FreeMapSector, DirectorySector}
                      /\ e[s].fileType = 1 => E = DirectorySector /\ s \in G2
    BY DEF LinksOK
  <2>1. CASE E = D /\ i = j /\ s = h
    <3>1. FreeMapSector \in F /\ DirectorySector \in F
      BY DEF Shape
    <3> QED BY <1>4, <2>1, <3>1
  <2>2. CASE i \in InUse(TableOf(d, E)) /\ s = TableOf(d, E)[i].sector /\ E \in G
    <3>1. /\ s \in F \ {FreeMapSector, DirectorySector}
          /\ d[s].fileType = 1 => E = DirectorySector /\ s \in G
      BY <2>2 DEF Shape, LinksOK
    <3> QED BY <1>1, <3>1
  <2> QED BY <1>10, <2>1, <2>2
<1>12. LinkedOnce(e, G2)
  <2> SUFFICES ASSUME NEW E1 \in G2, NEW E2 \in G2,
                      NEW i1 \in InUse(TableOf(e, E1)), NEW i2 \in InUse(TableOf(e, E2)),
                      TableOf(e, E1)[i1].sector = TableOf(e, E2)[i2].sector
               PROVE  E1 = E2 /\ i1 = i2
    BY DEF LinkedOnce
  <2>1. LinkedOnce(d, G)
    BY DEF Shape
  <2> QED BY <1>10, <2>1 DEF LinkedOnce
<1>13. NoneShared(e, F \cup {h})
  BY <1>1, <1>4 DEF NoneShared, Shape
<1>14. DOMAIN e = Sector
  BY DEF NewTable
<1>15. \A E \in G2 : DirOK(e, E)
  BY <1>1, <1>5
<1>16. /\ FreeMapSector \in F /\ FreeMapSector \notin G2
       /\ DirectorySector \in G2 /\ G2 \subseteq F \cup {h}
  BY DEF Shape
<1>17. Shape(e, F \cup {h}, G2)
  BY <1>1, <1>4, <1>11, <1>12, <1>13, <1>14, <1>15, <1>16 DEF Shape
<1>18. NamesOK(e)
  <2> SUFFICES ASSUME NEW i \in InUse(TableOf(e, DirectorySector)), NEW y,
                      y = TableOf(e, DirectorySector)[i]
               PROVE  /\ y.name \in {Lost} \cup DirName \cup TopName
                      /\ y.name \in DirName => e[y.sector].fileType = 1
                      /\ e[y.sector].fileType = 1 /\ y.name # Lost => NamedOnce(TableOf(e, y.sector))
    BY DEF NamesOK, RootNames
  <2>1. CASE D = DirectorySector /\ i = j
    <3>1. y.sector = h /\ y.name = n
      BY <1>1, <1>8, <2>1
    <3>2. InUse(TableOf(e, h)) = {} => NamedOnce(TableOf(e, h))
      BY DEF NamedOnce
    <3> QED BY <1>4, <1>5, <2>1, <3>1, <3>2 DEF Named
  <2>2. CASE ~(D = DirectorySector /\ i = j)
    <3>0. DirectorySector \in G
      BY DEF Shape
    <3>1. i \in InUse(TableOf(d, DirectorySector)) /\ y = TableOf(d, DirectorySector)[i]
      BY <1>1, <1>6, <2>2, <3>0
    <3>2. /\ y.name \in {Lost} \cup DirName \cup TopName
          /\ y.name \in DirName => d[y.sector].fileType = 1
          /\ d[y.sector].fileType = 1 /\ y.name # Lost => NamedOnce(TableOf(d, y.sector))
      BY <3>1 DEF NamesOK, RootNames
    <3>3. /\ y.sector \in F \ {FreeMapSector, DirectorySector}
          /\ d[y.sector].fileType = 1 => y.sector \in G
      BY <3>0, <3>1 DEF Shape, LinksOK
    <3>4. ASSUME y.sector \in G, NamedOnce(TableOf(d, y.sector))
          PROVE  NamedOnce(TableOf(e, y.sector))
      <4>1. CASE y.sector # D
        BY <1>1, <3>4, <4>1
      <4>2. CASE y.sector = D
        <5>1. NamedOnce(x) /\ n # Lost /\ NameFree(x, n)
          BY <3>3, <3>4, <4>2 DEF Named
        <5>2. NamedOnce(tab)
          <6>1. Besides(x, tab, j)
            BY <1>6 DEF Besides
          <6> QED BY <1>8, <5>1, <6>1, NamedMore
        <5> QED BY <1>1, <4>2, <5>2
      <4> QED BY <4>1, <4>2
    <3> QED BY <1>1, <3>2, <3>3, <3>4
  <2> QED BY <2>1, <2>2
<1> QED BY <1>1, <1>4, <1>17, <1>18

-----------------------------------------------------------------------------
(***************************************************************************)
(* FileHeader::Allocate.                                                   *)
(***************************************************************************)
\* What BitMap::Find returns, call after call: clear sectors, none of them
\* twice, or -1.
FreshSeq(f, n, map) ==
    /\ f \in Seq(Sector \cup {NoSector})
    /\ Len(f) = n
    /\ \A i \in 1..n : f[i] # NoSector => f[i] \in Sector \ map
    /\ \A i, j \in 1..n : f[i] = f[j] /\ f[i] # NoSector => i = j

\* The i-th clear sector: there is one sector with i - 1 clear ones below it.
LEMMA FindRank ==
    ASSUME NEW C \in SUBSET Sector, NEW i \in 1..Cardinality(C)
    PROVE  \E s \in C : Cardinality({r \in C : r < s}) = i - 1
<1>0. NumSectors \in Nat /\ Sector = 0..NumSectors - 1
  BY SizesAssumption DEF Sector
<1>1. IsFiniteSet(Sector)
  BY <1>0, FS_Interval
<1>2. IsFiniteSet(C)
  BY <1>1, FS_Subset
<1> PICK m : m = Cardinality(C)
  OBVIOUS
<1>3. m \in Nat
  BY <1>2, FS_CardinalityType
<1> PICK R : R = [s \in C |-> Cardinality({r \in C : r < s})]
  OBVIOUS
<1>4. \A s \in C : s \in Int
  BY <1>0
<1>5. ASSUME NEW s \in C
      PROVE  /\ IsFiniteSet({r \in C : r < s}) /\ R[s] = Cardinality({r \in C : r < s})
             /\ R[s] \in 0..m-1
  <2> PICK L : L = {r \in C : r < s}
    OBVIOUS
  <2>1. L \in SUBSET C /\ s \notin L
    BY <1>4
  <2>2. IsFiniteSet(L) /\ Cardinality(L) <= m /\ Cardinality(L) # m /\ Cardinality(L) \in Nat
    BY <1>2, <2>1, FS_Subset, FS_CardinalityType
  <2> QED BY <1>3, <2>2
<1>6. ASSUME NEW s \in C, NEW t \in C, s < t PROVE R[s] # R[t]
  <2> PICK K : K = {r \in C : r < s}
    OBVIOUS
  <2> PICK L : L = {r \in C : r < t}
    OBVIOUS
  <2>1. K \in SUBSET L /\ s \in L /\ s \notin K
    BY <1>4, <1>6
  <2>2. IsFiniteSet(L) /\ R[s] = Cardinality(K) /\ R[t] = Cardinality(L)
    BY <1>5
  <2> QED BY <2>1, <2>2, FS_Subset
<1>7. \A s, t \in C : R[s] = R[t] => s = t
  BY <1>4, <1>6
<1>8. R \in Injection(C, 0..m-1)
  BY <1>5, <1>7 DEF Injection, IsInjective
<1>9. IsFiniteSet(0..m-1) /\ Cardinality(0..m-1) = m
  <2>1. 0 \in Int /\ m - 1 \in Int /\ (0 > m - 1 => m = 0) /\ m - 1 - 0 + 1 = m
    BY <1>3
  <2>2. /\ IsFiniteSet(0..m-1)
        /\ Cardinality(0..m-1) = IF 0 > m - 1 THEN 0 ELSE m - 1 - 0 + 1
    BY <2>1, FS_Interval
  <2> QED BY <2>1, <2>2
<1>10. R \in Surjection(C, 0..m-1)
  BY <1>8, <1>9, FS_Injection
<1>11. PICK s \in C : R[s] = i - 1
  BY <1>3, <1>10 DEF Surjection
<1> QED BY <1>5, <1>11

\* BitMap::Find returns clear sectors, each once, or -1.
LEMMA FindFresh ==
    ASSUME NEW map, NEW n \in Nat
    PROVE  FreshSeq(FindN(map, n), n, map)
<1> PICK C : C = ClearBits(map)
  OBVIOUS
<1> PICK f : f = FindN(map, n)
  OBVIOUS
<1>0. C \in SUBSET Sector /\ C = Sector \ map
  BY DEF ClearBits
<1>1. Cardinality(C) \in Nat
  <2>1. IsFiniteSet(Sector)
    BY SizesAssumption, FS_Interval DEF Sector
  <2> QED BY <1>0, <2>1, FS_Subset, FS_CardinalityType
<1>2. ASSUME NEW i \in 1..n, ~(i > Cardinality(C))
      PROVE  f[i] \in C /\ Cardinality({r \in C : r < f[i]}) = i - 1
  <2>1. i \in 1..Cardinality(C)
    BY <1>1, <1>2
  <2>2. \E s \in C : Cardinality({r \in C : r < s}) = i - 1
    BY <1>0, <2>1, FindRank
  <2>3. f[i] = CHOOSE s \in C : Cardinality({r \in C : r < s}) = i - 1
    BY <1>2 DEF FindN, NumClear
  <2> QED BY <2>2, <2>3
<1>3. ASSUME NEW i \in 1..n, i > Cardinality(C) PROVE f[i] = NoSector
  BY <1>3 DEF FindN, NumClear
<1>4. \A i \in 1..n : f[i] \in Sector \cup {NoSector} /\ (f[i] # NoSector => f[i] \in Sector \ map)
  BY <1>0, <1>2, <1>3
<1>5. f \in [1..n -> Sector \cup {NoSector}]
  <2>1. DOMAIN f = 1..n /\ f = [i \in 1..n |-> f[i]]
    BY DEF FindN
  <2> QED BY <1>4, <2>1
<1>6. f \in Seq(Sector \cup {NoSector}) /\ Len(f) = n
  BY <1>5, IsASeq, LenProperties
<1>7. ASSUME NEW i \in 1..n, NEW j \in 1..n, f[i] = f[j], f[i] # NoSector PROVE i = j
  <2>1. ~(i > Cardinality(C)) /\ ~(j > Cardinality(C))
    BY <1>3, <1>7
  <2>2. Cardinality({r \in C : r < f[i]}) = i - 1 /\ Cardinality({r \in C : r < f[j]}) = j - 1
    BY <1>2, <2>1
  <2>3. i - 1 = j - 1
    BY <1>7, <2>2
  <2> QED BY <2>3
<1> QED BY <1>4, <1>6, <1>7 DEF FreshSeq

\* Where Allocate puts the index tables and the data sectors in what Find has
\* returned.
LEMMA TablePlace ==
    ASSUME NEW n \in Nat, NEW i \in 1..NumTables(n)
    PROVE  /\ NumTables(n) \in Nat
           /\ Block(i) + 1 \in 1..n + NumTables(n)
           /\ Block(i + 1) = Block(i) + IndexSize + 1
<1> PICK b : b = IndexSize
  OBVIOUS
<1>1. b \in Nat /\ b > 0
  BY SizesAssumption
<1> PICK p \in Int : p = (n + b - 1) \div b
  BY <1>1, DivMod
<1> PICK u \in 0..b-1 : u = (n + b - 1) % b
  BY <1>1, DivMod
<1>2. n + b - 1 = b * p + u /\ p = NumTables(n)
  BY <1>1, DivMod DEF NumTables, divRoundUp
<1>3. i \in Int /\ i >= 1 /\ i <= p
  BY <1>2
<1> PICK z \in Int : z = i - 1
  BY <1>3
<1>4. z < p /\ z >= 0
  BY <1>3
<1>5. b * (z + 1) = b * z + b /\ b * z \in Int /\ b * p \in Int /\ b * z >= 0
  BY <1>1, <1>4
<1>6. b * z + b <= b * p
  <2> PICK y \in Int : y = p - (z + 1)
    OBVIOUS
  <2>1. y >= 0 /\ b * y >= 0 /\ b * y \in Int
    BY <1>1, <1>4
  <2>2. b * p = b * (z + 1) + b * y
    BY <1>1
  <2> PICK P, Z, Y : P = b * p /\ Z = b * z /\ Y = b * y
    OBVIOUS
  <2>3. P = Z + b + Y /\ Y >= 0 /\ Y \in Int /\ P \in Int /\ Z \in Int
    BY <1>5, <2>1, <2>2
  <2>4. Z + b <= P
    BY <1>1, <2>3
  <2> QED BY <2>4
<1>7. z * (b + 1) = b * z + z /\ i * (b + 1) = b * z + b + z + 1
  BY <1>1, <1>5
<1>8. Block(i) = b * z + z /\ Block(i + 1) = b * z + b + z + 1
  BY <1>3, <1>7 DEF Block
<1>9. b * z + z + 1 <= n + p
  BY <1>1, <1>2, <1>4, <1>5, <1>6
<1> QED BY <1>1, <1>2, <1>3, <1>4, <1>5, <1>8, <1>9

\* Where Allocate puts the i-th data sector.
LEMMA DataPlace ==
    ASSUME NEW n \in Nat, NEW k \in 1..n, NEW i, NEW j,
           i = ((k - 1) \div IndexSize) + 1, j = ((k - 1) % IndexSize) + 1
    PROVE  /\ i \in 1..NumTables(n) /\ j \in 1..IndexSize
           /\ Block(i) + 1 + j = k + i
           /\ k + i \in 1..n + NumTables(n)
<1> PICK b : b = IndexSize
  OBVIOUS
<1>1. b \in Nat /\ b > 0
  BY SizesAssumption
<1>2. i \in 1..NumTables(n) /\ j \in 1..b
  BY TableIndex
<1>3. NumTables(n) \in Nat
  BY <1>2, TablePlace
<1>4. k - 1 = b * (i - 1) + (j - 1)
  <2>1. k - 1 \in Int /\ k - 1 = b * ((k - 1) \div b) + ((k - 1) % b)
    BY <1>1, DivMod
  <2> QED BY <1>1, <2>1
<1>5. (i - 1) * (b + 1) = b * (i - 1) + (i - 1) /\ b * (i - 1) \in Int
  BY <1>1, <1>2, <1>3
<1>6. Block(i) + 1 + j = k + i
  BY <1>1, <1>2, <1>3, <1>4, <1>5 DEF Block
<1> QED BY <1>2, <1>3, <1>6

\* No place is that of a table and of data.
LEMMA PlacesDiffer ==
    ASSUME NEW i \in Nat, NEW l \in Nat, NEW j \in 1..IndexSize
    PROVE  Block(l) + 1 # Block(i) + 1 + j
<1> PICK b : b = IndexSize + 1
  OBVIOUS
<1>1. b \in Int /\ b > 0 /\ j \in 0..b-1 /\ 0 \in 0..b-1 /\ j # 0
  BY SizesAssumption
<1>2. (b * (i - 1) + j) % b = j /\ (b * (l - 1) + 0) % b = 0
  BY <1>1, DivModUnique
<1>3. Block(i) = b * (i - 1) /\ Block(l) = b * (l - 1)
  BY <1>1 DEF Block
<1>4. b * (i - 1) \in Int /\ b * (l - 1) \in Int
  BY <1>1
<1> QED BY <1>1, <1>2, <1>3, <1>4

\* What Allocate builds from f, the sectors that Find has returned.
SizeOf(bytes) == divRoundUp(bytes, SectorSize)
PrimaryOf(f, n) == [i \in 1..NumTables(n) |-> f[Block(i) + 1]]
NewHeader(f, bytes, type, visits) ==
    Header(type, bytes, SizeOf(bytes), PrimaryOf(f, SizeOf(bytes)), visits)
NewTables(f, n) ==
    [i \in 1..NumTables(n) |-> Write(f[Block(i) + 1], IndexTable(TableEntries(f, i)))]

\* What FileHeader::Allocate returns, in terms of the sectors it finds.
LEMMA AllocateIs ==
    ASSUME NEW map, NEW bytes, NEW type, NEW visits, NEW a, NEW f,
           a = Allocate(map, bytes, type, visits),
           f = FindN(map, SizeOf(bytes) + NumTables(SizeOf(bytes)))
    PROVE  /\ a.map = Mark(map, f)
           /\ a.sectors = Mark({}, f)
           /\ a.hdr = NewHeader(f, bytes, type, visits)
           /\ a.writes = NewTables(f, SizeOf(bytes))
<1>1. a.map = Mark(map, f) /\ a.sectors = Mark({}, f)
  BY DEF Allocate, SizeOf
<1>2. a.hdr = NewHeader(f, bytes, type, visits)
  BY DEF Allocate, SizeOf, NewHeader, PrimaryOf
<1>3. a.writes = NewTables(f, SizeOf(bytes))
  BY DEF Allocate, SizeOf, NewTables
<1> QED BY <1>1, <1>2, <1>3

\* Rounding up gives a natural number.
LEMMA RoundUpType ==
    ASSUME NEW n \in Nat, NEW b \in Nat \ {0}
    PROVE  divRoundUp(n, b) \in Nat
<1> PICK q \in Int : q = (n + b - 1) \div b
  BY DivMod
<1> PICK r \in 0..b-1 : r = (n + b - 1) % b
  BY DivMod
<1>1. n + b - 1 = b * q + r
  BY DivMod
<1>2. ~(q < 0)
  <2>1. SUFFICES ASSUME q < 0 PROVE FALSE
    OBVIOUS
  <2>2. b * (q + 1) <= 0 /\ b * (q + 1) = b * q + b /\ b * q \in Int
    BY <2>1
  <2> QED BY <1>1, <2>2
<1> QED BY <1>2 DEF divRoundUp

\* A file has a natural number of sectors and of index tables.
LEMMA SizeType ==
    ASSUME NEW bytes \in Nat
    PROVE  SizeOf(bytes) \in Nat /\ NumTables(SizeOf(bytes)) \in Nat
<1>1. SizeOf(bytes) \in Nat
  BY RoundUpType, SizesAssumption DEF SizeOf
<1> QED BY <1>1, RoundUpType, SizesAssumption DEF NumTables

\* An element of a subsequence.
LEMMA SubSeqAt ==
    ASSUME NEW S, NEW f \in Seq(S), NEW a \in Int, NEW b \in Int, 1 <= a, b <= Len(f),
           NEW j \in 1..b - a + 1
    PROVE  SubSeq(f, a, b)[j] = f[a + j - 1]
<1>1. \A l \in a..b : f[l] \in S
  OBVIOUS
<1>2. \A l \in 1..b - a + 1 : SubSeq(f, a, b)[l] = f[a + l - 1]
  BY <1>1, SubSeqProperties
<1> QED BY <1>2

\* The entries of an index table.
LEMMA TableEntryAt ==
    ASSUME NEW S, NEW f \in Seq(S), NEW i, NEW j \in 1..IndexSize, Block(i) \in Nat,
           Block(i + 1) = Block(i) + IndexSize + 1, Block(i) + 1 + j <= Len(f)
    PROVE  TableEntries(f, i)[j] = f[Block(i) + 1 + j]
<1> PICK y \in Nat : y = Block(i)
  OBVIOUS
<1> PICK L \in Nat : L = Len(f)
  OBVIOUS
<1> PICK b \in Nat : b = IndexSize
  BY SizesAssumption
<1>1. j \in Int /\ 1 <= j /\ j <= b /\ y + 1 + j <= L
  OBVIOUS
<1>2. PICK z \in Int : /\ z = IF L < y + b + 1 THEN L ELSE y + b + 1
                       /\ z <= L /\ y + 1 + j <= z
  BY <1>1
<1>6. PICK a \in Int : a = y + 2
  OBVIOUS
<1>3. 1 <= a /\ j \in 1..z - a + 1 /\ a + j - 1 = y + 1 + j
  <2>1. y + 1 + j <= z
    BY <1>2
  <2>2. 1 <= a
    BY <1>6
  <2>3. z - a + 1 \in Int /\ j <= z - a + 1
    BY <1>1, <1>6, <2>1, SMTT(30)
  <2>4. a + j - 1 = y + 1 + j
    BY <1>1, <1>6
  <2>5. j \in 1..z - a + 1
    BY <1>1, <2>3
  <2> QED BY <2>2, <2>4, <2>5
<1>4. SubSeq(f, a, z)[j] = f[a + j - 1]
  <2>1. z <= Len(f)
    BY <1>2
  <2> QED BY <1>3, <2>1, SubSeqAt
<1>5. TableEntries(f, i) = SubSeq(f, a, z)
  BY <1>2, <1>6 DEF TableEntries
<1> QED BY <1>3, <1>4, <1>5

\* The entry of an index table for the i-th data sector.
LEMMA TableEntry ==
    ASSUME NEW n \in Nat, NEW map, NEW f, FreshSeq(f, n + NumTables(n), map),
           NEW k \in 1..n, NEW i, NEW j,
           i = ((k - 1) \div IndexSize) + 1, j = ((k - 1) % IndexSize) + 1
    PROVE  TableEntries(f, i)[j] = f[k + i]
<1>1. /\ i \in 1..NumTables(n) /\ j \in 1..IndexSize
      /\ Block(i) + 1 + j = k + i
      /\ k + i \in 1..n + NumTables(n)
  BY DataPlace
<1>2. /\ NumTables(n) \in Nat
      /\ Block(i) + 1 \in 1..n + NumTables(n)
      /\ Block(i + 1) = Block(i) + IndexSize + 1
  BY <1>1, TablePlace
<1>3. Len(f) = n + NumTables(n) /\ f \in Seq(Sector \cup {NoSector})
  BY DEF FreshSeq
<1>4. Block(i) \in Int
  BY <1>1, <1>2, SizesAssumption DEF Block
<1>5. Block(i) \in Nat
  BY <1>2, <1>4
<1>6. Block(i) + 1 + j <= Len(f)
  BY <1>1, <1>2, <1>3
<1>8. TableEntries(f, i)[j] = f[Block(i) + 1 + j]
  <2>1. j \in 1..IndexSize /\ Block(i + 1) = Block(i) + IndexSize + 1
    BY <1>1, <1>2
  <2>2. f \in Seq(Sector \cup {NoSector})
    BY <1>3
  <2> QED BY <1>5, <1>6, <2>1, <2>2, TableEntryAt
<1> QED BY <1>1, <1>8

\* The index tables of a new file are on disk e; where its data sectors are.
TablesAt(e, f, n) ==
    \A i \in 1..NumTables(n) :
        /\ f[Block(i) + 1] \in Sector
        /\ e[f[Block(i) + 1]] = IndexTable(TableEntries(f, i))
Placed(e, h, f, n) ==
    \A k \in 1..n : DataSector(e, e[h], k) = f[k + ((k - 1) \div IndexSize) + 1]
HasHeader(e, h, f, bytes, type, visits) == e[h] = NewHeader(f, bytes, type, visits)

\* Division keeps the order.
LEMMA DivMonotone ==
    ASSUME NEW a \in Int, NEW c \in Int, a <= c, NEW b \in Int, b > 0
    PROVE  a \div b \in Int /\ c \div b \in Int /\ a \div b <= c \div b
<1> PICK q : q = a \div b
  OBVIOUS
<1> PICK p : p = c \div b
  OBVIOUS
<1>1. /\ q \in Int /\ p \in Int /\ a % b \in 0..b-1 /\ c % b \in 0..b-1
      /\ a = b * q + (a % b) /\ c = b * p + (c % b)
  BY DivMod
<1>2. /\ b * q \in Int /\ b * p \in Int /\ b * (p + 1) = b * p + b * 1
      /\ b * (p + 1) < b * q <=> p + 1 < q
  BY <1>1, Multiples
<1>3. b * (p + 1) > a
  BY <1>1, <1>2
<1>4. ~(p + 1 <= q)
  <2> SUFFICES ASSUME p + 1 <= q PROVE FALSE
    OBVIOUS
  <2>1. CASE p + 1 = q
    BY <1>1, <1>2, <1>3, <2>1
  <2>2. CASE p + 1 < q
    BY <1>1, <1>2, <1>3, <2>2
  <2> QED BY <1>1, <2>1, <2>2
<1> QED BY <1>1, <1>4

\* A data sector's place in the sequence of the sectors taken tells its index.
LEMMA CountedOnce ==
    ASSUME NEW k \in Int, NEW l \in Int, NEW i, NEW j,
           i = ((k - 1) \div IndexSize) + 1, j = ((l - 1) \div IndexSize) + 1, k + i = l + j
    PROVE  k = l
<1>1. IndexSize \in Int /\ IndexSize > 0
  BY SizesAssumption
<1>2. k < l => i \in Int /\ j \in Int /\ i <= j
  BY <1>1, DivMonotone
<1>3. l < k => i \in Int /\ j \in Int /\ j <= i
  BY <1>1, DivMonotone
<1> QED BY <1>2, <1>3

\* A file whose header and index tables are on the disk is well-formed and
\* owns only sectors that were clear.
LEMMA Allocated ==
    ASSUME NEW bytes \in Nat, NEW type \in {0, 1}, NEW visits, NEW map,
           NEW h \in Sector, h \in map, NEW n, n = SizeOf(bytes),
           NEW f, FreshSeq(f, n + NumTables(n), map),
           NEW e, HasHeader(e, h, f, bytes, type, visits), TablesAt(e, f, n)
    PROVE  /\ HeaderOK(e, h)
           /\ OwnedBy(e, h) \subseteq {h} \cup Mark({}, f)
           /\ Placed(e, h, f, n)
<1>0. NoSector \notin Sector
  BY SizesAssumption DEF NoSector, Sector
<1>1. n \in Nat /\ NumTables(n) \in Nat
  BY SizeType
<1>2. /\ Fields(e[h]) /\ e[h].numSectors = n
      /\ e[h].primaryIndexTable = PrimaryOf(f, n)
  BY <1>1 DEF HasHeader, NewHeader, Header, Fields, HeaderField, SizeOf
<1>3. \A i \in 1..NumTables(n) : e[h].primaryIndexTable[i] = f[Block(i) + 1]
  BY <1>2 DEF PrimaryOf
<1>4. ASSUME NEW k \in 1..n, NEW i, NEW j,
             i = ((k - 1) \div IndexSize) + 1, j = ((k - 1) % IndexSize) + 1
      PROVE  /\ DataSector(e, e[h], k) = f[k + i]
             /\ k + i \in 1..n + NumTables(n)
             /\ \A l \in 1..NumTables(n) : Block(l) + 1 # k + i
  <2>1. /\ i \in 1..NumTables(n) /\ j \in 1..IndexSize
        /\ Block(i) + 1 + j = k + i
        /\ k + i \in 1..n + NumTables(n)
    BY <1>1, <1>4, DataPlace
  <2>2. e[e[h].primaryIndexTable[i]].dataSectors = TableEntries(f, i)
    <3>1. e[f[Block(i) + 1]] = IndexTable(TableEntries(f, i))
      BY <2>1 DEF TablesAt
    <3>2. e[h].primaryIndexTable[i] = f[Block(i) + 1]
      BY <1>3, <2>1
    <3> QED BY <3>1, <3>2 DEF IndexTable
  <2>3. TableEntries(f, i)[j] = f[k + i]
    BY <1>1, <1>4, TableEntry
  <2>4. DataSector(e, e[h], k) = f[k + i]
    BY <1>4, <2>2, <2>3 DEF DataSector
  <2>5. \A l \in 1..NumTables(n) : Block(l) + 1 # Block(i) + 1 + j
    BY <1>1, <2>1, PlacesDiffer
  <2> QED BY <2>1, <2>4, <2>5
<1>5. \A l \in 1..NumTables(n) : Block(l) + 1 \in 1..n + NumTables(n)
  BY <1>1, TablePlace
<1>6. Tables(e[h]) = {f[Block(l) + 1] : l \in 1..NumTables(n)}
  BY <1>2, <1>3 DEF Tables
<1>7. /\ \A l \in 1..n + NumTables(n) :
            /\ f[l] \in Sector \cup {NoSector}
            /\ f[l] # NoSector => f[l] \in Sector \ map
      /\ \A l, m \in 1..n + NumTables(n) : f[l] = f[m] /\ f[l] # NoSector => l = m
  BY <1>1 DEF FreshSeq
<1>8. \A s \in Tables(e[h]) : s \in Sector /\ s # h /\ e[s].kind = "table"
  <2> SUFFICES ASSUME NEW l \in 1..NumTables(n), NEW s, s = f[Block(l) + 1]
               PROVE  s \in Sector /\ s # h /\ e[s].kind = "table"
    BY <1>6
  <2>1. s \in Sector /\ e[s] = IndexTable(TableEntries(f, l))
    BY DEF TablesAt
  <2>2. s \in Sector \ map
    BY <1>0, <1>5, <1>7, <2>1
  <2> QED BY <2>1, <2>2 DEF IndexTable
<1>9. ASSUME NEW k \in 1..n
      PROVE  /\ DataSector(e, e[h], k) \in Sector \cup {NoSector}
             /\ DataSector(e, e[h], k) \notin Tables(e[h]) \cup {h}
             /\ DataSector(e, e[h], k) # NoSector => DataSector(e, e[h], k) \in Mark({}, f)
             /\ DataSector(e, e[h], k) = f[k + ((k - 1) \div IndexSize) + 1]
  <2> PICK i : i = ((k - 1) \div IndexSize) + 1
    OBVIOUS
  <2> PICK j : j = ((k - 1) % IndexSize) + 1
    OBVIOUS
  <2>1. /\ DataSector(e, e[h], k) = f[k + i]
        /\ k + i \in 1..n + NumTables(n)
        /\ \A l \in 1..NumTables(n) : Block(l) + 1 # k + i
    BY <1>4
  <2>2. f[k + i] \notin Tables(e[h])
    <3>1. CASE f[k + i] = NoSector
      BY <1>0, <1>8, <3>1
    <3>2. CASE f[k + i] # NoSector
      BY <1>5, <1>6, <1>7, <2>1, <3>2
    <3> QED BY <3>1, <3>2
  <2>3. f[k + i] # h
    BY <1>0, <1>7, <2>1
  <2>4. f[k + i] # NoSector => f[k + i] \in Mark({}, f)
    BY <2>1 DEF FreshSeq, Mark
  <2>5. k + i = k + ((k - 1) \div IndexSize) + 1
    <3>1. (k - 1) \div IndexSize \in Int
      BY SizesAssumption, DivMod
    <3> QED BY <3>1
  <2> QED BY <1>7, <2>1, <2>2, <2>3, <2>4, <2>5
<1>14. DataOnce(e, h)
  <2> SUFFICES ASSUME NEW k \in 1..n, NEW l \in 1..n,
                      DataSector(e, e[h], k) = DataSector(e, e[h], l), DataSector(e, e[h], k) # NoSector
               PROVE  k = l
    BY <1>2 DEF DataOnce
  <2> PICK i : i = ((k - 1) \div IndexSize) + 1
    OBVIOUS
  <2> PICK j : j = ((l - 1) \div IndexSize) + 1
    OBVIOUS
  <2>1. /\ DataSector(e, e[h], k) = f[k + i] /\ k + i \in 1..n + NumTables(n)
        /\ DataSector(e, e[h], l) = f[l + j] /\ l + j \in 1..n + NumTables(n)
    BY <1>4
  <2>2. k + i = l + j
    BY <1>7, <2>1
  <2> QED BY <1>1, <2>2, CountedOnce
<1>10. HeaderOK(e, h)
  BY <1>2, <1>8, <1>9, <1>14 DEF HeaderOK
<1>11. Tables(e[h]) \subseteq Mark({}, f)
  BY <1>0, <1>5, <1>6 DEF Mark, FreshSeq, TablesAt
<1>12. OwnedBy(e, h) \subseteq {h} \cup Mark({}, f)
  BY <1>2, <1>9, <1>11 DEF OwnedBy, Blocks
<1>13. Placed(e, h, f, n)
  BY <1>9 DEF Placed
<1> QED BY <1>10, <1>12, <1>13

-----------------------------------------------------------------------------
(***************************************************************************)
(* Lists of writes.  A call changes the structures in memory and leaves a  *)
(* list of sector writes.  Reaches says what is on the disk after the      *)
(* first k of them.                                                        *)
(***************************************************************************)
\* Disk e is disk d after the first k of the writes w: a sector holds what was
\* written to it last.
LastWrite(w, k, s, i) ==
    i \in 1..k /\ w[i].sector = s /\ \A j \in i + 1..k : w[j].sector # s
NotWritten(w, k, s) == \A i \in 1..k : w[i].sector # s
SectorAfter(d, w, k, e, s) ==
    \/ NotWritten(w, k, s) /\ e[s] = d[s]
    \/ \E i : LastWrite(w, k, s, i) /\ e[s] = w[i].content
Reaches(d, w, k, e) == DOMAIN e = Sector /\ \A s \in Sector : SectorAfter(d, w, k, e, s)
NoStop(w, k) == \A i \in 1..k : w[i].sector # NoSector

\* A sector that is written is written a last time.
LEMMA LastExists ==
    ASSUME NEW w, NEW k \in Nat, NEW s, ~NotWritten(w, k, s)
    PROVE  \E i : LastWrite(w, k, s, i)
<1> PICK I : I = {i \in 1..k : w[i].sector = s}
  OBVIOUS
<1> PICK J : J = {n \in Nat : \E i \in I : n = k - i}
  OBVIOUS
<1>1. PICK i0 \in I : TRUE
  BY DEF NotWritten
<1>2. J \in SUBSET Nat /\ J # {}
  <2>1. k - i0 \in Nat
    BY <1>1
  <2> QED BY <1>1, <2>1
<1>3. PICK n \in J : \A m \in J : n <= m
  BY <1>2, Least
<1>4. PICK i \in I : n = k - i
  BY <1>3
<1>5. ASSUME NEW j \in i + 1..k, w[j].sector = s PROVE FALSE
  <2>1. j \in I /\ k - j \in Nat
    BY <1>4, <1>5
  <2>2. k - j \in J
    BY <2>1
  <2>3. n <= k - j
    BY <1>3, <2>2
  <2> QED BY <1>4, <2>1, <2>3
<1> QED BY <1>4, <1>5 DEF LastWrite

\* Some disk is reached.
LEMMA ReachesExists ==
    ASSUME NEW d, NEW w, NEW k \in Nat
    PROVE  \E e : Reaches(d, w, k, e)
<1> PICK e : e = [s \in Sector |-> IF NotWritten(w, k, s) THEN d[s]
                                   ELSE w[CHOOSE i : LastWrite(w, k, s, i)].content]
  OBVIOUS
<1>1. ASSUME NEW s \in Sector PROVE SectorAfter(d, w, k, e, s)
  <2>1. CASE NotWritten(w, k, s)
    BY <2>1 DEF SectorAfter
  <2>2. CASE ~NotWritten(w, k, s)
    <3>1. \E i : LastWrite(w, k, s, i)
      BY <2>2, LastExists
    <3>2. PICK i : i = CHOOSE j : LastWrite(w, k, s, j)
      OBVIOUS
    <3>3. LastWrite(w, k, s, i)
      BY <3>1, <3>2
    <3>4. e[s] = w[i].content
      BY <2>2, <3>2
    <3> QED BY <3>3, <3>4 DEF SectorAfter
  <2> QED BY <2>1, <2>2
<1> QED BY <1>1 DEF Reaches

\* There is one last write.
LEMMA LastUnique ==
    ASSUME NEW w, NEW k \in Nat, NEW s, NEW i, NEW j, LastWrite(w, k, s, i), LastWrite(w, k, s, j)
    PROVE  i = j
  BY DEF LastWrite

\* One write is made and taken off the list.
LEMMA ReachesShift ==
    ASSUME NEW S, NEW w \in Seq(S), w # <<>>, NEW d, DOMAIN d = Sector, NEW d2, NEW e,
           d2 = [d EXCEPT ![Head(w).sector] = Head(w).content],
           NEW k \in 0..Len(w) - 1, Reaches(d2, Tail(w), k, e)
    PROVE  Reaches(d, w, k + 1, e)
<1> PICK v : v = Tail(w)
  OBVIOUS
<1>1. Len(v) = Len(w) - 1 /\ Len(w) \in Nat /\ Head(w) = w[1]
  OBVIOUS
<1>2. \A i \in 1..k : v[i] = w[i + 1]
  BY <1>1
<1>3. \A j \in 2..k + 1 : j - 1 \in 1..k /\ w[j] = v[j - 1]
  BY <1>1, <1>2
<1>4. ASSUME NEW s \in Sector PROVE SectorAfter(d, w, k + 1, e, s)
  <2>1. CASE NotWritten(v, k, s) /\ e[s] = d2[s]
    <3>1. \A j \in 2..k + 1 : w[j].sector # s
      BY <1>3, <2>1 DEF NotWritten
    <3>2. CASE w[1].sector = s
      <4>1. LastWrite(w, k + 1, s, 1)
        BY <3>1, <3>2 DEF LastWrite
      <4>2. e[s] = w[1].content
        BY <1>1, <2>1, <3>2
      <4> QED BY <4>1, <4>2 DEF SectorAfter
    <3>3. CASE w[1].sector # s
      <4>1. NotWritten(w, k + 1, s)
        BY <3>1, <3>3 DEF NotWritten
      <4>2. e[s] = d[s]
        BY <1>1, <2>1, <3>3
      <4> QED BY <4>1, <4>2 DEF SectorAfter
    <3> QED BY <3>2, <3>3
  <2>2. ASSUME NEW i, LastWrite(v, k, s, i), e[s] = v[i].content
        PROVE  SectorAfter(d, w, k + 1, e, s)
    <3>1. i \in 1..k /\ v[i].sector = s /\ \A j \in i + 1..k : v[j].sector # s
      BY <2>2 DEF LastWrite
    <3>2. i + 1 \in 1..k + 1 /\ w[i + 1] = v[i]
      BY <1>2, <3>1
    <3>3. \A j \in (i + 1) + 1..k + 1 : w[j].sector # s
      <4> TAKE j \in (i + 1) + 1..k + 1
      <4>1. j \in 2..k + 1 /\ j - 1 \in i + 1..k
        BY <3>1
      <4> QED BY <1>3, <3>1, <4>1
    <3>4. LastWrite(w, k + 1, s, i + 1)
      BY <3>1, <3>2, <3>3 DEF LastWrite
    <3> QED BY <2>2, <3>2, <3>4 DEF SectorAfter
  <2>3. SectorAfter(d2, v, k, e, s)
    BY DEF Reaches
  <2> QED BY <2>1, <2>2, <2>3 DEF SectorAfter
<1>5. DOMAIN e = Sector
  BY DEF Reaches
<1> QED BY <1>4, <1>5 DEF Reaches

\* The same for the writes that do not stop the program.
LEMMA NoStopShift ==
    ASSUME NEW S, NEW w \in Seq(S), w # <<>>, Head(w).sector # NoSector,
           NEW k \in 0..Len(w) - 1, NoStop(Tail(w), k)
    PROVE  NoStop(w, k + 1)
<1>1. Head(w) = w[1] /\ Len(w) \in Nat /\ \A i \in 1..Len(w) - 1 : Tail(w)[i] = w[i + 1]
  OBVIOUS
<1>2. ASSUME NEW j \in 1..k + 1 PROVE w[j].sector # NoSector
  <2>1. CASE j = 1
    BY <1>1, <2>1
  <2>2. CASE j # 1
    <3>1. j - 1 \in 1..k /\ j - 1 \in 1..Len(w) - 1 /\ (j - 1) + 1 = j
      BY <1>1, <2>2
    <3>2. Tail(w)[j - 1] = w[(j - 1) + 1]
      BY <1>1, <3>1
    <3>3. Tail(w)[j - 1].sector # NoSector
      BY <3>1 DEF NoStop
    <3> QED BY <3>1, <3>2, <3>3
  <2> QED BY <2>1, <2>2
<1> QED BY <1>2 DEF NoStop

\* Two lists of writes, one after the other.
LEMMA ReachesSplit ==
    ASSUME NEW S, NEW a \in Seq(S), NEW b \in Seq(S), NEW w, w = a \o b, NEW d, NEW e,
           NEW j \in 0..Len(b), Reaches(d, w, Len(a) + j, e)
    PROVE  \E m : Reaches(d, a, Len(a), m) /\ Reaches(m, b, j, e)
<1> PICK n \in Nat : n = Len(a)
  OBVIOUS
<1>1. /\ \A i \in 1..n : w[i] = a[i]
      /\ \A i \in 1..j : w[n + i] = b[i]
  OBVIOUS
<1>2. PICK m : Reaches(d, a, n, m)
  BY ReachesExists
<1>3. ASSUME NEW s \in Sector PROVE SectorAfter(m, b, j, e, s)
  <2>1. SectorAfter(d, w, n + j, e, s) /\ SectorAfter(d, a, n, m, s)
    BY <1>2 DEF Reaches
  <2>2. ASSUME NEW i, LastWrite(w, n + j, s, i), i > n, e[s] = w[i].content
        PROVE  SectorAfter(m, b, j, e, s)
    <3>1. i \in 1..n + j /\ w[i].sector = s /\ \A l \in i + 1..n + j : w[l].sector # s
      BY <2>2 DEF LastWrite
    <3>2. i - n \in 1..j /\ n + (i - n) = i
      BY <2>2, <3>1
    <3>3. b[i - n] = w[i]
      BY <1>1, <3>2
    <3>4. \A l \in (i - n) + 1..j : b[l].sector # s
      <4> TAKE l \in (i - n) + 1..j
      <4>1. l \in 1..j /\ n + l \in i + 1..n + j
        BY <3>1, <3>2
      <4> QED BY <1>1, <3>1, <4>1
    <3>5. LastWrite(b, j, s, i - n)
      BY <3>1, <3>2, <3>3, <3>4 DEF LastWrite
    <3> QED BY <2>2, <3>3, <3>5 DEF SectorAfter
  <2>3. ASSUME \A l \in n + 1..n + j : w[l].sector # s, e[s] = m[s]
        PROVE  SectorAfter(m, b, j, e, s)
    <3>1. NotWritten(b, j, s)
      <4> SUFFICES ASSUME NEW l \in 1..j PROVE b[l].sector # s
        BY DEF NotWritten
      <4>1. n + l \in n + 1..n + j
        OBVIOUS
      <4> QED BY <1>1, <2>3, <4>1
    <3> QED BY <2>3, <3>1 DEF SectorAfter
  <2>4. CASE NotWritten(w, n + j, s) /\ e[s] = d[s]
    <3>1. \A l \in n + 1..n + j : w[l].sector # s
      BY <2>4 DEF NotWritten
    <3>2. NotWritten(a, n, s)
      BY <1>1, <2>4 DEF NotWritten
    <3>3. \A i : ~LastWrite(a, n, s, i)
      BY <3>2 DEF NotWritten, LastWrite
    <3>4. m[s] = d[s]
      BY <2>1, <3>3 DEF SectorAfter
    <3> QED BY <2>3, <2>4, <3>1, <3>4
  <2>5. ASSUME NEW i, LastWrite(w, n + j, s, i), ~(i > n), e[s] = w[i].content
        PROVE  SectorAfter(m, b, j, e, s)
    <3>1. i \in 1..n + j /\ w[i].sector = s /\ \A l \in i + 1..n + j : w[l].sector # s
      BY <2>5 DEF LastWrite
    <3>2. i \in 1..n
      BY <2>5, <3>1
    <3>3. \A l \in n + 1..n + j : w[l].sector # s
      BY <3>1, <3>2
    <3>4. LastWrite(a, n, s, i)
      <4>1. a[i] = w[i] /\ \A l \in i + 1..n : w[l].sector # s /\ a[l] = w[l]
        BY <1>1, <3>1, <3>2
      <4> QED BY <3>1, <3>2, <4>1 DEF LastWrite
    <3>5. ~NotWritten(a, n, s)
      BY <3>4 DEF NotWritten, LastWrite
    <3>6. PICK l : LastWrite(a, n, s, l) /\ m[s] = a[l].content
      BY <2>1, <3>5 DEF SectorAfter
    <3>7. l = i
      BY <3>4, <3>6, LastUnique
    <3>8. e[s] = m[s]
      BY <1>1, <2>5, <3>2, <3>6, <3>7
    <3> QED BY <2>3, <3>3, <3>8
  <2> QED BY <2>1, <2>2, <2>4, <2>5 DEF SectorAfter
<1>4. Reaches(m, b, j, e)
  BY <1>3 DEF Reaches
<1> QED BY <1>2, <1>4

\* The first of two lists of writes.
LEMMA ReachesFirst ==
    ASSUME NEW S, NEW a \in Seq(S), NEW b \in Seq(S), NEW w, w = a \o b, NEW d, NEW e,
           NEW k \in 0..Len(a), Reaches(d, w, k, e)
    PROVE  Reaches(d, a, k, e)
<1>1. \A i \in 1..k : w[i] = a[i]
  OBVIOUS
<1>2. \A s : NotWritten(w, k, s) => NotWritten(a, k, s)
  BY <1>1 DEF NotWritten
<1>3. \A s, i : LastWrite(w, k, s, i) => LastWrite(a, k, s, i) /\ w[i] = a[i]
  <2> SUFFICES ASSUME NEW s, NEW i, LastWrite(w, k, s, i)
               PROVE  LastWrite(a, k, s, i) /\ w[i] = a[i]
    OBVIOUS
  <2>1. i \in 1..k /\ w[i].sector = s /\ \A j \in i + 1..k : w[j].sector # s
    BY DEF LastWrite
  <2>2. \A j \in i + 1..k : w[j] = a[j]
    BY <1>1, <2>1
  <2> QED BY <1>1, <2>1, <2>2 DEF LastWrite
<1>4. \A s : SectorAfter(d, w, k, e, s) => SectorAfter(d, a, k, e, s)
  BY <1>2, <1>3 DEF SectorAfter
<1> QED BY <1>4 DEF Reaches

\* One write.
LEMMA ReachesOne ==
    ASSUME NEW d, NEW e, NEW s, NEW c, Reaches(d, <<Write(s, c)>>, 1, e)
    PROVE  /\ DOMAIN e = Sector
           /\ s \in Sector => e[s] = c
           /\ OnlyAt(d, e, s)
<1> PICK w : w = <<Write(s, c)>>
  OBVIOUS
<1>1. w[1].sector = s /\ w[1].content = c
  BY DEF Write
<1>2. \A r \in Sector : SectorAfter(d, w, 1, e, r)
  BY DEF Reaches
<1>3. \A r : NotWritten(w, 1, r) <=> r # s
  BY <1>1 DEF NotWritten
<1>4. \A r, i : LastWrite(w, 1, r, i) => i = 1 /\ r = s
  BY <1>1 DEF LastWrite
<1>5. \A r \in Sector : r # s => e[r] = d[r]
  BY <1>2, <1>4 DEF SectorAfter
<1>6. s \in Sector => e[s] = c
  BY <1>1, <1>2, <1>3, <1>4 DEF SectorAfter
<1>7. DOMAIN e = Sector
  BY DEF Reaches
<1> QED BY <1>5, <1>6, <1>7 DEF OnlyAt

\* No write.
LEMMA ReachesNone ==
    ASSUME NEW d, NEW w, NEW e, Reaches(d, w, 0, e)
    PROVE  DOMAIN e = Sector /\ \A s \in Sector : e[s] = d[s]
  BY DEF Reaches, SectorAfter, LastWrite

-----------------------------------------------------------------------------
(***************************************************************************)
(* The invariant.  The disk is sound now, and would be after any number of *)
(* the writes that are to be made.                                         *)
(***************************************************************************)
SoundDisk(d, tg, open, x) == \E F, G : Sound(d, F, G, tg, open, x)

\* After any number of the writes w, and if they are cut short there, the disk
\* is sound; when all are made nothing is missing from the bit map.
AfterWrites(w, k, tg) == IF k = Len(w) THEN {} ELSE tg
Safe(d, w, tg, open, x) ==
    \A k \in 0..Len(w) : \A e :
        Reaches(d, w, k, e) /\ NoStop(w, k) => SoundDisk(e, AfterWrites(w, k, tg), open, x)

FilesInv ==
    /\ machine \in {"up", "down"}
    /\ DOMAIN handle = Thread
    /\ \E S : todo \in Seq(S)
    /\ machine = "down" => /\ todo = <<>>
                           /\ \A t \in Thread : handle[t] = NoSector /\ xfer[t].op # "write"
    /\ machine = "up" /\ todo = <<>> => target = {}
    /\ SoundDisk(disk, target, handle, xfer)
    /\ machine = "up" => Safe(disk, todo, target, handle, xfer)

\* The same disk, with more sectors allowed to be missing.
LEMMA SoundSame ==
    ASSUME NEW d, NEW e, NEW F, NEW G, NEW tg, NEW tg2, NEW open, NEW x,
           Sound(d, F, G, tg, open, x), DOMAIN e = Sector, \A s \in Sector : e[s] = d[s],
           tg \subseteq tg2
    PROVE  Sound(e, F, G, tg2, open, x)
<1>1. Shape(d, F, G)
  BY DEF Sound
<1>2. \A f \in F : OwnedBy(d, f) \subseteq Sector
  BY <1>1, Owns DEF Shape
<1>3. Spared(d, e, F, G)
  BY <1>1, <1>2, FreshSpared
<1> QED BY <1>3, SoundSpared

\* No writes are left.
LEMMA SafeNone ==
    ASSUME NEW d, NEW tg, NEW open, NEW x, SoundDisk(d, {}, open, x)
    PROVE  Safe(d, <<>>, tg, open, x)
<1> SUFFICES ASSUME NEW k \in 0..Len(<<>>), NEW e, Reaches(d, <<>>, k, e)
             PROVE  SoundDisk(e, AfterWrites(<<>>, k, tg), open, x)
  BY DEF Safe
<1>1. k = 0 /\ AfterWrites(<<>>, k, tg) = {}
  BY DEF AfterWrites
<1>2. DOMAIN e = Sector /\ \A s \in Sector : e[s] = d[s]
  BY <1>1, ReachesNone
<1>3. PICK F, G : Sound(d, F, G, {}, open, x)
  BY DEF SoundDisk
<1>4. Sound(e, F, G, {}, open, x)
  BY <1>2, <1>3, SoundSame
<1> QED BY <1>1, <1>4 DEF SoundDisk

\* Steps that leave disk and writes alone.
UsersLater(open, x, open2, x2) ==
    \A d, F : UsersOK(d, F, open, x) => UsersOK(d, F, open2, x2)

\* Users that keep in order leave the disk sound,
LEMMA LaterSound ==
    ASSUME NEW d, NEW tg, NEW o, NEW x, NEW o2, NEW x2, UsersLater(o, x, o2, x2),
           SoundDisk(d, tg, o, x)
    PROVE  SoundDisk(d, tg, o2, x2)
<1>1. PICK F, G : Sound(d, F, G, tg, o, x)
  BY DEF SoundDisk
<1>2. UsersOK(d, F, o2, x2)
  BY <1>1 DEF Sound, UsersLater
<1>3. Sound(d, F, G, tg, o2, x2)
  BY <1>1, <1>2 DEF Sound
<1> QED BY <1>3 DEF SoundDisk

\* and the writes that are to be made safe,
LEMMA LaterSafe ==
    ASSUME NEW d, NEW w, NEW tg, NEW o, NEW x, NEW o2, NEW x2, UsersLater(o, x, o2, x2),
           Safe(d, w, tg, o, x)
    PROVE  Safe(d, w, tg, o2, x2)
  BY LaterSound DEF Safe

\* and so the invariant holds after a step of theirs.
LEMMA UsersMove ==
    ASSUME FilesInv, machine = "up", DOMAIN handle' = Thread, UsersLater(handle, xfer, handle', xfer'),
           UNCHANGED <<disk, todo, machine, target>>
    PROVE  FilesInv'
<1>1. SoundDisk(disk, target, handle', xfer')
  BY LaterSound DEF FilesInv
<1>2. machine = "up" => Safe(disk, todo, target, handle', xfer')
  BY LaterSafe DEF FilesInv
<1> QED BY <1>1, <1>2 DEF FilesInv

\* Nobody uses the disk.
LEMMA IdleUsers ==
    ASSUME NEW d, NEW F, NEW o, NEW x, \A t \in Thread : o[t] = NoSector /\ x[t] = NoTransfer
    PROVE  UsersOK(d, F, o, x)
  BY DEF UsersOK, NoTransfer

\* The program ends.
LEMMA GoDownSound ==
    ASSUME FilesInv, GoDown, UNCHANGED target
    PROVE  FilesInv'
<1>1. /\ disk' = disk /\ machine' = "down" /\ todo' = <<>>
      /\ DOMAIN handle' = Thread
      /\ \A t \in Thread : handle'[t] = NoSector /\ xfer'[t] = NoTransfer
  BY DEF GoDown
<1>2. UsersLater(handle, xfer, handle', xfer')
  BY <1>1, IdleUsers DEF UsersLater
<1>3. SoundDisk(disk, target, handle', xfer')
  BY <1>2, LaterSound DEF FilesInv
<1>4. todo' \in Seq({})
  BY <1>1
<1>5. \A t \in Thread : xfer'[t].op # "write"
  BY <1>1 DEF NoTransfer
<1> QED BY <1>1, <1>3, <1>4, <1>5 DEF FilesInv

\* One of the writes is made.
LEMMA WriteSectorSound ==
    ASSUME FilesInv, WriteSector
    PROVE  FilesInv'
<1>1. /\ machine = "up" /\ machine' = "up" /\ todo # <<>> /\ Head(todo).sector # NoSector
      /\ disk' = [disk EXCEPT ![Head(todo).sector] = Head(todo).content]
      /\ todo' = Tail(todo)
      /\ target' = IF Len(todo) = 1 THEN {} ELSE target
      /\ handle' = handle /\ xfer' = xfer
  BY DEF WriteSector
<1>2. PICK S : todo \in Seq(S)
  BY DEF FilesInv
<1> PICK w : w = todo
  OBVIOUS
<1> PICK v : v = Tail(w)
  OBVIOUS
<1>3. v \in Seq(S) /\ Len(v) = Len(w) - 1 /\ Len(w) \in Nat /\ w # <<>> /\ w \in Seq(S)
  BY <1>1, <1>2
<1>4. DOMAIN disk = Sector
  BY DEF FilesInv, SoundDisk, Sound, Shape
<1>5. ASSUME NEW k \in 0..Len(v), NEW e, Reaches(disk', v, k, e), NoStop(v, k)
      PROVE  SoundDisk(e, AfterWrites(w, k + 1, target), handle, xfer)
  <2>1. k \in 0..Len(w) - 1 /\ k + 1 \in 0..Len(w)
    BY <1>3
  <2>2. Reaches(disk, w, k + 1, e)
    BY <1>1, <1>3, <1>4, <1>5, <2>1, ReachesShift
  <2>3. NoStop(w, k + 1)
    BY <1>1, <1>3, <1>5, <2>1, NoStopShift
  <2> QED BY <1>1, <2>1, <2>2, <2>3 DEF FilesInv, Safe
<1>6. ASSUME NEW k \in 0..Len(v) PROVE AfterWrites(w, k + 1, target) = AfterWrites(v, k, target')
  <2>1. Len(w) \in Nat /\ Len(v) = Len(w) - 1 /\ (k + 1 = Len(w) <=> k = Len(v))
    BY <1>3
  <2>2. k # Len(v) => Len(w) # 1
    BY <2>1
  <2>3. target' = IF Len(w) = 1 THEN {} ELSE target
    BY <1>1
  <2> QED BY <2>1, <2>2, <2>3 DEF AfterWrites
<1>7. Safe(disk', v, target', handle, xfer)
  BY <1>5, <1>6 DEF Safe
<1>8. SoundDisk(disk', target', handle, xfer)
  <2>1. Reaches(disk', v, 0, disk') /\ NoStop(v, 0) /\ 0 \in 0..Len(v)
    <3>1. DOMAIN disk' = Sector
      BY <1>1, <1>4
    <3>2. \A s : NotWritten(v, 0, s)
      BY DEF NotWritten
    <3>3. Reaches(disk', v, 0, disk')
      BY <3>1, <3>2 DEF Reaches, SectorAfter
    <3>4. NoStop(v, 0)
      BY DEF NoStop
    <3> QED BY <1>3, <3>3, <3>4
  <2>2. SoundDisk(disk', AfterWrites(v, 0, target'), handle, xfer)
    BY <1>7, <2>1 DEF Safe
  <2>3. AfterWrites(v, 0, target') = target'
    BY <1>1, <1>3 DEF AfterWrites
  <2> QED BY <2>2, <2>3
<1>9. todo' = <<>> => target' = {}
  <2>1. todo' = v /\ (v = <<>> => Len(v) = 0)
    BY <1>1
  <2>2. Len(v) = 0 => Len(todo) = 1
    BY <1>3
  <2> QED BY <1>1, <2>1, <2>2
<1> QED BY <1>1, <1>3, <1>7, <1>8, <1>9 DEF FilesInv

\* Steps of a request that write nothing.
LEMMA OneUser ==
    ASSUME NEW t \in Thread, NEW o, NEW x, NEW o2, NEW x2,
           \A u \in Thread : u # t => o2[u] = o[u] /\ x2[u] = x[u],
           o2[t] = o[t] \/ (o2[t] = NoSector /\ x[t].pc = "idle" /\ x2[t] = x[t]),
           x2[t].op = "write" => /\ x[t].op = "write" /\ x2[t].sectors = x[t].sectors
                                 /\ x2[t].pc # "idle" \/ x2[t] = x[t]
    PROVE  UsersLater(o, x, o2, x2)
<1> SUFFICES ASSUME NEW d, NEW F, UsersOK(d, F, o, x) PROVE UsersOK(d, F, o2, x2)
  BY DEF UsersLater
<1>1. ASSUME NEW u \in Thread, u # t
      PROVE  /\ o2[u] # NoSector => o2[u] \in F
             /\ x2[u].op = "write" => WritesInside(d, o2[u], x2[u])
  BY <1>1 DEF UsersOK
<1>2. o2[t] # NoSector => o2[t] \in F
  BY DEF UsersOK
<1>3. ASSUME x2[t].op = "write" PROVE WritesInside(d, o2[t], x2[t])
  <2>1. WritesInside(d, o[t], x[t]) /\ x2[t].sectors = x[t].sectors
    BY <1>3 DEF UsersOK
  <2>2. x[t].pc # "idle"
    BY <2>1 DEF WritesInside
  <2>3. o2[t] = o[t] /\ x2[t].pc # "idle"
    BY <1>3, <2>2
  <2> QED BY <2>1, <2>3 DEF WritesInside
<1> QED BY <1>1, <1>2, <1>3 DEF UsersOK

\* The steps of ReadAt, WriteAt and Close that leave the disk alone.
LEMMA RequestStep ==
    ASSUME FilesInv, TransferInv, NEW t \in Thread,
           Close(t) \/ ((ReadFile(t) \/ LockArray(t) \/ LockSector(t) \/ Return(t)) /\ UNCHANGED target)
    PROVE  FilesInv'
<1>0. DOMAIN xfer = Thread /\ DOMAIN xfer[t] = TransferField
  BY DEF TransferInv, Progress
<1>9. DOMAIN handle = Thread /\ machine = "up"
  BY DEF FilesInv, Close, ReadFile, ReadAt, CanStart, LockArray, LockSector, Return
<1>1. CASE Close(t)
  <2>1. /\ UNCHANGED <<disk, todo, machine, target, xfer>>
        /\ xfer[t].pc = "idle"
        /\ handle' = [handle EXCEPT ![t] = NoSector]
    BY <1>1 DEF Close
  <2>2. /\ DOMAIN handle' = Thread /\ handle'[t] = NoSector
        /\ \A u \in Thread : u # t => handle'[u] = handle[u] /\ xfer'[u] = xfer[u]
    BY <1>9, <2>1
  <2>3. UsersLater(handle, xfer, handle', xfer')
    BY <2>1, <2>2, OneUser
  <2> QED BY <1>9, <2>1, <2>2, <2>3, UsersMove
<1>2. ASSUME NEW y, xfer' = [xfer EXCEPT ![t] = y], y.op # "write",
             UNCHANGED <<disk, todo, machine, target, handle>>
      PROVE  FilesInv'
  <2>1. UsersLater(handle, xfer, handle', xfer')
    BY <1>0, <1>2, OneUser
  <2> QED BY <1>2, <1>9, <2>1, UsersMove
<1>3. CASE ReadFile(t) /\ UNCHANGED target
  <2>1. PICK r : ReadAt(t, r[1], r[2])
    BY <1>3 DEF ReadFile
  <2>2. PICK len, sec :
           xfer' = [xfer EXCEPT ![t] =
                      [NoTransfer EXCEPT !.pc = "arr_P", !.op = "read", !.pos = r[1],
                                         !.len = len, !.sectors = sec]]
    BY <2>1 DEF ReadAt
  <2>3. PICK y : y = [NoTransfer EXCEPT !.pc = "arr_P", !.op = "read", !.pos = r[1],
                                         !.len = len, !.sectors = sec]
    OBVIOUS
  <2>4. y.op = "read"
    BY <2>3 DEF NoTransfer
  <2>5. UNCHANGED <<disk, todo, machine, target, handle>>
    BY <1>3, <2>1 DEF ReadAt
  <2> QED BY <1>2, <2>2, <2>3, <2>4, <2>5
<1>4. CASE Return(t) /\ UNCHANGED target
  <2>1. PICK y : y = NoTransfer
    OBVIOUS
  <2>2. xfer' = [xfer EXCEPT ![t] = y] /\ UNCHANGED <<disk, todo, machine, target, handle>>
    BY <1>4, <2>1 DEF Return
  <2>3. y.op = "none"
    BY <2>1 DEF NoTransfer
  <2> QED BY <1>2, <2>2, <2>3
<1>5. ASSUME \A u \in Thread : u # t => xfer'[u] = xfer[u],
             xfer'[t].op = xfer[t].op, xfer'[t].sectors = xfer[t].sectors, xfer'[t].pc # "idle",
             UNCHANGED <<disk, todo, machine, target, handle>>
      PROVE  FilesInv'
  <2>1. UsersLater(handle, xfer, handle', xfer')
    BY <1>5, OneUser
  <2> QED BY <1>5, <1>9, <2>1, UsersMove
<1>6. CASE LockArray(t) /\ UNCHANGED target
  <2>1. /\ xfer' = [xfer EXCEPT ![t].pc = "rw_P"]
        /\ UNCHANGED <<disk, todo, machine, target, handle>>
    BY <1>6 DEF LockArray
  <2>2. /\ \A u \in Thread : u # t => xfer'[u] = xfer[u]
        /\ xfer'[t].op = xfer[t].op /\ xfer'[t].sectors = xfer[t].sectors
        /\ xfer'[t].pc # "idle"
    BY <1>0, <2>1 DEF TransferField
  <2> QED BY <1>5, <2>1, <2>2
<1>7. CASE LockSector(t) /\ UNCHANGED target
  <2> PICK want : want = IF xfer[t].locked + 1 = Len(xfer[t].sectors) /\ xfer[t].op = "read"
                         THEN SubSeq(shadow[handle[t]], xfer[t].pos + 1, xfer[t].pos + xfer[t].len)
                         ELSE <<>>
    OBVIOUS
  <2> PICK pc : pc = IF xfer[t].locked + 1 = Len(xfer[t].sectors) THEN "io" ELSE "rw_P"
    OBVIOUS
  <2>1. /\ xfer' = [xfer EXCEPT ![t].locked = @ + 1, ![t].pc = pc, ![t].want = want]
        /\ pc # "idle"
    BY <1>7 DEF LockSector
  <2>2. UNCHANGED <<disk, todo, machine, target, handle>>
    BY <1>7 DEF LockSector
  <2>3. /\ \A u \in Thread : u # t => xfer'[u] = xfer[u]
        /\ xfer'[t].op = xfer[t].op /\ xfer'[t].sectors = xfer[t].sectors
        /\ xfer'[t].pc # "idle"
    BY <1>0, <2>1 DEF TransferField
  <2> QED BY <1>5, <2>2, <2>3
<1> QED BY <1>1, <1>3, <1>4, <1>6, <1>7

\* A sector of a request is transferred.
LEMMA DataSound ==
    ASSUME NEW d, NEW e, NEW tg, NEW o, NEW x, SoundDisk(d, tg, o, x), NEW t \in Thread,
           x[t].op = "write", NEW j \in 1..Len(x[t].sectors), DOMAIN e = Sector,
           OnlyAt(d, e, x[t].sectors[j])
    PROVE  SoundDisk(e, tg, o, x)
<1>1. PICK F, G : Sound(d, F, G, tg, o, x)
  BY DEF SoundDisk
<1>2. Shape(d, F, G) /\ UsersOK(d, F, o, x)
  BY <1>1 DEF Sound
<1>3. o[t] \in F /\ WritesInside(d, o[t], x[t])
  BY <1>2 DEF UsersOK, WritesInside
<1>4. PICK i \in 1..d[o[t]].numSectors : x[t].sectors[j] = DataSector(d, d[o[t]], i)
  BY <1>3 DEF WritesInside
<1>5. d[o[t]].fileType = 0
  BY <1>3 DEF WritesInside
<1>6. \A s \in Sector : s # DataSector(d, d[o[t]], i) => e[s] = d[s]
  BY <1>4 DEF OnlyAt
<1>7. Spared(d, e, F, G)
  BY <1>2, <1>3, <1>5, <1>6, DataSpared
<1>8. Sound(e, F, G, tg, o, x)
  BY <1>1, <1>7, SoundSpared
<1> QED BY <1>8 DEF SoundDisk

\* The transfer of a sector writes data of a regular file.
LEMMA TransferSound ==
    ASSUME FilesInv, TransferInv, NEW t \in Thread, TransferSector(t), UNCHANGED target
    PROVE  FilesInv'
<1>0. DOMAIN xfer = Thread /\ Progress(xfer[t]) /\ DOMAIN xfer[t] = TransferField
  BY DEF TransferInv, Progress
<1>9. DOMAIN handle = Thread
  BY DEF FilesInv
<1> PICK i : i = xfer[t].done + 1
  OBVIOUS
<1> PICK s : s = xfer[t].sectors[i]
  OBVIOUS
<1>1. /\ machine = "up" /\ xfer[t].pc = "io"
      /\ UNCHANGED <<todo, machine, handle, target>>
      /\ xfer[t].op # "write" => disk' = disk
      /\ xfer[t].op = "write" => disk' = [disk EXCEPT ![s] = Data(xfer[t].buf[i])]
  BY DEF TransferSector
<1>2. i \in 1..Len(xfer[t].sectors)
  BY <1>0, <1>1 DEF Progress
<1> PICK pc : pc = IF i = Len(xfer[t].sectors) THEN "done" ELSE "io"
  OBVIOUS
<1> PICK buf : buf = IF xfer[t].op = "read" THEN Append(xfer[t].buf, BytesAt(disk, s))
                     ELSE xfer[t].buf
  OBVIOUS
<1>3. /\ xfer' = [xfer EXCEPT ![t].done = i, ![t].pc = pc, ![t].buf = buf]
      /\ pc # "idle"
  BY <1>0 DEF TransferSector, TransferField
<1>4. /\ \A u \in Thread : u # t => xfer'[u] = xfer[u]
      /\ xfer'[t].op = xfer[t].op /\ xfer'[t].sectors = xfer[t].sectors
      /\ xfer'[t].pc # "idle"
  BY <1>0, <1>3 DEF TransferField
<1>5. UsersLater(handle, xfer, handle', xfer')
  BY <1>1, <1>4, OneUser
<1>6. CASE xfer[t].op # "write"
  BY <1>1, <1>5, <1>6, <1>9, UsersMove
<1>7. CASE xfer[t].op = "write"
  <2>1. DOMAIN disk = Sector
    BY DEF FilesInv, SoundDisk, Sound, Shape
  <2>2. DOMAIN disk' = Sector /\ OnlyAt(disk, disk', s)
    BY <1>1, <1>7, <2>1 DEF OnlyAt
  <2>3. SoundDisk(disk', target, handle, xfer)
    BY <1>2, <1>7, <2>2, DataSound DEF FilesInv
  <2>4. Safe(disk', todo, target, handle, xfer)
    <3> SUFFICES ASSUME NEW k \in 0..Len(todo), NEW e, Reaches(disk', todo, k, e), NoStop(todo, k)
                 PROVE  SoundDisk(e, AfterWrites(todo, k, target), handle, xfer)
      BY DEF Safe
    <3> PICK m : m = [r \in Sector |-> IF NotWritten(todo, k, r) THEN disk[r] ELSE e[r]]
      OBVIOUS
    <3>1. ASSUME NEW r \in Sector PROVE SectorAfter(disk, todo, k, m, r) /\ (r # s => e[r] = m[r])
      <4>1. SectorAfter(disk', todo, k, e, r)
        BY DEF Reaches
      <4>2. CASE NotWritten(todo, k, r)
        <5>1. \A l : ~LastWrite(todo, k, r, l)
          BY <4>2 DEF NotWritten, LastWrite
        <5>2. e[r] = disk'[r] /\ m[r] = disk[r]
          BY <4>1, <4>2, <5>1 DEF SectorAfter
        <5> QED BY <2>2, <4>2, <5>2 DEF SectorAfter, OnlyAt
      <4>3. CASE ~NotWritten(todo, k, r)
        <5>1. m[r] = e[r]
          BY <4>3
        <5> QED BY <4>1, <4>3, <5>1 DEF SectorAfter
      <4> QED BY <4>2, <4>3
    <3>2. Reaches(disk, todo, k, m) /\ OnlyAt(m, e, s)
      BY <3>1 DEF Reaches, OnlyAt
    <3>3. SoundDisk(m, AfterWrites(todo, k, target), handle, xfer)
      BY <1>1, <3>2 DEF FilesInv, Safe
    <3>4. DOMAIN e = Sector
      BY DEF Reaches
    <3> QED BY <1>2, <1>7, <3>2, <3>3, <3>4, DataSound
  <2>5. SoundDisk(disk', target, handle', xfer') /\ Safe(disk', todo, target, handle', xfer')
    BY <1>5, <2>3, <2>4, LaterSound, LaterSafe
  <2> QED BY <1>1, <2>5 DEF FilesInv
<1> QED BY <1>6, <1>7

-----------------------------------------------------------------------------
(***************************************************************************)
(* Names and paths.                                                        *)
(***************************************************************************)
\* The first of some entries is one of them.
LEMMA FirstIn ==
    ASSUME NEW S \in SUBSET Nat, S # {}
    PROVE  FirstOf(S) \in S
<1>1. \E i \in S : \A j \in S : i <= j
  BY Least
<1> QED BY <1>1 DEF FirstOf

\* An entry that is found.
Found(table, name, i) == i \in InUse(table) /\ table[i].name = name /\ i = FirstOf(Holding(table, name))

\* The entry that a search by name finds.
LEMMA FoundEntry ==
    ASSUME NEW table, NEW name, FindName(table, name) # NoSector
    PROVE  \E i : Found(table, name, i) /\ FindName(table, name) = table[i].sector
<1>1. Holding(table, name) # {} /\ FindName(table, name) = table[FirstOf(Holding(table, name))].sector
  BY DEF FindName
<1>2. Holding(table, name) \in SUBSET Nat
  BY SizesAssumption DEF Holding, InUse
<1>3. FirstOf(Holding(table, name)) \in Holding(table, name)
  BY <1>1, <1>2, FirstIn
<1> QED BY <1>1, <1>3 DEF Found, Holding

\* Where a path leads.  The directory is one of the tree, and if it is not the
\* root its entries have names of their own.
LeadsTo(path, g, F, G) ==
    /\ g.dir \in G
    /\ g.name # NoName => g.name # Lost
    /\ Len(path) = 1 => g.dir = DirectorySector /\ g.name = path[1]
    /\ Len(path) # 1 /\ g.name # NoName => g.dir # DirectorySector
    /\ g.dir # DirectorySector => NamedOnce(TableOf(disk, g.dir))

\* What an entry of the root leads to.
LEMMA RootEntry ==
    ASSUME NEW d, NEW F, NEW G, Shape(d, F, G), NamesOK(d), NEW n, NEW i,
           Found(TableOf(d, DirectorySector), n, i), NEW s, s = TableOf(d, DirectorySector)[i].sector
    PROVE  /\ s \in F \ {FreeMapSector, DirectorySector}
           /\ s # NoSector
           /\ d[s].fileType = 1 => s \in G /\ (n # Lost => NamedOnce(TableOf(d, s)))
           /\ n \in {Lost} \cup DirName \cup TopName
           /\ n \in DirName => d[s].fileType = 1
<1>1. DirectorySector \in G /\ i \in InUse(TableOf(d, DirectorySector))
      /\ TableOf(d, DirectorySector)[i].name = n
  BY DEF Shape, Found
<1>2. /\ s \in F \ {FreeMapSector, DirectorySector}
      /\ d[s].fileType = 1 => s \in G
  BY <1>1 DEF Shape, LinksOK
<1>3. s # NoSector
  BY <1>2, SizesAssumption DEF Shape, HeaderOK, Sector, NoSector
<1> QED BY <1>1, <1>2, <1>3 DEF NamesOK, RootNames

\* getFileName leads to a directory of the tree.
LEMMA PathLeads ==
    ASSUME NEW F, NEW G, Shape(disk, F, G), NamesOK(disk),
           NEW path \in FilePath \cup DirPath
    PROVE  LeadsTo(path, getFileName(path), F, G)
<1> PICK r : r = TableOf(disk, DirectorySector)
  OBVIOUS
<1> PICK g : g = getFileName(path)
  OBVIOUS
<1> PICK s : s = FindName(r, path[1])
  OBVIOUS
<1>0. DirectorySector \in G
  BY DEF Shape
<1>1. DirTable(DirectorySector) = r
  BY DEF DirTable, TableOf, ContentOf
<1>2. /\ Len(path) = 1 => g.dir = DirectorySector /\ g.name = path[1]
      /\ Len(path) # 1 /\ s = NoSector => g.dir = DirectorySector /\ g.name = NoName
      /\ Len(path) # 1 /\ s # NoSector => g.dir = s /\ g.name = path[2]
  BY <1>1 DEF getFileName
<1>3. /\ Len(path) # 1 => path \in FilePath /\ Len(path) = 2
      /\ \A i \in 1..Len(path) : path[i] # Lost
  BY PathAssumption
<1>4. CASE Len(path) = 1
  BY <1>0, <1>2, <1>3, <1>4 DEF LeadsTo
<1>5. CASE Len(path) # 1 /\ s = NoSector
  BY <1>0, <1>2, <1>5 DEF LeadsTo
<1>6. CASE Len(path) # 1 /\ s # NoSector
  <2>1. PICK i : Found(r, path[1], i) /\ s = r[i].sector
    BY <1>6, FoundEntry
  <2>2. /\ s \in F \ {FreeMapSector, DirectorySector}
        /\ disk[s].fileType = 1 => s \in G /\ (path[1] # Lost => NamedOnce(TableOf(disk, s)))
        /\ path[1] \in {Lost} \cup DirName \cup TopName
        /\ path[1] \in DirName => disk[s].fileType = 1
    BY <2>1, RootEntry
  <2>3. path[1] # Lost /\ path[2] # Lost
    BY <1>3, <1>6
  <2>4. path[1] \notin TopName
    BY <1>3, <1>6, PathAssumption DEF TopName
  <2> QED BY <1>2, <1>6, <2>2, <2>3, <2>4 DEF LeadsTo
<1> QED BY <1>4, <1>5, <1>6

\* What FileSystem::Open and Remove find is a file of the tree.
LEMMA LookupFinds ==
    ASSUME NEW F, NEW G, Shape(disk, F, G), NamesOK(disk),
           NEW path \in FilePath \cup DirPath, NEW g, g = getFileName(path),
           NEW h, h = Lookup(path), h # NoSector
    PROVE  /\ g.name # NoName
           /\ h \in F \ {FreeMapSector, DirectorySector}
           /\ \E i : Found(TableOf(disk, g.dir), g.name, i) /\ TableOf(disk, g.dir)[i].sector = h
           /\ disk[h].fileType = 1 => /\ g.dir = DirectorySector
                                      /\ h \in G
                                      /\ NamedOnce(TableOf(disk, h))
<1> PICK r : r = TableOf(disk, g.dir)
  OBVIOUS
<1>1. LeadsTo(path, g, F, G)
  BY PathLeads
<1>2. g.name # NoName /\ h = FindName(r, g.name)
  BY DEF Lookup, DirTable, TableOf, ContentOf
<1>3. PICK i : Found(r, g.name, i) /\ r[i].sector = h
  BY <1>2, FoundEntry
<1>4. g.dir \in G /\ i \in InUse(r)
  BY <1>1, <1>3 DEF LeadsTo, Found
<1>5. /\ h \in F \ {FreeMapSector, DirectorySector}
      /\ disk[h].fileType = 1 => g.dir = DirectorySector /\ h \in G
  BY <1>3, <1>4 DEF Shape, LinksOK
<1>6. ASSUME disk[h].fileType = 1 PROVE NamedOnce(TableOf(disk, h))
  BY <1>1, <1>2, <1>3, <1>5, <1>6, RootEntry DEF LeadsTo
<1> QED BY <1>2, <1>3, <1>5, <1>6

\* The header of one file is to be written.
LEMMA SafeHeader ==
    ASSUME NEW d, NEW F, NEW G, NEW tg, NEW o, NEW x, Sound(d, F, G, {}, o, x),
           NEW h \in F, NEW hdr, SameHeader(d[h], hdr)
    PROVE  Safe(d, <<Write(h, hdr)>>, tg, o, x)
<1> PICK w : w = <<Write(h, hdr)>>
  OBVIOUS
<1>0. Shape(d, F, G) /\ h \in Sector
  BY DEF Sound, Shape, HeaderOK
<1> SUFFICES ASSUME NEW k \in 0..Len(w), NEW e, Reaches(d, w, k, e)
             PROVE  SoundDisk(e, AfterWrites(w, k, tg), o, x)
  BY DEF Safe
<1>1. Len(w) = 1 /\ {} \subseteq AfterWrites(w, k, tg)
  OBVIOUS
<1>2. CASE k = 0
  <2>1. DOMAIN e = Sector /\ \A s \in Sector : e[s] = d[s]
    BY <1>2, ReachesNone
  <2>2. Sound(e, F, G, AfterWrites(w, k, tg), o, x)
    BY <1>1, <2>1, SoundSame
  <2> QED BY <2>2 DEF SoundDisk
<1>3. CASE k = 1
  <2>1. DOMAIN e = Sector /\ e[h] = hdr /\ OnlyAt(d, e, h)
    BY <1>0, <1>3, ReachesOne
  <2>2. \A s \in Sector : s # h => e[s] = d[s]
    BY <2>1 DEF OnlyAt
  <2>3. Spared(d, e, F, G)
    BY <1>0, <2>1, <2>2, HeaderSpared
  <2>4. Sound(e, F, G, AfterWrites(w, k, tg), o, x)
    BY <1>1, <2>3, SoundSpared
  <2> QED BY <2>4 DEF SoundDisk
<1> QED BY <1>1, <1>2, <1>3

\* Between two calls.
LEMMA RestSound ==
    ASSUME FilesInv, machine = "up", todo = <<>>
    PROVE  target = {} /\ \E F, G : Sound(disk, F, G, {}, handle, xfer)
  BY DEF FilesInv, SoundDisk

\* While nobody transfers.
LEMMA NobodyWrites ==
    ASSUME NEW d, NEW F, NEW o, NEW x, UsersOK(d, F, o, x), \A t \in Thread : x[t].pc = "idle",
           NEW e, NEW F2, NEW o2, \A t \in Thread : o2[t] # NoSector => o2[t] \in F2
    PROVE  UsersOK(e, F2, o2, x)
<1>1. \A t \in Thread : x[t].op # "write"
  BY DEF UsersOK, WritesInside
<1> QED BY <1>1 DEF UsersOK

\* Changes of a header that leave its layout alone.
LEMMA HeaderField2 ==
    ASSUME NEW hdr, Fields(hdr), NEW v
    PROVE  SameHeader(hdr, [hdr EXCEPT !.numVisits = v])
  BY DEF Fields, SameHeader, HeaderField

\* FileSystem::Open.
LEMMA OpenSound ==
    ASSUME FilesInv, NEW t \in Thread, NEW p \in FilePath, Open(t, p)
    PROVE  FilesInv'
<1> PICK h : h = Lookup(p)
  OBVIOUS
<1> PICK g : g = getFileName(p)
  OBVIOUS
<1>1. /\ machine = "up" /\ todo = <<>> /\ \A u \in Thread : xfer[u].pc = "idle"
      /\ UNCHANGED <<disk, machine, xfer, target>>
      /\ h = NoSector => handle' = [handle EXCEPT ![t] = g.dir] /\ todo' = todo
      /\ h # NoSector => handle' = [handle EXCEPT ![t] = h]
                         /\ todo' = <<Write(h, [disk[h] EXCEPT !.numVisits = @ + 1])>>
  BY DEF Open, AtRest
<1>2. PICK F, G : Sound(disk, F, G, {}, handle, xfer)
  BY <1>1, RestSound
<1>3. Shape(disk, F, G) /\ NamesOK(disk) /\ UsersOK(disk, F, handle, xfer) /\ target = {}
  BY <1>1, <1>2, RestSound DEF Sound
<1>4. PICK n : handle' = [handle EXCEPT ![t] = n] /\ n \in F /\ (h # NoSector => n = h)
  <2>1. CASE h = NoSector
    <3>1. LeadsTo(p, g, F, G)
      BY <1>3, PathLeads
    <3>2. g.dir \in F
      BY <1>3, <3>1 DEF LeadsTo, Shape
    <3> QED BY <1>1, <2>1, <3>2
  <2>2. CASE h # NoSector
    <3>1. h \in F
      BY <1>3, <2>2, LookupFinds
    <3> QED BY <1>1, <2>2, <3>1
  <2> QED BY <2>1, <2>2
<1>5. DOMAIN handle' = Thread /\ \A u \in Thread : handle'[u] # NoSector => handle'[u] \in F
  BY <1>3, <1>4 DEF FilesInv, UsersOK
<1>6. UsersOK(disk, F, handle', xfer)
  BY <1>1, <1>3, <1>5, NobodyWrites
<1>7. Sound(disk, F, G, {}, handle', xfer)
  BY <1>2, <1>6 DEF Sound
<1>8. SoundDisk(disk, {}, handle', xfer)
  BY <1>7 DEF SoundDisk
<1>9. (\E S : todo' \in Seq(S)) /\ Safe(disk, todo', {}, handle', xfer)
  <2>1. CASE h = NoSector
    <3>1. todo' = <<>> /\ todo' \in Seq({})
      BY <1>1, <2>1
    <3>2. Safe(disk, <<>>, {}, handle', xfer)
      BY <1>8, SafeNone
    <3> QED BY <3>1, <3>2
  <2>2. CASE h # NoSector
    <3> PICK hdr : hdr = [disk[h] EXCEPT !.numVisits = @ + 1]
      OBVIOUS
    <3> PICK e : e = Write(h, hdr)
      OBVIOUS
    <3>1. h \in F /\ Fields(disk[h])
      BY <1>3, <1>4, <2>2 DEF Shape, HeaderOK
    <3>2. SameHeader(disk[h], hdr)
      BY <3>1, HeaderField2
    <3>3. Safe(disk, <<Write(h, hdr)>>, {}, handle', xfer)
      BY <1>7, <3>1, <3>2, SafeHeader
    <3>4. todo' = <<Write(h, hdr)>> /\ todo' = <<e>> /\ <<e>> \in Seq({e})
      BY <1>1, <2>2
    <3> QED BY <3>3, <3>4
  <2> QED BY <2>1, <2>2
<1> QED BY <1>1, <1>3, <1>5, <1>8, <1>9 DEF FilesInv

\* A formatted disk.
LEMMA SmallFile ==
    ASSUME NEW d, NEW f \in Sector, NEW s \in Sector, NEW c \in Sector,
           d[f] = SmallHeader(s), d[s] = IndexTable(<<c>>), f # s, f # c, s # c
    PROVE  /\ HeaderOK(d, f)
           /\ OwnedBy(d, f) = {f, s, c}
           /\ ContentOf(d, f) = c
           /\ d[f].fileType = 1 /\ d[f].numSectors = 1
<1>0. NoSector \notin Sector
  BY SizesAssumption DEF NoSector, Sector
<1>1. /\ d[f].fileType = 1 /\ d[f].numSectors = 1 /\ d[f].numBytes = SectorSize
      /\ d[f].primaryIndexTable = <<s>> /\ d[f].kind = "header" /\ DOMAIN d[f] = HeaderField
  BY DEF SmallHeader, Header, HeaderField
<1>2. NumTables(1) = 1 /\ divRoundUp(SectorSize, SectorSize) = 1
  <2>1. ASSUME NEW b \in Nat, b > 0
        PROVE  (1 + b - 1) \div b = 1 /\ (b + b - 1) \div b = 1
    <3>1. b \in Int /\ 0 \in 0..b-1 /\ b - 1 \in 0..b-1 /\ b * 1 + 0 = 1 + b - 1
          /\ b * 1 + (b - 1) = b + b - 1
      BY <2>1
    <3> QED BY <3>1, <2>1, DivModUnique
  <2> QED BY <2>1, SizesAssumption DEF NumTables, divRoundUp
<1>3. (1 - 1) \div IndexSize = 0 /\ (1 - 1) % IndexSize = 0
  <2> PICK b : b = IndexSize
    OBVIOUS
  <2>1. b \in Int /\ b > 0 /\ 0 \in 0..b-1 /\ b * 0 + 0 = 0
    BY SizesAssumption
  <2>2. (b * 0 + 0) \div b = 0 /\ (b * 0 + 0) % b = 0
    BY <2>1, DivModUnique
  <2> QED BY <2>1, <2>2
<1>4. DataSector(d, d[f], 1) = c
  BY <1>1, <1>3 DEF DataSector, IndexTable
<1>5. Tables(d[f]) = {s}
  BY <1>1, <1>2 DEF Tables
<1>6. Fields(d[f])
  BY <1>1, <1>2, SizesAssumption DEF Fields
<1>7. \A i \in 1..d[f].numSectors : DataSector(d, d[f], i) = c
  BY <1>1, <1>4
<1>10. DataOnce(d, f)
  BY <1>1 DEF DataOnce
<1>8. HeaderOK(d, f)
  BY <1>5, <1>6, <1>7, <1>10 DEF HeaderOK, IndexTable
<1>9. Blocks(d, d[f]) = {c, s}
  BY <1>1, <1>4, <1>5 DEF Blocks
<1> QED BY <1>0, <1>1, <1>4, <1>8, <1>9 DEF OwnedBy, ContentOf

\* A formatted disk holds the bit map and an empty root.
LEMMA FormattedTree ==
    ASSUME NEW o, NEW x, UsersOK(Formatted, {FreeMapSector, DirectorySector}, o, x)
    PROVE  Sound(Formatted, {FreeMapSector, DirectorySector}, {DirectorySector}, {}, o, x)
<1> PICK d : d = Formatted
  OBVIOUS
<1> PICK F, G : F = {FreeMapSector, DirectorySector} /\ G = {DirectorySector}
  OBVIOUS
<1>0. 0..5 \subseteq Sector /\ \A i \in 0..5 : i \in Sector
  BY SizesAssumption DEF Sector
<1>1. /\ DOMAIN d = Sector
      /\ d[0] = SmallHeader(2) /\ d[1] = SmallHeader(4)
      /\ d[2] = IndexTable(<<3>>) /\ d[3] = MapFile(0..5)
      /\ d[4] = IndexTable(<<5>>) /\ d[5] = DirFile(EmptyTable(NoName))
  BY <1>0 DEF Formatted, FreeMapSector, DirectorySector
<1>2. /\ HeaderOK(d, 0) /\ OwnedBy(d, 0) = {0, 2, 3} /\ ContentOf(d, 0) = 3
      /\ d[0].fileType = 1 /\ d[0].numSectors = 1
  <2>1. 0 \in Sector /\ 2 \in Sector /\ 3 \in Sector /\ 0 # 2 /\ 0 # 3 /\ 2 # 3
    BY <1>0
  <2> QED BY <1>1, <2>1, SmallFile
<1>3. /\ HeaderOK(d, 1) /\ OwnedBy(d, 1) = {1, 4, 5} /\ ContentOf(d, 1) = 5
      /\ d[1].fileType = 1 /\ d[1].numSectors = 1
  <2>1. 1 \in Sector /\ 4 \in Sector /\ 5 \in Sector /\ 1 # 4 /\ 1 # 5 /\ 4 # 5
    BY <1>0
  <2> QED BY <1>1, <2>1, SmallFile
<1>4. MapOK(d) /\ MarkedOn(d) = 0..5
  BY <1>0, <1>1, <1>2 DEF MapOK, OneSector, MarkedOn, MapFile, FreeMapSector
<1>5. TableOf(d, 1) = EmptyTable(NoName) /\ d[ContentOf(d, 1)].kind = "dir"
  BY <1>1, <1>3 DEF TableOf, DirFile
<1>6. TableOK(EmptyTable(NoName)) /\ InUse(EmptyTable(NoName)) = {}
  BY DEF TableOK, InUse, EmptyTable, Entry, EntryField
<1>7. DirOK(d, 1)
  BY <1>0, <1>3, <1>5, <1>6 DEF DirOK, OneSector
<1>8. LinksOK(d, F, G) /\ LinkedOnce(d, G) /\ NamesOK(d)
  BY <1>5, <1>6 DEF LinksOK, LinkedOnce, NamesOK, RootNames, DirectorySector
<1>9. NoneShared(d, F)
  BY <1>2, <1>3 DEF NoneShared, FreeMapSector, DirectorySector
<1>10. Shape(d, F, G)
  BY <1>1, <1>2, <1>3, <1>4, <1>7, <1>8, <1>9 DEF Shape, FreeMapSector, DirectorySector
<1>11. Marked(d, F, {})
  BY <1>2, <1>3, <1>4 DEF Marked, FreeMapSector, DirectorySector
<1> QED BY <1>8, <1>10, <1>11 DEF Sound

\* A formatted disk is sound.
LEMMA FormattedSound ==
    ASSUME NEW o, NEW x, UsersOK(Formatted, {FreeMapSector, DirectorySector}, o, x)
    PROVE  SoundDisk(Formatted, {}, o, x)
BY FormattedTree DEF SoundDisk

-----------------------------------------------------------------------------
(***************************************************************************)
(* Format and restart.                                                     *)
(***************************************************************************)
\* The invariant holds at the start,
LEMMA FilesInit == Init => FilesInv
<1> SUFFICES ASSUME Init PROVE FilesInv
  OBVIOUS
<1>1. /\ disk = Formatted /\ todo = <<>> /\ machine = "up" /\ target = {}
      /\ DOMAIN handle = Thread
      /\ \A t \in Thread : handle[t] = NoSector /\ xfer[t] = NoTransfer
  BY DEF Init
<1>2. UsersOK(Formatted, {FreeMapSector, DirectorySector}, handle, xfer)
  BY <1>1, IdleUsers
<1>3. SoundDisk(Formatted, {}, handle, xfer)
  BY <1>2, FormattedSound
<1>4. Safe(Formatted, <<>>, {}, handle, xfer)
  BY <1>3, SafeNone
<1>5. todo \in Seq({})
  BY <1>1
<1> QED BY <1>1, <1>3, <1>4, <1>5 DEF FilesInv

\* and when the disk is formatted again.
LEMMA FormatSound ==
    ASSUME FilesInv, Format
    PROVE  FilesInv'
<1>1. /\ machine = "down" /\ machine' = "up" /\ target' = {} /\ UNCHANGED <<todo, handle, xfer>>
      /\ disk' = Formatted
  BY DEF Format
<1>2. /\ todo = <<>> /\ DOMAIN handle = Thread
      /\ \A t \in Thread : handle[t] = NoSector /\ xfer[t].op # "write"
  BY <1>1 DEF FilesInv
<1>3. UsersOK(Formatted, {FreeMapSector, DirectorySector}, handle, xfer)
  BY <1>2 DEF UsersOK
<1>4. SoundDisk(Formatted, {}, handle, xfer)
  BY <1>3, FormattedSound
<1>5. Safe(Formatted, <<>>, {}, handle, xfer)
  BY <1>4, SafeNone
<1>6. todo \in Seq({})
  BY <1>2
<1> QED BY <1>1, <1>2, <1>4, <1>5, <1>6 DEF FilesInv

\* The names in the directories are lost.
LostNames(x) ==
    [i \in 1..NumDirEntries |-> IF x[i].inUse THEN [x[i] EXCEPT !.name = Lost] ELSE x[i]]

\* A table whose names are lost has the same entries otherwise.
LEMMA LostEntries ==
    ASSUME NEW x, TableOK(x)
    PROVE  SameEntries(x, LostNames(x)) /\ \A i \in InUse(LostNames(x)) : LostNames(x)[i].name = Lost
<1>1. ASSUME NEW i \in 1..NumDirEntries
      PROVE  /\ LostNames(x)[i].inUse = x[i].inUse
             /\ LostNames(x)[i].sector = x[i].sector
             /\ DOMAIN LostNames(x)[i] = EntryField
             /\ LostNames(x)[i].inUse \in BOOLEAN
             /\ x[i].inUse => LostNames(x)[i].name = Lost
  <2>1. DOMAIN x[i] = EntryField /\ x[i].inUse \in BOOLEAN
    BY DEF TableOK
  <2>2. CASE x[i].inUse
    <3>1. LostNames(x)[i] = [x[i] EXCEPT !.name = Lost]
      BY <2>2 DEF LostNames
    <3> QED BY <2>1, <2>2, <3>1 DEF EntryField
  <2>3. CASE ~x[i].inUse
    <3>1. LostNames(x)[i] = x[i]
      BY <2>3 DEF LostNames
    <3> QED BY <2>1, <2>3, <3>1
  <2> QED BY <2>2, <2>3
<1>2. DOMAIN LostNames(x) = 1..NumDirEntries
  BY DEF LostNames
<1> QED BY <1>1, <1>2 DEF SameEntries, TableOK, InUse

\* A restart only loses names.
LEMMA RestartDisk ==
    ASSUME NEW d, NEW e, NEW F, NEW G, NEW o, NEW x, Sound(d, F, G, {}, o, x),
           e = [s \in Sector |-> IF d[s].kind # "dir" THEN d[s] ELSE DirFile(LostNames(d[s].table))]
    PROVE  Sound(e, F, G, {}, o, x)
<1>0. Shape(d, F, G)
  BY DEF Sound
<1>1. ASSUME NEW f \in F
      PROVE  SameLayout(d, e, f) /\ Fields(e[f]) /\ e[f].fileType = d[f].fileType
  <2>1. HeaderOK(d, f)
    BY <1>0 DEF Shape
  <2>2. f \in Sector /\ d[f].kind = "header" /\ Fields(d[f])
    BY <2>1 DEF HeaderOK, Fields
  <2>3. e[f] = d[f]
    BY <2>2
  <2>4. \A s \in Tables(d[f]) : s \in Sector /\ d[s].kind = "table"
    BY <2>1 DEF HeaderOK
  <2>5. \A s \in Tables(d[f]) : e[s] = d[s]
    BY <2>4
  <2> QED BY <2>2, <2>3, <2>5 DEF SameLayout
<1>2. ASSUME NEW D \in G
      PROVE  /\ e[ContentOf(d, D)].kind = "dir"
             /\ e[ContentOf(d, D)].table = LostNames(TableOf(d, D))
             /\ TableOK(TableOf(d, D))
  <2> PICK c : c = ContentOf(d, D)
    OBVIOUS
  <2>1. c \in Sector /\ d[c].kind = "dir" /\ TableOK(d[c].table)
    BY <1>0 DEF Shape, DirOK, OneSector, TableOf
  <2>2. e[c] = DirFile(LostNames(d[c].table))
    BY <2>1
  <2> QED BY <2>1, <2>2 DEF DirFile, TableOf
<1>3. /\ e[ContentOf(d, FreeMapSector)] = d[ContentOf(d, FreeMapSector)]
      /\ d[ContentOf(d, FreeMapSector)].kind = "map" /\ MarkedOn(d) \subseteq Sector
  <2> PICK c : c = ContentOf(d, FreeMapSector)
    OBVIOUS
  <2>1. c \in Sector /\ d[c].kind = "map" /\ MarkedOn(d) \subseteq Sector
    BY <1>0 DEF Shape, MapOK, OneSector
  <2> QED BY <2>1
<1>4. \A D \in G : SameEntries(TableOf(d, D), e[ContentOf(d, D)].table)
  BY <1>2, LostEntries
<1>5. DOMAIN e = Sector
  OBVIOUS
<1>6. Similar(d, e, F, G)
  BY <1>1, <1>2, <1>3, <1>4, <1>5 DEF Similar, MarkedOn
<1>7. Shape(e, F, G)
  BY <1>0, <1>6, SimilarShape
<1>8. /\ \A f \in F : OwnedBy(e, f) = OwnedBy(d, f)
      /\ \A D \in G \cup {FreeMapSector} : ContentOf(e, D) = ContentOf(d, D)
  BY <1>0, <1>6, SimilarPlaces
<1>9. MarkedOn(e) = MarkedOn(d)
  BY <1>3, <1>8 DEF MarkedOn
<1>10. Marked(e, F, {})
  BY <1>8, <1>9 DEF Marked, Sound
<1>11. UsersOK(e, F, o, x)
  BY <1>0, <1>6, UsersKept DEF Sound
<1>12. NamesOK(e)
  <2>1. DirectorySector \in G
    BY <1>0 DEF Shape
  <2>2. TableOf(e, DirectorySector) = LostNames(TableOf(d, DirectorySector))
    BY <1>2, <1>8, <2>1 DEF TableOf
  <2>3. \A i \in InUse(TableOf(e, DirectorySector)) : TableOf(e, DirectorySector)[i].name = Lost
    BY <1>2, <2>1, <2>2, LostEntries
  <2>4. Lost \notin DirName
    BY PathAssumption DEF DirName
  <2> QED BY <2>3, <2>4 DEF NamesOK, RootNames
<1> QED BY <1>7, <1>10, <1>11, <1>12 DEF Sound

\* FileSystem::FileSystem(FALSE).
LEMMA RestartSound ==
    ASSUME FilesInv, Restart
    PROVE  FilesInv'
<1>1. /\ machine = "down" /\ target = {} /\ machine' = "up"
      /\ UNCHANGED <<todo, handle, xfer, target>>
      /\ disk' = [s \in Sector |->
                    IF disk[s].kind # "dir" THEN disk[s] ELSE DirFile(LostNames(disk[s].table))]
  BY DEF Restart, LostNames
<1>2. todo = <<>> /\ DOMAIN handle = Thread
  BY <1>1 DEF FilesInv
<1>3. PICK F, G : Sound(disk, F, G, {}, handle, xfer)
  BY <1>1 DEF FilesInv, SoundDisk
<1>4. Sound(disk', F, G, {}, handle, xfer)
  BY <1>1, <1>3, RestartDisk
<1>5. SoundDisk(disk', {}, handle, xfer)
  BY <1>4 DEF SoundDisk
<1>6. Safe(disk', <<>>, {}, handle, xfer)
  BY <1>5, SafeNone
<1>7. todo \in Seq({})
  BY <1>2
<1> QED BY <1>1, <1>2, <1>5, <1>6, <1>7 DEF FilesInv

-----------------------------------------------------------------------------
(***************************************************************************)
(* OpenFile::WriteAt.                                                      *)
(***************************************************************************)
\* Two sequences that make up an empty one are empty.
LEMMA ConcatEmptyParts ==
    ASSUME NEW S, NEW a \in Seq(S), NEW b \in Seq(S), a \o b = <<>>
    PROVE  Len(a) = 0 /\ Len(b) = 0
<1>1. Len(a \o b) = Len(a) + Len(b)
  OBVIOUS
<1>2. Len(a \o b) = 0 /\ Len(a) \in Nat /\ Len(b) \in Nat
  OBVIOUS
<1> QED BY <1>1, <1>2

\* A sequence of one element.
LEMMA OneElement ==
    ASSUME NEW S, NEW c \in S
    PROVE  <<c>> \in Seq(S) /\ Len(<<c>>) = 1
  OBVIOUS

\* An optional element and a sequence that make the empty sequence.
LEMMA NothingAppended ==
    ASSUME NEW c, NEW room, NEW nt \in Nat, NEW tables, NEW filled,
           DOMAIN tables = 1..nt, tables = [i \in 1..nt |-> tables[i]],
           filled = IF room = 0 THEN <<>> ELSE <<c>>, filled \o tables = <<>>
    PROVE  nt = 0 /\ room = 0
<1> PICK T : T = {c} \cup {tables[i] : i \in 1..nt}
  OBVIOUS
<1>1. tables \in [1..nt -> T]
  OBVIOUS
<1>2. tables \in Seq(T) /\ Len(tables) = nt
  BY <1>1, IsASeq, LenProperties
<1>3. CASE room = 0
  <2>1. filled = <<>> /\ filled \in Seq(T)
    BY <1>3
  <2>2. Len(tables) = 0
    BY <1>2, <2>1, ConcatEmptyParts
  <2> QED BY <1>2, <1>3, <2>2
<1>4. CASE room # 0
  <2>1. filled = <<c>> /\ c \in T
    BY <1>4
  <2>2. <<c>> \in Seq(T) /\ Len(<<c>>) = 1
    BY <2>1, OneElement
  <2>3. Len(filled) = 0
    BY <1>2, <2>1, <2>2, ConcatEmptyParts
  <2> QED BY <2>1, <2>2, <2>3
<1> QED BY <1>3, <1>4

\* ExtendAllocate that writes no index table grows in the sectors there are.
LEMMA ExtendFits ==
    ASSUME NEW d, NEW hdr, NEW map, NEW extra \in Nat \ {0}, NEW e,
           hdr.numSectors \in Nat, hdr.numBytes \in Nat,
           e = ExtendAllocate(d, hdr, map, extra), e.writes = <<>>
    PROVE  /\ divRoundUp(hdr.numBytes + extra, SectorSize) <= hdr.numSectors
           /\ e.hdr = [hdr EXCEPT !.numBytes = @ + extra]
<1>1. CASE divRoundUp(hdr.numBytes + extra, SectorSize) <= hdr.numSectors
  BY <1>1 DEF ExtendAllocate
<1>2. CASE ~(divRoundUp(hdr.numBytes + extra, SectorSize) <= hdr.numSectors)
  <2> PICK b : b = IndexSize
    OBVIOUS
  <2> PICK n \in Nat : n = hdr.numSectors
    OBVIOUS
  <2> PICK more : more = divRoundUp(extra, SectorSize)
    OBVIOUS
  <2> PICK room : room = IF n % b = 0 THEN 0 ELSE b - (n % b)
    OBVIOUS
  <2> PICK fill : fill = IF more < room THEN more ELSE room
    OBVIOUS
  <2> PICK rest : rest = more - fill
    OBVIOUS
  <2> PICK nt : nt = NumTables(rest)
    OBVIOUS
  <2>0. b \in Nat /\ b > 0
    BY SizesAssumption
  <2>1. more \in Int /\ more >= 1
    <3>1. SectorSize \in Nat /\ SectorSize > 0 /\ 1 \in 1..extra /\ extra \in Nat
      BY SizesAssumption
    <3>2. /\ more \in Int
          /\ ((1 - 1) \div SectorSize) + 1 \in 1..more
      BY <3>1, PartIndex
    <3> QED BY <3>1, <3>2
  <2>2. room \in Nat /\ fill \in Nat /\ rest \in Nat
    <3>1. n % b \in 0..b-1
      BY <2>0, DivMod
    <3> QED BY <2>0, <2>1, <3>1, SMTT(30)
  <2>3. nt \in Nat
    BY <2>2, RoundUpType, SizesAssumption DEF NumTables
  <2>4. nt = 0 /\ room = 0
    <3>1. PICK c, tables, filled :
             /\ DOMAIN tables = 1..nt /\ tables = [i \in 1..nt |-> tables[i]]
             /\ filled = IF room = 0 THEN <<>> ELSE <<c>>
             /\ filled \o tables = <<>>
      BY <1>2 DEF ExtendAllocate
    <3> QED BY <2>3, <3>1, NothingAppended
  <2>5. rest = more
    BY <2>1, <2>4
  <2>6. nt >= 1
    <3>1. 1 \in 1..rest /\ rest \in Nat
      BY <2>1, <2>2, <2>5
    <3>2. divRoundUp(rest, b) \in Int /\ ((1 - 1) \div b) + 1 \in 1..divRoundUp(rest, b)
      BY <2>0, <3>1, PartIndex
    <3> QED BY <2>0, <3>2 DEF NumTables
  <2> QED BY <2>4, <2>6
<1> QED BY <1>1, <1>2

\* Bounds of an index.
LEMMA InRange ==
    ASSUME NEW a \in Nat, NEW l \in Int, NEW j \in Int, NEW k \in Nat,
           1 <= j, j <= l - a + 1, l + 1 <= k
    PROVE  a + j \in 1..k
  OBVIOUS

\* The sectors of a request inside of the file.
LEMMA RequestSectors ==
    ASSUME NEW d, NEW h, HeaderOK(d, h), NEW m, \A s \in Sector : m[s] = d[s],
           NEW hdr, hdr.primaryIndexTable = d[h].primaryIndexTable,
           NEW pos \in Nat, NEW n \in Nat \ {0}, NEW bytes \in Nat, pos + n <= bytes,
           divRoundUp(bytes, SectorSize) <= d[h].numSectors,
           NEW j \in 1..Len(Sectors(m, hdr, pos, n))
    PROVE  \E i \in 1..d[h].numSectors : Sectors(m, hdr, pos, n)[j] = DataSector(d, d[h], i)
<1> PICK b : b = SectorSize
  OBVIOUS
<1>0. b \in Nat /\ b > 0
  BY SizesAssumption
<1> PICK first : first = First(pos)
  OBVIOUS
<1> PICK last : last = Last(pos, n)
  OBVIOUS
<1>1. first \in Nat
  <2>1. pos \div b \in Int
    BY <1>0
  <2>2. ((pos + 1) - 1) \div b + 1 \in 1..divRoundUp(pos + 1, b)
    BY <1>0, PartIndex
  <2>3. (pos + 1) - 1 = pos
    OBVIOUS
  <2>4. pos \div b + 1 >= 1
    BY <2>1, <2>2, <2>3
  <2> QED BY <2>1, <2>4 DEF First
<1>2. last \in Int /\ last + 1 <= d[h].numSectors
  <2>1. pos + n \in 1..bytes
    OBVIOUS
  <2>2. divRoundUp(bytes, b) \in Int /\ ((pos + n) - 1) \div b + 1 \in 1..divRoundUp(bytes, b)
    BY <1>0, <2>1, PartIndex
  <2>3. d[h].numSectors \in Nat
    BY DEF HeaderOK, Fields
  <2>4. last = ((pos + n) - 1) \div b
    BY DEF Last
  <2>5. last \in Int
    BY <1>0, <2>4
  <2> QED BY <2>2, <2>3, <2>4, <2>5
<1>3. Sectors(m, hdr, pos, n) = [i \in 1..last - first + 1 |-> DataSector(m, hdr, first + i)]
  BY DEF Sectors
<1> PICK sec : sec = Sectors(m, hdr, pos, n)
  OBVIOUS
<1> PICK l \in Int : l = last - first + 1
  BY <1>1, <1>2
<1>4. j \in 1..l
  <2> PICK z \in Nat : z = IF l < 0 THEN 0 ELSE l
    OBVIOUS
  <2>1. 1..z = 1..l
    OBVIOUS
  <2> PICK S : S = {sec[i] : i \in 1..z}
    OBVIOUS
  <2>2. sec \in [1..z -> S]
    BY <1>3, <2>1
  <2>3. Len(sec) = z
    BY <2>2, IsASeq, LenProperties
  <2> QED BY <2>1, <2>3
<1>5. sec[j] = DataSector(m, hdr, first + j)
  BY <1>3, <1>4
<1>6. first + j \in 1..d[h].numSectors
  <2>1. d[h].numSectors \in Nat /\ j \in Int /\ 1 <= j /\ j <= last - first + 1
    BY <1>1, <1>2, <1>4 DEF HeaderOK, Fields
  <2> QED BY <1>1, <1>2, <2>1, InRange
<1> PICK i \in 1..d[h].numSectors : i = first + j
  BY <1>6
<1>7. DataSector(m, hdr, i) = DataSector(d, d[h], i)
  <2> PICK k : k = ((i - 1) \div IndexSize) + 1
    OBVIOUS
  <2>1. d[h].numSectors \in Nat
    BY DEF HeaderOK, Fields
  <2>2. k \in 1..NumTables(d[h].numSectors)
    BY <2>1, TableIndex
  <2>3. d[h].primaryIndexTable[k] \in Tables(d[h])
    BY <2>2 DEF Tables
  <2>4. d[h].primaryIndexTable[k] \in Sector
    BY <2>3 DEF HeaderOK
  <2> QED BY <2>4 DEF DataSector
<1> QED BY <1>5, <1>7

\* A header with more bytes in the same sectors is in order.
LEMMA HeaderGrows ==
    ASSUME NEW hdr, Fields(hdr), NEW extra \in Nat,
           divRoundUp(hdr.numBytes + extra, SectorSize) <= hdr.numSectors
    PROVE  SameHeader(hdr, [hdr EXCEPT !.numBytes = @ + extra])
<1> PICK n \in Nat : n = hdr.numBytes + extra
  BY DEF Fields
<1>1. divRoundUp(n, SectorSize) <= hdr.numSectors
  OBVIOUS
<1>2. SameHeader(hdr, [hdr EXCEPT !.numBytes = n])
  BY <1>1 DEF Fields, SameHeader, HeaderField
<1> QED BY <1>2

\* A disk after no writes.
LEMMA WrittenNone ==
    ASSUME NEW d, NEW s
    PROVE  Written(d, <<>>, s) = d[s]
<1>1. 1..Len(<<>>) = {}
  OBVIOUS
<1> QED BY <1>1 DEF Written

\* The header that WriteAt goes on with.
LEMMA WriteHeader ==
    ASSUME ~Extending, NEW d, NEW old, Fields(old), NEW map, NEW pos \in Nat, NEW n \in Nat \ {0},
           NEW e, e = IF pos + n > old.numBytes THEN ExtendAllocate(d, old, map, pos + n - old.numBytes)
                      ELSE [ok |-> TRUE, hdr |-> old, writes |-> <<>>],
           e.writes = <<>>
    PROVE  /\ SameHeader(old, e.hdr)
           /\ \E bytes \in Nat : pos + n <= bytes /\ divRoundUp(bytes, SectorSize) <= old.numSectors
<1>0. old.numBytes \in Nat /\ old.numSectors \in Nat /\ divRoundUp(old.numBytes, SectorSize) <= old.numSectors
  BY DEF Fields
<1>1. CASE pos + n > old.numBytes
  <2> PICK extra \in Nat \ {0} : extra = pos + n - old.numBytes
    BY <1>0, <1>1
  <2>1. e = ExtendAllocate(d, old, map, extra)
    BY <1>1
  <2>2. /\ divRoundUp(old.numBytes + extra, SectorSize) <= old.numSectors
        /\ e.hdr = [old EXCEPT !.numBytes = @ + extra]
    BY <1>0, <2>1, ExtendFits
  <2>3. SameHeader(old, e.hdr)
    BY <2>2, HeaderGrows
  <2>4. old.numBytes + extra = pos + n /\ pos + n \in Nat /\ pos + n <= pos + n
    BY <1>0
  <2> QED BY <2>2, <2>3, <2>4
<1>2. CASE ~(pos + n > old.numBytes)
  <2>1. e.hdr = old
    BY <1>2
  <2>2. SameHeader(old, old)
    BY DEF SameHeader
  <2>3. pos + n <= old.numBytes
    BY <1>0, <1>2
  <2> QED BY <1>0, <2>1, <2>2, <2>3
<1> QED BY <1>1, <1>2

\* A thread begins to write inside of its file.
LEMMA WriterOK ==
    ASSUME NEW d, NEW F, NEW o, NEW x, UsersOK(d, F, o, x), NEW t \in Thread, NEW x2,
           \A u \in Thread : u # t => x2[u] = x[u],
           WritesInside(d, o[t], x2[t])
    PROVE  UsersOK(d, F, o, x2)
<1> SUFFICES ASSUME NEW u \in Thread
             PROVE  /\ o[u] # NoSector => o[u] \in F
                    /\ x2[u].op = "write" => WritesInside(d, o[u], x2[u])
  BY DEF UsersOK
<1>1. /\ o[u] # NoSector => o[u] \in F
      /\ x[u].op = "write" => WritesInside(d, o[u], x[u])
  BY DEF UsersOK
<1>2. CASE u = t
  BY <1>1, <1>2
<1>3. CASE u # t
  <2>1. x2[u] = x[u]
    BY <1>3
  <2> QED BY <1>1, <2>1
<1> QED BY <1>2, <1>3

\* What WriteAt does, apart from the bytes.
Begins(t, pos, n, old, e, after) ==
    /\ e.writes = <<>>
    /\ todo' = IF pos + n > old.numBytes THEN e.writes \o <<Write(handle[t], e.hdr)>> ELSE <<>>
    /\ \E y : /\ xfer' = [xfer EXCEPT ![t] = y]
              /\ y.pc = "arr_P" /\ y.sectors = Sectors(after, e.hdr, pos, n)
Request(pos, n, solo, sectors, buf) ==
    [NoTransfer EXCEPT !.pc = "arr_P", !.op = "write", !.pos = pos, !.len = n,
                       !.solo = solo, !.sectors = sectors, !.buf = buf]

\* The fields of a request.
LEMMA RequestFields ==
    ASSUME NEW pos, NEW n, NEW solo, NEW sectors, NEW buf
    PROVE  /\ Request(pos, n, solo, sectors, buf).pc = "arr_P"
           /\ Request(pos, n, solo, sectors, buf).sectors = sectors
  BY DEF Request, NoTransfer

\* What OpenFile::WriteAt does, in terms of the header it leaves.
LEMMA WriteBegins ==
    ASSUME ~Extending, NEW t, NEW pos, NEW n, WriteAt(t, pos, n),
           NEW old, old = disk[handle[t]]
    PROVE  \E e, after :
             /\ e = IF pos + n > old.numBytes THEN ExtendAllocate(disk, old, FreeMap, pos + n - old.numBytes)
                    ELSE [ok |-> TRUE, hdr |-> old, writes |-> <<>>]
             /\ after = [s \in Sector |-> Written(disk, e.writes, s)]
             /\ Begins(t, pos, n, old, e, after)
<1> DEFINE grows == pos + n > old.numBytes
           e == IF grows THEN ExtendAllocate(disk, old, FreeMap, pos + n - old.numBytes)
                ELSE [ok |-> TRUE, hdr |-> old, writes |-> <<>>]
           after == [s \in Sector |-> Written(disk, e.writes, s)]
           same == IF grows THEN Grown(shadow[handle[t]], after, e.hdr)
                   ELSE FileBytes(disk, old)
           new == Overwrite(same, pos, n, t)
           y == Request(pos, n, ~Aligned(old, pos, n), Sectors(after, e.hdr, pos, n),
                        [i \in 1..Last(pos, n) - First(pos) + 1 |-> SectorOf(new, First(pos) + i)])
<1>1. /\ Extending \/ e.writes = <<>>
      /\ todo' = IF grows THEN e.writes \o <<Write(handle[t], e.hdr)>> ELSE <<>>
      /\ xfer' = [xfer EXCEPT ![t] = y]
  BY Zenon DEF WriteAt, Request
<1>2. y.pc = "arr_P" /\ y.sectors = Sectors(after, e.hdr, pos, n)
  BY RequestFields
<1> HIDE DEF y, e, after
<1>3. Begins(t, pos, n, old, e, after)
  BY <1>1, <1>2 DEF Begins
<1> QED BY <1>3 DEF e, after

\* OpenFile::WriteAt when no write takes new sectors.
LEMMA WriteAtSound ==
    ASSUME ~Extending, FilesInv, TransferInv, NEW t \in Thread, NEW pos \in Nat, NEW n \in Nat \ {0},
           WriteAt(t, pos, n), UNCHANGED target
    PROVE  FilesInv'
<1>1. machine = "up" /\ todo = <<>> /\ handle[t] # NoSector /\ disk[handle[t]].fileType = 0
      /\ UNCHANGED <<disk, machine, handle>>
  BY DEF WriteAt, CanStart
<1>2. PICK F, G : Sound(disk, F, G, {}, handle, xfer)
  BY <1>1, RestSound
<1>3. Shape(disk, F, G) /\ UsersOK(disk, F, handle, xfer) /\ target = {}
  BY <1>1, <1>2, RestSound DEF Sound
<1> PICK h : h = handle[t]
  OBVIOUS
<1> PICK old : old = disk[h]
  OBVIOUS
<1>4. h \in F /\ HeaderOK(disk, h) /\ Fields(old) /\ h # NoSector
  <2>1. h \in F /\ h # NoSector
    BY <1>1, <1>3 DEF UsersOK
  <2>2. HeaderOK(disk, h)
    BY <1>3, <2>1 DEF Shape
  <2> QED BY <2>1, <2>2 DEF HeaderOK
<1>5. PICK e, after :
         /\ e = IF pos + n > old.numBytes THEN ExtendAllocate(disk, old, FreeMap, pos + n - old.numBytes)
                ELSE [ok |-> TRUE, hdr |-> old, writes |-> <<>>]
         /\ after = [s \in Sector |-> Written(disk, e.writes, s)]
         /\ Begins(t, pos, n, old, e, after)
  BY WriteBegins
<1>6. after = [s \in Sector |-> Written(disk, e.writes, s)]
  BY <1>5
<1>7. /\ e.writes = <<>>
      /\ todo' = IF pos + n > old.numBytes THEN e.writes \o <<Write(h, e.hdr)>> ELSE <<>>
      /\ \E y : /\ xfer' = [xfer EXCEPT ![t] = y]
                /\ y.pc = "arr_P" /\ y.sectors = Sectors(after, e.hdr, pos, n)
  BY <1>5 DEF Begins
<1>8. PICK y : /\ xfer' = [xfer EXCEPT ![t] = y]
               /\ y.pc = "arr_P" /\ y.sectors = Sectors(after, e.hdr, pos, n)
  BY <1>7
<1>9. SameHeader(old, e.hdr)
  BY <1>4, <1>5, <1>7, WriteHeader
<1>10. PICK bytes \in Nat : pos + n <= bytes /\ divRoundUp(bytes, SectorSize) <= old.numSectors
  BY <1>4, <1>5, <1>7, WriteHeader
<1>11. \A s \in Sector : after[s] = disk[s]
  BY <1>6, <1>7, WrittenNone
<1>12. WritesInside(disk, h, y)
  <2>1. e.hdr.primaryIndexTable = disk[h].primaryIndexTable
    BY <1>9 DEF SameHeader
  <2>2. ASSUME NEW j \in 1..Len(y.sectors)
        PROVE  \E i \in 1..disk[h].numSectors : y.sectors[j] = DataSector(disk, disk[h], i)
    <3>1. j \in 1..Len(Sectors(after, e.hdr, pos, n))
      BY <1>8
    <3>2. pos + n <= bytes /\ divRoundUp(bytes, SectorSize) <= disk[h].numSectors
      BY <1>10
    <3>3. \E i \in 1..disk[h].numSectors : Sectors(after, e.hdr, pos, n)[j] = DataSector(disk, disk[h], i)
      BY <1>4, <1>11, <2>1, <3>1, <3>2, RequestSectors
    <3> QED BY <1>8, <3>3
  <2>3. disk[h].fileType = 0
    BY <1>1
  <2> QED BY <1>4, <1>8, <2>2, <2>3 DEF WritesInside
<1>13. UsersOK(disk, F, handle, xfer')
  <2>1. DOMAIN xfer = Thread
    BY DEF TransferInv
  <2>2. \A u \in Thread : u # t => xfer'[u] = xfer[u]
    BY <1>8, <2>1
  <2>3. xfer'[t] = y
    BY <1>8, <2>1
  <2>4. WritesInside(disk, handle[t], xfer'[t])
    BY <1>12, <2>3
  <2> QED BY <1>3, <2>2, <2>4, WriterOK
<1>14. Sound(disk, F, G, {}, handle, xfer')
  BY <1>2, <1>13 DEF Sound
<1>15. SoundDisk(disk, {}, handle, xfer')
  BY <1>14 DEF SoundDisk
<1>16. (\E S : todo' \in Seq(S)) /\ Safe(disk, todo', {}, handle, xfer')
  <2>1. CASE ~(pos + n > old.numBytes)
    <3>1. todo' = <<>> /\ todo' \in Seq({})
      BY <1>7, <2>1
    <3>2. Safe(disk, <<>>, {}, handle, xfer')
      BY <1>15, SafeNone
    <3> QED BY <3>1, <3>2
  <2>2. CASE pos + n > old.numBytes
    <3> PICK c : c = Write(h, e.hdr)
      OBVIOUS
    <3>1. todo' = <<>> \o <<c>>
      BY <1>7, <2>2
    <3>2. <<>> \o <<c>> = <<c>> /\ <<c>> \in Seq({c})
      OBVIOUS
    <3>3. todo' = <<Write(h, e.hdr)>> /\ todo' \in Seq({c})
      BY <3>1, <3>2
    <3>4. Safe(disk, <<Write(h, e.hdr)>>, {}, handle, xfer')
      BY <1>4, <1>9, <1>14, SafeHeader
    <3> QED BY <3>3, <3>4
  <2> QED BY <2>1, <2>2
<1> QED BY <1>1, <1>3, <1>15, <1>16 DEF FilesInv

-----------------------------------------------------------------------------
(***************************************************************************)
(* FileSystem::Create.                                                     *)
(***************************************************************************)
\* Writes to sectors that are not marked.
FreshWrites(w, k, map) == \A i \in 1..k : w[i].sector \notin map

\* Writes to unmarked sectors leave every file alone,
LEMMA FreshKept ==
    ASSUME NEW d, NEW w, NEW k \in Nat, NEW e, Reaches(d, w, k, e), NEW map,
           FreshWrites(w, k, map), NEW s \in Sector, s \in map
    PROVE  e[s] = d[s]
<1>1. SectorAfter(d, w, k, e, s)
  BY DEF Reaches
<1>2. ASSUME NEW i, LastWrite(w, k, s, i)
      PROVE  FALSE
  BY <1>2 DEF LastWrite, FreshWrites
<1> QED BY <1>1, <1>2 DEF SectorAfter

\* so the disk stays as sound as it was.
LEMMA FreshSound ==
    ASSUME NEW d, NEW F, NEW G, NEW o, NEW x, Sound(d, F, G, {}, o, x), NEW tg,
           NEW w, NEW k \in Nat, NEW e, Reaches(d, w, k, e), FreshWrites(w, k, MarkedOn(d))
    PROVE  /\ Spared(d, e, F, G)
           /\ Sound(e, F, G, tg, o, x)
<1>1. Shape(d, F, G) /\ Marked(d, F, {}) /\ DOMAIN e = Sector
  BY DEF Sound, Reaches
<1>2. ASSUME NEW f \in F, NEW s \in OwnedBy(d, f)
      PROVE  e[s] = d[s]
  <2>1. s \in MarkedOn(d)
    BY <1>1 DEF Marked
  <2>2. HeaderOK(d, f)
    BY <1>1 DEF Shape
  <2>3. s \in Sector
    BY <2>2, Owns
  <2> QED BY <2>1, <2>3, FreshKept
<1>3. Spared(d, e, F, G)
  BY <1>1, <1>2, FreshSpared
<1>4. {} \subseteq tg
  OBVIOUS
<1> QED BY <1>3, <1>4, SoundSpared

\* A new file on disk m: its sectors are in tg; a new directory is empty.
NewFile(m, h, type, tg) ==
    /\ HeaderOK(m, h)
    /\ OwnedBy(m, h) \subseteq tg
    /\ m[h].fileType = type
    /\ type = 1 => DirOK(m, h) /\ InUse(TableOf(m, h)) = {}

\* The directory is written with the new entry.
LEMMA LinkStep ==
    ASSUME NEW m, NEW e, NEW F, NEW G, NEW o, NEW x, Sound(m, F, G, {}, o, x),
           \A t \in Thread : x[t].pc = "idle",
           NEW tg, tg \cap MarkedOn(m) = {}, NEW h, NEW type, NewFile(m, h, type, tg),
           NEW D \in G, type = 1 => D = DirectorySector, NEW n, Named(m, D, n, type),
           NEW j \in 1..NumDirEntries, ~TableOf(m, D)[j].inUse,
           Reaches(m, <<Write(ContentOf(m, D),
                              DirFile([TableOf(m, D) EXCEPT ![j] = Entry(TRUE, n, h)]))>>, 1, e)
    PROVE  /\ \E G2 : Sound(e, F \cup {h}, G2, tg, o, x)
           /\ \A f \in F : OwnedBy(e, f) \subseteq MarkedOn(m)
           /\ OwnedBy(e, h) \subseteq tg
           /\ ContentOf(e, FreeMapSector) = ContentOf(m, FreeMapSector)
<1>1. Shape(m, F, G) /\ NamesOK(m) /\ Marked(m, F, {}) /\ UsersOK(m, F, o, x)
  BY DEF Sound
<1> PICK tab : tab = [TableOf(m, D) EXCEPT ![j] = Entry(TRUE, n, h)]
  OBVIOUS
<1>2. TableOK(tab) /\ ContentOf(m, D) \in Sector
  <2>1. DirOK(m, D)
    BY <1>1 DEF Shape
  <2>2. TableOK(TableOf(m, D)) /\ ContentOf(m, D) \in Sector
    BY <2>1 DEF DirOK, OneSector
  <2>3. DOMAIN Entry(TRUE, n, h) = EntryField /\ Entry(TRUE, n, h).inUse = TRUE
    BY DEF Entry, EntryField
  <2> QED BY <2>2, <2>3 DEF TableOK
<1>3. NewTable(m, e, D, tab)
  BY <1>2, ReachesOne DEF NewTable
<1>4. HeaderOK(m, h) /\ OwnedBy(m, h) \subseteq tg /\ m[h].fileType = type
  BY DEF NewFile
<1>5. \A f \in F : OwnedBy(m, f) \subseteq MarkedOn(m)
  BY <1>1 DEF Marked
<1>6. \A f \in F : OwnedBy(m, f) \cap OwnedBy(m, h) = {}
  BY <1>4, <1>5
<1>7. h \notin F
  <2>1. h \in OwnedBy(m, h)
    BY <1>4, Owns
  <2> QED BY <1>6, <2>1
<1>8. m[h].fileType = 1 => D = DirectorySector /\ DirOK(m, h) /\ InUse(TableOf(m, h)) = {}
  BY <1>4 DEF NewFile
<1>9. Named(m, D, n, m[h].fileType)
  BY <1>4
<1>10. PICK G2 : /\ Shape(e, F \cup {h}, G2)
                 /\ NamesOK(e)
                 /\ MarkedOn(e) = MarkedOn(m)
                 /\ \A f \in F \cup {h} : OwnedBy(e, f) = OwnedBy(m, f)
                 /\ \A E \in G \cup {FreeMapSector} : ContentOf(e, E) = ContentOf(m, E)
  BY <1>1, <1>3, <1>4, <1>6, <1>7, <1>8, <1>9, Linking, ZenonT(60)
<1>11. Marked(e, F \cup {h}, tg)
  BY <1>4, <1>5, <1>10 DEF Marked
<1>12. UsersOK(e, F \cup {h}, o, x)
  <2>1. \A t \in Thread : o[t] # NoSector => o[t] \in F \cup {h}
    BY <1>1 DEF UsersOK
  <2> QED BY <1>1, <2>1, NobodyWrites
<1>13. Sound(e, F \cup {h}, G2, tg, o, x)
  BY <1>10, <1>11, <1>12 DEF Sound
<1> QED BY <1>4, <1>5, <1>10, <1>13

\* The first part of a list of writes.
LEMMA FirstPart ==
    ASSUME NEW S, NEW a \in Seq(S), NEW b \in Seq(S), NEW w, w = a \o b,
           NEW k \in Nat, k >= Len(a), NoStop(w, k)
    PROVE  NoStop(a, Len(a))
<1> SUFFICES ASSUME NEW i \in 1..Len(a)
             PROVE  a[i].sector # NoSector
  BY DEF NoStop
<1>1. w[i] = a[i] /\ i \in 1..k
  OBVIOUS
<1> QED BY <1>1 DEF NoStop

\* A sequence of two.
LEMMA TwoOfOne ==
    ASSUME NEW u, NEW v
    PROVE  <<u>> \o <<v>> = <<u, v>>
<1> PICK S : S = {u, v}
  OBVIOUS
<1>1. <<u>> \in Seq(S) /\ <<v>> \in Seq(S) /\ <<u,v>> \in Seq(S)
  OBVIOUS
<1>2. Len(<<u>> \o <<v>>) = 2 /\ Len(<<u,v>>) = 2 /\ (<<u>> \o <<v>>) \in Seq(S)
  BY <1>1
<1>3. (<<u>> \o <<v>>)[1] = u /\ (<<u>> \o <<v>>)[2] = v
  BY <1>1
<1>4. \A i \in 1..2 : (<<u>> \o <<v>>)[i] = <<u,v>>[i]
  BY <1>3
<1> QED BY <1>1, <1>2, <1>4, SeqEqual

\* Two writes, one after the other.
LEMMA TwoWrites ==
    ASSUME NEW m, NEW u, NEW v, NEW e
    PROVE  /\ Reaches(m, <<u, v>>, 1, e) => Reaches(m, <<u>>, 1, e)
           /\ Reaches(m, <<u, v>>, 2, e) => \E c : Reaches(m, <<u>>, 1, c) /\ Reaches(c, <<v>>, 1, e)
<1> PICK S : S = {u, v}
  OBVIOUS
<1> PICK b : b = <<u, v>>
  OBVIOUS
<1>a. <<u>> \in Seq(S) /\ <<v>> \in Seq(S) /\ Len(<<u>>) = 1 /\ Len(<<v>>) = 1
  OBVIOUS
<1>b. b = <<u>> \o <<v>>
  BY TwoOfOne
<1>1. <<u>> \in Seq(S) /\ <<v>> \in Seq(S) /\ b = <<u>> \o <<v>> /\ Len(<<u>>) = 1 /\ Len(<<v>>) = 1
      /\ 1 \in 0..Len(<<u>>) /\ 1 \in 0..Len(<<v>>) /\ Len(<<u>>) + 1 = 2
  BY <1>a, <1>b
<1>2. ASSUME Reaches(m, b, 1, e) PROVE Reaches(m, <<u>>, 1, e)
  BY <1>1, <1>2, ReachesFirst
<1>3. ASSUME Reaches(m, b, 2, e)
      PROVE  \E c : Reaches(m, <<u>>, 1, c) /\ Reaches(c, <<v>>, 1, e)
  <2>1. Reaches(m, b, Len(<<u>>) + 1, e)
    BY <1>1, <1>3
  <2>2. \E c : Reaches(m, <<u>>, Len(<<u>>), c) /\ Reaches(c, <<v>>, 1, e)
    BY <1>1, <2>1, ReachesSplit
  <2> QED BY <1>1, <2>2
<1> QED BY <1>2, <1>3

\* Both of two writes are made.
LEMMA BothWrites ==
    ASSUME NEW m, NEW u, NEW v, NEW e, Reaches(m, <<u, v>>, 2, e)
    PROVE  \E c : Reaches(m, <<u>>, 1, c) /\ Reaches(c, <<v>>, 1, e)
  BY TwoWrites

MakesFile(d, p, h, type, tg) ==
    \A m : Reaches(d, p, Len(p), m) /\ NoStop(p, Len(p)) => NewFile(m, h, type, tg)

\* Create: fresh writes that make a file, then the directory, then the bit map.
NewTree(F, h, k, p) == IF k <= Len(p) THEN F ELSE F \cup {h}
Grows(d, w, p, F, h, tg, o, x) ==
    \A k \in 0..Len(w) : \A e :
        Reaches(d, w, k, e) /\ NoStop(w, k) =>
            \E G2 : Sound(e, NewTree(F, h, k, p), G2, AfterWrites(w, k, tg), o, x)

\* The disks that Create leads to, write by write, are sound.
LEMMA CreateTree ==
    ASSUME NEW d, NEW F, NEW G, NEW o, NEW x, Sound(d, F, G, {}, o, x),
           \A t \in Thread : x[t].pc = "idle",
           NEW S, NEW p \in Seq(S), FreshWrites(p, Len(p), MarkedOn(d)),
           NEW tg \in SUBSET Sector, tg \cap MarkedOn(d) = {},
           NEW h, NEW type, MakesFile(d, p, h, type, tg),
           NEW D \in G, type = 1 => D = DirectorySector, NEW n, Named(d, D, n, type),
           NEW j \in 1..NumDirEntries, ~TableOf(d, D)[j].inUse,
           NEW u, u = Write(ContentOf(d, D), DirFile([TableOf(d, D) EXCEPT ![j] = Entry(TRUE, n, h)])),
           NEW v, v = Write(ContentOf(d, FreeMapSector), MapFile(MarkedOn(d) \cup tg)),
           NEW w, w = p \o <<u, v>>
    PROVE  Grows(d, w, p, F, h, tg, o, x)
<1> PICK b : b = <<u, v>>
  OBVIOUS
<1> PICK T : T = S \cup {u, v}
  OBVIOUS
<1>0. p \in Seq(T) /\ b \in Seq(T) /\ Len(b) = 2 /\ w = p \o b /\ Len(w) = Len(p) + 2 /\ Len(p) \in Nat
  OBVIOUS
<1> SUFFICES ASSUME NEW k \in 0..Len(w), NEW e, Reaches(d, w, k, e), NoStop(w, k)
             PROVE  \E G2 : Sound(e, NewTree(F, h, k, p), G2, AfterWrites(w, k, tg), o, x)
  BY DEF Grows
<1>1. CASE k <= Len(p)
  <2>1. k \in 0..Len(p) /\ k # Len(w) /\ k \in Nat
    BY <1>0, <1>1
  <2>2. Reaches(d, p, k, e)
    BY <1>0, <2>1, ReachesFirst
  <2>3. FreshWrites(p, k, MarkedOn(d))
    BY <2>1 DEF FreshWrites
  <2>4. Sound(e, F, G, tg, o, x)
    BY <2>1, <2>2, <2>3, FreshSound
  <2> QED BY <1>1, <2>1, <2>4 DEF NewTree, AfterWrites
<1>2. CASE k > Len(p)
  <2> PICK i \in 1..2 : k = Len(p) + i
    BY <1>0, <1>2, SMTT(30)
  <2>1. PICK m : Reaches(d, p, Len(p), m) /\ Reaches(m, b, i, e)
    <3>1. i \in 0..Len(b) /\ Reaches(d, w, Len(p) + i, e)
      BY <1>0
    <3> QED BY <1>0, <3>1, ReachesSplit
  <2>2. NewFile(m, h, type, tg)
    <3>1. NoStop(p, Len(p))
      <4>1. k \in Nat /\ k >= Len(p)
        BY <1>0, <1>2
      <4> QED BY <1>0, <4>1, FirstPart
    <3> QED BY <2>1, <3>1 DEF MakesFile
  <2>3. Spared(d, m, F, G) /\ Sound(m, F, G, {}, o, x)
    BY <1>0, <2>1, FreshSound
  <2>4. /\ MarkedOn(m) = MarkedOn(d)
        /\ \A E \in G : TableOf(m, E) = TableOf(d, E) /\ ContentOf(m, E) = ContentOf(d, E)
        /\ ContentOf(m, FreeMapSector) = ContentOf(d, FreeMapSector)
    <3>1. SparedSame(d, m, F, G)
      BY <2>3, SoundSpared
    <3> QED BY <3>1 DEF SparedSame
  <2>5. TableOf(m, D) = TableOf(d, D) /\ ContentOf(m, D) = ContentOf(d, D)
    BY <2>4
  <2>6. Named(m, D, n, type)
    BY <2>5 DEF Named
  <2>7. u = Write(ContentOf(m, D), DirFile([TableOf(m, D) EXCEPT ![j] = Entry(TRUE, n, h)]))
    BY <2>5
  <2>8. tg \cap MarkedOn(m) = {} /\ ~TableOf(m, D)[j].inUse
    BY <2>4, <2>5
  <2>9. ASSUME NEW c, Reaches(m, <<u>>, 1, c)
        PROVE  /\ \E G2 : Sound(c, F \cup {h}, G2, tg, o, x)
               /\ \A f \in F : OwnedBy(c, f) \subseteq MarkedOn(m)
               /\ OwnedBy(c, h) \subseteq tg
               /\ ContentOf(c, FreeMapSector) = ContentOf(m, FreeMapSector)
    <3>1. Reaches(m, <<Write(ContentOf(m, D),
                             DirFile([TableOf(m, D) EXCEPT ![j] = Entry(TRUE, n, h)]))>>, 1, c)
      BY <2>7, <2>9
    <3> QED BY <2>2, <2>3, <2>6, <2>8, <3>1, LinkStep, ZenonT(60)
  <2>13. NewTree(F, h, k, p) = F \cup {h}
    BY <1>0, <1>2 DEF NewTree
  <2>10. CASE i = 1
    <3>1. Reaches(m, <<u>>, 1, e)
      <4>1. Reaches(m, b, 1, e)
        BY <2>1, <2>10
      <4>2. Reaches(m, <<u, v>>, 1, e)
        BY <4>1
      <4> QED BY <4>2, TwoWrites, Zenon
    <3>2. k # Len(w)
      BY <1>0, <2>10
    <3>3. PICK G2 : Sound(e, F \cup {h}, G2, tg, o, x)
      BY <2>9, <3>1
    <3> QED BY <2>13, <3>2, <3>3 DEF AfterWrites
  <2>11. CASE i = 2
    <3>1. PICK c : Reaches(m, <<u>>, 1, c) /\ Reaches(c, <<v>>, 1, e)
      <4>1. Reaches(m, b, 2, e)
        BY <2>1, <2>11
      <4>2. Reaches(m, <<u, v>>, 2, e)
        BY <4>1
      <4> QED BY <4>2, BothWrites, Zenon
    <3>2. PICK G2 : Sound(c, F \cup {h}, G2, tg, o, x)
      BY <2>9, <3>1
    <3>3. /\ \A f \in F : OwnedBy(c, f) \subseteq MarkedOn(d)
          /\ OwnedBy(c, h) \subseteq tg
          /\ ContentOf(c, FreeMapSector) = ContentOf(d, FreeMapSector)
      BY <2>4, <2>9, <3>1
    <3> PICK map : map = MarkedOn(d) \cup tg
      OBVIOUS
    <3>4. map \in SUBSET Sector /\ ContentOf(d, FreeMapSector) \in Sector
      <4>1. MapOK(d)
        BY DEF Sound, Shape
      <4> QED BY <4>1 DEF MapOK, OneSector
    <3>5. Reaches(c, <<Write(ContentOf(c, FreeMapSector), MapFile(map))>>, 1, e)
      BY <3>1, <3>3
    <3>6. /\ DOMAIN e = Sector
          /\ e[ContentOf(c, FreeMapSector)] = MapFile(map)
          /\ OnlyAt(c, e, ContentOf(c, FreeMapSector))
      BY <3>3, <3>4, <3>5, ReachesOne
    <3>7. \A f \in F \cup {h} : OwnedBy(c, f) \subseteq map \cup {}
      BY <3>3
    <3>8. \A s \in Sector : s # ContentOf(c, FreeMapSector) => e[s] = c[s]
      BY <3>6 DEF OnlyAt
    <3>9. Sound(e, F \cup {h}, G2, {}, o, x)
      BY <3>2, <3>4, <3>6, <3>7, <3>8, SoundMap
    <3>10. k = Len(w)
      BY <1>0, <2>11
    <3> QED BY <2>13, <3>9, <3>10 DEF AfterWrites
  <2>12. i = 1 \/ i = 2
    OBVIOUS
  <2> QED BY <2>10, <2>11, <2>12
<1>3. k \in Int /\ Len(p) \in Int
  BY <1>0
<1>4. k <= Len(p) \/ k > Len(p)
  BY ONLY <1>3
<1> QED BY ONLY <1>1, <1>2, <1>4

OnlyWrite(w, k, i) == \A j \in 1..k : w[j].sector = w[i].sector => j = i

\* A sector that is written once holds what was written.
LEMMA ReachesAt ==
    ASSUME NEW d, NEW w, NEW k \in Nat, NEW e, Reaches(d, w, k, e), NEW i \in 1..k,
           w[i].sector \in Sector, OnlyWrite(w, k, i)
    PROVE  e[w[i].sector] = w[i].content
<1> PICK s \in Sector : s = w[i].sector
  OBVIOUS
<1>1. SectorAfter(d, w, k, e, s)
  BY DEF Reaches
<1>2. ~NotWritten(w, k, s)
  BY DEF NotWritten
<1>3. PICK l : LastWrite(w, k, s, l) /\ e[s] = w[l].content
  BY <1>1, <1>2 DEF SectorAfter
<1>4. l = i
  BY <1>3 DEF LastWrite, OnlyWrite
<1> QED BY <1>3, <1>4

\* The writes of Create before the directory.
Prefix(p, f, n, h, hdr, type) ==
    /\ Len(p) = NumTables(n) + (IF type = 1 THEN 2 ELSE 1)
    /\ \A i \in 1..NumTables(n) : p[i] = Write(f[Block(i) + 1], IndexTable(TableEntries(f, i)))
    /\ p[NumTables(n) + 1] = Write(h, hdr)
    /\ type = 1 => p[NumTables(n) + 2] = Write(f[2], DirFile(EmptyTable(NoName)))

\* The fields of a write.
LEMMA WriteFields ==
    ASSUME NEW s, NEW c
    PROVE  Write(s, c).sector = s /\ Write(s, c).content = c
  BY DEF Write

\* Places in different blocks differ.
LEMMA BlockUnique ==
    ASSUME NEW i \in Nat, NEW j \in Nat, Block(i) + 1 = Block(j) + 1
    PROVE  i = j
<1> PICK b : b = IndexSize + 1
  OBVIOUS
<1>1. b \in Int /\ b > 0
  BY SizesAssumption
<1> PICK x \in Int, y \in Int : x = i - 1 /\ y = j - 1
  OBVIOUS
<1>2. b * x \in Int /\ b * y \in Int /\ (b * x < b * y <=> x < y) /\ (b * y < b * x <=> y < x)
  BY <1>1, Multiples
<1>3. Block(i) = b * x /\ Block(j) = b * y
  <2>1. x * b = b * x /\ y * b = b * y
    BY <1>1
  <2> QED BY <2>1 DEF Block
<1>4. b * x = b * y
  BY <1>2, <1>3
<1>5. ~(x < y) /\ ~(y < x)
  BY <1>2, <1>4
<1> QED BY <1>5

\* Where the writes go.
PrefixPlace(p, f, n, h, i, q) ==
    /\ q \in 1..n + NumTables(n)
    /\ p[i].sector = f[q]
    /\ i <= NumTables(n) => q = Block(i) + 1
    /\ i > NumTables(n) => q = 2

\* Where the i-th of the first writes goes.
LEMMA PrefixGoes ==
    ASSUME NEW n \in Nat, NEW f, NEW map, FreshSeq(f, n + NumTables(n), map),
           NEW h, NEW hdr, NEW type, type = 1 => n = 1, NEW p, Prefix(p, f, n, h, hdr, type),
           NEW i \in 1..Len(p)
    PROVE  \/ i = NumTables(n) + 1 /\ p[i].sector = h
           \/ i # NumTables(n) + 1 /\ \E q : PrefixPlace(p, f, n, h, i, q)
<1>0. NumTables(n) \in Nat
  BY RoundUpType, SizesAssumption DEF NumTables
<1>1. CASE i \in 1..NumTables(n)
  <2>1. Block(i) + 1 \in 1..n + NumTables(n)
    BY <1>1, TablePlace
  <2>2. p[i].sector = f[Block(i) + 1]
    BY <1>1, WriteFields DEF Prefix
  <2>3. PrefixPlace(p, f, n, h, i, Block(i) + 1)
    BY <1>0, <1>1, <2>1, <2>2 DEF PrefixPlace
  <2> QED BY <1>0, <1>1, <2>3
<1>2. CASE i = NumTables(n) + 1
  BY <1>2, WriteFields DEF Prefix
<1>3. CASE i \notin 1..NumTables(n) /\ i # NumTables(n) + 1
  <2>0. Len(p) = NumTables(n) + (IF type = 1 THEN 2 ELSE 1)
    BY DEF Prefix
  <2>1. type = 1
    BY <1>0, <1>3, <2>0
  <2>2. i = NumTables(n) + 2 /\ i > NumTables(n) /\ ~(i <= NumTables(n))
    BY <1>0, <1>3, <2>0, <2>1
  <2>3. p[i].sector = f[2]
    BY <2>1, <2>2, WriteFields DEF Prefix
  <2>4. 2 \in 1..n + NumTables(n)
    <3>1. n = 1 /\ 1 \in 1..n
      BY <2>1
    <3>2. ((1 - 1) \div IndexSize) + 1 \in 1..NumTables(n)
      BY <3>1, TableIndex
    <3> QED BY <1>0, <3>1, <3>2
  <2>5. PrefixPlace(p, f, n, h, i, 2)
    BY <2>2, <2>3, <2>4 DEF PrefixPlace
  <2> QED BY <1>3, <2>5
<1> QED BY <1>1, <1>2, <1>3

\* They go to different sectors.
LEMMA PrefixDistinct ==
    ASSUME NEW n \in Nat, NEW f, NEW map, FreshSeq(f, n + NumTables(n), map),
           NEW h \in map, NEW hdr, NEW type, type = 1 => n = 1, NEW p, Prefix(p, f, n, h, hdr, type),
           NEW i \in 1..Len(p), NEW j \in 1..Len(p),
           p[i].sector = p[j].sector, p[i].sector # NoSector
    PROVE  i = j
<1> PICK T : T = NumTables(n)
  OBVIOUS
<1>0. T \in Nat
  BY RoundUpType, SizesAssumption DEF NumTables
<1>1. \/ i = T + 1 /\ p[i].sector = h
      \/ i # T + 1 /\ \E q : PrefixPlace(p, f, n, h, i, q)
  BY PrefixGoes
<1>2. \/ j = T + 1 /\ p[j].sector = h
      \/ j # T + 1 /\ \E q : PrefixPlace(p, f, n, h, j, q)
  BY PrefixGoes
<1>3. ASSUME NEW l, NEW q, PrefixPlace(p, f, n, h, l, q), p[l].sector # NoSector
      PROVE  p[l].sector \notin map
  <2>1. q \in 1..n + T /\ p[l].sector = f[q]
    BY <1>3 DEF PrefixPlace
  <2> QED BY <1>3, <2>1 DEF FreshSeq
<1>4. CASE i = T + 1 /\ p[i].sector = h
  BY <1>2, <1>3, <1>4
<1>5. CASE i # T + 1 /\ \E q : PrefixPlace(p, f, n, h, i, q)
  <2>1. PICK q : PrefixPlace(p, f, n, h, i, q)
    BY <1>5
  <2>2. p[i].sector \notin map
    BY <1>3, <2>1
  <2>3. j # T + 1
    BY <1>2, <2>2
  <2>4. PICK r : PrefixPlace(p, f, n, h, j, r)
    BY <1>2, <2>3
  <2>5. /\ q \in 1..n + T /\ p[i].sector = f[q] /\ (i <= T => q = Block(i) + 1) /\ (i > T => q = 2)
        /\ r \in 1..n + T /\ p[j].sector = f[r] /\ (j <= T => r = Block(j) + 1) /\ (j > T => r = 2)
    BY <2>1, <2>4 DEF PrefixPlace
  <2>6. q = r
    BY <2>5 DEF FreshSeq
  <2>7. i \in Nat /\ j \in Nat /\ i >= 1 /\ j >= 1 /\ i <= Len(p) /\ j <= Len(p)
        /\ Len(p) \in Int /\ Len(p) <= T + 2
    <3>1. Len(p) = T + (IF type = 1 THEN 2 ELSE 1)
      BY DEF Prefix
    <3>2. Len(p) \in Nat /\ Len(p) <= T + 2
      BY <1>0, <3>1
    <3> QED BY <3>2
  <2>8. ASSUME NEW l \in Nat PROVE Block(l) + 1 # 2
    <3>1. 1 \in 1..IndexSize /\ 1 \in Nat
      BY SizesAssumption
    <3>2. Block(l) + 1 # Block(1) + 1 + 1
      BY <3>1, PlacesDiffer
    <3>3. Block(1) = 0
      BY SizesAssumption DEF Block
    <3> QED BY <3>2, <3>3
  <2>9. CASE i <= T /\ j <= T
    BY <2>5, <2>6, <2>7, <2>9, BlockUnique
  <2>10. CASE i <= T /\ j > T
    BY <2>5, <2>6, <2>7, <2>8, <2>10
  <2>11. CASE i > T /\ j <= T
    BY <2>5, <2>6, <2>7, <2>8, <2>11
  <2>12. CASE i > T /\ j > T
    BY <1>0, <1>5, <2>3, <2>7, <2>12
  <2> QED BY <1>0, <2>7, <2>9, <2>10, <2>11, <2>12
<1> QED BY <1>1, <1>4, <1>5

\* No write goes to a marked sector.
LEMMA PrefixFresh ==
    ASSUME NEW n \in Nat, NEW f, NEW map, NEW h \in Sector, FreshSeq(f, n + NumTables(n), map \cup {h}),
           NEW hdr, NEW type, type = 1 => n = 1, NEW p, Prefix(p, f, n, h, hdr, type),
           h \notin map, map \subseteq Sector
    PROVE  FreshWrites(p, Len(p), map)
<1> SUFFICES ASSUME NEW i \in 1..Len(p)
             PROVE  p[i].sector \notin map
  BY DEF FreshWrites
<1>0. NoSector \notin Sector
  BY SizesAssumption DEF NoSector, Sector
<1> PICK both : both = map \cup {h}
  OBVIOUS
<1>1. \/ i = NumTables(n) + 1 /\ p[i].sector = h
      \/ i # NumTables(n) + 1 /\ \E q : PrefixPlace(p, f, n, h, i, q)
  BY PrefixGoes
<1>2. ASSUME NEW q, PrefixPlace(p, f, n, h, i, q)
      PROVE  p[i].sector \notin map
  <2>1. q \in 1..n + NumTables(n) /\ p[i].sector = f[q]
    BY <1>2 DEF PrefixPlace
  <2>2. f[q] # NoSector => f[q] \in Sector \ both
    BY <2>1 DEF FreshSeq
  <2> QED BY <1>0, <2>1, <2>2
<1> QED BY <1>1, <1>2

\* A tree that grows soundly is safe.
LEMMA GrowsSafe ==
    ASSUME NEW d, NEW w, NEW p, NEW F, NEW h, NEW tg, NEW o, NEW x, Grows(d, w, p, F, h, tg, o, x)
    PROVE  Safe(d, w, tg, o, x)
BY DEF Grows, Safe, SoundDisk

PrefixAt(e, p) == \A i \in 1..Len(p) : p[i].sector \in Sector => e[p[i].sector] = p[i].content

\* After all of them each sector holds what was written to it.
LEMMA PrefixReached ==
    ASSUME NEW n \in Nat, NEW f, NEW map, FreshSeq(f, n + NumTables(n), map),
           NEW h \in map, NEW hdr, NEW type, type = 1 => n = 1, NEW p, Prefix(p, f, n, h, hdr, type),
           Len(p) \in Nat, NEW d, NEW e, Reaches(d, p, Len(p), e)
    PROVE  PrefixAt(e, p)
<1> SUFFICES ASSUME NEW i \in 1..Len(p), p[i].sector \in Sector
             PROVE  e[p[i].sector] = p[i].content
  BY DEF PrefixAt
<1>1. p[i].sector # NoSector
  BY SizesAssumption DEF NoSector, Sector
<1>2. OnlyWrite(p, Len(p), i)
  BY <1>1, PrefixDistinct DEF OnlyWrite
<1> QED BY <1>2, ReachesAt

\* Then the new file is complete on the disk.
LEMMA PrefixMakes ==
    ASSUME NEW bytes \in Nat, NEW type \in {0, 1}, NEW visits, NEW n, n = SizeOf(bytes),
           NEW f, NEW map, FreshSeq(f, n + NumTables(n), map), NEW h \in Sector, h \in map,
           NEW hdr, hdr = NewHeader(f, bytes, type, visits), type = 1 => n = 1,
           NEW p, Prefix(p, f, n, h, hdr, type), NEW d
    PROVE  MakesFile(d, p, h, type, {h} \cup Mark({}, f))
<1>0. n \in Nat /\ NumTables(n) \in Nat
  BY SizeType
<1>a. Len(p) = NumTables(n) + (IF type = 1 THEN 2 ELSE 1)
  BY DEF Prefix
<1>b. Len(p) \in Nat /\ NumTables(n) + 1 \in 1..Len(p) /\ \A i \in 1..NumTables(n) : i \in 1..Len(p)
  BY <1>0, <1>a
<1>c. NoSector \notin Sector
  BY SizesAssumption DEF NoSector, Sector
<1> SUFFICES ASSUME NEW e, Reaches(d, p, Len(p), e), NoStop(p, Len(p))
             PROVE  NewFile(e, h, type, {h} \cup Mark({}, f))
  BY DEF MakesFile
<1>1. ASSUME NEW i \in 1..Len(p), p[i].sector \in Sector
      PROVE  e[p[i].sector] = p[i].content
  <2>1. PrefixAt(e, p)
    BY <1>0, <1>b, PrefixReached
  <2> QED BY <1>1, <2>1 DEF PrefixAt
<1>2. e[h] = hdr
  <2>1. p[NumTables(n) + 1].sector = h /\ p[NumTables(n) + 1].content = hdr
    BY WriteFields DEF Prefix
  <2> QED BY <1>1, <1>b, <2>1
<1>3. ASSUME NEW q \in 1..n + NumTables(n), f[q] # NoSector PROVE f[q] \in Sector
  BY <1>3 DEF FreshSeq
<1>4. ASSUME NEW i \in 1..NumTables(n)
      PROVE  f[Block(i) + 1] \in Sector /\ e[f[Block(i) + 1]] = IndexTable(TableEntries(f, i))
  <2>1. p[i].sector = f[Block(i) + 1] /\ p[i].content = IndexTable(TableEntries(f, i))
    BY <1>4, WriteFields DEF Prefix
  <2>2. f[Block(i) + 1] # NoSector
    BY <1>4, <1>b, <2>1 DEF NoStop
  <2>3. f[Block(i) + 1] \in Sector
    <3>1. Block(i) + 1 \in 1..n + NumTables(n)
      BY <1>0, <1>4, TablePlace
    <3> QED BY <1>3, <2>2, <3>1
  <2> QED BY <1>1, <1>b, <2>1, <2>3
<1>5. /\ HeaderOK(e, h)
      /\ OwnedBy(e, h) \subseteq {h} \cup Mark({}, f)
      /\ Placed(e, h, f, n)
  <2>1. HasHeader(e, h, f, bytes, type, visits)
    BY <1>2 DEF HasHeader
  <2>2. TablesAt(e, f, n)
    BY <1>4 DEF TablesAt
  <2> QED BY <2>1, <2>2, Allocated
<1>6. e[h].fileType = type /\ e[h].numSectors = n
  BY <1>2 DEF NewHeader, Header
<1>7. ASSUME type = 1
      PROVE  DirOK(e, h) /\ InUse(TableOf(e, h)) = {}
  <2>0. n = 1 /\ 1 \in 1..n
    BY <1>7
  <2>1. (1 - 1) \div IndexSize = 0
    <3> PICK b : b = IndexSize
      OBVIOUS
    <3>1. b \in Int /\ b > 0 /\ 0 \in 0..b-1 /\ b * 0 + 0 = 0
      BY SizesAssumption
    <3>2. (b * 0 + 0) \div b = 0
      BY <3>1, DivModUnique
    <3> QED BY <3>1, <3>2
  <2>2. ContentOf(e, h) = f[2]
    <3>1. DataSector(e, e[h], 1) = f[1 + ((1 - 1) \div IndexSize) + 1]
      BY <1>5, <2>0 DEF Placed
    <3>2. 1 + ((1 - 1) \div IndexSize) + 1 = 2
      BY <2>1
    <3> QED BY <3>1, <3>2 DEF ContentOf
  <2>3. p[NumTables(n) + 2].sector = f[2] /\ p[NumTables(n) + 2].content = DirFile(EmptyTable(NoName)) /\ NumTables(n) + 2 \in 1..Len(p)
    <3>1. p[NumTables(n) + 2].sector = f[2] /\ p[NumTables(n) + 2].content = DirFile(EmptyTable(NoName))
      BY <1>7, WriteFields DEF Prefix
    <3>2. NumTables(n) + 2 \in 1..Len(p)
      BY <1>0, <1>7, <1>a
    <3> QED BY <3>1, <3>2
  <2>4. f[2] \in Sector
    <3>1. f[2] # NoSector
      BY <2>3 DEF NoStop
    <3>2. ((1 - 1) \div IndexSize) + 1 \in 1..NumTables(n)
      BY <1>0, <2>0, TableIndex
    <3>3. 2 \in 1..n + NumTables(n)
      BY <1>0, <2>0, <3>2
    <3> QED BY <1>3, <3>1, <3>3
  <2>5. e[f[2]] = DirFile(EmptyTable(NoName))
    BY <1>1, <2>3, <2>4
  <2>6. TableOf(e, h) = EmptyTable(NoName) /\ e[ContentOf(e, h)].kind = "dir"
    BY <2>2, <2>5 DEF TableOf, DirFile
  <2>7. TableOK(EmptyTable(NoName)) /\ InUse(EmptyTable(NoName)) = {}
    BY DEF TableOK, InUse, EmptyTable, Entry, EntryField
  <2>8. OneSector(e, h, "dir")
    BY <1>6, <1>7, <2>0, <2>2, <2>4, <2>6 DEF OneSector
  <2> QED BY <2>6, <2>7, <2>8 DEF DirOK
<1> QED BY <1>5, <1>6, <1>7 DEF NewFile

Joined(p, q, u, r) == p = (q \o <<u>>) \o r

\* A list of writes in three parts.
LEMMA ThreeParts ==
    ASSUME NEW S, NEW q \in Seq(S), NEW u \in S, NEW r \in Seq(S), NEW p,
           Joined(p, q, u, r)
    PROVE  /\ p \in Seq(S)
           /\ Len(p) = Len(q) + 1 + Len(r)
           /\ \A i \in 1..Len(q) : p[i] = q[i]
           /\ p[Len(q) + 1] = u
           /\ \A i \in 1..Len(r) : p[Len(q) + 1 + i] = r[i]
<1>0. Len(q) \in Nat /\ Len(r) \in Nat /\ <<u>> \in Seq(S) /\ Len(<<u>>) = 1
  OBVIOUS
<1> PICK m : m = q \o <<u>>
  OBVIOUS
<1>1. m \in Seq(S) /\ Len(m) = Len(q) + 1
  BY <1>0
<1>2. \A i \in 1..Len(q) : m[i] = q[i]
  BY <1>0
<1>3. m[Len(q) + 1] = u
  BY <1>0
<1>4. p = m \o r /\ p \in Seq(S) /\ Len(p) = Len(m) + Len(r)
  BY <1>1 DEF Joined
<1>5. \A i \in 1..Len(m) : p[i] = m[i]
  BY <1>1, <1>4
<1>6. \A i \in 1..Len(r) : p[Len(m) + i] = r[i]
  <2> SUFFICES ASSUME NEW i \in 1..Len(r) PROVE p[Len(m) + i] = r[i]
    OBVIOUS
  <2>1. Len(m) + i \in 1..Len(m) + Len(r) /\ Len(m) + i > Len(m) /\ Len(m) + i - Len(m) = i
    BY <1>0, <1>1
  <2> QED BY <1>1, <1>4, <2>1
<1>7. \A i \in 1..Len(q) : i \in 1..Len(m)
  BY <1>0, <1>1
<1>8. Len(q) + 1 \in 1..Len(m)
  BY <1>0, <1>1
<1> QED BY <1>0, <1>1, <1>2, <1>3, <1>4, <1>5, <1>6, <1>7, <1>8

\* The contents of a new directory: one more write, or none.
MoreWrites(f, type) ==
    IF type = 1 THEN <<Write(f[2], DirFile(EmptyTable(NoName)))>> ELSE <<>>

\* The first writes of Create, one by one.
LEMMA PrefixIs ==
    ASSUME NEW n \in Nat, NEW f, NEW h, NEW hdr, NEW type \in {0, 1}, NEW p,
           Joined(p, NewTables(f, n), Write(h, hdr), MoreWrites(f, type))
    PROVE  /\ Prefix(p, f, n, h, hdr, type)
           /\ \E S : p \in Seq(S)
<1>0. NumTables(n) \in Nat
  BY RoundUpType, SizesAssumption DEF NumTables
<1>a. PICK q : q = NewTables(f, n)
  OBVIOUS
<1>b. PICK u : u = Write(h, hdr)
  OBVIOUS
<1>c. PICK v : v = Write(f[2], DirFile(EmptyTable(NoName)))
  OBVIOUS
<1>d. PICK r : r = MoreWrites(f, type)
  OBVIOUS
<1>e. PICK S : S = {q[i] : i \in 1..NumTables(n)} \cup {u, v}
  OBVIOUS
<1>1. /\ q = [i \in 1..NumTables(n) |-> q[i]]
      /\ \A i \in 1..NumTables(n) : q[i] = Write(f[Block(i) + 1], IndexTable(TableEntries(f, i)))
  BY <1>a DEF NewTables
<1>2. q \in Seq(S) /\ Len(q) = NumTables(n)
  <2>1. q \in [1..NumTables(n) -> S]
    BY <1>1, <1>e
  <2> QED BY <1>0, <2>1, IsASeq, LenProperties
<1>3. u \in S /\ v \in S
  BY <1>e
<1>4. /\ r \in Seq(S)
      /\ type = 1 => Len(r) = 1 /\ r[1] = v
      /\ type # 1 => Len(r) = 0
  <2>1. CASE type = 1
    <3>1. r = <<v>>
      BY <1>c, <1>d, <2>1 DEF MoreWrites
    <3>2. <<v>> \in Seq(S) /\ Len(<<v>>) = 1 /\ <<v>>[1] = v
      BY <1>3
    <3> QED BY <2>1, <3>1, <3>2
  <2>2. CASE type # 1
    <3>1. r = <<>>
      BY <1>d, <2>2 DEF MoreWrites
    <3>2. <<>> \in Seq(S) /\ Len(<<>>) = 0
      OBVIOUS
    <3> QED BY <2>2, <3>1, <3>2
  <2> QED BY <2>1, <2>2
<1>5. Joined(p, q, u, r)
  BY <1>a, <1>b, <1>d
<1>6. /\ p \in Seq(S)
      /\ Len(p) = Len(q) + 1 + Len(r)
      /\ \A i \in 1..Len(q) : p[i] = q[i]
      /\ p[Len(q) + 1] = u
      /\ \A i \in 1..Len(r) : p[Len(q) + 1 + i] = r[i]
  BY <1>2, <1>3, <1>4, <1>5, ThreeParts, SMTT(30)
<1>7. Len(p) = NumTables(n) + (IF type = 1 THEN 2 ELSE 1)
  <2>1. Len(p) = NumTables(n) + 1 + Len(r) /\ NumTables(n) \in Nat
    BY <1>0, <1>2, <1>6
  <2>2. (type = 1 => Len(r) = 1) /\ (type # 1 => Len(r) = 0)
    BY <1>4
  <2>3. CASE type = 1
    <3>1. Len(p) = NumTables(n) + 1 + 1 /\ NumTables(n) \in Int
      <4>1. Len(r) = 1
        BY <2>2, <2>3
      <4> QED BY <2>1, <4>1
    <3>2. Len(p) = NumTables(n) + 2
      BY <3>1
    <3> QED BY <2>3, <3>2
  <2>4. CASE type # 1
    <3>1. Len(p) = NumTables(n) + 1 + 0 /\ NumTables(n) \in Int
      BY <2>1, <2>2, <2>4
    <3>2. Len(p) = NumTables(n) + 1
      BY <3>1
    <3> QED BY <2>4, <3>2
  <2> QED BY <2>3, <2>4
<1>8. \A i \in 1..NumTables(n) : p[i] = Write(f[Block(i) + 1], IndexTable(TableEntries(f, i)))
  BY <1>1, <1>2, <1>6
<1>9. p[NumTables(n) + 1] = Write(h, hdr)
  BY <1>2, <1>6, <1>b
<1>10. ASSUME type = 1 PROVE p[NumTables(n) + 2] = Write(f[2], DirFile(EmptyTable(NoName)))
  <2>1. 1 \in 1..Len(r) /\ r[1] = v /\ Len(q) + 1 + 1 = NumTables(n) + 2
    <3>1. Len(r) = 1 /\ r[1] = v
      BY <1>4, <1>10
    <3>2. Len(q) + 1 + 1 = NumTables(n) + 2
      BY <1>0, <1>2
    <3> QED BY <3>1, <3>2
  <2> QED BY <1>6, <1>c, <2>1
<1> QED BY <1>6, <1>7, <1>8, <1>9, <1>10 DEF Prefix

\* A list that stops at once.
LEMMA SafeStop ==
    ASSUME NEW d, NEW tg, NEW o, NEW x, SoundDisk(d, {}, o, x)
    PROVE  Safe(d, <<Stop>>, tg, o, x)
<1> PICK w : w = <<Stop>>
  OBVIOUS
<1> SUFFICES ASSUME NEW k \in 0..Len(w), NEW e, Reaches(d, w, k, e), NoStop(w, k)
             PROVE  SoundDisk(e, AfterWrites(w, k, tg), o, x)
  BY DEF Safe
<1>1. Len(w) = 1 /\ w[1].sector = NoSector
  BY DEF Stop, Write
<1>2. k # 1
  BY <1>1 DEF NoStop
<1>3. k = 0
  BY <1>1, <1>2
<1>4. DOMAIN e = Sector /\ \A s \in Sector : e[s] = d[s]
  BY <1>3, ReachesNone
<1>5. PICK F, G : Sound(d, F, G, {}, o, x)
  BY DEF SoundDisk
<1>6. {} \subseteq AfterWrites(w, k, tg)
  OBVIOUS
<1>7. Sound(e, F, G, AfterWrites(w, k, tg), o, x)
  BY <1>4, <1>5, <1>6, SoundSame
<1> QED BY <1>7 DEF SoundDisk

\* The name that Create gives.
Creatable(path, type) == \/ path \in FilePath /\ type = 0
                         \/ path \in DirPath /\ type = 1

\* Create adds a name that the directory does not have yet.
LEMMA CreateNamed ==
    ASSUME NEW F, NEW G, Shape(disk, F, G), NamesOK(disk), NEW path, NEW type,
           Creatable(path, type),
           NEW g, g = getFileName(path), g.name # NoName, Lookup(path) = NoSector
    PROVE  /\ g.dir \in G
           /\ type = 1 => g.dir = DirectorySector
           /\ Named(disk, g.dir, g.name, type)
<1>0. LeadsTo(path, g, F, G)
  BY PathLeads DEF Creatable
<1>1. g.dir \in G
  BY <1>0 DEF LeadsTo
<1>2. ASSUME type = 1 PROVE g.dir = DirectorySector
  <2>1. Len(path) = 1
    BY <1>2, PathAssumption DEF Creatable
  <2> QED BY <1>0, <2>1 DEF LeadsTo
<1>3. g.name # Lost
  BY <1>0 DEF LeadsTo
<1>4. ASSUME g.dir = DirectorySector
      PROVE  g.name \in DirName \cup TopName /\ (g.name \in DirName => type = 1)
  <2>1. Len(path) = 1 /\ g.name = path[1]
    BY <1>0, <1>4 DEF LeadsTo
  <2>2. CASE path \in DirPath /\ type = 1
    BY <2>1, <2>2 DEF DirName
  <2>3. CASE path \in FilePath /\ type = 0
    <3>1. path[1] \in TopName
      BY <2>1, <2>3 DEF TopName
    <3>2. path[1] \notin DirName
      BY <2>1, <2>3, PathAssumption DEF DirName
    <3> QED BY <2>1, <3>1, <3>2
  <2> QED BY <2>2, <2>3 DEF Creatable
<1>5. NameFree(TableOf(disk, g.dir), g.name)
  <2>1. FindName(TableOf(disk, g.dir), g.name) = NoSector
    BY DEF Lookup, DirTable, TableOf, ContentOf
  <2> PICK tab : tab = TableOf(disk, g.dir)
    OBVIOUS
  <2> PICK H : H = Holding(tab, g.name)
    OBVIOUS
  <2>2. ASSUME H # {} PROVE FALSE
    <3>1. H \subseteq InUse(tab) /\ H \in SUBSET Nat
      BY DEF Holding, InUse
    <3>2. FirstOf(H) \in H
      BY <2>2, <3>1, FirstIn
    <3>3. tab[FirstOf(H)].sector \in F
      BY <1>1, <3>1, <3>2 DEF Shape, LinksOK
    <3>4. tab[FirstOf(H)].sector \in Sector
      BY <3>3 DEF Shape, HeaderOK
    <3>5. tab[FirstOf(H)].sector = NoSector
      BY <2>1, <2>2 DEF FindName
    <3> QED BY <3>4, <3>5, SizesAssumption DEF Sector, NoSector
  <2> QED BY <2>2 DEF Holding, NameFree
<1> QED BY <1>1, <1>2, <1>3, <1>4, <1>5 DEF Named

\* What Create does, apart from the bytes.
NewBytes(type, w, hdr) ==
    IF type = 1 \/ NoSector \in {w[i].sector : i \in 1..Len(w)} THEN <<>>
    ELSE FileBytes([s \in Sector |-> Written(disk, w, s)], hdr)
Creates(path, bytes, type, visits, g, h, a, w) ==
    /\ g = getFileName(path)
    /\ h = Find(FreeMap)
    /\ a = Allocate(FreeMap \cup {h}, bytes, type, visits)
    /\ w = CreateWrites(h, a, AddName(DirTable(g.dir), g.name, h), g.dir)
    /\ Lookup(path) = NoSector
    /\ h # NoSector
    /\ FreeEntries(DirTable(g.dir)) # {}
    /\ g.name = NoName => todo' = <<Stop>> /\ target' = target /\ shadow' = shadow
    /\ g.name # NoName => /\ todo' = w /\ target' = a.sectors \cup {h}
                          /\ shadow' = [shadow EXCEPT ![h] = NewBytes(type, w, a.hdr)]

\* What FileSystem::Create does.
LEMMA CreateIs ==
    ASSUME NEW t, NEW path, NEW bytes, NEW type, Create(t, path, bytes, type)
    PROVE  \E visits, g, h, a, w : Creates(path, bytes, type, visits, g, h, a, w)
<1>1. PICK visits \in NewVisits :
         LET g == getFileName(path)
             table == DirTable(g.dir)
             h == Find(FreeMap)
             a == Allocate(FreeMap \cup {h}, bytes, type, visits)
             w == CreateWrites(h, a, AddName(table, g.name, h), g.dir)
         IN  /\ Lookup(path) = NoSector
             /\ h # NoSector
             /\ FreeEntries(table) # {}
             /\ IF g.name = NoName
                THEN todo' = <<Stop>> /\ UNCHANGED <<shadow, target>>
                ELSE /\ todo' = w
                     /\ target' = a.sectors \cup {h}
                     /\ shadow' = [shadow EXCEPT ![h] = NewBytes(type, w, a.hdr)]
  BY DEF Create, NewBytes
<1> DEFINE g == getFileName(path)
           h == Find(FreeMap)
           a == Allocate(FreeMap \cup {h}, bytes, type, visits)
           w == CreateWrites(h, a, AddName(DirTable(g.dir), g.name, h), g.dir)
<1>2. /\ Lookup(path) = NoSector
      /\ h # NoSector
      /\ FreeEntries(DirTable(g.dir)) # {}
      /\ g.name = NoName => todo' = <<Stop>> /\ target' = target /\ shadow' = shadow
      /\ g.name # NoName => /\ todo' = w /\ target' = a.sectors \cup {h}
                            /\ shadow' = [shadow EXCEPT ![h] = NewBytes(type, w, a.hdr)]
  BY <1>1
<1>3. Creates(path, bytes, type, visits, g, h, a, w)
  BY <1>2 DEF Creates
<1> QED BY <1>3

\* What is allocated.
LEMMA FreshHeader ==
    ASSUME NEW map, NEW h, h = Find(map), h # NoSector
    PROVE  h \in Sector \ map
<1>1. FreshSeq(FindN(map, 1), 1, map)
  BY FindFresh
<1> QED BY <1>1 DEF FreshSeq, Find

FreshTarget(f, map, h, tg) ==
    /\ tg \subseteq Sector
    /\ tg \cap map = {}
    /\ Mark(map \cup {h}, f) = map \cup tg

\* What Create allocates was not marked.
LEMMA FreshMarks ==
    ASSUME NEW f, NEW n \in Nat, NEW map, NEW h \in Sector, FreshSeq(f, n, map \cup {h}), h \notin map
    PROVE  FreshTarget(f, map, h, {h} \cup Mark({}, f))
<1> PICK both : both = map \cup {h}
  OBVIOUS
<1>1. \A i \in 1..n : f[i] # NoSector => f[i] \in Sector \ both
  BY DEF FreshSeq
<1>2. Len(f) = n
  BY DEF FreshSeq
<1>3. Mark({}, f) \subseteq Sector \ both
  BY <1>1, <1>2 DEF Mark
<1>4. Mark(both, f) = both \cup Mark({}, f)
  BY DEF Mark
<1> QED BY <1>3, <1>4 DEF FreshTarget

\* A sector is what a directory has.
LEMMA OneSectorSize == SizeOf(SectorSize) = 1
<1> PICK b : b = SectorSize
  OBVIOUS
<1>1. b \in Int /\ b > 0 /\ b - 1 \in 0..b-1 /\ b * 1 + (b - 1) = b + b - 1
  BY SizesAssumption
<1>2. (b * 1 + (b - 1)) \div b = 1
  BY <1>1, DivModUnique
<1> QED BY <1>1, <1>2 DEF SizeOf, divRoundUp

\* The writes, in three parts.
EndsWith(w, p, D, table, map) ==
    w = p \o <<Write(ContentOf(disk, D), DirFile(table)),
               Write(ContentOf(disk, FreeMapSector), MapFile(map))>>

\* The writes of Create: those that make the file, the directory, the bit map.
LEMMA CreateParts ==
    ASSUME NEW map, NEW bytes \in Nat, NEW type \in {0, 1}, NEW visits, NEW a, NEW n, n = SizeOf(bytes),
           NEW f, f = FindN(map, n + NumTables(n)), type = 1 => n = 1,
           a = Allocate(map, bytes, type, visits), NEW h, NEW table, NEW D
    PROVE  \E p : /\ Joined(p, NewTables(f, n), Write(h, NewHeader(f, bytes, type, visits)),
                            MoreWrites(f, type))
                  /\ EndsWith(CreateWrites(h, a, table, D), p, D, table, Mark(map, f))
<1>1. /\ a.map = Mark(map, f)
      /\ a.hdr = NewHeader(f, bytes, type, visits)
      /\ a.writes = NewTables(f, n)
  BY AllocateIs
<1>2. a.hdr.fileType = type
  BY <1>1 DEF NewHeader, Header
<1>3. ASSUME type = 1
      PROVE  a.writes[1].content.dataSectors[1] = f[2]
  <2>0. n = 1 /\ n \in Nat /\ 1 \in 1..n
    BY <1>3
  <2>1. (1 - 1) \div IndexSize = 0 /\ (1 - 1) % IndexSize = 0
    <3> PICK b : b = IndexSize
      OBVIOUS
    <3>1. b \in Int /\ b > 0 /\ 0 \in 0..b-1 /\ b * 0 + 0 = 0
      BY SizesAssumption
    <3>2. (b * 0 + 0) \div b = 0 /\ (b * 0 + 0) % b = 0
      BY <3>1, DivModUnique
    <3> QED BY <3>1, <3>2
  <2>2. 1 = ((1 - 1) \div IndexSize) + 1 /\ 1 = ((1 - 1) % IndexSize) + 1
    BY <2>1
  <2>3. NumTables(n) \in Nat /\ 1 \in 1..NumTables(n)
    <3>1. ((1 - 1) \div IndexSize) + 1 \in 1..NumTables(n)
      BY <2>0, TableIndex
    <3>2. NumTables(n) \in Nat
      BY <2>0, RoundUpType, SizesAssumption DEF NumTables
    <3> QED BY <2>2, <3>1, <3>2
  <2>4. FreshSeq(f, n + NumTables(n), map)
    BY <2>0, <2>3, FindFresh
  <2>5. TableEntries(f, 1)[1] = f[1 + 1]
    BY <2>0, <2>2, <2>4, TableEntry
  <2>6. a.writes[1] = Write(f[Block(1) + 1], IndexTable(TableEntries(f, 1)))
    BY <1>1, <2>3 DEF NewTables
  <2> QED BY <2>5, <2>6 DEF Write, IndexTable
<1>4. PICK r : r = IF a.hdr.fileType = 1
          THEN <<Write(a.writes[1].content.dataSectors[1], DirFile(EmptyTable(NoName)))>>
          ELSE <<>>
  OBVIOUS
<1>5. r = MoreWrites(f, type)
  BY <1>2, <1>3, <1>4 DEF MoreWrites
<1>6. PICK p : p = (a.writes \o <<Write(h, a.hdr)>>) \o r
  OBVIOUS
<1>7. Joined(p, NewTables(f, n), Write(h, NewHeader(f, bytes, type, visits)), MoreWrites(f, type))
  BY <1>1, <1>5, <1>6 DEF Joined
<1>8. CreateWrites(h, a, table, D) = p \o <<Write(DirSector(D), DirFile(table)), Write(MapSector, MapFile(a.map))>>
  BY <1>4, <1>6 DEF CreateWrites
<1>9. DirSector(D) = ContentOf(disk, D) /\ MapSector = ContentOf(disk, FreeMapSector)
  BY DEF DirSector, MapSector, ContentOf
<1> QED BY <1>1, <1>7, <1>8, <1>9 DEF EndsWith

Fills(bytes, type, h, hdr, f, n, p) ==
    /\ n \in Nat /\ n = SizeOf(bytes)
    /\ type = 1 => n = 1
    /\ h \in Sector
    /\ FreshSeq(f, n + NumTables(n), MarkedOn(disk) \cup {h})
    /\ Prefix(p, f, n, h, hdr, type)
    /\ FreshWrites(p, Len(p), MarkedOn(disk))
Enters(type, h, g, j, p, u, v, w, tg) ==
    /\ j \in 1..NumDirEntries /\ ~TableOf(disk, g.dir)[j].inUse
    /\ u = Write(ContentOf(disk, g.dir),
                 DirFile([TableOf(disk, g.dir) EXCEPT ![j] = Entry(TRUE, g.name, h)]))
    /\ v = Write(ContentOf(disk, FreeMapSector), MapFile(MarkedOn(disk) \cup tg))
    /\ w = p \o <<u, v>>
    /\ tg \in SUBSET Sector /\ tg \cap MarkedOn(disk) = {}
    /\ type = 1 => g.dir = DirectorySector
    /\ Named(disk, g.dir, g.name, type)
    /\ MakesFile(disk, p, h, type, tg)
    /\ \E S : p \in Seq(S)

\* The writes of Create, in parts.
LEMMA CreateWhat ==
    ASSUME NEW F, NEW G, Sound(disk, F, G, {}, handle, xfer),
           NEW path, NEW bytes \in Nat, NEW type \in {0, 1},
           Creatable(path, type), type = 1 => bytes = SectorSize,
           NEW visits, NEW g, NEW h, NEW a, NEW w, Creates(path, bytes, type, visits, g, h, a, w),
           g.name # NoName
    PROVE  \E tg, f, n, p, j, u, v :
             /\ todo' = w /\ target' = tg
             /\ g.dir \in G
             /\ a.hdr = NewHeader(f, bytes, type, visits)
             /\ Fills(bytes, type, h, NewHeader(f, bytes, type, visits), f, n, p)
             /\ Enters(type, h, g, j, p, u, v, w, tg)
<1>1. PICK map : map = MarkedOn(disk) /\ map \subseteq Sector
  BY DEF Sound, Shape, MapOK
<1>2. FreeMap = map /\ DirTable(g.dir) = TableOf(disk, g.dir)
  BY <1>1 DEF FreeMap, MarkedOn, ContentOf, DirTable, TableOf
<1>3. h \in Sector /\ h \notin map
  BY <1>2, FreshHeader DEF Creates
<1>4. PICK n \in Nat : n = SizeOf(bytes) /\ NumTables(n) \in Nat
  BY SizeType
<1>5. PICK f : f = FindN(map \cup {h}, n + NumTables(n))
  OBVIOUS
<1>6. FreshSeq(f, n + NumTables(n), map \cup {h})
  BY <1>4, <1>5, FindFresh
<1>7. PICK tg : tg = {h} \cup Mark({}, f)
  OBVIOUS
<1>8. tg \subseteq Sector /\ tg \cap map = {} /\ Mark(map \cup {h}, f) = map \cup tg
  <2>1. PICK N : N = n + NumTables(n)
    OBVIOUS
  <2>2. N \in Nat /\ FreshSeq(f, N, map \cup {h})
    BY <1>4, <1>6, <2>1
  <2>3. FreshTarget(f, map, h, {h} \cup Mark({}, f))
    BY <1>3, <2>2, FreshMarks
  <2> QED BY <1>7, <2>3 DEF FreshTarget
<1>9. /\ a = Allocate(map \cup {h}, bytes, type, visits) /\ a.sectors = Mark({}, f)
      /\ a.hdr = NewHeader(f, bytes, type, visits)
  <2>1. a = Allocate(map \cup {h}, bytes, type, visits)
    BY <1>2 DEF Creates
  <2> QED BY <1>4, <1>5, <2>1, AllocateIs
<1>10. type = 1 => n = 1
  BY <1>4, OneSectorSize
<1>11. PICK table : table = AddName(TableOf(disk, g.dir), g.name, h)
  OBVIOUS
<1>12. w = CreateWrites(h, a, table, g.dir) /\ todo' = w /\ target' = tg
  BY <1>2, <1>7, <1>9, <1>11 DEF Creates
<1>13. PICK p : /\ Joined(p, NewTables(f, n), Write(h, NewHeader(f, bytes, type, visits)),
                          MoreWrites(f, type))
                /\ EndsWith(w, p, g.dir, table, map \cup tg)
  <2>1. PICK both : both = map \cup {h}
    OBVIOUS
  <2>2. f = FindN(both, n + NumTables(n)) /\ a = Allocate(both, bytes, type, visits)
    BY <1>5, <1>9, <2>1
  <2>3. \E p : /\ Joined(p, NewTables(f, n), Write(h, NewHeader(f, bytes, type, visits)),
                          MoreWrites(f, type))
               /\ EndsWith(CreateWrites(h, a, table, g.dir), p, g.dir, table, Mark(both, f))
    BY <1>4, <1>10, <2>2, CreateParts, ZenonT(60)
  <2> QED BY <1>8, <1>12, <2>1, <2>3
<1>14. Prefix(p, f, n, h, NewHeader(f, bytes, type, visits), type) /\ \E S : p \in Seq(S)
  BY <1>13, PrefixIs
<1>15. FreshWrites(p, Len(p), MarkedOn(disk))
  BY <1>1, <1>3, <1>6, <1>10, <1>14, PrefixFresh
<1>16. MakesFile(disk, p, h, type, tg)
  <2>1. h \in map \cup {h}
    OBVIOUS
  <2> QED BY <1>3, <1>4, <1>6, <1>7, <1>10, <1>14, <2>1, PrefixMakes
<1>17. /\ g.dir \in G
       /\ type = 1 => g.dir = DirectorySector
       /\ Named(disk, g.dir, g.name, type)
  BY CreateNamed DEF Creates, Sound
<1>18. PICK j : j \in 1..NumDirEntries /\ ~TableOf(disk, g.dir)[j].inUse
                /\ table = [TableOf(disk, g.dir) EXCEPT ![j] = Entry(TRUE, g.name, h)]
  <2>1. PICK E : E = FreeEntries(TableOf(disk, g.dir))
    OBVIOUS
  <2>2. E # {} /\ E \in SUBSET Nat
    BY <1>2, <2>1 DEF Creates, FreeEntries
  <2>3. FirstOf(E) \in E
    BY <2>2, FirstIn
  <2>4. FirstOf(E) \in 1..NumDirEntries /\ ~TableOf(disk, g.dir)[FirstOf(E)].inUse
    BY <2>1, <2>3 DEF FreeEntries
  <2> QED BY <1>11, <2>1, <2>4 DEF AddName
<1>19. PICK S : p \in Seq(S)
  BY <1>14
<1>20. PICK u, v : /\ u = Write(ContentOf(disk, g.dir),
                                DirFile([TableOf(disk, g.dir) EXCEPT ![j] = Entry(TRUE, g.name, h)]))
                   /\ v = Write(ContentOf(disk, FreeMapSector), MapFile(MarkedOn(disk) \cup tg))
  OBVIOUS
<1>21. w = p \o <<u, v>>
  BY <1>1, <1>13, <1>18, <1>20 DEF EndsWith
<1>22. tg \in SUBSET Sector /\ tg \cap MarkedOn(disk) = {}
  BY <1>1, <1>8
<1>23. Fills(bytes, type, h, NewHeader(f, bytes, type, visits), f, n, p)
  BY <1>1, <1>3, <1>4, <1>6, <1>10, <1>14, <1>15 DEF Fills
<1>24. Enters(type, h, g, j, p, u, v, w, tg)
  BY <1>14, <1>16, <1>17, <1>18, <1>20, <1>21, <1>22 DEF Enters
<1> QED BY <1>9, <1>12, <1>17, <1>23, <1>24

\* FileSystem::Create.
LEMMA CreateSound ==
    ASSUME FilesInv, NEW t \in Thread, NEW path, NEW bytes \in Nat, NEW type \in {0, 1},
           Creatable(path, type), type = 1 => bytes = SectorSize,
           Create(t, path, bytes, type)
    PROVE  FilesInv'
<1>1. /\ machine = "up" /\ todo = <<>> /\ \A u \in Thread : xfer[u].pc = "idle"
      /\ UNCHANGED <<disk, machine, handle, xfer>>
  BY DEF Create, AtRest
<1>2. PICK F, G : Sound(disk, F, G, {}, handle, xfer)
  BY <1>1, RestSound
<1>3. Shape(disk, F, G) /\ NamesOK(disk) /\ target = {}
  BY <1>1, <1>2, RestSound DEF Sound
<1>4. SoundDisk(disk, {}, handle, xfer)
  BY <1>2 DEF SoundDisk
<1>5. PICK visits, g, h, a, w : Creates(path, bytes, type, visits, g, h, a, w)
  BY CreateIs
<1>6. CASE g.name = NoName
  <2>1. todo' = <<Stop>> /\ target' = {}
    BY <1>3, <1>5, <1>6 DEF Creates
  <2>2. Safe(disk, todo', target', handle, xfer)
    BY <1>4, <2>1, SafeStop
  <2>3. todo' \in Seq({Stop}) /\ todo' # <<>>
    BY <2>1
  <2> QED BY <1>1, <1>4, <2>1, <2>2, <2>3 DEF FilesInv
<1>7. CASE g.name # NoName
  <2>1. PICK tg, f, n, p, j, u, v :
             /\ todo' = w /\ target' = tg
             /\ g.dir \in G
             /\ Fills(bytes, type, h, NewHeader(f, bytes, type, visits), f, n, p)
             /\ Enters(type, h, g, j, p, u, v, w, tg)
    BY <1>2, <1>5, <1>7, CreateWhat
  <2>2. FreshWrites(p, Len(p), MarkedOn(disk))
    BY <2>1 DEF Fills
  <2>19. PICK S : p \in Seq(S)
    BY <2>1 DEF Enters
  <2>21. w = p \o <<u, v>>
    BY <2>1 DEF Enters
  <2>3. Grows(disk, w, p, F, h, tg, handle, xfer)
    BY <1>1, <1>2, <2>1, <2>2, <2>19, CreateTree DEF Enters
  <2>23. Safe(disk, w, tg, handle, xfer)
    BY <2>3, GrowsSafe
  <2>24. Sound(disk, F, G, tg, handle, xfer)
    <3>1. DOMAIN disk = Sector /\ \A s \in Sector : disk[s] = disk[s]
      BY <1>3 DEF Shape
    <3>2. {} \subseteq tg
      OBVIOUS
    <3> QED BY <1>2, <3>1, <3>2, SoundSame
  <2>25. (\E T : w \in Seq(T)) /\ w # <<>>
    <3>1. PICK T : T = S \cup {u, v}
      OBVIOUS
    <3>2. p \in Seq(T) /\ <<u, v>> \in Seq(T) /\ Len(<<u, v>>) = 2
      BY <2>19, <3>1
    <3>3. w \in Seq(T) /\ Len(w) = Len(p) + 2 /\ Len(p) \in Nat
      BY <2>21, <3>2
    <3> QED BY <3>3
  <2> QED BY <1>1, <2>1, <2>23, <2>24, <2>25 DEF FilesInv, SoundDisk
<1> QED BY <1>6, <1>7

-----------------------------------------------------------------------------
(***************************************************************************)
(* FileSystem::Remove of a regular file.  The count, the bit map and the   *)
(* directory are written in this order.                                    *)
(***************************************************************************)
\* Directory::Remove clears the entry that Find finds.
Without(x, y, i) ==
    /\ TableOK(y)
    /\ Fewer(x, y)
    /\ InUse(y) = InUse(x) \ {i}
    /\ \A j \in 1..NumDirEntries : j # i => y[j] = x[j]

\* The table without the entry.
LEMMA RemoveNameIs ==
    ASSUME NEW x, TableOK(x), NEW name, NEW i, Found(x, name, i)
    PROVE  Without(x, RemoveName(x, name, NoName), i)
<1>1. i \in InUse(x) /\ i \in 1..NumDirEntries /\ i = FirstOf(Holding(x, name))
  BY DEF Found, InUse
<1> PICK y : y = RemoveName(x, name, NoName)
  OBVIOUS
<1>2. y = [x EXCEPT ![i].inUse = FALSE, ![i].name = NoName]
  BY <1>1 DEF RemoveName
<1>3. DOMAIN x = 1..NumDirEntries /\ DOMAIN x[i] = EntryField
  BY <1>1 DEF TableOK
<1>4. DOMAIN y = 1..NumDirEntries /\ \A j \in 1..NumDirEntries : j # i => y[j] = x[j]
  BY <1>2, <1>3
<1>5. y[i].inUse = FALSE /\ DOMAIN y[i] = EntryField
  BY <1>1, <1>2, <1>3 DEF EntryField
<1>6. TableOK(y)
  BY <1>4, <1>5 DEF TableOK
<1>7. InUse(y) = InUse(x) \ {i}
  BY <1>1, <1>4, <1>5 DEF InUse
<1>8. \A j \in InUse(y) : y[j] = x[j]
  BY <1>4, <1>7 DEF InUse
<1> QED BY <1>4, <1>6, <1>7, <1>8 DEF Without, Fewer

\* A file that a step leaves alone.
SameFile(d, e, f) == e[f] = d[f] /\ \A s \in Tables(d[f]) : e[s] = d[s]

\* It has the same sectors,
LEMMA SameFileKeeps ==
    ASSUME NEW d, NEW e, NEW f, d[f].numSectors \in Nat, SameFile(d, e, f)
    PROVE  Blocks(e, e[f]) = Blocks(d, d[f]) /\ Tables(e[f]) = Tables(d[f])
<1>1. SameLayout(d, e, f)
  BY DEF SameFile, SameLayout
<1>2. /\ Tables(e[f]) = Tables(d[f])
      /\ \A i \in 1..d[f].numSectors : DataSector(e, e[f], i) = DataSector(d, d[f], i)
  BY <1>1, LayoutKept
<1>3. e[f].numSectors = d[f].numSectors
  BY DEF SameFile
<1> QED BY <1>2, <1>3 DEF Blocks

\* and two such steps are one.
LEMMA SameFileTrans ==
    ASSUME NEW d, NEW e, NEW c, NEW f, SameFile(d, e, f), SameFile(e, c, f)
    PROVE  SameFile(d, c, f)
<1>1. e[f] = d[f] /\ c[f] = e[f]
  BY DEF SameFile
<1>2. Tables(e[f]) = Tables(d[f])
  BY <1>1
<1> QED BY <1>1, <1>2 DEF SameFile

\* A write elsewhere leaves the file alone.
LEMMA FileAside ==
    ASSUME NEW d, NEW e, NEW f, NEW c, HeaderOK(d, f), c # f, c \notin Tables(d[f]), OnlyAt(d, e, c)
    PROVE  SameFile(d, e, f)
<1>1. f \in Sector /\ \A s \in Tables(d[f]) : s \in Sector
  BY DEF HeaderOK
<1> QED BY <1>1 DEF OnlyAt, SameFile

\* The bit map's sector is written: nothing else changes.
OthersKept(d, e, F, G) ==
    /\ \A f \in F : SameFile(d, e, f) /\ OwnedBy(e, f) = OwnedBy(d, f)
    /\ \A E \in G \cup {FreeMapSector} : ContentOf(e, E) = ContentOf(d, E)
    /\ \A E \in G : TableOf(e, E) = TableOf(d, E)

\* The contents of the bit map belong to no other file.
LEMMA MapApart ==
    ASSUME NEW d, NEW e, NEW F, NEW G, Shape(d, F, G), OnlyAt(d, e, ContentOf(d, FreeMapSector))
    PROVE  OthersKept(d, e, F, G)
<1> PICK c : c = ContentOf(d, FreeMapSector)
  OBVIOUS
<1>1. \A f \in F : c # f /\ c \notin Tables(d[f])
  BY ContentAlone
<1>2. \A f \in F : HeaderOK(d, f)
  BY DEF Shape
<1>3. ASSUME NEW f \in F
      PROVE  SameFile(d, e, f) /\ OwnedBy(e, f) = OwnedBy(d, f) /\ e[f] = d[f] /\ SamePlaces(d, e, f)
  <2>1. HeaderOK(d, f) /\ c # f /\ c \notin Tables(d[f]) /\ OnlyAt(d, e, c)
    BY <1>1, <1>2
  <2> QED BY <2>1, FileApart, FileAside
<1>4. ASSUME NEW E \in G \cup {FreeMapSector}
      PROVE  ContentOf(e, E) = ContentOf(d, E) /\ ContentOf(d, E) \in Sector
  <2>1. E \in F /\ d[E].numSectors = 1
    BY DEF Shape, DirOK, MapOK, OneSector
  <2>2. SamePlaces(d, e, E)
    BY <1>3, <2>1
  <2>3. ContentOf(d, E) \in Sector
    BY ContentAlone
  <2> QED BY <2>1, <2>2, <2>3 DEF SamePlaces, ContentOf
<1>5. ASSUME NEW E \in G
      PROVE  TableOf(e, E) = TableOf(d, E)
  <2>1. E # FreeMapSector /\ E \in G \cup {FreeMapSector}
    BY DEF Shape
  <2>2. ContentOf(d, E) # c
    BY <2>1, ContentAlone
  <2>3. e[ContentOf(d, E)] = d[ContentOf(d, E)]
    BY <1>4, <2>1, <2>2 DEF OnlyAt
  <2> QED BY <1>4, <2>1, <2>3 DEF TableOf
<1> QED BY <1>3, <1>4, <1>5 DEF OthersKept

\* The bit map is written without the sectors of files that are to go.
LEMMA DropMap ==
    ASSUME NEW d, NEW e, NEW F, NEW G, NEW o, NEW x, Sound(d, F, G, {}, o, x), NEW own, NEW tg,
           own \subseteq tg,
           Reaches(d, <<Write(ContentOf(d, FreeMapSector), MapFile(MarkedOn(d) \ own))>>, 1, e)
    PROVE  /\ Sound(e, F, G, tg, o, x)
           /\ MarkedOn(e) = MarkedOn(d) \ own
           /\ OthersKept(d, e, F, G)
<1>1. Shape(d, F, G) /\ Marked(d, F, {})
  BY DEF Sound
<1>2. ContentOf(d, FreeMapSector) \in Sector /\ MarkedOn(d) \in SUBSET Sector
  BY <1>1 DEF Shape, MapOK, OneSector
<1>m. PICK map : map = MarkedOn(d) \ own
  OBVIOUS
<1>3. /\ DOMAIN e = Sector
      /\ e[ContentOf(d, FreeMapSector)] = MapFile(map)
      /\ OnlyAt(d, e, ContentOf(d, FreeMapSector))
  BY <1>2, <1>m, ReachesOne
<1>4. OthersKept(d, e, F, G)
  BY <1>1, <1>3, MapApart
<1>5. \A s \in Sector : s # ContentOf(d, FreeMapSector) => e[s] = d[s]
  BY <1>3 DEF OnlyAt
<1>6. \A f \in F : OwnedBy(d, f) \subseteq map \cup tg
  BY <1>1, <1>m DEF Marked
<1>7. map \in SUBSET Sector
  BY <1>2, <1>m
<1>8. Sound(e, F, G, tg, o, x) /\ MarkedOn(e) = map
  <2>1. e[ContentOf(d, FreeMapSector)] = MapFile(map) /\ DOMAIN e = Sector
    BY <1>3
  <2> QED BY <1>5, <1>6, <1>7, <2>1, SoundMap
<1> QED BY <1>4, <1>8, <1>m

\* The files and directories that stay when entry i of directory D goes.
Remaining(d, F, G, F2, G2, D, i) ==
    /\ F2 \in SUBSET F /\ G2 \in SUBSET G /\ G2 \subseteq F2
    /\ FreeMapSector \in F2 /\ DirectorySector \in G2
    /\ \A E \in G2 : \A j \in InUse(TableOf(d, E)) :
          E # D \/ j # i => /\ TableOf(d, E)[j].sector \in F2
                            /\ TableOf(d, E)[j].sector \in G => TableOf(d, E)[j].sector \in G2

Dropped(d, e, F2, G2, D, table) ==
    /\ MarkedOn(e) = MarkedOn(d)
    /\ \A f \in F2 : SameFile(d, e, f) /\ OwnedBy(e, f) = OwnedBy(d, f)
    /\ \A E \in G2 \cup {FreeMapSector} : ContentOf(e, E) = ContentOf(d, E)
    /\ \A E \in G2 : TableOf(e, E) = IF E = D THEN table ELSE TableOf(d, E)

\* The directory is written without an entry.
LEMMA DropEntry ==
    ASSUME NEW d, NEW e, NEW F, NEW G, NEW o, NEW x, NEW tg, Sound(d, F, G, tg, o, x),
           \A t \in Thread : x[t].pc = "idle" /\ o[t] = NoSector,
           NEW D \in G, NEW name, NEW i, Found(TableOf(d, D), name, i),
           NEW F2, NEW G2, Remaining(d, F, G, F2, G2, D, i),
           \A f \in F2 : OwnedBy(d, f) \subseteq MarkedOn(d),
           NEW table, table = RemoveName(TableOf(d, D), name, NoName),
           Reaches(d, <<Write(ContentOf(d, D), DirFile(table))>>, 1, e)
    PROVE  /\ Sound(e, F2, G2, {}, o, x)
           /\ Dropped(d, e, F2, G2, D, table)
<1>1. Shape(d, F, G) /\ NamesOK(d) /\ UsersOK(d, F, o, x)
  BY DEF Sound
<1>2. DirOK(d, D) /\ TableOK(TableOf(d, D)) /\ ContentOf(d, D) \in Sector
  BY <1>1 DEF Shape, DirOK, OneSector
<1>3. Without(TableOf(d, D), table, i)
  BY <1>2, RemoveNameIs
<1>4. TableOK(table) /\ Fewer(TableOf(d, D), table) /\ InUse(table) = InUse(TableOf(d, D)) \ {i}
  BY <1>3 DEF Without
<1>5. NewTable(d, e, D, table)
  BY <1>2, <1>4, ReachesOne DEF NewTable
<1>6. OneTable(d, e, F, G, D, table)
  BY <1>1, <1>5, TableWritten
<1>7. F2 \in SUBSET F /\ G2 \in SUBSET G /\ G2 \subseteq F2
      /\ FreeMapSector \in F2 /\ DirectorySector \in G2
  BY DEF Remaining
<1>8. \A E \in G2 : TableOf(e, E) = IF E = D THEN table ELSE TableOf(d, E)
  BY <1>6, <1>7 DEF OneTable
<1>9. ASSUME NEW E \in G2, NEW j \in InUse(TableOf(e, E))
      PROVE  /\ TableOf(e, E)[j].sector \in F2
             /\ TableOf(e, E)[j].sector \in G => TableOf(e, E)[j].sector \in G2
  <2>1. j \in InUse(TableOf(d, E)) /\ TableOf(e, E)[j] = TableOf(d, E)[j] /\ (E # D \/ j # i)
    <3>1. CASE E = D
      <4>1. TableOf(e, E) = table
        BY <1>8, <3>1
      <4> QED BY <1>4, <3>1, <4>1 DEF Fewer
    <3>2. CASE E # D
      BY <1>8, <3>2
    <3> QED BY <3>1, <3>2
  <2>2. /\ TableOf(d, E)[j].sector \in F2
        /\ TableOf(d, E)[j].sector \in G => TableOf(d, E)[j].sector \in G2
    BY <2>1 DEF Remaining
  <2> QED BY <2>1, <2>2
<1>10. Shape(e, F2, G2) /\ NamesOK(e)
  BY <1>1, <1>4, <1>5, <1>7, <1>9, Unlinking
<1>11. /\ MarkedOn(e) = MarkedOn(d)
       /\ \A f \in F2 : OwnedBy(e, f) = OwnedBy(d, f)
       /\ \A E \in G2 \cup {FreeMapSector} : ContentOf(e, E) = ContentOf(d, E)
  BY <1>6, <1>7 DEF OneTable
<1>12. Marked(e, F2, {})
  BY <1>11 DEF Marked
<1>13. UsersOK(e, F2, o, x)
  <2>1. \A t \in Thread : x[t].pc = "idle"
    OBVIOUS
  <2>2. \A t \in Thread : o[t] # NoSector => o[t] \in F2
    OBVIOUS
  <2> QED BY <1>1, <2>1, <2>2, NobodyWrites
<1>14. ASSUME NEW f \in F2 PROVE SameFile(d, e, f)
  <2>1. HeaderOK(d, f)
    BY <1>1, <1>7 DEF Shape
  <2>2. ContentOf(d, D) # f /\ ContentOf(d, D) \notin Tables(d[f])
    BY <1>1, <1>7, ContentAlone
  <2>3. OnlyAt(d, e, ContentOf(d, D))
    BY <1>5 DEF NewTable
  <2> QED BY <2>1, <2>2, <2>3, FileAside
<1>15. Sound(e, F2, G2, {}, o, x)
  BY <1>10, <1>12, <1>13 DEF Sound
<1> QED BY <1>8, <1>11, <1>14, <1>15 DEF Dropped

\* How disk e differs from disk d when entries of D and what they lead to are gone.
Gone(d, e, F2, G2, D, table, map) ==
    /\ MarkedOn(e) = map
    /\ \A f \in F2 : SameFile(d, e, f)
    /\ \A E \in G2 \cup {FreeMapSector} : ContentOf(e, E) = ContentOf(d, E)
    /\ \A E \in G2 : TableOf(e, E) = IF E = D THEN table ELSE TableOf(d, E)

Unused(o, x) == \A t \in Thread : x[t].pc = "idle" /\ o[t] = NoSector
DisjointFrom(d, F2, own) == \A f \in F2 : OwnedBy(d, f) \cap own = {}

\* What stays is not changed by the write of the bit map.
LEMMA RemainingKept ==
    ASSUME NEW d, NEW e, NEW F, NEW G, OthersKept(d, e, F, G),
           NEW F2, NEW G2, NEW D, NEW i, Remaining(d, F, G, F2, G2, D, i)
    PROVE  Remaining(e, F, G, F2, G2, D, i)
<1>1. /\ F2 \in SUBSET F /\ G2 \in SUBSET G /\ G2 \subseteq F2
      /\ FreeMapSector \in F2 /\ DirectorySector \in G2
  BY DEF Remaining
<1>2. \A E \in G2 : TableOf(e, E) = TableOf(d, E)
  BY <1>1 DEF OthersKept
<1> QED BY <1>1, <1>2 DEF Remaining

\* The bit map and then the directory are written.
LEMMA DropBoth ==
    ASSUME NEW d, NEW c, NEW e, NEW F, NEW G, NEW o, NEW x, Sound(d, F, G, {}, o, x), Unused(o, x),
           NEW D \in G, NEW name, NEW i, Found(TableOf(d, D), name, i),
           NEW F2, NEW G2, Remaining(d, F, G, F2, G2, D, i),
           NEW own, NEW tg, own \subseteq tg, DisjointFrom(d, F2, own),
           NEW table, table = RemoveName(TableOf(d, D), name, NoName),
           Reaches(d, <<Write(ContentOf(d, FreeMapSector), MapFile(MarkedOn(d) \ own))>>, 1, c),
           Reaches(c, <<Write(ContentOf(d, D), DirFile(table))>>, 1, e)
    PROVE  /\ Sound(e, F2, G2, {}, o, x)
           /\ Gone(d, e, F2, G2, D, table, MarkedOn(d) \ own)
<1>1. Sound(c, F, G, tg, o, x) /\ MarkedOn(c) = MarkedOn(d) \ own /\ OthersKept(d, c, F, G)
  BY DropMap, ZenonT(60)
<1>2. /\ F2 \in SUBSET F /\ G2 \in SUBSET G
  BY DEF Remaining
<1>3. /\ \A f \in F : SameFile(d, c, f) /\ OwnedBy(c, f) = OwnedBy(d, f)
      /\ \A E \in G \cup {FreeMapSector} : ContentOf(c, E) = ContentOf(d, E)
      /\ \A E \in G : TableOf(c, E) = TableOf(d, E)
  BY <1>1 DEF OthersKept
<1>4. ContentOf(c, D) = ContentOf(d, D) /\ TableOf(c, D) = TableOf(d, D)
  BY <1>3
<1>5. Found(TableOf(c, D), name, i) /\ table = RemoveName(TableOf(c, D), name, NoName)
      /\ Reaches(c, <<Write(ContentOf(c, D), DirFile(table))>>, 1, e)
  BY <1>4
<1>6. Remaining(c, F, G, F2, G2, D, i)
  BY <1>1, RemainingKept
<1>7. \A f \in F2 : OwnedBy(c, f) \subseteq MarkedOn(c)
  <2> SUFFICES ASSUME NEW f \in F2 PROVE OwnedBy(c, f) \subseteq MarkedOn(c)
    OBVIOUS
  <2>1. OwnedBy(c, f) = OwnedBy(d, f) /\ OwnedBy(d, f) \subseteq MarkedOn(d)
    BY <1>2, <1>3 DEF Sound, Marked
  <2>2. OwnedBy(d, f) \cap own = {}
    BY DEF DisjointFrom
  <2> QED BY <1>1, <2>1, <2>2
<1>8. \A t \in Thread : x[t].pc = "idle" /\ o[t] = NoSector
  BY DEF Unused
<1>9. Sound(e, F2, G2, {}, o, x) /\ Dropped(c, e, F2, G2, D, table)
  BY <1>1, <1>5, <1>6, <1>7, <1>8, DropEntry
<1>10. MarkedOn(e) = MarkedOn(d) \ own
  BY <1>1, <1>9 DEF Dropped
<1>11. ASSUME NEW f \in F2 PROVE SameFile(d, e, f)
  <2>1. SameFile(d, c, f) /\ SameFile(c, e, f)
    BY <1>2, <1>3, <1>9 DEF Dropped
  <2> QED BY <2>1, SameFileTrans
<1>12. \A E \in G2 \cup {FreeMapSector} : ContentOf(e, E) = ContentOf(d, E)
  BY <1>2, <1>3, <1>9 DEF Dropped
<1>13. \A E \in G2 : TableOf(e, E) = IF E = D THEN table ELSE TableOf(d, E)
  BY <1>2, <1>3, <1>9 DEF Dropped
<1> QED BY <1>9, <1>10, <1>11, <1>12, <1>13 DEF Gone

\* A file's header is written with another count.
Counted(d, e, F, G, h) ==
    /\ MarkedOn(e) = MarkedOn(d)
    /\ \A f \in F : OwnedBy(e, f) = OwnedBy(d, f)
    /\ \A f \in F \ {h} : SameFile(d, e, f)
    /\ \A E \in G \cup {FreeMapSector} : ContentOf(e, E) = ContentOf(d, E)
    /\ \A E \in G : TableOf(e, E) = TableOf(d, E)

\* A change of data or counts leaves the rest alone.
LEMMA SparedKeeps ==
    ASSUME NEW d, NEW e, NEW F, NEW G, NEW o, NEW x, Sound(d, F, G, {}, o, x), Spared(d, e, F, G)
    PROVE  Sound(e, F, G, {}, o, x) /\ SparedSame(d, e, F, G)
<1>1. PICK none : none = {} /\ none \subseteq none
  OBVIOUS
<1>2. Sound(d, F, G, none, o, x) /\ none \subseteq none
  BY <1>1
<1>3. Sound(e, F, G, none, o, x)
  BY <1>2, SoundSpared
<1>4. SparedSame(d, e, F, G)
  BY <1>2, SoundSpared
<1> QED BY <1>1, <1>3, <1>4

\* The write of a header with another count.
LEMMA CountStep ==
    ASSUME NEW d, NEW e, NEW F, NEW G, NEW o, NEW x, Sound(d, F, G, {}, o, x), NEW h \in F, NEW v,
           Reaches(d, <<Write(h, [d[h] EXCEPT !.numVisits = v])>>, 1, e)
    PROVE  Sound(e, F, G, {}, o, x) /\ Counted(d, e, F, G, h)
<1>1. Shape(d, F, G)
  BY DEF Sound
<1>2. HeaderOK(d, h) /\ Fields(d[h]) /\ h \in Sector
  BY <1>1 DEF Shape, HeaderOK
<1>3. PICK hdr : hdr = [d[h] EXCEPT !.numVisits = v]
  OBVIOUS
<1>4. SameHeader(d[h], hdr)
  BY <1>2, <1>3, HeaderField2
<1>5. DOMAIN e = Sector /\ e[h] = hdr /\ OnlyAt(d, e, h)
  BY <1>2, <1>3, ReachesOne
<1>6. \A s \in Sector : s # h => e[s] = d[s]
  BY <1>5 DEF OnlyAt
<1>7. SameHeader(d[h], e[h])
  BY <1>4, <1>5
<1>8. Spared(d, e, F, G)
  BY <1>1, <1>5, <1>6, <1>7, HeaderSpared
<1>10. Sound(e, F, G, {}, o, x) /\ SparedSame(d, e, F, G)
  BY <1>8, SparedKeeps
<1>11. ASSUME NEW f \in F \ {h} PROVE SameFile(d, e, f)
  <2>1. HeaderOK(d, f) /\ h # f
    BY <1>1 DEF Shape
  <2>2. h \in OwnedBy(d, h) /\ Tables(d[f]) \subseteq OwnedBy(d, f)
    BY <1>2, <2>1, Owns
  <2>3. OwnedBy(d, f) \cap OwnedBy(d, h) = {}
    BY <1>1, <2>1 DEF Shape, NoneShared
  <2> QED BY <1>5, <2>1, <2>2, <2>3, FileAside
<1> QED BY <1>10, <1>11 DEF Counted, SparedSame

\* A regular file can go.
LEMMA FileGoes ==
    ASSUME NEW d, NEW F, NEW G, Shape(d, F, G), NEW D \in G, NEW i \in InUse(TableOf(d, D)),
           NEW h, h = TableOf(d, D)[i].sector, h \notin G
    PROVE  /\ Remaining(d, F, G, F \ {h}, G, D, i)
           /\ DisjointFrom(d, F \ {h}, OwnedBy(d, h))
           /\ h \in F
<1>1. h \in F \ {FreeMapSector, DirectorySector}
  BY DEF Shape, LinksOK
<1>2. G \subseteq F /\ FreeMapSector \in F /\ DirectorySector \in G
  BY DEF Shape
<1>3. ASSUME NEW E \in G, NEW j \in InUse(TableOf(d, E)), E # D \/ j # i
      PROVE  TableOf(d, E)[j].sector \in F \ {h}
  <2>1. TableOf(d, E)[j].sector \in F
    BY DEF Shape, LinksOK
  <2>2. TableOf(d, E)[j].sector # TableOf(d, D)[i].sector
    BY <1>3 DEF Shape, LinkedOnce
  <2> QED BY <2>1, <2>2
<1>4. Remaining(d, F, G, F \ {h}, G, D, i)
  BY <1>1, <1>2, <1>3 DEF Remaining
<1>5. DisjointFrom(d, F \ {h}, OwnedBy(d, h))
  BY <1>1 DEF Shape, NoneShared, DisjointFrom
<1> QED BY <1>1, <1>4, <1>5

\* Every disk that a list of writes makes on the way is in order; where it ends.
Clean(d, w, tg, o, x) ==
    \A k \in 0..Len(w) : \A e : Reaches(d, w, k, e) /\ NoStop(w, k) => SoundDisk(e, tg, o, x)
Ends(d, w, e) == Reaches(d, w, Len(w), e) /\ NoStop(w, Len(w))

\* A sound disk is sound with more sectors allowed to be missing.
LEMMA SoundMore ==
    ASSUME NEW d, NEW F, NEW G, NEW o, NEW x, Sound(d, F, G, {}, o, x), NEW tg
    PROVE  SoundDisk(d, tg, o, x)
<1>1. DOMAIN d = Sector /\ \A s \in Sector : d[s] = d[s]
  BY DEF Sound, Shape
<1>2. {} \subseteq tg
  OBVIOUS
<1>3. Sound(d, F, G, tg, o, x)
  BY <1>1, <1>2, SoundSame
<1> QED BY <1>3 DEF SoundDisk

\* The disk before the first write.
LEMMA SoundNone ==
    ASSUME NEW d, NEW F, NEW G, NEW o, NEW x, Sound(d, F, G, {}, o, x), NEW tg, NEW w, NEW e,
           Reaches(d, w, 0, e)
    PROVE  SoundDisk(e, tg, o, x)
<1>1. DOMAIN e = Sector /\ \A s \in Sector : e[s] = d[s]
  BY ReachesNone
<1>2. {} \subseteq tg
  OBVIOUS
<1>3. Sound(e, F, G, tg, o, x)
  BY <1>1, <1>2, SoundSame
<1> QED BY <1>3 DEF SoundDisk

\* One write, and then others.
LEMMA AfterOne ==
    ASSUME NEW d, NEW e, NEW u, NEW S, NEW b \in Seq(S), NEW w, w = <<u>> \o b,
           NEW j \in 0..Len(b), Reaches(d, w, j + 1, e)
    PROVE  \E m : Reaches(d, <<u>>, 1, m) /\ Reaches(m, b, j, e)
<1>1. PICK T : T = S \cup {u}
  OBVIOUS
<1>2. PICK a : a = <<u>>
  OBVIOUS
<1>3. a \in Seq(T) /\ b \in Seq(T) /\ Len(a) = 1
  BY <1>1, <1>2
<1>4. w = a \o b
  BY <1>2
<1>5. Reaches(d, w, Len(a) + j, e)
  <2>1. j + 1 = Len(a) + j
    BY <1>3
  <2> QED BY <2>1
<1>6. \E m : Reaches(d, a, Len(a), m) /\ Reaches(m, b, j, e)
  BY <1>3, <1>4, <1>5, ReachesSplit
<1> QED BY <1>2, <1>3, <1>6

\* A sequence of three.
LEMMA ThreeOfOne ==
    ASSUME NEW a, NEW b, NEW c
    PROVE  <<a>> \o <<b, c>> = <<a, b, c>>
<1> PICK S : S = {a, b, c}
  OBVIOUS
<1>1. <<a>> \in Seq(S) /\ <<b, c>> \in Seq(S) /\ <<a, b, c>> \in Seq(S)
  OBVIOUS
<1>2. Len(<<a>> \o <<b, c>>) = 3 /\ Len(<<a, b, c>>) = 3 /\ (<<a>> \o <<b, c>>) \in Seq(S)
  BY <1>1
<1>3. (<<a>> \o <<b, c>>)[1] = a /\ (<<a>> \o <<b, c>>)[2] = b /\ (<<a>> \o <<b, c>>)[3] = c
  BY <1>1
<1>4. \A i \in 1..3 : (<<a>> \o <<b, c>>)[i] = <<a, b, c>>[i]
  BY <1>3
<1> QED BY <1>1, <1>2, <1>4, SeqEqual

\* The three ways in which Remove of a file ends.
RemovesNothing(r, h, map, table, last) ==
    /\ r.map = map /\ r.table = table /\ r.sectors = {}
    /\ r.writes = <<Write(h, [disk[h] EXCEPT !.numVisits = @ - 1])>> \o last
RemovesAll(r, h, name, map, table, ds, own) ==
    /\ own = Blocks(disk, disk[h]) \cup {h}
    /\ NoSector \notin Blocks(disk, disk[h])
    /\ r.map = map \ own /\ r.table = RemoveName(table, name, NoName) /\ r.sectors = own
    /\ r.writes = <<Write(h, [disk[h] EXCEPT !.numVisits = @ - 1]),
                    Write(MapSector, MapFile(map \ own)),
                    Write(ds, DirFile(RemoveName(table, name, NoName)))>>

\* Remove of a file ends in one of these ways.
LEMMA RemoveFileIs ==
    ASSUME NEW h, NEW name, NEW map, NEW table, NEW ds, NEW r, r = RemoveFile(h, name, map, table, ds)
    PROVE  \/ RemovesNothing(r, h, map, table, <<>>)
           \/ RemovesNothing(r, h, map, table, <<Stop>>)
           \/ \E own : RemovesAll(r, h, name, map, table, ds, own)
<1>0. PICK u : u = Write(h, [disk[h] EXCEPT !.numVisits = @ - 1])
  OBVIOUS
<1>a. <<u>> \o <<>> = <<u>>
  OBVIOUS
<1>b. <<u>> \o <<Stop>> = <<u, Stop>>
  BY TwoOfOne
<1>1. CASE disk[h].numVisits # 1
  <2>1. r = [map |-> map, table |-> table, sectors |-> {}, writes |-> <<u>>]
    BY <1>0, <1>1 DEF RemoveFile
  <2>2. r.map = map /\ r.table = table /\ r.sectors = {} /\ r.writes = <<u>>
    BY <2>1
  <2> QED BY <1>0, <1>a, <2>2 DEF RemovesNothing
<1>2. CASE disk[h].numVisits = 1 /\ DeallocateStops(disk, disk[h], map)
  <2>1. r = [map |-> map, table |-> table, sectors |-> {}, writes |-> <<u, Stop>>]
    BY <1>0, <1>2 DEF RemoveFile
  <2>2. r.map = map /\ r.table = table /\ r.sectors = {} /\ r.writes = <<u, Stop>>
    BY <2>1
  <2> QED BY <1>0, <1>b, <2>2 DEF RemovesNothing
<1>3. CASE disk[h].numVisits = 1 /\ ~DeallocateStops(disk, disk[h], map)
  <2>0. PICK own : own = Blocks(disk, disk[h]) \cup {h}
    OBVIOUS
  <2>1. r = [map |-> map \ own, table |-> RemoveName(table, name, NoName), sectors |-> own,
             writes |-> <<u, Write(MapSector, MapFile(map \ own)),
                          Write(ds, DirFile(RemoveName(table, name, NoName)))>>]
    BY <1>0, <1>3, <2>0 DEF RemoveFile
  <2>2. NoSector \notin Blocks(disk, disk[h])
    BY <1>3 DEF DeallocateStops
  <2>3. RemovesAll(r, h, name, map, table, ds, own)
    BY <1>0, <2>0, <2>1, <2>2 DEF RemovesAll
  <2> QED BY <2>3
<1> QED BY <1>1, <1>2, <1>3

EntryDone(d, e, F, G, D, h, r, o, x) ==
    \E F2 : /\ F \ {h} \subseteq F2 /\ F2 \subseteq F
            /\ Sound(e, F2, G, {}, o, x)
            /\ Gone(d, e, F \ {h}, G, D, r.table, r.map)

Removable(d, F, G, D, i, name, h) ==
    /\ D \in G /\ Found(TableOf(d, D), name, i)
    /\ h = TableOf(d, D)[i].sector /\ h \notin G /\ h \in F
    /\ SameFile(disk, d, h)
    /\ MapSector = ContentOf(d, FreeMapSector)

\* The count alone: nothing is gone.
LEMMA CountGone ==
    ASSUME NEW d, NEW e, NEW F, NEW G, NEW h, Counted(d, e, F, G, h), NEW D, NEW r,
           r.map = MarkedOn(d), r.table = TableOf(d, D)
    PROVE  Gone(d, e, F \ {h}, G, D, r.table, r.map)
<1>1. \A E \in G : TableOf(e, E) = IF E = D THEN r.table ELSE TableOf(d, E)
  BY DEF Counted
<1> QED BY <1>1 DEF Counted, Gone

\* A file that is not removed: one count less, and perhaps the program ends.
LEMMA KeepsEntry ==
    ASSUME NEW d, NEW F, NEW G, NEW o, NEW x, Sound(d, F, G, {}, o, x),
           NEW D, NEW i, NEW name, NEW h, Removable(d, F, G, D, i, name, h),
           NEW r, NEW last, last = <<>> \/ last = <<Stop>>,
           RemovesNothing(r, h, MarkedOn(d), TableOf(d, D), last), NEW tg
    PROVE  /\ \E S : r.writes \in Seq(S)
           /\ r.writes # <<>>
           /\ Clean(d, r.writes, tg, o, x)
           /\ \A e : Ends(d, r.writes, e) => EntryDone(d, e, F, G, D, h, r, o, x)
<1>0. h \in F /\ d[h] = disk[h]
  BY DEF Removable, SameFile
<1>1. PICK v : v = disk[h].numVisits - 1
  OBVIOUS
<1>2. PICK u : u = Write(h, [d[h] EXCEPT !.numVisits = v])
  OBVIOUS
<1>3. r.writes = <<u>> \o last /\ r.map = MarkedOn(d) /\ r.table = TableOf(d, D)
  BY <1>0, <1>1, <1>2 DEF RemovesNothing
<1>4. PICK w : w = r.writes
  OBVIOUS
<1>5. PICK S : S = {u, Stop}
  OBVIOUS
<1>6. last \in Seq(S) /\ <<u>> \in Seq(S) /\ Len(<<u>>) = 1 /\ Len(last) \in 0..1
      /\ (Len(last) = 1 => last[1] = Stop)
  <2>1. <<>> \in Seq(S) /\ Len(<<>>) = 0
    OBVIOUS
  <2>2. <<Stop>> \in Seq(S) /\ Len(<<Stop>>) = 1 /\ <<Stop>>[1] = Stop
    BY <1>5
  <2>3. <<u>> \in Seq(S) /\ Len(<<u>>) = 1
    BY <1>5
  <2>4. CASE last = <<>>
    BY <2>1, <2>3, <2>4
  <2>5. CASE last = <<Stop>>
    BY <2>2, <2>3, <2>5
  <2> QED BY <2>4, <2>5
<1>7. w \in Seq(S) /\ Len(w) = 1 + Len(last) /\ w = <<u>> \o last
  BY <1>3, <1>4, <1>6
<1>8. ASSUME NEW k \in 0..Len(w), NEW e, Reaches(d, w, k, e), NoStop(w, k), k # 0
      PROVE  /\ k = 1 /\ Sound(e, F, G, {}, o, x) /\ Counted(d, e, F, G, h)
  <2>1. ASSUME k = 2 PROVE FALSE
    <3>1. Len(last) = 1 /\ last[1] = Stop
      BY <1>6, <1>7, <2>1
    <3>2. w[2] = last[1]
      BY <1>6, <1>7, <3>1
    <3>3. Stop.sector = NoSector
      BY DEF Stop, Write
    <3> QED BY <1>8, <2>1, <3>1, <3>2, <3>3 DEF NoStop
  <2>2. k = 1 /\ k \in 0..Len(<<u>>)
    BY <1>6, <1>7, <1>8, <2>1
  <2>3. Reaches(d, <<u>>, k, e)
    BY <1>6, <1>7, <1>8, <2>2, ReachesFirst
  <2>4. Reaches(d, <<Write(h, [d[h] EXCEPT !.numVisits = v])>>, 1, e)
    BY <1>2, <2>2, <2>3
  <2> QED BY <1>0, <2>2, <2>4, CountStep
<1>9. Clean(d, w, tg, o, x)
  <2> SUFFICES ASSUME NEW k \in 0..Len(w), NEW e, Reaches(d, w, k, e), NoStop(w, k)
               PROVE  SoundDisk(e, tg, o, x)
    BY DEF Clean
  <2>1. CASE k = 0
    BY <2>1, SoundNone
  <2>2. CASE k # 0
    <3>1. Sound(e, F, G, {}, o, x)
      BY <1>8, <2>2
    <3> QED BY <3>1, SoundMore
  <2> QED BY <2>1, <2>2
<1>10. ASSUME NEW e, Ends(d, w, e) PROVE EntryDone(d, e, F, G, D, h, r, o, x)
  <2>1. Reaches(d, w, Len(w), e) /\ NoStop(w, Len(w)) /\ Len(w) \in 0..Len(w) /\ Len(w) # 0
    BY <1>6, <1>7, <1>10 DEF Ends
  <2>2. Sound(e, F, G, {}, o, x) /\ Counted(d, e, F, G, h)
    BY <1>8, <2>1
  <2>3. Gone(d, e, F \ {h}, G, D, r.table, r.map)
    BY <1>3, <2>2, CountGone
  <2> QED BY <2>2, <2>3 DEF EntryDone
<1>11. w # <<>>
  BY <1>6, <1>7
<1> QED BY <1>4, <1>7, <1>9, <1>10, <1>11

\* The count and then the rest.
LEMMA GoneTrans ==
    ASSUME NEW d, NEW m, NEW e, NEW F, NEW G, NEW h, Counted(d, m, F, G, h), NEW D, NEW table, NEW map,
           Gone(m, e, F \ {h}, G, D, table, map)
    PROVE  Gone(d, e, F \ {h}, G, D, table, map)
<1>1. ASSUME NEW f \in F \ {h} PROVE SameFile(d, e, f)
  <2>1. SameFile(d, m, f) /\ SameFile(m, e, f)
    BY DEF Counted, Gone
  <2> QED BY <2>1, SameFileTrans
<1>2. \A E \in G \cup {FreeMapSector} : ContentOf(e, E) = ContentOf(d, E)
  BY DEF Counted, Gone
<1>3. \A E \in G : TableOf(e, E) = IF E = D THEN table ELSE TableOf(d, E)
  BY DEF Counted, Gone
<1>4. MarkedOn(e) = map
  BY DEF Gone
<1> QED BY <1>1, <1>2, <1>3, <1>4 DEF Gone

\* A file is removed: the count, the bit map, the directory.
LEMMA DropsEntry ==
    ASSUME NEW d, NEW F, NEW G, NEW o, NEW x, Sound(d, F, G, {}, o, x), Unused(o, x),
           NEW D, NEW i, NEW name, NEW h, Removable(d, F, G, D, i, name, h),
           NEW r, NEW own,
           RemovesAll(r, h, name, MarkedOn(d), TableOf(d, D), ContentOf(d, D), own),
           NEW tg, own \subseteq tg
    PROVE  /\ \E S : r.writes \in Seq(S)
           /\ r.writes # <<>>
           /\ Clean(d, r.writes, tg, o, x)
           /\ \A e : Ends(d, r.writes, e) => EntryDone(d, e, F, G, D, h, r, o, x)
<1>0. h \in F /\ d[h] = disk[h] /\ D \in G /\ Found(TableOf(d, D), name, i)
      /\ h = TableOf(d, D)[i].sector /\ h \notin G /\ MapSector = ContentOf(d, FreeMapSector)
  BY DEF Removable, SameFile
<1>1. Shape(d, F, G) /\ HeaderOK(d, h)
  BY <1>0 DEF Sound, Shape
<1>2. own = OwnedBy(d, h)
  <2>1. disk[h].numSectors \in Nat
    BY <1>0, <1>1 DEF HeaderOK, Fields
  <2>2. Blocks(d, d[h]) = Blocks(disk, disk[h])
    BY <2>1, SameFileKeeps DEF Removable
  <2>3. h # NoSector
    BY <1>1, SizesAssumption DEF HeaderOK, Sector, NoSector
  <2> QED BY <2>2, <2>3 DEF RemovesAll, OwnedBy
<1>3. PICK v : v = disk[h].numVisits - 1
  OBVIOUS
<1>4. PICK a : a = Write(h, [d[h] EXCEPT !.numVisits = v])
  OBVIOUS
<1>5. PICK table : table = RemoveName(TableOf(d, D), name, NoName)
  OBVIOUS
<1>6. PICK b, c : /\ b = Write(ContentOf(d, FreeMapSector), MapFile(MarkedOn(d) \ own))
                  /\ c = Write(ContentOf(d, D), DirFile(table))
  OBVIOUS
<1>7. r.writes = <<a, b, c>> /\ r.map = MarkedOn(d) \ own /\ r.table = table
  BY <1>0, <1>3, <1>4, <1>5, <1>6 DEF RemovesAll
<1>8. PICK w : w = r.writes
  OBVIOUS
<1>9. PICK S, p : S = {a, b, c} /\ p = <<b, c>>
  OBVIOUS
<1>10. p \in Seq(S) /\ Len(p) = 2 /\ w = <<a>> \o p /\ w \in Seq(S) /\ Len(w) = 3
  <2>1. <<b, c>> \in Seq(S) /\ Len(<<b, c>>) = 2 /\ <<a, b, c>> \in Seq(S) /\ Len(<<a, b, c>>) = 3
    BY <1>9
  <2>2. w = <<a, b, c>>
    BY <1>7, <1>8
  <2>3. w = <<a>> \o p
    BY <1>9, <2>2, ThreeOfOne
  <2> QED BY <1>9, <2>1, <2>2, <2>3
<1>11. ASSUME NEW m, Reaches(d, <<a>>, 1, m)
       PROVE  /\ Sound(m, F, G, {}, o, x) /\ Counted(d, m, F, G, h)
              /\ b = Write(ContentOf(m, FreeMapSector), MapFile(MarkedOn(m) \ own))
              /\ c = Write(ContentOf(m, D), DirFile(table))
              /\ table = RemoveName(TableOf(m, D), name, NoName)
              /\ Found(TableOf(m, D), name, i)
              /\ Remaining(m, F, G, F \ {h}, G, D, i)
              /\ DisjointFrom(m, F \ {h}, own)
  <2>1. Reaches(d, <<Write(h, [d[h] EXCEPT !.numVisits = v])>>, 1, m)
    BY <1>4, <1>11
  <2>2. Sound(m, F, G, {}, o, x) /\ Counted(d, m, F, G, h)
    BY <1>0, <2>1, CountStep
  <2>3. /\ ContentOf(m, FreeMapSector) = ContentOf(d, FreeMapSector) /\ MarkedOn(m) = MarkedOn(d)
        /\ ContentOf(m, D) = ContentOf(d, D) /\ TableOf(m, D) = TableOf(d, D)
        /\ OwnedBy(m, h) = OwnedBy(d, h)
    BY <1>0, <2>2 DEF Counted
  <2>4. Shape(m, F, G) /\ i \in InUse(TableOf(m, D)) /\ h = TableOf(m, D)[i].sector
    BY <1>0, <2>2, <2>3 DEF Sound, Found
  <2>5. Remaining(m, F, G, F \ {h}, G, D, i) /\ DisjointFrom(m, F \ {h}, OwnedBy(m, h))
    BY <1>0, <2>4, FileGoes
  <2> QED BY <1>0, <1>2, <1>5, <1>6, <2>2, <2>3, <2>5
<1>12. ASSUME NEW m, Reaches(d, <<a>>, 1, m), NEW e, Reaches(m, p, 1, e)
       PROVE  Sound(e, F, G, tg, o, x)
  <2>0. Reaches(m, <<b, c>>, 1, e)
    BY <1>9, <1>12
  <2>1. Reaches(m, <<b>>, 1, e)
    BY <2>0, TwoWrites
  <2>2. Sound(m, F, G, {}, o, x)
        /\ Reaches(m, <<Write(ContentOf(m, FreeMapSector), MapFile(MarkedOn(m) \ own))>>, 1, e)
    BY <1>11, <1>12, <2>1
  <2> QED BY <2>2, DropMap
<1>13. ASSUME NEW m, Reaches(d, <<a>>, 1, m), NEW e, Reaches(m, p, 2, e)
       PROVE  Sound(e, F \ {h}, G, {}, o, x) /\ Gone(d, e, F \ {h}, G, D, r.table, r.map)
  <2>0. Reaches(m, <<b, c>>, 2, e)
    BY <1>9, <1>13
  <2>1. PICK n : Reaches(m, <<b>>, 1, n) /\ Reaches(n, <<c>>, 1, e)
    BY <2>0, BothWrites
  <2>2. /\ Reaches(m, <<Write(ContentOf(m, FreeMapSector), MapFile(MarkedOn(m) \ own))>>, 1, n)
        /\ Reaches(n, <<Write(ContentOf(m, D), DirFile(table))>>, 1, e)
    BY <1>11, <1>13, <2>1
  <2>3. /\ Sound(m, F, G, {}, o, x) /\ Counted(d, m, F, G, h)
        /\ table = RemoveName(TableOf(m, D), name, NoName)
        /\ Found(TableOf(m, D), name, i)
        /\ Remaining(m, F, G, F \ {h}, G, D, i)
        /\ DisjointFrom(m, F \ {h}, own)
    BY <1>11, <1>13
  <2>4. PICK F2 : F2 = F \ {h}
    OBVIOUS
  <2>5. Remaining(m, F, G, F2, G, D, i) /\ DisjointFrom(m, F2, own)
    BY <2>3, <2>4
  <2>6. Sound(e, F2, G, {}, o, x) /\ Gone(m, e, F2, G, D, table, MarkedOn(m) \ own)
    BY <1>0, <2>2, <2>3, <2>5, DropBoth
  <2>7. MarkedOn(m) = MarkedOn(d)
    BY <2>3 DEF Counted
  <2>8. Gone(m, e, F \ {h}, G, D, r.table, r.map)
    BY <1>7, <2>4, <2>6, <2>7
  <2>9. Gone(d, e, F \ {h}, G, D, r.table, r.map)
    BY <2>3, <2>8, GoneTrans
  <2> QED BY <2>4, <2>6, <2>9
<1>14. Clean(d, w, tg, o, x)
  <2> SUFFICES ASSUME NEW k \in 0..Len(w), NEW e, Reaches(d, w, k, e), NoStop(w, k)
               PROVE  SoundDisk(e, tg, o, x)
    BY DEF Clean
  <2>1. CASE k = 0
    BY <2>1, SoundNone
  <2>2. CASE k # 0
    <3>1. PICK j \in 0..2 : k = j + 1
      BY <1>10, <2>2
    <3>2. j \in 0..Len(p) /\ Reaches(d, w, j + 1, e)
      BY <1>10, <3>1
    <3>3. PICK m : Reaches(d, <<a>>, 1, m) /\ Reaches(m, p, j, e)
      BY <1>10, <3>2, AfterOne
    <3>4. Sound(m, F, G, {}, o, x)
      BY <1>11, <3>3
    <3>5. CASE j = 0
      <4>1. Reaches(m, p, 0, e)
        BY <3>3, <3>5
      <4> QED BY <3>4, <4>1, SoundNone
    <3>6. CASE j = 1
      <4>1. Sound(e, F, G, tg, o, x)
        BY <1>12, <3>3, <3>6
      <4> QED BY <4>1 DEF SoundDisk
    <3>7. CASE j = 2
      <4>1. Sound(e, F \ {h}, G, {}, o, x)
        BY <1>13, <3>3, <3>7
      <4> QED BY <4>1, SoundMore
    <3>8. j = 0 \/ j = 1 \/ j = 2
      BY <3>1
    <3> QED BY <3>5, <3>6, <3>7, <3>8
  <2> QED BY <2>1, <2>2
<1>15. ASSUME NEW e, Ends(d, w, e) PROVE EntryDone(d, e, F, G, D, h, r, o, x)
  <2>1. Reaches(d, w, 2 + 1, e) /\ 2 \in 0..Len(p)
    <3>1. 2 + 1 = Len(w)
      BY <1>10
    <3> QED BY <1>10, <1>15, <3>1 DEF Ends
  <2>2. PICK m : Reaches(d, <<a>>, 1, m) /\ Reaches(m, p, 2, e)
    BY <1>10, <2>1, AfterOne
  <2>3. Sound(e, F \ {h}, G, {}, o, x) /\ Gone(d, e, F \ {h}, G, D, r.table, r.map)
    BY <1>13, <2>2
  <2>4. F \ {h} \subseteq F \ {h} /\ F \ {h} \subseteq F
    OBVIOUS
  <2> QED BY <2>3, <2>4 DEF EntryDone
<1>16. w # <<>>
  BY <1>10
<1> QED BY <1>8, <1>10, <1>14, <1>15, <1>16

\* Remove of a file, from any disk on which the file is as it was read.
LEMMA RemoveStep ==
    ASSUME NEW d, NEW F, NEW G, NEW o, NEW x, Sound(d, F, G, {}, o, x), Unused(o, x),
           NEW D, NEW i, NEW name, NEW h, Removable(d, F, G, D, i, name, h),
           NEW r, r = RemoveFile(h, name, MarkedOn(d), TableOf(d, D), ContentOf(d, D)),
           NEW tg, r.sectors \subseteq tg
    PROVE  /\ \E S : r.writes \in Seq(S)
           /\ r.writes # <<>>
           /\ Clean(d, r.writes, tg, o, x)
           /\ \A e : Ends(d, r.writes, e) => EntryDone(d, e, F, G, D, h, r, o, x)
<1>1. \/ RemovesNothing(r, h, MarkedOn(d), TableOf(d, D), <<>>)
      \/ RemovesNothing(r, h, MarkedOn(d), TableOf(d, D), <<Stop>>)
      \/ \E own : RemovesAll(r, h, name, MarkedOn(d), TableOf(d, D), ContentOf(d, D), own)
  BY RemoveFileIs
<1>2. ASSUME NEW last, last = <<>> \/ last = <<Stop>>,
             RemovesNothing(r, h, MarkedOn(d), TableOf(d, D), last)
      PROVE  /\ \E S : r.writes \in Seq(S)
             /\ r.writes # <<>>
             /\ Clean(d, r.writes, tg, o, x)
             /\ \A e : Ends(d, r.writes, e) => EntryDone(d, e, F, G, D, h, r, o, x)
  BY <1>2, KeepsEntry
<1>3. ASSUME NEW own, RemovesAll(r, h, name, MarkedOn(d), TableOf(d, D), ContentOf(d, D), own)
      PROVE  /\ \E S : r.writes \in Seq(S)
             /\ r.writes # <<>>
             /\ Clean(d, r.writes, tg, o, x)
             /\ \A e : Ends(d, r.writes, e) => EntryDone(d, e, F, G, D, h, r, o, x)
  <2>1. own \subseteq tg
    BY <1>3 DEF RemovesAll
  <2> QED BY <1>3, <2>1, DropsEntry
<1> QED BY <1>1, <1>2, <1>3

-----------------------------------------------------------------------------
(***************************************************************************)
(* FileSystem::Remove of a directory.  It removes the entries one by one,  *)
(* each against the tables and the bit map that the one before has left in *)
(* memory, and then the directory.                                         *)
(***************************************************************************)
\* The loop of Remove over the entries of a directory.
EntryStep(s, old, ds, i) ==
    LET r == RemoveFile(old[i].sector, old[i].name, s.map, s.table, ds)
    IN  IF ~old[i].inUse THEN s
        ELSE [r EXCEPT !.sectors = s.sectors \cup @, !.writes = s.writes \o @]
EntryStart(old) == [map |-> FreeMap, table |-> old, sectors |-> {}, writes |-> <<>>]
Removals(f, old, ds, n) ==
    f = [i \in 0..n |-> IF i = 0 THEN EntryStart(old) ELSE EntryStep(f[i - 1], old, ds, i)]

\* The loop is well defined,
LEMMA RemovalsExist ==
    ASSUME NEW old, NEW ds, NEW n \in Nat
    PROVE  \E f : Removals(f, old, ds, n)
<1> DEFINE bad == {k \in Nat : ~ \E f : Removals(f, old, ds, k)}
<1>1. ASSUME bad # {} PROVE FALSE
  <2>1. PICK k \in bad : \A m \in bad : k <= m
    BY <1>1, Least
  <2>2. k \in Nat /\ ~ \E f : Removals(f, old, ds, k)
    OBVIOUS
  <2>3. CASE k = 0
    <3> DEFINE f == [i \in 0..0 |-> EntryStart(old)]
    <3>1. Removals(f, old, ds, 0)
      BY DEF Removals
    <3> QED BY <2>2, <2>3, <3>1
  <2>4. CASE k # 0
    <3>1. k - 1 \in Nat /\ ~(k <= k - 1)
      BY <2>2, <2>4
    <3>2. k - 1 \notin bad
      BY <2>1, <3>1
    <3>3. PICK g : Removals(g, old, ds, k - 1)
      BY <3>1, <3>2
    <3> DEFINE f == [i \in 0..k |-> IF i = k THEN EntryStep(g[k - 1], old, ds, k) ELSE g[i]]
    <3>4. ASSUME NEW i \in 0..k
          PROVE  f[i] = IF i = 0 THEN EntryStart(old) ELSE EntryStep(f[i - 1], old, ds, i)
      <4>1. CASE i = k
        <5>1. f[i] = EntryStep(g[k - 1], old, ds, k) /\ i # 0
          BY <2>4, <4>1
        <5>2. k - 1 \in 0..k /\ k - 1 # k
          BY <2>2, <2>4
        <5>3. f[i - 1] = g[k - 1]
          BY <4>1, <5>2
        <5> HIDE DEF f
        <5> QED BY <4>1, <5>1, <5>3
      <4>2. CASE i # k
        <5>1. i \in 0..k-1 /\ (i # 0 => i - 1 \in 0..k /\ i - 1 # k)
          BY <2>2, <4>2
        <5>2. f[i] = g[i] /\ (i # 0 => f[i - 1] = g[i - 1])
          BY <4>2, <5>1
        <5>3. g[i] = IF i = 0 THEN EntryStart(old) ELSE EntryStep(g[i - 1], old, ds, i)
          BY <3>3, <5>1 DEF Removals
        <5> HIDE DEF f
        <5> QED BY <5>2, <5>3
      <4> QED BY <4>1, <4>2
    <3>5. f = [i \in 0..k |-> f[i]]
      OBVIOUS
    <3> HIDE DEF f
    <3>6. Removals(f, old, ds, k)
      BY <3>4, <3>5 DEF Removals
    <3> QED BY <2>2, <3>6
  <2> QED BY <2>3, <2>4
<1> QED BY <1>1

\* and RemoveEntries is its last state.
LEMMA RemoveEntriesIs ==
    ASSUME NEW h
    PROVE  \E f : /\ Removals(f, DirTable(h), DirSector(h), NumDirEntries)
                  /\ RemoveEntries(h) = f[NumDirEntries]
<1> DEFINE ds == DirSector(h)
           old == DirTable(h)
           body(w) == [i \in 0..NumDirEntries |->
                         IF i = 0 THEN [map |-> FreeMap, table |-> old, sectors |-> {}, writes |-> <<>>]
                         ELSE LET before == w[i - 1]
                                  r == RemoveFile(old[i].sector, old[i].name, before.map, before.table, ds)
                              IN  IF ~old[i].inUse THEN before
                                  ELSE [r EXCEPT !.sectors = before.sectors \cup @,
                                                 !.writes = before.writes \o @]]
           upTo == CHOOSE w : w = body(w)
<1>1. PICK f : Removals(f, old, ds, NumDirEntries)
  BY RemovalsExist, SizesAssumption
<1>2. f = body(f)
  BY <1>1 DEF Removals, EntryStep, EntryStart
<1>5. RemoveEntries(h) = upTo[NumDirEntries]
  BY DEF RemoveEntries
<1> HIDE DEF body
<1>3. upTo = body(upTo)
  BY <1>2
<1>4. Removals(upTo, old, ds, NumDirEntries)
  <2> HIDE DEF upTo
  <2> QED BY <1>3 DEF Removals, EntryStep, EntryStart, body
<1> QED BY <1>4, <1>5

\* Lists of writes, one after the other.
LEMMA NoStopParts ==
    ASSUME NEW S, NEW a \in Seq(S), NEW b \in Seq(S), NEW w, w = a \o b,
           NEW j \in 0..Len(b), NoStop(w, Len(a) + j)
    PROVE  NoStop(a, Len(a)) /\ NoStop(b, j)
<1>1. Len(a) \in Nat /\ Len(b) \in Nat
  OBVIOUS
<1>2. ASSUME NEW i \in 1..Len(a) PROVE a[i].sector # NoSector
  <2>1. w[i] = a[i] /\ i \in 1..Len(a) + j
    OBVIOUS
  <2> QED BY <2>1 DEF NoStop
<1>3. ASSUME NEW i \in 1..j PROVE b[i].sector # NoSector
  <2>1. Len(a) + i \in 1..Len(a) + j /\ Len(a) + i \in 1..Len(a) + Len(b)
        /\ Len(a) + i > Len(a) /\ Len(a) + i - Len(a) = i
    BY <1>1
  <2>2. w[Len(a) + i] = b[i]
    BY <1>1, <2>1
  <2> QED BY <2>1, <2>2 DEF NoStop
<1> QED BY <1>2, <1>3 DEF NoStop

CleanAfter(d, a, b, tg, o, x) == \A m : Ends(d, a, m) => Clean(m, b, tg, o, x)

\* Both lists of writes are in order,
LEMMA CleanJoin ==
    ASSUME NEW S, NEW a \in Seq(S), NEW b \in Seq(S), NEW w, w = a \o b, NEW d, NEW tg, NEW o, NEW x,
           Clean(d, a, tg, o, x), CleanAfter(d, a, b, tg, o, x)
    PROVE  Clean(d, w, tg, o, x)
<1>0. Len(a) \in Nat /\ Len(b) \in Nat /\ Len(w) = Len(a) + Len(b)
  OBVIOUS
<1> SUFFICES ASSUME NEW k \in 0..Len(w), NEW e, Reaches(d, w, k, e), NoStop(w, k)
             PROVE  SoundDisk(e, tg, o, x)
  BY DEF Clean
<1>1. CASE k <= Len(a)
  <2>1. k \in 0..Len(a)
    BY <1>0, <1>1
  <2>2. Reaches(d, a, k, e)
    BY <2>1, ReachesFirst
  <2>3. NoStop(a, k)
    <3> SUFFICES ASSUME NEW i \in 1..k PROVE a[i].sector # NoSector
      BY DEF NoStop
    <3>1. w[i] = a[i]
      BY <2>1
    <3> QED BY <3>1 DEF NoStop
  <2> QED BY <2>1, <2>2, <2>3 DEF Clean
<1>2. CASE k > Len(a)
  <2>1. PICK j \in 0..Len(b) : k = Len(a) + j
    BY <1>0, <1>2
  <2>2. Reaches(d, w, Len(a) + j, e) /\ NoStop(w, Len(a) + j)
    BY <2>1
  <2>3. PICK m : Reaches(d, a, Len(a), m) /\ Reaches(m, b, j, e)
    BY <2>2, ReachesSplit
  <2>4. NoStop(a, Len(a)) /\ NoStop(b, j)
    BY <2>2, NoStopParts
  <2>5. Clean(m, b, tg, o, x)
    BY <2>3, <2>4 DEF CleanAfter, Ends
  <2> QED BY <2>3, <2>4, <2>5 DEF Clean
<1> QED BY <1>0, <1>1, <1>2

\* and end where the second ends.
LEMMA EndsJoin ==
    ASSUME NEW S, NEW a \in Seq(S), NEW b \in Seq(S), NEW w, w = a \o b, NEW d, NEW e, Ends(d, w, e)
    PROVE  \E m : Ends(d, a, m) /\ Ends(m, b, e)
<1>0. Len(b) \in 0..Len(b) /\ Len(w) = Len(a) + Len(b)
  OBVIOUS
<1>1. Reaches(d, w, Len(a) + Len(b), e) /\ NoStop(w, Len(a) + Len(b))
  BY <1>0 DEF Ends
<1>2. PICK m : Reaches(d, a, Len(a), m) /\ Reaches(m, b, Len(b), e)
  BY <1>0, <1>1, ReachesSplit
<1>3. NoStop(a, Len(a)) /\ NoStop(b, Len(b))
  BY <1>0, <1>1, NoStopParts
<1> QED BY <1>2, <1>3 DEF Ends

\* Writes that are in order and end well are safe.
LEMMA SafeClean ==
    ASSUME NEW d, NEW w, NEW tg, NEW o, NEW x, Clean(d, w, tg, o, x),
           \A e : Ends(d, w, e) => SoundDisk(e, {}, o, x)
    PROVE  Safe(d, w, tg, o, x)
<1> SUFFICES ASSUME NEW k \in 0..Len(w), NEW e, Reaches(d, w, k, e), NoStop(w, k)
             PROVE  SoundDisk(e, AfterWrites(w, k, tg), o, x)
  BY DEF Safe
<1>1. CASE k = Len(w)
  BY <1>1 DEF Ends, AfterWrites
<1>2. CASE k # Len(w)
  BY <1>2 DEF Clean, AfterWrites
<1> QED BY <1>1, <1>2

\* What RemoveFile returns, whatever it is given.
LEMMA RemoveFileType ==
    ASSUME NEW h, NEW name, NEW map, NEW table, NEW ds, NEW r, r = RemoveFile(h, name, map, table, ds)
    PROVE  /\ DOMAIN r = {"map", "table", "sectors", "writes"}
           /\ \E S : r.writes \in Seq(S)
<1>0. PICK own, table2, u, v, z :
         /\ own = Blocks(disk, disk[h]) \cup {h}
         /\ table2 = RemoveName(table, name, NoName)
         /\ u = Write(h, [disk[h] EXCEPT !.numVisits = @ - 1])
         /\ v = Write(MapSector, MapFile(map \ own))
         /\ z = Write(ds, DirFile(table2))
  OBVIOUS
<1>1. r \in {[map |-> map, table |-> table, sectors |-> {}, writes |-> <<u>>],
             [map |-> map, table |-> table, sectors |-> {}, writes |-> <<u, Stop>>],
             [map |-> map \ own, table |-> table2, sectors |-> own, writes |-> <<u, v, z>>]}
  BY <1>0 DEF RemoveFile
<1>2. DOMAIN r = {"map", "table", "sectors", "writes"}
  BY <1>1
<1>3. r.writes \in {<<u>>, <<u, Stop>>, <<u, v, z>>}
  BY <1>1
<1>4. PICK S : S = {u, v, z, Stop}
  OBVIOUS
<1>5. <<u>> \in Seq(S) /\ <<u, Stop>> \in Seq(S) /\ <<u, v, z>> \in Seq(S)
  BY <1>4
<1> QED BY <1>2, <1>3, <1>5

\* The disk while the entries of directory D are removed one by one: entries
\* after the i-th are still there, and what they lead to is as it was.
KeptDirs(e, G, D) ==
    /\ \A E \in G : SameFile(disk, e, E)
    /\ \A E \in G \cup {FreeMapSector} : ContentOf(e, E) = ContentOf(disk, E)
    /\ \A E \in G : E # D => TableOf(e, E) = TableOf(disk, E)
Waiting(e, table, i, old) ==
    \A j \in InUse(old) : j > i => j \in InUse(table) /\ SameFile(disk, e, old[j].sector)
Half(e, map, table, i, F2, F, G, D, old, o, x) ==
    /\ F2 \subseteq F
    /\ Sound(e, F2, G, {}, o, x)
    /\ MarkedOn(e) = map
    /\ TableOf(e, D) = table
    /\ KeptDirs(e, G, D)
    /\ Fewer(old, table)
    /\ Waiting(e, table, i, old)

\* Before the first entry.
LEMMA HalfStart ==
    ASSUME NEW F, NEW G, NEW o, NEW x, Sound(disk, F, G, {}, o, x), NEW D \in G, NEW w, NEW e,
           Reaches(disk, w, 0, e)
    PROVE  Half(e, MarkedOn(disk), TableOf(disk, D), 0, F, F, G, D, TableOf(disk, D), o, x)
<1>1. DOMAIN e = Sector /\ \A s \in Sector : e[s] = disk[s]
  BY ReachesNone
<1>2. Shape(disk, F, G)
  BY DEF Sound
<1>3. Sound(e, F, G, {}, o, x)
  <2>1. PICK none : none = {} /\ none \subseteq none
    OBVIOUS
  <2>2. Sound(disk, F, G, none, o, x)
    BY <2>1
  <2>3. Sound(e, F, G, none, o, x)
    BY <1>1, <2>1, <2>2, SoundSame
  <2> QED BY <2>1, <2>3
<1>4. OthersKept(disk, e, F, G)
  <2>1. OnlyAt(disk, e, ContentOf(disk, FreeMapSector))
    BY <1>1 DEF OnlyAt
  <2> QED BY <1>2, <2>1, MapApart
<1>5. /\ \A f \in F : SameFile(disk, e, f)
      /\ \A E \in G \cup {FreeMapSector} : ContentOf(e, E) = ContentOf(disk, E)
      /\ \A E \in G : TableOf(e, E) = TableOf(disk, E)
  BY <1>4 DEF OthersKept
<1>6. MarkedOn(e) = MarkedOn(disk)
  <2>1. ContentOf(disk, FreeMapSector) \in Sector
    BY <1>2 DEF Shape, MapOK, OneSector
  <2> QED BY <1>1, <1>5, <2>1 DEF MarkedOn
<1>7. KeptDirs(e, G, D)
  <2>1. G \subseteq F
    BY <1>2 DEF Shape
  <2> QED BY <1>5, <2>1 DEF KeptDirs
<1>8. Waiting(e, TableOf(disk, D), 0, TableOf(disk, D))
  <2> SUFFICES ASSUME NEW j \in InUse(TableOf(disk, D))
               PROVE  SameFile(disk, e, TableOf(disk, D)[j].sector)
    BY DEF Waiting
  <2>1. TableOf(disk, D)[j].sector \in F
    BY <1>2 DEF Shape, LinksOK
  <2> QED BY <1>5, <2>1
<1>9. Fewer(TableOf(disk, D), TableOf(disk, D))
  BY DEF Fewer
<1> QED BY <1>3, <1>5, <1>6, <1>7, <1>8, <1>9 DEF Half

\* The table that RemoveFile leaves.
LEMMA TableAfter ==
    ASSUME NEW h, NEW name, NEW map, NEW table, NEW ds, NEW r, r = RemoveFile(h, name, map, table, ds),
           TableOK(table), NEW i, Found(table, name, i)
    PROVE  Fewer(table, r.table) /\ InUse(table) \ {i} \subseteq InUse(r.table)
<1>1. r.table = table \/ r.table = RemoveName(table, name, NoName)
  <2>1. \/ RemovesNothing(r, h, map, table, <<>>)
        \/ RemovesNothing(r, h, map, table, <<Stop>>)
        \/ \E own : RemovesAll(r, h, name, map, table, ds, own)
    BY RemoveFileIs
  <2>2. ASSUME NEW last, RemovesNothing(r, h, map, table, last) PROVE r.table = table
    BY <2>2 DEF RemovesNothing
  <2>3. ASSUME NEW own, RemovesAll(r, h, name, map, table, ds, own)
        PROVE  r.table = RemoveName(table, name, NoName)
    BY <2>3 DEF RemovesAll
  <2> QED BY <2>1, <2>2, <2>3
<1>2. Without(table, RemoveName(table, name, NoName), i)
  BY RemoveNameIs
<1>3. Fewer(table, table)
  BY DEF Fewer
<1> QED BY <1>1, <1>2, <1>3 DEF Without

\* Entries go one after the other.
LEMMA FewerTrans ==
    ASSUME NEW a, NEW b, NEW c, Fewer(a, b), Fewer(b, c)
    PROVE  Fewer(a, c)
<1>1. \A i \in InUse(c) : i \in InUse(b) /\ c[i] = b[i]
  BY DEF Fewer
<1>2. \A i \in InUse(b) : i \in InUse(a) /\ b[i] = a[i]
  BY DEF Fewer
<1>3. \A i \in InUse(c) : i \in InUse(a) /\ c[i] = a[i]
  BY <1>1, <1>2
<1> QED BY <1>3 DEF Fewer

\* The only entry with its name is found.
LEMMA OnlyEntry ==
    ASSUME NEW old, NEW table, NamedOnce(old), Fewer(old, table), NEW i \in InUse(table)
    PROVE  Found(table, old[i].name, i) /\ table[i] = old[i]
<1>1. table[i] = old[i] /\ i \in InUse(old)
  BY DEF Fewer
<1>2. Holding(table, old[i].name) = {i}
  <2>1. i \in Holding(table, old[i].name)
    BY <1>1 DEF Holding
  <2>2. ASSUME NEW j \in Holding(table, old[i].name) PROVE j = i
    <3>1. j \in InUse(table) /\ table[j].name = old[i].name
      BY DEF Holding
    <3>2. j \in InUse(old) /\ table[j] = old[j]
      BY <3>1 DEF Fewer
    <3> QED BY <1>1, <3>1, <3>2 DEF NamedOnce
  <2> QED BY <2>1, <2>2
<1>3. FirstOf({i}) = i
  <2>1. i \in Nat
    BY DEF InUse
  <2> QED BY <2>1 DEF FirstOf
<1> QED BY <1>1, <1>2, <1>3 DEF Found

\* One more entry.
HalfThen(e, r, i, F, G, D, old, o, x) == \E F3 : Half(e, r.map, r.table, i, F3, F, G, D, old, o, x)

\* The removal of one file, in the loop that empties a directory.
LEMMA HalfStep ==
    ASSUME NEW m, NEW map, NEW table, NEW i \in 1..NumDirEntries, NEW F2, NEW F, NEW G, NEW D \in G,
           NEW old, NEW o, NEW x, Half(m, map, table, i - 1, F2, F, G, D, old, o, x), Unused(o, x),
           D # DirectorySector, NamedOnce(old), i \in InUse(old),
           NEW r, r = RemoveFile(old[i].sector, old[i].name, map, table, ContentOf(disk, D)),
           NEW tg, r.sectors \subseteq tg
    PROVE  /\ Clean(m, r.writes, tg, o, x)
           /\ \A e : Ends(m, r.writes, e) => HalfThen(e, r, i, F, G, D, old, o, x)
<1>1. PICK h, name : h = old[i].sector /\ name = old[i].name
  OBVIOUS
<1>2. /\ F2 \subseteq F /\ Sound(m, F2, G, {}, o, x) /\ MarkedOn(m) = map /\ TableOf(m, D) = table
      /\ KeptDirs(m, G, D) /\ Fewer(old, table) /\ Waiting(m, table, i - 1, old)
  BY DEF Half
<1>3. i \in InUse(table) /\ SameFile(disk, m, h)
  <2>1. i > i - 1
    OBVIOUS
  <2> QED BY <1>1, <1>2, <2>1 DEF Waiting
<1>4. Found(table, name, i) /\ table[i] = old[i]
  BY <1>1, <1>2, <1>3, OnlyEntry
<1>5. Shape(m, F2, G) /\ TableOK(table)
  BY <1>2 DEF Sound, Shape, DirOK
<1>6. h \in F2 /\ h \notin G
  <2>1. h = TableOf(m, D)[i].sector /\ i \in InUse(TableOf(m, D))
    BY <1>1, <1>2, <1>3, <1>4
  <2>2. h \in F2 /\ m[h].fileType # 1
    BY <1>5, <2>1 DEF Shape, LinksOK
  <2>3. \A E \in G : m[E].fileType = 1
    BY <1>5 DEF Shape, DirOK, OneSector
  <2> QED BY <2>2, <2>3
<1>7. Removable(m, F2, G, D, i, name, h)
  <2>1. MapSector = ContentOf(m, FreeMapSector)
    BY <1>2 DEF KeptDirs, MapSector, ContentOf
  <2> QED BY <1>1, <1>2, <1>3, <1>4, <1>6, <2>1 DEF Removable
<1>8. r = RemoveFile(h, name, MarkedOn(m), TableOf(m, D), ContentOf(m, D))
  <2>1. ContentOf(m, D) = ContentOf(disk, D)
    BY <1>2 DEF KeptDirs
  <2> QED BY <1>1, <1>2, <2>1
<1>9. /\ Clean(m, r.writes, tg, o, x)
      /\ \A e : Ends(m, r.writes, e) => EntryDone(m, e, F2, G, D, h, r, o, x)
  BY <1>2, <1>7, <1>8, RemoveStep
<1>10. Fewer(table, r.table) /\ InUse(table) \ {i} \subseteq InUse(r.table)
  BY <1>1, <1>4, <1>5, TableAfter
<1>11. ASSUME NEW e, Ends(m, r.writes, e) PROVE HalfThen(e, r, i, F, G, D, old, o, x)
  <2>1. PICK F3 : /\ F2 \ {h} \subseteq F3 /\ F3 \subseteq F2
                  /\ Sound(e, F3, G, {}, o, x)
                  /\ Gone(m, e, F2 \ {h}, G, D, r.table, r.map)
    BY <1>9, <1>11 DEF EntryDone
  <2>2. MarkedOn(e) = r.map /\ TableOf(e, D) = r.table
    BY <2>1 DEF Gone
  <2>3. Fewer(old, r.table)
    BY <1>2, <1>10, FewerTrans
  <2>4. KeptDirs(e, G, D)
    <3>1. ASSUME NEW E \in G PROVE SameFile(disk, e, E)
      <4>1. E \in F2 \ {h}
        BY <1>5, <1>6 DEF Shape
      <4>2. SameFile(disk, m, E) /\ SameFile(m, e, E)
        BY <1>2, <2>1, <4>1 DEF KeptDirs, Gone
      <4> QED BY <4>2, SameFileTrans
    <3>2. \A E \in G \cup {FreeMapSector} : ContentOf(e, E) = ContentOf(disk, E)
      BY <1>2, <2>1 DEF KeptDirs, Gone
    <3>3. \A E \in G : E # D => TableOf(e, E) = TableOf(disk, E)
      BY <1>2, <2>1 DEF KeptDirs, Gone
    <3> QED BY <3>1, <3>2, <3>3 DEF KeptDirs
  <2>5. Waiting(e, r.table, i, old)
    <3> SUFFICES ASSUME NEW j \in InUse(old), j > i
                 PROVE  j \in InUse(r.table) /\ SameFile(disk, e, old[j].sector)
      BY DEF Waiting
    <3>0. j \in Nat /\ j > i - 1 /\ j # i
      BY DEF InUse
    <3>1. j \in InUse(table) /\ SameFile(disk, m, old[j].sector)
      BY <1>2, <3>0 DEF Waiting
    <3>2. table[j] = old[j]
      BY <1>2, <3>1 DEF Fewer
    <3>3. old[j].sector \in F2 \ {h}
      <4>1. /\ i \in InUse(TableOf(m, D)) /\ j \in InUse(TableOf(m, D))
            /\ h = TableOf(m, D)[i].sector /\ old[j].sector = TableOf(m, D)[j].sector
        BY <1>1, <1>2, <1>3, <1>4, <3>1, <3>2
      <4>2. old[j].sector \in F2
        BY <1>5, <4>1 DEF Shape, LinksOK
      <4>3. old[j].sector # h
        BY <1>5, <3>0, <4>1 DEF Shape, LinkedOnce
      <4> QED BY <4>2, <4>3
    <3>4. SameFile(m, e, old[j].sector)
      BY <2>1, <3>3 DEF Gone
    <3>5. SameFile(disk, e, old[j].sector)
      BY <3>1, <3>4, SameFileTrans
    <3> QED BY <1>10, <3>0, <3>1, <3>5
  <2>6. F3 \subseteq F
    BY <1>2, <2>1
  <2>7. Half(e, r.map, r.table, i, F3, F, G, D, old, o, x)
    BY <2>1, <2>2, <2>3, <2>4, <2>5, <2>6 DEF Half
  <2> QED BY <2>7 DEF HalfThen
<1> QED BY <1>9, <1>11

\* What the calls for the first i entries have put together.
CleanFor(s, o, x) == \A tg : s.sectors \subseteq tg => Clean(disk, s.writes, tg, o, x)
EndsHalf(s, i, F, G, D, old, o, x) ==
    \A e : Ends(disk, s.writes, e) => HalfThen(e, s, i, F, G, D, old, o, x)
SoFar(s, i, F, G, D, old, o, x) ==
    /\ \E S : s.writes \in Seq(S)
    /\ CleanFor(s, o, x)
    /\ EndsHalf(s, i, F, G, D, old, o, x)

\* Before the first entry.
LEMMA SoFarStart ==
    ASSUME NEW F, NEW G, NEW o, NEW x, Sound(disk, F, G, {}, o, x), NEW D \in G,
           NEW old, old = TableOf(disk, D), NEW s, s = EntryStart(old)
    PROVE  SoFar(s, 0, F, G, D, old, o, x)
<1>1. s.map = MarkedOn(disk) /\ s.table = old /\ s.writes = <<>>
  BY DEF EntryStart, FreeMap, MarkedOn, ContentOf
<1>2. \E S : s.writes \in Seq(S)
  BY <1>1
<1>3. CleanFor(s, o, x)
  <2> SUFFICES ASSUME NEW tg, NEW k \in 0..Len(s.writes), NEW e, Reaches(disk, s.writes, k, e)
               PROVE  SoundDisk(e, tg, o, x)
    BY DEF CleanFor, Clean
  <2>1. k = 0
    BY <1>1
  <2>2. Reaches(disk, s.writes, 0, e)
    BY <2>1
  <2> QED BY <2>2, SoundNone
<1>4. ASSUME NEW e, Ends(disk, s.writes, e) PROVE HalfThen(e, s, 0, F, G, D, old, o, x)
  <2>1. Len(s.writes) = 0
    BY <1>1
  <2>2. Reaches(disk, s.writes, 0, e)
    BY <1>4, <2>1 DEF Ends
  <2>3. Half(e, s.map, s.table, 0, F, F, G, D, old, o, x)
    BY <1>1, <2>2, HalfStart
  <2> QED BY <2>3 DEF HalfThen
<1> QED BY <1>2, <1>3, <1>4 DEF SoFar, EndsHalf

\* An entry that is not in use.
LEMMA HalfSkip ==
    ASSUME NEW e, NEW s, NEW i \in 1..NumDirEntries, NEW F, NEW G, NEW D, NEW old, NEW o, NEW x,
           HalfThen(e, s, i - 1, F, G, D, old, o, x)
    PROVE  HalfThen(e, s, i, F, G, D, old, o, x)
<1>1. PICK F2 : Half(e, s.map, s.table, i - 1, F2, F, G, D, old, o, x)
  BY DEF HalfThen
<1>2. Waiting(e, s.table, i, old)
  <2> SUFFICES ASSUME NEW j \in InUse(old), j > i
               PROVE  j \in InUse(s.table) /\ SameFile(disk, e, old[j].sector)
    BY DEF Waiting
  <2>1. j > i - 1
    BY DEF InUse
  <2> QED BY <1>1, <2>1 DEF Half, Waiting
<1>3. Half(e, s.map, s.table, i, F2, F, G, D, old, o, x)
  BY <1>1, <1>2 DEF Half
<1> QED BY <1>3 DEF HalfThen

\* The record that an entry in use adds to.
AddsTo(s, r, s2) ==
    /\ s2.map = r.map /\ s2.table = r.table
    /\ s2.sectors = s.sectors \cup r.sectors
    /\ s2.writes = s.writes \o r.writes
    /\ \E S : r.writes \in Seq(S)

\* A round of this loop adds to what is written and given back.
LEMMA EntryAdds ==
    ASSUME NEW s, NEW old, NEW ds, NEW i, old[i].inUse, NEW s2, s2 = EntryStep(s, old, ds, i)
    PROVE  AddsTo(s, RemoveFile(old[i].sector, old[i].name, s.map, s.table, ds), s2)
<1>1. PICK r : r = RemoveFile(old[i].sector, old[i].name, s.map, s.table, ds)
  OBVIOUS
<1>2. DOMAIN r = {"map", "table", "sectors", "writes"} /\ \E S : r.writes \in Seq(S)
  BY <1>1, RemoveFileType
<1>3. s2 = [r EXCEPT !.sectors = s.sectors \cup @, !.writes = s.writes \o @]
  BY <1>1 DEF EntryStep
<1>4. s2.map = r.map /\ s2.table = r.table
  BY <1>2, <1>3
<1>5. s2.sectors = s.sectors \cup r.sectors /\ s2.writes = s.writes \o r.writes
  BY <1>2, <1>3
<1>6. AddsTo(s, r, s2)
  BY <1>2, <1>4, <1>5 DEF AddsTo
<1> QED BY <1>1, <1>6

\* Two sequences have elements in a common set.
LEMMA TwoSeqs ==
    ASSUME NEW a, NEW b, \E S : a \in Seq(S), \E S : b \in Seq(S)
    PROVE  \E S : a \in Seq(S) /\ b \in Seq(S) /\ a \o b \in Seq(S)
<1>1. PICK S : a \in Seq(S)
  OBVIOUS
<1>2. PICK T : b \in Seq(T)
  OBVIOUS
<1>3. PICK U : U = S \cup T
  OBVIOUS
<1>4. a \in Seq(U)
  BY <1>1, <1>3
<1>5. b \in Seq(U)
  BY <1>2, <1>3
<1> QED BY <1>4, <1>5

\* One entry after the other.
LEMMA SoFarStep ==
    ASSUME NEW F, NEW G, NEW o, NEW x, Unused(o, x), NEW D \in G, D # DirectorySector,
           NEW old, NamedOnce(old), NEW i \in 1..NumDirEntries, NEW s,
           SoFar(s, i - 1, F, G, D, old, o, x),
           NEW s2, s2 = EntryStep(s, old, ContentOf(disk, D), i)
    PROVE  SoFar(s2, i, F, G, D, old, o, x)
<1>1. CASE ~old[i].inUse
  <2>1. s2 = s
    BY <1>1 DEF EntryStep
  <2>2. \A e : Ends(disk, s.writes, e) => HalfThen(e, s, i, F, G, D, old, o, x)
    BY HalfSkip DEF SoFar, EndsHalf
  <2> QED BY <2>1, <2>2 DEF SoFar, EndsHalf
<1>2. CASE old[i].inUse
  <2>r. PICK r : r = RemoveFile(old[i].sector, old[i].name, s.map, s.table, ContentOf(disk, D))
    OBVIOUS
  <2>a. AddsTo(s, r, s2)
    BY <1>2, <2>r, EntryAdds
  <2>1. /\ s2.map = r.map /\ s2.table = r.table
        /\ s2.sectors = s.sectors \cup r.sectors
        /\ s2.writes = s.writes \o r.writes
        /\ \E S : r.writes \in Seq(S)
    BY <2>a DEF AddsTo
  <2>2. PICK S : s.writes \in Seq(S) /\ r.writes \in Seq(S) /\ s.writes \o r.writes \in Seq(S)
    BY <2>1, TwoSeqs DEF SoFar
  <2>3. i \in InUse(old)
    BY <1>2 DEF InUse
  <2>4. ASSUME NEW m, Ends(disk, s.writes, m), NEW tg, r.sectors \subseteq tg
        PROVE  /\ Clean(m, r.writes, tg, o, x)
               /\ \A e : Ends(m, r.writes, e) => HalfThen(e, r, i, F, G, D, old, o, x)
    <3>1. HalfThen(m, s, i - 1, F, G, D, old, o, x)
      BY <2>4 DEF SoFar, EndsHalf
    <3>2. PICK F2 : Half(m, s.map, s.table, i - 1, F2, F, G, D, old, o, x)
      BY <3>1 DEF HalfThen
    <3> QED BY <2>r, <2>3, <2>4, <3>2, HalfStep
  <2>5. PICK a, b, w : a = s.writes /\ b = r.writes /\ w = s2.writes
    OBVIOUS
  <2>6. a \in Seq(S) /\ b \in Seq(S) /\ w = a \o b
    BY <2>1, <2>2, <2>5
  <2>7. CleanFor(s2, o, x)
    <3> SUFFICES ASSUME NEW tg, s2.sectors \subseteq tg PROVE Clean(disk, s2.writes, tg, o, x)
      BY DEF CleanFor
    <3>1. s.sectors \subseteq tg /\ r.sectors \subseteq tg
      BY <2>1
    <3>2. Clean(disk, a, tg, o, x)
      BY <2>5, <3>1 DEF SoFar, CleanFor
    <3>3. CleanAfter(disk, a, b, tg, o, x)
      BY <2>4, <2>5, <3>1 DEF CleanAfter
    <3>4. Clean(disk, w, tg, o, x)
      BY <2>6, <3>2, <3>3, CleanJoin
    <3> QED BY <2>5, <3>4
  <2>8. ASSUME NEW e, Ends(disk, s2.writes, e) PROVE HalfThen(e, s2, i, F, G, D, old, o, x)
    <3>1. Ends(disk, w, e)
      BY <2>5, <2>8
    <3>2. PICK m : Ends(disk, a, m) /\ Ends(m, b, e)
      BY <2>6, <3>1, EndsJoin
    <3>3. HalfThen(e, r, i, F, G, D, old, o, x)
      BY <2>4, <2>5, <3>2
    <3> QED BY <2>1, <3>3 DEF HalfThen
  <2>9. \E T : s2.writes \in Seq(T)
    BY <2>1, <2>2
  <2> QED BY <2>7, <2>8, <2>9 DEF SoFar, EndsHalf
<1> QED BY <1>1, <1>2

\* All entries.
LEMMA EntriesDone ==
    ASSUME NEW F, NEW G, NEW o, NEW x, Sound(disk, F, G, {}, o, x), Unused(o, x),
           NEW D \in G, D # DirectorySector, NamedOnce(TableOf(disk, D))
    PROVE  SoFar(RemoveEntries(D), NumDirEntries, F, G, D, TableOf(disk, D), o, x)
<1>1. PICK old : old = TableOf(disk, D)
  OBVIOUS
<1>2. DirTable(D) = old /\ DirSector(D) = ContentOf(disk, D)
  BY <1>1 DEF DirTable, DirSector, TableOf, ContentOf
<1>3. PICK f : /\ Removals(f, old, ContentOf(disk, D), NumDirEntries)
               /\ RemoveEntries(D) = f[NumDirEntries]
  BY <1>2, RemoveEntriesIs
<1>4. NumDirEntries \in Nat
  BY SizesAssumption
<1>5. f[0] = EntryStart(old)
  BY <1>3, <1>4 DEF Removals
<1>6. \A i \in 1..NumDirEntries : f[i] = EntryStep(f[i - 1], old, ContentOf(disk, D), i)
  BY <1>3, <1>4 DEF Removals
<1> DEFINE bad == {i \in 0..NumDirEntries : ~SoFar(f[i], i, F, G, D, old, o, x)}
<1>7. ASSUME bad # {} PROVE FALSE
  <2>0. bad \in SUBSET Nat
    OBVIOUS
  <2>1. PICK k \in bad : \A n \in bad : k <= n
    BY <1>7, <2>0, Least
  <2>2. k \in 0..NumDirEntries /\ ~SoFar(f[k], k, F, G, D, old, o, x)
    OBVIOUS
  <2>3. CASE k = 0
    <3>1. SoFar(f[0], 0, F, G, D, old, o, x)
      BY <1>1, <1>5, SoFarStart
    <3> QED BY <2>2, <2>3, <3>1
  <2>4. CASE k # 0
    <3>1. k \in 1..NumDirEntries /\ k - 1 \in 0..NumDirEntries /\ ~(k <= k - 1)
      BY <1>4, <2>2, <2>4
    <3>2. k - 1 \notin bad
      BY <2>1, <3>1
    <3>3. SoFar(f[k - 1], k - 1, F, G, D, old, o, x)
      BY <3>1, <3>2
    <3>4. f[k] = EntryStep(f[k - 1], old, ContentOf(disk, D), k)
      BY <1>6, <3>1
    <3>5. NamedOnce(old)
      BY <1>1
    <3> HIDE DEF bad
    <3>6. SoFar(f[k], k, F, G, D, old, o, x)
      BY <3>1, <3>3, <3>4, <3>5, SoFarStep
    <3> QED BY <2>2, <3>6
  <2> QED BY <2>3, <2>4
<1>8. SoFar(f[NumDirEntries], NumDirEntries, F, G, D, old, o, x)
  BY <1>4, <1>7
<1> QED BY <1>1, <1>3, <1>8

\* A directory can go, and with it the files that are left in it.
Inside(d, h) == {TableOf(d, h)[j].sector : j \in InUse(TableOf(d, h))}

\* What stays is a tree, and shares nothing with what goes.
LEMMA DirGoes ==
    ASSUME NEW d, NEW F, NEW G, Shape(d, F, G), NEW i \in InUse(TableOf(d, DirectorySector)),
           NEW h \in G, h = TableOf(d, DirectorySector)[i].sector,
           NEW F2, F2 = F \ ({h} \cup Inside(d, h)), NEW G2, G2 = G \ {h}
    PROVE  /\ Remaining(d, F, G, F2, G2, DirectorySector, i)
           /\ DisjointFrom(d, F2, OwnedBy(d, h))
<1>1. DirectorySector \in G /\ G \subseteq F /\ FreeMapSector \in F /\ FreeMapSector \notin G
  BY DEF Shape
<1>2. h \in F \ {FreeMapSector, DirectorySector}
  BY <1>1 DEF Shape, LinksOK
<1>3. ASSUME NEW f \in Inside(d, h) PROVE f \notin G \cup {FreeMapSector}
  <2>1. PICK j \in InUse(TableOf(d, h)) : f = TableOf(d, h)[j].sector
    BY DEF Inside
  <2>2. f \in F \ {FreeMapSector, DirectorySector} /\ d[f].fileType # 1
    BY <1>2, <2>1 DEF Shape, LinksOK
  <2>3. \A E \in G : d[E].fileType = 1
    BY DEF Shape, DirOK, OneSector
  <2> QED BY <2>2, <2>3
<1>4. ASSUME NEW E \in G2, NEW j \in InUse(TableOf(d, E)), E # DirectorySector \/ j # i
      PROVE  TableOf(d, E)[j].sector \in F2 /\ TableOf(d, E)[j].sector # h
  <2>0. E \in G /\ E # h
    OBVIOUS
  <2>1. TableOf(d, E)[j].sector \in F
    BY <2>0 DEF Shape, LinksOK
  <2>2. TableOf(d, E)[j].sector # h
    BY <1>1, <1>4, <2>0 DEF Shape, LinkedOnce
  <2>3. \A k \in InUse(TableOf(d, h)) : TableOf(d, h)[k].sector # TableOf(d, E)[j].sector
    BY <2>0 DEF Shape, LinkedOnce
  <2>4. TableOf(d, E)[j].sector \notin Inside(d, h)
    BY <2>3 DEF Inside
  <2> QED BY <2>1, <2>2, <2>4
<1>5. /\ F2 \in SUBSET F /\ G2 \in SUBSET G /\ G2 \subseteq F2
      /\ FreeMapSector \in F2 /\ DirectorySector \in G2
  BY <1>1, <1>2, <1>3
<1>6. Remaining(d, F, G, F2, G2, DirectorySector, i)
  <2>1. ASSUME NEW E \in G2, NEW j \in InUse(TableOf(d, E)), E # DirectorySector \/ j # i
        PROVE  /\ TableOf(d, E)[j].sector \in F2
               /\ TableOf(d, E)[j].sector \in G => TableOf(d, E)[j].sector \in G2
    BY <1>4, <2>1
  <2> QED BY <1>5, <2>1 DEF Remaining
<1>7. DisjointFrom(d, F2, OwnedBy(d, h))
  <2> SUFFICES ASSUME NEW f \in F2 PROVE OwnedBy(d, f) \cap OwnedBy(d, h) = {}
    BY DEF DisjointFrom
  <2>1. f \in F /\ h \in F /\ f # h
    BY <1>2
  <2> QED BY <2>1 DEF Shape, NoneShared
<1> QED BY <1>6, <1>7

\* The last two writes of Remove of a directory.
LEMMA DirDrops ==
    ASSUME NEW m, NEW F, NEW G, NEW o, NEW x, Sound(m, F, G, {}, o, x), Unused(o, x),
           NEW name, NEW i, Found(TableOf(m, DirectorySector), name, i),
           NEW h \in G, h = TableOf(m, DirectorySector)[i].sector,
           NEW own, own = OwnedBy(m, h), NEW tg, own \subseteq tg,
           NEW table, table = RemoveName(TableOf(m, DirectorySector), name, NoName),
           NEW b, b = Write(ContentOf(m, FreeMapSector), MapFile(MarkedOn(m) \ own)),
           NEW c, c = Write(ContentOf(m, DirectorySector), DirFile(table))
    PROVE  /\ Clean(m, <<b, c>>, tg, o, x)
           /\ \A e : Ends(m, <<b, c>>, e) => SoundDisk(e, {}, o, x)
<1>1. PICK F2, G2 : F2 = F \ ({h} \cup Inside(m, h)) /\ G2 = G \ {h}
  OBVIOUS
<1>2. Shape(m, F, G) /\ i \in InUse(TableOf(m, DirectorySector)) /\ DirectorySector \in G
  BY DEF Sound, Shape, Found
<1>3. Remaining(m, F, G, F2, G2, DirectorySector, i) /\ DisjointFrom(m, F2, own)
  BY <1>1, <1>2, DirGoes
<1>4. Len(<<b, c>>) = 2
  OBVIOUS
<1>5. ASSUME NEW e, Reaches(m, <<b, c>>, 1, e) PROVE Sound(e, F, G, tg, o, x)
  <2>1. Reaches(m, <<b>>, 1, e)
    BY <1>5, TwoWrites
  <2>2. Reaches(m, <<Write(ContentOf(m, FreeMapSector), MapFile(MarkedOn(m) \ own))>>, 1, e)
    BY <2>1
  <2> QED BY <2>2, DropMap
<1>6. ASSUME NEW e, Reaches(m, <<b, c>>, 2, e) PROVE Sound(e, F2, G2, {}, o, x)
  <2>1. PICK n : Reaches(m, <<b>>, 1, n) /\ Reaches(n, <<c>>, 1, e)
    BY <1>6, BothWrites
  <2>2. /\ Reaches(m, <<Write(ContentOf(m, FreeMapSector), MapFile(MarkedOn(m) \ own))>>, 1, n)
        /\ Reaches(n, <<Write(ContentOf(m, DirectorySector), DirFile(table))>>, 1, e)
    BY <2>1
  <2> QED BY <1>2, <1>3, <2>2, DropBoth
<1>7. Clean(m, <<b, c>>, tg, o, x)
  <2> SUFFICES ASSUME NEW k \in 0..2, NEW e, Reaches(m, <<b, c>>, k, e)
               PROVE  SoundDisk(e, tg, o, x)
    BY <1>4 DEF Clean
  <2>1. CASE k = 0
    <3>1. Reaches(m, <<b, c>>, 0, e)
      BY <2>1
    <3> QED BY <3>1, SoundNone
  <2>2. CASE k = 1
    <3>1. Sound(e, F, G, tg, o, x)
      BY <1>5, <2>2
    <3> QED BY <3>1 DEF SoundDisk
  <2>3. CASE k = 2
    <3>1. Sound(e, F2, G2, {}, o, x)
      BY <1>6, <2>3
    <3> QED BY <3>1, SoundMore
  <2>4. k = 0 \/ k = 1 \/ k = 2
    OBVIOUS
  <2> QED BY <2>1, <2>2, <2>3, <2>4
<1>8. ASSUME NEW e, Ends(m, <<b, c>>, e) PROVE SoundDisk(e, {}, o, x)
  <2>1. Reaches(m, <<b, c>>, 2, e)
    BY <1>4, <1>8 DEF Ends
  <2>2. Sound(e, F2, G2, {}, o, x)
    BY <1>6, <2>1
  <2> QED BY <2>2 DEF SoundDisk
<1> QED BY <1>7, <1>8

\* The assertion in Deallocate fails.
LEMMA StopsThere ==
    ASSUME NEW m, NEW F, NEW G, NEW o, NEW x, Sound(m, F, G, {}, o, x), NEW tg
    PROVE  /\ Clean(m, <<Stop>>, tg, o, x)
           /\ \A e : Ends(m, <<Stop>>, e) => SoundDisk(e, {}, o, x)
<1>1. Len(<<Stop>>) = 1 /\ <<Stop>>[1] = Stop /\ Stop.sector = NoSector
  BY DEF Stop, Write
<1>2. ~NoStop(<<Stop>>, 1)
  BY <1>1 DEF NoStop
<1>3. Clean(m, <<Stop>>, tg, o, x)
  <2> SUFFICES ASSUME NEW k \in 0..1, NEW e, Reaches(m, <<Stop>>, k, e), NoStop(<<Stop>>, k)
               PROVE  SoundDisk(e, tg, o, x)
    BY <1>1 DEF Clean
  <2>1. k = 0
    BY <1>2
  <2>2. Reaches(m, <<Stop>>, 0, e)
    BY <2>1
  <2> QED BY <2>2, SoundNone
<1>4. ASSUME NEW e, Ends(m, <<Stop>>, e) PROVE FALSE
  BY <1>1, <1>2, <1>4 DEF Ends
<1> QED BY <1>3, <1>4

\* A call that leaves writes to be made.
LEMMA CallSound ==
    ASSUME FilesInv, machine = "up", UNCHANGED <<disk, machine, handle, xfer>>,
           NEW F, NEW G, Sound(disk, F, G, {}, handle, xfer),
           \E S : todo' \in Seq(S), todo' # <<>>, Safe(disk, todo', target', handle, xfer)
    PROVE  FilesInv'
<1>1. SoundDisk(disk, target', handle, xfer)
  BY SoundMore
<1> QED BY <1>1 DEF FilesInv

\* What Remove of a directory writes when its entries have been removed.
DirectoryWrites(h, g, map, own) ==
    IF DeallocateStops(disk, disk[h], map) THEN <<Stop>>
    ELSE <<Write(MapSector, MapFile(map \ own)),
           Write(DirSector(g.dir), DirFile(RemoveName(DirTable(g.dir), g.name, NoName)))>>

RemovesDirectory(h, g, s, own, last, w, tg) ==
    /\ s = RemoveEntries(h)
    /\ own = Blocks(disk, disk[h]) \cup {h}
    /\ last = DirectoryWrites(h, g, s.map, own)
    /\ w = s.writes \o last
    /\ tg = s.sectors \cup own

\* What FileSystem::Remove does.
LEMMA RemoveIs ==
    ASSUME NEW t, NEW path, Remove(t, path), NEW g, g = getFileName(path), NEW h, h = Lookup(path)
    PROVE  /\ AtRest /\ Alone(t) /\ handle[t] = NoSector /\ h # NoSector
           /\ UNCHANGED <<disk, machine, handle, xfer>>
           /\ disk[h].fileType = 0 =>
                \E r : /\ r = RemoveFile(h, g.name, FreeMap, DirTable(g.dir), DirSector(g.dir))
                       /\ todo' = r.writes /\ target' = r.sectors
           /\ disk[h].fileType # 0 =>
                \E s, own, last : RemovesDirectory(h, g, s, own, last, todo', target')
<1>1. AtRest /\ Alone(t) /\ handle[t] = NoSector /\ h # NoSector
      /\ UNCHANGED <<disk, machine, handle, xfer>>
  BY DEF Remove
<1>2. PICK r, s, own : /\ r = RemoveFile(h, g.name, FreeMap, DirTable(g.dir), DirSector(g.dir))
                       /\ s = RemoveEntries(h)
                       /\ own = Blocks(disk, disk[h]) \cup {h}
  OBVIOUS
<1>3. disk[h].fileType = 0 => todo' = r.writes /\ target' = r.sectors
  BY <1>2 DEF Remove
<1>4. disk[h].fileType # 0 => /\ todo' = s.writes \o DirectoryWrites(h, g, s.map, own)
                              /\ target' = s.sectors \cup own
  BY <1>2 DEF Remove, DirectoryWrites
<1>5. disk[h].fileType # 0 =>
         \E last : RemovesDirectory(h, g, s, own, last, todo', target')
  BY <1>2, <1>4 DEF RemovesDirectory
<1> QED BY <1>1, <1>2, <1>3, <1>5

\* Remove of a regular file.
LEMMA RemoveRegular ==
    ASSUME NEW F, NEW G, NEW o, NEW x, Sound(disk, F, G, {}, o, x), Unused(o, x),
           NEW D \in G, NEW name, NEW i, Found(TableOf(disk, D), name, i),
           NEW h, h = TableOf(disk, D)[i].sector, disk[h].fileType = 0,
           NEW r, r = RemoveFile(h, name, FreeMap, DirTable(D), DirSector(D))
    PROVE  /\ \E S : r.writes \in Seq(S)
           /\ r.writes # <<>>
           /\ Safe(disk, r.writes, r.sectors, o, x)
<1>1. Shape(disk, F, G) /\ i \in InUse(TableOf(disk, D))
  BY DEF Sound, Found
<1>2. h \in F /\ h \notin G
  <2>1. h \in F
    BY <1>1 DEF Shape, LinksOK
  <2>2. \A E \in G : disk[E].fileType = 1
    BY <1>1 DEF Shape, DirOK, OneSector
  <2> QED BY <2>1, <2>2
<1>3. Removable(disk, F, G, D, i, name, h)
  <2>1. SameFile(disk, disk, h)
    BY DEF SameFile
  <2>2. MapSector = ContentOf(disk, FreeMapSector)
    BY DEF MapSector, ContentOf
  <2> QED BY <1>2, <2>1, <2>2 DEF Removable
<1>4. r = RemoveFile(h, name, MarkedOn(disk), TableOf(disk, D), ContentOf(disk, D))
  BY DEF FreeMap, MarkedOn, DirTable, TableOf, DirSector, ContentOf
<1>5. r.sectors \subseteq r.sectors
  OBVIOUS
<1>6. /\ \E S : r.writes \in Seq(S)
      /\ r.writes # <<>>
      /\ Clean(disk, r.writes, r.sectors, o, x)
      /\ \A e : Ends(disk, r.writes, e) => EntryDone(disk, e, F, G, D, h, r, o, x)
  BY <1>3, <1>4, <1>5, RemoveStep
<1>7. ASSUME NEW e, Ends(disk, r.writes, e) PROVE SoundDisk(e, {}, o, x)
  <2>1. EntryDone(disk, e, F, G, D, h, r, o, x)
    BY <1>6, <1>7
  <2> QED BY <2>1 DEF EntryDone, SoundDisk
<1>8. Safe(disk, r.writes, r.sectors, o, x)
  BY <1>6, <1>7, SafeClean
<1> QED BY <1>6, <1>8

\* The last writes, and all of them.
Finishes(m, last, tg, o, x) ==
    Clean(m, last, tg, o, x) /\ \A e : Ends(m, last, e) => SoundDisk(e, {}, o, x)
SafeWrites(w, tg, o, x) ==
    (\E S : w \in Seq(S)) /\ w # <<>> /\ Safe(disk, w, tg, o, x)
EntryFor(h, name, i) ==
    /\ Found(TableOf(disk, DirectorySector), name, i)
    /\ h = TableOf(disk, DirectorySector)[i].sector

\* Remove of a directory, after its entries.
LEMMA DirectoryEnd ==
    ASSUME NEW m, NEW s, NEW F, NEW G, NEW o, NEW x, Sound(disk, F, G, {}, o, x), Unused(o, x),
           NEW name, NEW i, NEW h \in G, EntryFor(h, name, i), h # DirectorySector,
           HalfThen(m, s, NumDirEntries, F, G, h, TableOf(disk, h), o, x),
           NEW g, g.dir = DirectorySector, g.name = name,
           NEW own, NEW last, NEW w, NEW tg, RemovesDirectory(h, g, s, own, last, w, tg)
    PROVE  Finishes(m, last, tg, o, x)
<1>0. own = Blocks(disk, disk[h]) \cup {h} /\ last = DirectoryWrites(h, g, s.map, own)
      /\ own \subseteq tg
  BY DEF RemovesDirectory
<1>1. PICK F2 : Half(m, s.map, s.table, NumDirEntries, F2, F, G, h, TableOf(disk, h), o, x)
  BY DEF HalfThen
<1>2. Sound(m, F2, G, {}, o, x) /\ MarkedOn(m) = s.map /\ KeptDirs(m, G, h)
  BY <1>1 DEF Half
<1>3. CASE DeallocateStops(disk, disk[h], s.map)
  <2>1. last = <<Stop>>
    BY <1>0, <1>3 DEF DirectoryWrites
  <2> QED BY <1>2, <2>1, StopsThere DEF Finishes
<1>4. CASE ~DeallocateStops(disk, disk[h], s.map)
  <2>0. DirectorySector \in G /\ HeaderOK(disk, h) /\ h \in Sector
    BY DEF Sound, Shape, HeaderOK
  <2>1. SameFile(disk, m, h) /\ ContentOf(m, FreeMapSector) = ContentOf(disk, FreeMapSector)
        /\ ContentOf(m, DirectorySector) = ContentOf(disk, DirectorySector)
        /\ TableOf(m, DirectorySector) = TableOf(disk, DirectorySector)
    BY <1>2, <2>0 DEF KeptDirs
  <2>2. own = OwnedBy(m, h)
    <3>1. disk[h].numSectors \in Nat
      BY <2>0 DEF HeaderOK, Fields
    <3>2. Blocks(m, m[h]) = Blocks(disk, disk[h])
      BY <2>1, <3>1, SameFileKeeps
    <3>3. h # NoSector
      BY <2>0, SizesAssumption DEF Sector, NoSector
    <3>4. NoSector \notin Blocks(disk, disk[h])
      BY <1>4 DEF DeallocateStops
    <3> QED BY <1>0, <3>2, <3>3, <3>4 DEF OwnedBy
  <2>3. PICK table : table = RemoveName(TableOf(m, DirectorySector), name, NoName)
    OBVIOUS
  <2>4. PICK b, c : /\ b = Write(ContentOf(m, FreeMapSector), MapFile(MarkedOn(m) \ own))
                    /\ c = Write(ContentOf(m, DirectorySector), DirFile(table))
    OBVIOUS
  <2>5. last = <<b, c>>
    <3>1. MapSector = ContentOf(m, FreeMapSector)
      BY <2>1 DEF MapSector, ContentOf
    <3>2. DirSector(g.dir) = ContentOf(m, DirectorySector)
      BY <2>1 DEF DirSector, ContentOf
    <3>3. DirTable(g.dir) = TableOf(m, DirectorySector)
      BY <2>1 DEF DirTable, TableOf, ContentOf
    <3>4. last = <<Write(MapSector, MapFile(s.map \ own)),
                   Write(DirSector(g.dir), DirFile(RemoveName(DirTable(g.dir), g.name, NoName)))>>
      BY <1>0, <1>4 DEF DirectoryWrites
    <3> QED BY <1>2, <2>3, <2>4, <3>1, <3>2, <3>3, <3>4
  <2>6. Found(TableOf(m, DirectorySector), name, i) /\ h = TableOf(m, DirectorySector)[i].sector
    BY <2>1 DEF EntryFor
  <2>7. /\ Clean(m, <<b, c>>, tg, o, x)
        /\ \A e : Ends(m, <<b, c>>, e) => SoundDisk(e, {}, o, x)
    BY <1>0, <1>2, <2>2, <2>3, <2>4, <2>6, DirDrops
  <2> QED BY <2>5, <2>7 DEF Finishes
<1> QED BY <1>3, <1>4

\* A sequence with something appended is not empty.
LEMMA SomeAppended ==
    ASSUME NEW S, NEW a \in Seq(S), NEW b \in Seq(S), b # <<>>
    PROVE  a \o b # <<>>
<1>1. Len(a \o b) = Len(a) + Len(b) /\ Len(a) \in Nat /\ Len(b) \in Nat /\ Len(b) # 0
  OBVIOUS
<1>2. Len(<<>>) = 0
  OBVIOUS
<1>3. Len(a \o b) # 0
  BY <1>1
<1> QED BY <1>2, <1>3

\* Remove of a directory.
LEMMA RemoveDirectory ==
    ASSUME NEW F, NEW G, NEW o, NEW x, Sound(disk, F, G, {}, o, x), Unused(o, x),
           NEW name, NEW i, NEW h \in G, EntryFor(h, name, i), h # DirectorySector,
           NamedOnce(TableOf(disk, h)),
           NEW g, g.dir = DirectorySector, g.name = name,
           NEW s, NEW own, NEW last, NEW w, NEW tg, RemovesDirectory(h, g, s, own, last, w, tg)
    PROVE  SafeWrites(w, tg, o, x)
<1>0. /\ s = RemoveEntries(h) /\ own = Blocks(disk, disk[h]) \cup {h}
      /\ last = DirectoryWrites(h, g, s.map, own)
      /\ w = s.writes \o last
      /\ tg = s.sectors \cup own
  BY DEF RemovesDirectory
<1>1. SoFar(s, NumDirEntries, F, G, h, TableOf(disk, h), o, x)
  BY <1>0, EntriesDone
<1>2. (\E S : last \in Seq(S)) /\ last # <<>> /\ Len(last) > 0
  <2>1. PICK b, c : /\ b = Write(MapSector, MapFile(s.map \ own))
                    /\ c = Write(DirSector(g.dir), DirFile(RemoveName(DirTable(g.dir), g.name, NoName)))
    OBVIOUS
  <2>2. last = <<Stop>> \/ last = <<b, c>>
    BY <1>0, <2>1 DEF DirectoryWrites
  <2>3. <<Stop>> \in Seq({Stop}) /\ <<Stop>> # <<>> /\ Len(<<Stop>>) > 0
    OBVIOUS
  <2>4. <<b, c>> \in Seq({b, c}) /\ <<b, c>> # <<>> /\ Len(<<b, c>>) > 0
    OBVIOUS
  <2> QED BY <2>2, <2>3, <2>4
<1>3. PICK a : a = s.writes
  OBVIOUS
<1>4. PICK S : a \in Seq(S) /\ last \in Seq(S) /\ a \o last \in Seq(S)
  BY <1>1, <1>2, <1>3, TwoSeqs DEF SoFar
<1>5. w = a \o last /\ w # <<>>
  BY <1>0, <1>2, <1>3, <1>4, SomeAppended
<1>6. ASSUME NEW m, Ends(disk, a, m)
      PROVE  Finishes(m, last, tg, o, x)
  <2>1. HalfThen(m, s, NumDirEntries, F, G, h, TableOf(disk, h), o, x)
    BY <1>1, <1>3, <1>6 DEF SoFar, EndsHalf
  <2> QED BY <2>1, DirectoryEnd
<1>7. Clean(disk, w, tg, o, x)
  <2>1. s.sectors \subseteq tg
    BY <1>0
  <2>2. Clean(disk, a, tg, o, x)
    BY <1>1, <1>3, <2>1 DEF SoFar, CleanFor
  <2>3. CleanAfter(disk, a, last, tg, o, x)
    BY <1>6 DEF CleanAfter, Finishes
  <2> QED BY <1>4, <1>5, <2>2, <2>3, CleanJoin
<1>8. ASSUME NEW e, Ends(disk, w, e) PROVE SoundDisk(e, {}, o, x)
  <2>1. PICK m : Ends(disk, a, m) /\ Ends(m, last, e)
    BY <1>4, <1>5, <1>8, EndsJoin
  <2> QED BY <1>6, <2>1 DEF Finishes
<1>9. Safe(disk, w, tg, o, x)
  BY <1>7, <1>8, SafeClean
<1> QED BY <1>4, <1>5, <1>9 DEF SafeWrites

\* FileSystem::Remove.
LEMMA RemoveSound ==
    ASSUME FilesInv, NEW t \in Thread, NEW path \in FilePath \cup DirPath, Remove(t, path)
    PROVE  FilesInv'
<1>1. PICK g, h : g = getFileName(path) /\ h = Lookup(path)
  OBVIOUS
<1>2. AtRest /\ Alone(t) /\ handle[t] = NoSector /\ h # NoSector
      /\ UNCHANGED <<disk, machine, handle, xfer>>
  BY <1>1, RemoveIs
<1>3. machine = "up" /\ todo = <<>> /\ \A u \in Thread : xfer[u].pc = "idle"
  BY <1>2 DEF AtRest
<1>4. Unused(handle, xfer)
  BY <1>2, <1>3 DEF Unused, Alone
<1>5. PICK F, G : Sound(disk, F, G, {}, handle, xfer)
  BY <1>3, RestSound
<1>6. Shape(disk, F, G) /\ NamesOK(disk)
  BY <1>5 DEF Sound
<1>7. /\ h \in F \ {FreeMapSector, DirectorySector}
      /\ disk[h].fileType = 1 => /\ g.dir = DirectorySector
                                 /\ h \in G
                                 /\ NamedOnce(TableOf(disk, h))
  BY <1>1, <1>2, <1>6, LookupFinds
<1>8. PICK i : Found(TableOf(disk, g.dir), g.name, i) /\ TableOf(disk, g.dir)[i].sector = h
  BY <1>1, <1>2, <1>6, LookupFinds
<1>9. g.dir \in G /\ disk[h].fileType \in {0, 1}
  <2>1. LeadsTo(path, g, F, G)
    BY <1>1, <1>6, PathLeads
  <2>2. HeaderOK(disk, h)
    BY <1>6, <1>7 DEF Shape
  <2> QED BY <2>1, <2>2 DEF LeadsTo, HeaderOK, Fields
<1>10. /\ \E S : todo' \in Seq(S)
       /\ todo' # <<>>
       /\ Safe(disk, todo', target', handle, xfer)
  <2>1. CASE disk[h].fileType = 0
    <3>1. PICK r : /\ r = RemoveFile(h, g.name, FreeMap, DirTable(g.dir), DirSector(g.dir))
                   /\ todo' = r.writes /\ target' = r.sectors
      BY <1>1, <2>1, RemoveIs
    <3>2. /\ \E S : r.writes \in Seq(S)
          /\ r.writes # <<>>
          /\ Safe(disk, r.writes, r.sectors, handle, xfer)
      BY <1>4, <1>5, <1>8, <1>9, <2>1, <3>1, RemoveRegular
    <3> QED BY <3>1, <3>2
  <2>2. CASE disk[h].fileType = 1
    <3>0. disk[h].fileType # 0
      BY <2>2
    <3>1. PICK s, own, last : RemovesDirectory(h, g, s, own, last, todo', target')
      BY <1>1, <3>0, RemoveIs
    <3>2. PICK w, tg : w = todo' /\ tg = target'
      OBVIOUS
    <3>5. RemovesDirectory(h, g, s, own, last, w, tg)
      BY <3>1, <3>2
    <3>3. /\ g.dir = DirectorySector /\ h \in G /\ NamedOnce(TableOf(disk, h)) /\ h # DirectorySector
          /\ EntryFor(h, g.name, i)
      BY <1>7, <1>8, <2>2 DEF EntryFor
    <3>4. SafeWrites(w, tg, handle, xfer)
      BY <1>4, <1>5, <3>3, <3>5, RemoveDirectory
    <3> QED BY <3>2, <3>4 DEF SafeWrites
  <2> QED BY <1>9, <2>1, <2>2
<1> QED BY <1>2, <1>3, <1>5, <1>10, CallSound

-----------------------------------------------------------------------------
(***************************************************************************)
(* All together.                                                           *)
(***************************************************************************)
\* Every step keeps the invariant.
LEMMA DoTransferSound ==
    ASSUME ~Extending, FilesInv, TransferInv, NEW t \in Thread, DoTransfer(t)
    PROVE  FilesInv'
<1>1. UNCHANGED target
  BY DEF DoTransfer
<1>2. CASE ReadFile(t) \/ LockArray(t) \/ LockSector(t) \/ Return(t)
  BY <1>1, <1>2, RequestStep
<1>3. CASE WriteFile(t)
  <2>1. PICK r \in ClientRequest : WriteAt(t, r[1], r[2])
    BY <1>3 DEF WriteFile
  <2>2. r[1] \in Nat /\ r[2] \in Nat \ {0}
    BY RequestAssumption
  <2> QED BY <1>1, <2>1, <2>2, WriteAtSound
<1>4. CASE StrayMutex(t)
  BY <1>1, <1>4, GoDownSound DEF StrayMutex
<1>5. CASE TransferSector(t)
  BY <1>1, <1>5, TransferSound
<1> QED BY <1>2, <1>3, <1>4, <1>5 DEF DoTransfer

\* Every step keeps the invariant: one case per action.
LEMMA FilesInvNext ==
    ASSUME ~Extending, FilesInv, TransferInv, [Next]_vars
    PROVE  FilesInv'
<1>1. ASSUME NEW t \in Thread, NEW p \in FilePath, NEW b \in FileSize, Create(t, p, b, 0)
      PROVE  FilesInv'
  <2>1. b \in Nat /\ 0 \in {0, 1}
    BY FileSizeAssumption
  <2>2. Creatable(p, 0)
    BY DEF Creatable
  <2> QED BY <1>1, <2>1, <2>2, CreateSound
<1>2. ASSUME NEW t \in Thread, NEW p \in DirPath, Create(t, p, SectorSize, 1)
      PROVE  FilesInv'
  <2>1. SectorSize \in Nat /\ 1 \in {0, 1}
    BY SizesAssumption
  <2>2. Creatable(p, 1)
    BY DEF Creatable
  <2> QED BY <1>2, <2>1, <2>2, CreateSound
<1>3. ASSUME NEW t \in Thread, NEW p \in FilePath, Open(t, p)
      PROVE  FilesInv'
  BY <1>3, OpenSound
<1>4. ASSUME NEW t \in Thread, NEW p \in FilePath \cup DirPath, Remove(t, p)
      PROVE  FilesInv'
  BY <1>4, RemoveSound
<1>5. ASSUME NEW t \in Thread, Close(t) PROVE FilesInv'
  BY <1>5, RequestStep
<1>6. ASSUME NEW t \in Thread, DoTransfer(t) PROVE FilesInv'
  BY <1>6, DoTransferSound
<1>7. CASE WriteSector
  BY <1>7, WriteSectorSound
<1>8. CASE AssertFails \/ Crash
  BY <1>8, GoDownSound DEF AssertFails, Crash
<1>9. CASE Restart
  BY <1>9, RestartSound
<1>10. CASE Format
  BY <1>10, FormatSound
<1>11. CASE UNCHANGED vars
  BY <1>11 DEF vars, fileVars, FilesInv
<1> QED BY <1>1, <1>2, <1>3, <1>4, <1>5, <1>6, <1>7, <1>8, <1>9, <1>10, <1>11 DEF Next

\* The files that the directories lead to are files of the tree.
LEMMA FilesInTree ==
    ASSUME NEW F, NEW G, Shape(disk, F, G)
    PROVE  Files \subseteq F
<1>1. \A D \in G : HeadersIn(D) \subseteq F
  <2> SUFFICES ASSUME NEW D \in G, NEW h \in HeadersIn(D) PROVE h \in F
    OBVIOUS
  <2>1. DirTable(D) = TableOf(disk, D)
    BY DEF DirTable, TableOf, ContentOf
  <2>2. PICK i \in InUse(TableOf(disk, D)) : h = TableOf(disk, D)[i].sector
    BY <2>1 DEF HeadersIn
  <2> QED BY <2>2 DEF Shape, LinksOK
<1>2. DirectorySector \in G /\ G \subseteq F /\ FreeMapSector \in F
  BY DEF Shape
<1>3. ASSUME NEW h \in HeadersIn(DirectorySector), disk[h].fileType = 1 PROVE h \in G
  <2>1. DirTable(DirectorySector) = TableOf(disk, DirectorySector)
    BY DEF DirTable, TableOf, ContentOf
  <2>2. PICK i \in InUse(TableOf(disk, DirectorySector)) : h = TableOf(disk, DirectorySector)[i].sector
    BY <2>1 DEF HeadersIn
  <2> QED BY <1>2, <1>3, <2>2 DEF Shape, LinksOK
<1> SUFFICES ASSUME NEW f \in Files PROVE f \in F
  OBVIOUS
<1>4. CASE f \in TopFiles
  BY <1>1, <1>2, <1>4 DEF TopFiles
<1>5. CASE f \notin TopFiles
  <2>1. PICK d \in HeadersIn(DirectorySector) : disk[d].fileType = 1 /\ f \in HeadersIn(d)
    BY <1>5 DEF Files
  <2> QED BY <1>1, <1>3, <2>1
<1> QED BY <1>4, <1>5

\* The invariant implies that the sectors are exact.
LEMMA FilesInvExact ==
    ASSUME FilesInv
    PROVE  SectorsExact
<1>1. PICK F, G : Sound(disk, F, G, target, handle, xfer)
  BY DEF FilesInv, SoundDisk
<1>2. Shape(disk, F, G) /\ Marked(disk, F, target)
  BY <1>1 DEF Sound
<1>3. Files \subseteq F
  BY <1>2, FilesInTree
<1>4. \A f \in Files : SectorsOf(f) = OwnedBy(disk, f)
  BY DEF SectorsOf, OwnedBy
<1>5. NoSharedSector
  BY <1>2, <1>3, <1>4 DEF NoSharedSector, Shape, NoneShared
<1>6. FreeMap = MarkedOn(disk)
  BY DEF FreeMap, MarkedOn, ContentOf
<1>7. \A f \in Files : SectorsOf(f) \subseteq FreeMap \cup target
  BY <1>2, <1>3, <1>4, <1>6 DEF Marked
<1>8. UsedIsMarked
  BY <1>7 DEF UsedIsMarked
<1> QED BY <1>5, <1>8 DEF SectorsExact

\* While no write takes new sectors, no sector belongs to two files and every
\* sector of a file is marked in the bit map, but for those of the file that a
\* call is creating or removing: after every single sector write of Create,
\* Remove and WriteAt, in every interleaving with transfers of other threads,
\* after a stop at any point and after a restart, for every size of the disk,
\* of its sectors, index tables and directories, and any threads and paths.
THEOREM SectorsExactSafe ==
    ASSUME ~Extending
    PROVE  Spec => []SectorsExact
<1>1. FilesInv /\ TransferInv /\ [Next]_vars => FilesInv'
  BY FilesInvNext
<1>2. FilesInv => SectorsExact
  BY FilesInvExact
<1> QED BY <1>1, <1>2, FilesInit, TransferInvariant, PTL DEF Spec

=============================================================================
