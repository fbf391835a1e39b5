------------------------------ MODULE OpenFile ------------------------------
(***************************************************************************)
(* Reading and writing open files (filesys/openfile.cc) with the sector    *)
(* mutexes of filesys/synchdisk.cc.  ReadAt and WriteAt lock every sector  *)
(* of the request, one after the other, while they hold array_mutex; then  *)
(* they transfer sector by sector and unlock each one at once.  A thread   *)
(* waits in each of those steps, so other threads come in between.         *)
(*                                                                         *)
(* Writes that a call makes before it locks (index tables and header of a  *)
(* file that grows) and the writes of module FileSystem go through todo,   *)
(* one sector at a time.  The program may stop between any two of them.    *)
(***************************************************************************)
EXTENDS FileHeader

CONSTANTS Thread, NoThread,
          ClientRequest, \* requests of the clients: <<position, numBytes>>
          Extending,     \* do clients make files need more sectors?
          Garbage        \* what a byte of the disk holds before it is written

ASSUME NoThreadAssumption == NoThread \notin Thread
ASSUME RequestAssumption == ClientRequest \subseteq Nat \X (Nat \ {0})

VARIABLES disk,        \* what each sector holds
          todo,        \* sector writes still to be made by a call
          machine,     \* "up" or "down"
          handle,      \* the header's sector of the file each thread has open
          xfer,        \* the request each thread is working on
          array_mutex, \* thread that holds it, or NoThread
          mutex,       \* for each sector, the thread that holds its mutex
          shadow       \* history: the bytes each file ought to have

fileVars == <<disk, todo, machine, handle, xfer, array_mutex, mutex, shadow>>

NoTransfer == [pc |-> "idle", op |-> "none", pos |-> 0, len |-> 0, solo |-> FALSE,
               sectors |-> <<>>, locked |-> 0, done |-> 0, buf |-> <<>>, want |-> <<>>]

Data(bytes) == [kind |-> "data", bytes |-> bytes]

\* A data sector that is not written yet may hold anything.
BytesAt(d, s) == IF s # NoSector /\ d[s].kind = "data" THEN d[s].bytes
                 ELSE [i \in 1..SectorSize |-> Garbage]

\* Byte i (from 1) of the file with header hdr, on disk d.
FileByte(d, hdr, i) ==
    BytesAt(d, DataSector(d, hdr, ((i - 1) \div SectorSize) + 1))[((i - 1) % SectorSize) + 1]
FileBytes(d, hdr) == [i \in 1..hdr.numBytes |-> FileByte(d, hdr, i)]

First(pos) == pos \div SectorSize
Last(pos, len) == (pos + len - 1) \div SectorSize
Sectors(d, hdr, pos, len) ==
    [i \in 1..Last(pos, len) - First(pos) + 1 |-> DataSector(d, hdr, First(pos) + i)]

FreeMap == disk[DataSector(disk, disk[FreeMapSector], 1)].marked

\* What sector s of disk d holds after the writes w.
Written(d, w, s) ==
    LET I == {i \in 1..Len(w) : w[i].sector = s}
    IN  IF I = {} THEN d[s] ELSE w[CHOOSE i \in I : \A j \in I : j <= i].content

\* The bytes of a file that has grown: the new ones are what is on the disk.
Grown(bytes, d, hdr) ==
    [i \in 1..hdr.numBytes |-> IF i <= Len(bytes) THEN bytes[i] ELSE FileByte(d, hdr, i)]

\* A faulty copy of the request that begins one byte too late.
SectorOfShifted(bytes, i) ==
    [j \in 1..SectorSize |->
        LET k == (i - 1) * SectorSize + j + 1
        IN  IF k <= Len(bytes) THEN bytes[k] ELSE Garbage]

\* The i-th sector (from 1) of a file with these bytes.
SectorOf(bytes, i) ==
    [j \in 1..SectorSize |->
        LET k == (i - 1) * SectorSize + j
        IN  IF k <= Len(bytes) THEN bytes[k] ELSE Garbage]

\* The file's bytes after the thread t has written to len bytes from pos.
Overwrite(bytes, pos, len, t) ==
    [i \in 1..Len(bytes) |-> IF i > pos /\ i <= pos + len THEN t ELSE bytes[i]]

-----------------------------------------------------------------------------
(***************************************************************************)
(* The steps of a request.                                                 *)
(***************************************************************************)
\* Clients read and write regular files.
CanStart(t) ==
    /\ machine = "up"
    /\ xfer[t].pc = "idle"
    /\ handle[t] # NoSector
    /\ disk[handle[t]].fileType = 0

\* A write that covers whole sectors inside of the file.
Aligned(hdr, pos, len) ==
    /\ pos % SectorSize = 0
    /\ len % SectorSize = 0
    /\ pos + len <= hdr.numBytes

Writers(h) == {t \in Thread : handle[t] = h /\ xfer[t].op = "write"}

\* Other writes read a sector or the header, change it in memory and write
\* it back later; clients make them only when no other thread writes the file.
MayWrite(t, hdr, pos, len) ==
    IF Aligned(hdr, pos, len) THEN \A u \in Writers(handle[t]) : ~xfer[u].solo
                              ELSE Writers(handle[t]) = {}

\* OpenFile::ReadAt: the length is cut at the end of the file as it was when
\* the header was fetched.  (A request beyond the end returns at once.)
ReadAt(t, pos, n) ==
    /\ CanStart(t)
    /\ LET hdr == disk[handle[t]]
           len == IF pos + n > hdr.numBytes THEN hdr.numBytes - pos ELSE n
       IN  /\ pos < hdr.numBytes
           /\ xfer' = [xfer EXCEPT ![t] =
                 [NoTransfer EXCEPT !.pc = "arr_P", !.op = "read", !.pos = pos,
                                    !.len = len, !.sectors = Sectors(disk, hdr, pos, len)]]
    /\ UNCHANGED <<disk, todo, machine, handle, array_mutex, mutex, shadow>>

\* OpenFile::WriteAt up to its first arr_P: a write beyond the end makes the
\* file grow, on the disk too, with sectors taken from a bit map that is not
\* written back; sectors that are only partly written are read.
WriteAt(t, pos, n) ==
    /\ CanStart(t)
    /\ todo = <<>>
    /\ LET old == disk[handle[t]]
           grows == pos + n > old.numBytes
           e == IF grows THEN ExtendAllocate(disk, old, FreeMap, pos + n - old.numBytes)
                ELSE [ok |-> TRUE, hdr |-> old, writes |-> <<>>]
           after == [s \in Sector |-> Written(disk, e.writes, s)]
           same == IF grows THEN Grown(shadow[handle[t]], after, e.hdr)
                   ELSE FileBytes(disk, old)
           new == Overwrite(same, pos, n, t)
       IN  /\ MayWrite(t, old, pos, n)
           /\ e.ok
           /\ Extending \/ e.writes = <<>>
           /\ todo' = IF grows THEN e.writes \o <<Write(handle[t], e.hdr)>> ELSE <<>>
           /\ shadow' = IF grows THEN [shadow EXCEPT ![handle[t]] = same] ELSE shadow
           /\ xfer' = [xfer EXCEPT ![t] =
                 [NoTransfer EXCEPT
                    !.pc = "arr_P", !.op = "write", !.pos = pos, !.len = n,
                    !.solo = ~Aligned(old, pos, n),
                    !.sectors = Sectors(after, e.hdr, pos, n),
                    !.buf = [i \in 1..Last(pos, n) - First(pos) + 1 |->
                               SectorOf(new, First(pos) + i)]]]
    /\ UNCHANGED <<disk, machine, handle, array_mutex, mutex>>

\* OpenFile::Read and Write begin at seekPosition, which is the thread's own
\* and which Seek sets: any of the positions that clients ask for.
ReadFile(t) == \E r \in ClientRequest : ReadAt(t, r[1], r[2])
WriteFile(t) == \E r \in ClientRequest : WriteAt(t, r[1], r[2])

\* arr_P.  A writer comes here when its header is on the disk.
LockArray(t) ==
    /\ machine = "up"
    /\ xfer[t].pc = "arr_P"
    /\ xfer[t].op = "write" => todo = <<>>
    /\ array_mutex = NoThread
    /\ array_mutex' = t
    /\ xfer' = [xfer EXCEPT ![t].pc = "rw_P"]
    /\ UNCHANGED <<disk, todo, machine, handle, mutex, shadow>>

\* A faulty ReadAt that does not call arr_V.
ArrayKept(t, last) == t

\* arr_V after the last rw_P.
ArrayAfter(t, last) == IF last THEN NoThread ELSE t

\* A faulty rw_P for which readers do not wait.
SectorFreeToRead(t, s) == xfer[t].op = "read" \/ mutex[s] = NoThread

\* rw_P waits while another thread has the sector's mutex.
SectorFree(t, s) == mutex[s] = NoThread

\* rw_P of the next sector; arr_V after the last.  From there on the thread
\* waits for no mutex, and the request takes effect (shadow, want).
LockSector(t) ==
    /\ machine = "up"
    /\ xfer[t].pc = "rw_P"
    /\ LET x == xfer[t]
           s == x.sectors[x.locked + 1]
           last == x.locked + 1 = Len(x.sectors)
       IN  /\ s # NoSector
           /\ SectorFree(t, s)
           /\ mutex' = [mutex EXCEPT ![s] = t]
           /\ array_mutex' = ArrayAfter(t, last)
           /\ xfer' = [xfer EXCEPT
                 ![t].locked = @ + 1,
                 ![t].pc = IF last THEN "io" ELSE "rw_P",
                 ![t].want = IF last /\ x.op = "read"
                             THEN SubSeq(shadow[handle[t]], x.pos + 1, x.pos + x.len)
                             ELSE <<>>]
           /\ shadow' = IF last /\ x.op = "write"
                        THEN [shadow EXCEPT ![handle[t]] = Overwrite(@, x.pos, x.len, t)]
                        ELSE shadow
    /\ UNCHANGED <<disk, todo, machine, handle>>

\* The program ends; only the disk is left.
GoDown ==
    /\ machine' = "down"
    /\ todo' = <<>>
    /\ xfer' = [u \in Thread |-> NoTransfer]
    /\ handle' = [u \in Thread |-> NoSector]
    /\ array_mutex' = NoThread
    /\ mutex' = [s \in Sector |-> NoThread]
    /\ UNCHANGED <<disk, shadow>>

\* A sector number of -1 is no index of the mutexes: the program ends.
StrayMutex(t) ==
    /\ machine = "up"
    /\ xfer[t].pc = "rw_P"
    /\ xfer[t].sectors[xfer[t].locked + 1] = NoSector
    /\ GoDown

\* ReadSector or WriteSector, and rw_V.
TransferSector(t) ==
    /\ machine = "up"
    /\ xfer[t].pc = "io"
    /\ LET x == xfer[t]
           i == x.done + 1
           s == x.sectors[i]
       IN  /\ disk' = IF x.op = "write" THEN [disk EXCEPT ![s] = Data(x.buf[i])] ELSE disk
           /\ mutex' = [mutex EXCEPT ![s] = NoThread]
           /\ xfer' = [xfer EXCEPT
                 ![t].done = i,
                 ![t].pc = IF i = Len(x.sectors) THEN "done" ELSE "io",
                 ![t].buf = IF x.op = "read" THEN Append(@, BytesAt(disk, s)) ELSE @]
    /\ UNCHANGED <<todo, machine, handle, array_mutex, shadow>>

\* The call returns what it has read or written.
Return(t) ==
    /\ machine = "up"
    /\ xfer[t].pc = "done"
    /\ xfer' = [xfer EXCEPT ![t] = NoTransfer]
    /\ UNCHANGED <<disk, todo, machine, handle, array_mutex, mutex, shadow>>

-----------------------------------------------------------------------------
(***************************************************************************)
(* Properties of the mutexes.                                              *)
(***************************************************************************)
\* The sectors that thread t has locked and not unlocked yet.
Held(t) == {xfer[t].sectors[j] : j \in xfer[t].done + 1..xfer[t].locked}

\* array_mutex belongs to the thread that is between its arr_P and arr_V, and
\* a sector's mutex to the thread that has locked and not yet transferred it;
\* so no sector is in two transfers at once.
LocksExact ==
    /\ \A t \in Thread : array_mutex = t <=> xfer[t].pc = "rw_P"
    /\ \A t \in Thread, s \in Sector : mutex[s] = t <=> s \in Held(t)

\* A thread waits for a sector only while the thread that has it waits for no
\* mutex: ReadAt and WriteAt take their sectors under array_mutex, so threads
\* whose requests overlap in any order never wait for each other in a circle.
HolderMovesOn ==
    \A t, u \in Thread, s \in Sector :
        /\ t # u
        /\ xfer[t].pc = "rw_P"
        /\ s = xfer[t].sectors[xfer[t].locked + 1]
        /\ mutex[s] = u
        => xfer[u].pc = "io"

=============================================================================
