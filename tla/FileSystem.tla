----------------------------- MODULE FileSystem -----------------------------
(***************************************************************************)
(* filesys/filesys.cc over the disk of module OpenFile: format, create,    *)
(* open, close and remove, with directories one level deep.  Each call     *)
(* reads the structures it needs, changes them in memory and then writes   *)
(* sector by sector; between two writes the program may stop.              *)
(*                                                                         *)
(* The comment at the top of filesys.cc asks for "no concurrent access":   *)
(* a call begins when no other call is at work, and nothing is created or  *)
(* removed while another thread has a file open.  Reads and writes of      *)
(* open files are concurrent.                                              *)
(*                                                                         *)
(* A path is the sequence of names after "root/".  The directory on the    *)
(* disk holds pointers to the names, which mean nothing to the next run of *)
(* the program (Lost).                                                     *)
(***************************************************************************)
EXTENDS OpenFile

CONSTANTS FilePath, DirPath, \* paths of files, paths of directories
          FileSize,          \* sizes files are created with, in bytes
          NoName, Lost,      \* a NULL name, and a name of an earlier run
          NewVisits,         \* values of numVisits, which Create does not set
          MaxVisits          \* bound on numVisits

\* No name is used for a file and for a directory, and no client knows the
\* names that are left of an earlier run.
ASSUME PathAssumption ==
    /\ \A p \in DirPath : Len(p) = 1
    /\ \A p \in FilePath : Len(p) \in 1..2
    /\ \A p \in FilePath : Len(p) = 1 =>
          /\ \A q \in DirPath : p[1] # q[1]
          /\ \A q \in FilePath : Len(q) = 2 => p[1] # q[1]
    /\ \A p \in FilePath \cup DirPath :
          \A i \in 1..Len(p) : p[i] \notin {NoName, Lost}

ASSUME FileSizeAssumption == FileSize \subseteq Nat

VARIABLE target \* history: the sectors of the files a call creates or removes

vars == <<fileVars, target>>

DirTable(h) == disk[DataSector(disk, disk[h], 1)].table
MapSector == DataSector(disk, disk[FreeMapSector], 1)
DirSector(h) == DataSector(disk, disk[h], 1)

\* FileSystem::getFileName: the directory and the last name of a path; a path
\* through a directory that is not there ends in the root, with no name.
getFileName(path) ==
    LET d == FindName(DirTable(DirectorySector), path[1])
    IN  IF Len(path) = 1 THEN [dir |-> DirectorySector, name |-> path[1]]
        ELSE IF d = NoSector THEN [dir |-> DirectorySector, name |-> NoName]
        ELSE [dir |-> d, name |-> path[2]]

\* Directory::Find of the last name; NULL is never found.
Lookup(path) ==
    LET g == getFileName(path)
    IN  IF g.name = NoName THEN NoSector ELSE FindName(DirTable(g.dir), g.name)

\* The header of a directory or of the bit map: one data sector.
SmallHeader(index) == Header(1, SectorSize, 1, <<index>>, 0)

\* FileSystem::FileSystem(TRUE): sectors 0 and 1 are the headers of the bit
\* map and the directory, the next four their index tables and data.
Formatted ==
    [s \in Sector |->
        CASE s = FreeMapSector -> SmallHeader(2)
          [] s = DirectorySector -> SmallHeader(4)
          [] s = 2 -> IndexTable(<<3>>)
          [] s = 3 -> MapFile(0..5)
          [] s = 4 -> IndexTable(<<5>>)
          [] s = 5 -> DirFile(EmptyTable(NoName))
          [] OTHER -> Data([i \in 1..SectorSize |-> Garbage])]

Init ==
    /\ disk = Formatted
    /\ todo = <<>>
    /\ machine = "up"
    /\ handle = [t \in Thread |-> NoSector]
    /\ xfer = [t \in Thread |-> NoTransfer]
    /\ array_mutex = NoThread
    /\ mutex = [s \in Sector |-> NoThread]
    /\ shadow = [s \in Sector |-> <<>>]
    /\ target = {}

AtRest ==
    /\ machine = "up"
    /\ todo = <<>>
    /\ \A t \in Thread : xfer[t].pc = "idle"

Alone(t) == \A u \in Thread \ {t} : handle[u] = NoSector

-----------------------------------------------------------------------------
(***************************************************************************)
(* The calls.  A call that fails changes nothing and is not an action.     *)
(***************************************************************************)
\* A faulty Create that writes the directory and not the bit map.
CreateWritesNoMap(h, a, table, dir) ==
    a.writes \o <<Write(h, a.hdr)>>
      \o (IF a.hdr.fileType = 1
          THEN <<Write(a.writes[1].content.dataSectors[1], DirFile(EmptyTable(NoName)))>>
          ELSE <<>>)
      \o <<Write(DirSector(dir), DirFile(table))>>

\* The writes of FileSystem::Create: index tables, header, the contents of a
\* new directory, the directory, the bit map.
CreateWrites(h, a, table, dir) ==
    a.writes \o <<Write(h, a.hdr)>>
      \o (IF a.hdr.fileType = 1
          THEN <<Write(a.writes[1].content.dataSectors[1], DirFile(EmptyTable(NoName)))>>
          ELSE <<>>)
      \o <<Write(DirSector(dir), DirFile(table)), Write(MapSector, MapFile(a.map))>>

\* FileSystem::Create.  With no name, Directory::Add ends the program.
Create(t, path, bytes, type) ==
    /\ AtRest
    /\ Alone(t)
    /\ \E visits \in NewVisits :
         LET g == getFileName(path)
             table == DirTable(g.dir)
             h == Find(FreeMap)
             a == Allocate(FreeMap \cup {h}, bytes, type, visits)
             w == CreateWrites(h, a, AddName(table, g.name, h), g.dir)
             after == [s \in Sector |-> Written(disk, w, s)]
         IN  /\ Lookup(path) = NoSector
             /\ h # NoSector
             /\ FreeEntries(table) # {}
             /\ a.ok
             /\ IF g.name = NoName
                THEN todo' = <<Stop>> /\ UNCHANGED <<shadow, target>>
                ELSE /\ todo' = w
                     /\ target' = a.sectors \cup {h}
                     /\ shadow' = [shadow EXCEPT ![h] =
                          IF type = 1 \/ NoSector \in {w[i].sector : i \in 1..Len(w)}
                          THEN <<>> ELSE FileBytes(after, a.hdr)]
    /\ UNCHANGED <<disk, machine, handle, xfer, array_mutex, mutex>>

\* FileSystem::Open.  When the name is not found, it returns the open file of
\* the directory in which it looked.
Open(t, path) ==
    /\ AtRest
    /\ handle[t] = NoSector
    /\ LET h == Lookup(path)
       IN  IF h = NoSector
           THEN /\ handle' = [handle EXCEPT ![t] = getFileName(path).dir]
                /\ UNCHANGED todo
           ELSE /\ disk[h].numVisits < MaxVisits
                /\ handle' = [handle EXCEPT ![t] = h]
                /\ todo' = <<Write(h, [disk[h] EXCEPT !.numVisits = @ + 1])>>
    /\ UNCHANGED <<disk, machine, xfer, array_mutex, mutex, shadow, target>>

\* OpenFile::~OpenFile.
Close(t) ==
    /\ machine = "up"
    /\ xfer[t].pc = "idle"
    /\ handle[t] # NoSector
    /\ handle' = [handle EXCEPT ![t] = NoSector]
    /\ UNCHANGED <<disk, todo, machine, xfer, array_mutex, mutex, shadow, target>>

\* FileSystem::Remove of the file with header h, entry name of the directory
\* whose table is table and whose contents are in sector ds: what is to be
\* written, and the bit map and the table afterwards.
RemoveFile(h, name, map, table, ds) ==
    LET hdr == disk[h]
        counted == Write(h, [hdr EXCEPT !.numVisits = @ - 1])
        sectors == Blocks(disk, hdr) \cup {h}
        map2 == map \ sectors
        table2 == RemoveName(table, name, NoName)
    IN  IF hdr.numVisits # 1
        THEN [map |-> map, table |-> table, sectors |-> {}, writes |-> <<counted>>]
        ELSE IF DeallocateStops(disk, hdr, map)
        THEN [map |-> map, table |-> table, sectors |-> {}, writes |-> <<counted, Stop>>]
        ELSE [map |-> map2, table |-> table2, sectors |-> sectors,
              writes |-> <<counted, Write(MapSector, MapFile(map2)),
                           Write(ds, DirFile(table2))>>]

\* FileSystem::Remove of a directory first calls itself for each entry in
\* turn, whatever the calls return: the state after the first i of them.
RemoveEntries(h) ==
    LET ds == DirSector(h)
        old == DirTable(h)
        upTo[i \in 0..NumDirEntries] ==
            IF i = 0 THEN [map |-> FreeMap, table |-> old, sectors |-> {}, writes |-> <<>>]
            ELSE LET before == upTo[i - 1]
                     r == RemoveFile(old[i].sector, old[i].name, before.map, before.table, ds)
                 IN  IF ~old[i].inUse THEN before
                     ELSE [r EXCEPT !.sectors = before.sectors \cup @,
                                    !.writes = before.writes \o @]
    IN  upTo[NumDirEntries]

Remove(t, path) ==
    /\ AtRest
    /\ Alone(t)
    /\ handle[t] = NoSector
    /\ LET g == getFileName(path)
           h == Lookup(path)
           file == RemoveFile(h, g.name, FreeMap, DirTable(g.dir), DirSector(g.dir))
           inner == RemoveEntries(h)
           own == Blocks(disk, disk[h]) \cup {h}
       IN  /\ h # NoSector
           /\ disk[h].numVisits > -MaxVisits
           /\ IF disk[h].fileType = 0
              THEN todo' = file.writes /\ target' = file.sectors
              ELSE /\ todo' = inner.writes \o
                       (IF DeallocateStops(disk, disk[h], inner.map) THEN <<Stop>>
                        ELSE <<Write(MapSector, MapFile(inner.map \ own)),
                               Write(DirSector(g.dir),
                                     DirFile(RemoveName(DirTable(g.dir), g.name, NoName)))>>)
                   /\ target' = inner.sectors \cup own
    /\ UNCHANGED <<disk, machine, handle, xfer, array_mutex, mutex, shadow>>

\* The headers of the files that a directory's entries lead to.
HeadersIn(h) == {DirTable(h)[i].sector : i \in InUse(DirTable(h))}
TopFiles == {FreeMapSector, DirectorySector} \cup HeadersIn(DirectorySector)
Files == TopFiles \cup UNION {HeadersIn(d) : d \in {h \in HeadersIn(DirectorySector) :
                                                     disk[h].fileType = 1}}

\* The bytes of a regular file.
Contents(h) == IF disk[h].fileType = 0 THEN FileBytes(disk, disk[h]) ELSE <<>>

-----------------------------------------------------------------------------
(***************************************************************************)
(* Sector writes, and the end of the program.                              *)
(***************************************************************************)
\* SynchDisk::WriteSector.
WriteSector ==
    /\ machine = "up"
    /\ todo # <<>>
    /\ Head(todo).sector # NoSector
    /\ disk' = [disk EXCEPT ![Head(todo).sector] = Head(todo).content]
    /\ todo' = Tail(todo)
    /\ target' = IF Len(todo) = 1 THEN {} ELSE target
    /\ UNCHANGED <<machine, handle, xfer, array_mutex, mutex, shadow>>

\* The program stops in an assertion, as Disk::WriteRequest and BitMap::Clear
\* do for sector -1.
AssertFails ==
    /\ machine = "up"
    /\ todo # <<>>
    /\ Head(todo).sector = NoSector
    /\ GoDown
    /\ UNCHANGED target

\* The program ends or is stopped.
Crash ==
    /\ machine = "up"
    /\ GoDown
    /\ UNCHANGED target

\* FileSystem::FileSystem(FALSE), after a call was not cut short: the names in
\* the directories are lost.
Restart ==
    /\ machine = "down"
    /\ target = {}
    /\ machine' = "up"
    /\ disk' = [s \in Sector |->
          IF disk[s].kind # "dir" THEN disk[s]
          ELSE DirFile([i \in 1..NumDirEntries |->
                   IF disk[s].table[i].inUse THEN [disk[s].table[i] EXCEPT !.name = Lost]
                   ELSE disk[s].table[i]])]
    /\ shadow' = [s \in Sector |-> IF s \in Files THEN Contents(s) ELSE <<>>]
    /\ UNCHANGED <<todo, handle, xfer, array_mutex, mutex, target>>

\* FileSystem::FileSystem(TRUE).
Format ==
    /\ machine = "down"
    /\ machine' = "up"
    /\ disk' = Formatted
    /\ shadow' = [s \in Sector |-> <<>>]
    /\ target' = {}
    /\ UNCHANGED <<todo, handle, xfer, array_mutex, mutex>>

DoTransfer(t) ==
    /\ \/ ReadFile(t) \/ WriteFile(t)
       \/ LockArray(t) \/ LockSector(t) \/ StrayMutex(t) \/ TransferSector(t) \/ Return(t)
    /\ UNCHANGED target

Next ==
    \/ \E t \in Thread :
         \/ \E p \in FilePath : \E b \in FileSize : Create(t, p, b, 0)
         \/ \E p \in DirPath : Create(t, p, SectorSize, 1)
         \/ \E p \in FilePath : Open(t, p)
         \/ \E p \in FilePath \cup DirPath : Remove(t, p)
         \/ Close(t) \/ DoTransfer(t)
    \/ WriteSector \/ AssertFails \/ Crash \/ Restart \/ Format

Step(A) == A /\ UNCHANGED target

\* Writes and transfers that have begun go on.  A thread that waits for a
\* mutex gets it at last: the thread that gives it up next waits for the disk
\* before it can ask for it again.
Fairness ==
    /\ WF_vars(WriteSector)
    /\ WF_vars(AssertFails)
    /\ \A t \in Thread : /\ SF_vars(Step(LockArray(t)))
                         /\ SF_vars(Step(LockSector(t)))
                         /\ WF_vars(Step(StrayMutex(t)))
                         /\ WF_vars(Step(TransferSector(t)))
                         /\ WF_vars(Step(Return(t)))

Spec == Init /\ [][Next]_vars /\ Fairness

-----------------------------------------------------------------------------
(***************************************************************************)
(* Properties.                                                             *)
(***************************************************************************)
SectorsOf(h) == (Blocks(disk, disk[h]) \cup {h}) \ {NoSector}

\* No sector belongs to two files: their headers, index tables and data are
\* disjoint, also when the disk is full or a call is cut short.
NoSharedSector ==
    \A f, g \in Files : f # g => SectorsOf(f) \cap SectorsOf(g) = {}

\* A sector that a file uses is marked in the bit map on the disk.  Create and
\* Remove write the directory and the bit map one after the other; in between,
\* and when the program stops there, only sectors of the file they create or
\* remove are missing from the bit map.
UsedIsMarked ==
    (UNION {SectorsOf(f) : f \in Files}) \ FreeMap \subseteq target

\* At every sector write of Create, Remove and WriteAt, and after a stop, the
\* sectors of the files on disk are disjoint and marked in the bit map.
SectorsExact == NoSharedSector /\ UsedIsMarked

\* Every file holds what was last written to it, byte by byte, and nothing
\* else: no call, and no write to another file, changes it.  (A file that a
\* thread is writing to is looked at when the write is over.)
ContentsExact ==
    machine = "up" =>
        \A f \in Files : Writers(f) = {} => Contents(f) = shadow[f]

\* A read of several sectors returns the bytes that the file had at one moment,
\* when the read held all of its mutexes: it sees all of a concurrent write
\* or nothing of it.
ReadsSerialised ==
    \A t \in Thread :
        LET x == xfer[t]
        IN  x.op = "read" =>
              \A k \in 1..x.len :
                 LET i == Last(x.pos, k) - First(x.pos) + 1
                 IN  i <= x.done =>
                       x.buf[i][((x.pos + k - 1) % SectorSize) + 1] = x.want[k]

\* Between rw_P and rw_V of a sector no other transfer changes it: a locked
\* sector changes in a step of the thread that has locked it, or by a write of
\* a call that holds no mutex (an index table or a header).
LockedSectorStable ==
    [][\A s \in Sector :
          mutex[s] # NoThread /\ disk'[s] # disk[s]
            => todo' # todo \/ xfer'[mutex[s]] # xfer[mutex[s]]]_vars

\* The mutexes cause no deadlock: every read and write of a file comes to its
\* end, unless the program stops.
TransfersEnd == \A t \in Thread : xfer[t].pc # "idle" ~> xfer[t].pc = "idle"

=============================================================================
