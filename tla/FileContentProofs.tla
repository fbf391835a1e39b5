-------------------------- MODULE FileContentProofs --------------------------
(***************************************************************************)
(* What the files hold, and what readers get (ContentsExact and            *)
(* ReadsSerialised), for a disk of any size, any threads, paths and sizes  *)
(* of files, when files do not get new sectors as they grow (~Extending).  *)
(* The proofs rest on FilesInv, the tree of files on every disk that the   *)
(* pending writes lead to, and on TransferInv, the mutexes of the sectors, *)
(* both of FileSystemProofs.                                               *)
(***************************************************************************)
EXTENDS FileSystemProofs

-----------------------------------------------------------------------------
(***************************************************************************)
(* What the files hold.  ContentsExact and ReadsSerialised follow from an  *)
(* invariant about every disk that the pending writes lead to: each byte   *)
(* that a file ought to have is in the request of the thread that holds    *)
(* the sector's mutex for a write, or else in the sector.                  *)
(***************************************************************************)
HeadersOn(d, D) == {TableOf(d, D)[i].sector : i \in InUse(TableOf(d, D))}
DirsOn(d) == {DirectorySector} \cup {h \in HeadersOn(d, DirectorySector) : d[h].fileType = 1}
FilesOn(d) == {FreeMapSector, DirectorySector} \cup UNION {HeadersOn(d, D) : D \in DirsOn(d)}
Opened(o) == {o[t] : t \in Thread} \ {NoSector}

\* The sector of byte i of a file, from 1, and the byte's place in it.
IndexOf(i) == ((i - 1) \div SectorSize) + 1
OffsetOf(i) == ((i - 1) % SectorSize) + 1
PlaceOf(d, f, i) == DataSector(d, d[f], IndexOf(i))

\* Thread u has sector s of file f locked for the j-th part of its write.
Pending(o, x, f, s, u, j) ==
    /\ u \in Thread /\ o[u] = f
    /\ x[u].op = "write" /\ x[u].pc = "io"
    /\ j \in x[u].done + 1..Len(x[u].sectors)
    /\ x[u].sectors[j] = s
NonePending(o, x, f, s) == \A u, j : ~Pending(o, x, f, s, u, j)

\* b is byte i of file f.
ByteExact(d, f, i, b, o, x) ==
    /\ \A u, j : Pending(o, x, f, PlaceOf(d, f, i), u, j) => b = x[u].buf[j][OffsetOf(i)]
    /\ NonePending(o, x, f, PlaceOf(d, f, i)) => b = BytesAt(d, PlaceOf(d, f, i))[OffsetOf(i)]

\* A thread that begins to write to file f: it may have to write the header.
Beginning(o, x, f) == \E u \in Thread : o[u] = f /\ x[u].op = "write" /\ x[u].pc = "arr_P"

\* File f has the n bytes that it ought to have; r writes are still to come.
BytesExact(d, f, n, r, o, x, bytes) ==
    /\ n \in Nat
    /\ bytes = [i \in 1..n |-> bytes[i]]
    /\ divRoundUp(n, SectorSize) <= d[f].numSectors
    /\ d[f].numBytes <= n
    /\ r = 0 \/ ~Beginning(o, x, f) => d[f].numBytes = n
    /\ \A i \in 1..n : ByteExact(d, f, i, bytes[i], o, x)
FileExact(d, f, r, o, x, sh) ==
    /\ d[f].fileType = 1 => sh[f] = <<>>
    /\ d[f].fileType # 1 => \E n : BytesExact(d, f, n, r, o, x, sh[f])

\* A request of thread t for bytes of file f goes to the sectors of these bytes.
Spans(d, f, y, bytes) ==
    /\ y.pos \in Nat /\ y.len \in Nat \ {0}
    /\ y.pos + y.len \in DOMAIN bytes
    /\ Len(y.sectors) = Last(y.pos, y.len) - First(y.pos) + 1
    /\ \A j \in 1..Len(y.sectors) : y.sectors[j] = DataSector(d, d[f], First(y.pos) + j)

\* The part of a request that byte k belongs to.
PartOf(y, k) == IndexOf(k) - First(y.pos)

\* What a thread is going to write: its own bytes, and what the file has around them.
WriterExact(t, f, y, o, x, bytes) ==
    /\ y.solo => \A u \in Thread : o[u] = f /\ x[u].op = "write" => u = t
    /\ ~y.solo => y.pos % SectorSize = 0 /\ y.len % SectorSize = 0
    /\ y.pc \in {"arr_P", "rw_P"} =>
          \A k \in DOMAIN bytes :
             PartOf(y, k) \in 1..Len(y.sectors) =>
                y.buf[PartOf(y, k)][OffsetOf(k)] =
                   IF k > y.pos /\ k <= y.pos + y.len THEN t ELSE bytes[k]

\* What a thread has read, and what it is going to read.
ReaderExact(d, y) ==
    /\ y.buf = [i \in 1..y.done |-> y.buf[i]]
    /\ y.pc \in {"io", "done"} =>
          \A k \in 1..y.len :
             /\ PartOf(y, y.pos + k) <= y.done =>
                   y.buf[PartOf(y, y.pos + k)][OffsetOf(y.pos + k)] = y.want[k]
             /\ y.pc = "io" /\ PartOf(y, y.pos + k) > y.done =>
                   BytesAt(d, y.sectors[PartOf(y, y.pos + k)])[OffsetOf(y.pos + k)] = y.want[k]
RequestExact(d, t, o, x, sh) ==
    /\ x[t].op \in {"read", "write"} =>
          /\ x[t].pc # "idle" /\ o[t] # NoSector /\ d[o[t]].fileType = 0
          /\ Spans(d, o[t], x[t], sh[o[t]])
    /\ x[t].op = "write" => WriterExact(t, o[t], x[t], o, x, sh[o[t]])
    /\ x[t].op = "read" => ReaderExact(d, x[t])

\* The header of an open file stays where it is.
Steady(d, e, o) ==
    \A t \in Thread : o[t] # NoSector => SameLayout(d, e, o[t]) /\ e[o[t]].fileType = d[o[t]].fileType

Exact(d, r, o, x, sh) ==
    /\ \A f \in FilesOn(d) \cup Opened(o) : FileExact(d, f, r, o, x, sh)
    /\ \A t \in Thread : RequestExact(d, t, o, x, sh)

\* While threads write to files, only headers of files that grow are to be written.
HeadersOnly(w, o, x) ==
    (\E t \in Thread : x[t].op = "write") => \A i \in 1..Len(w) : Beginning(o, x, w[i].sector)

ExactLater(d, w, o, x, sh) ==
    \A k \in 0..Len(w) : \A e :
        Reaches(d, w, k, e) /\ NoStop(w, k) => Steady(d, e, o) /\ Exact(e, Len(w) - k, o, x, sh)
AllIdleIn(x) == \A t \in Thread : x[t].pc = "idle" /\ x[t].op \notin {"read", "write"}

\* A sector that is locked is one.
LockedReal(x) ==
    \A t \in Thread : x[t].op \in {"read", "write"} => \A j \in 1..x[t].locked : x[t].sectors[j] # NoSector
ContentInv ==
    /\ DOMAIN shadow = Sector
    /\ machine = "down" => AllIdleIn(xfer)
    /\ HeadersOnly(todo, handle, xfer)
    /\ LockedReal(xfer)
    /\ machine = "up" => ExactLater(disk, todo, handle, xfer, shadow)

\* The files of a disk, as module FileSystem has them.
LEMMA FilesAre == Files = FilesOn(disk)
<1>1. \A D : HeadersIn(D) = HeadersOn(disk, D)
  BY DEF HeadersIn, HeadersOn, DirTable, TableOf, ContentOf
<1> QED BY <1>1 DEF Files, TopFiles, FilesOn, DirsOn

\* The files that the directories lead to are files of the tree.
LEMMA FilesWithin ==
    ASSUME NEW d, NEW F, NEW G, Shape(d, F, G)
    PROVE  /\ DirsOn(d) \subseteq G
           /\ FilesOn(d) \subseteq F
           /\ DirsOn(d) \subseteq FilesOn(d)
           /\ \A D \in DirsOn(d) : HeadersOn(d, D) \subseteq FilesOn(d)
<1>1. ASSUME NEW D \in G, NEW h \in HeadersOn(d, D)
      PROVE  h \in F /\ (d[h].fileType = 1 => h \in G)
  <2>1. PICK i \in InUse(TableOf(d, D)) : h = TableOf(d, D)[i].sector
    BY DEF HeadersOn
  <2> QED BY <2>1 DEF Shape, LinksOK
<1>2. DirectorySector \in G /\ G \subseteq F /\ FreeMapSector \in F
  BY DEF Shape
<1>3. DirsOn(d) \subseteq G
  BY <1>1, <1>2 DEF DirsOn
<1>4. FilesOn(d) \subseteq F
  BY <1>1, <1>2, <1>3 DEF FilesOn
<1> QED BY <1>3, <1>4 DEF FilesOn, DirsOn

\* The tree without files that nothing leads to.
LEMMA TreeOf ==
    ASSUME NEW d, NEW F, NEW G, Shape(d, F, G), NEW K \in SUBSET F, FilesOn(d) \subseteq K
    PROVE  Shape(d, K, DirsOn(d))
<1>1. /\ DirsOn(d) \subseteq G
      /\ DirsOn(d) \subseteq FilesOn(d)
      /\ \A D \in DirsOn(d) : HeadersOn(d, D) \subseteq FilesOn(d)
  BY FilesWithin
<1>2. FreeMapSector \in K /\ DirectorySector \in DirsOn(d) /\ FreeMapSector \notin DirsOn(d)
  BY <1>1 DEF Shape, FilesOn, DirsOn
<1>3. LinksOK(d, K, DirsOn(d))
  <2> SUFFICES ASSUME NEW D \in DirsOn(d), NEW i \in InUse(TableOf(d, D)), NEW h,
                      h = TableOf(d, D)[i].sector
               PROVE  /\ h \in K \ {FreeMapSector, DirectorySector}
                      /\ d[h].fileType = 1 => D = DirectorySector /\ h \in DirsOn(d)
    BY DEF LinksOK
  <2>1. h \in HeadersOn(d, D)
    BY DEF HeadersOn
  <2>2. h \notin {FreeMapSector, DirectorySector} /\ (d[h].fileType = 1 => D = DirectorySector)
    BY <1>1 DEF Shape, LinksOK
  <2>3. d[h].fileType = 1 => h \in DirsOn(d)
    BY <2>1, <2>2 DEF DirsOn
  <2> QED BY <1>1, <2>1, <2>2, <2>3
<1>4. LinkedOnce(d, DirsOn(d))
  BY <1>1 DEF Shape, LinkedOnce
<1>5. NoneShared(d, K)
  BY DEF Shape, NoneShared
<1>6. DirsOn(d) \subseteq K
  BY <1>1
<1>7. (\A D \in DirsOn(d) : DirOK(d, D)) /\ (\A f \in K : HeaderOK(d, f))
  BY <1>1 DEF Shape
<1> QED BY <1>2, <1>3, <1>4, <1>5, <1>6, <1>7 DEF Shape

\* A sound disk is sound with exactly the files it leads to and those open.
LEMMA SoundTree ==
    ASSUME NEW d, NEW F, NEW G, NEW tg, NEW o, NEW x, Sound(d, F, G, tg, o, x)
    PROVE  Sound(d, FilesOn(d) \cup Opened(o), DirsOn(d), tg, o, x)
<1> DEFINE K == FilesOn(d) \cup Opened(o)
<1>1. Shape(d, F, G) /\ NamesOK(d) /\ Marked(d, F, tg) /\ UsersOK(d, F, o, x)
  BY DEF Sound
<1>2. K \subseteq F
  BY <1>1, FilesWithin DEF UsersOK, Opened
<1>3. Shape(d, K, DirsOn(d))
  BY <1>1, <1>2, TreeOf
<1>4. Marked(d, K, tg)
  BY <1>1, <1>2 DEF Marked
<1>5. UsersOK(d, K, o, x)
  BY <1>1 DEF UsersOK, Opened
<1> QED BY <1>1, <1>3, <1>4, <1>5 DEF Sound

\* The bytes of a file are in its sectors.
LEMMA ByteInside ==
    ASSUME NEW n \in Nat, NEW N \in Nat, divRoundUp(n, SectorSize) <= N, NEW i \in 1..n
    PROVE  IndexOf(i) \in 1..N /\ OffsetOf(i) \in 1..SectorSize
<1>1. /\ divRoundUp(n, SectorSize) \in Int
      /\ IndexOf(i) \in 1..divRoundUp(n, SectorSize) /\ OffsetOf(i) \in 1..SectorSize
  BY SizesAssumption, PartIndex DEF IndexOf, OffsetOf
<1> QED BY <1>1

\* A file that is in the same place and holds the same bytes.
SameData(d, e, f) ==
    /\ e[f].numSectors = d[f].numSectors
    /\ e[f].numBytes = d[f].numBytes
    /\ \A i \in 1..d[f].numSectors :
          /\ DataSector(e, e[f], i) = DataSector(d, d[f], i)
          /\ BytesAt(e, DataSector(d, d[f], i)) = BytesAt(d, DataSector(d, d[f], i))

\* The same threads write the same bytes to the same sectors of file f.
SamePending(o, x, o2, x2, f) ==
    /\ \A s, u, j : Pending(o2, x2, f, s, u, j) <=> Pending(o, x, f, s, u, j)
    /\ \A s, u, j : Pending(o, x, f, s, u, j) => x2[u].buf = x[u].buf
SameBeginning(r, o, x, r2, o2, x2, f) ==
    r2 = 0 \/ ~Beginning(o2, x2, f) => r = 0 \/ ~Beginning(o, x, f)

\* A byte stays exact when its sector and the pending writes to it are the same.
LEMMA ByteKept ==
    ASSUME NEW d, NEW e, NEW f, NEW i, NEW b, NEW o, NEW x, NEW o2, NEW x2,
           ByteExact(d, f, i, b, o, x), PlaceOf(e, f, i) = PlaceOf(d, f, i),
           BytesAt(e, PlaceOf(d, f, i)) = BytesAt(d, PlaceOf(d, f, i)),
           SamePending(o, x, o2, x2, f)
    PROVE  ByteExact(e, f, i, b, o2, x2)
<1>1. PICK s : s = PlaceOf(d, f, i)
  OBVIOUS
<1>2. \A u, j : Pending(o2, x2, f, s, u, j) => b = x2[u].buf[j][OffsetOf(i)]
  BY <1>1 DEF ByteExact, SamePending
<1>3. NonePending(o2, x2, f, s) => NonePending(o, x, f, s)
  BY DEF NonePending, SamePending
<1>4. NonePending(o2, x2, f, s) => b = BytesAt(e, s)[OffsetOf(i)]
  BY <1>1, <1>3 DEF ByteExact
<1> QED BY <1>1, <1>2, <1>4 DEF ByteExact

\* So do the bytes of a file whose header and sectors are the same.
LEMMA BytesKept ==
    ASSUME NEW d, NEW e, NEW f, NEW n, NEW r, NEW r2, NEW o, NEW x, NEW o2, NEW x2, NEW bytes,
           d[f].numSectors \in Nat, BytesExact(d, f, n, r, o, x, bytes), SameData(d, e, f),
           SamePending(o, x, o2, x2, f), SameBeginning(r, o, x, r2, o2, x2, f)
    PROVE  BytesExact(e, f, n, r2, o2, x2, bytes)
<1>1. /\ n \in Nat /\ bytes = [i \in 1..n |-> bytes[i]]
      /\ divRoundUp(n, SectorSize) <= e[f].numSectors
      /\ e[f].numBytes <= n
  BY DEF BytesExact, SameData
<1>2. r2 = 0 \/ ~Beginning(o2, x2, f) => e[f].numBytes = n
  BY DEF BytesExact, SameData, SameBeginning
<1>3. ASSUME NEW i \in 1..n PROVE ByteExact(e, f, i, bytes[i], o2, x2)
  <2>1. ByteExact(d, f, i, bytes[i], o, x)
    BY DEF BytesExact
  <2>2. IndexOf(i) \in 1..d[f].numSectors
    BY <1>1, ByteInside DEF SameData
  <2>3. /\ PlaceOf(e, f, i) = PlaceOf(d, f, i)
        /\ BytesAt(e, PlaceOf(d, f, i)) = BytesAt(d, PlaceOf(d, f, i))
    BY <2>2 DEF SameData, PlaceOf
  <2> QED BY <2>1, <2>3, ByteKept
<1> QED BY <1>1, <1>2, <1>3 DEF BytesExact
SameText(d, e, f) == e[f].fileType = d[f].fileType /\ (d[f].fileType # 1 => SameData(d, e, f))

\* So does the file.
LEMMA TextKept ==
    ASSUME NEW d, NEW e, NEW f, NEW r, NEW r2, NEW o, NEW x, NEW o2, NEW x2, NEW sh, NEW sh2,
           d[f].numSectors \in Nat, FileExact(d, f, r, o, x, sh), SameText(d, e, f),
           SamePending(o, x, o2, x2, f), SameBeginning(r, o, x, r2, o2, x2, f), sh2[f] = sh[f]
    PROVE  FileExact(e, f, r2, o2, x2, sh2)
<1>1. CASE d[f].fileType = 1
  BY <1>1 DEF FileExact, SameText
<1>2. CASE d[f].fileType # 1
  <2>1. PICK n : BytesExact(d, f, n, r, o, x, sh[f])
    BY <1>2 DEF FileExact
  <2>2. BytesExact(e, f, n, r2, o2, x2, sh2[f])
    BY <1>2, <2>1, BytesKept DEF SameText
  <2> QED BY <1>2, <2>2 DEF FileExact, SameText
<1> QED BY <1>1, <1>2

-----------------------------------------------------------------------------
(***************************************************************************)
(* Calls.  They begin when no thread reads or writes.                      *)
(***************************************************************************)
\* When all threads are at rest, none of them reads or writes.
LEMMA RestIdle ==
    ASSUME NEW d, NEW r, NEW o, NEW x, NEW sh, Exact(d, r, o, x, sh), \A t \in Thread : x[t].pc = "idle"
    PROVE  AllIdleIn(x)
BY DEF Exact, RequestExact, AllIdleIn

\* When no thread reads or writes, only the files matter.
LEMMA IdleExact ==
    ASSUME NEW x, AllIdleIn(x), NEW e, NEW r, NEW o, NEW sh,
           \A f \in FilesOn(e) \cup Opened(o) : FileExact(e, f, r, o, x, sh)
    PROVE  Exact(e, r, o, x, sh)
BY DEF Exact, RequestExact, AllIdleIn

\* A file with the same header and sectors stays exact, whoever has it open.
LEMMA IdleText ==
    ASSUME NEW x, AllIdleIn(x), NEW d, NEW e, NEW f, NEW r, NEW r2, NEW o, NEW o2, NEW sh, NEW sh2,
           d[f].numSectors \in Nat, FileExact(d, f, r, o, x, sh), SameText(d, e, f), sh2[f] = sh[f]
    PROVE  FileExact(e, f, r2, o2, x, sh2)
<1>1. \A p, s, u, j : ~Pending(p, x, f, s, u, j)
  BY DEF AllIdleIn, Pending
<1>2. SamePending(o, x, o2, x, f)
  BY <1>1 DEF SamePending
<1>3. SameBeginning(r, o, x, r2, o2, x, f)
  BY DEF SameBeginning, Beginning, AllIdleIn
<1> QED BY <1>2, <1>3, TextKept

\* Writes that change no file's bytes: to a header, but not to its size or
\* layout, to the bit map, and to a directory that loses entries.
SameSize(x, y) ==
    /\ y.fileType = x.fileType
    /\ y.numSectors = x.numSectors
    /\ y.numBytes = x.numBytes
    /\ y.primaryIndexTable = x.primaryIndexTable
Mild(d, u, F, G) ==
    \/ u.sector = NoSector
    \/ u.sector \in F /\ SameSize(d[u.sector], u.content)
    \/ u.sector = ContentOf(d, FreeMapSector)
    \/ \E D \in G : u.sector = ContentOf(d, D) /\ Fewer(TableOf(d, D), u.content.table)
MildAt(d, e, s, F, G) == e[s] = d[s] \/ \E u : u.sector = s /\ Mild(d, u, F, G) /\ e[s] = u.content
MildWrites(d, w, k, F, G) == \A i \in 1..k : Mild(d, w[i], F, G)

\* After mild writes each sector is as before, or changed mildly.
LEMMA MildReached ==
    ASSUME NEW d, NEW e, NEW w, NEW k \in Nat, Reaches(d, w, k, e), NEW F, NEW G,
           MildWrites(d, w, k, F, G), NEW s \in Sector
    PROVE  MildAt(d, e, s, F, G)
<1>1. SectorAfter(d, w, k, e, s)
  BY DEF Reaches
<1>2. CASE e[s] = d[s]
  BY <1>2 DEF MildAt
<1>3. ASSUME NEW i, LastWrite(w, k, s, i), e[s] = w[i].content PROVE MildAt(d, e, s, F, G)
  BY <1>3 DEF MildAt, LastWrite, MildWrites
<1> QED BY <1>1, <1>2, <1>3 DEF SectorAfter

\* What such writes leave.
MildDisk(d, e, F, G) == DOMAIN e = Sector /\ \A s \in Sector : MildAt(d, e, s, F, G)

\* Mild writes leave the sectors and the size of a file as they are.
LEMMA MildHeader ==
    ASSUME NEW d, NEW e, NEW F, NEW G, Shape(d, F, G), MildDisk(d, e, F, G), NEW f \in F
    PROVE  SameLayout(d, e, f) /\ SameSize(d[f], e[f])
<1>0. NoSector \notin Sector
  BY SizesAssumption DEF NoSector, Sector
<1>1. HeaderOK(d, f) /\ f \in Sector
  BY DEF Shape, HeaderOK
<1>2. \A D \in G \cup {FreeMapSector} : ContentOf(d, D) # f /\ ContentOf(d, D) \notin Tables(d[f])
  BY ContentAlone
<1>3. SameSize(d[f], e[f])
  <2>1. MildAt(d, e, f, F, G)
    BY <1>1 DEF MildDisk
  <2>2. CASE e[f] = d[f]
    BY <2>2 DEF SameSize
  <2>3. ASSUME NEW u, u.sector = f, Mild(d, u, F, G), e[f] = u.content PROVE SameSize(d[f], e[f])
    BY <1>0, <1>1, <1>2, <2>3 DEF Mild
  <2> QED BY <2>1, <2>2, <2>3 DEF MildAt
<1>4. ASSUME NEW s \in Tables(d[f]) PROVE e[s] = d[s]
  <2>1. s \in Sector /\ s # f /\ s \in OwnedBy(d, f)
    BY <1>1, Owns DEF HeaderOK
  <2>2. s \notin F
    <3> SUFFICES ASSUME s \in F PROVE FALSE
      OBVIOUS
    <3>1. s \in OwnedBy(d, s)
      BY Owns DEF Shape
    <3> QED BY <2>1, <3>1 DEF Shape, NoneShared
  <2>3. MildAt(d, e, s, F, G)
    BY <2>1 DEF MildDisk
  <2>4. ASSUME NEW u, u.sector = s, Mild(d, u, F, G) PROVE FALSE
    BY <1>0, <1>2, <2>1, <2>2, <2>4 DEF Mild
  <2> QED BY <2>3, <2>4 DEF MildAt
<1> QED BY <1>3, <1>4 DEF SameLayout, SameSize

\* They leave its bytes as they are.
LEMMA MildText ==
    ASSUME NEW d, NEW e, NEW F, NEW G, Shape(d, F, G), MildDisk(d, e, F, G), NEW f \in F
    PROVE  SameText(d, e, f)
<1>0. NoSector \notin Sector
  BY SizesAssumption DEF NoSector, Sector
<1>1. HeaderOK(d, f) /\ f \in Sector /\ d[f].numSectors \in Nat
  BY DEF Shape, HeaderOK, Fields
<1>2. SameLayout(d, e, f) /\ SameSize(d[f], e[f])
  BY MildHeader
<1>3. \A i \in 1..d[f].numSectors : DataSector(e, e[f], i) = DataSector(d, d[f], i)
  BY <1>1, <1>2, LayoutKept
<1>4. ASSUME d[f].fileType # 1, NEW i \in 1..d[f].numSectors, NEW s, s = DataSector(d, d[f], i)
      PROVE  BytesAt(e, s) = BytesAt(d, s)
  <2>1. CASE s = NoSector
    BY <2>1 DEF BytesAt
  <2>2. CASE s # NoSector
    <3>1. s \in OwnedBy(d, f) /\ s \in Sector /\ s # f
      BY <1>0, <1>1, <1>4, <2>2, Owns DEF HeaderOK
    <3>2. s \notin F
      <4> SUFFICES ASSUME s \in F PROVE FALSE
        OBVIOUS
      <4>1. s \in OwnedBy(d, s)
        BY Owns DEF Shape
      <4> QED BY <3>1, <4>1 DEF Shape, NoneShared
    <3>3. \A D \in G \cup {FreeMapSector} : s # ContentOf(d, D)
      <4> SUFFICES ASSUME NEW D \in G \cup {FreeMapSector}, s = ContentOf(d, D) PROVE FALSE
        OBVIOUS
      <4>1. D \in F /\ ContentOf(d, D) \in OwnedBy(d, D)
        BY ContentAlone
      <4>2. d[D].fileType = 1
        BY DEF Shape, DirOK, MapOK, OneSector
      <4> QED BY <1>4, <3>1, <4>1, <4>2 DEF Shape, NoneShared
    <3>4. MildAt(d, e, s, F, G)
      BY <3>1 DEF MildDisk
    <3>5. ASSUME NEW u, u.sector = s, Mild(d, u, F, G) PROVE FALSE
      BY <2>2, <3>2, <3>3, <3>5 DEF Mild
    <3>6. e[s] = d[s]
      BY <3>4, <3>5 DEF MildAt
    <3> QED BY <3>6 DEF BytesAt
  <2> QED BY <2>1, <2>2
<1>5. d[f].fileType # 1 => SameData(d, e, f)
  BY <1>2, <1>3, <1>4 DEF SameData, SameSize
<1> QED BY <1>2, <1>5 DEF SameText, SameSize

\* They add no entry to a directory.
LEMMA MildTable ==
    ASSUME NEW d, NEW e, NEW F, NEW G, Shape(d, F, G), MildDisk(d, e, F, G), NEW D \in G
    PROVE  HeadersOn(e, D) \subseteq HeadersOn(d, D)
<1>0. NoSector \notin Sector
  BY SizesAssumption DEF NoSector, Sector
<1>1. /\ ContentOf(d, D) \in Sector
      /\ \A f \in F : ContentOf(d, D) # f
      /\ \A E \in G \cup {FreeMapSector} : E # D => ContentOf(d, E) # ContentOf(d, D)
  BY ContentAlone
<1>2. D \in F /\ d[D].numSectors = 1 /\ D # FreeMapSector
  BY DEF Shape, DirOK, OneSector
<1>3. SameLayout(d, e, D)
  BY <1>2, MildHeader
<1>4. ContentOf(e, D) = ContentOf(d, D)
  BY <1>2, <1>3, LayoutKept DEF ContentOf
<1>5. Fewer(TableOf(d, D), TableOf(e, D))
  <2>1. MildAt(d, e, ContentOf(d, D), F, G)
    BY <1>1 DEF MildDisk
  <2>2. CASE e[ContentOf(d, D)] = d[ContentOf(d, D)]
    BY <1>4, <2>2 DEF TableOf, Fewer
  <2>3. ASSUME NEW u, u.sector = ContentOf(d, D), Mild(d, u, F, G), e[ContentOf(d, D)] = u.content
        PROVE  Fewer(TableOf(d, D), TableOf(e, D))
    <3>1. PICK E \in G : u.sector = ContentOf(d, E) /\ Fewer(TableOf(d, E), u.content.table)
      BY <1>0, <1>1, <1>2, <2>3 DEF Mild
    <3>2. E = D
      BY <1>1, <2>3, <3>1
    <3> QED BY <1>4, <2>3, <3>1, <3>2 DEF TableOf
  <2> QED BY <2>1, <2>2, <2>3 DEF MildAt
<1> QED BY <1>5 DEF Fewer, HeadersOn

\* They add no file to the tree.
LEMMA MildFiles ==
    ASSUME NEW d, NEW e, NEW F, NEW G, Shape(d, F, G), MildDisk(d, e, F, G)
    PROVE  FilesOn(e) \subseteq FilesOn(d)
<1>1. /\ DirsOn(d) \subseteq G /\ FilesOn(d) \subseteq F
      /\ \A D \in DirsOn(d) : HeadersOn(d, D) \subseteq FilesOn(d)
  BY FilesWithin
<1>2. \A D \in DirsOn(d) : HeadersOn(e, D) \subseteq HeadersOn(d, D)
  BY <1>1, MildTable
<1>3. \A f \in F : e[f].fileType = d[f].fileType
  BY MildHeader DEF SameSize
<1>4. DirectorySector \in DirsOn(d)
  BY DEF DirsOn
<1>5. DirsOn(e) \subseteq DirsOn(d)
  <2> SUFFICES ASSUME NEW h \in HeadersOn(e, DirectorySector), e[h].fileType = 1 PROVE h \in DirsOn(d)
    BY <1>4 DEF DirsOn
  <2>1. h \in HeadersOn(d, DirectorySector) /\ h \in F
    BY <1>1, <1>2, <1>4
  <2> QED BY <1>3, <2>1 DEF DirsOn
<1> QED BY <1>2, <1>5 DEF FilesOn

\* Lists of such writes.
MildList(d, w, F, G) == \E S : w \in Seq(S) /\ \A u \in S : Mild(d, u, F, G)

\* No writes at all are mild.
LEMMA MildNone ==
    ASSUME NEW d, NEW F, NEW G
    PROVE  MildList(d, <<>>, F, G)
<1> PICK S : S = {}
  OBVIOUS
<1>1. <<>> \in Seq(S) /\ \A u \in S : Mild(d, u, F, G)
  OBVIOUS
<1> QED BY <1>1 DEF MildList

\* A list of one mild write is mild.
LEMMA MildOne ==
    ASSUME NEW d, NEW F, NEW G, NEW u, Mild(d, u, F, G)
    PROVE  MildList(d, <<u>>, F, G)
<1> PICK S : S = {u}
  OBVIOUS
<1>1. <<u>> \in Seq(S)
  OBVIOUS
<1>2. \A v \in S : Mild(d, v, F, G)
  OBVIOUS
<1> QED BY <1>1, <1>2 DEF MildList

\* Two mild lists of writes, one after the other, are mild.
LEMMA MildJoin ==
    ASSUME NEW d, NEW F, NEW G, NEW a, NEW b, MildList(d, a, F, G), MildList(d, b, F, G)
    PROVE  MildList(d, a \o b, F, G)
<1>1. PICK S : a \in Seq(S) /\ \A u \in S : Mild(d, u, F, G)
  BY DEF MildList
<1>2. PICK T : b \in Seq(T) /\ \A u \in T : Mild(d, u, F, G)
  BY DEF MildList
<1>3. PICK U : U = S \cup T
  OBVIOUS
<1>4. a \in Seq(U)
  BY <1>1, <1>3
<1>5. b \in Seq(U)
  BY <1>2, <1>3
<1>6. a \o b \in Seq(U)
  BY <1>4, <1>5
<1> QED BY <1>1, <1>2, <1>3, <1>6 DEF MildList

\* Each beginning of a mild list is mild.
LEMMA MildAll ==
    ASSUME NEW d, NEW F, NEW G, NEW w, MildList(d, w, F, G), NEW k \in 0..Len(w)
    PROVE  Len(w) \in Nat /\ MildWrites(d, w, k, F, G)
<1>1. PICK S : w \in Seq(S) /\ \A u \in S : Mild(d, u, F, G)
  BY DEF MildList
<1>2. Len(w) \in Nat /\ \A i \in 1..Len(w) : w[i] \in S
  BY <1>1
<1> QED BY <1>1, <1>2 DEF MildWrites

\* A call that makes only such writes.
LEMMA MildCall ==
    ASSUME NEW d, NEW F, NEW G, NEW o, NEW x, NEW sh, Shape(d, F, G), AllIdleIn(x),
           F = FilesOn(d) \cup Opened(o), Exact(d, 0, o, x, sh),
           NEW w, MildList(d, w, F, G), NEW o2, Opened(o2) \subseteq F
    PROVE  ExactLater(d, w, o2, x, sh)
<1> SUFFICES ASSUME NEW k \in 0..Len(w), NEW e, Reaches(d, w, k, e)
             PROVE  Steady(d, e, o2) /\ Exact(e, Len(w) - k, o2, x, sh)
  BY DEF ExactLater
<1>1. k \in Nat /\ MildWrites(d, w, k, F, G)
  BY MildAll
<1>2. MildDisk(d, e, F, G)
  BY <1>1, MildReached DEF MildDisk, Reaches
<1>3. \A f \in F : SameLayout(d, e, f) /\ SameSize(d[f], e[f]) /\ SameText(d, e, f)
  BY <1>2, MildHeader, MildText
<1>4. FilesOn(e) \subseteq F
  BY <1>2, MildFiles
<1>5. Steady(d, e, o2)
  BY <1>3 DEF Steady, Opened, SameSize
<1>6. ASSUME NEW f \in FilesOn(e) \cup Opened(o2) PROVE FileExact(e, f, Len(w) - k, o2, x, sh)
  <2>1. f \in F
    BY <1>4
  <2>2. FileExact(d, f, 0, o, x, sh)
    BY <2>1 DEF Exact
  <2>3. d[f].numSectors \in Nat
    BY <2>1 DEF Shape, HeaderOK, Fields
  <2> QED BY <1>3, <2>1, <2>2, <2>3, IdleText
<1>7. Exact(e, Len(w) - k, o2, x, sh)
  BY <1>6, IdleExact
<1> QED BY <1>5, <1>7

\* Between calls.
LEMMA NowExact ==
    ASSUME FilesInv, ContentInv, machine = "up"
    PROVE  Exact(disk, Len(todo), handle, xfer, shadow)
<1>1. DOMAIN disk = Sector
  BY DEF FilesInv, SoundDisk, Sound, Shape
<1>2. Reaches(disk, todo, 0, disk) /\ NoStop(todo, 0)
  BY <1>1 DEF Reaches, SectorAfter, NotWritten, NoStop
<1>3. Len(todo) \in Nat
  BY DEF FilesInv
<1> QED BY <1>2, <1>3 DEF ContentInv, ExactLater

\* The disk between two calls: nothing is left to be written.
LEMMA RestExact ==
    ASSUME FilesInv, ContentInv, machine = "up", todo = <<>>
    PROVE  /\ Exact(disk, 0, handle, xfer, shadow)
           /\ Sound(disk, FilesOn(disk) \cup Opened(handle), DirsOn(disk), {}, handle, xfer)
           /\ (\A t \in Thread : xfer[t].pc = "idle") => AllIdleIn(xfer)
<1>1. Exact(disk, 0, handle, xfer, shadow)
  BY NowExact
<1>2. PICK F, G : Sound(disk, F, G, {}, handle, xfer)
  BY RestSound
<1> QED BY <1>1, <1>2, SoundTree, RestIdle

\* Nobody writes: nothing to show of the pending writes.
LEMMA IdleHeaders ==
    ASSUME NEW x, AllIdleIn(x), NEW w, NEW o
    PROVE  HeadersOnly(w, o, x)
BY DEF AllIdleIn, HeadersOnly

\* Threads at rest have no sector locked.
LEMMA IdleLocked ==
    ASSUME NEW x, AllIdleIn(x)
    PROVE  LockedReal(x)
BY DEF AllIdleIn, LockedReal

\* The number of visits is no part of the size of a file.
LEMMA VisitsSize ==
    ASSUME NEW hdr, Fields(hdr), NEW v
    PROVE  SameSize(hdr, [hdr EXCEPT !.numVisits = v])
BY DEF Fields, HeaderField, SameSize

\* Open writes the number of visits to the header, and nothing else.
LEMMA OpenContent ==
    ASSUME FilesInv, ContentInv, NEW t \in Thread, NEW p \in FilePath, Open(t, p)
    PROVE  ContentInv'
<1> PICK h : h = Lookup(p)
  OBVIOUS
<1> PICK g : g = getFileName(p)
  OBVIOUS
<1>1. /\ machine = "up" /\ todo = <<>> /\ \A u \in Thread : xfer[u].pc = "idle"
      /\ UNCHANGED <<disk, machine, xfer, shadow>>
      /\ h = NoSector => handle' = [handle EXCEPT ![t] = g.dir] /\ todo' = todo
      /\ h # NoSector => handle' = [handle EXCEPT ![t] = h]
                         /\ todo' = <<Write(h, [disk[h] EXCEPT !.numVisits = @ + 1])>>
  BY DEF Open, AtRest
<1>2. PICK F, G : /\ F = FilesOn(disk) \cup Opened(handle) /\ Sound(disk, F, G, {}, handle, xfer)
                  /\ Exact(disk, 0, handle, xfer, shadow) /\ AllIdleIn(xfer)
  BY <1>1, RestExact
<1>3. Shape(disk, F, G) /\ NamesOK(disk)
  BY <1>2 DEF Sound
<1>4. PICK n : handle' = [handle EXCEPT ![t] = n] /\ n \in F /\ (h # NoSector => n = h)
  <2>1. CASE h = NoSector
    <3>1. LeadsTo(p, g, F, G)
      BY <1>3, PathLeads
    <3>2. g.dir \in F
      BY <1>3, <3>1 DEF LeadsTo, Shape
    <3> QED BY <1>1, <2>1, <3>2
  <2>2. CASE h # NoSector
    <3>1. h \in F
      BY <1>3, <2>2, LookupFinds
    <3> QED BY <1>1, <2>2, <3>1
  <2> QED BY <2>1, <2>2
<1>5. Opened(handle') \subseteq F
  BY <1>2, <1>4 DEF FilesInv, Opened
<1>6. MildList(disk, todo', F, G)
  <2>1. CASE h = NoSector
    BY <1>1, <2>1, MildNone
  <2>2. CASE h # NoSector
    <3> PICK hdr : hdr = [disk[h] EXCEPT !.numVisits = @ + 1]
      OBVIOUS
    <3>1. h \in F /\ Fields(disk[h])
      BY <1>3, <1>4, <2>2 DEF Shape, HeaderOK
    <3>2. SameSize(disk[h], hdr)
      BY <3>1, VisitsSize
    <3>3. Mild(disk, Write(h, hdr), F, G)
      BY <3>1, <3>2 DEF Mild, Write
    <3> QED BY <1>1, <2>2, <3>3, MildOne
  <2> QED BY <2>1, <2>2
<1>7. ExactLater(disk, todo', handle', xfer, shadow)
  BY <1>2, <1>3, <1>5, <1>6, MildCall
<1>8. HeadersOnly(todo', handle', xfer)
  BY <1>2, IdleHeaders
<1> QED BY <1>1, <1>7, <1>8 DEF ContentInv

\* Remove takes entries out of directories.
LEMMA RemoveMild ==
    ASSUME NEW F, NEW G, Shape(disk, F, G), NEW D \in G, NEW h \in F, NEW name, NEW map, NEW table,
           TableOK(table), Fewer(TableOf(disk, D), table), NEW i, Found(table, name, i),
           NEW r, r = RemoveFile(h, name, map, table, ContentOf(disk, D))
    PROVE  MildList(disk, r.writes, F, G)
<1> PICK u : u = Write(h, [disk[h] EXCEPT !.numVisits = @ - 1])
  OBVIOUS
<1>1. Mild(disk, u, F, G)
  <2>1. Fields(disk[h])
    BY DEF Shape, HeaderOK
  <2>2. SameSize(disk[h], [disk[h] EXCEPT !.numVisits = @ - 1])
    BY <2>1, VisitsSize
  <2> QED BY <2>2 DEF Mild, Write
<1>2. MildList(disk, <<u>>, F, G)
  BY <1>1, MildOne
<1>3. MildList(disk, <<Stop>>, F, G)
  <2>1. Mild(disk, Stop, F, G)
    BY DEF Mild, Stop, Write
  <2> QED BY <2>1, MildOne
<1>4. ASSUME NEW last, last = <<>> \/ last = <<Stop>>, RemovesNothing(r, h, map, table, last)
      PROVE  MildList(disk, r.writes, F, G)
  <2>1. MildList(disk, last, F, G)
    BY <1>3, <1>4, MildNone
  <2>2. r.writes = <<u>> \o last
    BY <1>4 DEF RemovesNothing
  <2> QED BY <1>2, <2>1, <2>2, MildJoin
<1>5. ASSUME NEW own, RemovesAll(r, h, name, map, table, ContentOf(disk, D), own)
      PROVE  MildList(disk, r.writes, F, G)
  <2> PICK b : b = Write(MapSector, MapFile(map \ own))
    OBVIOUS
  <2> PICK c : c = Write(ContentOf(disk, D), DirFile(RemoveName(table, name, NoName)))
    OBVIOUS
  <2>1. Mild(disk, b, F, G)
    BY DEF Mild, Write, MapSector, ContentOf
  <2>2. Fewer(TableOf(disk, D), RemoveName(table, name, NoName))
    BY RemoveNameIs, FewerTrans DEF Without
  <2>3. Mild(disk, c, F, G)
    BY <2>2 DEF Mild, Write, DirFile
  <2>4. MildList(disk, <<b>>, F, G) /\ MildList(disk, <<c>>, F, G)
    BY <2>1, <2>3, MildOne
  <2>5. MildList(disk, <<b>> \o <<c>>, F, G)
    BY <2>4, MildJoin
  <2>6. MildList(disk, <<u>> \o <<b, c>>, F, G)
    BY <1>2, <2>5, TwoOfOne, MildJoin
  <2>7. r.writes = <<u, b, c>>
    BY <1>5 DEF RemovesAll
  <2> QED BY <2>6, <2>7, ThreeOfOne
<1> QED BY <1>4, <1>5, RemoveFileIs

\* Remove of a directory's entries, one after the other.
Emptied(s, i, F, G, D, old) ==
    /\ TableOK(s.table)
    /\ Fewer(old, s.table)
    /\ \A j \in InUse(old) : j > i => j \in InUse(s.table)
    /\ MildList(disk, s.writes, F, G)

\* One round of the loop that empties a directory writes mildly.
LEMMA EmptiedStep ==
    ASSUME NEW F, NEW G, Shape(disk, F, G), NEW D \in G, NEW old, old = TableOf(disk, D),
           NamedOnce(old), NEW i \in 1..NumDirEntries, NEW s, Emptied(s, i - 1, F, G, D, old),
           NEW s2, s2 = EntryStep(s, old, ContentOf(disk, D), i)
    PROVE  Emptied(s2, i, F, G, D, old)
<1>1. /\ TableOK(s.table) /\ Fewer(old, s.table) /\ MildList(disk, s.writes, F, G)
      /\ \A j \in InUse(old) : j > i - 1 => j \in InUse(s.table)
  BY DEF Emptied
<1>2. \A j \in InUse(old) : j \in Nat /\ (j > i => j > i - 1)
  BY DEF InUse
<1>3. CASE ~old[i].inUse
  <2>1. s2 = s
    BY <1>3 DEF EntryStep
  <2>2. \A j \in InUse(old) : j > i => j \in InUse(s.table)
    BY <1>1, <1>2
  <2> QED BY <1>1, <2>1, <2>2 DEF Emptied
<1>4. CASE old[i].inUse
  <2>1. PICK r : r = RemoveFile(old[i].sector, old[i].name, s.map, s.table, ContentOf(disk, D))
    OBVIOUS
  <2>2. AddsTo(s, r, s2)
    BY <1>4, <2>1, EntryAdds
  <2>3. s2.table = r.table /\ s2.writes = s.writes \o r.writes
    BY <2>2 DEF AddsTo
  <2>4. i \in InUse(old) /\ i > i - 1
    BY <1>4 DEF InUse
  <2>5. i \in InUse(s.table)
    BY <1>1, <2>4
  <2>6. Found(s.table, old[i].name, i)
    BY <1>1, <2>5, OnlyEntry
  <2>7. old[i].sector \in F
    BY <2>4 DEF Shape, LinksOK
  <2>8. MildList(disk, r.writes, F, G)
    BY <1>1, <2>1, <2>6, <2>7, RemoveMild
  <2>9. MildList(disk, s2.writes, F, G)
    BY <1>1, <2>3, <2>8, MildJoin
  <2>10. Fewer(s.table, r.table) /\ InUse(s.table) \ {i} \subseteq InUse(r.table)
    BY <1>1, <2>1, <2>6, TableAfter
  <2>11. Fewer(old, s2.table)
    BY <1>1, <2>3, <2>10, FewerTrans
  <2>12. \A j \in InUse(old) : j > i => j \in InUse(s2.table)
    BY <1>1, <1>2, <2>3, <2>10
  <2>13. TableOK(r.table)
    <3>1. \/ RemovesNothing(r, old[i].sector, s.map, s.table, <<>>)
          \/ RemovesNothing(r, old[i].sector, s.map, s.table, <<Stop>>)
          \/ \E own : RemovesAll(r, old[i].sector, old[i].name, s.map, s.table, ContentOf(disk, D), own)
      BY <2>1, RemoveFileIs
    <3>2. r.table = s.table \/ r.table = RemoveName(s.table, old[i].name, NoName)
      BY <3>1 DEF RemovesNothing, RemovesAll
    <3>3. TableOK(RemoveName(s.table, old[i].name, NoName))
      BY <1>1, <2>6, RemoveNameIs DEF Without
    <3> QED BY <1>1, <3>2, <3>3
  <2> QED BY <2>3, <2>9, <2>11, <2>12, <2>13 DEF Emptied
<1> QED BY <1>3, <1>4

\* Emptying a directory writes mildly.
LEMMA EntriesMild ==
    ASSUME NEW F, NEW G, Shape(disk, F, G), NEW D \in G, NamedOnce(TableOf(disk, D))
    PROVE  MildList(disk, RemoveEntries(D).writes, F, G)
<1>1. PICK old : old = TableOf(disk, D)
  OBVIOUS
<1>2. DirTable(D) = old /\ DirSector(D) = ContentOf(disk, D)
  BY <1>1 DEF DirTable, DirSector, TableOf, ContentOf
<1>3. PICK f : /\ Removals(f, old, ContentOf(disk, D), NumDirEntries)
               /\ RemoveEntries(D) = f[NumDirEntries]
  BY <1>2, RemoveEntriesIs
<1>4. NumDirEntries \in Nat
  BY SizesAssumption
<1>5. f[0] = EntryStart(old)
  BY <1>3, <1>4 DEF Removals
<1>6. \A i \in 1..NumDirEntries : f[i] = EntryStep(f[i - 1], old, ContentOf(disk, D), i)
  BY <1>3, <1>4 DEF Removals
<1>0. Emptied(f[0], 0, F, G, D, old)
  <2>1. TableOK(old)
    BY <1>1 DEF Shape, DirOK
  <2>2. f[0].table = old /\ f[0].writes = <<>>
    BY <1>5 DEF EntryStart
  <2> QED BY <2>1, <2>2, MildNone DEF Emptied, Fewer
<1> DEFINE bad == {i \in 0..NumDirEntries : ~Emptied(f[i], i, F, G, D, old)}
<1>7. ASSUME bad # {} PROVE FALSE
  <2>0. bad \in SUBSET Nat
    OBVIOUS
  <2>1. PICK k \in bad : \A n \in bad : k <= n
    BY <1>7, <2>0, Least
  <2>2. k \in 0..NumDirEntries /\ ~Emptied(f[k], k, F, G, D, old)
    OBVIOUS
  <2>3. k # 0
    BY <1>0, <2>2
  <2>4. k \in 1..NumDirEntries /\ k - 1 \in 0..NumDirEntries /\ ~(k <= k - 1)
    BY <1>4, <2>2, <2>3
  <2>5. k - 1 \notin bad
    BY <2>1, <2>4
  <2>6. Emptied(f[k - 1], k - 1, F, G, D, old)
    BY <2>4, <2>5
  <2>7. f[k] = EntryStep(f[k - 1], old, ContentOf(disk, D), k)
    BY <1>6, <2>4
  <2>8. NamedOnce(old)
    BY <1>1
  <2> HIDE DEF bad
  <2>9. Emptied(f[k], k, F, G, D, old)
    BY <1>1, <2>4, <2>6, <2>7, <2>8, EmptiedStep
  <2> QED BY <2>2, <2>9
<1>8. Emptied(f[NumDirEntries], NumDirEntries, F, G, D, old)
  BY <1>4, <1>7
<1> QED BY <1>3, <1>8 DEF Emptied

\* So does the removal of a directory.
LEMMA DirectoryMild ==
    ASSUME NEW F, NEW G, Shape(disk, F, G), NEW h \in G, NamedOnce(TableOf(disk, h)),
           NEW g, g.dir \in G, NEW i, Found(TableOf(disk, g.dir), g.name, i),
           NEW s, NEW own, NEW last, NEW w, NEW tg, RemovesDirectory(h, g, s, own, last, w, tg)
    PROVE  MildList(disk, w, F, G)
<1>1. s = RemoveEntries(h) /\ last = DirectoryWrites(h, g, s.map, own) /\ w = s.writes \o last
  BY DEF RemovesDirectory
<1>2. MildList(disk, s.writes, F, G)
  BY <1>1, EntriesMild
<1>3. MildList(disk, last, F, G)
  <2>1. CASE last = <<Stop>>
    <3>1. Mild(disk, Stop, F, G)
      BY DEF Mild, Stop, Write
    <3> QED BY <2>1, <3>1, MildOne
  <2>2. CASE last # <<Stop>>
    <3> PICK b : b = Write(MapSector, MapFile(s.map \ own))
      OBVIOUS
    <3> PICK c : c = Write(DirSector(g.dir), DirFile(RemoveName(DirTable(g.dir), g.name, NoName)))
      OBVIOUS
    <3>1. last = <<b, c>>
      BY <1>1, <2>2 DEF DirectoryWrites
    <3>2. Mild(disk, b, F, G)
      BY DEF Mild, Write, MapSector, ContentOf
    <3>3. TableOK(TableOf(disk, g.dir))
      BY DEF Shape, DirOK
    <3>4. Fewer(TableOf(disk, g.dir), RemoveName(TableOf(disk, g.dir), g.name, NoName))
      BY <3>3, RemoveNameIs DEF Without
    <3>5. DirTable(g.dir) = TableOf(disk, g.dir) /\ DirSector(g.dir) = ContentOf(disk, g.dir)
      BY DEF DirTable, DirSector, TableOf, ContentOf
    <3>6. Mild(disk, c, F, G)
      BY <3>4, <3>5 DEF Mild, Write, DirFile
    <3>7. MildList(disk, <<b>>, F, G) /\ MildList(disk, <<c>>, F, G)
      BY <3>2, <3>6, MildOne
    <3>8. MildList(disk, <<b>> \o <<c>>, F, G)
      BY <3>7, MildJoin
    <3> QED BY <3>1, <3>8, TwoOfOne
  <2> QED BY <2>1, <2>2
<1> QED BY <1>1, <1>2, <1>3, MildJoin

\* Remove takes files away, and leaves the bytes of the others.
LEMMA RemoveContent ==
    ASSUME FilesInv, ContentInv, NEW t \in Thread, NEW path \in FilePath \cup DirPath, Remove(t, path)
    PROVE  ContentInv'
<1>1. PICK g, h : g = getFileName(path) /\ h = Lookup(path)
  OBVIOUS
<1>2. AtRest /\ h # NoSector /\ UNCHANGED <<disk, machine, handle, xfer>>
  BY <1>1, RemoveIs
<1>3. machine = "up" /\ todo = <<>> /\ \A u \in Thread : xfer[u].pc = "idle"
  BY <1>2 DEF AtRest
<1>4. shadow' = shadow
  BY DEF Remove
<1>5. PICK F, G : /\ F = FilesOn(disk) \cup Opened(handle) /\ Sound(disk, F, G, {}, handle, xfer)
                  /\ Exact(disk, 0, handle, xfer, shadow) /\ AllIdleIn(xfer)
  BY <1>3, RestExact
<1>6. Shape(disk, F, G) /\ NamesOK(disk)
  BY <1>5 DEF Sound
<1>7. /\ h \in F \ {FreeMapSector, DirectorySector}
      /\ disk[h].fileType = 1 => h \in G /\ NamedOnce(TableOf(disk, h))
  BY <1>1, <1>2, <1>6, LookupFinds
<1>8. PICK i : Found(TableOf(disk, g.dir), g.name, i) /\ TableOf(disk, g.dir)[i].sector = h
  BY <1>1, <1>2, <1>6, LookupFinds
<1>9. g.dir \in G /\ disk[h].fileType \in {0, 1}
  <2>1. LeadsTo(path, g, F, G)
    BY <1>1, <1>6, PathLeads
  <2>2. HeaderOK(disk, h)
    BY <1>6, <1>7 DEF Shape
  <2> QED BY <2>1, <2>2 DEF LeadsTo, HeaderOK, Fields
<1>10. MildList(disk, todo', F, G)
  <2>1. CASE disk[h].fileType = 0
    <3>1. PICK r : /\ r = RemoveFile(h, g.name, FreeMap, DirTable(g.dir), DirSector(g.dir))
                   /\ todo' = r.writes
      BY <1>1, <2>1, RemoveIs
    <3>2. DirTable(g.dir) = TableOf(disk, g.dir) /\ DirSector(g.dir) = ContentOf(disk, g.dir)
      BY DEF DirTable, DirSector, TableOf, ContentOf
    <3>3. TableOK(TableOf(disk, g.dir)) /\ Fewer(TableOf(disk, g.dir), TableOf(disk, g.dir)) /\ h \in F
      BY <1>6, <1>7, <1>9 DEF Shape, DirOK, Fewer
    <3>4. MildList(disk, r.writes, F, G)
      BY <1>6, <1>8, <1>9, <3>1, <3>2, <3>3, RemoveMild
    <3> QED BY <3>1, <3>4
  <2>2. CASE disk[h].fileType = 1
    <3>0. disk[h].fileType # 0
      BY <2>2
    <3>1. PICK s, own, last : RemovesDirectory(h, g, s, own, last, todo', target')
      BY <1>1, <3>0, RemoveIs
    <3>2. PICK w, tg : w = todo' /\ tg = target'
      OBVIOUS
    <3>3. RemovesDirectory(h, g, s, own, last, w, tg)
      BY <3>1, <3>2
    <3>4. MildList(disk, w, F, G)
      BY <1>6, <1>7, <1>8, <1>9, <2>2, <3>3, DirectoryMild
    <3> QED BY <3>2, <3>4
  <2> QED BY <1>9, <2>1, <2>2
<1>11. Opened(handle) \subseteq F
  BY <1>5
<1>12. ExactLater(disk, todo', handle, xfer, shadow)
  BY <1>5, <1>6, <1>10, <1>11, MildCall
<1>13. HeadersOnly(todo', handle, xfer)
  BY <1>5, IdleHeaders
<1> QED BY <1>2, <1>4, <1>12, <1>13 DEF ContentInv

\* Create leaves the files that there are alone, but for directories and the
\* bit map.
Untouched(d, e, F, G) ==
    \A f \in F : \A s \in OwnedBy(d, f) :
        e[s] = d[s] \/ \E D \in G \cup {FreeMapSector} : s = ContentOf(d, D)

\* A file whose sectors are untouched has the same bytes.
LEMMA UntouchedText ==
    ASSUME NEW d, NEW e, NEW F, NEW G, Shape(d, F, G), Untouched(d, e, F, G), NEW f \in F
    PROVE  SameText(d, e, f) /\ SameLayout(d, e, f)
<1>1. HeaderOK(d, f) /\ d[f].numSectors \in Nat
  BY DEF Shape, HeaderOK, Fields
<1>2. \A D \in G \cup {FreeMapSector} : ContentOf(d, D) # f /\ ContentOf(d, D) \notin Tables(d[f])
  BY ContentAlone
<1>3. e[f] = d[f] /\ \A s \in Tables(d[f]) : e[s] = d[s]
  BY <1>1, <1>2, Owns DEF Untouched
<1>4. SameLayout(d, e, f)
  BY <1>3 DEF SameLayout
<1>5. \A i \in 1..d[f].numSectors : DataSector(e, e[f], i) = DataSector(d, d[f], i)
  BY <1>1, <1>4, LayoutKept
<1>6. ASSUME d[f].fileType # 1, NEW i \in 1..d[f].numSectors, NEW s, s = DataSector(d, d[f], i)
      PROVE  BytesAt(e, s) = BytesAt(d, s)
  <2>1. CASE s = NoSector
    BY <2>1 DEF BytesAt
  <2>2. CASE s # NoSector
    <3>1. s \in OwnedBy(d, f)
      BY <1>1, <1>6, <2>2, Owns
    <3>2. \A D \in G \cup {FreeMapSector} : s # ContentOf(d, D)
      <4> SUFFICES ASSUME NEW D \in G \cup {FreeMapSector}, s = ContentOf(d, D) PROVE FALSE
        OBVIOUS
      <4>1. D \in F /\ ContentOf(d, D) \in OwnedBy(d, D)
        BY ContentAlone
      <4>2. d[D].fileType = 1
        BY DEF Shape, DirOK, MapOK, OneSector
      <4> QED BY <1>6, <3>1, <4>1, <4>2 DEF Shape, NoneShared
    <3>3. e[s] = d[s]
      BY <3>1, <3>2 DEF Untouched
    <3> QED BY <3>3 DEF BytesAt
  <2> QED BY <2>1, <2>2
<1>7. SameData(d, e, f) \/ d[f].fileType = 1
  BY <1>3, <1>5, <1>6 DEF SameData
<1> QED BY <1>3, <1>4, <1>7 DEF SameText

\* Fresh writes, then the directory and the bit map.
LEMMA CreateUntouched ==
    ASSUME NEW d, NEW F, NEW G, NEW o, NEW x, Sound(d, F, G, {}, o, x),
           NEW S, NEW p \in Seq(S), FreshWrites(p, Len(p), MarkedOn(d)), NEW u, NEW v, NEW w,
           w = p \o <<u, v>>, NEW D \in G, u.sector = ContentOf(d, D),
           v.sector = ContentOf(d, FreeMapSector), NEW k \in 0..Len(w), NEW e, Reaches(d, w, k, e)
    PROVE  Untouched(d, e, F, G)
<1> SUFFICES ASSUME NEW f \in F, NEW s \in OwnedBy(d, f), e[s] # d[s]
             PROVE  \E E \in G \cup {FreeMapSector} : s = ContentOf(d, E)
  BY DEF Untouched
<1>1. HeaderOK(d, f) /\ OwnedBy(d, f) \subseteq MarkedOn(d)
  BY DEF Sound, Shape, Marked
<1>2. s \in Sector /\ s \in MarkedOn(d)
  BY <1>1, Owns
<1>3. SectorAfter(d, w, k, e, s)
  BY <1>2 DEF Reaches
<1>4. PICK i : LastWrite(w, k, s, i)
  BY <1>3 DEF SectorAfter
<1>5. i \in 1..k /\ w[i].sector = s
  BY <1>4 DEF LastWrite
<1>6. Len(p) \in Nat /\ Len(w) = Len(p) + 2 /\ (\A j \in 1..Len(p) : w[j] = p[j])
      /\ w[Len(p) + 1] = u /\ w[Len(p) + 2] = v
  <2>1. PICK U : U = S \cup {u, v}
    OBVIOUS
  <2>2. p \in Seq(U) /\ <<u, v>> \in Seq(U)
    BY <2>1
  <2> QED BY <2>2
<1>7. i \notin 1..Len(p)
  BY <1>2, <1>5, <1>6 DEF FreshWrites
<1>8. i = Len(p) + 1 \/ i = Len(p) + 2
  BY <1>5, <1>6, <1>7
<1> QED BY <1>5, <1>6, <1>8

\* What the writes of Create make of the new file.
LEMMA ReachesSame ==
    ASSUME NEW d, NEW w, NEW k \in Nat, NEW e, NEW c, Reaches(d, w, k, e), Reaches(d, w, k, c),
           NEW s \in Sector
    PROVE  e[s] = c[s]
<1>1. SectorAfter(d, w, k, e, s) /\ SectorAfter(d, w, k, c, s)
  BY DEF Reaches
<1>2. CASE NotWritten(w, k, s)
  BY <1>1, <1>2 DEF SectorAfter, NotWritten, LastWrite
<1>3. CASE ~NotWritten(w, k, s)
  <2>1. PICK i : LastWrite(w, k, s, i) /\ e[s] = w[i].content
    BY <1>1, <1>3 DEF SectorAfter
  <2>2. PICK j : LastWrite(w, k, s, j) /\ c[s] = w[j].content
    BY <1>1, <1>3 DEF SectorAfter
  <2>3. i = j
    BY <2>1, <2>2, LastUnique
  <2> QED BY <2>1, <2>2, <2>3
<1> QED BY <1>2, <1>3

\* All the writes lead to the disk that Written describes.
LEMMA WrittenReaches ==
    ASSUME NEW d, NEW w, Len(w) \in Nat
    PROVE  Reaches(d, w, Len(w), [s \in Sector |-> Written(d, w, s)])
<1> PICK e : e = [s \in Sector |-> Written(d, w, s)]
  OBVIOUS
<1>1. ASSUME NEW s \in Sector PROVE SectorAfter(d, w, Len(w), e, s)
  <2> PICK I : I = {i \in 1..Len(w) : w[i].sector = s}
    OBVIOUS
  <2>1. CASE I = {}
    <3>1. e[s] = d[s]
      BY <2>1 DEF Written
    <3>2. NotWritten(w, Len(w), s)
      BY <2>1 DEF NotWritten
    <3> QED BY <3>1, <3>2 DEF SectorAfter
  <2>2. CASE I # {}
    <3>1. ~NotWritten(w, Len(w), s)
      BY <2>2 DEF NotWritten
    <3>2. PICK j : LastWrite(w, Len(w), s, j)
      BY <3>1, LastExists
    <3>3. j \in I /\ \A i \in I : i <= j
      BY <3>2 DEF LastWrite
    <3>4. PICK c : c = CHOOSE i \in I : \A l \in I : l <= i
      OBVIOUS
    <3>5. c \in I /\ \A l \in I : l <= c
      BY <3>3, <3>4
    <3>6. c = j
      BY <3>3, <3>5
    <3>7. e[s] = w[c].content
      BY <2>2, <3>4 DEF Written
    <3> QED BY <3>2, <3>6, <3>7 DEF SectorAfter
  <2> QED BY <2>1, <2>2
<1> QED BY <1>1 DEF Reaches

\* Disk e has the new file as disk m, on which its last sector was written.
SameOn(m, e, tg) == \A s \in tg : e[s] = m[s]
AsOn(m, e, h) ==
    /\ e[h] = m[h]
    /\ \A i \in 1..m[h].numSectors :
          /\ DataSector(e, m[h], i) = DataSector(m, m[h], i)
          /\ BytesAt(e, DataSector(m, m[h], i)) = BytesAt(m, DataSector(m, m[h], i))

\* A new file keeps its sectors while nothing else is written to them.
LEMMA NewSectors ==
    ASSUME NEW m, NEW e, NEW h, HeaderOK(m, h), NEW tg, OwnedBy(m, h) \subseteq tg, SameOn(m, e, tg)
    PROVE  AsOn(m, e, h)
<1>1. h \in tg /\ Tables(m[h]) \subseteq tg
  BY Owns
<1>2. e[h] = m[h] /\ \A s \in Tables(m[h]) : e[s] = m[s]
  BY <1>1 DEF SameOn
<1>3. SameLayout(m, e, h) /\ m[h].numSectors \in Nat
  BY <1>2 DEF SameLayout, HeaderOK, Fields
<1>4. \A i \in 1..m[h].numSectors : DataSector(e, m[h], i) = DataSector(m, m[h], i)
  BY <1>2, <1>3, LayoutKept
<1>5. ASSUME NEW i \in 1..m[h].numSectors, NEW s, s = DataSector(m, m[h], i)
      PROVE  BytesAt(e, s) = BytesAt(m, s)
  <2>1. CASE s = NoSector
    BY <2>1 DEF BytesAt
  <2>2. CASE s # NoSector
    <3>1. e[s] = m[s]
      BY <1>5, <2>2, Owns DEF SameOn
    <3> QED BY <3>1 DEF BytesAt
  <2> QED BY <2>1, <2>2
<1> QED BY <1>2, <1>4, <1>5 DEF AsOn

\* A new file holds what is in its sectors.
LEMMA NewText ==
    ASSUME NEW m, NEW e, NEW after, NEW h, HeaderOK(m, h),
           AsOn(m, e, h), AsOn(m, after, h), NEW x, AllIdleIn(x), NEW r, NEW o, NEW sh,
           m[h].fileType = 1 => sh[h] = <<>>,
           m[h].fileType # 1 => sh[h] = FileBytes(after, m[h])
    PROVE  FileExact(e, h, r, o, x, sh)
<1>1. e[h] = m[h]
  BY DEF AsOn
<1>2. CASE m[h].fileType = 1
  BY <1>1, <1>2 DEF FileExact
<1>3. CASE m[h].fileType # 1
  <2> PICK n : n = m[h].numBytes
    OBVIOUS
  <2>1. /\ n \in Nat /\ m[h].numSectors \in Nat
        /\ divRoundUp(n, SectorSize) <= m[h].numSectors
    BY DEF HeaderOK, Fields
  <2>2. sh[h] = [i \in 1..n |-> FileByte(after, m[h], i)]
    BY <1>3 DEF FileBytes
  <2>3. ASSUME NEW i \in 1..n PROVE ByteExact(e, h, i, sh[h][i], o, x)
    <3>1. IndexOf(i) \in 1..m[h].numSectors
      BY <2>1, ByteInside
    <3> PICK c, s : c = IndexOf(i) /\ s = DataSector(m, m[h], c)
      OBVIOUS
    <3>7. c \in 1..m[h].numSectors
      BY <3>1
    <3>8. DataSector(after, m[h], c) = s /\ BytesAt(after, s) = BytesAt(m, s)
      BY <3>7 DEF AsOn
    <3>9. DataSector(e, m[h], c) = s /\ BytesAt(e, s) = BytesAt(m, s)
      BY <3>7 DEF AsOn
    <3>2. DataSector(after, m[h], IndexOf(i)) = DataSector(e, m[h], IndexOf(i))
      BY <3>8, <3>9
    <3>3. BytesAt(after, DataSector(e, m[h], IndexOf(i))) = BytesAt(e, DataSector(e, m[h], IndexOf(i)))
      BY <3>8, <3>9
    <3>4. sh[h][i] = BytesAt(after, DataSector(after, m[h], IndexOf(i)))[OffsetOf(i)]
      BY <2>2 DEF FileByte, IndexOf, OffsetOf
    <3>5. sh[h][i] = BytesAt(e, PlaceOf(e, h, i))[OffsetOf(i)]
      BY <1>1, <3>2, <3>3, <3>4 DEF PlaceOf
    <3>6. \A q, u, j : ~Pending(o, x, h, q, u, j)
      BY DEF Pending, AllIdleIn
    <3> QED BY <3>5, <3>6 DEF ByteExact
  <2>4. BytesExact(e, h, n, r, o, x, sh[h])
    <3>1. sh[h] = [i \in 1..n |-> sh[h][i]]
      BY <2>2
    <3>2. e[h].numBytes = n /\ e[h].numBytes <= n /\ divRoundUp(n, SectorSize) <= e[h].numSectors
      BY <1>1, <2>1
    <3> QED BY <2>1, <2>3, <3>1, <3>2 DEF BytesExact
  <2> QED BY <1>1, <1>3, <2>4 DEF FileExact
<1> QED BY <1>2, <1>3

\* Two more writes.
LEMMA TwoMore ==
    ASSUME NEW S, NEW p \in Seq(S), NEW u, NEW v, NEW w, w = p \o <<u, v>>
    PROVE  /\ Len(p) \in Nat /\ Len(w) = Len(p) + 2
           /\ w[Len(p) + 1] = u /\ w[Len(p) + 2] = v
           /\ \A i \in 1..Len(p) : w[i] = p[i]
<1>1. PICK U : U = S \cup {u, v}
  OBVIOUS
<1>2. p \in Seq(U) /\ <<u, v>> \in Seq(U)
  BY <1>1
<1> QED BY <1>2

\* After the directory is written the new file is there.
LEMMA CreatedText ==
    ASSUME NEW F, NEW G, Sound(disk, F, G, {}, handle, xfer), AllIdleIn(xfer),
           NEW bytes, NEW type \in {0, 1}, NEW g, g.dir \in G, NEW h, NEW j, NEW p, NEW u, NEW v, NEW w,
           NEW tg, Enters(type, h, g, j, p, u, v, w, tg),
           NEW f, NEW n, NEW hdr, Fills(bytes, type, h, hdr, f, n, p),
           NEW k \in 0..Len(w), k > Len(p), NEW e, Reaches(disk, w, k, e), NoStop(w, k),
           NEW sh, sh[h] = NewBytes(type, w, hdr), NEW r
    PROVE  FileExact(e, h, r, handle, xfer, sh)
<1>0. NoSector \notin Sector
  BY SizesAssumption DEF NoSector, Sector
<1>1. PICK S : p \in Seq(S) /\ u \in S /\ v \in S
  <2>1. PICK T : p \in Seq(T)
    BY DEF Enters
  <2>2. PICK U : U = T \cup {u, v}
    OBVIOUS
  <2>3. p \in Seq(U) /\ u \in U /\ v \in U
    BY <2>1, <2>2
  <2> QED BY <2>3
<1>2. PICK b : b = <<u, v>>
  OBVIOUS
<1>3. b \in Seq(S) /\ Len(b) = 2 /\ b[1] = u /\ b[2] = v /\ w = p \o b
  BY <1>1, <1>2 DEF Enters
<1>4. /\ Len(p) \in Nat /\ Len(w) = Len(p) + 2 /\ w[Len(p) + 1] = u /\ w[Len(p) + 2] = v
      /\ \A i \in 1..Len(p) : w[i] = p[i]
  BY <1>1, <1>2, <1>3, TwoMore
<1>5. /\ u.sector \in Sector \cap MarkedOn(disk)
      /\ v.sector \in Sector \cap MarkedOn(disk)
  <2>1. Shape(disk, F, G) /\ Marked(disk, F, {})
    BY DEF Sound
  <2>2. \A D \in G \cup {FreeMapSector} : ContentOf(disk, D) \in Sector \cap MarkedOn(disk)
    BY <2>1, ContentAlone DEF Marked
  <2> QED BY <2>2 DEF Enters, Write
<1>6. NoStop(w, Len(w)) /\ NoStop(p, Len(p))
  BY <1>0, <1>4, <1>5 DEF NoStop
<1>7. PICK i \in 0..Len(b) : k = Len(p) + i
  <2>1. k - Len(p) \in 0..Len(b) /\ k = Len(p) + (k - Len(p))
    BY <1>3, <1>4
  <2> QED BY <2>1
<1>8. PICK m : Reaches(disk, p, Len(p), m) /\ Reaches(m, b, i, e)
  <2>1. Reaches(disk, w, Len(p) + i, e)
    BY <1>7
  <2> QED BY <1>1, <1>3, <2>1, ReachesSplit
<1>9. NewFile(m, h, type, tg)
  BY <1>6, <1>8 DEF Enters, MakesFile
<1>10. ASSUME NEW c, NEW q \in 0..Len(b), NEW a, Reaches(c, b, q, a) PROVE SameOn(c, a, tg)
  <2> SUFFICES ASSUME NEW s \in tg PROVE a[s] = c[s]
    BY DEF SameOn
  <2>1. s \in Sector /\ s \notin MarkedOn(disk)
    BY DEF Enters
  <2>2. SectorAfter(c, b, q, a, s)
    BY <1>10, <2>1 DEF Reaches
  <2>3. ASSUME NEW l \in 1..q PROVE b[l].sector # s
    <3>1. l = 1 \/ l = 2
      BY <1>3
    <3> QED BY <1>3, <1>5, <2>1, <3>1
  <2> QED BY <2>2, <2>3 DEF SectorAfter, LastWrite
<1>11. PICK after : after = [s \in Sector |-> Written(disk, w, s)]
  OBVIOUS
<1>12. SameOn(m, e, tg)
  BY <1>8, <1>10
<1>13. SameOn(m, after, tg)
  <2>1. Reaches(disk, w, Len(p) + 2, after)
    BY <1>4, <1>11, WrittenReaches
  <2>2. 2 \in 0..Len(b)
    BY <1>3
  <2>3. PICK c : Reaches(disk, p, Len(p), c) /\ Reaches(c, b, 2, after)
    BY <1>1, <1>3, <2>1, <2>2, ReachesSplit
  <2>4. SameOn(c, after, tg)
    BY <1>10, <2>2, <2>3
  <2>5. tg \in SUBSET Sector
    BY DEF Enters
  <2>6. ASSUME NEW s \in tg PROVE after[s] = m[s]
    <3>1. PICK L, d : L \in Nat /\ Reaches(d, p, L, m) /\ Reaches(d, p, L, c)
      BY <1>4, <1>8, <2>3
    <3>2. c[s] = m[s]
      <4>1. s \in Sector
        BY <2>5
      <4>2. Reaches(d, p, L, c) /\ Reaches(d, p, L, m) /\ L \in Nat
        BY <3>1
      <4>3. c[s] = m[s]
        BY ONLY <4>1, <4>2, ReachesSame
      <4> QED BY <4>3
    <3> QED BY <2>4, <3>2 DEF SameOn
  <2> QED BY <2>6 DEF SameOn
<1>14. m[h] = hdr
  <2>1. n \in Nat /\ NumTables(n) \in Nat
    BY RoundUpType, SizesAssumption DEF Fills, NumTables
  <2>2. h \in Sector
    BY DEF Fills
  <2>3. PICK both : both = MarkedOn(disk) \cup {h}
    OBVIOUS
  <2>4. FreshSeq(f, n + NumTables(n), both) /\ h \in both
    BY <2>3 DEF Fills
  <2>5. Prefix(p, f, n, h, hdr, type) /\ (type = 1 => n = 1)
    BY DEF Fills
  <2>6. PrefixAt(m, p)
    BY <1>4, <1>8, <2>1, <2>4, <2>5, PrefixReached
  <2>7. p[NumTables(n) + 1] = Write(h, hdr) /\ NumTables(n) + 1 \in 1..Len(p)
    BY <2>1, <2>5 DEF Prefix
  <2> QED BY <2>2, <2>6, <2>7 DEF PrefixAt, Write
<1>15. /\ HeaderOK(m, h) /\ OwnedBy(m, h) \subseteq tg /\ m[h].fileType = type
  BY <1>9 DEF NewFile
<1>16. NoSector \notin {w[l].sector : l \in 1..Len(w)}
  BY <1>6 DEF NoStop
<1>17. /\ type = 1 => sh[h] = <<>>
       /\ type # 1 => sh[h] = FileBytes(after, m[h])
  BY <1>11, <1>14, <1>16 DEF NewBytes
<1>18. AsOn(m, e, h) /\ AsOn(m, after, h)
  BY <1>12, <1>13, <1>15, NewSectors
<1> QED BY <1>15, <1>17, <1>18, NewText

\* FileSystem::Create.
LEMMA CreateContent ==
    ASSUME FilesInv, ContentInv, NEW t \in Thread, NEW path, NEW bytes \in Nat, NEW type \in {0, 1},
           Creatable(path, type), type = 1 => bytes = SectorSize,
           Create(t, path, bytes, type)
    PROVE  ContentInv'
<1>1. /\ machine = "up" /\ todo = <<>> /\ \A u \in Thread : xfer[u].pc = "idle"
      /\ UNCHANGED <<disk, machine, handle, xfer>>
  BY DEF Create, AtRest
<1>2. PICK F, G : /\ F = FilesOn(disk) \cup Opened(handle) /\ Sound(disk, F, G, {}, handle, xfer)
                  /\ Exact(disk, 0, handle, xfer, shadow) /\ AllIdleIn(xfer)
  BY <1>1, RestExact
<1>3. Shape(disk, F, G) /\ Marked(disk, F, {}) /\ Opened(handle) \subseteq F
  BY <1>2 DEF Sound
<1>4. PICK visits, g, h, a, w : Creates(path, bytes, type, visits, g, h, a, w)
  BY CreateIs
<1>5. HeadersOnly(todo', handle, xfer)
  BY <1>2, IdleHeaders
<1>6. CASE g.name = NoName
  <2>1. todo' = <<Stop>> /\ shadow' = shadow
    BY <1>4, <1>6 DEF Creates
  <2>2. Mild(disk, Stop, F, G)
    BY DEF Mild, Stop, Write
  <2>3. MildList(disk, todo', F, G)
    BY <2>1, <2>2, MildOne
  <2>4. ExactLater(disk, todo', handle, xfer, shadow)
    BY <1>2, <1>3, <2>3, MildCall
  <2> QED BY <1>1, <1>5, <2>1, <2>4 DEF ContentInv
<1>7. CASE g.name # NoName
  <2>1. PICK tg, f, n, p, j, u, v, hdr :
             /\ todo' = w /\ target' = tg
             /\ g.dir \in G
             /\ a.hdr = hdr
             /\ Fills(bytes, type, h, hdr, f, n, p)
             /\ Enters(type, h, g, j, p, u, v, w, tg)
    BY <1>2, <1>4, <1>7, CreateWhat
  <2>2. FreshWrites(p, Len(p), MarkedOn(disk)) /\ w = p \o <<u, v>>
    BY <2>1 DEF Fills, Enters
  <2>3. PICK S : p \in Seq(S)
    BY <2>1 DEF Enters
  <2>4. Grows(disk, w, p, F, h, tg, handle, xfer)
    BY <1>1, <1>2, <2>1, <2>2, <2>3, CreateTree DEF Enters
  <2>5. PICK sh : sh = shadow' /\ sh = [shadow EXCEPT ![h] = NewBytes(type, w, a.hdr)]
    BY <1>4, <1>7 DEF Creates
  <2>6. DOMAIN sh = Sector /\ h \in Sector
    BY <2>1, <2>5 DEF ContentInv, Fills
  <2>7. sh[h] = NewBytes(type, w, hdr) /\ \A q : q # h => sh[q] = shadow[q]
    BY <2>1, <2>5, <2>6 DEF ContentInv
  <2>8. h \notin F
    <3>1. n \in Nat /\ NumTables(n) \in Nat
      BY <2>1, RoundUpType, SizesAssumption DEF Fills, NumTables
    <3>2. p[NumTables(n) + 1] = Write(h, hdr) /\ NumTables(n) + 1 \in 1..Len(p)
      BY <2>1, <3>1 DEF Fills, Prefix
    <3>3. h \notin MarkedOn(disk)
      BY <2>2, <3>2 DEF FreshWrites, Write
    <3>4. \A q \in F : q \in MarkedOn(disk)
      BY <1>3, Owns DEF Shape, Marked
    <3> QED BY <3>3, <3>4
  <2>9. ASSUME NEW k \in 0..Len(w), NEW e, Reaches(disk, w, k, e), NoStop(w, k)
        PROVE  Steady(disk, e, handle) /\ Exact(e, Len(w) - k, handle, xfer, sh)
    <3>1. Untouched(disk, e, F, G)
      <4>1. u.sector = ContentOf(disk, g.dir) /\ v.sector = ContentOf(disk, FreeMapSector)
        BY <2>1 DEF Enters, Write
      <4> QED BY <1>2, <2>1, <2>2, <2>3, <2>9, <4>1, CreateUntouched
    <3>2. \A q \in F : SameText(disk, e, q) /\ SameLayout(disk, e, q)
      BY <1>3, <3>1, UntouchedText
    <3>3. Steady(disk, e, handle)
      BY <1>3, <3>2 DEF Steady, Opened, SameText
    <3>4. FilesOn(e) \subseteq NewTree(F, h, k, p)
      <4>1. PICK G2 : Sound(e, NewTree(F, h, k, p), G2, AfterWrites(w, k, tg), handle, xfer)
        BY <2>4, <2>9 DEF Grows
      <4>2. Shape(e, NewTree(F, h, k, p), G2)
        BY <4>1 DEF Sound
      <4> QED BY <4>2, FilesWithin
    <3>5. ASSUME NEW q \in FilesOn(e) \cup Opened(handle)
          PROVE  FileExact(e, q, Len(w) - k, handle, xfer, sh)
      <4>1. CASE q \in F
        <5>1. FileExact(disk, q, 0, handle, xfer, shadow)
          BY <1>2, <4>1 DEF Exact
        <5>2. disk[q].numSectors \in Nat /\ sh[q] = shadow[q]
          BY <1>3, <2>7, <2>8, <4>1 DEF Shape, HeaderOK, Fields
        <5> QED BY <1>2, <3>2, <4>1, <5>1, <5>2, IdleText
      <4>2. CASE q \notin F
        <5>1. q = h /\ ~(k <= Len(p))
          BY <1>3, <3>4, <4>2 DEF NewTree
        <5>2. Len(p) \in Nat /\ Len(w) \in Nat
          <6>1. PICK U : U = S \cup {u, v}
            OBVIOUS
          <6>2. p \in Seq(U) /\ <<u, v>> \in Seq(U)
            BY <2>3, <6>1
          <6> QED BY <2>2, <6>2
        <5>3. k > Len(p)
          BY <5>1, <5>2
        <5> QED BY <1>2, <2>1, <2>7, <2>9, <5>1, <5>3, CreatedText
      <4> QED BY <4>1, <4>2
    <3> QED BY <1>2, <3>3, <3>5, IdleExact
  <2>10. ExactLater(disk, w, handle, xfer, sh)
    BY <2>9 DEF ExactLater
  <2> QED BY <1>1, <1>5, <2>1, <2>5, <2>6, <2>10 DEF ContentInv
<1> QED BY <1>6, <1>7

-----------------------------------------------------------------------------
(***************************************************************************)
(* Sector writes, the end of the program, format and restart.              *)
(***************************************************************************)
\* What is steady now, and later, is steady from now to later.
LEMMA SteadyLater ==
    ASSUME NEW d, NEW m, NEW e, NEW o, Steady(d, m, o), Steady(d, e, o)
    PROVE  Steady(m, e, o)
<1> SUFFICES ASSUME NEW t \in Thread, o[t] # NoSector
             PROVE  SameLayout(m, e, o[t]) /\ e[o[t]].fileType = m[o[t]].fileType
  BY DEF Steady
<1> PICK f : f = o[t]
  OBVIOUS
<1>1. /\ SameLayout(d, m, f) /\ m[f].fileType = d[f].fileType
      /\ SameLayout(d, e, f) /\ e[f].fileType = d[f].fileType
  BY DEF Steady
<1>2. Tables(m[f]) = Tables(d[f])
  BY <1>1 DEF SameLayout, Tables
<1>3. SameLayout(m, e, f)
  BY <1>1, <1>2 DEF SameLayout
<1> QED BY <1>1, <1>3

\* The first write may be taken from the list.
LEMMA HeadersLater ==
    ASSUME NEW S, NEW w \in Seq(S), w # <<>>, NEW o, NEW x, HeadersOnly(w, o, x)
    PROVE  HeadersOnly(Tail(w), o, x)
<1> SUFFICES ASSUME \E t \in Thread : x[t].op = "write", NEW i \in 1..Len(Tail(w))
             PROVE  Beginning(o, x, Tail(w)[i].sector)
  BY DEF HeadersOnly
<1>1. i + 1 \in 1..Len(w) /\ Tail(w)[i] = w[i + 1]
  OBVIOUS
<1>2. Beginning(o, x, w[i + 1].sector)
  BY <1>1 DEF HeadersOnly
<1> QED BY <1>1, <1>2

\* SynchDisk::WriteSector.
LEMMA WriteSectorContent ==
    ASSUME FilesInv, ContentInv, WriteSector
    PROVE  ContentInv'
<1> PICK w : w = todo
  OBVIOUS
<1>1. PICK S : w \in Seq(S)
  BY DEF FilesInv
<1>2. /\ machine = "up" /\ w # <<>> /\ Head(w).sector # NoSector
      /\ disk' = [disk EXCEPT ![Head(w).sector] = Head(w).content] /\ todo' = Tail(w)
      /\ UNCHANGED <<machine, handle, xfer, shadow>>
  BY DEF WriteSector
<1>3. DOMAIN disk = Sector
  BY DEF FilesInv, SoundDisk, Sound, Shape
<1>4. PICK d : d = disk'
  OBVIOUS
<1>5. DOMAIN d = Sector /\ d = [disk EXCEPT ![Head(w).sector] = Head(w).content]
  BY <1>2, <1>3, <1>4
<1>6. Len(w) \in Nat /\ Len(w) # 0 /\ Len(Tail(w)) = Len(w) - 1
  BY <1>1, <1>2
<1>7. ASSUME NEW k \in 0..Len(Tail(w)), NEW e, Reaches(d, Tail(w), k, e), NoStop(Tail(w), k)
      PROVE  Steady(disk, e, handle) /\ Exact(e, Len(Tail(w)) - k, handle, xfer, shadow)
  <2>1. k \in 0..Len(w) - 1 /\ k + 1 \in 0..Len(w) /\ Len(Tail(w)) - k = Len(w) - (k + 1)
    BY <1>6
  <2>2. Reaches(disk, w, k + 1, e)
    BY <1>1, <1>2, <1>3, <1>5, <1>7, <2>1, ReachesShift
  <2>3. NoStop(w, k + 1)
    BY <1>1, <1>2, <1>7, <2>1, NoStopShift
  <2>4. ExactLater(disk, w, handle, xfer, shadow)
    BY <1>2 DEF ContentInv
  <2> QED BY <2>1, <2>2, <2>3, <2>4 DEF ExactLater
<1>8. Reaches(d, Tail(w), 0, d) /\ NoStop(Tail(w), 0) /\ 0 \in 0..Len(Tail(w))
  BY <1>5, <1>6 DEF Reaches, SectorAfter, NotWritten, NoStop
<1>9. Steady(disk, d, handle)
  BY <1>7, <1>8
<1>10. ExactLater(d, Tail(w), handle, xfer, shadow)
  BY <1>7, <1>9, SteadyLater DEF ExactLater
<1>11. HeadersOnly(Tail(w), handle, xfer)
  BY <1>1, <1>2, HeadersLater DEF ContentInv
<1> QED BY <1>2, <1>4, <1>10, <1>11 DEF ContentInv

\* The program ends.
LEMMA GoDownContent ==
    ASSUME ContentInv, GoDown
    PROVE  ContentInv'
<1>1. /\ machine' = "down" /\ todo' = <<>> /\ xfer' = [u \in Thread |-> NoTransfer]
      /\ UNCHANGED shadow
  BY DEF GoDown
<1>2. AllIdleIn(xfer')
  BY <1>1 DEF AllIdleIn, NoTransfer
<1>3. HeadersOnly(todo', handle', xfer') /\ LockedReal(xfer')
  BY <1>2, IdleHeaders, IdleLocked
<1> QED BY <1>1, <1>2, <1>3 DEF ContentInv

\* A disk on which nothing is open, and nothing is to be written.
Unopened(o) == \A t \in Thread : o[t] = NoSector

\* When nothing is to be written, the disk alone must be exact.
LEMMA LaterNone ==
    ASSUME NEW d, NEW F, NEW G, NEW o, NEW x, NEW sh, Sound(d, F, G, {}, o, x), AllIdleIn(x), Unopened(o),
           \A f \in FilesOn(d) : FileExact(d, f, 0, o, x, sh)
    PROVE  ExactLater(d, <<>>, o, x, sh)
<1> PICK K, H : K = FilesOn(d) \cup Opened(o) /\ H = DirsOn(d)
  OBVIOUS
<1>1. Opened(o) = {}
  BY DEF Opened, Unopened
<1>2. Exact(d, 0, o, x, sh)
  BY <1>1, IdleExact
<1>3. Shape(d, K, H)
  BY SoundTree DEF Sound
<1>4. MildList(d, <<>>, K, H) /\ Opened(o) \subseteq K
  BY MildNone
<1> QED BY <1>2, <1>3, <1>4, MildCall

\* Nobody uses a file that nobody has open.
LEMMA UnopenedUsers ==
    ASSUME NEW d, NEW F, NEW o, NEW x, AllIdleIn(x), Unopened(o)
    PROVE  UsersOK(d, F, o, x)
BY DEF UsersOK, AllIdleIn, Unopened

\* A formatted disk is exact: its files are empty.
LEMMA FormattedExact ==
    ASSUME NEW o, NEW x, AllIdleIn(x), Unopened(o)
    PROVE  ExactLater(Formatted, <<>>, o, x, [s \in Sector |-> <<>>])
<1> PICK d, F, G : d = Formatted /\ F = {FreeMapSector, DirectorySector} /\ G = {DirectorySector}
  OBVIOUS
<1> PICK sh : sh = [s \in Sector |-> <<>>]
  OBVIOUS
<1>1. Sound(d, F, G, {}, o, x)
  BY UnopenedUsers, FormattedTree
<1>2. Shape(d, F, G)
  BY <1>1 DEF Sound
<1>3. FilesOn(d) \subseteq F
  BY <1>2, FilesWithin
<1>4. \A f \in F : f \in Sector /\ d[f].fileType = 1
  BY <1>2 DEF Shape, HeaderOK, DirOK, MapOK, OneSector
<1>5. \A f \in F : FileExact(d, f, 0, o, x, sh)
  BY <1>4 DEF FileExact
<1>6. ExactLater(d, <<>>, o, x, sh)
  BY <1>1, <1>3, <1>5, LaterNone
<1> QED BY <1>6

\* A disk just formatted has the bytes it ought to have: none.
LEMMA ContentInit == Init => ContentInv
<1> SUFFICES ASSUME Init PROVE ContentInv
  OBVIOUS
<1>1. /\ disk = Formatted /\ todo = <<>> /\ machine = "up" /\ shadow = [s \in Sector |-> <<>>]
      /\ xfer = [t \in Thread |-> NoTransfer] /\ handle = [t \in Thread |-> NoSector]
  BY DEF Init
<1>2. AllIdleIn(xfer) /\ Unopened(handle)
  BY <1>1 DEF AllIdleIn, Unopened, NoTransfer
<1>3. ExactLater(disk, todo, handle, xfer, shadow)
  BY <1>1, <1>2, FormattedExact
<1>4. HeadersOnly(todo, handle, xfer) /\ LockedReal(xfer)
  BY <1>2, IdleHeaders, IdleLocked
<1> QED BY <1>1, <1>3, <1>4 DEF ContentInv

\* FileSystem::FileSystem(TRUE).
LEMMA FormatContent ==
    ASSUME FilesInv, ContentInv, Format
    PROVE  ContentInv'
<1>1. /\ machine = "down" /\ machine' = "up" /\ disk' = Formatted
      /\ shadow' = [s \in Sector |-> <<>>] /\ UNCHANGED <<todo, handle, xfer>>
  BY DEF Format
<1>2. AllIdleIn(xfer) /\ Unopened(handle) /\ todo = <<>>
  BY <1>1 DEF ContentInv, FilesInv, Unopened
<1>3. ExactLater(disk', todo', handle', xfer', shadow')
  BY <1>1, <1>2, FormattedExact
<1>4. HeadersOnly(todo, handle, xfer) /\ LockedReal(xfer)
  BY <1>2, IdleHeaders, IdleLocked
<1> QED BY <1>1, <1>3, <1>4 DEF ContentInv

\* A restart changes only the names in directories.
LEMMA RestartText ==
    ASSUME NEW d, NEW e, NEW f, HeaderOK(d, f), DOMAIN d = Sector,
           e = [s \in Sector |-> IF d[s].kind # "dir" THEN d[s] ELSE DirFile(LostNames(d[s].table))]
    PROVE  AsOn(d, e, f) /\ AsOn(d, d, f)
<1>0. NoSector \notin Sector
  BY SizesAssumption DEF NoSector, Sector
<1>1. f \in Sector /\ d[f].kind = "header" /\ d[f].numSectors \in Nat
  BY DEF HeaderOK, Fields
<1>2. \A s \in Tables(d[f]) : s \in Sector /\ d[s].kind = "table"
  BY DEF HeaderOK
<1>3. e[f] = d[f]
  BY <1>1
<1>4. \A s \in Tables(d[f]) : e[s] = d[s]
  BY <1>2
<1>5. SameLayout(d, e, f)
  BY <1>3, <1>4 DEF SameLayout
<1>6. \A i \in 1..d[f].numSectors : DataSector(e, e[f], i) = DataSector(d, d[f], i)
  BY <1>1, <1>5, LayoutKept
<1>7. ASSUME NEW s \in Sector PROVE BytesAt(e, s) = BytesAt(d, s)
  BY <1>0 DEF BytesAt, DirFile
<1>8. BytesAt(e, NoSector) = BytesAt(d, NoSector)
  BY DEF BytesAt
<1>9. \A i \in 1..d[f].numSectors : DataSector(d, d[f], i) \in Sector \cup {NoSector}
  BY DEF HeaderOK
<1>10. \A i \in 1..d[f].numSectors : BytesAt(e, DataSector(d, d[f], i)) = BytesAt(d, DataSector(d, d[f], i))
  BY <1>7, <1>8, <1>9
<1> QED BY <1>3, <1>6, <1>10 DEF AsOn

\* FileSystem::FileSystem(FALSE).
LEMMA RestartContent ==
    ASSUME FilesInv, ContentInv, Restart
    PROVE  ContentInv'
<1> PICK e : e = [s \in Sector |-> IF disk[s].kind # "dir" THEN disk[s]
                                   ELSE DirFile(LostNames(disk[s].table))]
  OBVIOUS
<1> PICK sh : sh = [s \in Sector |-> IF s \in Files THEN Contents(s) ELSE <<>>]
  OBVIOUS
<1>1. /\ machine = "down" /\ machine' = "up" /\ target = {} /\ disk' = e
      /\ shadow' = sh /\ UNCHANGED <<todo, handle, xfer>>
  BY DEF Restart, LostNames
<1>2. AllIdleIn(xfer) /\ Unopened(handle) /\ todo = <<>>
  BY <1>1 DEF ContentInv, FilesInv, Unopened
<1>3. PICK F0, G0 : Sound(disk, F0, G0, {}, handle, xfer)
  BY <1>1 DEF FilesInv, SoundDisk
<1>4. PICK F, G : F = FilesOn(disk) /\ Sound(disk, F, G, {}, handle, xfer)
  <2>1. Opened(handle) = {}
    BY <1>2 DEF Opened, Unopened
  <2> QED BY <1>3, <2>1, SoundTree
<1>5. Shape(disk, F, G)
  BY <1>4 DEF Sound
<1>6. Sound(e, F, G, {}, handle, xfer)
  BY <1>4, RestartDisk
<1>7. FilesOn(e) \subseteq F
  BY <1>6, FilesWithin DEF Sound
<1>8. ASSUME NEW f \in F PROVE FileExact(e, f, 0, handle, xfer, sh)
  <2>1. HeaderOK(disk, f) /\ DOMAIN disk = Sector
    BY <1>5 DEF Shape
  <2>2. AsOn(disk, e, f) /\ AsOn(disk, disk, f)
    BY <2>1, RestartText
  <2>3. f \in Sector /\ disk[f].fileType \in {0, 1}
    BY <2>1 DEF HeaderOK, Fields
  <2>4. f \in Files
    BY <1>4, FilesAre
  <2>5. sh[f] = Contents(f)
    BY <2>3, <2>4
  <2>6. /\ disk[f].fileType = 1 => sh[f] = <<>>
        /\ disk[f].fileType # 1 => sh[f] = FileBytes(disk, disk[f])
    BY <2>3, <2>5 DEF Contents
  <2> QED BY <1>2, <2>1, <2>2, <2>6, NewText
<1>9. ExactLater(e, <<>>, handle, xfer, sh)
  BY <1>2, <1>6, <1>7, <1>8, LaterNone
<1>10. HeadersOnly(todo, handle, xfer)
  BY <1>2, IdleHeaders
<1> QED BY <1>1, <1>2, <1>9, <1>10 DEF ContentInv

-----------------------------------------------------------------------------
(***************************************************************************)
(* Steps of a request that leave the disk alone.                           *)
(***************************************************************************)

\* Disk e is one that the pending writes lead to.
Coming(d, w, e, r, o, x, sh) ==
    /\ w = <<>> => r = 0
    /\ \E F, G, tg : Sound(e, F, G, tg, o, x)
    /\ Steady(d, e, o)
    /\ Exact(e, r, o, x, sh)
KeepsExact(d, w, o, x, sh, o2, x2, sh2) ==
    \A e, r : Coming(d, w, e, r, o, x, sh) => Steady(d, e, o2) /\ Exact(e, r, o2, x2, sh2)

\* A step that leaves the disk and the list of writes as they are.
LEMMA MoveContent ==
    ASSUME FilesInv, ContentInv, machine = "up", UNCHANGED <<disk, todo, machine>>,
           DOMAIN shadow' = Sector, HeadersOnly(todo, handle', xfer'), LockedReal(xfer'),
           KeepsExact(disk, todo, handle, xfer, shadow, handle', xfer', shadow')
    PROVE  ContentInv'
<1> PICK w, o2, x2, sh2 : w = todo /\ o2 = handle' /\ x2 = xfer' /\ sh2 = shadow'
  OBVIOUS
<1>1. ASSUME NEW k \in 0..Len(w), NEW e, Reaches(disk, w, k, e), NoStop(w, k)
      PROVE  Steady(disk, e, o2) /\ Exact(e, Len(w) - k, o2, x2, sh2)
  <2>1. Steady(disk, e, handle) /\ Exact(e, Len(w) - k, handle, xfer, shadow)
    BY <1>1 DEF ContentInv, ExactLater
  <2>2. \E F, G, tg : Sound(e, F, G, tg, handle, xfer)
    BY <1>1 DEF FilesInv, Safe, SoundDisk
  <2>3. w = <<>> => Len(w) - k = 0
    OBVIOUS
  <2>4. Coming(disk, w, e, Len(w) - k, handle, xfer, shadow)
    BY <2>1, <2>2, <2>3 DEF Coming
  <2> QED BY <2>4 DEF KeepsExact
<1>2. ExactLater(disk, w, o2, x2, sh2)
  BY <1>1 DEF ExactLater
<1> QED BY <1>2 DEF ContentInv

\* Only thread t moves, and has no write under way.
Aside(t, o, x, o2, x2) == \A u \in Thread : u # t => o2[u] = o[u] /\ x2[u] = x[u]
AtWrite(x, t, pc) == x[t].op = "write" /\ x[t].pc = pc

\* A step of thread t that begins or ends no write leaves the files exact.
LEMMA AsideText ==
    ASSUME NEW e, NEW r, NEW o, NEW x, NEW sh, NEW F, NEW G, NEW tg, Sound(e, F, G, tg, o, x),
           Exact(e, r, o, x, sh), NEW t \in Thread, NEW o2, NEW x2, Aside(t, o, x, o2, x2),
           ~AtWrite(x, t, "io"), ~AtWrite(x2, t, "io"), r = 0 \/ ~AtWrite(x, t, "arr_P"),
           Opened(o2) \subseteq Opened(o), NEW f \in FilesOn(e) \cup Opened(o2)
    PROVE  FileExact(e, f, r, o2, x2, sh)
<1>1. SamePending(o, x, o2, x2, f)
  BY DEF SamePending, Pending, AtWrite, Aside
<1>2. SameBeginning(r, o, x, r, o2, x2, f)
  BY DEF SameBeginning, Beginning, AtWrite, Aside
<1>3. f \in F
  BY FilesWithin DEF Sound, UsersOK, Opened
<1>4. e[f].numSectors \in Nat
  BY <1>3 DEF Sound, Shape, HeaderOK, Fields
<1>5. FileExact(e, f, r, o, x, sh)
  BY DEF Exact
<1>6. SameText(e, e, f)
  BY DEF SameText, SameData
<1> QED BY <1>1, <1>2, <1>4, <1>5, <1>6, TextKept

\* The requests of the other threads.
FewerWriters(o, x, o2, x2) ==
    \A v \in Thread : x2[v].op = "write" => x[v].op = "write" /\ o2[v] = o[v]

\* It leaves the requests of the other threads exact.
LEMMA AsideRequest ==
    ASSUME NEW e, NEW u, NEW o, NEW x, NEW sh, RequestExact(e, u, o, x, sh), NEW o2, NEW x2, NEW sh2,
           o2[u] = o[u], x2[u] = x[u], sh2[o[u]] = sh[o[u]], FewerWriters(o, x, o2, x2)
    PROVE  RequestExact(e, u, o2, x2, sh2)
<1>1. x[u].op = "write" => WriterExact(u, o[u], x[u], o2, x2, sh[o[u]])
  BY DEF RequestExact, WriterExact, FewerWriters
<1> QED BY <1>1 DEF RequestExact

\* Both together.
LEMMA AsideExact ==
    ASSUME NEW e, NEW r, NEW o, NEW x, NEW sh, NEW F, NEW G, NEW tg, Sound(e, F, G, tg, o, x),
           Exact(e, r, o, x, sh), NEW t \in Thread, NEW o2, NEW x2, Aside(t, o, x, o2, x2),
           ~AtWrite(x, t, "io"), ~AtWrite(x2, t, "io"), r = 0 \/ ~AtWrite(x, t, "arr_P"),
           Opened(o2) \subseteq Opened(o), FewerWriters(o, x, o2, x2), RequestExact(e, t, o2, x2, sh)
    PROVE  Exact(e, r, o2, x2, sh)
<1>1. \A f \in FilesOn(e) \cup Opened(o2) : FileExact(e, f, r, o2, x2, sh)
  BY AsideText
<1>2. ASSUME NEW u \in Thread PROVE RequestExact(e, u, o2, x2, sh)
  <2>1. CASE u # t
    <3>1. RequestExact(e, u, o, x, sh)
      BY DEF Exact
    <3>2. o2[u] = o[u] /\ x2[u] = x[u]
      BY <2>1 DEF Aside
    <3> QED BY <3>1, <3>2, AsideRequest
  <2> QED BY <2>1
<1> QED BY <1>1, <1>2 DEF Exact

\* It leaves the headers that are to be written.
LEMMA AsideHeaders ==
    ASSUME NEW w, NEW o, NEW x, HeadersOnly(w, o, x), NEW t, NEW o2, NEW x2, Aside(t, o, x, o2, x2),
           ~AtWrite(x, t, "arr_P") \/ (Len(w) \in Nat /\ Len(w) = 0), FewerWriters(o, x, o2, x2)
    PROVE  HeadersOnly(w, o2, x2)
<1> SUFFICES ASSUME NEW v \in Thread, x2[v].op = "write", NEW i \in 1..Len(w)
             PROVE  Beginning(o2, x2, w[i].sector)
  BY DEF HeadersOnly
<1>1. x[v].op = "write"
  BY DEF FewerWriters
<1>2. Beginning(o, x, w[i].sector)
  BY <1>1 DEF HeadersOnly
<1>3. ~AtWrite(x, t, "arr_P")
  OBVIOUS
<1> QED BY <1>2, <1>3 DEF Beginning, AtWrite, Aside

\* OpenFile::~OpenFile.
LEMMA CloseContent ==
    ASSUME FilesInv, ContentInv, NEW t \in Thread, Close(t)
    PROVE  ContentInv'
<1> PICK o2 : o2 = handle'
  OBVIOUS
<1>1. /\ machine = "up" /\ xfer[t].pc = "idle" /\ o2 = [handle EXCEPT ![t] = NoSector]
      /\ UNCHANGED <<disk, todo, machine, xfer, shadow>>
  BY DEF Close
<1>2. DOMAIN handle = Thread
  BY DEF FilesInv
<1>3. o2[t] = NoSector /\ \A u \in Thread : u # t => o2[u] = handle[u]
  BY <1>1, <1>2
<1>4. Aside(t, handle, xfer, o2, xfer)
  BY <1>3 DEF Aside
<1>5. xfer[t].op \notin {"read", "write"}
  BY <1>1, NowExact DEF Exact, RequestExact
<1>6. FewerWriters(handle, xfer, o2, xfer)
  BY <1>3, <1>5 DEF FewerWriters
<1>7. Opened(o2) \subseteq Opened(handle)
  BY <1>3 DEF Opened
<1>8. ~AtWrite(xfer, t, "io") /\ ~AtWrite(xfer, t, "arr_P")
  BY <1>5 DEF AtWrite
<1>9. ASSUME NEW e, NEW r, Coming(disk, todo, e, r, handle, xfer, shadow)
      PROVE  Steady(disk, e, o2) /\ Exact(e, r, o2, xfer, shadow)
  <2>1. PICK F, G, tg : Sound(e, F, G, tg, handle, xfer)
    BY <1>9 DEF Coming
  <2>2. Steady(disk, e, handle) /\ Exact(e, r, handle, xfer, shadow)
    BY <1>9 DEF Coming
  <2>3. Steady(disk, e, o2)
    BY <1>3, <2>2 DEF Steady
  <2>4. RequestExact(e, t, o2, xfer, shadow)
    BY <1>5 DEF RequestExact
  <2> QED BY <1>4, <1>6, <1>7, <1>8, <2>1, <2>2, <2>3, <2>4, AsideExact
<1>10. HeadersOnly(todo, o2, xfer)
  BY <1>4, <1>6, <1>8, AsideHeaders DEF ContentInv
<1>11. KeepsExact(disk, todo, handle, xfer, shadow, o2, xfer, shadow)
  BY <1>9 DEF KeepsExact
<1>12. DOMAIN shadow = Sector /\ LockedReal(xfer)
  BY DEF ContentInv
<1> QED BY <1>1, <1>10, <1>11, <1>12, MoveContent

\* The call returns.
LEMMA ReturnContent ==
    ASSUME FilesInv, TransferInv, ContentInv, NEW t \in Thread, Return(t)
    PROVE  ContentInv'
<1> PICK x2 : x2 = xfer'
  OBVIOUS
<1>1. /\ machine = "up" /\ xfer[t].pc = "done" /\ x2 = [xfer EXCEPT ![t] = NoTransfer]
      /\ UNCHANGED <<disk, todo, machine, handle, shadow>>
  BY DEF Return
<1>2. DOMAIN xfer = Thread
  BY DEF TransferInv
<1>3. x2[t] = NoTransfer /\ \A u \in Thread : u # t => x2[u] = xfer[u]
  BY <1>1, <1>2
<1>4. Aside(t, handle, xfer, handle, x2)
  BY <1>3 DEF Aside
<1>5. x2[t].op = "none"
  BY <1>3 DEF NoTransfer
<1>6. FewerWriters(handle, xfer, handle, x2)
  BY <1>3, <1>5 DEF FewerWriters
<1>8. ~AtWrite(xfer, t, "io") /\ ~AtWrite(xfer, t, "arr_P") /\ ~AtWrite(x2, t, "io")
  BY <1>1, <1>5 DEF AtWrite
<1>9. ASSUME NEW e, NEW r, Coming(disk, todo, e, r, handle, xfer, shadow)
      PROVE  Steady(disk, e, handle) /\ Exact(e, r, handle, x2, shadow)
  <2>1. PICK F, G, tg : Sound(e, F, G, tg, handle, xfer)
    BY <1>9 DEF Coming
  <2>2. Steady(disk, e, handle) /\ Exact(e, r, handle, xfer, shadow)
    BY <1>9 DEF Coming
  <2>4. RequestExact(e, t, handle, x2, shadow)
    BY <1>5 DEF RequestExact
  <2> QED BY <1>4, <1>6, <1>8, <2>1, <2>2, <2>4, AsideExact
<1>10. HeadersOnly(todo, handle, x2)
  BY <1>4, <1>6, <1>8, AsideHeaders DEF ContentInv
<1>11. KeepsExact(disk, todo, handle, xfer, shadow, handle, x2, shadow)
  BY <1>9 DEF KeepsExact
<1>12. DOMAIN shadow = Sector /\ LockedReal(x2)
  BY <1>3, <1>5 DEF ContentInv, LockedReal
<1> QED BY <1>1, <1>10, <1>11, <1>12, MoveContent

\* A request that goes on to wait for its next mutex.
SameRequest(y, z) ==
    /\ z.op = y.op /\ z.pos = y.pos /\ z.len = y.len /\ z.solo = y.solo
    /\ z.sectors = y.sectors /\ z.buf = y.buf /\ z.done = y.done

\* A request that goes on to wait for the next mutex stays exact.
LEMMA WaitExact ==
    ASSUME NEW e, NEW t \in Thread, NEW o, NEW x, NEW sh, RequestExact(e, t, o, x, sh), NEW x2,
           FewerWriters(o, x, o, x2), SameRequest(x[t], x2[t]), x[t].pc \in {"arr_P", "rw_P"},
           x2[t].pc = "rw_P"
    PROVE  RequestExact(e, t, o, x2, sh)
<1>1. x[t].op = "write" => WriterExact(t, o[t], x2[t], o, x2, sh[o[t]])
  BY DEF RequestExact, WriterExact, FewerWriters, SameRequest, PartOf
<1>2. x[t].op = "read" => ReaderExact(e, x2[t])
  BY DEF RequestExact, ReaderExact, SameRequest
<1>3. x[t].op \in {"read", "write"} => Spans(e, o[t], x2[t], sh[o[t]])
  BY DEF RequestExact, Spans, SameRequest
<1> QED BY <1>1, <1>2, <1>3 DEF RequestExact, SameRequest

\* A step of a thread that goes on to wait for the next mutex.
LEMMA WaitStep ==
    ASSUME FilesInv, TransferInv, ContentInv, machine = "up", NEW t \in Thread, NEW y,
           UNCHANGED <<disk, todo, machine, handle, shadow>>, xfer' = [xfer EXCEPT ![t] = y],
           xfer[t].pc \in {"arr_P", "rw_P"}, y.pc = "rw_P", SameRequest(xfer[t], y),
           xfer[t].pc = "arr_P" /\ xfer[t].op = "write" => todo = <<>>,
           \A j \in 1..y.locked : y.op \in {"read", "write"} => y.sectors[j] # NoSector
    PROVE  ContentInv'
<1> PICK x2 : x2 = xfer'
  OBVIOUS
<1>2. DOMAIN xfer = Thread
  BY DEF TransferInv
<1>3. x2[t] = y /\ \A u \in Thread : u # t => x2[u] = xfer[u]
  BY <1>2
<1>4. Aside(t, handle, xfer, handle, x2)
  BY <1>3 DEF Aside
<1>6. FewerWriters(handle, xfer, handle, x2)
  <2>1. y.op = xfer[t].op
    BY DEF SameRequest
  <2> QED BY <1>3, <2>1 DEF FewerWriters
<1>7. ~AtWrite(xfer, t, "io") /\ ~AtWrite(x2, t, "io")
  BY <1>3 DEF AtWrite
<1>8. ~AtWrite(xfer, t, "arr_P") \/ todo = <<>>
  BY DEF AtWrite
<1>9. ASSUME NEW e, NEW r, Coming(disk, todo, e, r, handle, xfer, shadow)
      PROVE  Steady(disk, e, handle) /\ Exact(e, r, handle, x2, shadow)
  <2>1. PICK F, G, tg : Sound(e, F, G, tg, handle, xfer)
    BY <1>9 DEF Coming
  <2>2. Steady(disk, e, handle) /\ Exact(e, r, handle, xfer, shadow)
    BY <1>9 DEF Coming
  <2>3. r = 0 \/ ~AtWrite(xfer, t, "arr_P")
    BY <1>8, <1>9 DEF Coming
  <2>4. RequestExact(e, t, handle, x2, shadow)
    <3>1. RequestExact(e, t, handle, xfer, shadow)
      BY <2>2 DEF Exact
    <3> QED BY <1>3, <1>6, <3>1, WaitExact
  <2> QED BY <1>4, <1>6, <1>7, <2>1, <2>2, <2>3, <2>4, AsideExact
<1>10. HeadersOnly(todo, handle, x2)
  BY <1>4, <1>6, <1>8, AsideHeaders DEF ContentInv
<1>11. KeepsExact(disk, todo, handle, xfer, shadow, handle, x2, shadow)
  BY <1>9 DEF KeepsExact
<1>12. DOMAIN shadow = Sector /\ LockedReal(x2)
  BY <1>3 DEF ContentInv, LockedReal
<1> QED BY <1>10, <1>11, <1>12, MoveContent

\* arr_P.
LEMMA LockArrayContent ==
    ASSUME FilesInv, TransferInv, ContentInv, NEW t \in Thread, LockArray(t)
    PROVE  ContentInv'
<1> PICK y : y = [xfer[t] EXCEPT !.pc = "rw_P"]
  OBVIOUS
<1>0. Progress(xfer[t]) /\ DOMAIN xfer = Thread
  BY DEF TransferInv
<1>1. /\ machine = "up" /\ xfer' = [xfer EXCEPT ![t] = y] /\ xfer[t].pc = "arr_P"
      /\ xfer[t].op = "write" => todo = <<>>
      /\ UNCHANGED <<disk, todo, machine, handle, shadow>>
  BY DEF LockArray
<1>2. y.pc = "rw_P" /\ y.locked = xfer[t].locked /\ SameRequest(xfer[t], y)
  BY <1>0 DEF Progress, TransferField, SameRequest
<1>3. y.locked = 0
  BY <1>0, <1>1, <1>2 DEF Progress
<1>4. \A j \in 1..y.locked : y.op \in {"read", "write"} => y.sectors[j] # NoSector
  BY <1>3
<1> QED BY <1>1, <1>2, <1>4, WaitStep

\* The sectors of a request.
LEMMA SpanBounds ==
    ASSUME NEW pos \in Nat, NEW n \in Nat \ {0}
    PROVE  /\ First(pos) \in Nat /\ Last(pos, n) \in Nat
           /\ First(pos) <= Last(pos, n)
           /\ \A k \in pos + 1..pos + n : IndexOf(k) - First(pos) \in 1..Last(pos, n) - First(pos) + 1
           /\ \A bytes \in Nat, N \in Nat :
                 pos + n <= bytes /\ divRoundUp(bytes, SectorSize) <= N => Last(pos, n) < N
<1> PICK b : b = SectorSize
  OBVIOUS
<1>0. b \in Int /\ b > 0 /\ b \in Nat
  BY SizesAssumption
<1>1. First(pos) \in Nat
  <2>1. pos \div b \in Int
    BY <1>0
  <2>2. ((pos + 1) - 1) \div b + 1 \in 1..divRoundUp(pos + 1, b)
    BY <1>0, PartIndex
  <2>3. (pos + 1) - 1 = pos
    OBVIOUS
  <2>4. pos \div b + 1 >= 1
    BY <2>1, <2>2, <2>3
  <2> QED BY <2>1, <2>4 DEF First
<1>2. ASSUME NEW k \in pos + 1..pos + n
      PROVE  /\ IndexOf(k) \in Int /\ First(pos) + 1 <= IndexOf(k) /\ IndexOf(k) <= Last(pos, n) + 1
             /\ Last(pos, n) \in Int
  <2>1. k - 1 \in Int /\ pos <= k - 1 /\ k - 1 <= pos + n - 1 /\ pos + n - 1 \in Int
    OBVIOUS
  <2>2. pos \div b <= (k - 1) \div b /\ (k - 1) \div b <= (pos + n - 1) \div b
    BY <1>0, <2>1, DivMonotone
  <2>3. (k - 1) \div b \in Int /\ (pos + n - 1) \div b \in Int /\ pos \div b \in Int
    BY <1>0, <2>1
  <2>4. /\ IndexOf(k) = (k - 1) \div b + 1 /\ First(pos) = pos \div b
        /\ Last(pos, n) = (pos + n - 1) \div b
    BY DEF IndexOf, First, Last
  <2> QED BY <2>2, <2>3, <2>4
<1>3. Last(pos, n) \in Nat /\ First(pos) <= Last(pos, n)
  <2>1. pos + 1 \in pos + 1..pos + n
    OBVIOUS
  <2> QED BY <1>1, <1>2, <2>1
<1>4. ASSUME NEW bytes \in Nat, NEW N \in Nat, pos + n <= bytes, divRoundUp(bytes, SectorSize) <= N
      PROVE  Last(pos, n) < N
  <2>1. pos + n \in 1..bytes
    BY <1>4
  <2>2. IndexOf(pos + n) \in 1..N
    BY <1>4, <2>1, ByteInside
  <2>3. IndexOf(pos + n) = Last(pos, n) + 1
    BY DEF IndexOf, Last
  <2> QED BY <1>3, <2>2, <2>3
<1> QED BY <1>1, <1>2, <1>3, <1>4

\* The sectors that ReadAt and WriteAt compute are those of the bytes they are given.
LEMMA SpanSectors ==
    ASSUME NEW d, NEW h, HeaderOK(d, h), NEW m, \A s \in Sector : m[s] = d[s],
           NEW hdr, hdr.primaryIndexTable = d[h].primaryIndexTable,
           NEW pos \in Nat, NEW n \in Nat \ {0}, NEW bytes \in Nat, pos + n <= bytes,
           divRoundUp(bytes, SectorSize) <= d[h].numSectors, NEW e, SameLayout(d, e, h)
    PROVE  /\ Len(Sectors(m, hdr, pos, n)) = Last(pos, n) - First(pos) + 1
           /\ \A j \in 1..Len(Sectors(m, hdr, pos, n)) :
                 Sectors(m, hdr, pos, n)[j] = DataSector(e, e[h], First(pos) + j)
<1> PICK first \in Nat : first = First(pos)
  BY SpanBounds
<1> PICK last \in Nat : last = Last(pos, n)
  BY SpanBounds
<1>0. d[h].numSectors \in Nat
  BY DEF HeaderOK, Fields
<1>1. first <= last /\ last < d[h].numSectors
  BY <1>0, SpanBounds
<1> PICK l \in Nat : l = last - first + 1
  BY <1>1
<1> PICK sec : sec = Sectors(m, hdr, pos, n)
  OBVIOUS
<1>2. sec = [i \in 1..l |-> DataSector(m, hdr, first + i)]
  BY DEF Sectors
<1>3. Len(sec) = l
  <2> PICK S : S = {sec[i] : i \in 1..l}
    OBVIOUS
  <2>1. sec \in [1..l -> S]
    BY <1>2
  <2> QED BY <2>1, IsASeq, LenProperties
<1>4. ASSUME NEW j \in 1..l PROVE sec[j] = DataSector(e, e[h], first + j)
  <2> PICK i \in 1..d[h].numSectors : i = first + j
    BY <1>0, <1>1
  <2> PICK k : k = ((i - 1) \div IndexSize) + 1
    OBVIOUS
  <2>2. k \in 1..NumTables(d[h].numSectors)
    BY <1>0, TableIndex
  <2>3. d[h].primaryIndexTable[k] \in Tables(d[h])
    BY <2>2 DEF Tables
  <2>4. d[h].primaryIndexTable[k] \in Sector
    BY <2>3 DEF HeaderOK
  <2>5. DataSector(m, hdr, i) = DataSector(d, d[h], i)
    BY <2>4 DEF DataSector
  <2>6. DataSector(e, e[h], i) = DataSector(d, d[h], i)
    BY <1>0, LayoutKept
  <2> QED BY <1>2, <2>5, <2>6
<1> QED BY <1>3, <1>4

\* The length of a file that is on the disk is at most the one it ought to have.
LEMMA SizeNow ==
    ASSUME FilesInv, ContentInv, machine = "up", NEW h \in Opened(handle), disk[h].fileType = 0
    PROVE  \E n \in Nat : /\ DOMAIN shadow[h] = 1..n /\ disk[h].numBytes <= n
                          /\ divRoundUp(n, SectorSize) <= disk[h].numSectors
<1>1. FileExact(disk, h, Len(todo), handle, xfer, shadow)
  BY NowExact DEF Exact
<1>2. PICK n : BytesExact(disk, h, n, Len(todo), handle, xfer, shadow[h])
  BY <1>1 DEF FileExact
<1>3. /\ n \in Nat /\ shadow[h] = [i \in 1..n |-> shadow[h][i]] /\ disk[h].numBytes <= n
      /\ divRoundUp(n, SectorSize) <= disk[h].numSectors
  BY <1>2 DEF BytesExact
<1>4. DOMAIN shadow[h] = 1..n
  BY <1>3
<1> QED BY <1>3, <1>4

\* The header of a file that a thread has open.
LEMMA OpenHeader ==
    ASSUME FilesInv, machine = "up", NEW t \in Thread, handle[t] # NoSector
    PROVE  HeaderOK(disk, handle[t])
<1>1. PICK F, G : Sound(disk, F, G, target, handle, xfer)
  BY DEF FilesInv, SoundDisk
<1>2. handle[t] \in F
  BY <1>1 DEF Sound, UsersOK
<1> QED BY <1>1, <1>2 DEF Sound, Shape

\* A request to read.
Reads(pos, len, sectors) ==
    [NoTransfer EXCEPT !.pc = "arr_P", !.op = "read", !.pos = pos, !.len = len, !.sectors = sectors]

\* The request of ReadAt.
LEMMA ReadsFields ==
    ASSUME NEW pos, NEW len, NEW sectors, NEW y, y = Reads(pos, len, sectors)
    PROVE  /\ y.pc = "arr_P" /\ y.op = "read" /\ y.pos = pos /\ y.len = len /\ y.sectors = sectors
           /\ y.done = 0 /\ y.buf = <<>> /\ y.locked = 0
  BY DEF Reads, NoTransfer

\* OpenFile::ReadAt begins.
LEMMA ReadAtContent ==
    ASSUME FilesInv, TransferInv, ContentInv, NEW t \in Thread, NEW pos \in Nat, NEW n \in Nat \ {0},
           ReadAt(t, pos, n)
    PROVE  ContentInv'
<1> PICK x2 : x2 = xfer'
  OBVIOUS
<1> PICK h : h = handle[t]
  OBVIOUS
<1> PICK hdr : hdr = disk[h]
  OBVIOUS
<1> PICK len : len = IF pos + n > hdr.numBytes THEN hdr.numBytes - pos ELSE n
  OBVIOUS
<1> PICK sec : sec = Sectors(disk, hdr, pos, len)
  OBVIOUS
<1> PICK y : y = Reads(pos, len, sec)
  OBVIOUS
<1>1. /\ machine = "up" /\ xfer[t].pc = "idle" /\ h # NoSector /\ hdr.fileType = 0
      /\ pos < hdr.numBytes /\ x2 = [xfer EXCEPT ![t] = y]
      /\ UNCHANGED <<disk, todo, machine, handle, shadow>>
  BY DEF ReadAt, CanStart, Reads
<1>2. DOMAIN xfer = Thread
  BY DEF TransferInv
<1>3. x2[t] = y /\ \A u \in Thread : u # t => x2[u] = xfer[u]
  BY <1>1, <1>2
<1>4. Aside(t, handle, xfer, handle, x2)
  BY <1>3 DEF Aside
<1>5. /\ y.pc = "arr_P" /\ y.op = "read" /\ y.pos = pos /\ y.len = len /\ y.sectors = sec
      /\ y.done = 0 /\ y.buf = <<>> /\ y.locked = 0
  BY ReadsFields
<1>6. FewerWriters(handle, xfer, handle, x2)
  BY <1>3, <1>5 DEF FewerWriters
<1>7. ~AtWrite(xfer, t, "io") /\ ~AtWrite(xfer, t, "arr_P") /\ ~AtWrite(x2, t, "io")
  BY <1>1, <1>3, <1>5 DEF AtWrite
<1>8. HeaderOK(disk, h) /\ hdr.numBytes \in Nat
  BY <1>1, OpenHeader DEF HeaderOK, Fields
<1>12. len \in Nat \ {0} /\ pos + len <= hdr.numBytes
  BY <1>1, <1>8
<1>13. PICK nn \in Nat : /\ DOMAIN shadow[h] = 1..nn /\ disk[h].numBytes <= nn
                         /\ divRoundUp(nn, SectorSize) <= disk[h].numSectors
  BY <1>1, SizeNow DEF Opened
<1>14. pos + len \in Nat /\ pos + len <= nn /\ pos + len \in DOMAIN shadow[h]
  BY <1>8, <1>12, <1>13
<1>9. ASSUME NEW e, NEW r, Coming(disk, todo, e, r, handle, xfer, shadow)
      PROVE  Steady(disk, e, handle) /\ Exact(e, r, handle, x2, shadow)
  <2>1. PICK F, G, tg : Sound(e, F, G, tg, handle, xfer)
    BY <1>9 DEF Coming
  <2>2. Steady(disk, e, handle) /\ Exact(e, r, handle, xfer, shadow)
    BY <1>9 DEF Coming
  <2>3. SameLayout(disk, e, h) /\ e[h].fileType = 0
    BY <1>1, <2>2 DEF Steady
  <2>4. /\ Len(sec) = Last(pos, len) - First(pos) + 1
        /\ \A j \in 1..Len(sec) : sec[j] = DataSector(e, e[h], First(pos) + j)
    <3>1. \A s \in Sector : disk[s] = disk[s]
      OBVIOUS
    <3>2. HeaderOK(disk, h) /\ hdr.primaryIndexTable = disk[h].primaryIndexTable /\ SameLayout(disk, e, h)
      BY <1>8, <2>3
    <3>3. pos \in Nat /\ len \in Nat \ {0} /\ nn \in Nat /\ pos + len <= nn
          /\ divRoundUp(nn, SectorSize) <= disk[h].numSectors
      BY <1>12, <1>13, <1>14
    <3>4. sec = Sectors(disk, hdr, pos, len)
      OBVIOUS
    <3> QED BY ONLY <3>1, <3>2, <3>3, <3>4, SpanSectors
  <2>5. Spans(e, h, y, shadow[h])
    <3>1. y.pos \in Nat /\ y.len \in Nat \ {0} /\ y.pos + y.len \in DOMAIN shadow[h]
      BY <1>5, <1>12, <1>14
    <3>2. Len(y.sectors) = Last(y.pos, y.len) - First(y.pos) + 1
      BY <1>5, <2>4
    <3>3. \A j \in 1..Len(y.sectors) : y.sectors[j] = DataSector(e, e[h], First(y.pos) + j)
      BY <1>5, <2>4
    <3> QED BY <3>1, <3>2, <3>3 DEF Spans
  <2>6. ReaderExact(e, y)
    <3>1. <<>> = [i \in 1..0 |-> y.buf[i]]
      OBVIOUS
    <3>2. y.buf = [i \in 1..y.done |-> y.buf[i]] /\ y.pc \notin {"io", "done"}
      BY <1>5, <3>1
    <3> QED BY <3>2 DEF ReaderExact
  <2>7. RequestExact(e, t, handle, x2, shadow)
    BY <1>1, <1>3, <1>5, <2>3, <2>5, <2>6 DEF RequestExact
  <2> QED BY <1>4, <1>6, <1>7, <2>1, <2>2, <2>7, AsideExact
<1>10. HeadersOnly(todo, handle, x2)
  BY <1>4, <1>6, <1>7, AsideHeaders DEF ContentInv
<1>11. KeepsExact(disk, todo, handle, xfer, shadow, handle, x2, shadow)
  BY <1>9 DEF KeepsExact
<1>15. DOMAIN shadow = Sector /\ LockedReal(x2)
  BY <1>3, <1>5 DEF ContentInv, LockedReal
<1> QED BY <1>1, <1>10, <1>11, <1>15, MoveContent

\* ReadAt begins: its sectors are those of the bytes it was asked for.
LEMMA ReadContent ==
    ASSUME FilesInv, TransferInv, ContentInv, NEW t \in Thread, ReadFile(t)
    PROVE  ContentInv'
<1>1. PICK r \in ClientRequest : ReadAt(t, r[1], r[2])
  BY DEF ReadFile
<1>2. r[1] \in Nat /\ r[2] \in Nat \ {0}
  BY <1>1, RequestAssumption
<1> QED BY <1>1, <1>2, ReadAtContent

-----------------------------------------------------------------------------
(***************************************************************************)
(* A request holds all of its mutexes.                                     *)
(***************************************************************************)
HeldIn(x, t) == {x[t].sectors[j] : j \in x[t].done + 1..x[t].locked}
HoldsAlone(x) ==
    /\ \A t \in Thread : Progress(x[t]) /\ LockedOnce(x[t])
    /\ \A t, u \in Thread, s \in Sector : s \in HeldIn(x, t) /\ s \in HeldIn(x, u) => t = u

\* No other thread has a sector that is being transferred.
LEMMA OnlyHolder ==
    ASSUME NEW x, HoldsAlone(x), NEW t \in Thread, x[t].pc = "io",
           NEW j \in x[t].done + 1..Len(x[t].sectors), x[t].sectors[j] \in Sector,
           NEW o, NEW f, NEW u, NEW i, Pending(o, x, f, x[t].sectors[j], u, i)
    PROVE  u = t /\ i = j
<1>1. /\ u \in Thread /\ x[u].pc = "io" /\ i \in x[u].done + 1..Len(x[u].sectors)
      /\ x[u].sectors[i] = x[t].sectors[j]
  BY DEF Pending
<1>2. x[u].locked = Len(x[u].sectors) /\ x[t].locked = Len(x[t].sectors)
  BY <1>1 DEF HoldsAlone, Progress
<1>3. x[t].sectors[j] \in HeldIn(x, t) /\ x[t].sectors[j] \in HeldIn(x, u)
  BY <1>1, <1>2 DEF HeldIn
<1>4. u = t
  BY <1>1, <1>3 DEF HoldsAlone
<1> QED BY <1>1, <1>2, <1>4 DEF HoldsAlone, LockedOnce

\* A request that covers whole sectors.
LEMMA AlignedPart ==
    ASSUME NEW pos \in Nat, NEW len \in Nat \ {0}, pos % SectorSize = 0, len % SectorSize = 0,
           NEW k \in Nat \ {0}, IndexOf(k) - First(pos) \in 1..Last(pos, len) - First(pos) + 1
    PROVE  k > pos /\ k <= pos + len
<1> PICK b \in Int : b = SectorSize /\ b > 0
  BY SizesAssumption
<1> PICK a \in Int : a = pos \div b
  BY DivMod
<1> PICK c \in Int : c = len \div b
  BY DivMod
<1> PICK q \in Int : q = (k - 1) \div b
  BY DivMod
<1> PICK r \in 0..b - 1 : r = (k - 1) % b
  BY DivMod
<1>1. pos = b * a /\ len = b * c /\ k - 1 = b * q + r
  <2>1. pos = b * a + (pos % b) /\ len = b * c + (len % b) /\ k - 1 = b * q + r
    BY DivMod
  <2>2. b * a \in Int /\ b * c \in Int
    OBVIOUS
  <2> QED BY <2>1, <2>2
<1>2. Last(pos, len) = a + c - 1
  <2>1. b * (a + c - 1) = b * a + b * c - b
    OBVIOUS
  <2>2. b * a \in Int /\ b * c \in Int /\ a + c - 1 \in Int /\ b - 1 \in 0..b - 1
    OBVIOUS
  <2>3. pos + len - 1 = b * (a + c - 1) + (b - 1)
    BY <1>1, <2>1, <2>2
  <2>4. (b * (a + c - 1) + (b - 1)) \div b = a + c - 1
    BY <2>2, DivModUnique
  <2> QED BY <2>3, <2>4 DEF Last
<1>3. a <= q /\ q <= a + c - 1
  <2>1. IndexOf(k) = q + 1 /\ First(pos) = a
    BY DEF IndexOf, First
  <2> QED BY <1>2, <2>1
<1>4. b * a \in Int /\ b * c \in Int /\ b * q \in Int /\ b * (a + c) = b * a + b * c
      /\ b * (q + 1) = b * q + b
  OBVIOUS
<1>5. b * a <= b * q /\ b * (q + 1) <= b * (a + c)
  <2>1. ~(b * q < b * a) /\ ~(b * (a + c) < b * (q + 1))
    BY <1>3, Multiples
  <2> QED BY <1>4, <2>1
<1> QED BY <1>1, <1>4, <1>5

\* Byte k is in the part PartOf(y, k) of a request.
LEMMA PartPlace ==
    ASSUME NEW e, NEW f, NEW y, NEW bytes, Spans(e, f, y, bytes), NEW k \in Nat \ {0},
           PartOf(y, k) \in 1..Len(y.sectors)
    PROVE  y.sectors[PartOf(y, k)] = PlaceOf(e, f, k)
<1>1. y.sectors[PartOf(y, k)] = DataSector(e, e[f], First(y.pos) + PartOf(y, k))
  BY DEF Spans
<1>2. First(y.pos) \in Nat /\ IndexOf(k) \in Int
  <2>1. y.pos \in Nat /\ y.len \in Nat \ {0}
    BY DEF Spans
  <2>2. IndexOf(k) \in Int
    BY SizesAssumption DEF IndexOf
  <2> QED BY <2>1, <2>2, SpanBounds
<1>3. First(y.pos) + PartOf(y, k) = IndexOf(k)
  BY <1>2 DEF PartOf
<1> QED BY <1>1, <1>3 DEF PlaceOf

\* The bytes of a request are in its parts.
LEMMA PartWithin ==
    ASSUME NEW e, NEW f, NEW y, NEW bytes, Spans(e, f, y, bytes), NEW k \in y.pos + 1..y.pos + y.len
    PROVE  PartOf(y, k) \in 1..Len(y.sectors)
<1>1. /\ y.pos \in Nat /\ y.len \in Nat \ {0}
      /\ Len(y.sectors) = Last(y.pos, y.len) - First(y.pos) + 1
  BY DEF Spans
<1> QED BY <1>1, SpanBounds DEF PartOf

\* An element of a part of a sequence.
LEMMA SliceAt ==
    ASSUME NEW b, NEW n \in Nat, b = [i \in 1..n |-> b[i]], NEW p \in Nat, NEW l \in Nat, p + l <= n,
           NEW k \in 1..l
    PROVE  SubSeq(b, p + 1, p + l)[k] = b[p + k]
<1> PICK S : S = {b[i] : i \in 1..n}
  OBVIOUS
<1>1. b \in [1..n -> S]
  <2>1. \A i \in 1..n : b[i] \in S
    OBVIOUS
  <2>2. DOMAIN b = 1..n
    OBVIOUS
  <2> QED BY <2>1, <2>2
<1>2. b \in Seq(S)
  BY ONLY <1>1, n \in Nat, SeqDef
<1>3. Len(b) = n
  BY ONLY <1>1, <1>2, n \in Nat, LenProperties
<1>4. /\ p + 1 \in Int /\ p + l \in Int /\ 1 <= p + 1 /\ p + l <= Len(b)
      /\ k \in 1..(p + l) - (p + 1) + 1 /\ (p + 1) + k - 1 = p + k
  BY <1>3
<1>5. SubSeq(b, p + 1, p + l)[k] = b[(p + 1) + k - 1]
  BY ONLY <1>2, <1>4, SubSeqAt
<1> QED BY <1>4, <1>5

\* A read that holds all of its mutexes.
LEMMA LockedReader ==
    ASSUME NEW e, NEW r, NEW o, NEW x, NEW sh, NEW F, NEW G, NEW tg, Sound(e, F, G, tg, o, x),
           Exact(e, r, o, x, sh), NEW t \in Thread, NEW x2, Aside(t, o, x, o, x2), HoldsAlone(x2),
           x[t].op = "read", SameRequest(x[t], x2[t]), x[t].pc = "rw_P", x2[t].pc = "io", x2[t].done = 0,
           LockedReal(x2), x2[t].want = SubSeq(sh[o[t]], x[t].pos + 1, x[t].pos + x[t].len)
    PROVE  RequestExact(e, t, o, x2, sh)
<1> PICK h : h = o[t]
  OBVIOUS
<1> PICK y : y = x2[t]
  OBVIOUS
<1>1. RequestExact(e, t, o, x, sh)
  BY DEF Exact
<1>2. o[t] # NoSector /\ e[h].fileType = 0 /\ Spans(e, h, x[t], sh[h]) /\ ReaderExact(e, x[t])
  BY <1>1 DEF RequestExact
<1>3. Spans(e, h, y, sh[h]) /\ y.op = "read" /\ y.pc = "io" /\ y.done = 0 /\ y.buf = x[t].buf
      /\ x[t].done = 0 /\ x[t].pos = y.pos /\ x[t].len = y.len
  BY <1>2 DEF SameRequest, Spans
<1>4. h \in F /\ HeaderOK(e, h)
  BY <1>2 DEF Sound, UsersOK, Shape
<1>5. PICK n : BytesExact(e, h, n, r, o, x, sh[h])
  <2>1. FileExact(e, h, r, o, x, sh)
    BY <1>2 DEF Exact, Opened
  <2> QED BY <1>2, <2>1 DEF FileExact
<1>6. /\ n \in Nat /\ sh[h] = [i \in 1..n |-> sh[h][i]] /\ divRoundUp(n, SectorSize) <= e[h].numSectors
      /\ \A i \in 1..n : ByteExact(e, h, i, sh[h][i], o, x)
  BY <1>5 DEF BytesExact
<1>7. y.pos \in Nat /\ y.len \in Nat \ {0} /\ y.pos + y.len <= n
  <2>1. y.pos \in Nat /\ y.len \in Nat \ {0} /\ y.pos + y.len \in DOMAIN sh[h]
    BY <1>3 DEF Spans
  <2>2. DOMAIN sh[h] = 1..n
    BY <1>6
  <2> QED BY <1>6, <2>1, <2>2
<1>8. ASSUME NEW k \in 1..y.len
      PROVE  /\ PartOf(y, y.pos + k) > y.done
             /\ BytesAt(e, y.sectors[PartOf(y, y.pos + k)])[OffsetOf(y.pos + k)] = y.want[k]
  <2>0. /\ y.pos + k \in Nat \ {0} /\ y.pos + k \in y.pos + 1..y.pos + y.len
        /\ y.pos + k \in 1..n
    BY <1>6, <1>7
  <2> PICK m \in Nat \ {0} : m = y.pos + k /\ m \in y.pos + 1..y.pos + y.len /\ m \in 1..n
    BY <2>0
  <2> PICK j : j = PartOf(y, m)
    OBVIOUS
  <2>1. j \in 1..Len(y.sectors)
    BY <1>3, PartWithin
  <2>2. y.sectors[j] = PlaceOf(e, h, m)
    BY <1>3, <2>1, PartPlace
  <2>3. y.sectors[j] \in Sector
    <3>1. j \in 1..y.locked
      BY <1>3, <2>1 DEF HoldsAlone, Progress
    <3>2. y.sectors[j] # NoSector
      BY <1>3, <3>1 DEF LockedReal
    <3>3. IndexOf(m) \in 1..e[h].numSectors
      <4>1. e[h].numSectors \in Nat
        BY <1>4 DEF HeaderOK, Fields
      <4> QED BY <1>6, <4>1, ByteInside
    <3> QED BY <1>4, <2>2, <3>2, <3>3 DEF PlaceOf, HeaderOK
  <2>4. NonePending(o, x, h, y.sectors[j])
    <3> SUFFICES ASSUME NEW u, NEW i, Pending(o, x, h, y.sectors[j], u, i) PROVE FALSE
      BY DEF NonePending
    <3>1. u # t /\ u \in Thread
      BY DEF Pending
    <3>2. x2[u] = x[u]
      BY <3>1 DEF Aside
    <3>3. Pending(o, x2, h, y.sectors[j], u, i)
      BY <3>2 DEF Pending
    <3>4. j \in x2[t].done + 1..Len(x2[t].sectors) /\ x2[t].sectors[j] \in Sector
      BY <1>3, <2>1, <2>3
    <3>5. Pending(o, x2, h, x2[t].sectors[j], u, i)
      BY <3>3
    <3>6. HoldsAlone(x2) /\ t \in Thread /\ x2[t].pc = "io"
      OBVIOUS
    <3>7. u = t
      BY ONLY <3>4, <3>5, <3>6, OnlyHolder
    <3> QED BY <3>1, <3>7
  <2>5. ByteExact(e, h, m, sh[h][m], o, x)
    BY <1>6
  <2>6. sh[h][m] = BytesAt(e, y.sectors[j])[OffsetOf(m)]
    BY <2>2, <2>4, <2>5 DEF ByteExact
  <2>7. y.want[k] = sh[h][m]
    <3>1. y.want = SubSeq(sh[h], y.pos + 1, y.pos + y.len)
      BY <1>3
    <3>2. SubSeq(sh[h], y.pos + 1, y.pos + y.len)[k] = sh[h][y.pos + k]
      <4>1. n \in Nat /\ sh[h] = [i \in 1..n |-> sh[h][i]]
        BY <1>6
      <4>2. y.pos \in Nat /\ y.len \in Nat /\ y.pos + y.len <= n /\ k \in 1..y.len
        BY <1>7
      <4> QED BY ONLY <4>1, <4>2, SliceAt, SMTT(30)
    <3> QED BY <3>1, <3>2
  <2> QED BY <1>3, <2>1, <2>6, <2>7
<1>9. ReaderExact(e, y)
  <2>1. y.buf = [i \in 1..y.done |-> y.buf[i]]
    BY <1>2, <1>3 DEF ReaderExact
  <2>2. ASSUME NEW k \in 1..y.len PROVE ~(PartOf(y, y.pos + k) <= y.done)
    <3>1. PartOf(y, y.pos + k) \in Int
      <4>1. First(y.pos) \in Nat
        BY <1>7, SpanBounds
      <4> PICK m \in Int : m = y.pos + k
        BY <1>7
      <4>2. IndexOf(m) \in Int
        BY SizesAssumption DEF IndexOf
      <4> QED BY <4>1, <4>2 DEF PartOf
    <3> QED BY <1>3, <1>8, <3>1
  <2> QED BY <1>8, <2>1, <2>2 DEF ReaderExact
<1> QED BY <1>2, <1>3, <1>9 DEF RequestExact

\* The bytes of a file after a write.
LEMMA OverwriteAt ==
    ASSUME NEW b, NEW n \in Nat, b = [i \in 1..n |-> b[i]], NEW pos, NEW len, NEW t
    PROVE  /\ Overwrite(b, pos, len, t) =
                 [i \in 1..n |-> IF i > pos /\ i <= pos + len THEN t ELSE b[i]]
           /\ DOMAIN Overwrite(b, pos, len, t) = DOMAIN b
<1> PICK S : S = {b[i] : i \in 1..n}
  OBVIOUS
<1>1. b \in [1..n -> S]
  OBVIOUS
<1>2. Len(b) = n
  BY <1>1, IsASeq, LenProperties
<1>3. DOMAIN b = 1..n
  BY <1>1
<1> QED BY <1>2, <1>3 DEF Overwrite

\* A write that holds all of its mutexes: thread t, and the file that it writes to.
LockedWrite(e, r, o, x, sh, t, x2) ==
    /\ \E F, G, tg : Sound(e, F, G, tg, o, x)
    /\ Exact(e, r, o, x, sh)
    /\ Aside(t, o, x, o, x2)
    /\ HoldsAlone(x2) /\ LockedReal(x2)
    /\ x[t].op = "write" /\ x[t].pc = "rw_P" /\ SameRequest(x[t], x2[t])
    /\ x2[t].pc = "io" /\ x2[t].done = 0
LockedAt(e, o, x, sh, t, x2) ==
    /\ o[t] # NoSector /\ e[o[t]].fileType = 0 /\ HeaderOK(e, o[t])
    /\ Spans(e, o[t], x2[t], sh[o[t]]) /\ WriterExact(t, o[t], x[t], o, x, sh[o[t]])
    /\ x2[t].op = "write" /\ x2[t].pc = "io" /\ x2[t].done = 0
    /\ SameRequest(x[t], x2[t])
    /\ \A j \in 1..Len(x2[t].sectors) : x2[t].sectors[j] # NoSector

\* A writer that has all its mutexes has real sectors, those of its bytes.
LEMMA LockedSectors ==
    ASSUME NEW e, NEW r, NEW o, NEW x, NEW sh, NEW t \in Thread, NEW x2,
           LockedWrite(e, r, o, x, sh, t, x2)
    PROVE  LockedAt(e, o, x, sh, t, x2)
<1>0. /\ Exact(e, r, o, x, sh) /\ HoldsAlone(x2) /\ LockedReal(x2)
      /\ x[t].op = "write" /\ x[t].pc = "rw_P" /\ SameRequest(x[t], x2[t])
      /\ x2[t].pc = "io" /\ x2[t].done = 0
  BY DEF LockedWrite
<1>1. RequestExact(e, t, o, x, sh)
  BY <1>0 DEF Exact
<1>2. /\ o[t] # NoSector /\ e[o[t]].fileType = 0 /\ Spans(e, o[t], x[t], sh[o[t]])
      /\ WriterExact(t, o[t], x[t], o, x, sh[o[t]])
  BY <1>0, <1>1 DEF RequestExact
<1>3. Spans(e, o[t], x2[t], sh[o[t]]) /\ x2[t].op = "write"
  BY <1>0, <1>2 DEF SameRequest, Spans
<1>4. HeaderOK(e, o[t])
  <2>1. PICK F, G, tg : Sound(e, F, G, tg, o, x)
    BY DEF LockedWrite
  <2>2. o[t] \in F
    BY <1>2, <2>1 DEF Sound, UsersOK
  <2> QED BY <2>1, <2>2 DEF Sound, Shape
<1>5. x2[t].locked = Len(x2[t].sectors)
  BY <1>0 DEF HoldsAlone, Progress
<1>6. \A j \in 1..Len(x2[t].sectors) : x2[t].sectors[j] # NoSector
  BY <1>0, <1>3, <1>5 DEF LockedReal
<1> QED BY <1>0, <1>2, <1>3, <1>4, <1>6 DEF LockedAt

\* Each byte of the file is what the thread is going to write, or what it was.
LEMMA LockedByte ==
    ASSUME NEW e, NEW r, NEW o, NEW x, NEW sh, NEW t \in Thread, NEW x2,
           LockedWrite(e, r, o, x, sh, t, x2), NEW n \in Nat, DOMAIN sh[o[t]] = 1..n,
           divRoundUp(n, SectorSize) <= e[o[t]].numSectors,
           NEW i \in 1..n, ByteExact(e, o[t], i, sh[o[t]][i], o, x), NEW c,
           c = IF i > x[t].pos /\ i <= x[t].pos + x[t].len THEN t ELSE sh[o[t]][i]
    PROVE  ByteExact(e, o[t], i, c, o, x2)
<1> PICK h : h = o[t]
  OBVIOUS
<1> PICK y : y = x2[t]
  OBVIOUS
<1> PICK p : p = PlaceOf(e, h, i)
  OBVIOUS
<1>1. /\ e[h].fileType = 0 /\ HeaderOK(e, h) /\ Spans(e, h, y, sh[h])
      /\ WriterExact(t, h, x[t], o, x, sh[h]) /\ y.op = "write" /\ y.pc = "io" /\ y.done = 0
      /\ y.buf = x[t].buf /\ y.pos = x[t].pos /\ y.len = x[t].len /\ y.sectors = x[t].sectors
      /\ \A j \in 1..Len(y.sectors) : y.sectors[j] # NoSector
  BY LockedSectors DEF LockedAt, SameRequest
<1>2. Aside(t, o, x, o, x2) /\ HoldsAlone(x2) /\ x[t].pc = "rw_P"
  BY DEF LockedWrite
<1>3. IndexOf(i) \in 1..e[h].numSectors /\ e[h].numSectors \in Nat
  <2>1. e[h].numSectors \in Nat
    BY <1>1 DEF HeaderOK, Fields
  <2> QED BY <2>1, ByteInside
<1>4. i \in Nat \ {0}
  OBVIOUS
<1>5. CASE PartOf(y, i) \in 1..Len(y.sectors)
  <2> PICK j : j = PartOf(y, i)
    OBVIOUS
  <2>1. y.sectors[j] = p /\ j \in 1..Len(y.sectors)
    BY <1>1, <1>4, <1>5, PartPlace
  <2>2. p \in Sector
    BY <1>1, <1>3, <2>1 DEF PlaceOf, HeaderOK
  <2>3. y.buf[j][OffsetOf(i)] = c
    <3>1. PartOf(x[t], i) = j
      BY <1>1 DEF PartOf
    <3>2. i \in DOMAIN sh[h] /\ PartOf(x[t], i) \in 1..Len(x[t].sectors)
      BY <1>1, <2>1, <3>1
    <3> QED BY <1>1, <1>2, <3>1, <3>2 DEF WriterExact
  <2>4. Pending(o, x2, h, p, t, j)
    BY <1>1, <2>1 DEF Pending
  <2>5. ASSUME NEW u, NEW l, Pending(o, x2, h, p, u, l) PROVE u = t /\ l = j
    <3>1. /\ HoldsAlone(x2) /\ t \in Thread /\ x2[t].pc = "io" /\ x2[t].sectors[j] \in Sector
          /\ j \in x2[t].done + 1..Len(x2[t].sectors)
          /\ Pending(o, x2, h, x2[t].sectors[j], u, l)
      BY <1>1, <1>2, <2>1, <2>2, <2>5
    <3> QED BY ONLY <3>1, OnlyHolder
  <2>6. ~NonePending(o, x2, h, p)
    BY <2>4 DEF NonePending
  <2>7. \A u, l : Pending(o, x2, h, p, u, l) => c = x2[u].buf[l][OffsetOf(i)]
    BY <2>3, <2>5
  <2> QED BY <2>6, <2>7 DEF ByteExact
<1>6. CASE PartOf(y, i) \notin 1..Len(y.sectors)
  <2>1. c = sh[h][i]
    <3>1. y.pos \in Nat /\ y.len \in Nat
      BY <1>1 DEF Spans
    <3>2. i \notin y.pos + 1..y.pos + y.len
      BY <1>1, <1>6, PartWithin
    <3>3. ~(i > x[t].pos /\ i <= x[t].pos + x[t].len)
      BY <1>1, <1>4, <3>1, <3>2
    <3> QED BY <3>3
  <2>2. ASSUME NEW l, Pending(o, x2, h, p, t, l) PROVE FALSE
    <3>1. l \in 1..Len(y.sectors) /\ y.sectors[l] = p
      BY <1>1, <2>2 DEF Pending
    <3>2. y.sectors[l] = DataSector(e, e[h], First(y.pos) + l) /\ y.sectors[l] # NoSector
      BY <1>1, <3>1 DEF Spans
    <3>3. First(y.pos) + l \in 1..e[h].numSectors /\ First(y.pos) \in Nat /\ l \in Nat
      <4>1. /\ y.pos \in Nat /\ y.len \in Nat \ {0} /\ y.pos + y.len \in 1..n
            /\ Len(y.sectors) = Last(y.pos, y.len) - First(y.pos) + 1
        BY <1>1 DEF Spans
      <4>2. First(y.pos) \in Nat /\ Last(y.pos, y.len) \in Nat
        BY <4>1, SpanBounds
      <4>3. Last(y.pos, y.len) < e[h].numSectors
        <5>1. y.pos + y.len <= n
          BY <4>1
        <5> QED BY <1>3, <4>1, <5>1, SpanBounds
      <4> QED BY <1>3, <3>1, <4>1, <4>2, <4>3, SMTT(30)
    <3>4. First(y.pos) + l = IndexOf(i)
      <4>1. DataOnce(e, h)
        BY <1>1 DEF HeaderOK
      <4>2. DataSector(e, e[h], IndexOf(i)) = p
        BY DEF PlaceOf
      <4> QED BY <1>3, <3>1, <3>2, <3>3, <4>1, <4>2 DEF DataOnce
    <3>5. PartOf(y, i) = l
      BY <3>3, <3>4 DEF PartOf
    <3> QED BY <1>6, <3>1, <3>5
  <2>3. ASSUME NEW u, NEW l PROVE /\ Pending(o, x2, h, p, u, l) <=> Pending(o, x, h, p, u, l)
                                  /\ Pending(o, x, h, p, u, l) => x2[u] = x[u]
    <3>1. ~Pending(o, x, h, p, t, l)
      BY <1>2 DEF Pending
    <3>2. u \in Thread /\ u # t => x2[u] = x[u]
      BY <1>2 DEF Aside
    <3>3. ~Pending(o, x2, h, p, t, l)
      BY <2>2
    <3>4. CASE u = t
      BY <3>1, <3>3, <3>4
    <3>5. CASE u # t
      BY <3>2, <3>5 DEF Pending
    <3> QED BY <3>4, <3>5
  <2>4. \A u, l : Pending(o, x2, h, p, u, l) => c = x2[u].buf[l][OffsetOf(i)]
    BY <2>1, <2>3 DEF ByteExact
  <2>5. NonePending(o, x2, h, p) => NonePending(o, x, h, p)
    BY <2>3 DEF NonePending
  <2> QED BY <2>1, <2>4, <2>5 DEF ByteExact
<1> QED BY <1>5, <1>6

\* The files when thread t has locked all sectors of its write.
LEMMA LockedText ==
    ASSUME NEW e, NEW r, NEW o, NEW x, NEW sh, NEW t \in Thread, NEW x2,
           LockedWrite(e, r, o, x, sh, t, x2), NEW sh2,
           sh2[o[t]] = Overwrite(sh[o[t]], x[t].pos, x[t].len, t),
           \A f \in Sector : f # o[t] => sh2[f] = sh[f],
           NEW f \in FilesOn(e) \cup Opened(o)
    PROVE  FileExact(e, f, r, o, x2, sh2)
<1>1. PICK F, G, tg : Sound(e, F, G, tg, o, x)
  BY DEF LockedWrite
<1>2. Exact(e, r, o, x, sh) /\ Aside(t, o, x, o, x2)
      /\ x[t].op = "write" /\ x[t].pc = "rw_P" /\ x2[t].pc = "io"
  BY DEF LockedWrite
<1>3. f \in F /\ HeaderOK(e, f)
  <2>1. f \in F
    BY <1>1, FilesWithin DEF Sound, UsersOK, Opened
  <2> QED BY <1>1, <2>1 DEF Sound, Shape
<1>4. FileExact(e, f, r, o, x, sh)
  BY <1>2 DEF Exact
<1>5. Beginning(o, x2, f) <=> Beginning(o, x, f)
  BY <1>2 DEF Beginning, Aside
<1>6. CASE f # o[t]
  <2>1. SamePending(o, x, o, x2, f)
    BY <1>2, <1>6 DEF SamePending, Pending, Aside
  <2>2. SameBeginning(r, o, x, r, o, x2, f)
    BY <1>5 DEF SameBeginning
  <2>3. sh2[f] = sh[f] /\ e[f].numSectors \in Nat
    BY <1>3, <1>6 DEF HeaderOK, Fields
  <2>4. SameText(e, e, f)
    BY DEF SameText, SameData
  <2> QED BY <1>4, <2>1, <2>2, <2>3, <2>4, TextKept
<1>7. CASE f = o[t]
  <2>1. e[f].fileType = 0
    <3>1. LockedWrite(e, r, o, x, sh, t, x2) /\ t \in Thread
      OBVIOUS
    <3>2. LockedAt(e, o, x, sh, t, x2)
      BY ONLY <3>1, LockedSectors
    <3> QED BY <1>7, <3>2 DEF LockedAt
  <2>2. PICK n : BytesExact(e, f, n, r, o, x, sh[f])
    BY <1>4, <2>1 DEF FileExact
  <2>3. /\ n \in Nat /\ sh[f] = [i \in 1..n |-> sh[f][i]]
        /\ divRoundUp(n, SectorSize) <= e[f].numSectors
        /\ e[f].numBytes <= n
        /\ r = 0 \/ ~Beginning(o, x, f) => e[f].numBytes = n
        /\ \A i \in 1..n : ByteExact(e, f, i, sh[f][i], o, x)
    BY <2>2 DEF BytesExact
  <2>4. sh2[f] = [i \in 1..n |-> IF i > x[t].pos /\ i <= x[t].pos + x[t].len THEN t ELSE sh[f][i]]
    <3>1. Overwrite(sh[f], x[t].pos, x[t].len, t) =
             [i \in 1..n |-> IF i > x[t].pos /\ i <= x[t].pos + x[t].len THEN t ELSE sh[f][i]]
      BY <2>3, OverwriteAt
    <3> QED BY <1>7, <3>1
  <2>5. DOMAIN sh[f] = 1..n /\ sh2[f] = [i \in 1..n |-> sh2[f][i]]
    BY <2>3, <2>4
  <2>6. ASSUME NEW i \in 1..n PROVE ByteExact(e, f, i, sh2[f][i], o, x2)
    <3>1. sh2[f][i] = IF i > x[t].pos /\ i <= x[t].pos + x[t].len THEN t ELSE sh[f][i]
      BY <2>4
    <3>2. /\ LockedWrite(e, r, o, x, sh, t, x2) /\ t \in Thread /\ n \in Nat /\ DOMAIN sh[o[t]] = 1..n
          /\ divRoundUp(n, SectorSize) <= e[o[t]].numSectors /\ i \in 1..n
          /\ ByteExact(e, o[t], i, sh[o[t]][i], o, x)
          /\ sh2[f][i] = IF i > x[t].pos /\ i <= x[t].pos + x[t].len THEN t ELSE sh[o[t]][i]
      BY <1>7, <2>3, <2>5, <3>1
    <3>3. ByteExact(e, o[t], i, sh2[f][i], o, x2)
      BY ONLY <3>2, LockedByte
    <3> QED BY <1>7, <3>3
  <2>7. BytesExact(e, f, n, r, o, x2, sh2[f])
    BY <1>5, <2>3, <2>5, <2>6 DEF BytesExact
  <2> QED BY <2>1, <2>7 DEF FileExact
<1> QED BY <1>6, <1>7

\* The requests.
LEMMA LockedRequest ==
    ASSUME NEW e, NEW r, NEW o, NEW x, NEW sh, NEW t \in Thread, NEW x2,
           LockedWrite(e, r, o, x, sh, t, x2), NEW sh2,
           sh2[o[t]] = Overwrite(sh[o[t]], x[t].pos, x[t].len, t),
           \A f \in Sector : f # o[t] => sh2[f] = sh[f], NEW u \in Thread
    PROVE  RequestExact(e, u, o, x2, sh2)
<1> PICK h : h = o[t]
  OBVIOUS
<1>1. PICK F, G, tg : Sound(e, F, G, tg, o, x)
  BY DEF LockedWrite
<1>2. Exact(e, r, o, x, sh) /\ Aside(t, o, x, o, x2) /\ x[t].op = "write"
  BY DEF LockedWrite
<1>3. /\ h # NoSector /\ e[h].fileType = 0 /\ Spans(e, h, x2[t], sh[h])
      /\ WriterExact(t, h, x[t], o, x, sh[h]) /\ x2[t].op = "write" /\ x2[t].pc = "io"
      /\ x2[t].solo = x[t].solo /\ x2[t].pos = x[t].pos /\ x2[t].len = x[t].len
  <2>1. LockedWrite(e, r, o, x, sh, t, x2) /\ t \in Thread /\ h = o[t]
    OBVIOUS
  <2>2. LockedAt(e, o, x, sh, t, x2)
    BY ONLY <2>1, LockedSectors
  <2> QED BY <2>2 DEF LockedAt, SameRequest
<1>4. FewerWriters(o, x, o, x2)
  BY <1>2 DEF FewerWriters, Aside
<1>5. DOMAIN sh2[h] = DOMAIN sh[h]
  <2>1. FileExact(e, h, r, o, x, sh)
    BY <1>2, <1>3 DEF Exact, Opened
  <2>2. PICK n : BytesExact(e, h, n, r, o, x, sh[h])
    BY <1>3, <2>1 DEF FileExact
  <2>3. n \in Nat /\ sh[h] = [i \in 1..n |-> sh[h][i]]
    BY <2>2 DEF BytesExact
  <2> QED BY <2>3, OverwriteAt
<1>6. CASE u = t
  <2>1. WriterExact(t, h, x2[t], o, x2, sh2[h])
    BY <1>3, <1>4 DEF WriterExact, FewerWriters
  <2>2. Spans(e, h, x2[t], sh2[h])
    BY <1>3, <1>5 DEF Spans
  <2> QED BY <1>3, <1>6, <2>1, <2>2 DEF RequestExact
<1>7. CASE u # t
  <2>1. x2[u] = x[u] /\ RequestExact(e, u, o, x, sh)
    BY <1>2, <1>7 DEF Aside, Exact
  <2>2. CASE o[u] # h
    <3>1. CASE o[u] = NoSector
      BY <2>1, <3>1 DEF RequestExact
    <3>2. CASE o[u] # NoSector
      <4>1. o[u] \in Sector
        BY <1>1, <3>2 DEF Sound, UsersOK, Shape, HeaderOK
      <4>2. sh2[o[u]] = sh[o[u]]
        BY <2>2, <4>1
      <4> QED BY <1>4, <2>1, <4>2, AsideRequest
    <3> QED BY <3>1, <3>2
  <2>3. CASE o[u] = h
    <3>1. x[u].op \in {"read", "write"} => Spans(e, h, x[u], sh2[h])
      BY <1>5, <2>1, <2>3 DEF RequestExact, Spans
    <3>2. ASSUME x[u].op = "write" PROVE WriterExact(u, h, x[u], o, x2, sh2[h])
      <4>1. WriterExact(u, h, x[u], o, x, sh[h]) /\ Spans(e, h, x[u], sh[h])
        BY <2>1, <2>3, <3>2 DEF RequestExact
      <4>2. ~x[u].solo
        BY <1>2, <1>7, <4>1 DEF WriterExact
      <4>3. x[u].pos % SectorSize = 0 /\ x[u].len % SectorSize = 0
        BY <4>1, <4>2 DEF WriterExact
      <4>4. ASSUME NEW k \in DOMAIN sh2[h], PartOf(x[u], k) \in 1..Len(x[u].sectors),
                   x[u].pc \in {"arr_P", "rw_P"}
            PROVE  x[u].buf[PartOf(x[u], k)][OffsetOf(k)] =
                      IF k > x[u].pos /\ k <= x[u].pos + x[u].len THEN u ELSE sh2[h][k]
        <5>1. k > x[u].pos /\ k <= x[u].pos + x[u].len
          <6>1. /\ x[u].pos \in Nat /\ x[u].len \in Nat \ {0}
                /\ Len(x[u].sectors) = Last(x[u].pos, x[u].len) - First(x[u].pos) + 1
            BY <4>1 DEF Spans
          <6>2. k \in Nat \ {0}
            <7>1. FileExact(e, h, r, o, x, sh)
              BY <1>2, <1>3 DEF Exact, Opened
            <7>2. PICK n : BytesExact(e, h, n, r, o, x, sh[h])
              BY <1>3, <7>1 DEF FileExact
            <7>3. n \in Nat /\ sh[h] = [i \in 1..n |-> sh[h][i]]
              BY <7>2 DEF BytesExact
            <7>4. k \in 1..n
              BY <1>5, <4>4, <7>3
            <7> QED BY <7>3, <7>4
          <6>3. IndexOf(k) - First(x[u].pos) \in 1..Last(x[u].pos, x[u].len) - First(x[u].pos) + 1
            BY <4>4, <6>1 DEF PartOf
          <6> QED BY <4>3, <6>1, <6>2, <6>3, AlignedPart
        <5>2. k \in DOMAIN sh[h]
          BY <1>5, <4>4
        <5> QED BY <4>1, <4>4, <5>1, <5>2 DEF WriterExact
      <4> QED BY <4>2, <4>3, <4>4 DEF WriterExact
    <3> QED BY <2>1, <2>3, <3>1, <3>2 DEF RequestExact
  <2> QED BY <2>2, <2>3
<1> QED BY <1>6, <1>7

\* No two threads hold the same mutex.
LEMMA MutexesAlone ==
    ASSUME TransferInv
    PROVE  HoldsAlone(xfer)
<1>1. \A t \in Thread : HeldIn(xfer, t) = Held(t)
  BY DEF HeldIn, Held
<1>2. \A t \in Thread, s \in Sector : mutex[s] = t <=> s \in Held(t)
  BY DEF TransferInv, LocksExact
<1>3. \A t, u \in Thread, s \in Sector : s \in HeldIn(xfer, t) /\ s \in HeldIn(xfer, u) => t = u
  BY <1>1, <1>2
<1> QED BY <1>3 DEF HoldsAlone, TransferInv

\* rw_P of the next sector.
LEMMA LockSectorContent ==
    ASSUME FilesInv, TransferInv, ContentInv, NEW t \in Thread, LockSector(t)
    PROVE  ContentInv'
<1> PICK h : h = handle[t]
  OBVIOUS
<1> PICK z : z = xfer[t]
  OBVIOUS
<1> PICK want : want = IF z.locked + 1 = Len(z.sectors) /\ z.op = "read"
                       THEN SubSeq(shadow[h], z.pos + 1, z.pos + z.len)
                       ELSE <<>>
  OBVIOUS
<1> PICK pc : pc = IF z.locked + 1 = Len(z.sectors) THEN "io" ELSE "rw_P"
  OBVIOUS
<1> PICK y : y = [z EXCEPT !.locked = @ + 1, !.pc = pc, !.want = want]
  OBVIOUS
<1> PICK sh2 : sh2 = shadow'
  OBVIOUS
<1> PICK x2 : x2 = xfer'
  OBVIOUS
<1>0. Progress(z) /\ DOMAIN xfer = Thread
  BY DEF TransferInv
<1>1. /\ machine = "up" /\ z.pc = "rw_P" /\ z.sectors[z.locked + 1] # NoSector
      /\ sh2 = IF z.locked + 1 = Len(z.sectors) /\ z.op = "write"
               THEN [shadow EXCEPT ![h] = Overwrite(@, z.pos, z.len, t)] ELSE shadow
      /\ UNCHANGED <<disk, todo, machine, handle>>
  BY DEF LockSector
<1>2. x2 = [xfer EXCEPT ![t] = y]
  <2>1. xfer' = [xfer EXCEPT ![t].locked = @ + 1, ![t].pc = pc, ![t].want = want]
    BY DEF LockSector
  <2> QED BY <1>0, <2>1
<1>3. /\ y.pc = pc /\ y.locked = z.locked + 1 /\ y.done = z.done /\ y.sectors = z.sectors
      /\ y.want = want /\ SameRequest(z, y)
  BY <1>0 DEF Progress, TransferField, SameRequest
<1>4. x2[t] = y /\ \A u \in Thread : u # t => x2[u] = xfer[u]
  BY <1>0, <1>2
<1>5. z.locked \in Nat /\ z.done = 0 /\ y.done = 0
  BY <1>0, <1>1, <1>3 DEF Progress
<1>6. ASSUME y.op \in {"read", "write"}, NEW j \in 1..y.locked PROVE y.sectors[j] # NoSector
  <2>1. z.op \in {"read", "write"}
    BY <1>3, <1>6 DEF SameRequest
  <2>2. \A i \in 1..z.locked : z.sectors[i] # NoSector
    BY <2>1 DEF ContentInv, LockedReal
  <2> QED BY <1>1, <1>3, <1>5, <2>2
<1>7. LockedReal(x2)
  <2> SUFFICES ASSUME NEW u \in Thread, x2[u].op \in {"read", "write"}, NEW j \in 1..x2[u].locked
               PROVE  x2[u].sectors[j] # NoSector
    BY DEF LockedReal
  <2>1. CASE u = t
    BY <1>4, <1>6, <2>1
  <2>2. CASE u # t
    <3>1. x2[u] = xfer[u]
      BY <1>4, <2>2
    <3> QED BY <3>1 DEF ContentInv, LockedReal
  <2> QED BY <2>1, <2>2
<1>8. CASE y.pc = "rw_P"
  <2>1. z.locked + 1 # Len(z.sectors)
    BY <1>3, <1>8
  <2>2. shadow' = shadow
    BY <1>1, <2>1
  <2>3. xfer' = [xfer EXCEPT ![t] = y] /\ UNCHANGED <<disk, todo, machine, handle, shadow>>
    BY <1>1, <1>2, <2>2
  <2>4. SameRequest(xfer[t], y) /\ xfer[t].pc = "rw_P"
    BY <1>1, <1>3
  <2>5. \A j \in 1..y.locked : y.op \in {"read", "write"} => y.sectors[j] # NoSector
    BY <1>6
  <2> QED BY <1>1, <1>8, <2>3, <2>4, <2>5, WaitStep
<1>9. CASE y.pc # "rw_P"
  <2>1. z.locked + 1 = Len(z.sectors) /\ y.pc = "io"
    BY <1>3, <1>9
  <2>2. HoldsAlone(x2)
    <3>1. TransferInv'
      BY LockSectorKeeps
    <3>2. HoldsAlone(xfer')
      <4>1. \A u \in Thread : HeldIn(xfer', u) = Held(u)'
        BY DEF HeldIn, Held
      <4>2. \A u \in Thread, s \in Sector : mutex'[s] = u <=> s \in Held(u)'
        BY <3>1 DEF TransferInv, LocksExact
      <4>3. \A u, v \in Thread, s \in Sector : s \in HeldIn(xfer', u) /\ s \in HeldIn(xfer', v) => u = v
        BY <4>1, <4>2
      <4> QED BY <3>1, <4>3 DEF HoldsAlone, TransferInv
    <3> QED BY <3>2
  <2>3. Aside(t, handle, xfer, handle, x2)
    BY <1>4 DEF Aside
  <2>4. FewerWriters(handle, xfer, handle, x2)
    <3>1. y.op = z.op
      BY <1>3 DEF SameRequest
    <3> QED BY <1>4, <3>1 DEF FewerWriters
  <2>5. ~AtWrite(xfer, t, "io") /\ ~AtWrite(xfer, t, "arr_P")
    BY <1>1 DEF AtWrite
  <2>6. HeadersOnly(todo, handle, x2)
    BY <2>3, <2>4, <2>5, AsideHeaders DEF ContentInv
  <2>7. x2[t].pc = "io" /\ x2[t].done = 0 /\ SameRequest(xfer[t], x2[t]) /\ xfer[t].pc = "rw_P"
    BY <1>1, <1>3, <1>4, <1>5, <2>1
  <2>8. CASE z.op # "write"
    <3>1. sh2 = shadow /\ ~AtWrite(x2, t, "io")
      <4>1. x2[t].op = z.op
        BY <2>7 DEF SameRequest
      <4> QED BY <1>1, <2>8, <4>1 DEF AtWrite
    <3>2. ASSUME NEW e, NEW r, Coming(disk, todo, e, r, handle, xfer, shadow)
          PROVE  Steady(disk, e, handle) /\ Exact(e, r, handle, x2, shadow)
      <4>1. PICK F, G, tg : Sound(e, F, G, tg, handle, xfer)
        BY <3>2 DEF Coming
      <4>2. Steady(disk, e, handle) /\ Exact(e, r, handle, xfer, shadow)
        BY <3>2 DEF Coming
      <4>3. RequestExact(e, t, handle, x2, shadow)
        <5>1. CASE z.op = "read"
          <6>1. x2[t].want = SubSeq(shadow[handle[t]], xfer[t].pos + 1, xfer[t].pos + xfer[t].len)
            BY <1>3, <1>4, <2>1, <5>1
          <6> QED BY <1>7, <2>2, <2>3, <2>7, <4>1, <4>2, <5>1, <6>1, LockedReader
        <5>2. CASE z.op # "read"
          <6>1. x2[t].op \notin {"read", "write"}
            BY <2>7, <2>8, <5>2 DEF SameRequest
          <6> QED BY <6>1 DEF RequestExact
        <5> QED BY <5>1, <5>2
      <4> QED BY <2>3, <2>4, <2>5, <3>1, <4>1, <4>2, <4>3, AsideExact
    <3>3. KeepsExact(disk, todo, handle, xfer, shadow, handle, x2, shadow)
      BY <3>2 DEF KeepsExact
    <3>4. DOMAIN shadow = Sector
      BY DEF ContentInv
    <3> QED BY <1>1, <1>7, <2>6, <3>1, <3>3, <3>4, MoveContent
  <2>9. CASE z.op = "write"
    <3>1. sh2 = [shadow EXCEPT ![h] = Overwrite(@, z.pos, z.len, t)] /\ DOMAIN shadow = Sector
      BY <1>1, <2>1, <2>9 DEF ContentInv
    <3>2. ASSUME NEW e, NEW r, Coming(disk, todo, e, r, handle, xfer, shadow)
          PROVE  Steady(disk, e, handle) /\ Exact(e, r, handle, x2, sh2)
      <4>1. Exact(e, r, handle, xfer, shadow) /\ Steady(disk, e, handle)
            /\ \E F, G, tg : Sound(e, F, G, tg, handle, xfer)
        BY <3>2 DEF Coming
      <4>2. LockedWrite(e, r, handle, xfer, shadow, t, x2)
        BY <1>7, <2>2, <2>3, <2>7, <2>9, <4>1 DEF LockedWrite
      <4>3. h \in Sector
        <5>1. LockedAt(e, handle, xfer, shadow, t, x2)
          BY <4>2, LockedSectors
        <5> QED BY <5>1 DEF LockedAt, HeaderOK
      <4>4. sh2[handle[t]] = Overwrite(shadow[handle[t]], xfer[t].pos, xfer[t].len, t)
            /\ \A f \in Sector : f # handle[t] => sh2[f] = shadow[f]
        BY <3>1, <4>3
      <4>5. \A f \in FilesOn(e) \cup Opened(handle) : FileExact(e, f, r, handle, x2, sh2)
        BY <4>2, <4>4, LockedText
      <4>6. \A u \in Thread : RequestExact(e, u, handle, x2, sh2)
        BY <4>2, <4>4, LockedRequest
      <4> QED BY <4>1, <4>5, <4>6 DEF Exact
    <3>3. KeepsExact(disk, todo, handle, xfer, shadow, handle, x2, sh2)
      BY <3>2 DEF KeepsExact
    <3>4. DOMAIN sh2 = Sector
      BY <3>1
    <3> QED BY <1>1, <1>7, <2>6, <3>3, <3>4, MoveContent
  <2> QED BY <2>8, <2>9
<1> QED BY <1>8, <1>9

-----------------------------------------------------------------------------
(***************************************************************************)
(* A sector is transferred.                                                *)
(***************************************************************************)

\* A read goes on.
LEMMA AppendAt ==
    ASSUME NEW b, NEW d \in Nat, b = [i \in 1..d |-> b[i]], NEW c
    PROVE  /\ Append(b, c) = [i \in 1..d + 1 |-> Append(b, c)[i]]
           /\ Append(b, c)[d + 1] = c
           /\ \A i \in 1..d : Append(b, c)[i] = b[i]
<1> PICK S : S = {b[i] : i \in 1..d} \cup {c}
  OBVIOUS
<1>1. b \in [1..d -> S] /\ c \in S
  OBVIOUS
<1>2. b \in Seq(S) /\ Len(b) = d
  BY <1>1, IsASeq, LenProperties
<1>3. Append(b, c) \in Seq(S) /\ Len(Append(b, c)) = d + 1
  BY <1>1, <1>2, AppendProperties
<1>4. /\ Append(b, c)[d + 1] = c
      /\ \A i \in 1..d : Append(b, c)[i] = b[i]
  BY <1>1, <1>2, AppendProperties
<1>5. Append(b, c) \in [1..d + 1 -> S]
  BY <1>3, LenProperties
<1> QED BY <1>4, <1>5

\* A reader that gets one more sector has one more part of what it wants.
LEMMA ReadOn ==
    ASSUME NEW y, NEW z, NEW d, NEW e, Progress(y), y.pc = "io", NEW f, NEW bytes, Spans(e, f, y, bytes),
           ReaderExact(e, y), ReaderExact(d, y),
           z.pos = y.pos, z.len = y.len, z.sectors = y.sectors, z.want = y.want, z.done = y.done + 1,
           z.buf = Append(y.buf, BytesAt(d, y.sectors[y.done + 1]))
    PROVE  ReaderExact(e, z)
<1> PICK c : c = BytesAt(d, y.sectors[y.done + 1])
  OBVIOUS
<1>1. y.done \in Nat /\ y.buf = [i \in 1..y.done |-> y.buf[i]]
  BY DEF Progress, ReaderExact
<1>2. /\ z.buf = [i \in 1..z.done |-> z.buf[i]] /\ z.buf[y.done + 1] = c
      /\ \A i \in 1..y.done : z.buf[i] = y.buf[i]
  BY <1>1, AppendAt
<1>3. ASSUME NEW k \in 1..y.len
      PROVE  /\ PartOf(z, z.pos + k) <= z.done =>
                  z.buf[PartOf(z, z.pos + k)][OffsetOf(z.pos + k)] = z.want[k]
             /\ PartOf(z, z.pos + k) > z.done =>
                  BytesAt(e, z.sectors[PartOf(z, z.pos + k)])[OffsetOf(z.pos + k)] = z.want[k]
  <2> PICK p : p = PartOf(y, y.pos + k)
    OBVIOUS
  <2> PICK off : off = OffsetOf(y.pos + k)
    OBVIOUS
  <2>1. p \in 1..Len(y.sectors)
    <3>1. y.pos \in Nat /\ y.len \in Nat
      BY DEF Spans
    <3>2. y.pos + k \in y.pos + 1..y.pos + y.len
      BY <3>1
    <3> QED BY <3>2, PartWithin
  <2>2. PartOf(z, z.pos + k) = p
    BY DEF PartOf
  <2>3. /\ p <= y.done => y.buf[p][off] = y.want[k]
        /\ p > y.done => BytesAt(e, y.sectors[p])[off] = y.want[k]
    BY DEF ReaderExact
  <2>4. p > y.done => BytesAt(d, y.sectors[p])[off] = y.want[k]
    BY DEF ReaderExact
  <2>5. CASE p <= y.done
    <3>1. p \in 1..y.done /\ ~(p > z.done) /\ z.buf[p] = y.buf[p]
      BY <1>1, <1>2, <2>1, <2>5
    <3> QED BY <2>2, <2>3, <2>5, <3>1
  <2>6. CASE p = y.done + 1
    <3>1. p > y.done /\ ~(p > z.done)
      BY <1>1, <2>6
    <3>2. z.buf[p] = BytesAt(d, y.sectors[p])
      BY <1>2, <2>6
    <3> QED BY <2>2, <2>4, <3>1, <3>2
  <2>7. CASE p > y.done + 1
    <3>1. p > y.done /\ ~(p <= z.done)
      BY <1>1, <2>1, <2>7
    <3> QED BY <2>2, <2>3, <3>1
  <2>8. p <= y.done \/ p = y.done + 1 \/ p > y.done + 1
    <3>1. Len(y.sectors) \in Int
      <4>1. /\ y.pos \in Nat /\ y.len \in Nat \ {0}
            /\ Len(y.sectors) = Last(y.pos, y.len) - First(y.pos) + 1
        BY DEF Spans
      <4>2. First(y.pos) \in Nat /\ Last(y.pos, y.len) \in Nat
        BY <4>1, SpanBounds
      <4> QED BY <4>1, <4>2
    <3>2. p \in Int
      BY <2>1, <3>1
    <3> QED BY <1>1, <3>2
  <2> QED BY <2>5, <2>6, <2>7, <2>8
<1> QED BY <1>2, <1>3 DEF ReaderExact

\* A data sector of file h is written: no header, no table, no sector of another file.
Rewritten(m, e, F, h, s) ==
    /\ FilesOn(e) = FilesOn(m)
    /\ \A f \in F :
          /\ f # s /\ e[f] = m[f]
          /\ s \notin Tables(m[f]) /\ SameLayout(m, e, f)
          /\ m[f].numSectors \in Nat
          /\ \A j \in 1..m[f].numSectors :
                /\ DataSector(e, e[f], j) = DataSector(m, m[f], j)
                /\ f # h => DataSector(m, m[f], j) # s
                /\ DataSector(m, m[f], j) # s =>
                      BytesAt(e, DataSector(m, m[f], j)) = BytesAt(m, DataSector(m, m[f], j))

\* A write to a data sector of a file changes no other file and no header.
LEMMA RewrittenDisk ==
    ASSUME NEW m, NEW F, NEW G, NEW tg, NEW o, NEW x, Sound(m, F, G, tg, o, x), NEW h \in F,
           m[h].fileType = 0, NEW i \in 1..m[h].numSectors, NEW s, s = DataSector(m, m[h], i), s \in Sector,
           NEW e, DOMAIN e = Sector, OnlyAt(m, e, s)
    PROVE  Rewritten(m, e, F, h, s)
<1>0. Shape(m, F, G) /\ NoSector \notin Sector
  BY SizesAssumption DEF Sound, NoSector, Sector
<1>1. ASSUME NEW f \in F
      PROVE  /\ HeaderOK(m, f) /\ f \in Sector /\ m[f].numSectors \in Nat
             /\ f # s /\ s \notin Tables(m[f])
             /\ \A j \in 1..m[f].numSectors : f # h => DataSector(m, m[f], j) # s
  <2>1. HeaderOK(m, f) /\ HeaderOK(m, h)
    BY <1>0 DEF Shape
  <2>2. f \in Sector /\ m[f].numSectors \in Nat
    BY <2>1 DEF HeaderOK, Fields
  <2>3. CASE f = h
    BY <2>1, <2>2, <2>3 DEF HeaderOK
  <2>4. CASE f # h
    <3>1. OwnedBy(m, f) \cap OwnedBy(m, h) = {}
      BY <1>0, <2>4 DEF Shape, NoneShared
    <3>2. s \in OwnedBy(m, h)
      BY <1>0, <2>1, Owns
    <3>3. /\ f \in OwnedBy(m, f) /\ Tables(m[f]) \subseteq OwnedBy(m, f)
          /\ \A j \in 1..m[f].numSectors :
                DataSector(m, m[f], j) # NoSector => DataSector(m, m[f], j) \in OwnedBy(m, f)
      BY <2>1, Owns
    <3> QED BY <1>0, <2>1, <2>2, <3>1, <3>2, <3>3
  <2> QED BY <2>3, <2>4
<1>2. ASSUME NEW f \in F
      PROVE  /\ e[f] = m[f] /\ SameLayout(m, e, f)
             /\ \A j \in 1..m[f].numSectors : DataSector(e, e[f], j) = DataSector(m, m[f], j)
  <2>1. e[f] = m[f]
    BY <1>1 DEF OnlyAt
  <2>2. \A r \in Tables(m[f]) : e[r] = m[r]
    BY <1>1 DEF HeaderOK, OnlyAt
  <2>3. SameLayout(m, e, f)
    BY <2>1, <2>2 DEF SameLayout
  <2> QED BY <1>1, <2>1, <2>3, LayoutKept
<1>3. ASSUME NEW f \in F, NEW j \in 1..m[f].numSectors, DataSector(m, m[f], j) # s
      PROVE  BytesAt(e, DataSector(m, m[f], j)) = BytesAt(m, DataSector(m, m[f], j))
  <2>1. DataSector(m, m[f], j) \in Sector \cup {NoSector}
    BY <1>1 DEF HeaderOK
  <2> QED BY <1>3, <2>1 DEF OnlyAt, BytesAt
<1>4. FilesOn(e) = FilesOn(m)
  <2>1. /\ DirsOn(m) \subseteq G /\ FilesOn(m) \subseteq F /\ G \subseteq F
        /\ DirectorySector \in G /\ DirectorySector \in DirsOn(m)
        /\ \A D \in DirsOn(m) : HeadersOn(m, D) \subseteq FilesOn(m)
    BY <1>0, FilesWithin DEF Shape, DirsOn
  <2>2. ASSUME NEW D \in G PROVE HeadersOn(e, D) = HeadersOn(m, D)
    <3>1. Spared(m, e, F, G)
      BY <1>0, DataSpared DEF OnlyAt
    <3>2. SparedSame(m, e, F, G)
      BY <3>1, SoundSpared
    <3>3. TableOf(e, D) = TableOf(m, D)
      BY <3>2 DEF SparedSame
    <3> QED BY <3>3 DEF HeadersOn
  <2>3. DirsOn(e) = DirsOn(m)
    <3>1. \A f \in HeadersOn(m, DirectorySector) : e[f] = m[f]
      BY <1>2, <2>1
    <3> QED BY <2>1, <2>2, <3>1 DEF DirsOn
  <2>4. \A D \in DirsOn(m) : HeadersOn(e, D) = HeadersOn(m, D)
    BY <2>1, <2>2
  <2> QED BY <2>3, <2>4 DEF FilesOn
<1> QED BY <1>1, <1>2, <1>3, <1>4 DEF Rewritten

\* Thread t has written part i of its request to sector s.
PartWritten(m, e, r, o, x, sh, t, x2, i, s) ==
    /\ \E F, G, tg : Sound(m, F, G, tg, o, x) /\ o[t] \in F /\ Rewritten(m, e, F, o[t], s)
    /\ Exact(m, r, o, x, sh)
    /\ Aside(t, o, x, o, x2) /\ HoldsAlone(x)
    /\ x[t].op = "write" /\ x[t].pc = "io" /\ i = x[t].done + 1 /\ s = x[t].sectors[i] /\ s \in Sector
    /\ i \in 1..Len(x[t].sectors)
    /\ x2[t].op = "write" /\ x2[t].pos = x[t].pos /\ x2[t].len = x[t].len /\ x2[t].solo = x[t].solo
    /\ x2[t].sectors = x[t].sectors /\ x2[t].buf = x[t].buf /\ x2[t].done = i
    /\ x2[t].pc = IF i = Len(x[t].sectors) THEN "done" ELSE "io"
    /\ BytesAt(e, s) = x[t].buf[i]

\* What is still to be written.
PendingLess(o, x, x2, t, i, s) ==
    \A f, p, u, j :
        /\ Pending(o, x2, f, p, u, j) => Pending(o, x, f, p, u, j)
        /\ Pending(o, x, f, p, u, j) /\ p # s => Pending(o, x2, f, p, u, j)
        /\ Pending(o, x, f, s, u, j) => u = t /\ j = i
        /\ ~Pending(o, x2, f, s, u, j)
        /\ Pending(o, x, o[t], s, t, i)
        /\ u \in Thread => x2[u].buf = x[u].buf

\* When a part has been written, it is no longer pending.
LEMMA PartPending ==
    ASSUME NEW m, NEW e, NEW r, NEW o, NEW x, NEW sh, NEW t \in Thread, NEW x2, NEW i, NEW s,
           PartWritten(m, e, r, o, x, sh, t, x2, i, s)
    PROVE  PendingLess(o, x, x2, t, i, s)
<1> SUFFICES ASSUME NEW f, NEW p, NEW u, NEW j
             PROVE  /\ Pending(o, x2, f, p, u, j) => Pending(o, x, f, p, u, j)
                    /\ Pending(o, x, f, p, u, j) /\ p # s => Pending(o, x2, f, p, u, j)
                    /\ Pending(o, x, f, s, u, j) => u = t /\ j = i
                    /\ ~Pending(o, x2, f, s, u, j)
                    /\ Pending(o, x, o[t], s, t, i)
                    /\ u \in Thread => x2[u].buf = x[u].buf
  BY DEF PendingLess
<1>1. /\ Aside(t, o, x, o, x2) /\ HoldsAlone(x)
      /\ x[t].op = "write" /\ x[t].pc = "io" /\ i = x[t].done + 1 /\ s = x[t].sectors[i] /\ s \in Sector
      /\ i \in 1..Len(x[t].sectors)
      /\ x2[t].op = "write" /\ x2[t].sectors = x[t].sectors /\ x2[t].buf = x[t].buf /\ x2[t].done = i
      /\ x2[t].pc = IF i = Len(x[t].sectors) THEN "done" ELSE "io"
  BY DEF PartWritten
<1>2. x[t].done \in Nat /\ x[t].locked \in Nat /\ x[t].locked = Len(x[t].sectors)
  BY <1>1 DEF HoldsAlone, Progress
<1> PICK L \in Nat : L = Len(x[t].sectors)
  BY <1>2
<1>3. \A v \in Thread : v # t => x2[v] = x[v]
  BY <1>1 DEF Aside
<1>4. Pending(o, x, f, s, u, j) => u = t /\ j = i
  <2> SUFFICES ASSUME Pending(o, x, f, s, u, j) PROVE u = t /\ j = i
    OBVIOUS
  <2>1. i \in x[t].done + 1..Len(x[t].sectors)
    BY <1>1, <1>2
  <2>2. /\ HoldsAlone(x) /\ t \in Thread /\ x[t].pc = "io" /\ x[t].sectors[i] \in Sector
        /\ Pending(o, x, f, x[t].sectors[i], u, j)
    BY <1>1
  <2> QED BY ONLY <2>1, <2>2, OnlyHolder
<1>5. Pending(o, x, o[t], s, t, i)
  BY <1>1, <1>2 DEF Pending
<1>6. u \in Thread => x2[u].buf = x[u].buf
  BY <1>1, <1>3
<1>7. Pending(o, x2, f, p, u, j) => Pending(o, x, f, p, u, j)
  <2>1. CASE u = t
    BY <1>1, <1>2, <2>1 DEF Pending
  <2>2. CASE u # t
    BY <1>3, <2>2 DEF Pending
  <2> QED BY <2>1, <2>2
<1>8. ~Pending(o, x2, f, s, u, j)
  <2> SUFFICES ASSUME Pending(o, x2, f, s, u, j) PROVE FALSE
    OBVIOUS
  <2>1. Pending(o, x, f, s, u, j)
    <3>1. CASE u = t
      BY <1>1, <1>2, <3>1 DEF Pending
    <3>2. CASE u # t
      BY <1>3, <3>2 DEF Pending
    <3> QED BY <3>1, <3>2
  <2>2. u = t /\ j = i
    BY <1>4, <2>1
  <2> QED BY <1>1, <1>2, <2>2 DEF Pending
<1>9. Pending(o, x, f, p, u, j) /\ p # s => Pending(o, x2, f, p, u, j)
  <2> SUFFICES ASSUME Pending(o, x, f, p, u, j), p # s PROVE Pending(o, x2, f, p, u, j)
    OBVIOUS
  <2>1. CASE u = t
    <3>1. j \in x[t].done + 1..L /\ x[t].sectors[j] = p /\ o[t] = f
      BY <2>1 DEF Pending
    <3>2. j # i
      BY <1>1, <3>1
    <3>3. j \in i + 1..L /\ i # L
      BY <1>1, <1>2, <3>1, <3>2
    <3> QED BY <1>1, <2>1, <3>1, <3>3 DEF Pending
  <2>2. CASE u # t
    BY <1>3, <2>2 DEF Pending
  <2> QED BY <2>1, <2>2
<1> QED BY <1>4, <1>5, <1>6, <1>7, <1>8, <1>9

\* The files.
LEMMA PartText ==
    ASSUME NEW m, NEW e, NEW r, NEW o, NEW x, NEW sh, NEW t \in Thread, NEW x2, NEW i, NEW s,
           PartWritten(m, e, r, o, x, sh, t, x2, i, s), NEW f \in FilesOn(e) \cup Opened(o)
    PROVE  FileExact(e, f, r, o, x2, sh)
<1>1. PICK F, G, tg : Sound(m, F, G, tg, o, x) /\ o[t] \in F /\ Rewritten(m, e, F, o[t], s)
  BY DEF PartWritten
<1>2. /\ Exact(m, r, o, x, sh) /\ Aside(t, o, x, o, x2) /\ x[t].pc = "io"
      /\ x2[t].pc \in {"io", "done"} /\ x[t].op = "write" /\ x2[t].op = "write"
      /\ BytesAt(e, s) = x[t].buf[i]
  BY DEF PartWritten
<1>3. f \in FilesOn(m) \cup Opened(o) /\ f \in F
  <2>1. f \in FilesOn(m) \cup Opened(o)
    BY <1>1 DEF Rewritten
  <2> QED BY <1>1, <2>1, FilesWithin DEF Sound, UsersOK, Opened
<1>4. FileExact(m, f, r, o, x, sh)
  BY <1>2, <1>3 DEF Exact
<1>5. /\ e[f] = m[f] /\ m[f].numSectors \in Nat
      /\ \A j \in 1..m[f].numSectors :
            /\ DataSector(e, e[f], j) = DataSector(m, m[f], j)
            /\ f # o[t] => DataSector(m, m[f], j) # s
            /\ DataSector(m, m[f], j) # s =>
                  BytesAt(e, DataSector(m, m[f], j)) = BytesAt(m, DataSector(m, m[f], j))
  BY <1>1, <1>3 DEF Rewritten
<1>6. Beginning(o, x2, f) <=> Beginning(o, x, f)
  BY <1>2 DEF Beginning, Aside
<1>9. PendingLess(o, x, x2, t, i, s)
  BY PartPending
<1>7. CASE f # o[t]
  <2>1. SameText(m, e, f)
    BY <1>5, <1>7 DEF SameText, SameData
  <2>2. SamePending(o, x, o, x2, f)
    BY <1>2, <1>7 DEF SamePending, Pending, Aside
  <2>3. SameBeginning(r, o, x, r, o, x2, f)
    BY <1>6 DEF SameBeginning
  <2> QED BY <1>4, <1>5, <2>1, <2>2, <2>3, TextKept
<1>8. CASE f = o[t]
  <2>1. CASE m[f].fileType = 1
    BY <1>4, <1>5, <2>1 DEF FileExact
  <2>2. CASE m[f].fileType # 1
    <3>1. PICK n : BytesExact(m, f, n, r, o, x, sh[f])
      BY <1>4, <2>2 DEF FileExact
    <3>2. /\ n \in Nat /\ sh[f] = [k \in 1..n |-> sh[f][k]]
          /\ divRoundUp(n, SectorSize) <= m[f].numSectors
          /\ m[f].numBytes <= n
          /\ r = 0 \/ ~Beginning(o, x, f) => m[f].numBytes = n
          /\ \A k \in 1..n : ByteExact(m, f, k, sh[f][k], o, x)
      BY <3>1 DEF BytesExact
    <3>3. ASSUME NEW k \in 1..n PROVE ByteExact(e, f, k, sh[f][k], o, x2)
      <4> PICK b : b = sh[f][k]
        OBVIOUS
      <4> PICK p : p = PlaceOf(m, f, k)
        OBVIOUS
      <4>1. IndexOf(k) \in 1..m[f].numSectors
        BY <1>5, <3>2, ByteInside
      <4>2. PlaceOf(e, f, k) = p /\ (p # s => BytesAt(e, p) = BytesAt(m, p))
        BY <1>5, <4>1 DEF PlaceOf
      <4>3. ByteExact(m, f, k, b, o, x)
        BY <3>2
      <4>4. CASE p = s
        <5>1. Pending(o, x, f, p, t, i)
          BY <1>8, <1>9, <4>4 DEF PendingLess
        <5>2. b = x[t].buf[i][OffsetOf(k)]
          BY <4>3, <5>1 DEF ByteExact
        <5>3. \A u, j : ~Pending(o, x2, f, p, u, j)
          BY <1>9, <4>4 DEF PendingLess
        <5> QED BY <1>2, <4>2, <4>4, <5>2, <5>3 DEF ByteExact
      <4>5. CASE p # s
        <5>1. \A u, j : Pending(o, x2, f, p, u, j) <=> Pending(o, x, f, p, u, j)
          BY <1>9, <4>5 DEF PendingLess
        <5>2. \A u, j : Pending(o, x, f, p, u, j) => x2[u].buf = x[u].buf
          BY <1>9 DEF PendingLess, Pending
        <5>3. \A u, j : Pending(o, x2, f, p, u, j) => b = x2[u].buf[j][OffsetOf(k)]
          BY <4>3, <5>1, <5>2 DEF ByteExact
        <5>4. NonePending(o, x2, f, p) => NonePending(o, x, f, p)
          BY <5>1 DEF NonePending
        <5> QED BY <4>2, <4>3, <4>5, <5>3, <5>4 DEF ByteExact
      <4> QED BY <4>4, <4>5
    <3>4. BytesExact(e, f, n, r, o, x2, sh[f])
      BY <1>5, <1>6, <3>2, <3>3 DEF BytesExact
    <3> QED BY <1>5, <2>2, <3>4 DEF FileExact
  <2> QED BY <2>1, <2>2
<1> QED BY <1>7, <1>8

\* A request is inside of a file that is in the same place.
LEMMA InsideKept ==
    ASSUME NEW m, NEW e, NEW f, NEW y, NEW z, NEW bytes, Spans(m, f, y, bytes), NEW n \in Nat,
           DOMAIN bytes = 1..n, m[f].numSectors \in Nat, divRoundUp(n, SectorSize) <= m[f].numSectors,
           \A j \in 1..m[f].numSectors : DataSector(e, e[f], j) = DataSector(m, m[f], j),
           z.pos = y.pos, z.len = y.len, z.sectors = y.sectors
    PROVE  Spans(e, f, z, bytes)
<1>1. /\ y.pos \in Nat /\ y.len \in Nat \ {0} /\ y.pos + y.len \in 1..n
      /\ Len(y.sectors) = Last(y.pos, y.len) - First(y.pos) + 1
      /\ \A j \in 1..Len(y.sectors) : y.sectors[j] = DataSector(m, m[f], First(y.pos) + j)
  BY DEF Spans
<1>2. First(y.pos) \in Nat /\ Last(y.pos, y.len) \in Nat
  BY <1>1, SpanBounds
<1>3. Last(y.pos, y.len) < m[f].numSectors
  <2>1. y.pos + y.len <= n
    BY <1>1
  <2> QED BY <1>1, <2>1, SpanBounds
<1>4. ASSUME NEW j \in 1..Len(y.sectors) PROVE y.sectors[j] = DataSector(e, e[f], First(y.pos) + j)
  <2>1. First(y.pos) + j \in 1..m[f].numSectors
    BY <1>1, <1>2, <1>3
  <2> QED BY <1>1, <2>1
<1>5. z.pos + z.len \in DOMAIN bytes
  BY <1>1
<1> QED BY <1>1, <1>4, <1>5 DEF Spans

\* The requests when a sector is written.
LEMMA PartRequest ==
    ASSUME NEW m, NEW e, NEW r, NEW o, NEW x, NEW sh, NEW t \in Thread, NEW x2, NEW i, NEW s,
           PartWritten(m, e, r, o, x, sh, t, x2, i, s), NEW u \in Thread
    PROVE  RequestExact(e, u, o, x2, sh)
<1>1. PICK F, G, tg : Sound(m, F, G, tg, o, x) /\ o[t] \in F /\ Rewritten(m, e, F, o[t], s)
  BY DEF PartWritten
<1>2. /\ Exact(m, r, o, x, sh) /\ Aside(t, o, x, o, x2) /\ HoldsAlone(x)
      /\ x[t].op = "write" /\ x2[t].op = "write" /\ x2[t].pc \in {"io", "done"}
      /\ i = x[t].done + 1 /\ s = x[t].sectors[i] /\ s \in Sector /\ i \in 1..Len(x[t].sectors)
      /\ x2[t].pos = x[t].pos /\ x2[t].len = x[t].len /\ x2[t].sectors = x[t].sectors
      /\ x2[t].solo = x[t].solo /\ x[t].pc = "io"
  BY DEF PartWritten
<1>3. FewerWriters(o, x, o, x2)
  BY <1>2 DEF FewerWriters, Aside
<1>4. RequestExact(m, u, o, x, sh)
  BY <1>2 DEF Exact
<1> PICK h : h = o[u]
  OBVIOUS
<1>5. x2[u].op = x[u].op /\ (u # t => x2[u] = x[u])
  BY <1>2 DEF Aside
<1>6. CASE x[u].op \notin {"read", "write"}
  BY <1>5, <1>6 DEF RequestExact
<1>7. CASE x[u].op \in {"read", "write"}
  <2>1. x[u].pc # "idle" /\ h # NoSector /\ m[h].fileType = 0 /\ Spans(m, h, x[u], sh[h])
    BY <1>4, <1>7 DEF RequestExact
  <2>2. h \in F
    BY <1>1, <2>1 DEF Sound, UsersOK
  <2>3. /\ e[h] = m[h] /\ m[h].numSectors \in Nat
        /\ \A j \in 1..m[h].numSectors :
              /\ DataSector(e, e[h], j) = DataSector(m, m[h], j)
              /\ DataSector(m, m[h], j) # s =>
                    BytesAt(e, DataSector(m, m[h], j)) = BytesAt(m, DataSector(m, m[h], j))
    BY <1>1, <2>2 DEF Rewritten
  <2>4. PICK n : BytesExact(m, h, n, r, o, x, sh[h])
    <3>1. FileExact(m, h, r, o, x, sh)
      BY <1>2, <2>1 DEF Exact, Opened
    <3> QED BY <2>1, <3>1 DEF FileExact
  <2>5. n \in Nat /\ DOMAIN sh[h] = 1..n /\ divRoundUp(n, SectorSize) <= m[h].numSectors
    <3>1. /\ n \in Nat /\ sh[h] = [k \in 1..n |-> sh[h][k]]
          /\ divRoundUp(n, SectorSize) <= m[h].numSectors
      BY <2>4 DEF BytesExact
    <3>2. DOMAIN sh[h] = 1..n
      BY <3>1
    <3> QED BY <3>1, <3>2
  <2>6. x2[u].pos = x[u].pos /\ x2[u].len = x[u].len /\ x2[u].sectors = x[u].sectors
    BY <1>2, <1>5
  <2>7. Spans(e, h, x2[u], sh[h])
    <3>1. \A j \in 1..m[h].numSectors : DataSector(e, e[h], j) = DataSector(m, m[h], j)
      BY <2>3
    <3> QED BY <2>1, <2>3, <2>5, <2>6, <3>1, InsideKept
  <2>8. x2[u].pc # "idle" /\ e[h].fileType = 0
    BY <1>2, <1>5, <2>1, <2>3
  <2>9. CASE x[u].op = "write"
    <3>1. WriterExact(u, h, x[u], o, x, sh[h])
      BY <1>4, <2>9 DEF RequestExact
    <3>2. WriterExact(u, h, x2[u], o, x2, sh[h])
      <4>1. CASE u = t
        BY <1>2, <1>3, <3>1, <4>1 DEF WriterExact, FewerWriters
      <4>2. CASE u # t
        BY <1>3, <1>5, <3>1, <4>2 DEF WriterExact, FewerWriters
      <4> QED BY <4>1, <4>2
    <3> QED BY <1>5, <2>1, <2>7, <2>8, <2>9, <3>2 DEF RequestExact
  <2>10. CASE x[u].op = "read"
    <3>1. u # t /\ x2[u] = x[u] /\ ReaderExact(m, x[u])
      BY <1>2, <1>4, <1>5, <2>10 DEF RequestExact
    <3> PICK y : y = x[u]
      OBVIOUS
    <3>2. ASSUME y.pc = "io", NEW k \in 1..y.len, PartOf(y, y.pos + k) > y.done
          PROVE  BytesAt(e, y.sectors[PartOf(y, y.pos + k)]) = BytesAt(m, y.sectors[PartOf(y, y.pos + k)])
      <4>1. y.pos \in Nat /\ y.len \in Nat \ {0} /\ y.pos + y.len \in 1..n
        BY <2>1, <2>5 DEF Spans
      <4> PICK k2 \in Nat \ {0} : k2 = y.pos + k
        BY <4>1
      <4>2. k2 \in y.pos + 1..y.pos + y.len /\ k2 \in 1..n
        BY <2>5, <4>1
      <4> PICK p : p = PartOf(y, k2)
        OBVIOUS
      <4>3. p \in 1..Len(y.sectors)
        BY <2>1, <4>2, PartWithin
      <4>4. y.sectors[p] = PlaceOf(m, h, k2)
        BY <2>1, <4>3, PartPlace
      <4>5. IndexOf(k2) \in 1..m[h].numSectors
        BY <2>3, <2>5, <4>2, ByteInside
      <4>6. y.sectors[p] # s
        <5>1. /\ y.locked = Len(y.sectors) /\ y.done \in Nat /\ x[t].locked = Len(x[t].sectors)
              /\ x[t].done \in Nat /\ x[t].locked \in Nat /\ y.locked \in Nat
          BY <1>2, <3>2 DEF HoldsAlone, Progress
        <5>2. p \in y.done + 1..y.locked
          BY <3>2, <4>3, <5>1
        <5>3. y.sectors[p] \in HeldIn(x, u)
          BY <5>2 DEF HeldIn
        <5>4. s \in HeldIn(x, t)
          BY <1>2, <5>1 DEF HeldIn
        <5> QED BY <1>2, <3>1, <5>3, <5>4 DEF HoldsAlone
      <4> QED BY <2>3, <4>4, <4>5, <4>6 DEF PlaceOf
    <3>3. ReaderExact(e, y)
      BY <3>1, <3>2 DEF ReaderExact
    <3> QED BY <1>5, <2>1, <2>7, <2>8, <2>10, <3>1, <3>3 DEF RequestExact
  <2> QED BY <1>7, <2>9, <2>10
<1> QED BY <1>6, <1>7

\* What the writes lead to from a disk that differs in one sector.
LEMMA ReachesBack ==
    ASSUME NEW d, NEW d2, NEW s, OnlyAt(d, d2, s), NEW w, NEW k, NEW e, Reaches(d2, w, k, e)
    PROVE  \E m : /\ Reaches(d, w, k, m) /\ OnlyAt(m, e, s)
                  /\ NotWritten(w, k, s) /\ s \in Sector => e[s] = d2[s]
<1> PICK m : m = [r \in Sector |-> IF NotWritten(w, k, r) THEN d[r] ELSE e[r]]
  OBVIOUS
<1>1. ASSUME NEW r \in Sector PROVE SectorAfter(d, w, k, m, r) /\ (r # s => e[r] = m[r])
                                    /\ (NotWritten(w, k, r) => e[r] = d2[r])
  <2>1. SectorAfter(d2, w, k, e, r)
    BY DEF Reaches
  <2>2. CASE NotWritten(w, k, r)
    <3>1. \A l : ~LastWrite(w, k, r, l)
      BY <2>2 DEF NotWritten, LastWrite
    <3>2. e[r] = d2[r] /\ m[r] = d[r]
      BY <2>1, <2>2, <3>1 DEF SectorAfter
    <3> QED BY <2>2, <3>2 DEF SectorAfter, OnlyAt
  <2>3. CASE ~NotWritten(w, k, r)
    <3>1. m[r] = e[r]
      BY <2>3
    <3> QED BY <2>1, <2>3, <3>1 DEF SectorAfter
  <2> QED BY <2>2, <2>3
<1>2. Reaches(d, w, k, m) /\ OnlyAt(m, e, s)
  BY <1>1 DEF Reaches, OnlyAt
<1> QED BY <1>1, <1>2

\* While a thread writes, no sector of its request is among the pending writes.
LEMMA PendingHeaders ==
    ASSUME NEW w, NEW o, NEW x, HeadersOnly(w, o, x), NEW t \in Thread, x[t].op = "write", NEW k \in 0..Len(w),
           Len(w) \in Nat, NEW m, NEW F, NEW G, NEW tg, Sound(m, F, G, tg, o, x), NEW s, \A f \in F : f # s
    PROVE  NotWritten(w, k, s)
<1> SUFFICES ASSUME NEW i \in 1..k, w[i].sector = s PROVE FALSE
  BY DEF NotWritten
<1>1. Beginning(o, x, w[i].sector)
  BY DEF HeadersOnly
<1>2. PICK u \in Thread : o[u] = s /\ x[u].op = "write"
  BY <1>1 DEF Beginning
<1>3. o[u] \in F
  BY <1>2 DEF Sound, UsersOK, WritesInside
<1> QED BY <1>2, <1>3

\* The disk that is reached with the part written.
LEMMA PartSteady ==
    ASSUME NEW d, NEW m, NEW d2, NEW e, NEW F, NEW G, NEW tg, NEW o, NEW x, Sound(m, F, G, tg, o, x),
           NEW h, NEW s, Rewritten(m, e, F, h, s), Steady(d, m, o), OnlyAt(d, d2, s)
    PROVE  Steady(d2, e, o)
<1> SUFFICES ASSUME NEW u \in Thread, o[u] # NoSector
             PROVE  SameLayout(d2, e, o[u]) /\ e[o[u]].fileType = d2[o[u]].fileType
  BY DEF Steady
<1> PICK f : f = o[u]
  OBVIOUS
<1>1. f \in F /\ HeaderOK(m, f)
  <2>1. f \in F
    BY DEF Sound, UsersOK
  <2> QED BY <2>1 DEF Sound, Shape
<1>2. f \in Sector /\ Tables(m[f]) \subseteq Sector
  BY <1>1 DEF HeaderOK
<1>3. /\ f # s /\ e[f] = m[f] /\ s \notin Tables(m[f]) /\ SameLayout(m, e, f)
  BY <1>1 DEF Rewritten
<1>4. SameLayout(d, m, f) /\ m[f].fileType = d[f].fileType
  BY DEF Steady
<1>5. Tables(m[f]) = Tables(d[f])
  BY <1>4 DEF SameLayout, Tables
<1>6. d2[f] = d[f] /\ \A r \in Tables(d[f]) : d2[r] = d[r]
  BY <1>2, <1>3, <1>5 DEF OnlyAt
<1>7. \A r \in Tables(d2[f]) : e[r] = d2[r]
  BY <1>3, <1>4, <1>5, <1>6 DEF SameLayout
<1> QED BY <1>3, <1>4, <1>6, <1>7 DEF SameLayout

\* ReadSector or WriteSector, and rw_V.
LEMMA TransferContent ==
    ASSUME FilesInv, TransferInv, ContentInv, NEW t \in Thread, TransferSector(t)
    PROVE  ContentInv'
<1> PICK z : z = xfer[t]
  OBVIOUS
<1> PICK i : i = z.done + 1
  OBVIOUS
<1> PICK s : s = z.sectors[i]
  OBVIOUS
<1> PICK pc : pc = IF i = Len(z.sectors) THEN "done" ELSE "io"
  OBVIOUS
<1> PICK buf : buf = IF z.op = "read" THEN Append(z.buf, BytesAt(disk, s)) ELSE z.buf
  OBVIOUS
<1> PICK y : y = [z EXCEPT !.done = i, !.pc = pc, !.buf = buf]
  OBVIOUS
<1> PICK x2 : x2 = xfer'
  OBVIOUS
<1> PICK d2 : d2 = disk'
  OBVIOUS
<1>0. Progress(z) /\ DOMAIN xfer = Thread /\ DOMAIN z = TransferField
  BY DEF TransferInv, Progress
<1>1. /\ machine = "up" /\ z.pc = "io"
      /\ UNCHANGED <<todo, machine, handle, shadow>>
      /\ z.op # "write" => d2 = disk
      /\ z.op = "write" => d2 = [disk EXCEPT ![s] = Data(z.buf[i])]
  BY DEF TransferSector
<1>2. x2 = [xfer EXCEPT ![t] = y]
  <2>1. xfer' = [xfer EXCEPT ![t].done = i, ![t].pc = pc, ![t].buf = buf]
    BY <1>0 DEF TransferSector, TransferField
  <2> QED BY <1>0, <2>1
<1>3. /\ y.pc = pc /\ y.locked = z.locked /\ y.done = i /\ y.sectors = z.sectors /\ y.buf = buf
      /\ y.op = z.op /\ y.pos = z.pos /\ y.len = z.len /\ y.solo = z.solo /\ y.want = z.want
  BY <1>0 DEF TransferField
<1>4. x2[t] = y /\ \A u \in Thread : u # t => x2[u] = xfer[u]
  BY <1>0, <1>2
<1>5. z.done \in Nat /\ z.locked = Len(z.sectors) /\ i \in 1..z.locked /\ z.locked \in Nat
      /\ pc \in {"io", "done"}
  BY <1>0, <1>1 DEF Progress
<1>6. Aside(t, handle, xfer, handle, x2) /\ FewerWriters(handle, xfer, handle, x2)
  <2>1. Aside(t, handle, xfer, handle, x2)
    BY <1>4 DEF Aside
  <2>2. \A v \in Thread : x2[v].op = xfer[v].op
    BY <1>3, <1>4
  <2> QED BY <2>1, <2>2 DEF FewerWriters
<1>7. ~AtWrite(xfer, t, "arr_P")
  BY <1>1 DEF AtWrite
<1>8. HeadersOnly(todo, handle, x2)
  BY <1>6, <1>7, AsideHeaders DEF ContentInv
<1>9. DOMAIN shadow = Sector /\ LockedReal(x2)
  <2> SUFFICES ASSUME NEW u \in Thread, x2[u].op \in {"read", "write"}, NEW j \in 1..x2[u].locked
               PROVE  x2[u].sectors[j] # NoSector
    BY DEF LockedReal, ContentInv
  <2>1. x2[u].op = xfer[u].op /\ x2[u].sectors = xfer[u].sectors /\ x2[u].locked = xfer[u].locked
    BY <1>3, <1>4
  <2> QED BY <2>1 DEF ContentInv, LockedReal
<1>10. CASE z.op # "write"
  <2>1. ~AtWrite(xfer, t, "io") /\ ~AtWrite(x2, t, "io")
    BY <1>3, <1>4, <1>10 DEF AtWrite
  <2>2. ASSUME NEW e, NEW r, Coming(disk, todo, e, r, handle, xfer, shadow)
        PROVE  Steady(disk, e, handle) /\ Exact(e, r, handle, x2, shadow)
    <3>1. PICK F, G, tg : Sound(e, F, G, tg, handle, xfer)
      BY <2>2 DEF Coming
    <3>2. Steady(disk, e, handle) /\ Exact(e, r, handle, xfer, shadow)
      BY <2>2 DEF Coming
    <3>3. RequestExact(e, t, handle, x2, shadow)
      <4>1. CASE z.op = "read"
        <5>1. RequestExact(e, t, handle, xfer, shadow) /\ RequestExact(disk, t, handle, xfer, shadow)
          BY <1>1, <3>2, NowExact DEF Exact
        <5>2. /\ handle[t] # NoSector /\ e[handle[t]].fileType = 0
              /\ Spans(e, handle[t], z, shadow[handle[t]])
              /\ ReaderExact(e, z) /\ ReaderExact(disk, z)
          BY <4>1, <5>1 DEF RequestExact
        <5>3. y.buf = Append(z.buf, BytesAt(disk, z.sectors[z.done + 1])) /\ y.done = z.done + 1
          BY <1>3, <4>1
        <5>4. ReaderExact(e, y)
          <6>1. Progress(z) /\ z.pc = "io" /\ Spans(e, handle[t], z, shadow[handle[t]])
                /\ ReaderExact(e, z) /\ ReaderExact(disk, z)
            BY <1>0, <1>1, <5>2
          <6>2. /\ y.pos = z.pos /\ y.len = z.len /\ y.sectors = z.sectors /\ y.want = z.want
                /\ y.done = z.done + 1 /\ y.buf = Append(z.buf, BytesAt(disk, z.sectors[z.done + 1]))
            BY <1>3, <5>3
          <6> QED BY ONLY <6>1, <6>2, ReadOn
        <5>5. Spans(e, handle[t], y, shadow[handle[t]])
          BY <1>3, <5>2 DEF Spans
        <5> QED BY <1>3, <1>4, <1>5, <4>1, <5>2, <5>4, <5>5 DEF RequestExact
      <4>2. CASE z.op # "read"
        <5>1. x2[t].op \notin {"read", "write"}
          BY <1>3, <1>4, <1>10, <4>2
        <5> QED BY <5>1 DEF RequestExact
      <4> QED BY <4>1, <4>2
    <3> QED BY <1>6, <1>7, <2>1, <3>1, <3>2, <3>3, AsideExact
  <2>3. KeepsExact(disk, todo, handle, xfer, shadow, handle, x2, shadow)
    BY <2>2 DEF KeepsExact
  <2>4. disk' = disk
    BY <1>1, <1>10
  <2> QED BY <1>1, <1>8, <1>9, <2>3, <2>4, MoveContent
<1>11. CASE z.op = "write"
  <2>1. DOMAIN disk = Sector
    BY DEF FilesInv, SoundDisk, Sound, Shape
  <2>2. DOMAIN d2 = Sector /\ OnlyAt(disk, d2, s) /\ (s \in Sector => d2[s] = Data(z.buf[i]))
    BY <1>1, <1>11, <2>1 DEF OnlyAt
  <2>3. HoldsAlone(xfer)
    BY MutexesAlone
  <2>4. Len(todo) \in Nat
    BY DEF FilesInv
  <2>5. ASSUME NEW k \in 0..Len(todo), NEW e, Reaches(d2, todo, k, e), NoStop(todo, k)
        PROVE  Steady(d2, e, handle) /\ Exact(e, Len(todo) - k, handle, x2, shadow)
    <3>1. PICK m : /\ Reaches(disk, todo, k, m) /\ OnlyAt(m, e, s)
                   /\ NotWritten(todo, k, s) /\ s \in Sector => e[s] = d2[s]
      BY <2>2, <2>5, ReachesBack
    <3>2. Steady(disk, m, handle) /\ Exact(m, Len(todo) - k, handle, xfer, shadow)
      BY <1>1, <2>5, <3>1 DEF ContentInv, ExactLater
    <3>3. PICK F, G, tg : Sound(m, F, G, tg, handle, xfer)
      BY <1>1, <2>5, <3>1 DEF FilesInv, Safe, SoundDisk
    <3> PICK h : h = handle[t]
      OBVIOUS
    <3>4. h \in F /\ WritesInside(m, h, z)
      BY <1>11, <3>3 DEF Sound, UsersOK, WritesInside
    <3>5. PICK l \in 1..m[h].numSectors : s = DataSector(m, m[h], l)
      BY <1>5, <3>4 DEF WritesInside
    <3>6. s \in Sector
      <4>1. HeaderOK(m, h)
        BY <3>3, <3>4 DEF Sound, Shape
      <4>2. s # NoSector
        BY <1>5, <1>11 DEF ContentInv, LockedReal
      <4> QED BY <3>5, <4>1, <4>2 DEF HeaderOK
    <3>7. Rewritten(m, e, F, h, s)
      <4>1. DOMAIN e = Sector /\ m[h].fileType = 0
        BY <2>5, <3>4 DEF Reaches, WritesInside
      <4> QED BY <3>1, <3>3, <3>4, <3>5, <3>6, <4>1, RewrittenDisk
    <3>8. e[s] = Data(z.buf[i])
      <4>1. \A f \in F : f # s
        BY <3>7 DEF Rewritten
      <4>2. NotWritten(todo, k, s)
        BY <1>11, <2>4, <3>3, <4>1, PendingHeaders DEF ContentInv
      <4> QED BY <2>2, <3>1, <3>6, <4>2
    <3>9. BytesAt(e, s) = z.buf[i]
      <4>1. s # NoSector
        BY <3>6, SizesAssumption DEF Sector, NoSector
      <4> QED BY <3>8, <4>1 DEF BytesAt, Data
    <3>10. Steady(d2, e, handle)
      BY <2>2, <3>2, <3>3, <3>7, PartSteady
    <3>11. PartWritten(m, e, Len(todo) - k, handle, xfer, shadow, t, x2, i, s)
      <4>1. buf = z.buf
        BY <1>11
      <4>2. \E F1, G1, tg1 : Sound(m, F1, G1, tg1, handle, xfer) /\ handle[t] \in F1
                             /\ Rewritten(m, e, F1, handle[t], s)
        BY <3>3, <3>4, <3>7
      <4>3. /\ xfer[t].op = "write" /\ xfer[t].pc = "io" /\ i = xfer[t].done + 1
            /\ s = xfer[t].sectors[i] /\ i \in 1..Len(xfer[t].sectors)
            /\ BytesAt(e, s) = xfer[t].buf[i]
        BY <1>1, <1>5, <1>11, <3>9
      <4>4. /\ x2[t].op = "write" /\ x2[t].pos = xfer[t].pos /\ x2[t].len = xfer[t].len
            /\ x2[t].solo = xfer[t].solo /\ x2[t].sectors = xfer[t].sectors
            /\ x2[t].buf = xfer[t].buf /\ x2[t].done = i
            /\ x2[t].pc = IF i = Len(xfer[t].sectors) THEN "done" ELSE "io"
        BY <1>3, <1>4, <1>11, <4>1
      <4> QED BY <1>6, <2>3, <3>2, <3>6, <4>2, <4>3, <4>4 DEF PartWritten
    <3>12. \A f \in FilesOn(e) \cup Opened(handle) : FileExact(e, f, Len(todo) - k, handle, x2, shadow)
      BY <3>11, PartText
    <3>13. \A u \in Thread : RequestExact(e, u, handle, x2, shadow)
      BY <3>11, PartRequest
    <3> QED BY <3>10, <3>12, <3>13 DEF Exact
  <2>6. ExactLater(d2, todo, handle, x2, shadow)
    BY <2>5 DEF ExactLater
  <2> QED BY <1>1, <1>8, <1>9, <2>6 DEF ContentInv
<1> QED BY <1>10, <1>11

-----------------------------------------------------------------------------
(***************************************************************************)
(* WriteAt begins.                                                         *)
(***************************************************************************)
GrownTo(old, bytes) == [old EXCEPT !.numBytes = bytes]

\* The request, and the bytes it was made from.
WriteParts(pos, n, t, same) ==
    [i \in 1..Last(pos, n) - First(pos) + 1 |-> SectorOf(Overwrite(same, pos, n, t), First(pos) + i)]
WriteStarts(t, pos, n, old, hdr, same, after) ==
    /\ \A s \in Sector : after[s] = disk[s]
    /\ hdr = IF pos + n > old.numBytes THEN GrownTo(old, pos + n) ELSE old
    /\ pos + n > old.numBytes => divRoundUp(pos + n, SectorSize) <= old.numSectors
    /\ same = IF pos + n > old.numBytes THEN Grown(shadow[handle[t]], after, hdr) ELSE FileBytes(disk, old)
    /\ MayWrite(t, old, pos, n)
    /\ todo' = IF pos + n > old.numBytes THEN <<Write(handle[t], hdr)>> ELSE <<>>
    /\ shadow' = IF pos + n > old.numBytes THEN [shadow EXCEPT ![handle[t]] = same] ELSE shadow
    /\ xfer' = [xfer EXCEPT ![t] = Request(pos, n, ~Aligned(old, pos, n), Sectors(after, hdr, pos, n),
                                           WriteParts(pos, n, t, same))]

\* A file that grows within its last sector gets no sector, only a new size.
LEMMA GrownHeader ==
    ASSUME NEW d, NEW old, Fields(old), NEW map, NEW extra \in Nat \ {0}, NEW b, b = old.numBytes + extra,
           NEW e, e = ExtendAllocate(d, old, map, extra), e.writes = <<>>
    PROVE  /\ e.hdr = GrownTo(old, b)
           /\ divRoundUp(b, SectorSize) <= old.numSectors
<1>0. old.numBytes \in Nat /\ old.numSectors \in Nat
  BY DEF Fields
<1>2. /\ divRoundUp(old.numBytes + extra, SectorSize) <= old.numSectors
      /\ e.hdr = [old EXCEPT !.numBytes = @ + extra]
  BY <1>0, ExtendFits
<1>4. e.hdr = GrownTo(old, b)
  BY <1>2 DEF GrownTo
<1> QED BY <1>2, <1>4

\* What WriteAt does when files do not get new sectors.
LEMMA WriteIs ==
    ASSUME ~Extending, NEW t, NEW pos \in Nat, NEW n \in Nat \ {0}, WriteAt(t, pos, n),
           NEW old, old = disk[handle[t]], Fields(old)
    PROVE  \E hdr, same, after : WriteStarts(t, pos, n, old, hdr, same, after)
<1> DEFINE grows == pos + n > old.numBytes
           e == IF grows THEN ExtendAllocate(disk, old, FreeMap, pos + n - old.numBytes)
                ELSE [ok |-> TRUE, hdr |-> old, writes |-> <<>>]
           after == [s \in Sector |-> Written(disk, e.writes, s)]
           same == IF grows THEN Grown(shadow[handle[t]], after, e.hdr)
                   ELSE FileBytes(disk, old)
           y == Request(pos, n, ~Aligned(old, pos, n), Sectors(after, e.hdr, pos, n),
                        WriteParts(pos, n, t, same))
<1>1. /\ MayWrite(t, old, pos, n)
      /\ Extending \/ e.writes = <<>>
      /\ todo' = IF grows THEN e.writes \o <<Write(handle[t], e.hdr)>> ELSE <<>>
      /\ shadow' = IF grows THEN [shadow EXCEPT ![handle[t]] = same] ELSE shadow
      /\ xfer' = [xfer EXCEPT ![t] = y]
  BY Zenon DEF WriteAt, Request, WriteParts
<1>2. e = IF grows THEN ExtendAllocate(disk, old, FreeMap, pos + n - old.numBytes)
          ELSE [ok |-> TRUE, hdr |-> old, writes |-> <<>>]
  OBVIOUS
<1>3. after = [s \in Sector |-> Written(disk, e.writes, s)]
  OBVIOUS
<1> HIDE DEF y, e, after, same
<1>4. e.writes = <<>>
  BY <1>1
<1>5. \A s \in Sector : after[s] = disk[s]
  BY <1>3, <1>4, WrittenNone
<1>6. /\ e.hdr = IF grows THEN GrownTo(old, pos + n) ELSE old
      /\ grows => divRoundUp(pos + n, SectorSize) <= old.numSectors
  <2>1. CASE grows
    <3>0. old.numBytes \in Nat
      BY DEF Fields
    <3> PICK extra \in Nat \ {0} : extra = pos + n - old.numBytes
      BY <2>1, <3>0
    <3> PICK b : b = old.numBytes + extra
      OBVIOUS
    <3>1. e = ExtendAllocate(disk, old, FreeMap, extra)
      BY <1>2, <2>1
    <3>2. b = pos + n
      BY <3>0
    <3>3. /\ e.hdr = GrownTo(old, b)
          /\ divRoundUp(b, SectorSize) <= old.numSectors
      BY <1>4, <3>1, GrownHeader
    <3> QED BY <2>1, <3>2, <3>3
  <2>2. CASE ~grows
    BY <1>2, <2>2
  <2> QED BY <2>1, <2>2
<1>7. todo' = IF grows THEN <<Write(handle[t], e.hdr)>> ELSE <<>>
  <2> PICK c : c = Write(handle[t], e.hdr)
    OBVIOUS
  <2>1. <<>> \o <<c>> = <<c>>
    OBVIOUS
  <2> QED BY <1>1, <1>4, <2>1
<1>8. y = Request(pos, n, ~Aligned(old, pos, n), Sectors(after, e.hdr, pos, n), WriteParts(pos, n, t, same))
  BY DEF y
<1>9. same = IF grows THEN Grown(shadow[handle[t]], after, e.hdr) ELSE FileBytes(disk, old)
  BY DEF same
<1>10. WriteStarts(t, pos, n, old, e.hdr, same, after)
  BY <1>1, <1>5, <1>6, <1>7, <1>8, <1>9 DEF WriteStarts
<1> QED BY <1>10

\* The header of file h is written; no sector of data, no table, no other header.
Reheaded(d, e, F, h) ==
    /\ FilesOn(e) = FilesOn(d)
    /\ \A f \in F :
          /\ f \in Sector /\ d[f].numSectors \in Nat
          /\ f # h => e[f] = d[f]
          /\ SameLayout(d, e, f) /\ e[f].fileType = d[f].fileType
          /\ \A j \in 1..d[f].numSectors :
                /\ DataSector(e, e[f], j) = DataSector(d, d[f], j)
                /\ BytesAt(e, DataSector(d, d[f], j)) = BytesAt(d, DataSector(d, d[f], j))

\* A new size in a header changes no sector of any file.
LEMMA ReheadedDisk ==
    ASSUME NEW d, NEW F, NEW G, NEW tg, NEW o, NEW x, Sound(d, F, G, tg, o, x), NEW h \in F,
           NEW e, DOMAIN e = Sector, OnlyAt(d, e, h), SameHeader(d[h], e[h])
    PROVE  Reheaded(d, e, F, h)
<1>0. Shape(d, F, G) /\ NoSector \notin Sector
  BY SizesAssumption DEF Sound, NoSector, Sector
<1>1. Spared(d, e, F, G)
  BY <1>0, HeaderSpared DEF OnlyAt
<1>2. SparedSame(d, e, F, G)
  BY <1>1, SoundSpared
<1>3. ASSUME NEW f \in F
      PROVE  /\ HeaderOK(d, f) /\ f \in Sector /\ d[f].numSectors \in Nat
             /\ f # h => e[f] = d[f]
             /\ SameLayout(d, e, f) /\ e[f].fileType = d[f].fileType
             /\ \A j \in 1..d[f].numSectors : DataSector(e, e[f], j) = DataSector(d, d[f], j)
  <2>1. HeaderOK(d, f)
    BY <1>0 DEF Shape
  <2>2. f \in Sector /\ d[f].numSectors \in Nat
    BY <2>1 DEF HeaderOK, Fields
  <2>3. SameLayout(d, e, f) /\ e[f].fileType = d[f].fileType
    BY <1>1 DEF Spared, SameHeader, SameLayout
  <2>4. f # h => e[f] = d[f]
    BY <2>2 DEF OnlyAt
  <2> QED BY <2>1, <2>2, <2>3, <2>4, LayoutKept
<1>4. ASSUME NEW f \in F, NEW j \in 1..d[f].numSectors, NEW s, s = DataSector(d, d[f], j)
      PROVE  BytesAt(e, s) = BytesAt(d, s)
  <2>1. CASE s = NoSector
    BY <2>1 DEF BytesAt
  <2>2. CASE s # NoSector
    <3>1. HeaderOK(d, f) /\ HeaderOK(d, h)
      BY <1>3
    <3>2. s \in Sector
      BY <1>4, <2>2, <3>1 DEF HeaderOK
    <3>3. s # h
      <4>1. CASE f = h
        BY <1>4, <3>1, <4>1 DEF HeaderOK
      <4>2. CASE f # h
        <5>1. OwnedBy(d, f) \cap OwnedBy(d, h) = {}
          BY <1>0, <4>2 DEF Shape, NoneShared
        <5>2. s \in OwnedBy(d, f) /\ h \in OwnedBy(d, h)
          BY <1>4, <2>2, <3>1, Owns
        <5> QED BY <5>1, <5>2
      <4> QED BY <4>1, <4>2
    <3>4. e[s] = d[s]
      BY <3>2, <3>3 DEF OnlyAt
    <3> QED BY <3>4 DEF BytesAt
  <2> QED BY <2>1, <2>2
<1>5. FilesOn(e) = FilesOn(d)
  <2>1. /\ DirsOn(d) \subseteq G /\ FilesOn(d) \subseteq F /\ G \subseteq F
        /\ DirectorySector \in G /\ DirectorySector \in DirsOn(d)
        /\ \A D \in DirsOn(d) : HeadersOn(d, D) \subseteq FilesOn(d)
    BY <1>0, FilesWithin DEF Shape, DirsOn
  <2>2. ASSUME NEW D \in G PROVE HeadersOn(e, D) = HeadersOn(d, D)
    BY <1>2 DEF SparedSame, HeadersOn
  <2>3. DirsOn(e) = DirsOn(d)
    <3>1. \A f \in HeadersOn(d, DirectorySector) : e[f].fileType = d[f].fileType
      BY <1>3, <2>1
    <3> QED BY <2>1, <2>2, <3>1 DEF DirsOn
  <2>4. \A D \in DirsOn(d) : HeadersOn(e, D) = HeadersOn(d, D)
    BY <2>1, <2>2
  <2> QED BY <2>3, <2>4 DEF FilesOn
<1>6. ASSUME NEW f \in F, NEW j \in 1..d[f].numSectors
      PROVE  BytesAt(e, DataSector(d, d[f], j)) = BytesAt(d, DataSector(d, d[f], j))
  BY <1>4
<1> QED BY <1>3, <1>5, <1>6 DEF Reheaded

\* Thread t begins to write to its file, which has M bytes from now on.
OneWriter(t, o, x, x2, solo) ==
    /\ x[t].op # "write"
    /\ \A u \in Thread : o[u] = o[t] /\ x[u].op = "write" => ~x[u].solo /\ ~solo
GrownBytes(d, h, b, M, c) ==
    c = [i \in 1..M |-> IF i <= d[h].numBytes THEN b[i] ELSE BytesAt(d, PlaceOf(d, h, i))[OffsetOf(i)]]
Begun(d, e, r, o, x, sh, t, x2, sh2, M, same) ==
    /\ \E F, G, tg : Sound(d, F, G, tg, o, x) /\ o[t] \in F /\ Reheaded(d, e, F, o[t])
    /\ Exact(d, 0, o, x, sh)
    /\ Aside(t, o, x, o, x2)
    /\ OneWriter(t, o, x, x2, x2[t].solo)
    /\ d[o[t]].fileType = 0
    /\ x2[t].op = "write" /\ x2[t].pc = "arr_P"
    /\ M \in Nat /\ d[o[t]].numBytes <= M /\ divRoundUp(M, SectorSize) <= d[o[t]].numSectors
    /\ M # d[o[t]].numBytes => x2[t].solo
    /\ e[o[t]].numBytes <= M /\ (r = 0 => e[o[t]].numBytes = M)
    /\ \A f \in Sector : f # o[t] => sh2[f] = sh[f]
    /\ GrownBytes(d, o[t], sh[o[t]], M, sh2[o[t]])
    /\ Spans(e, o[t], x2[t], sh2[o[t]])
    /\ ~x2[t].solo => x2[t].pos % SectorSize = 0 /\ x2[t].len % SectorSize = 0
    /\ same = [i \in 1..M |-> same[i]]
    /\ x2[t].solo => \A k \in 1..M : same[k] = sh2[o[t]][k]
    /\ x2[t].buf = WriteParts(x2[t].pos, x2[t].len, t, same)

\* The files.
LEMMA BegunText ==
    ASSUME NEW d, NEW e, NEW r, NEW o, NEW x, NEW sh, NEW t \in Thread, NEW x2, NEW sh2, NEW M, NEW same,
           Begun(d, e, r, o, x, sh, t, x2, sh2, M, same), NEW f \in FilesOn(e) \cup Opened(o)
    PROVE  FileExact(e, f, r, o, x2, sh2)
<1>1. PICK F, G, tg : Sound(d, F, G, tg, o, x) /\ o[t] \in F /\ Reheaded(d, e, F, o[t])
  BY DEF Begun
<1>2. /\ Exact(d, 0, o, x, sh) /\ Aside(t, o, x, o, x2) /\ x[t].op # "write"
      /\ x2[t].op = "write" /\ x2[t].pc = "arr_P"
  BY DEF Begun, OneWriter
<1>3. f \in F /\ f \in FilesOn(d) \cup Opened(o)
  <2>1. FilesOn(e) = FilesOn(d)
    BY <1>1 DEF Reheaded
  <2>2. Shape(d, F, G) /\ UsersOK(d, F, o, x)
    BY <1>1 DEF Sound
  <2> QED BY <2>1, <2>2, FilesWithin DEF UsersOK, Opened
<1>4. FileExact(d, f, 0, o, x, sh)
  BY <1>2, <1>3 DEF Exact
<1>5. /\ f \in Sector /\ d[f].numSectors \in Nat
      /\ f # o[t] => e[f] = d[f]
      /\ e[f].fileType = d[f].fileType /\ e[f].numSectors = d[f].numSectors
      /\ \A j \in 1..d[f].numSectors :
                /\ DataSector(e, e[f], j) = DataSector(d, d[f], j)
                /\ BytesAt(e, DataSector(d, d[f], j)) = BytesAt(d, DataSector(d, d[f], j))
  BY <1>1, <1>3 DEF Reheaded, SameLayout
<1>6. SamePending(o, x, o, x2, f)
  BY <1>2 DEF SamePending, Pending, Aside
<1>7. CASE f # o[t]
  <2>1. SameText(d, e, f)
    BY <1>5, <1>7 DEF SameText, SameData
  <2>2. SameBeginning(0, o, x, r, o, x2, f)
    BY DEF SameBeginning
  <2>3. sh2[f] = sh[f]
    BY <1>5, <1>7 DEF Begun
  <2> QED BY <1>4, <1>5, <1>6, <2>1, <2>2, <2>3, TextKept
<1>8. CASE f = o[t]
  <2>1. /\ d[f].fileType = 0 /\ M \in Nat /\ d[f].numBytes <= M /\ divRoundUp(M, SectorSize) <= d[f].numSectors
        /\ M # d[f].numBytes => x2[t].solo
        /\ e[f].numBytes <= M /\ (r = 0 => e[f].numBytes = M)
        /\ GrownBytes(d, f, sh[f], M, sh2[f]) /\ OneWriter(t, o, x, x2, x2[t].solo)
    BY <1>8 DEF Begun
  <2>2. PICK n : BytesExact(d, f, n, 0, o, x, sh[f])
    BY <1>4, <2>1 DEF FileExact
  <2>3. n \in Nat /\ d[f].numBytes = n /\ \A i \in 1..n : ByteExact(d, f, i, sh[f][i], o, x)
    BY <2>2 DEF BytesExact
  <2>4. sh2[f] = [i \in 1..M |-> IF i <= n THEN sh[f][i] ELSE BytesAt(d, PlaceOf(d, f, i))[OffsetOf(i)]]
    BY <2>1, <2>3 DEF GrownBytes
  <2>5. Beginning(o, x2, f)
    BY <1>2, <1>8 DEF Beginning
  <2>6. sh2[f] = [i \in 1..M |-> sh2[f][i]]
    BY <2>4
  <2>7. ASSUME NEW i \in 1..M PROVE ByteExact(e, f, i, sh2[f][i], o, x2)
    <3>1. IndexOf(i) \in 1..d[f].numSectors
      BY <1>5, <2>1, ByteInside
    <3>2. /\ PlaceOf(e, f, i) = PlaceOf(d, f, i)
          /\ BytesAt(e, PlaceOf(d, f, i)) = BytesAt(d, PlaceOf(d, f, i))
      BY <1>5, <3>1 DEF PlaceOf
    <3>3. CASE i <= n
      <4>1. sh2[f][i] = sh[f][i] /\ i \in 1..n
        BY <2>3, <2>4, <3>3
      <4>2. ByteExact(d, f, i, sh2[f][i], o, x)
        BY <2>3, <4>1
      <4> QED BY <1>6, <3>2, <4>2, ByteKept
    <3>4. CASE ~(i <= n)
      <4>1. sh2[f][i] = BytesAt(d, PlaceOf(d, f, i))[OffsetOf(i)]
        BY <2>4, <3>4
      <4>2. M # n
        BY <2>1, <2>3, <3>4
      <4>3. \A u \in Thread : o[u] = f => x[u].op # "write"
        BY <1>8, <2>1, <2>3, <4>2 DEF OneWriter
      <4>4. \A s, u, j : ~Pending(o, x2, f, s, u, j)
        <5>1. \A s, u, j : ~Pending(o, x, f, s, u, j)
          BY <4>3 DEF Pending
        <5> QED BY <1>6, <5>1 DEF SamePending
      <4> QED BY <3>2, <4>1, <4>4 DEF ByteExact
    <3> QED BY <3>3, <3>4
  <2>8. BytesExact(e, f, M, r, o, x2, sh2[f])
    BY <1>5, <2>1, <2>5, <2>6, <2>7 DEF BytesExact
  <2> QED BY <1>5, <2>1, <2>8 DEF FileExact
<1> QED BY <1>7, <1>8

\* The requests of the other threads.
LEMMA BegunRequest ==
    ASSUME NEW d, NEW e, NEW r, NEW o, NEW x, NEW sh, NEW t \in Thread, NEW x2, NEW sh2, NEW M, NEW same,
           Begun(d, e, r, o, x, sh, t, x2, sh2, M, same), NEW u \in Thread, u # t
    PROVE  RequestExact(e, u, o, x2, sh2)
<1>1. PICK F, G, tg : Sound(d, F, G, tg, o, x) /\ o[t] \in F /\ Reheaded(d, e, F, o[t])
  BY DEF Begun
<1>2. /\ Exact(d, 0, o, x, sh) /\ Aside(t, o, x, o, x2) /\ OneWriter(t, o, x, x2, x2[t].solo)
      /\ \A f \in Sector : f # o[t] => sh2[f] = sh[f]
  BY DEF Begun
<1>3. RequestExact(d, u, o, x, sh) /\ x2[u] = x[u]
  BY <1>2 DEF Exact, Aside
<1> PICK h : h = o[u]
  OBVIOUS
<1> PICK y : y = x[u]
  OBVIOUS
<1>4. CASE y.op \notin {"read", "write"}
  BY <1>3, <1>4 DEF RequestExact
<1>5. CASE y.op \in {"read", "write"}
  <2>1. y.pc # "idle" /\ h # NoSector /\ d[h].fileType = 0 /\ Spans(d, h, y, sh[h])
    BY <1>3, <1>5 DEF RequestExact
  <2>2. h \in F
    BY <1>1, <2>1 DEF Sound, UsersOK
  <2>3. /\ h \in Sector /\ d[h].numSectors \in Nat /\ e[h].fileType = d[h].fileType
        /\ \A j \in 1..d[h].numSectors :
              /\ DataSector(e, e[h], j) = DataSector(d, d[h], j)
              /\ BytesAt(e, DataSector(d, d[h], j)) = BytesAt(d, DataSector(d, d[h], j))
    BY <1>1, <2>2 DEF Reheaded
  <2>4. PICK n : BytesExact(d, h, n, 0, o, x, sh[h])
    <3>1. FileExact(d, h, 0, o, x, sh)
      BY <1>2, <2>1 DEF Exact, Opened
    <3> QED BY <2>1, <3>1 DEF FileExact
  <2>5. /\ n \in Nat /\ sh[h] = [k \in 1..n |-> sh[h][k]] /\ d[h].numBytes = n
        /\ divRoundUp(n, SectorSize) <= d[h].numSectors
    BY <2>4 DEF BytesExact
  <2>6. DOMAIN sh[h] = 1..n
    BY <2>5
  <2>7. Spans(e, h, y, sh[h])
    <3>1. \A j \in 1..d[h].numSectors : DataSector(e, e[h], j) = DataSector(d, d[h], j)
      BY <2>3
    <3>2. y.pos = y.pos /\ y.len = y.len /\ y.sectors = y.sectors
      OBVIOUS
    <3> QED BY <2>1, <2>3, <2>5, <2>6, <3>1, <3>2, InsideKept
  <2>8. ASSUME h = o[t]
        PROVE  (y.op = "write" => WriterExact(u, h, y, o, x2, sh2[h])) /\ Spans(e, h, y, sh2[h])
    <3>0. M \in Nat /\ n <= M /\ GrownBytes(d, h, sh[h], M, sh2[h]) /\ (M # n => x2[t].solo)
      BY <2>5, <2>8 DEF Begun
    <3>1. sh2[h] = [i \in 1..M |-> IF i <= n THEN sh[h][i] ELSE BytesAt(d, PlaceOf(d, h, i))[OffsetOf(i)]]
      BY <2>5, <3>0 DEF GrownBytes
    <3>2. DOMAIN sh2[h] = 1..M
      BY <3>1
    <3>3. y.pos + y.len \in DOMAIN sh2[h]
      <4>1. y.pos \in Nat /\ y.len \in Nat /\ y.pos + y.len \in 1..n
        BY <2>1, <2>6 DEF Spans
      <4> QED BY <2>5, <3>0, <3>2, <4>1
    <3>4. Spans(e, h, y, sh2[h])
      BY <2>7, <3>3 DEF Spans
    <3>5. ASSUME y.op = "write" PROVE WriterExact(u, h, y, o, x2, sh2[h])
      <4>1. ~y.solo /\ ~x2[t].solo
        BY <1>2, <2>8, <3>5 DEF OneWriter
      <4>2. M = n
        BY <3>0, <4>1
      <4>3. sh2[h] = sh[h]
        <5>1. \A i \in 1..n : i <= n
          BY <2>5
        <5>2. sh2[h] = [i \in 1..n |-> sh[h][i]]
          BY <3>1, <4>2, <5>1
        <5> QED BY <2>5, <5>2
      <4>4. WriterExact(u, h, y, o, x, sh[h])
        BY <1>3, <3>5 DEF RequestExact
      <4> QED BY <4>1, <4>3, <4>4 DEF WriterExact
    <3>6. (y.op = "write" => WriterExact(u, h, y, o, x2, sh2[h])) /\ Spans(e, h, y, sh2[h])
      BY <3>4, <3>5
    <3> QED BY <3>6
  <2>9. ASSUME h # o[t]
        PROVE  (y.op = "write" => WriterExact(u, h, y, o, x2, sh2[h])) /\ Spans(e, h, y, sh2[h])
    <3>1. sh2[h] = sh[h]
      BY <1>2, <2>3, <2>9
    <3>2. ASSUME y.op = "write" PROVE WriterExact(u, h, y, o, x2, sh2[h])
      <4>1. WriterExact(u, h, y, o, x, sh[h])
        BY <1>3, <3>2 DEF RequestExact
      <4>2. \A v \in Thread : o[v] = h /\ x2[v].op = "write" => o[v] = h /\ x[v].op = "write"
        BY <1>2, <2>9 DEF Aside
      <4> QED BY <3>1, <4>1, <4>2 DEF WriterExact
    <3>6. (y.op = "write" => WriterExact(u, h, y, o, x2, sh2[h])) /\ Spans(e, h, y, sh2[h])
      BY <2>7, <3>1, <3>2
    <3> QED BY <3>6
  <2>10. (y.op = "write" => WriterExact(u, h, y, o, x2, sh2[h])) /\ Spans(e, h, y, sh2[h])
    BY <2>8, <2>9
  <2>11. ASSUME y.op = "read" PROVE ReaderExact(e, y)
    <3>1. ReaderExact(d, y)
      BY <1>3, <2>11 DEF RequestExact
    <3>2. ASSUME NEW k \in 1..y.len
          PROVE  BytesAt(e, y.sectors[PartOf(y, y.pos + k)]) = BytesAt(d, y.sectors[PartOf(y, y.pos + k)])
      <4>1. y.pos \in Nat /\ y.len \in Nat \ {0} /\ y.pos + y.len \in 1..n
        BY <2>1, <2>6 DEF Spans
      <4> PICK k2 \in Nat \ {0} : k2 = y.pos + k
        BY <4>1
      <4>2. k2 \in y.pos + 1..y.pos + y.len /\ k2 \in 1..n
        BY <2>5, <4>1, SMTT(30)
      <4> PICK p : p = PartOf(y, k2)
        OBVIOUS
      <4>3. p \in 1..Len(y.sectors)
        BY <2>1, <4>2, PartWithin
      <4>4. y.sectors[p] = PlaceOf(d, h, k2)
        BY <2>1, <4>3, PartPlace
      <4>5. IndexOf(k2) \in 1..d[h].numSectors
        BY <2>3, <2>5, <4>2, ByteInside
      <4> QED BY <2>3, <4>4, <4>5 DEF PlaceOf
    <3> QED BY <3>1, <3>2 DEF ReaderExact
  <2>12. y.pc # "idle" /\ e[h].fileType = 0 /\ h # NoSector
    BY <2>1, <2>3
  <2> QED BY <1>3, <2>10, <2>11, <2>12 DEF RequestExact
<1> QED BY <1>4, <1>5

\* Byte k of a file is in the part of a request that was cut out of it.
LEMMA PartByte ==
    ASSUME NEW b, NEW M \in Nat, b = [i \in 1..M |-> b[i]], NEW k \in 1..M, NEW q, q = IndexOf(k)
    PROVE  SectorOf(b, q)[OffsetOf(k)] = b[k]
<1> PICK z \in Int : z = SectorSize /\ z > 0
  BY SizesAssumption
<1> PICK l \in Int : l = k - 1
  OBVIOUS
<1>1. l \div z \in Int /\ l % z \in 0..z - 1 /\ l = z * (l \div z) + (l % z)
  BY DivMod
<1> PICK a \in Int : a = l \div z
  BY <1>1
<1> PICK c \in 0..z - 1 : c = l % z
  BY <1>1
<1>2. k - 1 = z * a + c
  BY <1>1
<1>3. IndexOf(k) = a + 1 /\ OffsetOf(k) = c + 1
  BY DEF IndexOf, OffsetOf
<1>4. (q - 1) * z + (c + 1) = k
  <2>1. q - 1 = a
    BY <1>3
  <2>2. a * z = z * a /\ z * a \in Int
    OBVIOUS
  <2>3. z * a + (c + 1) = k
    <3> PICK p \in Int : p = z * a
      BY <2>2
    <3>1. k - 1 = p + c /\ k \in Int /\ c \in Int /\ p \in Int
      BY <1>2
    <3>2. p + (c + 1) = k
      BY ONLY <3>1
    <3> QED BY <3>2
  <2> QED BY <2>1, <2>2, <2>3
<1>5. c + 1 \in 1..z
  OBVIOUS
<1>6. Len(b) = M
  OBVIOUS
<1>7. SectorOf(b, q)[c + 1] = b[k]
  <2>1. SectorOf(b, q)[c + 1] = IF (q - 1) * z + (c + 1) <= Len(b) THEN b[(q - 1) * z + (c + 1)] ELSE Garbage
    BY <1>5 DEF SectorOf
  <2> QED BY <1>4, <1>6, <2>1
<1> QED BY <1>3, <1>7

\* The request of thread t.
LEMMA BegunOwn ==
    ASSUME NEW d, NEW e, NEW r, NEW o, NEW x, NEW sh, NEW t \in Thread, NEW x2, NEW sh2, NEW M, NEW same,
           Begun(d, e, r, o, x, sh, t, x2, sh2, M, same)
    PROVE  RequestExact(e, t, o, x2, sh2)
<1> PICK h : h = o[t]
  OBVIOUS
<1> PICK y : y = x2[t]
  OBVIOUS
<1>1. PICK F, G, tg : Sound(d, F, G, tg, o, x) /\ h \in F /\ Reheaded(d, e, F, h)
  BY DEF Begun
<1>2. /\ Aside(t, o, x, o, x2) /\ OneWriter(t, o, x, x2, y.solo) /\ d[h].fileType = 0
      /\ y.op = "write" /\ y.pc = "arr_P" /\ M \in Nat
      /\ GrownBytes(d, h, sh[h], M, sh2[h]) /\ Spans(e, h, y, sh2[h])
      /\ ~y.solo => y.pos % SectorSize = 0 /\ y.len % SectorSize = 0
      /\ same = [i \in 1..M |-> same[i]]
      /\ y.solo => \A k \in 1..M : same[k] = sh2[h][k]
      /\ y.buf = WriteParts(y.pos, y.len, t, same)
  BY DEF Begun
<1>3. h # NoSector /\ e[h].fileType = 0
  BY <1>1, <1>2, SizesAssumption DEF Reheaded, NoSector, Sector
<1>4. y.solo => \A u \in Thread : o[u] = h /\ x2[u].op = "write" => u = t
  BY <1>2 DEF OneWriter, Aside
<1>5. DOMAIN sh2[h] = 1..M
  BY <1>2 DEF GrownBytes
<1>6. /\ y.pos \in Nat /\ y.len \in Nat \ {0}
      /\ Len(y.sectors) = Last(y.pos, y.len) - First(y.pos) + 1
  BY <1>2 DEF Spans
<1>7. ASSUME NEW k \in 1..M, PartOf(y, k) \in 1..Len(y.sectors)
      PROVE  y.buf[PartOf(y, k)][OffsetOf(k)] = IF k > y.pos /\ k <= y.pos + y.len THEN t ELSE sh2[h][k]
  <2> PICK b : b = Overwrite(same, y.pos, y.len, t)
    OBVIOUS
  <2>1. b = [i \in 1..M |-> IF i > y.pos /\ i <= y.pos + y.len THEN t ELSE same[i]]
    BY <1>2, OverwriteAt, SMTT(30)
  <2>2. b = [i \in 1..M |-> b[i]] /\ b[k] = IF k > y.pos /\ k <= y.pos + y.len THEN t ELSE same[k]
    BY <2>1
  <2> PICK j : j = PartOf(y, k)
    OBVIOUS
  <2>3. y.buf[j] = SectorOf(b, First(y.pos) + j)
    BY <1>2, <1>6, <1>7 DEF WriteParts
  <2>4. First(y.pos) + j = IndexOf(k)
    <3>1. First(y.pos) \in Nat
      BY <1>6, SpanBounds
    <3>2. IndexOf(k) \in Int
      BY SizesAssumption DEF IndexOf
    <3> QED BY <3>1, <3>2 DEF PartOf
  <2>5. y.buf[j][OffsetOf(k)] = b[k]
    BY <1>2, <2>2, <2>3, <2>4, PartByte
  <2>6. CASE y.solo
    BY <1>2, <2>2, <2>5, <2>6
  <2>7. CASE ~y.solo
    <3>1. IndexOf(k) - First(y.pos) \in 1..Last(y.pos, y.len) - First(y.pos) + 1
      BY <1>6, <1>7 DEF PartOf
    <3>2. k > y.pos /\ k <= y.pos + y.len
      BY <1>2, <1>6, <2>7, <3>1, AlignedPart
    <3> QED BY <2>2, <2>5, <3>2
  <2> QED BY <2>6, <2>7
<1>8. WriterExact(t, h, y, o, x2, sh2[h])
  BY <1>2, <1>4, <1>5, <1>7 DEF WriterExact
<1> QED BY <1>2, <1>3, <1>8 DEF RequestExact

\* A byte of a file, on a disk that holds the same.
LEMMA BytePlace ==
    ASSUME NEW d, NEW h, HeaderOK(d, h), NEW m, \A s \in Sector : m[s] = d[s],
           NEW hdr, hdr.primaryIndexTable = d[h].primaryIndexTable,
           NEW i, IndexOf(i) \in 1..d[h].numSectors
    PROVE  FileByte(m, hdr, i) = BytesAt(d, PlaceOf(d, h, i))[OffsetOf(i)]
<1> PICK j \in 1..d[h].numSectors : j = IndexOf(i)
  OBVIOUS
<1>0. d[h].numSectors \in Nat
  BY DEF HeaderOK, Fields
<1> PICK k : k = ((j - 1) \div IndexSize) + 1
  OBVIOUS
<1>1. k \in 1..NumTables(d[h].numSectors)
  BY <1>0, TableIndex
<1>2. d[h].primaryIndexTable[k] \in Tables(d[h])
  BY <1>1 DEF Tables
<1>3. d[h].primaryIndexTable[k] \in Sector
  BY <1>2 DEF HeaderOK
<1> PICK s : s = DataSector(d, d[h], j)
  OBVIOUS
<1>4. DataSector(m, hdr, j) = s
  BY <1>3 DEF DataSector
<1>5. s \in Sector \cup {NoSector}
  BY DEF HeaderOK
<1>6. BytesAt(m, s) = BytesAt(d, s)
  BY <1>5 DEF BytesAt
<1>7. FileByte(m, hdr, i) = BytesAt(m, DataSector(m, hdr, IndexOf(i)))[OffsetOf(i)]
  BY Zenon DEF FileByte, IndexOf, OffsetOf
<1> QED BY <1>4, <1>6, <1>7 DEF PlaceOf

\* What WriteAt makes of the bytes of a file that grows.
LEMMA StartGrown ==
    ASSUME NEW d, NEW h, HeaderOK(d, h), NEW m, \A s \in Sector : m[s] = d[s],
           NEW hdr, hdr.primaryIndexTable = d[h].primaryIndexTable, NEW M \in Nat, hdr.numBytes = M,
           divRoundUp(M, SectorSize) <= d[h].numSectors,
           NEW b, b = [i \in 1..d[h].numBytes |-> b[i]], NEW c, c = Grown(b, m, hdr)
    PROVE  GrownBytes(d, h, b, M, c)
<1>0. d[h].numBytes \in Nat /\ d[h].numSectors \in Nat
  BY DEF HeaderOK, Fields
<1>1. Len(b) = d[h].numBytes
  BY <1>0
<1>2. ASSUME NEW i \in 1..M PROVE FileByte(m, hdr, i) = BytesAt(d, PlaceOf(d, h, i))[OffsetOf(i)]
  <2>1. IndexOf(i) \in 1..d[h].numSectors
    BY <1>0, ByteInside
  <2> QED BY <2>1, BytePlace
<1>3. c = [i \in 1..M |-> IF i <= d[h].numBytes THEN b[i] ELSE FileByte(m, hdr, i)]
  BY <1>1 DEF Grown
<1>4. c = [i \in 1..M |-> IF i <= d[h].numBytes THEN b[i] ELSE BytesAt(d, PlaceOf(d, h, i))[OffsetOf(i)]]
  BY <1>2, <1>3
<1> QED BY <1>4 DEF GrownBytes

\* and of a file that does not.
LEMMA StartSame ==
    ASSUME NEW d, NEW h, HeaderOK(d, h), NEW b, b = [i \in 1..d[h].numBytes |-> b[i]]
    PROVE  /\ GrownBytes(d, h, b, d[h].numBytes, b)
           /\ FileBytes(d, d[h]) = [i \in 1..d[h].numBytes |-> FileBytes(d, d[h])[i]]
<1>0. d[h].numBytes \in Nat
  BY DEF HeaderOK, Fields
<1> PICK N \in Nat : N = d[h].numBytes
  BY <1>0
<1>1. \A i \in 1..N : i <= N
  OBVIOUS
<1>2. b = [i \in 1..N |-> IF i <= N THEN b[i] ELSE BytesAt(d, PlaceOf(d, h, i))[OffsetOf(i)]]
  BY <1>1
<1>3. FileBytes(d, d[h]) = [i \in 1..N |-> FileBytes(d, d[h])[i]]
  BY DEF FileBytes
<1> QED BY <1>2, <1>3 DEF GrownBytes

\* With no other writer the bytes of the file are on the disk.
LEMMA StartAlone ==
    ASSUME NEW d, NEW h, HeaderOK(d, h), NEW o, NEW x, NEW b, NEW n, BytesExact(d, h, n, 0, o, x, b),
           \A u \in Thread : o[u] = h => x[u].op # "write", NEW k \in 1..n
    PROVE  FileBytes(d, d[h])[k] = b[k]
<1>1. /\ n \in Nat /\ d[h].numBytes = n /\ ByteExact(d, h, k, b[k], o, x)
      /\ divRoundUp(n, SectorSize) <= d[h].numSectors
  BY DEF BytesExact
<1>2. IndexOf(k) \in 1..d[h].numSectors
  <2>1. d[h].numSectors \in Nat
    BY DEF HeaderOK, Fields
  <2> QED BY <1>1, <2>1, ByteInside
<1>3. NonePending(o, x, h, PlaceOf(d, h, k))
  BY DEF NonePending, Pending
<1>4. b[k] = BytesAt(d, PlaceOf(d, h, k))[OffsetOf(k)]
  BY <1>1, <1>3 DEF ByteExact
<1>5. FileByte(d, d[h], k) = BytesAt(d, PlaceOf(d, h, k))[OffsetOf(k)]
  <2>1. \A s \in Sector : d[s] = d[s]
    OBVIOUS
  <2> QED BY <1>2, <2>1, BytePlace
<1>6. FileBytes(d, d[h])[k] = FileByte(d, d[h], k)
  BY <1>1 DEF FileBytes
<1> QED BY <1>4, <1>5, <1>6

\* The disks that the header's write leads to.
StartDisk(d, h, M, e, r) ==
    /\ DOMAIN e = Sector /\ OnlyAt(d, e, h) /\ SameHeader(d[h], e[h])
    /\ e[h].numBytes <= M /\ (r = 0 => e[h].numBytes = M)

\* A header with a new size is like the old one in all else.
LEMMA GrownFields ==
    ASSUME NEW old, Fields(old), NEW M \in Nat, divRoundUp(M, SectorSize) <= old.numSectors
    PROVE  SameHeader(old, GrownTo(old, M)) /\ GrownTo(old, M).numBytes = M
  BY DEF Fields, SameHeader, HeaderField, GrownTo

\* The disks between the beginning of a write and the write of the header.
LEMMA StartReach ==
    ASSUME NEW d, NEW h, HeaderOK(d, h), NEW M \in Nat, d[h].numBytes <= M,
           divRoundUp(M, SectorSize) <= d[h].numSectors, NEW w,
           \/ w = <<>> /\ M = d[h].numBytes
           \/ w = <<Write(h, GrownTo(d[h], M))>>,
           NEW k \in 0..Len(w), NEW e, Reaches(d, w, k, e)
    PROVE  StartDisk(d, h, M, e, Len(w) - k)
<1>0. Fields(d[h]) /\ h \in Sector /\ SameHeader(d[h], d[h])
  BY DEF HeaderOK, SameHeader
<1>1. CASE k = 0 /\ (w = <<>> /\ M = d[h].numBytes)
  <2>1. DOMAIN e = Sector /\ \A s \in Sector : e[s] = d[s]
    BY <1>1, ReachesNone
  <2> QED BY <1>0, <1>1, <2>1 DEF StartDisk, OnlyAt
<1>2. CASE k = 0 /\ w = <<Write(h, GrownTo(d[h], M))>>
  <2>1. DOMAIN e = Sector /\ \A s \in Sector : e[s] = d[s]
    BY <1>2, ReachesNone
  <2>2. Len(w) = 1
    BY <1>2
  <2> QED BY <1>0, <1>2, <2>1, <2>2 DEF StartDisk, OnlyAt
<1>3. CASE k = 1 /\ w = <<Write(h, GrownTo(d[h], M))>>
  <2> PICK c : c = GrownTo(d[h], M)
    OBVIOUS
  <2>1. Reaches(d, <<Write(h, c)>>, 1, e)
    BY <1>3
  <2>2. DOMAIN e = Sector /\ (h \in Sector => e[h] = c) /\ OnlyAt(d, e, h)
    BY <2>1, ReachesOne
  <2>3. SameHeader(d[h], c) /\ c.numBytes = M
    BY <1>0, GrownFields
  <2> QED BY <1>0, <2>2, <2>3 DEF StartDisk
<1>4. \/ k = 0 /\ (w = <<>> /\ M = d[h].numBytes)
      \/ k = 0 /\ w = <<Write(h, GrownTo(d[h], M))>>
      \/ k = 1 /\ w = <<Write(h, GrownTo(d[h], M))>>
  <2>1. CASE w = <<>> /\ M = d[h].numBytes
    <3>1. Len(w) = 0
      BY <2>1
    <3> QED BY <2>1, <3>1
  <2>2. CASE w = <<Write(h, GrownTo(d[h], M))>>
    <3>1. Len(w) = 1
      BY <2>2
    <3> QED BY <2>2, <3>1
  <2> QED BY <2>1, <2>2
<1> QED BY <1>1, <1>2, <1>3, <1>4

\* The request of WriteAt.
LEMMA RequestAll ==
    ASSUME NEW pos, NEW n, NEW solo, NEW sectors, NEW buf, NEW y, y = Request(pos, n, solo, sectors, buf)
    PROVE  /\ y.pc = "arr_P" /\ y.op = "write" /\ y.pos = pos /\ y.len = n /\ y.solo = solo
           /\ y.sectors = sectors /\ y.buf = buf /\ y.locked = 0 /\ y.done = 0
  BY DEF Request, NoTransfer

\* What WriteAt starts, in terms of the bytes that the file has from now on.
StartText(d, h, b, n, o, x, solo, M, c, same) ==
    /\ M \in Nat /\ n <= M /\ divRoundUp(M, SectorSize) <= d[h].numSectors
    /\ M # n => solo
    /\ GrownBytes(d, h, b, M, c)
    /\ same = [i \in 1..M |-> same[i]]
    /\ solo => \A k \in 1..M : same[k] = c[k]

\* What the file holds, and ought to hold, when the write begins.
LEMMA StartTexts ==
    ASSUME NEW d, NEW h, HeaderOK(d, h), NEW o, NEW x, NEW b, NEW n, BytesExact(d, h, n, 0, o, x, b),
           NEW m, \A s \in Sector : m[s] = d[s], NEW end \in Nat, NEW M, M = IF end > n THEN end ELSE n,
           end > n => divRoundUp(end, SectorSize) <= d[h].numSectors,
           NEW hdr, hdr = IF end > n THEN GrownTo(d[h], end) ELSE d[h],
           NEW same, same = IF end > n THEN Grown(b, m, hdr) ELSE FileBytes(d, d[h]),
           NEW c, c = IF end > n THEN same ELSE b, NEW solo, end > n => solo,
           solo => \A u \in Thread : o[u] = h => x[u].op # "write"
    PROVE  /\ StartText(d, h, b, n, o, x, solo, M, c, same)
           /\ hdr.primaryIndexTable = d[h].primaryIndexTable
<1>1. /\ n \in Nat /\ d[h].numBytes = n /\ b = [i \in 1..n |-> b[i]]
      /\ divRoundUp(n, SectorSize) <= d[h].numSectors
  BY DEF BytesExact
<1>2. b = [i \in 1..d[h].numBytes |-> b[i]] /\ Fields(d[h])
  BY <1>1 DEF HeaderOK
<1>3. CASE end > n
  <2>1. M = end /\ hdr = GrownTo(d[h], M) /\ divRoundUp(M, SectorSize) <= d[h].numSectors /\ M \in Nat /\ n <= M
    BY <1>1, <1>3
  <2>2. hdr.primaryIndexTable = d[h].primaryIndexTable /\ hdr.numBytes = M
    BY <1>2, <2>1, GrownFields DEF SameHeader
  <2>3. c = Grown(b, m, hdr) /\ c = same
    BY <1>3
  <2>4. GrownBytes(d, h, b, M, c)
    BY <1>2, <2>1, <2>2, <2>3, StartGrown
  <2>5. c = [i \in 1..M |-> c[i]]
    BY <2>4 DEF GrownBytes
  <2> QED BY <1>3, <2>1, <2>2, <2>3, <2>4, <2>5 DEF StartText
<1>4. CASE ~(end > n)
  <2>1. M = n /\ hdr = d[h] /\ c = b /\ same = FileBytes(d, d[h])
    BY <1>4
  <2>2. /\ GrownBytes(d, h, b, M, b)
        /\ same = [i \in 1..M |-> same[i]]
    <3>1. /\ GrownBytes(d, h, b, d[h].numBytes, b)
          /\ FileBytes(d, d[h]) = [i \in 1..d[h].numBytes |-> FileBytes(d, d[h])[i]]
      BY <1>2, StartSame
    <3>2. M = d[h].numBytes
      BY <1>1, <2>1
    <3> QED BY <2>1, <3>1, <3>2
  <2>3. ASSUME solo, NEW k \in 1..M PROVE same[k] = c[k]
    <3>1. \A u \in Thread : o[u] = h => x[u].op # "write"
      BY <2>3
    <3>2. k \in 1..n
      BY <2>1
    <3>3. FileBytes(d, d[h])[k] = b[k]
      BY <3>1, <3>2, StartAlone
    <3> QED BY <2>1, <3>3
  <2>4. M \in Nat /\ n <= M /\ divRoundUp(M, SectorSize) <= d[h].numSectors /\ M = n
    BY <1>1, <2>1
  <2>5. GrownBytes(d, h, b, M, c)
    BY <2>1, <2>2
  <2>6. solo => \A k \in 1..M : same[k] = c[k]
    BY <2>3
  <2>7. StartText(d, h, b, n, o, x, solo, M, c, same)
    BY <2>2, <2>4, <2>5, <2>6 DEF StartText
  <2>8. hdr.primaryIndexTable = d[h].primaryIndexTable
    BY <2>1
  <2> QED BY <2>7, <2>8
<1> QED BY <1>3, <1>4

\* WriteAt begins, with the new size of the file yet to be written.
LEMMA WriteAtContent ==
    ASSUME ~Extending, FilesInv, TransferInv, ContentInv, NEW t \in Thread, NEW pos \in Nat, NEW n \in Nat \ {0},
           WriteAt(t, pos, n)
    PROVE  ContentInv'
<1> PICK x2, sh2, w2 : x2 = xfer' /\ sh2 = shadow' /\ w2 = todo'
  OBVIOUS
<1> PICK d, o, x, sh : d = disk /\ o = handle /\ x = xfer /\ sh = shadow
  OBVIOUS
<1> PICK h : h = o[t]
  OBVIOUS
<1> PICK old : old = d[h]
  OBVIOUS
<1>1. /\ machine = "up" /\ todo = <<>> /\ x[t].pc = "idle" /\ h # NoSector /\ old.fileType = 0
      /\ UNCHANGED <<disk, machine, handle>>
  BY DEF WriteAt, CanStart
<1> PICK F, G : F = FilesOn(d) \cup Opened(o) /\ G = DirsOn(d)
  OBVIOUS
<1>2. Exact(d, 0, o, x, sh) /\ Sound(d, F, G, {}, o, x)
  BY <1>1, RestExact
<1>3. h \in F /\ HeaderOK(d, h) /\ Fields(old) /\ h \in Sector
  <2>1. h \in F
    BY <1>1, <1>2 DEF Sound, UsersOK
  <2>2. HeaderOK(d, h)
    BY <1>2, <2>1 DEF Sound, Shape
  <2> QED BY <2>1, <2>2 DEF HeaderOK
<1>4. PICK N : BytesExact(d, h, N, 0, o, x, sh[h])
  <2>1. FileExact(d, h, 0, o, x, sh)
    BY <1>2, <1>3 DEF Exact
  <2> QED BY <1>1, <2>1 DEF FileExact
<1>5. N \in Nat /\ old.numBytes = N
  BY <1>4 DEF BytesExact
<1> PICK end \in Nat : end = pos + n
  OBVIOUS
<1>6. PICK hdr, same, after : WriteStarts(t, pos, n, old, hdr, same, after)
  <2>1. old = disk[handle[t]]
    OBVIOUS
  <2> QED BY <1>3, <2>1, WriteIs
<1> PICK solo : solo = ~Aligned(old, pos, n)
  OBVIOUS
<1> PICK sec : sec = Sectors(after, hdr, pos, n)
  OBVIOUS
<1> PICK y : y = Request(pos, n, solo, sec, WriteParts(pos, n, t, same))
  OBVIOUS
<1>7. /\ \A s \in Sector : after[s] = d[s]
      /\ hdr = IF end > N THEN GrownTo(old, end) ELSE old
      /\ end > N => divRoundUp(end, SectorSize) <= old.numSectors
      /\ same = IF end > N THEN Grown(sh[h], after, hdr) ELSE FileBytes(d, old)
      /\ MayWrite(t, old, pos, n)
      /\ w2 = IF end > N THEN <<Write(h, hdr)>> ELSE <<>>
      /\ sh2 = IF end > N THEN [sh EXCEPT ![h] = same] ELSE sh
      /\ x2 = [x EXCEPT ![t] = y]
  BY <1>5, <1>6 DEF WriteStarts
<1>8. DOMAIN x = Thread /\ DOMAIN sh = Sector
  BY DEF TransferInv, ContentInv
<1>9. Aside(t, o, x, o, x2) /\ x2[t] = y
  BY <1>7, <1>8 DEF Aside
<1>10. /\ y.pc = "arr_P" /\ y.op = "write" /\ y.pos = pos /\ y.len = n /\ y.solo = solo
       /\ y.sectors = sec /\ y.buf = WriteParts(pos, n, t, same) /\ y.locked = 0
  BY RequestAll
<1>11. /\ solo => \A u \in Thread : o[u] = h => x[u].op # "write"
       /\ ~solo => \A u \in Thread : o[u] = h /\ x[u].op = "write" => ~x[u].solo
       /\ ~solo => pos % SectorSize = 0 /\ n % SectorSize = 0
       /\ end > N => solo
  <2>1. solo => Writers(h) = {}
    BY <1>7 DEF MayWrite
  <2>2. ~solo => \A u \in Writers(h) : ~x[u].solo
    BY <1>7 DEF MayWrite
  <2>3. ~solo => pos % SectorSize = 0 /\ n % SectorSize = 0 /\ pos + n <= old.numBytes
    BY DEF Aligned
  <2>4. \A u \in Thread : o[u] = h /\ x[u].op = "write" => u \in Writers(h)
    BY DEF Writers
  <2>5. end > N => solo
    BY <1>5, <2>3
  <2>6. solo => \A u \in Thread : o[u] = h => x[u].op # "write"
    BY <2>1, <2>4
  <2>7. ~solo => \A u \in Thread : o[u] = h /\ x[u].op = "write" => ~x[u].solo
    BY <2>2, <2>4
  <2> QED BY <2>3, <2>5, <2>6, <2>7
<1>12. OneWriter(t, o, x, x2, solo)
  <2>1. x[t].op # "write"
    BY <1>1, <1>2 DEF Exact, RequestExact
  <2> QED BY <1>11, <2>1 DEF OneWriter
<1> PICK M : M = IF end > N THEN end ELSE N
  OBVIOUS
<1>13. /\ sh2[h] = IF end > N THEN same ELSE sh[h]
       /\ \A f \in Sector : f # h => sh2[f] = sh[f]
       /\ DOMAIN sh2 = Sector
  BY <1>3, <1>7, <1>8
<1>14. /\ StartText(d, h, sh[h], N, o, x, solo, M, sh2[h], same)
       /\ hdr.primaryIndexTable = d[h].primaryIndexTable
  <2> PICK b, c : b = sh[h] /\ c = sh2[h]
    OBVIOUS
  <2>1. /\ HeaderOK(d, h) /\ BytesExact(d, h, N, 0, o, x, b)
        /\ \A s \in Sector : after[s] = d[s]
        /\ end \in Nat /\ M = IF end > N THEN end ELSE N
    BY <1>3, <1>4, <1>7
  <2>2. end > N => divRoundUp(end, SectorSize) <= d[h].numSectors
    BY <1>7
  <2>3. /\ hdr = IF end > N THEN GrownTo(d[h], end) ELSE d[h]
        /\ same = IF end > N THEN Grown(b, after, hdr) ELSE FileBytes(d, d[h])
        /\ c = IF end > N THEN same ELSE b
    BY <1>7, <1>13
  <2>4. end > N => solo
    BY <1>11
  <2>5. solo => \A u \in Thread : o[u] = h => x[u].op # "write"
    BY <1>11
  <2>6. /\ StartText(d, h, b, N, o, x, solo, M, c, same)
        /\ hdr.primaryIndexTable = d[h].primaryIndexTable
    BY ONLY <2>1, <2>2, <2>3, <2>4, <2>5, StartTexts
  <2> QED BY <2>6
<1>15. /\ M \in Nat /\ N <= M /\ divRoundUp(M, SectorSize) <= d[h].numSectors
       /\ M # N => solo
       /\ GrownBytes(d, h, sh[h], M, sh2[h])
       /\ same = [i \in 1..M |-> same[i]]
       /\ solo => \A k \in 1..M : same[k] = sh2[h][k]
  BY <1>14 DEF StartText
<1>16. /\ (w2 = <<>> /\ M = d[h].numBytes) \/ w2 = <<Write(h, GrownTo(d[h], M))>>
       /\ \A i \in 1..Len(w2) : w2[i].sector = h
  <2>1. CASE end > N
    <3>1. w2 = <<Write(h, GrownTo(d[h], M))>>
      BY <1>7, <2>1
    <3>2. \A i \in 1..Len(w2) : w2[i].sector = h
      BY <3>1 DEF Write
    <3> QED BY <3>1, <3>2
  <2>2. CASE ~(end > N)
    <3>1. w2 = <<>> /\ M = d[h].numBytes
      BY <1>5, <1>7, <2>2
    <3> QED BY <3>1
  <2> QED BY <2>1, <2>2
<1>17. ASSUME NEW k \in 0..Len(w2), NEW e, Reaches(d, w2, k, e)
       PROVE  Steady(d, e, o) /\ Exact(e, Len(w2) - k, o, x2, sh2)
  <2> PICK r : r = Len(w2) - k
    OBVIOUS
  <2>1. StartDisk(d, h, M, e, r)
    <3>1. HeaderOK(d, h) /\ M \in Nat /\ d[h].numBytes <= M /\ divRoundUp(M, SectorSize) <= d[h].numSectors
      BY <1>3, <1>5, <1>15
    <3>2. (w2 = <<>> /\ M = d[h].numBytes) \/ w2 = <<Write(h, GrownTo(d[h], M))>>
      BY <1>16
    <3> QED BY ONLY <1>17, <3>1, <3>2, StartReach, r = Len(w2) - k
  <2>2. /\ DOMAIN e = Sector /\ OnlyAt(d, e, h) /\ SameHeader(d[h], e[h])
        /\ e[h].numBytes <= M /\ (r = 0 => e[h].numBytes = M)
    BY <2>1 DEF StartDisk
  <2>3. Reheaded(d, e, F, h)
    BY <1>2, <1>3, <2>2, ReheadedDisk
  <2>4. Steady(d, e, o)
    BY <1>2, <2>3 DEF Steady, Reheaded, Sound, UsersOK
  <2>5. Spans(e, h, y, sh2[h])
    <3>1. pos + n <= M
      BY <1>5
    <3>2. SameLayout(d, e, h)
      BY <1>3, <2>3 DEF Reheaded
    <3>3. /\ Len(sec) = Last(pos, n) - First(pos) + 1
          /\ \A j \in 1..Len(sec) : sec[j] = DataSector(e, e[h], First(pos) + j)
      <4>1. /\ HeaderOK(d, h) /\ (\A s \in Sector : after[s] = d[s])
            /\ hdr.primaryIndexTable = d[h].primaryIndexTable /\ SameLayout(d, e, h)
        BY <1>3, <1>7, <1>14, <3>2
      <4>2. /\ pos \in Nat /\ n \in Nat \ {0} /\ M \in Nat /\ pos + n <= M
            /\ divRoundUp(M, SectorSize) <= d[h].numSectors
        BY <1>15, <3>1
      <4>3. sec = Sectors(after, hdr, pos, n)
        OBVIOUS
      <4> QED BY ONLY <4>1, <4>2, <4>3, SpanSectors
    <3>4. DOMAIN sh2[h] = 1..M
      BY <1>15 DEF GrownBytes
    <3>5. y.pos \in Nat /\ y.len \in Nat \ {0} /\ y.pos + y.len \in DOMAIN sh2[h]
      BY <1>10, <1>15, <3>1, <3>4
    <3> QED BY <1>10, <3>3, <3>5 DEF Spans
  <2>6. Begun(d, e, r, o, x, sh, t, x2, sh2, M, same)
    <3>1. \E FF, GG, tg : Sound(d, FF, GG, tg, o, x) /\ o[t] \in FF /\ Reheaded(d, e, FF, o[t])
      BY <1>2, <1>3, <2>3
    <3>2. /\ Exact(d, 0, o, x, sh) /\ Aside(t, o, x, o, x2) /\ OneWriter(t, o, x, x2, x2[t].solo)
          /\ d[o[t]].fileType = 0 /\ x2[t].op = "write" /\ x2[t].pc = "arr_P"
      BY <1>1, <1>2, <1>9, <1>10, <1>12
    <3>3. /\ M \in Nat /\ d[o[t]].numBytes <= M /\ divRoundUp(M, SectorSize) <= d[o[t]].numSectors
          /\ M # d[o[t]].numBytes => x2[t].solo
          /\ e[o[t]].numBytes <= M /\ (r = 0 => e[o[t]].numBytes = M)
      BY <1>5, <1>9, <1>10, <1>15, <2>2
    <3>4. /\ \A f \in Sector : f # o[t] => sh2[f] = sh[f]
          /\ GrownBytes(d, o[t], sh[o[t]], M, sh2[o[t]])
          /\ Spans(e, o[t], x2[t], sh2[o[t]])
      BY <1>9, <1>13, <1>15, <2>5
    <3>5. /\ ~x2[t].solo => x2[t].pos % SectorSize = 0 /\ x2[t].len % SectorSize = 0
          /\ same = [i \in 1..M |-> same[i]]
          /\ x2[t].solo => \A i \in 1..M : same[i] = sh2[o[t]][i]
          /\ x2[t].buf = WriteParts(x2[t].pos, x2[t].len, t, same)
      BY <1>9, <1>10, <1>11, <1>15
    <3> QED BY <3>1, <3>2, <3>3, <3>4, <3>5 DEF Begun
  <2>7. \A f \in FilesOn(e) \cup Opened(o) : FileExact(e, f, r, o, x2, sh2)
    BY <2>6, BegunText
  <2>8. ASSUME NEW u \in Thread PROVE RequestExact(e, u, o, x2, sh2)
    <3>1. CASE u = t
      BY <2>6, <3>1, BegunOwn
    <3>2. CASE u # t
      BY <2>6, <3>2, BegunRequest
    <3> QED BY <3>1, <3>2
  <2> QED BY <2>4, <2>7, <2>8 DEF Exact
<1>18. ExactLater(d, w2, o, x2, sh2)
  BY <1>17 DEF ExactLater
<1>19. HeadersOnly(w2, o, x2)
  <2>1. Beginning(o, x2, h)
    BY <1>9, <1>10 DEF Beginning
  <2> QED BY <1>16, <2>1 DEF HeadersOnly
<1>20. LockedReal(x2)
  BY <1>9, <1>10 DEF LockedReal, Aside, ContentInv
<1> QED BY <1>1, <1>13, <1>18, <1>19, <1>20 DEF ContentInv

\* OpenFile::WriteAt.
LEMMA WriteContent ==
    ASSUME ~Extending, FilesInv, TransferInv, ContentInv, NEW t \in Thread, WriteFile(t)
    PROVE  ContentInv'
<1>1. PICK r \in ClientRequest : WriteAt(t, r[1], r[2])
  BY DEF WriteFile
<1>2. r[1] \in Nat /\ r[2] \in Nat \ {0}
  BY <1>1, RequestAssumption
<1> QED BY <1>1, <1>2, WriteAtContent

-----------------------------------------------------------------------------
(***************************************************************************)
(* All steps, and what the invariant shows.                                *)
(***************************************************************************)

\* The steps of a request.
LEMMA DoTransferContent ==
    ASSUME ~Extending, FilesInv, TransferInv, ContentInv, NEW t \in Thread, DoTransfer(t)
    PROVE  ContentInv'
<1>1. CASE ReadFile(t)
  BY <1>1, ReadContent
<1>2. CASE WriteFile(t)
  BY <1>2, WriteContent
<1>3. CASE LockArray(t)
  BY <1>3, LockArrayContent
<1>4. CASE LockSector(t)
  BY <1>4, LockSectorContent
<1>5. CASE StrayMutex(t)
  BY <1>5, GoDownContent DEF StrayMutex
<1>6. CASE TransferSector(t)
  BY <1>6, TransferContent
<1>7. CASE Return(t)
  BY <1>7, ReturnContent
<1> QED BY <1>1, <1>2, <1>3, <1>4, <1>5, <1>6, <1>7 DEF DoTransfer

\* Every step keeps the invariant: one case per action.
LEMMA ContentInvNext ==
    ASSUME ~Extending, FilesInv, TransferInv, ContentInv, [Next]_vars
    PROVE  ContentInv'
<1>1. ASSUME NEW t \in Thread, NEW p \in FilePath, NEW b \in FileSize, Create(t, p, b, 0)
      PROVE  ContentInv'
  <2>1. b \in Nat /\ 0 \in {0, 1} /\ (0 = 1 => b = SectorSize)
    BY FileSizeAssumption
  <2>2. Creatable(p, 0)
    BY DEF Creatable
  <2> QED BY <1>1, <2>1, <2>2, CreateContent
<1>2. ASSUME NEW t \in Thread, NEW p \in DirPath, Create(t, p, SectorSize, 1)
      PROVE  ContentInv'
  <2>1. SectorSize \in Nat /\ 1 \in {0, 1}
    BY SizesAssumption
  <2>2. Creatable(p, 1)
    BY DEF Creatable
  <2> QED BY <1>2, <2>1, <2>2, CreateContent
<1>3. ASSUME NEW t \in Thread, NEW p \in FilePath, Open(t, p)
      PROVE  ContentInv'
  BY <1>3, OpenContent
<1>4. ASSUME NEW t \in Thread, NEW p \in FilePath \cup DirPath, Remove(t, p)
      PROVE  ContentInv'
  BY <1>4, RemoveContent
<1>5. ASSUME NEW t \in Thread, Close(t) PROVE ContentInv'
  BY <1>5, CloseContent
<1>6. ASSUME NEW t \in Thread, DoTransfer(t) PROVE ContentInv'
  BY <1>6, DoTransferContent
<1>7. CASE WriteSector
  BY <1>7, WriteSectorContent
<1>8. CASE AssertFails \/ Crash
  BY <1>8, GoDownContent DEF AssertFails, Crash
<1>9. CASE Restart
  BY <1>9, RestartContent
<1>10. CASE Format
  BY <1>10, FormatContent
<1>11. CASE UNCHANGED vars
  BY <1>11 DEF vars, fileVars, ContentInv
<1> QED BY <1>1, <1>2, <1>3, <1>4, <1>5, <1>6, <1>7, <1>8, <1>9, <1>10, <1>11 DEF Next

\* The invariant implies that every file holds what was written to it,
LEMMA ContentInvExact ==
    ASSUME FilesInv, ContentInv
    PROVE  ContentsExact
<1> SUFFICES ASSUME machine = "up", NEW f \in Files, Writers(f) = {}
             PROVE  Contents(f) = shadow[f]
  BY DEF ContentsExact
<1> PICK r : r = Len(todo)
  OBVIOUS
<1>1. PICK F, G : Sound(disk, F, G, target, handle, xfer)
  BY DEF FilesInv, SoundDisk
<1>2. HeaderOK(disk, f) /\ disk[f].fileType \in {0, 1}
  <2>1. Shape(disk, F, G)
    BY <1>1 DEF Sound
  <2>2. f \in F
    BY <2>1, FilesInTree
  <2> QED BY <2>1, <2>2 DEF Shape, HeaderOK, Fields
<1>3. FileExact(disk, f, r, handle, xfer, shadow)
  BY NowExact, FilesAre DEF Exact
<1>4. CASE disk[f].fileType = 1
  BY <1>3, <1>4 DEF FileExact, Contents
<1>5. CASE disk[f].fileType = 0
  <2>1. PICK n : BytesExact(disk, f, n, r, handle, xfer, shadow[f])
    BY <1>3, <1>5 DEF FileExact
  <2>2. \A u \in Thread : handle[u] = f => xfer[u].op # "write"
    BY DEF Writers
  <2>3. ~Beginning(handle, xfer, f)
    BY <2>2 DEF Beginning
  <2>4. BytesExact(disk, f, n, 0, handle, xfer, shadow[f])
    BY <2>1, <2>3 DEF BytesExact
  <2>5. n \in Nat /\ disk[f].numBytes = n /\ shadow[f] = [i \in 1..n |-> shadow[f][i]]
    BY <2>4 DEF BytesExact
  <2> PICK b : b = FileBytes(disk, disk[f])
    OBVIOUS
  <2>6. \A i \in 1..n : b[i] = shadow[f][i]
    BY <1>2, <2>2, <2>4, StartAlone
  <2>7. b = [i \in 1..n |-> b[i]]
    BY <2>5 DEF FileBytes
  <2>8. b = [i \in 1..n |-> shadow[f][i]]
    BY <2>6, <2>7
  <2> QED BY <1>5, <2>5, <2>8 DEF Contents
<1> QED BY <1>2, <1>4, <1>5

\* and that a read returns what the file had when it held its mutexes.
LEMMA ContentInvReads ==
    ASSUME FilesInv, TransferInv, ContentInv
    PROVE  ReadsSerialised
<1> SUFFICES ASSUME NEW t \in Thread, xfer[t].op = "read", NEW k \in 1..xfer[t].len,
                    NEW i, i = Last(xfer[t].pos, k) - First(xfer[t].pos) + 1, i <= xfer[t].done
             PROVE  xfer[t].buf[i][((xfer[t].pos + k - 1) % SectorSize) + 1] = xfer[t].want[k]
  BY DEF ReadsSerialised
<1> PICK y : y = xfer[t]
  OBVIOUS
<1>1. machine = "up"
  BY DEF ContentInv, AllIdleIn, FilesInv
<1>2. RequestExact(disk, t, handle, xfer, shadow)
  BY <1>1, NowExact DEF Exact
<1>3. y.pc # "idle" /\ Spans(disk, handle[t], y, shadow[handle[t]]) /\ ReaderExact(disk, y)
  BY <1>2 DEF RequestExact
<1>4. y.pos \in Nat /\ y.len \in Nat \ {0} /\ Progress(y)
  BY <1>3 DEF Spans, TransferInv
<1> PICK p \in Nat \ {0} : p = y.pos + k
  BY <1>4
<1>5. /\ First(y.pos) \in Nat /\ Last(y.pos, k) \in Nat /\ First(y.pos) <= Last(y.pos, k)
      /\ k \in Nat \ {0}
  <2>1. k \in Nat \ {0}
    BY <1>4
  <2> QED BY <1>4, <2>1, SpanBounds
<1>6. y.pos + k - 1 = p - 1
  BY <1>4
<1>7. PartOf(y, p) = i
  <2>1. IndexOf(p) = Last(y.pos, k) + 1
    <3>1. Last(y.pos, k) = (p - 1) \div SectorSize
      BY <1>6 DEF Last
    <3> QED BY <3>1 DEF IndexOf
  <2> QED BY <1>5, <2>1 DEF PartOf
<1>8. OffsetOf(p) = ((y.pos + k - 1) % SectorSize) + 1
  BY <1>6 DEF OffsetOf
<1>9. y.pc \in {"io", "done"}
  <2>1. i \in Int /\ i >= 1
    BY <1>5
  <2>2. y.done \in Nat /\ y.done # 0
    BY <1>4, <2>1 DEF Progress
  <2> QED BY <1>3, <1>4, <2>2 DEF Progress
<1>10. y.buf[PartOf(y, p)][OffsetOf(p)] = y.want[k]
  BY <1>3, <1>7, <1>9 DEF ReaderExact
<1> QED BY <1>7, <1>8, <1>10

\* While no write takes new sectors, every file holds what was last written to
\* it, byte by byte: no Create, Remove or restart changes the bytes of another
\* file, a file that grows keeps what it had, and threads that write whole
\* sectors of one file leave its bytes as if one had written after the other,
\* although their sector writes mix.  (Other writes to a file are made one at
\* a time, see MayWrite.)  For every size of the disk, of its sectors, index
\* tables and directories, and any threads, paths and requests.
THEOREM ContentsExactSafe ==
    ASSUME ~Extending
    PROVE  Spec => []ContentsExact
<1>1. FilesInv /\ TransferInv /\ [Next]_vars => FilesInv'
  BY FilesInvNext
<1>2. FilesInv /\ TransferInv /\ ContentInv /\ [Next]_vars => ContentInv'
  BY ContentInvNext
<1>3. FilesInv /\ ContentInv => ContentsExact
  BY ContentInvExact
<1> QED BY <1>1, <1>2, <1>3, FilesInit, ContentInit, TransferInvariant, PTL DEF Spec

\* While no write takes new sectors, a read of several sectors sees all of a
\* concurrent write or nothing of it: ReadAt returns the bytes that the file
\* had at the moment when the thread held the mutexes of all its sectors,
\* although other threads write to the sectors that it has given up.
THEOREM ReadsSerialisedSafe ==
    ASSUME ~Extending
    PROVE  Spec => []ReadsSerialised
<1>1. FilesInv /\ TransferInv /\ [Next]_vars => FilesInv'
  BY FilesInvNext
<1>2. FilesInv /\ TransferInv /\ ContentInv /\ [Next]_vars => ContentInv'
  BY ContentInvNext
<1>3. FilesInv /\ TransferInv /\ ContentInv => ReadsSerialised
  BY ContentInvReads
<1> QED BY <1>1, <1>2, <1>3, FilesInit, ContentInit, TransferInvariant, PTL DEF Spec

=============================================================================
