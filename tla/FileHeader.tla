----------------------------- MODULE FileHeader -----------------------------
(***************************************************************************)
(* What is on the disk, and the operators that compute on it: BitMap       *)
(* (userprog/bitmap.cc), FileHeader (filesys/filehdr.cc) and Directory     *)
(* (filesys/directory.cc).  A sector holds a record whose kind says what   *)
(* was last written to it.  The bit map and a directory fit into one       *)
(* sector each, as they do in the code.  A bit map is the set of its       *)
(* marked sectors.                                                         *)
(*                                                                         *)
(* An operation is a list of sector writes, in the order of the code:      *)
(* elements [sector, content].  A write to sector -1 stands for the        *)
(* assertion (or the stray pointer) that stops the program there.          *)
(***************************************************************************)
EXTENDS Integers, Sequences, FiniteSets

CONSTANTS NumSectors,   \* disk.h
          SectorSize,   \* bytes in a sector
          IndexSize,    \* entries of a second-level index table, 32 in the code
          NumDirEntries \* filesys.cc

ASSUME SizesAssumption ==
    /\ NumSectors \in Nat /\ NumSectors >= 6
    /\ SectorSize \in Nat \ {0}
    /\ IndexSize \in Nat \ {0}
    /\ NumDirEntries \in Nat \ {0}

Sector == 0..NumSectors - 1
FreeMapSector == 0
DirectorySector == 1
NoSector == -1

divRoundUp(n, s) == (n + s - 1) \div s

Write(s, c) == [sector |-> s, content |-> c]
Stop == Write(NoSector, [kind |-> "none"])

-----------------------------------------------------------------------------
(***************************************************************************)
(* BitMap.                                                                 *)
(***************************************************************************)
ClearBits(map) == Sector \ map
NumClear(map) == Cardinality(ClearBits(map))

\* What n calls of BitMap::Find return: the clear sectors in ascending order,
\* then -1.
FindN(map, n) ==
    [i \in 1..n |->
        IF i > NumClear(map) THEN NoSector
        ELSE CHOOSE s \in ClearBits(map) :
                 Cardinality({r \in ClearBits(map) : r < s}) = i - 1]

Find(map) == FindN(map, 1)[1]
Mark(map, seq) == map \cup {seq[i] : i \in {j \in 1..Len(seq) : seq[j] # NoSector}}

MapFile(map) == [kind |-> "map", marked |-> map]

-----------------------------------------------------------------------------
(***************************************************************************)
(* FileHeader.                                                             *)
(***************************************************************************)
Header(type, bytes, sectors, primary, visits) ==
    [kind |-> "header", fileType |-> type, numBytes |-> bytes, numSectors |-> sectors,
     primaryIndexTable |-> primary, numVisits |-> visits]

IndexTable(seq) == [kind |-> "table", dataSectors |-> seq]

NumTables(n) == divRoundUp(n, IndexSize)

\* The sectors that n data sectors and their index tables take from the map,
\* in the order of the calls of Find: a table, then its data sectors.
Block(i) == (i - 1) * (IndexSize + 1)
TableEntries(f, i) ==
    SubSeq(f, Block(i) + 2,
           IF Len(f) < Block(i + 1) THEN Len(f) ELSE Block(i + 1))

\* FileHeader::Allocate.  It asks for enough clear bits for the data sectors,
\* not for the index tables.
Allocate(map, bytes, type, visits) ==
    LET n == divRoundUp(bytes, SectorSize)
        f == FindN(map, n + NumTables(n))
        primary == [i \in 1..NumTables(n) |-> f[Block(i) + 1]]
    IN  [ok |-> NumClear(map) >= n,
         map |-> Mark(map, f),
         sectors |-> Mark({}, f),
         hdr |-> Header(type, bytes, n, primary, visits),
         writes |-> [i \in 1..NumTables(n) |->
                        Write(primary[i], IndexTable(TableEntries(f, i)))]]

\* FileHeader::ExtendAllocate: grow in the sectors there are, or take
\* divRoundUp(extra, SectorSize) more: the last index table is filled up
\* first, then new ones are allocated.
ExtendAllocate(disk, hdr, map, extra) ==
    LET n == hdr.numSectors
        fits == divRoundUp(hdr.numBytes + extra, SectorSize) <= n
        more == divRoundUp(extra, SectorSize)
        room == IF n % IndexSize = 0 THEN 0 ELSE IndexSize - (n % IndexSize)
        fill == IF more < room THEN more ELSE room
        last == hdr.primaryIndexTable[NumTables(n)]
        rest == more - fill
        f == FindN(map, fill + rest + NumTables(rest))
        g == SubSeq(f, fill + 1, Len(f))
        primary == [i \in 1..NumTables(rest) |-> g[Block(i) + 1]]
        filled == IF room = 0 THEN <<>>
                  ELSE <<Write(last, IndexTable(
                           SubSeq(disk[last].dataSectors, 1, n % IndexSize)
                               \o SubSeq(f, 1, fill)))>>
    IN  IF fits
        THEN [ok |-> TRUE, hdr |-> [hdr EXCEPT !.numBytes = @ + extra],
              sectors |-> {}, writes |-> <<>>]
        ELSE [ok |-> NumClear(map) >= more,
              hdr |-> [hdr EXCEPT !.numBytes = @ + extra, !.numSectors = n + more,
                                  !.primaryIndexTable = @ \o primary],
              sectors |-> Mark({}, f),
              writes |-> filled \o [i \in 1..NumTables(rest) |->
                             Write(primary[i], IndexTable(TableEntries(g, i)))]]

\* FileHeader::ByteToSector, for the i-th sector of the file, from 1.
DataSector(disk, hdr, i) ==
    disk[hdr.primaryIndexTable[((i - 1) \div IndexSize) + 1]]
        .dataSectors[((i - 1) % IndexSize) + 1]

\* The sectors that Deallocate clears; one of them may be -1.
Tables(hdr) == {hdr.primaryIndexTable[i] : i \in 1..NumTables(hdr.numSectors)}
Blocks(disk, hdr) ==
    {DataSector(disk, hdr, i) : i \in 1..hdr.numSectors} \cup Tables(hdr)

\* It asserts that the index tables are marked, and Clear that no sector is -1.
DeallocateStops(disk, hdr, map) == ~(Tables(hdr) \subseteq map) \/ NoSector \in Blocks(disk, hdr)

-----------------------------------------------------------------------------
(***************************************************************************)
(* Directory.  An entry that is not in use keeps its sector number.        *)
(***************************************************************************)
DirFile(table) == [kind |-> "dir", table |-> table]
Entry(inUse, name, sector) == [inUse |-> inUse, name |-> name, sector |-> sector]
EmptyTable(noName) == [i \in 1..NumDirEntries |-> Entry(FALSE, noName, 0)]

InUse(table) == {i \in 1..NumDirEntries : table[i].inUse}

\* Directory::FindIndex and Find: the first entry in use of that name.
Holding(table, name) == {i \in InUse(table) : table[i].name = name}
FirstOf(S) == CHOOSE i \in S : \A j \in S : i <= j
FindName(table, name) ==
    IF Holding(table, name) = {} THEN NoSector
    ELSE table[FirstOf(Holding(table, name))].sector

\* Directory::Add, into the first free entry.
FreeEntries(table) == {i \in 1..NumDirEntries : ~table[i].inUse}
AddName(table, name, sector) ==
    [table EXCEPT ![FirstOf(FreeEntries(table))] = Entry(TRUE, name, sector)]

\* Directory::Remove.
RemoveName(table, name, noName) ==
    [table EXCEPT ![FirstOf(Holding(table, name))].inUse = FALSE,
                  ![FirstOf(Holding(table, name))].name = noName]

=============================================================================
