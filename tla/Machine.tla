------------------------------ MODULE Machine ------------------------------
(***************************************************************************)
(* A user program on the simulated machine, with demand paging             *)
(* (machine/mipssim.cc, machine/translate.cc, machine/machine.cc,          *)
(* userprog/exception.cc, userprog/addrspace.cc).  The build is the one    *)
(* without USE_TLB: one page table with an entry per physical page, filled *)
(* by LRU() from the swap file machine->disk.  One thread runs user code,  *)
(* so the tid of an entry and the dirty bit, which no code reads, are left *)
(* out, and no page is read-only.  A page is PageWords words.              *)
(***************************************************************************)
EXTENDS Execute, FiniteSets

CONSTANTS NumPhysPages, Unset
ASSUME PagesAssumption == NumPhysPages \in Nat /\ NumPhysPages >= 2 /\ PageSize % 4 = 0

PageWords == PageSize \div 4
Frames == 0 .. NumPhysPages - 1

VARIABLES executable, \* the program that runs
          cpu,        \* the registers
          mainMemory, \* frame -> its words
          pageTable,  \* entry -> [virtualPage, physicalPage, valid, use]
          pageLasttime, \* frame -> time of its last access
          memBitMap,  \* frames that Find has given out
          disk,       \* the swap file, a sequence of words
          totalTicks,
          status,     \* "off" (no program), "running", "halted", "aborted"
          stored,     \* history: the words the program was given or has stored
          accessed    \* history: page -> time of its last access

machVars == <<executable, cpu, mainMemory, pageTable, pageLasttime, memBitMap, disk,
              totalTicks, status, stored, accessed>>
kernelVars == <<mainMemory, pageTable, memBitMap, disk>>

\* Machine::Machine, AddrSpace::AddrSpace (it copies code and data to the
\* start of the swap file) and InitRegisters.  AddrSpace leaves its last byte
\* in mainMemory[0], its buffer; the first load of page 0 overwrites it.
\* pageLasttime is not initialised, and not read before it is written.
MachineInit(exe) ==
    /\ executable = exe
    /\ cpu = InitRegisters(SpaceSize(executable))
    /\ mainMemory = [f \in Frames |-> [k \in 0 .. PageWords - 1 |-> 0]]
    /\ pageTable = [e \in Frames |->
                       [virtualPage |-> -1, physicalPage |-> -1, valid |-> FALSE, use |-> FALSE]]
    /\ pageLasttime = [f \in Frames |-> 0]
    /\ memBitMap = {}
    /\ disk = Image(executable)
    /\ totalTicks = 0
    /\ status \in {"off", "running"}
    /\ stored = 0 .. Len(Image(executable)) - 1
    /\ accessed = [p \in 0 .. SpaceSize(executable) \div PageSize - 1 |-> 0]

-----------------------------------------------------------------------------
(***************************************************************************)
(* Translation.  Resident(addr) is the set of entries that map its page;   *)
(* a hit stamps the frame with the time and sets the entry's use bit.      *)
(***************************************************************************)
Page(addr) == addr \div PageSize
Resident(addr) ==
    {e \in Frames : pageTable[e].valid /\ pageTable[e].virtualPage = Page(addr)}
\* The loop of Translate goes on after a match: the last one counts.
EntryOf(addr) == CHOOSE e \in Resident(addr) : \A d \in Resident(addr) : d <= e
FrameOf(addr) == pageTable[EntryOf(addr)].physicalPage
WordAt(addr) == mainMemory[FrameOf(addr)][(addr \div 4) % PageWords]

Stamp(addrs) ==
    /\ pageLasttime' = [f \in Frames |->
          IF f \in {FrameOf(a) : a \in addrs} THEN totalTicks ELSE pageLasttime[f]]
    /\ accessed' = [p \in DOMAIN accessed |->
          IF p \in {Page(a) : a \in addrs} THEN totalTicks ELSE accessed[p]]
UseBits(addrs) ==
    [e \in Frames |-> [pageTable[e] EXCEPT !.use = @ \/ e \in {EntryOf(a) : a \in addrs}]]

-----------------------------------------------------------------------------
(***************************************************************************)
(* The page fault handler.  A page goes to the first entry that has never  *)
(* been used and a new frame, or else to the entry whose number is that of *)
(* the frame with the oldest access; that entry's page is written to the   *)
(* swap file first.  The swap file is read up to its end: what lies beyond *)
(* stays as it was in the frame.                                           *)
(***************************************************************************)
Find == CHOOSE f \in Frames \ memBitMap : \A g \in Frames \ memBitMap : f <= g

WriteAt(file, page, words) ==
    LET from == page * PageWords
        end == from + PageWords
    IN  [k \in 1 .. IF Len(file) > end THEN Len(file) ELSE end |->
            IF k \in from + 1 .. end THEN words[k - from - 1]
            ELSE IF k <= Len(file) THEN file[k] ELSE 0]
ReadAt(file, page, words) ==
    [k \in DOMAIN words |->
        LET at == page * PageWords + k + 1 IN IF at <= Len(file) THEN file[at] ELSE words[k]]

Unused(table) == {e \in Frames : ~table[e].use}
FirstUnused(table) == CHOOSE e \in Unused(table) : \A d \in Unused(table) : e <= d
\* A faulty choice of the victim: the first entry.
VictimFirst(lasttime) == 0

Victim(lasttime) == CHOOSE e \in Frames :
    /\ \A d \in Frames : lasttime[e] <= lasttime[d]
    /\ \A d \in Frames : lasttime[d] = lasttime[e] => e <= d

TakeFree(table, page) ==
    LET e == FirstUnused(table)
    IN  /\ pageTable' = [table EXCEPT ![e] =
              [virtualPage |-> page, physicalPage |-> Find, valid |-> TRUE, use |-> FALSE]]
        /\ memBitMap' = memBitMap \cup {Find}
        /\ mainMemory' = [mainMemory EXCEPT ![Find] = ReadAt(disk, page, @)]
        /\ UNCHANGED disk

\* A faulty handler that does not write the evicted page back.
ReplaceNoWrite(table, page) ==
    LET e == Victim(pageLasttime')
        f == table[e].physicalPage
    IN  /\ pageTable' = [table EXCEPT ![e].virtualPage = page, ![e].valid = TRUE]
        /\ mainMemory' = [mainMemory EXCEPT ![f] = ReadAt(disk, page, @)]
        /\ UNCHANGED <<disk, memBitMap>>

Replace(table, page) ==
    LET e == Victim(pageLasttime')
        f == table[e].physicalPage
    IN  /\ disk' = WriteAt(disk, table[e].virtualPage, mainMemory[f])
        /\ pageTable' = [table EXCEPT ![e].virtualPage = page, ![e].valid = TRUE]
        /\ mainMemory' = [mainMemory EXCEPT ![f] = ReadAt(disk', page, @)]
        /\ UNCHANGED memBitMap

LRU(table, page) ==
    IF Unused(table) # {} THEN TakeFree(table, page) ELSE Replace(table, page)

\* RaiseException(PageFaultException), with the accesses that succeeded.
PageFault(addr, before) ==
    /\ Stamp(before)
    /\ LRU(UseBits(before), Page(addr))
    /\ cpu' = FinishLoad(cpu)
    /\ totalTicks' = totalTicks + 1
    /\ UNCHANGED <<executable, status, stored>>

-----------------------------------------------------------------------------
(***************************************************************************)
(* Run: OneInstruction and the tick after it, over and over.  What it does *)
(* to the machine depends on where the instruction stops.                  *)
(***************************************************************************)
Fetched == status = "running" /\ cpu.pc % 4 = 0 /\ Resident(cpu.pc) # {}
Instr == Decode(executable, WordAt(cpu.pc))
Addr == Address(cpu, Instr)
Accesses == Instr.op \in Loads \cup Stores

FetchFault ==
    status = "running" /\ cpu.pc % 4 = 0 /\ Resident(cpu.pc) = {} /\ PageFault(cpu.pc, {})

\* A jump to an address that is not a multiple of four.
BadFetch ==
    /\ status = "running" /\ cpu.pc % 4 # 0
    /\ cpu' = FinishLoad(cpu) /\ status' = "aborted"
    /\ UNCHANGED <<executable, kernelVars, pageLasttime, totalTicks, stored, accessed>>

DataFault ==
    /\ Fetched /\ Accesses /\ ~Aborts(cpu, Instr) /\ Resident(Addr) = {}
    /\ PageFault(Addr, {cpu.pc})

Compute ==
    /\ Fetched /\ ~Accesses /\ Instr.op # "SYSCALL" /\ ~Aborts(cpu, Instr)
    /\ Stamp({cpu.pc}) /\ pageTable' = UseBits({cpu.pc})
    /\ cpu' = OneInstruction(cpu, Instr, 0)
    /\ totalTicks' = totalTicks + 1
    /\ UNCHANGED <<executable, mainMemory, memBitMap, disk, status, stored>>

Access ==
    /\ Fetched /\ Accesses /\ ~Aborts(cpu, Instr) /\ Resident(Addr) # {}
    /\ Stamp({cpu.pc, Addr}) /\ pageTable' = UseBits({cpu.pc, Addr})
    /\ cpu' = OneInstruction(cpu, Instr, WordAt(Addr))
    /\ IF Instr.op \in Stores
       THEN /\ mainMemory' = [mainMemory EXCEPT ![FrameOf(Addr)][(Addr \div 4) % PageWords] =
                                 StoreValue(cpu, Instr, @)]
            /\ stored' = stored \cup {Addr \div 4}
       ELSE UNCHANGED <<mainMemory, stored>>
    /\ totalTicks' = totalTicks + 1
    /\ UNCHANGED <<executable, memBitMap, disk, status>>

\* ExceptionHandler knows the system call Halt; every other system call and
\* exception fails its assertion.
Trap ==
    /\ Fetched /\ (Instr.op = "SYSCALL" \/ Aborts(cpu, Instr))
    /\ Stamp({cpu.pc}) /\ pageTable' = UseBits({cpu.pc})
    /\ cpu' = FinishLoad(cpu)
    /\ status' = IF Instr.op = "SYSCALL" /\ cpu'.r[2] = 0 THEN "halted" ELSE "aborted"
    /\ UNCHANGED <<executable, mainMemory, memBitMap, disk, totalTicks, stored>>

MachineNext == FetchFault \/ BadFetch \/ DataFault \/ Compute \/ Access \/ Trap

-----------------------------------------------------------------------------
(***************************************************************************)
(* Properties.                                                             *)
(***************************************************************************)
\* Paging is invisible: with its memory read through the page table or from
\* the swap file, the machine is a FlatMachine.  No stored word is lost or
\* read from the wrong page, whatever is evicted in between, and an
\* instruction that page faults halfway takes effect once.
FlatMemory ==
    [a \in 0 .. SpaceSize(executable) \div 4 - 1 |->
        IF a \notin stored THEN Unset
        ELSE IF Resident(4 * a) # {} THEN WordAt(4 * a)
        ELSE IF a < Len(disk) THEN disk[a + 1] ELSE 0]
Flat == INSTANCE FlatMachine WITH prog <- executable, regs <- cpu, mem <- FlatMemory, state <- status
ImplementsFlat == Flat!Spec

\* The page that leaves memory is one that was not accessed after any page
\* that stays (LRU), although entries are chosen by the number of a frame.
InMemory == {pageTable[e].virtualPage : e \in {d \in Frames : pageTable[d].valid}}
EvictsOldest ==
    [][\A p \in InMemory \ InMemory', q \in InMemory \cap InMemory' :
          accessed'[p] <= accessed'[q]]_machVars

\* The instructions that the two interpreters compute differently: OR of
\* mipssim.cc takes rs twice and its SRL keeps the sign; execute.c extends the
\* sign of logical immediates and does not merge unaligned loads.
Differ(c, i) ==
    \/ i.op \in {"OR", "LWL", "LWR"}
    \/ i.op \in {"SRL", "SRLV"} /\ Sign(c.r[i.rt]) = 1
    \/ i.op \in {"ANDI", "ORI", "XORI"} /\ i.extra < 0

\* mipssim.cc and execute.c are two programs for one instruction set: apart
\* from the cases above and the high word of a product, what an instruction
\* leaves in the registers, in memory and as the next two addresses is the
\* same, once the delayed load has arrived.  (Not in a delay slot, where
\* execute.c counts branches from the instruction itself.)
InterpretersAgree ==
    [][(Fetched /\ cpu'.pc # cpu.pc /\ cpu.loadReg = 0 /\ cpu.npc = Wrap(cpu.pc + 4)) =>
         LET i == Instr
             w == IF Accesses THEN WordAt(Addr) ELSE 0
             other == RunOne(cpu, i, w)
             hi == IF i.op \in {"MULT", "MULTU"} THEN cpu'.hi ELSE other.hi
         IN  (~Exits(cpu, i) /\ ~Differ(cpu, i) /\ ShiftDefined(cpu, i)) =>
               /\ FinishLoad(cpu') = [other EXCEPT !.hi = hi]
               /\ i.op \in Stores => FlatMemory'[Addr \div 4] = Store(cpu, i, w)]_machVars

\* The simulator's arithmetic is that of integers: products and quotients
\* are exact, and a sum is either right or overflows.
ArithmeticExact ==
    [][LET i == executable.code[cpu.pc \div 4 + 1]
           a == cpu.r[i.rs]
           b == cpu.r[i.rt]
           sa == Signed(a)
           sb == Signed(b)
           done == cpu'.pc # cpu.pc
           fits(n) == n \in -(2^(W - 1)) .. 2^(W - 1) - 1
           product(n) == (cpu'.hi * 2^W + cpu'.lo) = n % 2^(2 * W)
           delivered(n) == i.rd \in {0, cpu.loadReg} \/ Signed(cpu'.r[i.rd]) = n
       IN  /\ done /\ i.op = "MULT" => product(sa * sb)
           /\ done /\ i.op = "MULTU" => product(a * b)
           /\ done /\ i.op = "DIVU" /\ b # 0 => cpu'.lo * b + cpu'.hi = a /\ cpu'.hi < b
           /\ done /\ i.op = "DIV" /\ b # 0 =>
                 /\ Signed(cpu'.lo) * sb + Signed(cpu'.hi) = sa
                 /\ Abs(Signed(cpu'.hi)) < Abs(sb)
                 /\ sa * Signed(cpu'.hi) >= 0
           /\ done /\ i.op = "ADD" => delivered(sa + sb)
           /\ done /\ i.op = "SUB" => delivered(sa - sb)
           /\ status' # status /\ status' = "aborted" /\ cpu.pc % 4 = 0 =>
                 /\ i.op = "ADD" => ~fits(sa + sb)
                 /\ i.op = "SUB" => ~fits(sa - sb)]_machVars

=============================================================================
