-------------------------------- MODULE CPU --------------------------------
(***************************************************************************)
(* The MIPS processor of machine/mipssim.cc, as operators on a record of   *)
(* its registers.  A byte has ByteBits bits, a word four bytes; memory is  *)
(* read and written a word at a time (OneInstruction is given the word at  *)
(* the address it accesses and gives back the word it leaves there).       *)
(* Instructions are decoded: an opcode, three registers and the immediate. *)
(***************************************************************************)
EXTENDS Integers, Sequences, Bitwise

CONSTANTS ByteBits,   \* 8 in the code
          NumGPRegs,  \* 32 in the code
          PageSize, UserStackSize,   \* in bytes
          Executables \* the programs that may be run

W == 4 * ByteBits
Word == 0 .. 2^W - 1
Half == 2^(W \div 2)

StackReg == NumGPRegs - 3
RetAddrReg == NumGPRegs - 1

\* int arithmetic: words wrap, and are read as unsigned or signed.
Wrap(n) == n % 2^W
Signed(w) == IF w < 2^(W - 1) THEN w ELSE w - 2^W
Sign(w) == w \div 2^(W - 1)
Complement(w) == 2^W - 1 - w
Shl(w, n) == Wrap(w * 2^n)
Sar(w, n) == Wrap(Signed(w) \div 2^n)
Abs(n) == IF n < 0 THEN -n ELSE n
IndexToAddr(n) == Wrap(n * 4)

-----------------------------------------------------------------------------
(***************************************************************************)
(* The opcodes, by what they do.                                           *)
(***************************************************************************)
RdOps == {"ADD", "ADDU", "AND", "MFHI", "MFLO", "NOR", "OR", "SLL", "SLLV", "SLT", "SLTU",
          "SRA", "SRAV", "SRL", "SRLV", "SUB", "SUBU", "XOR"}
RtOps == {"ADDI", "ADDIU", "ANDI", "LUI", "ORI", "SLTI", "SLTIU", "XORI"}
HiLoOps == {"DIV", "DIVU", "MTHI", "MTLO", "MULT", "MULTU"}
Branches == {"BEQ", "BGEZ", "BGEZAL", "BGTZ", "BLEZ", "BLTZ", "BLTZAL", "BNE"}
Jumps == {"J", "JAL", "JALR", "JR"}
Loads == {"LB", "LBU", "LH", "LHU", "LW", "LWL", "LWR"}
Stores == {"SB", "SH", "SW", "SWL", "SWR"}
Op == RdOps \cup RtOps \cup HiLoOps \cup Branches \cup Jumps \cup Loads \cup Stores
        \cup {"SYSCALL", "RES", "UNIMP"}

\* Instruction; immediates and branch offsets are sign-extended halves.
Instruction == [op : Op, rs : 0 .. NumGPRegs - 1, rt : 0 .. NumGPRegs - 1,
                rd : 0 .. NumGPRegs - 1, extra : -(2^(W - 1)) .. 2^(W - 1) - 1]

-----------------------------------------------------------------------------
(***************************************************************************)
(* Multiplication: the bits of a, one at a time, each adding the shifted b *)
(* to a double word.                                                       *)
(***************************************************************************)
\* A faulty Mult that drops the carry out of the low bits.
NoCarry(sum, addend) == 0

Carry(sum, addend) == IF sum < addend THEN 1 ELSE 0

MultState == [a : Word, bLo : Word, bHi : Word, lo : Word, hi : Word]
MultStep[s \in MultState] ==
    LET lo == Wrap(s.lo + s.bLo)
        t == IF s.a % 2 = 1 THEN [s EXCEPT !.lo = lo, !.hi = Wrap(s.hi + Carry(lo, s.bLo) + s.bHi)]
                            ELSE s
    IN  IF s.a \in {0, 1} THEN [t EXCEPT !.a = 0]      \* the break
        ELSE [t EXCEPT !.bHi = Wrap(2 * s.bHi + Sign(s.bLo)), !.bLo = Wrap(2 * s.bLo),
                       !.a = Sar(s.a, 1)]

MultLoop(a, b) ==
    LET loop[n \in 0 .. W] ==
            IF n = 0 THEN [a |-> a, bLo |-> b, bHi |-> 0, lo |-> 0, hi |-> 0]
                     ELSE MultStep[loop[n - 1]]
    IN  loop[W]

Mult(a, b, signedArith) ==
    LET neg(w) == signedArith /\ Signed(w) < 0
        mag(w) == IF neg(w) THEN Wrap(-w) ELSE w
        p == MultLoop(mag(a), mag(b))
        lo == Wrap(Complement(p.lo) + 1)
    IN  IF a = 0 \/ b = 0 THEN [hi |-> 0, lo |-> 0]
        ELSE IF neg(a) # neg(b)
             THEN [hi |-> Wrap(Complement(p.hi) + (IF lo = 0 THEN 1 ELSE 0)), lo |-> lo]
             ELSE [hi |-> p.hi, lo |-> p.lo]

\* C division truncates towards zero; division by zero gives zeros.
Div(a, b) ==
    LET q == Abs(a) \div Abs(b)
        quotient == IF (a < 0) = (b < 0) THEN q ELSE -q
    IN  IF b = 0 THEN [hi |-> 0, lo |-> 0]
        ELSE [hi |-> Wrap(a - b * quotient), lo |-> Wrap(quotient)]

AddOverflow(a, b) == Sign(a) = Sign(b) /\ Sign(a) # Sign(Wrap(a + b))
SubOverflow(a, b) == Sign(a) # Sign(b) /\ Sign(a) # Sign(Wrap(a - b))

-----------------------------------------------------------------------------
(***************************************************************************)
(* What an instruction writes.  OR takes rs twice, and SRL and SRLV shift  *)
(* an int, so they keep the sign: that is how the simulator computes them. *)
(***************************************************************************)
Bool(p) == IF p THEN 1 ELSE 0

RdValue(c, i) ==
    LET a == c.r[i.rs]
        b == c.r[i.rt]
    IN  CASE i.op \in {"ADD", "ADDU"} -> Wrap(a + b)
          [] i.op \in {"SUB", "SUBU"} -> Wrap(a - b)
          [] i.op = "AND" -> a & b
          [] i.op = "OR" -> a | a
          [] i.op = "NOR" -> Complement(a | b)
          [] i.op = "XOR" -> a ^^ b
          [] i.op = "SLL" -> Shl(b, i.extra)
          [] i.op = "SLLV" -> Shl(b, a % W)
          [] i.op \in {"SRA", "SRL"} -> Sar(b, i.extra)
          [] i.op \in {"SRAV", "SRLV"} -> Sar(b, a % W)
          [] i.op = "SLT" -> Bool(Signed(a) < Signed(b))
          [] i.op = "SLTU" -> Bool(a < b)
          [] i.op = "MFHI" -> c.hi
          [] i.op = "MFLO" -> c.lo

RtValue(c, i) ==
    LET a == c.r[i.rs]
        imm == Wrap(i.extra)
    IN  CASE i.op \in {"ADDI", "ADDIU"} -> Wrap(a + imm)
          [] i.op = "ANDI" -> a & (imm % Half)
          [] i.op = "ORI" -> a | (imm % Half)
          [] i.op = "XORI" -> a ^^ (imm % Half)
          [] i.op = "SLTI" -> Bool(Signed(a) < i.extra)
          [] i.op = "SLTIU" -> Bool(a < imm)
          [] i.op = "LUI" -> Wrap(imm * Half)

HiLo(c, i) ==
    LET a == c.r[i.rs]
        b == c.r[i.rt]
    IN  CASE i.op = "MULT" -> Mult(a, b, TRUE)
          [] i.op = "MULTU" -> Mult(a, b, FALSE)
          [] i.op = "DIV" -> Div(Signed(a), Signed(b))
          [] i.op = "DIVU" -> Div(a, b)
          [] i.op = "MTHI" -> [hi |-> a, lo |-> c.lo]
          [] i.op = "MTLO" -> [hi |-> c.hi, lo |-> a]
          [] OTHER -> [hi |-> c.hi, lo |-> c.lo]

\* A link register is written before the condition or the target is read.
Written(c, i) ==
    LET link == Wrap(c.npc + 4)
    IN  CASE i.op \in RdOps -> [c.r EXCEPT ![i.rd] = RdValue(c, i)]
          [] i.op \in RtOps -> [c.r EXCEPT ![i.rt] = RtValue(c, i)]
          [] i.op \in {"BGEZAL", "BLTZAL", "JAL"} -> [c.r EXCEPT ![RetAddrReg] = link]
          [] i.op = "JALR" -> [c.r EXCEPT ![i.rd] = link]
          [] OTHER -> c.r

Taken(r, i) ==
    LET a == Signed(r[i.rs])
    IN  CASE i.op = "BEQ" -> r[i.rs] = r[i.rt]
          [] i.op = "BNE" -> r[i.rs] # r[i.rt]
          [] i.op \in {"BGEZ", "BGEZAL"} -> a >= 0
          [] i.op \in {"BLTZ", "BLTZAL"} -> a < 0
          [] i.op = "BGTZ" -> a > 0
          [] i.op = "BLEZ" -> a <= 0

\* pcAfter; J keeps the top eighth of the next address.
PCAfter(c, r, i) ==
    LET next == Wrap(c.npc + 4)
        low == 2^(W - W \div 8)
    IN  CASE i.op \in Branches -> IF Taken(r, i) THEN Wrap(c.npc + IndexToAddr(i.extra)) ELSE next
          [] i.op \in {"J", "JAL"} -> (next - (next % low)) | IndexToAddr(i.extra)
          [] i.op \in {"JR", "JALR"} -> r[i.rs]
          [] OTHER -> next

-----------------------------------------------------------------------------
(***************************************************************************)
(* Memory: the address, the part of the word it names, and the value that  *)
(* a load will deliver or a store leaves.                                  *)
(***************************************************************************)
Address(c, i) == Wrap(c.r[i.rs] + i.extra)

Size(op) == CASE op \in {"LB", "LBU", "SB"} -> 1
              [] op \in {"LH", "LHU", "SH"} -> 2
              [] OTHER -> 4

\* The unit (byte, half or word) at an address within the word w; a word of
\* code that is read as data counts modulo 2^W.
Unit(op) == 2^(ByteBits * Size(op))
Shift(c, i) == 2^(ByteBits * (Address(c, i) % 4))
Part(c, i, w) == (w \div Shift(c, i)) % Unit(i.op)

LoadValue(c, i, w) ==
    LET v == Part(c, i, w)
        old == IF c.loadReg = i.rt THEN c.loadValue ELSE c.r[i.rt]
        byte == 2^ByteBits
    IN  CASE i.op \in {"LB", "LH"} -> IF 2 * v < Unit(i.op) THEN v ELSE Wrap(v - Unit(i.op))
          [] i.op = "LWR" -> (old - (old % byte)) + Wrap(w) \div (2^W \div byte)
          [] OTHER -> v

StoreValue(c, i, w) ==
    LET v == c.r[i.rt]
        top == 2^W \div 2^ByteBits
    IN  CASE i.op = "SWR" -> (w % top) + Wrap(v * top)
          [] OTHER -> Wrap(w) + ((v % Unit(i.op)) - Part(c, i, w)) * Shift(c, i)

-----------------------------------------------------------------------------
(***************************************************************************)
(* Instructions that end in an assertion: the exceptions that              *)
(* ExceptionHandler does not expect, LWL, LWR, SWL and SWR of an address   *)
(* that is not a multiple of four, and the host's trap on the one signed   *)
(* division that overflows.                                                *)
(***************************************************************************)
Aborts(c, i) ==
    LET a == c.r[i.rs]
        b == c.r[i.rt]
    IN  \/ i.op = "ADD" /\ AddOverflow(a, b)
        \/ i.op = "ADDI" /\ AddOverflow(a, Wrap(i.extra))
        \/ i.op = "SUB" /\ SubOverflow(a, b)
        \/ i.op = "DIV" /\ a = 2^(W - 1) /\ b = 2^W - 1
        \/ i.op \in Loads \cup Stores /\ Address(c, i) % Size(i.op) # 0
        \/ i.op \in {"RES", "UNIMP"}

\* The delayed load is applied after what the instruction itself writes.
DelayedLoad(c, r, nextReg, nextValue) ==
    [c EXCEPT !.r = [[r EXCEPT ![c.loadReg] = c.loadValue] EXCEPT ![0] = 0],
              !.loadReg = nextReg, !.loadValue = nextValue]

\* RaiseException finishes the load that is in progress.
FinishLoad(c) == DelayedLoad(c, c.r, 0, 0)

\* OneInstruction, when nothing stops it; w is the word at Address(c, i).
OneInstruction(c, i, w) ==
    LET r == Written(c, i)
        d == IF i.op \in Loads THEN DelayedLoad(c, r, i.rt, LoadValue(c, i, w))
                               ELSE DelayedLoad(c, r, 0, 0)
    IN  [d EXCEPT !.hi = HiLo(c, i).hi, !.lo = HiLo(c, i).lo,
                  !.pc = c.npc, !.npc = PCAfter(c, r, i)]

-----------------------------------------------------------------------------
(***************************************************************************)
(* An executable: its code, a sequence of instructions, and its data.      *)
(***************************************************************************)
\* A word of the code segment stands for the instruction it encodes.
Image(p) == [k \in 1 .. Len(p.code) |-> 2^W + k] \o p.data
Decode(p, word) == p.code[word - 2^W]

\* The address space: the executable and the stack, in whole pages.
SpaceSize(p) == PageSize * ((4 * Len(Image(p)) + UserStackSize + PageSize - 1) \div PageSize)

\* InitRegisters.
InitRegisters(size) ==
    [r |-> [n \in 0 .. NumGPRegs - 1 |-> IF n = StackReg THEN Wrap(size - 16) ELSE 0],
     hi |-> 0, lo |-> 0, pc |-> 0, npc |-> 4, loadReg |-> 0, loadValue |-> 0]

=============================================================================
