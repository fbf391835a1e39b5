------------------------------ MODULE Execute ------------------------------
(***************************************************************************)
(* The MIPS interpreter of bin/execute.c, a second implementation of the   *)
(* instruction set of machine/mipssim.cc, as operators on the same record  *)
(* of registers.  It has no load delay and traps no overflow, and takes    *)
(* addresses as they come: programs are linked at memoffset there and at 0 *)
(* here.  Ints wrap and >> of an int keeps the sign, as gcc compiles them. *)
(***************************************************************************)
EXTENDS CPU

\* (unsigned) x >> n, and the halves of a word that I_MULT works with.
Shr(w, n) == w \div 2^n
High(w) == w \div Half
Low(w) == w % Half

\* SLLV, SRLV and SRAV shift by all of a register: C defines that only for
\* less than the width of an int.
ShiftDefined(c, i) == i.op \in {"SLLV", "SRLV", "SRAV"} => c.r[i.rs] < W

\* I_SPECIAL: the instructions that write rd.
SpecialValue(c, i) ==
    LET a == c.r[i.rs]
        b == c.r[i.rt]
    IN  CASE i.op = "SLL" -> Shl(b, i.extra)
          [] i.op = "SRL" -> Shr(b, i.extra)
          [] i.op = "SRA" -> Sar(b, i.extra)
          [] i.op = "SLLV" -> Shl(b, a)
          [] i.op = "SRLV" -> Shr(b, a)
          [] i.op = "SRAV" -> Sar(b, a)
          [] i.op = "MFHI" -> c.hi
          [] i.op = "MFLO" -> c.lo
          [] i.op \in {"ADD", "ADDU"} -> Wrap(a + b)
          [] i.op \in {"SUB", "SUBU"} -> Wrap(a - b)
          [] i.op = "AND" -> a & b
          [] i.op = "OR" -> a | b
          [] i.op = "XOR" -> a ^^ b
          [] i.op = "NOR" -> Complement(a | b)
          [] i.op = "SLT" -> Bool(Signed(a) < Signed(b))
          [] i.op = "SLTU" -> Bool(a < b)

\* The high word of a product as I_MULTU adds it up: without the carries out
\* of the low parts, and each cross product shifted as an int.
HighProduct(a, b) ==
    Wrap(High(a) * High(b) + Sar(Wrap(High(a) * Low(b)), W \div 2)
                           + Sar(Wrap(High(b) * Low(a)), W \div 2))

MultU(a, b) == [hi |-> HighProduct(a, b), lo |-> Wrap(a * b)]

\* I_MULT: the product of the magnitudes, negated in two words.
MultS(a, b) ==
    LET mag(w) == IF Signed(w) < 0 THEN Wrap(-w) ELSE w
        p == MultU(mag(a), mag(b))
        lo == Wrap(Complement(p.lo) + 1)
    IN  IF (Signed(a) < 0) = (Signed(b) < 0) THEN p
        ELSE [hi |-> Wrap(Complement(p.hi) + Bool(lo = 0)), lo |-> lo]

SpecialHiLo(c, i) ==
    LET a == c.r[i.rs]
        b == c.r[i.rt]
    IN  CASE i.op = "MULT" -> MultS(a, b)
          [] i.op = "MULTU" -> MultU(a, b)
          [] i.op = "DIV" -> Div(Signed(a), Signed(b))
          [] i.op = "DIVU" -> Div(a, b)
          [] i.op = "MTHI" -> [hi |-> a, lo |-> c.lo]
          [] i.op = "MTLO" -> [hi |-> c.hi, lo |-> a]
          [] OTHER -> [hi |-> c.hi, lo |-> c.lo]

\* I_ADDI ... I_LUI; every immediate is sign-extended.
ImmediateValue(c, i) ==
    LET a == c.r[i.rs]
        immed == Wrap(i.extra)
    IN  CASE i.op \in {"ADDI", "ADDIU"} -> Wrap(a + immed)
          [] i.op = "SLTI" -> Bool(Signed(a) < i.extra)
          [] i.op = "SLTIU" -> Bool(a < immed)
          [] i.op = "ANDI" -> a & immed
          [] i.op = "ORI" -> a | immed
          [] i.op = "XORI" -> a ^^ immed
          [] i.op = "LUI" -> Wrap(immed * Half)

\* cfetch, sfetch, fetch and their unsigned forms, of the word w.
Fetch(c, i, w) ==
    LET v == Part(c, i, w)
    IN  IF i.op \in {"LB", "LH"} /\ 2 * v >= Unit(i.op) THEN Wrap(v - Unit(i.op)) ELSE v

\* I_LB ... I_LWR of an aligned address.  The mask of I_LWL, -1 >> n, is all
\* ones: the old value stays.
FetchValue(c, i, w) ==
    CASE i.op = "LWL" -> c.r[i.rt] | Wrap(w)
      [] i.op = "LWR" -> Wrap(w)
      [] OTHER -> Fetch(c, i, w)

\* cstore, sstore, store: what is left of the word w.
Store(c, i, w) == Wrap(w) + ((c.r[i.rt] % Unit(i.op)) - Part(c, i, w)) * Shift(c, i)

\* A faulty I_BEQ ... I_BGTZ that counts from the instruction itself.
TargetOfSelf(c, i) == Wrap(c.pc + IndexToAddr(i.extra))

\* The target of a branch, from the instruction's own address.
Target(c, i) == Wrap(c.pc + 4 + IndexToAddr(i.extra))

\* npc after the instruction, given the registers it has written.
NextPC(c, r, i) ==
    LET low == 2^(W - W \div 8)
    IN  CASE i.op \in Branches /\ Taken(r, i) -> Target(c, i)
          [] i.op \in {"J", "JAL"} -> (c.pc - (c.pc % low)) | IndexToAddr(i.extra)
          [] i.op = "JR" -> r[i.rs]
          [] i.op = "JALR" -> c.r[i.rs]
          [] OTHER -> Wrap(c.npc + 4)

\* u(), ny() and the coprocessors: the interpreter exits.  A division by zero,
\* which is not looked for, ends it in a trap of the host.
Exits(c, i) ==
    \/ i.op \in {"SWL", "SWR", "RES", "UNIMP"}
    \/ i.op \in {"DIV", "DIVU"} /\ c.r[i.rt] = 0
    \/ i.op = "DIV" /\ c.r[i.rs] = 2^(W - 1) /\ c.r[i.rt] = 2^W - 1

\* One turn of runprogram's loop.
RunOne(c, i, w) ==
    LET link == Wrap(c.pc + 8)
        r == CASE i.op \in RdOps -> [c.r EXCEPT ![i.rd] = SpecialValue(c, i)]
               [] i.op \in RtOps -> [c.r EXCEPT ![i.rt] = ImmediateValue(c, i)]
               [] i.op \in Loads -> [c.r EXCEPT ![i.rt] = FetchValue(c, i, w)]
               [] i.op \in {"BGEZAL", "BLTZAL", "JAL"} -> [c.r EXCEPT ![RetAddrReg] = link]
               [] i.op = "JALR" -> [c.r EXCEPT ![i.rd] = link]
               [] OTHER -> c.r
    IN  [c EXCEPT !.r = [r EXCEPT ![0] = 0], !.pc = c.npc, !.npc = NextPC(c, r, i),
                  !.hi = SpecialHiLo(c, i).hi, !.lo = SpecialHiLo(c, i).lo]

=============================================================================
