---------------------------- MODULE MCPrograms ----------------------------
(***************************************************************************)
(* Model checking of Programs.  Two machines run MailTest with each other; *)
(* or two threads of the first machine send, and two of the second         *)
(* receive from two boxes.  Two lifts serve three floors.  User programs   *)
(* of 16 words of code (four pages) and their data run in two frames.      *)
(***************************************************************************)
EXTENDS Programs, TLC

CONSTANTS n1, n2, m1, m2, m3, m4

TypedInputs == {<<>>, <<"x", "y", "z">>, <<"x", "x", "q", "y">>}

HomeOf == m1 :> n1 @@ m2 :> n2 @@ m3 :> n1 @@ m4 :> n2
MailTests == m1 :> MailTest(n2) @@ m2 :> MailTest(n1) @@ m3 :> <<>> @@ m4 :> <<>>
\* Three letters to box 0 and one to box 1 of the second machine; the first
\* one is acknowledged.
Correspondence ==
    m1 :> <<Send0(n2, 0, 1), Send0(n2, 1, 1), Receive0(1)>>
 @@ m3 :> <<Send0(n2, 0, 1)>>
 @@ m2 :> <<Receive0(1), Receive0(0)>>
 @@ m4 :> <<Receive0(0), Ack>>
AllScripts == {MailTests, Correspondence}

-----------------------------------------------------------------------------
Reg(o, d, s, t) == [op |-> o, rs |-> s, rt |-> t, rd |-> d, extra |-> 0]
Imm(o, t, s, n) == [op |-> o, rs |-> s, rt |-> t, rd |-> 0, extra |-> n]
Nop == Reg("SLL", 0, 0, 0)
HaltCall == <<Imm("ADDIU", 2, 0, 0), Reg("SYSCALL", 0, 0, 0)>>
\* Register 4 holds the address of the data, the next page after the code.
Executable(code, data) ==
    LET text == <<Imm("LUI", 4, 0, 1)>> \o code \o HaltCall
    IN  [code |-> text \o [k \in 1 .. 16 - Len(text) |-> Nop], data |-> data]

\* Arithmetic on the operands where signs and carries change.
Edge == {0, 1, 2^(W - 1) - 1, 2^(W - 1), 2^W - 1, 1234}
Operands == <<Imm("LW", 1, 4, 0), Imm("LW", 2, 4, 4), Nop>>
Calculations ==
    {<<Reg("MULT", 0, 1, 2), Reg("MFHI", 1, 0, 0), Imm("SW", 1, 4, 12)>>,
     <<Reg("MULTU", 0, 1, 2), Reg("MFLO", 1, 0, 0), Imm("SW", 1, 4, 16)>>,
     <<Reg("DIV", 0, 1, 2)>>, <<Reg("DIVU", 0, 1, 2)>>,
     <<Reg("ADD", 5, 1, 2)>>, <<Reg("SUB", 5, 1, 2)>>}
Arithmetic == {Executable(Operands \o c, <<x, y>>) : x \in Edge, y \in Edge, c \in Calculations}

\* Every three accesses in a row, on three pages of data, with a branch.
Accessing ==
    {Imm("LW", 1, 4, 0), Imm("LW", 1, 4, 20), Imm("SW", 1, 4, 20), Imm("SB", 1, 4, 5),
     Imm("LB", 2, 4, 21), Imm("SH", 4, 4, 14), Reg("ADDU", 1, 1, 2), Imm("BNE", 0, 1, 1)}
Paging == {Executable(c, <<7, 4095, 3, 100, 9, 2000>>) : c \in [1 .. 3 -> Accessing]}

\* Every opcode once, on operands of both signs; a loop that counts down
\* over two pages; a call and a return; a word nobody stored.
Each ==
    {<<Reg(o, 5, 1, 2), Imm("SW", 5, 4, 16)>> : o \in RdOps \cup HiLoOps}
      \cup {<<Imm(o, 5, 1, -5), Imm("SW", 5, 4, 16)>> : o \in RtOps}
      \cup {<<Imm(o, 2, 1, 1), Nop, Imm("SW", 5, 4, 16)>> : o \in Branches}
      \cup {<<Imm(o, 1, 4, 8)>> \o <<Nop, Imm("SW", 1, 4, 16)>> : o \in Loads \cup Stores}
      \cup {<<Imm("LW", 1, 4, 2)>>, <<Imm("SWR", 1, 4, 3)>>, <<Reg("RES", 0, 0, 0)>>,
            <<Reg("SYSCALL", 0, 0, 0)>>, <<Reg("JR", 0, 1, 0), Nop>>,
            <<Imm("LW", 5, 4, 24), Nop, Imm("SW", 5, 4, 16)>>}
Opcodes == {Executable(Operands \o c, <<d[1], d[2], 900>>) :
               c \in Each, d \in {<<5, 4091>>, <<2049, 3>>}}
Loop == Executable(<<Imm("ADDIU", 1, 0, 2), Imm("SW", 1, 4, 0), Imm("ADDIU", 1, 1, -1),
                     Imm("SW", 1, 4, 16), Imm("BGTZ", 0, 1, -3), Imm("LW", 2, 4, 0)>>, <<>>)
Call == Executable(<<Imm("JAL", 0, 0, 6), Imm("ORI", 1, 0, 44), Imm("SW", 5, 4, 0), Imm("J", 0, 0, 8),
                     Nop, Reg("JALR", 2, 5, 0), Imm("SB", 1, 4, 17)>>, <<>>)

AllExecutables == Arithmetic \cup Paging \cup Opcodes \cup {Loop, Call}

=============================================================================
