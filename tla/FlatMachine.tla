---------------------------- MODULE FlatMachine ----------------------------
(***************************************************************************)
(* What a user program may rely on: a processor whose memory is one array  *)
(* of words, with no pages, frames or swap file.  A word the program has   *)
(* not been given and has not stored holds anything.  The one trace that   *)
(* paging leaves is in the load delay: the result of a load may arrive     *)
(* before the instruction in its delay slot instead of after it.           *)
(***************************************************************************)
EXTENDS CPU

CONSTANT Unset    \* the contents of a word nobody has stored

VARIABLES prog,    \* the executable: its code and its data, in words
          regs,    \* the registers of the processor
          mem,     \* word -> its contents
          state    \* "off", "running", "halted" or "aborted"

flatVars == <<prog, regs, mem, state>>

Init ==
    /\ prog \in Executables
    /\ regs = InitRegisters(SpaceSize(prog))
    /\ mem = [a \in 0 .. SpaceSize(prog) \div 4 - 1 |->
                 IF a < Len(Image(prog)) THEN Image(prog)[a + 1] ELSE Unset]
    /\ state \in {"off", "running"}

Current == Decode(prog, mem[regs.pc \div 4])

Fetched == state = "running" /\ regs.pc % 4 = 0

Contents(a) == IF mem[a] = Unset THEN Word ELSE {mem[a]}

\* An instruction that touches no memory, or reads and perhaps writes a word.
Compute ==
    Fetched /\ \E i \in {Current} :
       /\ i.op \notin Loads \cup Stores \cup {"SYSCALL"} /\ ~Aborts(regs, i)
       /\ regs' = OneInstruction(regs, i, 0)
       /\ UNCHANGED <<prog, mem, state>>

Access ==
    Fetched /\ \E i \in {Current} : \E a \in {Address(regs, i) \div 4} :
       /\ i.op \in Loads \cup Stores /\ ~Aborts(regs, i)
       /\ \E w \in Contents(a) :
             /\ regs' = OneInstruction(regs, i, w)
             /\ mem' = IF i.op \in Stores THEN [mem EXCEPT ![a] = StoreValue(regs, i, w)]
                                          ELSE mem
       /\ UNCHANGED <<prog, state>>

EarlyLoad ==
    /\ state = "running"
    /\ regs' = FinishLoad(regs)
    /\ UNCHANGED <<prog, mem, state>>

Stop ==
    /\ state = "running"
    /\ Fetched => Current.op = "SYSCALL" \/ Aborts(regs, Current)
    /\ regs' = FinishLoad(regs)
    /\ state' = IF Fetched /\ Current.op = "SYSCALL" /\ regs'.r[2] = 0 THEN "halted" ELSE "aborted"
    /\ UNCHANGED <<prog, mem>>

Next == Compute \/ Access \/ EarlyLoad \/ Stop

Spec == Init /\ [][Next]_flatVars

=============================================================================
