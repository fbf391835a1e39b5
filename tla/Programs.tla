------------------------------ MODULE Programs ------------------------------
(***************************************************************************)
(* What one start of Nachos runs (threads/main.cc): ConsoleTest with       *)
(* option -c, MailTest with -o, a user program with -x; ElevatorSelfTest   *)
(* (machine/elevatortest.cc) can be called instead of them; the options of *)
(* the file system (-cp, -p, -t) send requests to the disk, of which only  *)
(* the timing is followed here.  The devices of the programs that do not   *)
(* run are still.                                                          *)
(***************************************************************************)
EXTENDS Console, PostOffice, Elevator, Disk, Machine

VARIABLE program

vars == <<program, conVars, mailVars, liftVars, diskVars, machVars>>

\* What an idle device holds.
AnyScript == CHOOSE s \in Scripts : TRUE
AnyExecutable == CHOOSE e \in Executables : TRUE

\* Initialize: every device exists, whatever will run.
Initialize ==
    /\ ConsoleInit /\ (program # "-c" => typed = <<>>)
    /\ MailInit /\ (program # "-o" => ~lossy /\ script = AnyScript)
    /\ ElevatorInit
    /\ DiskInit
    /\ \E e \in IF program = "-x" THEN Executables ELSE {AnyExecutable} : MachineInit(e)
    /\ status = IF program = "-x" THEN "running" ELSE "off"

\* main's choice.
Init == program \in {"-c", "-o", "-t", "-x", "elevator"} /\ Initialize

RunConsole(A) ==
    program = "-c" /\ A /\ UNCHANGED <<program, mailVars, liftVars, diskVars, machVars>>
RunMail(A) ==
    program = "-o" /\ A /\ UNCHANGED <<program, conVars, liftVars, diskVars, machVars>>
RunElevator(A) ==
    program = "elevator" /\ A /\ UNCHANGED <<program, conVars, mailVars, diskVars, machVars>>
RunDisk(A) ==
    program = "-t" /\ A /\ UNCHANGED <<program, conVars, mailVars, liftVars, machVars>>
StartProcess(A) ==
    program = "-x" /\ A /\ UNCHANGED <<program, conVars, mailVars, liftVars, diskVars>>

Next == \/ RunConsole(ConsoleNext) \/ RunMail(MailNext)
        \/ RunElevator(ElevatorNext) \/ RunDisk(DiskNext) \/ StartProcess(MachineNext)

\* Every device keeps scheduling its poll interrupt, an interrupt that is
\* scheduled fires because the idle loop lets time pass until it is due, a
\* thread that can go on is scheduled, and Machine::Run is an endless loop.
Fairness ==
    /\ WF_vars(RunConsole(CheckCharAvail)) /\ WF_vars(RunConsole(WriteDone))
    /\ \A c \in Client : WF_vars(RunConsole(ConsoleStep(c)))
    /\ \A m \in Mailer : WF_vars(RunMail(MailStep(m)))
    /\ \A n \in Node : /\ WF_vars(RunMail(SendDone(n))) /\ WF_vars(RunMail(CheckPktAvail(n)))
                       /\ WF_vars(RunMail(PostalReceive(n) \/ Put(n)))
    /\ WF_vars(StartProcess(MachineNext))

Spec == Init /\ [][Next]_vars /\ Fairness

-----------------------------------------------------------------------------
(***************************************************************************)
(* Properties.                                                             *)
(***************************************************************************)
\* No program waits for ever: everything typed, up to the first 'q', is
\* echoed; on a network that loses nothing every script of sends and
\* receives comes to its end, MailTest's included; and no page fault is
\* repeated for ever, so a user program reaches its end.
WorkCompletes ==
    /\ program = "-c" ~> display = Wanted
    /\ (program = "-o" /\ ~lossy) ~> \A m \in Mailer : script[m] = <<>>
    /\ program = "-x" ~> status # "running"

=============================================================================
