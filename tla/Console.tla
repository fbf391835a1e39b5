------------------------------ MODULE Console ------------------------------
(***************************************************************************)
(* The console device and SynchConsole (machine/console.cc) with the       *)
(* threads that run ConsoleTest (userprog/progtest.cc).  The semaphores    *)
(* are counters, which Semaphore implements.  SynchConsole holds its lock  *)
(* only inside of one call, which is one step here, so the lock is no      *)
(* variable: it does not cover the time until the character is written.    *)
(*                                                                         *)
(* A poll interrupt is always pending; that it finds nothing is a stutter. *)
(***************************************************************************)
EXTENDS Integers, Sequences

CONSTANTS Client, \* threads that run ConsoleTest, one in the code
          Inputs, \* what may be typed: sequences of characters
          EOF, Quit

VARIABLES keyboard,  \* characters still to be typed
          incoming,  \* buffer of the device, EOF when it is empty
          putBusy,
          writeInt,  \* is the interrupt of a write pending?
          readAvail, writeDone, \* values of the semaphores
          conPc, conCh, \* where each client is, and its ch
          typed, display \* history: all of the input, all of the output

conVars == <<keyboard, incoming, putBusy, writeInt, readAvail, writeDone,
             conPc, conCh, typed, display>>

ConsoleInit ==
    /\ typed \in Inputs
    /\ keyboard = typed
    /\ incoming = EOF
    /\ putBusy = FALSE
    /\ writeInt = FALSE
    /\ readAvail = 0
    /\ writeDone = 0
    /\ conPc = [c \in Client |-> "read"]
    /\ conCh = [c \in Client |-> EOF]
    /\ display = <<>>

ConsoleUp == \A c \in Client : conPc[c] # "halt"

-----------------------------------------------------------------------------
\* A faulty CheckCharAvail that does not look whether the buffer is free.
CheckCharOverwrites ==
    /\ ConsoleUp
    /\ keyboard # <<>>
    /\ incoming' = Head(keyboard)
    /\ keyboard' = Tail(keyboard)
    /\ readAvail' = readAvail + 1
    /\ UNCHANGED <<putBusy, writeInt, writeDone, conPc, conCh, typed, display>>

\* The poll interrupt, with its handler ReadAvail.
CheckCharAvail ==
    /\ ConsoleUp
    /\ incoming = EOF
    /\ keyboard # <<>>
    /\ incoming' = Head(keyboard)
    /\ keyboard' = Tail(keyboard)
    /\ readAvail' = readAvail + 1
    /\ UNCHANGED <<putBusy, writeInt, writeDone, conPc, conCh, typed, display>>

\* A faulty handler that wakes nobody.
WriteDoneNoV ==
    /\ ConsoleUp
    /\ writeInt
    /\ writeInt' = FALSE
    /\ putBusy' = FALSE
    /\ UNCHANGED <<keyboard, incoming, readAvail, writeDone, conPc, conCh, typed, display>>

\* The write interrupt, with its handler WriteDone.
WriteDone ==
    /\ ConsoleUp
    /\ writeInt
    /\ writeInt' = FALSE
    /\ putBusy' = FALSE
    /\ writeDone' = writeDone + 1
    /\ UNCHANGED <<keyboard, incoming, readAvail, conPc, conCh, typed, display>>

-----------------------------------------------------------------------------
\* ConsoleTest: readAvail->P().
WaitForChar(c) ==
    /\ ConsoleUp
    /\ conPc[c] = "read"
    /\ readAvail > 0
    /\ readAvail' = readAvail - 1
    /\ conPc' = [conPc EXCEPT ![c] = "get"]
    /\ UNCHANGED <<keyboard, incoming, putBusy, writeInt, writeDone, conCh, typed, display>>

GetChar(c) ==
    /\ ConsoleUp
    /\ conPc[c] = "get"
    /\ conCh' = [conCh EXCEPT ![c] = incoming]
    /\ incoming' = EOF
    /\ conPc' = [conPc EXCEPT ![c] = "put"]
    /\ UNCHANGED <<keyboard, putBusy, writeInt, readAvail, writeDone, typed, display>>

\* PutChar; its assertion ends the program.
PutChar(c) ==
    /\ ConsoleUp
    /\ conPc[c] = "put"
    /\ IF putBusy
       THEN /\ conPc' = [conPc EXCEPT ![c] = "halt"]
            /\ UNCHANGED <<display, putBusy, writeInt>>
       ELSE /\ display' = Append(display, conCh[c])
            /\ putBusy' = TRUE
            /\ writeInt' = TRUE
            /\ conPc' = [conPc EXCEPT ![c] = "written"]
    /\ UNCHANGED <<keyboard, incoming, readAvail, writeDone, conCh, typed>>

\* writeDone->P(), and the end after 'q', when main halts the machine.
WaitWritten(c) ==
    /\ ConsoleUp
    /\ conPc[c] = "written"
    /\ writeDone > 0
    /\ writeDone' = writeDone - 1
    /\ conPc' = [conPc EXCEPT ![c] = IF conCh[c] = Quit THEN "halt" ELSE "read"]
    /\ UNCHANGED <<keyboard, incoming, putBusy, writeInt, readAvail, conCh, typed, display>>

ConsoleStep(c) == WaitForChar(c) \/ GetChar(c) \/ PutChar(c) \/ WaitWritten(c)

ConsoleNext == CheckCharAvail \/ WriteDone \/ \E c \in Client : ConsoleStep(c)

\* The console by itself; module Programs adds fairness.
ConsoleSpec == ConsoleInit /\ [][ConsoleNext]_conVars

-----------------------------------------------------------------------------
(***************************************************************************)
(* Properties.                                                             *)
(***************************************************************************)
One(full, ch) == IF full THEN <<ch>> ELSE <<>>

\* A thread that is about to write finds the device free.
PutWaitsForDevice ==
    \A c \in Client : conPc[c] = "put" => ~putBusy /\ ~writeInt /\ writeDone = 0

\* The buffer of one character between the polls and the thread loses none
\* and repeats none: the output, the character in the thread's hands, the one
\* in the buffer and those still to be typed are the input, in its order; and
\* PutChar's assertion holds, as writeDone is passed exactly once per write.
\* (With one client.  A typed byte of value EOF would break it: the device
\* takes the buffer for empty.)
EchoExact ==
    /\ PutWaitsForDevice
    /\ \A c \in Client :
          typed = display \o One(conPc[c] = "put", conCh[c])
                          \o One(incoming # EOF, incoming) \o keyboard

\* Everything that is typed up to the first 'q' is echoed at last.
Wanted ==
    LET q == {i \in 1..Len(typed) : typed[i] = Quit}
    IN  IF q = {} THEN typed ELSE SubSeq(typed, 1, CHOOSE i \in q : \A j \in q : i <= j)

=============================================================================
