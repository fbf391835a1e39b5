----------------------------- MODULE PostOffice -----------------------------
(***************************************************************************)
(* The post office (network/post.cc) over the network device               *)
(* (machine/network.cc), on several machines that run at the same time.    *)
(* Each thread of a machine runs a script of calls; MailTest               *)
(* (network/nettest.cc) is one of them.  Semaphores are counters, sendLock *)
(* is its holder, a mail box is its sequence of mails: what modules        *)
(* Semaphore, LockUsers and SynchList show of them.                        *)
(*                                                                         *)
(* The network delivers in order and may drop packets; nothing is sent     *)
(* again.  A poll that finds no packet, or the buffer full, is a stutter.  *)
(***************************************************************************)
EXTENDS Integers, Sequences

CONSTANTS Node,        \* the machines
          Mailer,      \* threads that use a post office
          Home,        \* the machine of each thread
          Box,         \* mail boxes of each machine
          Scripts,     \* possible scripts, each a function from Mailer
          Nobody       \* not a thread

ASSUME MailAssumption ==
    /\ Home \in [Mailer -> Node]
    /\ Nobody \notin Mailer

VARIABLES lossy,      \* is the reliability of the network below 1?
          script,     \* script[m]: the calls thread m still has to make
          phase,      \* where thread m is in its call
          letter,     \* the mail that m received last
          halted,     \* machines that have halted
          wire,       \* packets on the way to each machine
          inbox,      \* packet in the buffer of each network device, <<>> if none
          sendInt,    \* pending send interrupts of each device
          messageAvailable, messageSent, sendLock,
          worker,     \* the mail that the postal worker is putting away
          boxes,      \* mails in each box of each machine
          posted, got \* history: mails put on the wire to each box, and received

mailVars == <<lossy, script, phase, letter, halted, wire, inbox, sendInt,
              messageAvailable, messageSent, sendLock, worker, boxes, posted, got>>

Send0(to, box, reply) == [call |-> "Send", to |-> to, box |-> box, reply |-> reply]
Ack == [call |-> "Ack"] \* to the sender of the last letter
Receive0(box) == [call |-> "Receive", box |-> box]
Halt0 == [call |-> "Halt"]

\* A faulty MailTest that does not wait for the acknowledgement.
MailTestNoAck(farAddr) == <<Send0(farAddr, 0, 1), Receive0(0), Ack, Halt0>>

\* MailTest: a greeting, wait for one, acknowledge it, wait for the
\* acknowledgement, halt.
MailTest(farAddr) == <<Send0(farAddr, 0, 1), Receive0(0), Ack, Receive0(1), Halt0>>

MailInit ==
    /\ lossy \in BOOLEAN
    /\ script \in Scripts
    /\ phase = [m \in Mailer |-> "call"]
    /\ letter = [m \in Mailer |-> <<>>]
    /\ halted = {}
    /\ wire = [n \in Node |-> <<>>]
    /\ inbox = [n \in Node |-> <<>>]
    /\ sendInt = [n \in Node |-> 0]
    /\ messageAvailable = [n \in Node |-> 0]
    /\ messageSent = [n \in Node |-> 0]
    /\ sendLock = [n \in Node |-> Nobody]
    /\ worker = [n \in Node |-> <<>>]
    /\ boxes = [n \in Node |-> [b \in Box |-> <<>>]]
    /\ posted = [n \in Node |-> [b \in Box |-> <<>>]]
    /\ got = [n \in Node |-> [b \in Box |-> <<>>]]

\* Thread m of a machine that runs is about to make a call of this kind.
Calls(m, call) ==
    /\ Home[m] \notin halted
    /\ script[m] # <<>>
    /\ Head(script[m]).call \in call

\* The mail of a call, with the sender's address filled in.
MailOf(m) ==
    LET c == Head(script[m])
    IN  IF c.call = "Send"
        THEN [from |-> Home[m], to |-> c.to, box |-> c.box, reply |-> c.reply]
        ELSE [from |-> Home[m], to |-> letter[m].from, box |-> letter[m].reply, reply |-> 1]

-----------------------------------------------------------------------------
(***************************************************************************)
(* PostOffice::Send.                                                       *)
(***************************************************************************)
\* A faulty Send that does not take the lock.
SendUnlocked(m) ==
    /\ Calls(m, {"Send", "Ack"})
    /\ phase[m] = "call"
    /\ phase' = [phase EXCEPT ![m] = "send"]
    /\ UNCHANGED <<lossy, script, letter, halted, wire, inbox, sendInt, messageAvailable,
                   messageSent, sendLock, worker, boxes, posted, got>>

\* sendLock->Acquire().
AcquireSendLock(m) ==
    /\ Calls(m, {"Send", "Ack"})
    /\ phase[m] = "call"
    /\ sendLock[Home[m]] = Nobody
    /\ sendLock' = [sendLock EXCEPT ![Home[m]] = m]
    /\ phase' = [phase EXCEPT ![m] = "send"]
    /\ UNCHANGED <<lossy, script, letter, halted, wire, inbox, sendInt, messageAvailable,
                   messageSent, worker, boxes, posted, got>>

\* Network::Send: schedule the interrupt, then lose the packet or send it.
\* (It asserts ~sendBusy, which no code ever sets.)
NetworkSend(m) ==
    /\ Calls(m, {"Send", "Ack"})
    /\ phase[m] = "send"
    /\ sendInt' = [sendInt EXCEPT ![Home[m]] = @ + 1]
    /\ \/ /\ lossy
          /\ UNCHANGED <<wire, posted>>
       \/ LET p == MailOf(m)
          IN  /\ wire' = [wire EXCEPT ![p.to] = Append(@, p)]
              /\ posted' = [posted EXCEPT ![p.to][p.box] = Append(@, p)]
    /\ phase' = [phase EXCEPT ![m] = "sent"]
    /\ UNCHANGED <<lossy, script, letter, halted, inbox, messageAvailable,
                   messageSent, sendLock, worker, boxes, got>>

\* messageSent->P(), sendLock->Release().
EndSend(m) ==
    /\ Calls(m, {"Send", "Ack"})
    /\ phase[m] = "sent"
    /\ messageSent[Home[m]] > 0
    /\ messageSent' = [messageSent EXCEPT ![Home[m]] = @ - 1]
    /\ sendLock' = [sendLock EXCEPT ![Home[m]] = Nobody]
    /\ phase' = [phase EXCEPT ![m] = "call"]
    /\ script' = [script EXCEPT ![m] = Tail(@)]
    /\ UNCHANGED <<lossy, letter, halted, wire, inbox, sendInt, messageAvailable,
                   worker, boxes, posted, got>>

\* The send interrupt: Network::SendDone, PostOffice::PacketSent.
SendDone(n) ==
    /\ n \notin halted
    /\ sendInt[n] > 0
    /\ sendInt' = [sendInt EXCEPT ![n] = @ - 1]
    /\ messageSent' = [messageSent EXCEPT ![n] = @ + 1]
    /\ UNCHANGED <<lossy, script, phase, letter, halted, wire, inbox, messageAvailable,
                   sendLock, worker, boxes, posted, got>>

-----------------------------------------------------------------------------
(***************************************************************************)
(* The way of an incoming packet.                                          *)
(***************************************************************************)
\* A faulty CheckPktAvail that reads a packet into a full buffer.
CheckPktOverwrites(n) ==
    /\ n \notin halted
    /\ wire[n] # <<>>
    /\ inbox' = [inbox EXCEPT ![n] = <<Head(wire[n])>>]
    /\ wire' = [wire EXCEPT ![n] = Tail(@)]
    /\ messageAvailable' = [messageAvailable EXCEPT ![n] = @ + 1]
    /\ UNCHANGED <<lossy, script, phase, letter, halted, sendInt, messageSent, sendLock,
                   worker, boxes, posted, got>>

\* The poll interrupt: Network::CheckPktAvail, PostOffice::IncomingPacket.
CheckPktAvail(n) ==
    /\ n \notin halted
    /\ inbox[n] = <<>>
    /\ wire[n] # <<>>
    /\ inbox' = [inbox EXCEPT ![n] = <<Head(wire[n])>>]
    /\ wire' = [wire EXCEPT ![n] = Tail(@)]
    /\ messageAvailable' = [messageAvailable EXCEPT ![n] = @ + 1]
    /\ UNCHANGED <<lossy, script, phase, letter, halted, sendInt, messageSent, sendLock,
                   worker, boxes, posted, got>>

\* Network::Receive empties the buffer of the device.
NetworkReceive(n) ==
    /\ worker' = [worker EXCEPT ![n] = inbox[n]]
    /\ inbox' = [inbox EXCEPT ![n] = <<>>]

\* PostOffice::PostalDelivery: messageAvailable->P(), Network::Receive.
PostalReceive(n) ==
    /\ n \notin halted
    /\ worker[n] = <<>>
    /\ messageAvailable[n] > 0
    /\ messageAvailable' = [messageAvailable EXCEPT ![n] = @ - 1]
    /\ NetworkReceive(n)
    /\ UNCHANGED <<lossy, script, phase, letter, halted, wire, sendInt, messageSent,
                   sendLock, boxes, posted, got>>

\* PostalDelivery's call of MailBox::Put.
Put(n) ==
    /\ n \notin halted
    /\ worker[n] # <<>>
    /\ boxes' = [boxes EXCEPT ![n][worker[n][1].box] = Append(@, worker[n][1])]
    /\ worker' = [worker EXCEPT ![n] = <<>>]
    /\ UNCHANGED <<lossy, script, phase, letter, halted, wire, inbox, sendInt,
                   messageAvailable, messageSent, sendLock, posted, got>>

\* PostOffice::Receive, MailBox::Get: waits while the box is empty.
Receive(m) ==
    /\ Calls(m, {"Receive"})
    /\ LET n == Home[m]
           b == Head(script[m]).box
       IN  /\ boxes[n][b] # <<>>
           /\ letter' = [letter EXCEPT ![m] = Head(boxes[n][b])]
           /\ boxes' = [boxes EXCEPT ![n][b] = Tail(@)]
           /\ got' = [got EXCEPT ![n][b] = Append(@, Head(boxes[n][b]))]
    /\ script' = [script EXCEPT ![m] = Tail(@)]
    /\ UNCHANGED <<lossy, phase, halted, wire, inbox, sendInt, messageAvailable,
                   messageSent, sendLock, worker, posted>>

\* Interrupt::Halt at the end of MailTest stops the whole machine.
HaltMachine(m) ==
    /\ Calls(m, {"Halt"})
    /\ halted' = halted \cup {Home[m]}
    /\ script' = [script EXCEPT ![m] = <<>>]
    /\ UNCHANGED <<lossy, phase, letter, wire, inbox, sendInt, messageAvailable,
                   messageSent, sendLock, worker, boxes, posted, got>>

MailStep(m) ==
    AcquireSendLock(m) \/ NetworkSend(m) \/ EndSend(m) \/ Receive(m) \/ HaltMachine(m)
Deliver(n) == SendDone(n) \/ CheckPktAvail(n) \/ PostalReceive(n) \/ Put(n)

MailNext == (\E m \in Mailer : MailStep(m)) \/ (\E n \in Node : Deliver(n))

\* The machines by themselves; module Programs adds fairness.
MailSpec == MailInit /\ [][MailNext]_mailVars

-----------------------------------------------------------------------------
(***************************************************************************)
(* Properties.                                                             *)
(***************************************************************************)
\* The packets of a sequence that go to box b.
ForBox(seq, b) ==
    LET pick[i \in 0..Len(seq)] ==
            IF i = 0 THEN <<>>
            ELSE IF seq[i].box = b THEN Append(pick[i - 1], seq[i]) ELSE pick[i - 1]
    IN  pick[Len(seq)]

\* The semaphore messageAvailable counts the packet in the buffer: the worker
\* never takes an empty buffer for a packet.
PacketCounted == \A n \in Node : messageAvailable[n] = Len(inbox[n])

\* No mail is lost, repeated or put in a wrong box on its way from the wire
\* to a reader, and none overtakes another: for each box, what was received,
\* what is in the box, in the worker's hands, in the device's only buffer and
\* on the wire is what was sent, in that order.
MailExact ==
    /\ PacketCounted
    /\ \A n \in Node, b \in Box :
          posted[n][b] = got[n][b] \o boxes[n][b]
                         \o ForBox(worker[n] \o inbox[n] \o wire[n], b)

\* At most one packet of a machine is being sent: the send interrupt that
\* comes belongs to the thread that waits for it.  (The device's own check,
\* sendBusy, is never set.)
OneSendAtATime ==
    \A n \in Node :
        LET sending == {m \in Mailer : Home[m] = n /\ phase[m] = "sent"}
        IN  /\ sendInt[n] + messageSent[n] = (IF sending = {} THEN 0 ELSE 1)
            /\ \A m \in sending : sendLock[n] = m

\* A machine that halts at the end of MailTest leaves nobody behind: all its
\* mail has been received, and nobody will send to it any more.
HaltLeavesNothing ==
    \A n \in halted :
        /\ wire[n] = <<>> /\ inbox[n] = <<>>
        /\ \A m \in Mailer : Calls(m, {"Send", "Ack"}) => MailOf(m).to # n \/ phase[m] = "sent"

=============================================================================
