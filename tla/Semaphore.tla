------------------------------ MODULE Semaphore ------------------------------
(***************************************************************************)
(* class Semaphore of threads/synch.cc, on top of the dispatcher.  P and V *)
(* run with interrupts disabled and so are atomic up to the Sleep in P;    *)
(* both end in interrupt->SetLevel(oldLevel), which advances the clock and *)
(* is where a timer interrupt can take the processor away.  The program    *)
(* counter pc of a thread therefore only rests at two kinds of labels:     *)
(* right after interrupts were enabled, and asleep inside of P.            *)
(***************************************************************************)
EXTENDS ThreadStart

CONSTANTS Sem,          \* the Semaphore objects
          InitialValue  \* constructor argument of each

ASSUME InitialValueAssumption == InitialValue \in [Sem -> Nat]

VARIABLES value,   \* semaphore value
          queue,   \* threads waiting in P, in FIFO order
          pc       \* where each thread is in its code

semVars == <<value, queue>>

SemTypeOK ==
    /\ value \in [Sem -> Nat]
    /\ queue \in [Sem -> Seq(Thread)]

\* Semaphore::Semaphore
SemInit ==
    /\ value = InitialValue
    /\ queue = [s \in Sem |-> <<>>]

At(t, label) == Running(t) /\ pc[t] = label

Goto(t, label) == pc' = [pc EXCEPT ![t] = label]

-----------------------------------------------------------------------------
\* A faulty P that goes on without taking a unit.
PNoDecrement(s, again, done) ==
    \/ /\ value[s] > 0
       /\ value' = [value EXCEPT ![s] = IF pc[currentThread] = again THEN @ ELSE @ - 1]
       /\ Goto(currentThread, done)
       /\ UNCHANGED <<queue, schedVars>>
    \/ /\ value[s] = 0
       /\ queue' = [queue EXCEPT ![s] = Append(@, currentThread)]
       /\ SleepCPU
       /\ Goto(currentThread, again)
       /\ UNCHANGED value

\* Semaphore::P by the running thread: one pass of the while loop.  A thread
\* that has to sleep comes back to the test, at label again.
P(s, again, done) ==
    \/ /\ value[s] > 0
       /\ value' = [value EXCEPT ![s] = @ - 1]
       /\ Goto(currentThread, done)
       /\ UNCHANGED <<queue, schedVars>>
    \/ /\ value[s] = 0
       /\ queue' = [queue EXCEPT ![s] = Append(@, currentThread)]
       /\ SleepCPU
       /\ Goto(currentThread, again)
       /\ UNCHANGED value

\* Faulty variants of V: the waiter stays on the queue, it is woken only
\* when the value was 0, or it is not woken at all.
VKeepsWaiter(s) ==
    /\ value' = [value EXCEPT ![s] = @ + 1]
    /\ IF queue[s] = <<>> THEN UNCHANGED schedVars ELSE ReadyToRun(Head(queue[s]))
    /\ UNCHANGED queue

VWakesAtZero(s) ==
    /\ value' = [value EXCEPT ![s] = @ + 1]
    /\ IF queue[s] = <<>> \/ value[s] > 0
       THEN UNCHANGED <<queue, schedVars>>
       ELSE /\ queue' = [queue EXCEPT ![s] = Tail(@)]
            /\ ReadyToRun(Head(queue[s]))

VNoWakeup(s) ==
    /\ value' = [value EXCEPT ![s] = @ + 1]
    /\ UNCHANGED <<queue, schedVars>>

\* Semaphore::V by the running thread or by an interrupt handler: the first
\* waiter becomes ready, and the value is incremented in any case.
V(s) ==
    /\ value' = [value EXCEPT ![s] = @ + 1]
    /\ IF queue[s] = <<>>
       THEN UNCHANGED <<queue, schedVars>>
       ELSE /\ queue' = [queue EXCEPT ![s] = Tail(@)]
            /\ ReadyToRun(Head(queue[s]))

\* A call of currentThread->Yield() with the running thread at one of these
\* labels.
YieldAt(labels) ==
    /\ Running(currentThread)
    /\ pc[currentThread] \in labels
    /\ readyList # <<>>
    /\ YieldCPU

\* A device interrupt is served when the running thread enables interrupts,
\* at one of these labels, or while the processor idles.
InterruptAt(labels) == Idling \/ pc[currentThread] \in labels

=============================================================================
