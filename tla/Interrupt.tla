------------------------------ MODULE Interrupt ------------------------------
(***************************************************************************)
(* The simulated hardware: machine/interrupt.cc with the timer, the        *)
(* dispatcher, and threads that run user or kernel code.  Time advances    *)
(* when interrupts are enabled, after each user instruction, and in the    *)
(* idle loop; interrupt handlers run at those points and nowhere else.     *)
(*                                                                         *)
(* phase says which loop the simulation is in:                             *)
(*   "run"      the current thread executes                                *)
(*   "due"      OneTick, in while (CheckIfDue(FALSE))                      *)
(*   "idle"     Thread::Sleep found nobody ready and calls Idle            *)
(*   "idledue"  Idle, in while (CheckIfDue(FALSE))                         *)
(*   "halted"   Idle found nothing to wait for                             *)
(* A thread is in "user" or "kernel" code; one that OneTick made yield     *)
(* stays inside of that call (inTick) until it has got the processor back  *)
(* and the tick at the end of Yield is over.                               *)
(***************************************************************************)
EXTENDS ThreadStart, SortedList

CONSTANTS Device,                \* devices that interrupt once per request
          Timer,                 \* the type of the timer's interrupts
          DeviceDelays,          \* how long requests can take
          TimerDelays,           \* how long until the next timer interrupt
          UserTick, SystemTick,  \* stats.h
          MaxTicks               \* bound on the simulated time

ASSUME DeviceAssumption == Timer \notin Device
ASSUME DelaysAssumption ==
    DeviceDelays \subseteq Nat \ {0} /\ TimerDelays \subseteq Nat \ {0}
ASSUME TickAssumption ==
    UserTick \in Nat \ {0} /\ SystemTick \in Nat \ {0} /\ MaxTicks \in Nat

VARIABLES totalTicks,     \* stats->totalTicks
          pending,        \* interrupts to come: elements [item, key], key = when
          yieldOnReturn,  \* the timer handler asked for a context switch
          mode,           \* Interrupt::status
          code,           \* where each thread is: "user" or "kernel"
          inTick,         \* threads inside of a OneTick that yielded
          old,            \* the local variable old of that OneTick
          waiter,         \* the thread that waits for each device
          phase

intVars == <<totalTicks, pending, yieldOnReturn, mode>>
vars == <<schedVars, intVars, code, inTick, old, waiter, phase>>

Mode == {"IdleMode", "SystemMode", "UserMode"}

TypeOK ==
    /\ SchedTypeOK
    /\ totalTicks \in Nat
    /\ \A i \in 1..Len(pending) : pending[i].item \in Device \cup {Timer}
    /\ yieldOnReturn \in BOOLEAN
    /\ mode \in Mode
    /\ code \in [Thread -> {"user", "kernel"}]
    /\ inTick \subseteq Thread
    /\ old \in [Thread -> Mode]
    /\ waiter \in [Device -> Thread \cup {NoThread}]
    /\ phase \in {"run", "due", "idle", "idledue", "halted"}

\* Interrupt::Interrupt, the Timer's constructor (option -rs) and the first
\* threads, which start in the kernel.
Init ==
    /\ StartThreads
    /\ totalTicks = 0
    /\ \E d \in TimerDelays : pending = <<Element(Timer, d)>>
    /\ yieldOnReturn = FALSE
    /\ mode = "SystemMode"
    /\ code = [t \in Thread |-> "kernel"]
    /\ inTick = {}
    /\ old = [t \in Thread |-> "SystemMode"]
    /\ waiter = [d \in Device |-> NoThread]
    /\ phase = "run"

\* Interrupt::Schedule, onto the list of pending interrupts s.
Schedule(s, type, when) == SortedInsertInto(s, Element(type, when))

Executing == phase = "run" /\ totalTicks < MaxTicks

-----------------------------------------------------------------------------
(***************************************************************************)
(* The current thread.                                                     *)
(***************************************************************************)
\* Machine::Run starts, or RaiseException returns to, the user program.
EnterUser ==
    /\ Executing
    /\ currentThread \notin inTick
    /\ code[currentThread] = "kernel"
    /\ code' = [code EXCEPT ![currentThread] = "user"]
    /\ mode' = "UserMode"
    /\ UNCHANGED <<schedVars, totalTicks, pending, yieldOnReturn, inTick, old,
                   waiter, phase>>

\* Machine::RaiseException: a system call or a fault.
RaiseException ==
    /\ Executing
    /\ currentThread \notin inTick
    /\ code[currentThread] = "user"
    /\ code' = [code EXCEPT ![currentThread] = "kernel"]
    /\ mode' = "SystemMode"
    /\ UNCHANGED <<schedVars, totalTicks, pending, yieldOnReturn, inTick, old,
                   waiter, phase>>

\* A device driver starts a request and sleeps until its interrupt: the
\* thread is queued before any interrupt can be served.
Request(d) ==
    /\ Executing
    /\ currentThread \notin inTick
    /\ code[currentThread] = "kernel"
    /\ waiter[d] = NoThread
    /\ \A i \in 1..Len(pending) : pending[i].item # d
    /\ \E delay \in DeviceDelays : pending' = Schedule(pending, d, totalTicks + delay)
    /\ waiter' = [waiter EXCEPT ![d] = currentThread]
    /\ SleepCPU
    /\ phase' = IF readyList = <<>> THEN "idle" ELSE "run"
    /\ UNCHANGED <<totalTicks, yieldOnReturn, mode, code, inTick, old>>

\* Thread::Finish: the thread sleeps for good.
Finish ==
    /\ Executing
    /\ currentThread \notin inTick
    /\ code[currentThread] = "kernel"
    /\ SleepCPU
    /\ phase' = IF readyList = <<>> THEN "idle" ELSE "run"
    /\ UNCHANGED <<intVars, code, inTick, old, waiter>>

\* OneTick begins: after a user instruction, or in SetLevel(IntOn).
OneTick ==
    /\ Executing
    /\ totalTicks' = totalTicks + (IF mode = "SystemMode" THEN SystemTick ELSE UserTick)
    /\ phase' = "due"
    /\ UNCHANGED <<schedVars, pending, yieldOnReturn, mode, code, inTick, old, waiter>>

-----------------------------------------------------------------------------
(***************************************************************************)
(* Interrupt handlers.                                                     *)
(***************************************************************************)
Due == pending # <<>> /\ Head(pending).key <= totalTicks

\* CheckIfDue in IdleMode does not serve a timer interrupt that is the only
\* one left.
OnlyTimerLeft == Len(pending) = 1 /\ Head(pending).item = Timer

\* TimerExpired schedules the next timer interrupt, then the handler may ask
\* for a yield: it does so once in ten times, by a count kept in the current
\* thread.  The counts start uninitialised, so any of them may be the tenth.
TimerExpired(now) ==
    /\ \E d \in TimerDelays : pending' = Schedule(Tail(pending), Timer, now + d)
    /\ yieldOnReturn' \in {yieldOnReturn, TRUE}
    /\ UNCHANGED <<schedVars, waiter>>

\* The handler of device d: the waiting thread becomes ready.
DeviceDone(d) ==
    /\ pending' = Tail(pending)
    /\ waiter' = [waiter EXCEPT ![d] = NoThread]
    /\ ReadyToRun(waiter[d])
    /\ UNCHANGED yieldOnReturn

\* CheckIfDue calls the handler of the first interrupt.
Fire(now) ==
    IF Head(pending).item = Timer
    THEN TimerExpired(now)
    ELSE DeviceDone(Head(pending).item)

\* CheckIfDue looks at an interrupt that is not due and puts it back, behind
\* others of the same time.
PutBack == IF pending = <<>> THEN pending
                             ELSE SortedInsertInto(Tail(pending), Head(pending))

\* OneTick: one more interrupt is due.
FireDue ==
    /\ phase = "due"
    /\ Due
    /\ Fire(totalTicks)
    /\ UNCHANGED <<totalTicks, mode, code, inTick, old, phase>>

\* A faulty OneTick that does not restore status after the yield.
EndTickKeepsMode ==
    /\ phase = "due"
    /\ ~Due
    /\ ~yieldOnReturn
    /\ pending' = PutBack
    /\ inTick' = inTick \ {currentThread}
    /\ phase' = "run"
    /\ UNCHANGED <<schedVars, totalTicks, yieldOnReturn, mode, code, old, waiter>>

\* OneTick: no more interrupts, and no yield.  A thread that got here from
\* the end of Yield also leaves the OneTick that called Yield.
EndTick ==
    /\ phase = "due"
    /\ ~Due
    /\ ~yieldOnReturn
    /\ pending' = PutBack
    /\ mode' = IF currentThread \in inTick THEN old[currentThread] ELSE mode
    /\ inTick' = inTick \ {currentThread}
    /\ phase' = "run"
    /\ UNCHANGED <<schedVars, totalTicks, yieldOnReturn, code, old, waiter>>

\* OneTick: the yield the timer asked for.  The mode is saved by the thread
\* unless this tick is itself part of a Yield, whose caller has saved it.
YieldAfterTick ==
    /\ phase = "due"
    /\ ~Due
    /\ yieldOnReturn
    /\ pending' = PutBack
    /\ yieldOnReturn' = FALSE
    /\ old' = IF currentThread \in inTick THEN old
              ELSE [old EXCEPT ![currentThread] = mode]
    /\ inTick' = inTick \cup {currentThread}
    /\ mode' = "SystemMode"
    /\ YieldCPU
    /\ phase' = "run"
    /\ UNCHANGED <<totalTicks, code, waiter>>

-----------------------------------------------------------------------------
(***************************************************************************)
(* The idle loop.                                                          *)
(***************************************************************************)
\* A faulty idle loop that serves the interrupt without advancing the clock.
IdleFireEarly ==
    /\ phase = "idle"
    /\ pending # <<>>
    /\ ~OnlyTimerLeft
    /\ Fire(totalTicks)
    /\ mode' = "IdleMode"
    /\ phase' = "idledue"
    /\ UNCHANGED <<totalTicks, code, inTick, old>>

\* CheckIfDue(TRUE): the clock jumps to the first interrupt.
IdleFire ==
    /\ phase = "idle"
    /\ pending # <<>>
    /\ ~OnlyTimerLeft
    /\ LET when == Head(pending).key
           now == IF when > totalTicks THEN when ELSE totalTicks
       IN  totalTicks' = now /\ Fire(now)
    /\ mode' = "IdleMode"
    /\ phase' = "idledue"
    /\ UNCHANGED <<code, inTick, old>>

\* CheckIfDue(FALSE), for other interrupts of the same time.
IdleFireDue ==
    /\ phase = "idledue"
    /\ Due
    /\ ~OnlyTimerLeft
    /\ Fire(totalTicks)
    /\ UNCHANGED <<totalTicks, mode, code, inTick, old, phase>>

\* A faulty Idle that serves one interrupt only.
EndIdleAfterOne ==
    /\ phase = "idledue"
    /\ pending' = PutBack
    /\ yieldOnReturn' = FALSE
    /\ mode' = "SystemMode"
    /\ IF readyList = <<>> THEN phase' = "idle" /\ UNCHANGED schedVars
                           ELSE phase' = "run" /\ LeaveIdle
    /\ UNCHANGED <<totalTicks, code, inTick, old, waiter>>

\* Idle returns to Thread::Sleep, which runs a ready thread or idles again.
EndIdle ==
    /\ phase = "idledue"
    /\ ~Due \/ OnlyTimerLeft
    /\ pending' = PutBack
    /\ yieldOnReturn' = FALSE
    /\ mode' = "SystemMode"
    /\ IF readyList = <<>> THEN phase' = "idle" /\ UNCHANGED schedVars
                           ELSE phase' = "run" /\ LeaveIdle
    /\ UNCHANGED <<totalTicks, code, inTick, old, waiter>>

\* CheckIfDue(TRUE) finds no interrupt, or only the timer's, to whose time
\* the clock has already been advanced: Halt.
Halt ==
    /\ phase = "idle"
    /\ pending = <<>> \/ OnlyTimerLeft
    /\ totalTicks' = IF pending # <<>> /\ Head(pending).key > totalTicks
                     THEN Head(pending).key ELSE totalTicks
    /\ mode' = "IdleMode"
    /\ phase' = "halted"
    /\ UNCHANGED <<schedVars, pending, yieldOnReturn, code, inTick, old, waiter>>

Next ==
    \/ EnterUser \/ RaiseException \/ Finish \/ OneTick
    \/ \E d \in Device : Request(d)
    \/ FireDue \/ EndTick \/ YieldAfterTick
    \/ IdleFire \/ IdleFireDue \/ EndIdle \/ Halt

Spec == Init /\ [][Next]_vars

-----------------------------------------------------------------------------
(***************************************************************************)
(* Properties.                                                             *)
(***************************************************************************)
\* Interrupts are served on time: when a thread executes, no device is
\* overdue.  The clock of the idle loop cannot jump over an interrupt, and
\* several interrupts of one time are all served.  Only the timer can be
\* late, when the idle loop left it to the next tick.
NoDeviceOverdue ==
    phase = "run" =>
        \A i \in 1..Len(pending) :
            pending[i].key <= totalTicks => pending[i].item = Timer

\* The timer re-arms itself for ever: whatever is served, put back or left
\* over, exactly one timer interrupt is pending.
TimerArmedOnce ==
    Cardinality({i \in 1..Len(pending) : pending[i].item = Timer}) = 1

\* The machine mode belongs to the running thread: user code runs in
\* UserMode, kernel code does not, although status is one variable that
\* every context switch, exception and idle loop writes.
ModeMatchesCode ==
    phase = "run" /\ currentThread \notin inTick =>
        mode = IF code[currentThread] = "user" THEN "UserMode" ELSE "SystemMode"

\* A thread waits for a device exactly while the device's interrupt is to
\* come.  So when Idle finds no interrupt and halts, "Assuming the program
\* completed", every thread has really finished.
WaiterHasInterrupt ==
    /\ \A d \in Device :
         waiter[d] # NoThread <=> \E i \in 1..Len(pending) : pending[i].item = d
    /\ phase = "halted" =>
         \A t \in Thread : status[t] = "BLOCKED" /\ \A d \in Device : waiter[d] # t

\* What OneTick, Idle and the handlers leave behind: the timer armed once, the
\* mode of the code that runs, an interrupt for every thread that waits for a
\* device, and nobody waiting when the machine halts.
InterruptInv == TypeOK /\ TimerArmedOnce /\ ModeMatchesCode /\ WaiterHasInterrupt

\* No interrupt is served early, and none overtakes one of an earlier time:
\* an interrupt that leaves the list was first by time, and its time has come.
ServedInOrder ==
    [][\A d \in Device :
          waiter[d] # NoThread /\ waiter'[d] = NoThread =>
              \E i \in 1..Len(pending) :
                  /\ pending[i].item = d
                  /\ pending[i].key <= totalTicks'
                  /\ \A j \in 1..Len(pending) : pending[j].key >= pending[i].key]_vars

=============================================================================
