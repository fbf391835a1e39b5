------------------------------ MODULE Elevator ------------------------------
(***************************************************************************)
(* The elevator device (machine/elevator.cc) with a controller thread and  *)
(* a rider thread in the manner of machine/elevatortest.cc: each waits for *)
(* its next event, and between events makes any call of its interface that *)
(* the assertions of the device allow.  Time is relative: ints[k] is the   *)
(* number of elevator interrupts that are due in k ticks, arrive[e] the    *)
(* ticks until lift e is at the next floor, negative when that is past.    *)
(* The direction that MarkDirection stores and only getDirection reads is  *)
(* left out.                                                               *)
(***************************************************************************)
EXTENDS Integers, Sequences, FiniteSets

CONSTANTS NumElevators, NumFloors,
          DelayPerFloor, \* ticks from floor to floor, 100 in the code
          MaxEvents,     \* bound on the length of the lists of events
          MaxInts,       \* bound on interrupts pending for one time
          MaxWakeups,    \* bound on the semaphores for new calls
          RedirectBack   \* may MoveTo send a moving lift to the floor it left?

ASSUME ElevatorAssumption ==
    /\ NumElevators \in Nat \ {0} /\ NumFloors \in Nat \ {0}
    /\ DelayPerFloor \in Nat /\ DelayPerFloor > 1

Lift == 0..NumElevators - 1
Floor == 0..NumFloors - 1

VARIABLES doorsOpen, inMotion, lastFloor, goingTo, \* ElevatorInfo
          arrive, ints,
          riders,      \* lifts that the rider is on
          controllerEvents, riderEvents,
          wakeup,      \* semaphores riderWakeup and controllerWakeup
          waiting      \* threads inside of their loop WaitForNext...Event

liftVars == <<doorsOpen, inMotion, lastFloor, goingTo, arrive, ints, riders,
              controllerEvents, riderEvents, wakeup, waiting>>

ElevatorInit ==
    /\ doorsOpen = [e \in Lift |-> FALSE]
    /\ inMotion = [e \in Lift |-> FALSE]
    /\ lastFloor = [e \in Lift |-> 0]
    /\ goingTo = [e \in Lift |-> 0]
    /\ arrive = [e \in Lift |-> 0]
    /\ ints = [k \in 0..DelayPerFloor |-> 0]
    /\ riders = {}
    /\ controllerEvents = <<>>
    /\ riderEvents = <<>>
    /\ wakeup = [w \in {"rider", "controller"} |-> 0]
    /\ waiting = {}

Event(ev, floor, e) == [event |-> ev, floor |-> floor, elevator |-> e]

Awake(who) == who \notin waiting

Pending == {k \in 0..DelayPerFloor : ints[k] > 0}

\* Interrupt::Schedule, and the bounds within which calls are made.
Schedule(n, delay) == [n EXCEPT ![delay] = @ + 1]
CanSchedule(delay) ==
    /\ ints[delay] < MaxInts
    /\ wakeup["rider"] < MaxWakeups /\ wakeup["controller"] < MaxWakeups
    /\ Len(controllerEvents) < MaxEvents /\ Len(riderEvents) < MaxEvents

-----------------------------------------------------------------------------
(***************************************************************************)
(* Calls of the controller.                                                *)
(***************************************************************************)
\* OpenDoors, and PostEvent outside of the handler.
OpenDoors(e) ==
    /\ Awake("controller")
    /\ ~doorsOpen[e] /\ ~inMotion[e]
    /\ CanSchedule(1)
    /\ doorsOpen' = [doorsOpen EXCEPT ![e] = TRUE]
    /\ riderEvents' = Append(riderEvents, Event("DoorsOpened", lastFloor[e], e))
    /\ ints' = Schedule(ints, 1)
    /\ UNCHANGED <<inMotion, lastFloor, goingTo, arrive, riders, controllerEvents,
                   wakeup, waiting>>

CloseDoors(e) ==
    /\ Awake("controller")
    /\ doorsOpen[e]
    /\ doorsOpen' = [doorsOpen EXCEPT ![e] = FALSE]
    /\ UNCHANGED <<inMotion, lastFloor, goingTo, arrive, ints, riders,
                   controllerEvents, riderEvents, wakeup, waiting>>

\* MoveTo starts a lift, or gives a moving one another destination.
MoveTo(floor, e) ==
    /\ Awake("controller")
    /\ ~doorsOpen[e]
    /\ lastFloor[e] # floor \/ (inMotion[e] /\ RedirectBack)
    /\ goingTo' = [goingTo EXCEPT ![e] = floor]
    /\ CanSchedule(DelayPerFloor)
    /\ IF inMotion[e] THEN UNCHANGED <<inMotion, arrive, ints>>
       ELSE /\ inMotion' = [inMotion EXCEPT ![e] = TRUE]
            /\ arrive' = [arrive EXCEPT ![e] = DelayPerFloor]
            /\ ints' = Schedule(ints, DelayPerFloor)
    /\ UNCHANGED <<doorsOpen, lastFloor, riders, controllerEvents, riderEvents,
                   wakeup, waiting>>

-----------------------------------------------------------------------------
(***************************************************************************)
(* Calls of the rider.                                                     *)
(***************************************************************************)
\* PressButton outside of a lift, PressFloor in one: PostEvent outside of the
\* handler.
Press(ev, floor, e) ==
    /\ Awake("rider")
    /\ CanSchedule(1)
    /\ controllerEvents' = Append(controllerEvents, Event(ev, floor, e))
    /\ ints' = Schedule(ints, 1)
    /\ UNCHANGED <<doorsOpen, inMotion, lastFloor, goingTo, arrive, riders,
                   riderEvents, wakeup, waiting>>

PressButton(floor, ev) == riders = {} /\ Press(ev, floor, 0)
PressFloor(floor, e) == e \in riders /\ Press("FloorButtonPressed", floor, e)

\* EnterElevator and ExitElevator, when they do not return FALSE.
EnterElevator(floor, e) ==
    /\ Awake("rider")
    /\ riders = {}
    /\ doorsOpen[e] /\ lastFloor[e] = floor
    /\ riders' = {e}
    /\ UNCHANGED <<doorsOpen, inMotion, lastFloor, goingTo, arrive, ints,
                   controllerEvents, riderEvents, wakeup, waiting>>

ExitElevator(floor, e) ==
    /\ Awake("rider")
    /\ e \in riders
    /\ doorsOpen[e] /\ lastFloor[e] = floor
    /\ riders' = {}
    /\ UNCHANGED <<doorsOpen, inMotion, lastFloor, goingTo, arrive, ints,
                   controllerEvents, riderEvents, wakeup, waiting>>

-----------------------------------------------------------------------------
(***************************************************************************)
(* WaitForNextRiderEvent and WaitForNextControllerEvent: take an event, or *)
(* wait for the semaphore and look again.                                  *)
(***************************************************************************)
EventsOf(who) == IF who = "rider" THEN riderEvents ELSE controllerEvents

WaitForNextEvent(who) ==
    /\ Awake(who)
    /\ EventsOf(who) = <<>>
    /\ waiting' = waiting \cup {who}
    /\ UNCHANGED <<doorsOpen, inMotion, lastFloor, goingTo, arrive, ints, riders,
                   controllerEvents, riderEvents, wakeup>>

getNextEvent(who) ==
    /\ Awake(who)
    /\ EventsOf(who) # <<>>
    /\ IF who = "rider"
       THEN riderEvents' = Tail(riderEvents) /\ UNCHANGED controllerEvents
       ELSE controllerEvents' = Tail(controllerEvents) /\ UNCHANGED riderEvents
    /\ UNCHANGED <<doorsOpen, inMotion, lastFloor, goingTo, arrive, ints, riders,
                   wakeup, waiting>>

\* The semaphore lets the thread pass: it is back at getNextEvent.
WakeUp(who) ==
    /\ who \in waiting
    /\ wakeup[who] > 0
    /\ wakeup' = [wakeup EXCEPT ![who] = @ - 1]
    /\ waiting' = waiting \ {who}
    /\ UNCHANGED <<doorsOpen, inMotion, lastFloor, goingTo, arrive, ints, riders,
                   controllerEvents, riderEvents>>

-----------------------------------------------------------------------------
(***************************************************************************)
(* The clock and the interrupt.                                            *)
(***************************************************************************)
\* Time passes when no interrupt is due.
Tick ==
    /\ ints[0] = 0
    /\ Pending # {}
    /\ ints' = [k \in 0..DelayPerFloor |-> IF k = DelayPerFloor THEN 0 ELSE ints[k + 1]]
    /\ arrive' = [e \in Lift |-> IF inMotion[e] THEN arrive[e] - 1 ELSE 0]
    /\ UNCHANGED <<doorsOpen, inMotion, lastFloor, goingTo, riders,
                   controllerEvents, riderEvents, wakeup, waiting>>

\* ReachedNextFloor.
Reached == {e \in Lift : inMotion[e] /\ arrive[e] <= 0}
\* A faulty ReachedNextFloor that moves a lift the wrong way.
FloorAfterWrong(e) == IF e \notin Reached THEN lastFloor[e]
                      ELSE IF goingTo[e] > lastFloor[e] + 1 THEN lastFloor[e] + 1 ELSE lastFloor[e] - 1

FloorAfter(e) == IF e \notin Reached THEN lastFloor[e]
                 ELSE IF goingTo[e] > lastFloor[e] THEN lastFloor[e] + 1 ELSE lastFloor[e] - 1
Arrived == {e \in Reached : FloorAfter(e) = goingTo[e]}
\* The lift for which an interrupt is scheduled: the first that goes on.
GoesOn == {e \in Reached \ Arrived : \A f \in Reached \ Arrived : e <= f}

ArrivalEvents ==
    LET upTo[i \in 0..NumElevators] ==
          IF i = 0 THEN <<>>
          ELSE IF i - 1 \in Arrived
               THEN Append(upTo[i - 1], Event("ElevatorArrived", goingTo[i - 1], i - 1))
               ELSE upTo[i - 1]
    IN  upTo[NumElevators]

\* A faulty handler that forgets to schedule the interrupt for the next floor.
NextFloorForgotten(n) == n

\* The interrupt for the next floor, one for all lifts.
NextFloor(n) == IF Reached \ Arrived = {} THEN n ELSE Schedule(n, DelayPerFloor)

\* The handlers riders and controllers, called when there is an event.
Notify(who, events) == IF events # <<>> THEN wakeup[who] + 1 ELSE wakeup[who]

\* ElevatorBank::HandleInterrupt.
HandleInterrupt ==
    /\ ints[0] > 0
    /\ ints' = NextFloor([ints EXCEPT ![0] = @ - 1])
    /\ lastFloor' = [e \in Lift |-> FloorAfter(e)]
    /\ inMotion' = [e \in Lift |-> inMotion[e] /\ e \notin Arrived]
    /\ arrive' = [e \in Lift |-> IF e \in Arrived THEN 0
                                 ELSE IF e \in GoesOn THEN arrive[e] + DelayPerFloor
                                 ELSE arrive[e]]
    /\ controllerEvents' = controllerEvents \o ArrivalEvents
    /\ wakeup' = [wakeup EXCEPT !["rider"] = Notify("rider", riderEvents),
                                !["controller"] = Notify("controller", controllerEvents')]
    /\ UNCHANGED <<doorsOpen, goingTo, riders, riderEvents, waiting>>

ControllerStep ==
    \E e \in Lift :
        \/ OpenDoors(e) \/ CloseDoors(e)
        \/ \E f \in Floor : MoveTo(f, e)
RiderStep ==
    \E f \in Floor :
        \/ \E ev \in {"UpButtonPressed", "DownButtonPressed"} : PressButton(f, ev)
        \/ \E e \in Lift : PressFloor(f, e) \/ EnterElevator(f, e) \/ ExitElevator(f, e)
WaitStep(who) == WaitForNextEvent(who) \/ getNextEvent(who) \/ WakeUp(who)

ElevatorNext ==
    \/ ControllerStep \/ RiderStep
    \/ WaitStep("rider") \/ WaitStep("controller")
    \/ Tick \/ HandleInterrupt

\* The elevators by themselves.
LiftSpec == ElevatorInit /\ [][ElevatorNext]_liftVars

-----------------------------------------------------------------------------
(***************************************************************************)
(* Properties.                                                             *)
(***************************************************************************)
\* A lift in motion is never forgotten: an interrupt is pending at or after
\* the time at which it reaches the next floor, although one interrupt is
\* scheduled for all lifts and any interrupt moves those that are due.
LiftHasInterrupt ==
    \A e \in Lift : inMotion[e] => \E k \in Pending : k >= arrive[e]

\* No event is left lying: when its thread waits, the semaphore will let it
\* pass or an interrupt that calls the handler is to come.
EventNotified ==
    \A who \in waiting : EventsOf(who) # <<>> => wakeup[who] > 0 \/ Pending # {}

\* Nothing that ElevatorBank::HandleInterrupt has still to do is forgotten:
\* lifts in motion and posted events both have their interrupt.
ElevatorInv == LiftHasInterrupt /\ EventNotified

\* A lift only ever moves towards its destination.  (This needs RedirectBack
\* FALSE: told to return to the floor it has just left, a lift moves away.)
Distance(x, y) == IF x > y THEN x - y ELSE y - x
MovesTowards ==
    [][\A e \in Lift : lastFloor'[e] # lastFloor[e] =>
          Distance(lastFloor'[e], goingTo[e]) < Distance(lastFloor[e], goingTo[e])]_liftVars

=============================================================================
