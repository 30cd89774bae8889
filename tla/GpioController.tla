--------------------------- MODULE GpioController ---------------------------
(***************************************************************************)
(* GpioController: the two doors and the obstacle sensor.                  *)
(*                                                                         *)
(* Closing a door makes it the sensor's _active_door for _deinit_mlscs; an *)
(* alarm in that time opens it again for _open_mlscs.  The door commands   *)
(* run on the websocket thread and take no lock; onAlarm runs on the GPIO  *)
(* interrupt thread; each of the sensor's two timers has a thread of its   *)
(* own.  _active_door is a plain shared_ptr that all four touch.           *)
(*                                                                         *)
(* Time passes in units of _open_mlscs (3 s; _deinit_mlscs is 10 s), and   *)
(* only while nobody is at work: calls and callbacks take no time.         *)
(***************************************************************************)
EXTENDS Naturals

CONSTANTS Doors,        \* the doors
          None,         \* a null shared_ptr
          OpenDelay,    \* _open_mlscs
          DeinitDelay,  \* _deinit_mlscs
          MaxCommands,  \* bound: door commands
          MaxAlarms     \* bound: alarms

ASSUME DoorsAssumption == None \notin Doors
ASSUME DelaysAssumption == /\ OpenDelay \in Nat \ {0}
                           /\ DeinitDelay \in Nat
                           /\ OpenDelay < DeinitDelay
ASSUME BoundsAssumption == MaxCommands \in Nat /\ MaxAlarms \in Nat

VARIABLES opened,         \* opened[d]: Door::_is_opened
          active,         \* ObstacleSensor::_active_door
          isActive,       \* ObstacleSensor::_is_active
          deinit, open,   \* _deinit_timer, _open_timer: "none", "armed" or the
                          \*   step of the callback
          deinitLeft, openLeft,   \* time left to an armed timer
          ws, wsDoor,     \* the websocket thread: next step, door of the command
          isr,            \* the interrupt thread
          crashed,        \* a null pointer was dereferenced
          commands, alarms,   \* so far
          spaced          \* no alarm came in the very instant _deinit_timer
                          \*   expires (a history variable)

timers == <<deinit, open, deinitLeft, openLeft>>
doors == <<opened, active, isActive>>
wsVars == <<ws, wsDoor, commands>>
isrVars == <<isr, alarms, spaced>>
vars == <<doors, timers, wsVars, isrVars, crashed>>

Init == /\ opened = [d \in Doors |-> FALSE]
        /\ active = None
        /\ isActive = FALSE
        /\ deinit = "none" /\ open = "none"
        /\ deinitLeft = 0 /\ openLeft = 0
        /\ ws = "idle"
        /\ wsDoor = None
        /\ isr = "idle"
        /\ crashed = FALSE
        /\ commands = 0
        /\ alarms = 0
        /\ spaced = TRUE

OpenRuns == open \in {"close", "rearm"}
DeinitRuns == deinit = "forget"
-----------------------------------------------------------------------------
Command(d, next) == /\ ~crashed
                    /\ ws = "idle"
                    /\ commands < MaxCommands
                    /\ commands' = commands + 1
                    /\ wsDoor' = d
                    /\ ws' = next

(* Mutant: the other door is left open. *)
OpenBeside(d) == /\ Command(d, "open")
                 /\ UNCHANGED <<doors, timers, isrVars, crashed>>

(* openLeftDoor, openRightDoor: the other door is closed first. *)
OpenDoor(d) == /\ Command(d, "open")
               /\ opened' = [e \in Doors |-> e = d /\ opened[e]]
               /\ UNCHANGED <<active, isActive, timers, isrVars, crashed>>

DoorOpens == /\ ~crashed
             /\ ws = "open"
             /\ opened' = [opened EXCEPT ![wsDoor] = TRUE]
             /\ ws' = "idle"
             /\ UNCHANGED <<active, isActive, timers, wsDoor, commands,
                            isrVars, crashed>>

(* closeLeftDoor, closeRightDoor: close, then initSecuredDoor. *)
CloseDoor(d) == /\ Command(d, "secure")
                /\ opened' = [opened EXCEPT ![d] = FALSE]
                /\ UNCHANGED <<active, isActive, timers, isrVars, crashed>>

(* A door that is active already stays the active one. *)
InitSecuredDoor == /\ ~crashed
                   /\ ws = "secure"
                   /\ ws' = IF active = None THEN "activate" ELSE "idle"
                   /\ UNCHANGED <<doors, timers, wsDoor, commands, isrVars,
                                  crashed>>

Activate == /\ ~crashed
            /\ ws = "activate"
            /\ active' = wsDoor
            /\ ws' = "arm"
            /\ UNCHANGED <<opened, isActive, timers, wsDoor, commands,
                           isrVars, crashed>>

(* A new _deinit_timer; the callback of the one it replaces is joined. *)
ArmDeinit == ~DeinitRuns /\ deinit' = "armed" /\ deinitLeft' = DeinitDelay

ArmByClose == /\ ~crashed
              /\ ws = "arm"
              /\ ArmDeinit
              /\ ws' = "idle"
              /\ UNCHANGED <<doors, open, openLeft, wsDoor, commands,
                             isrVars, crashed>>
-----------------------------------------------------------------------------
(* GpioController::onAlarm, ObstacleSensor::onAlarm. *)
Alarm == /\ ~crashed
         /\ isr = "idle"
         /\ alarms < MaxAlarms
         /\ alarms' = alarms + 1
         /\ active # None
         /\ spaced' = (spaced /\ ~DeinitRuns /\ (deinit = "armed" => deinitLeft > 0))
         /\ isr' = "resetDeinit"
         /\ UNCHANGED <<doors, timers, wsVars, crashed>>

(* Mutant: an alarm leaves _deinit_timer running. *)
KeepDeinit == /\ ~crashed
              /\ isr = "resetDeinit"
              /\ isr' = "open"
              /\ UNCHANGED <<doors, timers, wsVars, alarms, spaced, crashed>>

ResetDeinit == /\ ~crashed
               /\ isr = "resetDeinit"
               /\ ~DeinitRuns
               /\ deinit' = "none"
               /\ isr' = "open"
               /\ UNCHANGED <<doors, open, deinitLeft, openLeft, wsVars, alarms, spaced,
                              crashed>>

OpenActive == /\ ~crashed
              /\ isr = "open"
              /\ IF active = None
                   THEN crashed' = TRUE /\ UNCHANGED <<opened, isActive, isr>>
                   ELSE /\ opened' = [opened EXCEPT ![active] = TRUE]
                        /\ isActive' = FALSE
                        /\ isr' = "newOpenTimer"
                        /\ UNCHANGED crashed
              /\ UNCHANGED <<active, timers, wsVars, alarms, spaced>>

NewOpenTimer == /\ ~crashed
                /\ isr = "newOpenTimer"
                /\ ~OpenRuns
                /\ open' = "armed"
                /\ openLeft' = OpenDelay
                /\ isr' = "idle"
                /\ UNCHANGED <<doors, deinit, deinitLeft, wsVars, alarms, spaced, crashed>>
-----------------------------------------------------------------------------
DeinitFires == /\ ~crashed
               /\ deinit = "armed" /\ deinitLeft = 0
               /\ deinit' = "forget"
               /\ UNCHANGED <<doors, open, deinitLeft, openLeft, wsVars, isrVars,
                              crashed>>

(* Mutant: the timer is spent, but the door stays active. *)
ForgetNothing == /\ ~crashed
                 /\ DeinitRuns
                 /\ isActive' = FALSE
                 /\ deinit' = "none"
                 /\ UNCHANGED <<opened, active, open, deinitLeft, openLeft, wsVars,
                                isrVars, crashed>>

Forget == /\ ~crashed
          /\ DeinitRuns
          /\ active' = None
          /\ isActive' = FALSE
          /\ deinit' = "none"
          /\ UNCHANGED <<opened, open, deinitLeft, openLeft, wsVars, isrVars, crashed>>

OpenFires == /\ ~crashed
             /\ open = "armed" /\ openLeft = 0
             /\ open' = "close"
             /\ UNCHANGED <<doors, deinit, deinitLeft, openLeft, wsVars, isrVars,
                            crashed>>

(* Mutant: the door an alarm has opened is left open. *)
LeaveOpen == /\ ~crashed
             /\ open = "close"
             /\ open' = "rearm"
             /\ UNCHANGED <<doors, deinit, deinitLeft, openLeft, wsVars, isrVars, crashed>>

CloseAfterAlarm == /\ ~crashed
                   /\ open = "close"
                   /\ IF active = None
                        THEN crashed' = TRUE /\ UNCHANGED <<opened, open>>
                        ELSE /\ opened' = [opened EXCEPT ![active] = FALSE]
                             /\ open' = "rearm"
                             /\ UNCHANGED crashed
                   /\ UNCHANGED <<active, isActive, deinit, deinitLeft, openLeft,
                                  wsVars, isrVars>>

(* Mutant: the door closed after an alarm is not watched again. *)
EndAlarm == /\ ~crashed
            /\ open = "rearm"
            /\ open' = "none"
            /\ UNCHANGED <<doors, deinit, deinitLeft, openLeft, wsVars, isrVars, crashed>>

ArmByTimer == /\ ~crashed
              /\ open = "rearm"
              /\ ArmDeinit
              /\ open' = "none"
              /\ UNCHANGED <<doors, openLeft, wsVars, isrVars, crashed>>

Tick == /\ ~crashed
        /\ ws = "idle" /\ isr = "idle" /\ ~OpenRuns /\ ~DeinitRuns
        /\ "armed" \in {deinit, open}
        /\ deinit = "armed" => deinitLeft > 0
        /\ open = "armed" => openLeft > 0
        /\ deinitLeft' = IF deinit = "armed" THEN deinitLeft - 1 ELSE deinitLeft
        /\ openLeft' = IF open = "armed" THEN openLeft - 1 ELSE openLeft
        /\ UNCHANGED <<doors, deinit, open, wsVars, isrVars, crashed>>

CommandStep == DoorOpens \/ InitSecuredDoor \/ Activate \/ ArmByClose
AlarmStep == ResetDeinit \/ OpenActive \/ NewOpenTimer
TimerStep == DeinitFires \/ Forget \/ OpenFires \/ CloseAfterAlarm \/ ArmByTimer

Next == \/ \E d \in Doors : OpenDoor(d) \/ CloseDoor(d)
        \/ Alarm
        \/ CommandStep \/ AlarmStep \/ TimerStep \/ Tick

Spec == Init /\ [][Next]_vars
-----------------------------------------------------------------------------
TypeOK == /\ opened \in [Doors -> BOOLEAN]
          /\ active \in Doors \cup {None}
          /\ isActive \in BOOLEAN
          /\ deinit \in {"none", "armed", "forget"}
          /\ open \in {"none", "armed", "close", "rearm"}
          /\ deinitLeft \in 0..DeinitDelay
          /\ openLeft \in 0..OpenDelay
          /\ ws \in {"idle", "open", "secure", "activate", "arm"}
          /\ wsDoor \in Doors \cup {None}
          /\ isr \in {"idle", "resetDeinit", "open", "newOpenTimer"}
          /\ crashed \in BOOLEAN
          /\ commands \in 0..MaxCommands
          /\ alarms \in 0..MaxAlarms
          /\ spaced \in BOOLEAN

(* While a door is active no other can be secured, so there is always      *)
(* somebody under way who will end that: a timer, or a thread about to     *)
(* arm one.                                                                *)
ActiveIsBounded ==
    active # None => \/ deinit # "none" \/ open # "none"
                     \/ ws = "arm" \/ isr \in {"open", "newOpenTimer"}

(* The same, for good: once the alarms stop, the sensor forgets the door   *)
(* and can secure the next one.                                            *)
ActiveEnds == active # None ~> active = None

(* A door is commanded open only after the other is closed; an alarm may   *)
(* open a second one, but only until _open_timer closes it again.          *)
BothOpenOnlyForAlarm ==
    (\E d, e \in Doors : d # e /\ opened[d] /\ opened[e])
      => open # "none" \/ isr = "newOpenTimer"

(* The handlers of an alarm find the active door they go on to open or     *)
(* close, unless the alarm comes as _deinit_timer forgets it.              *)
AlarmFindsItsDoor == spaced => ~crashed
=============================================================================
