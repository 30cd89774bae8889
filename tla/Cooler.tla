-------------------------------- MODULE Cooler --------------------------------
(***************************************************************************)
(* The closed cooler: CommandHandler and GpioController under the same     *)
(* commands, the same alarms and the same clock.                           *)
(*                                                                         *)
(* A door command first does its work in GpioController and then in        *)
(* CommandHandler, on the websocket thread; an alarm first restarts        *)
(* CommandHandler's close timer and then opens the active door, on the     *)
(* interrupt thread.  Four timers run: those of the sensor and those of    *)
(* the closing.  Counted inventories are left to CommandHandler's module.  *)
(***************************************************************************)
EXTENDS GpioController

CONSTANTS CloseDelay,   \* CLOSED_TIMEOUT
          StopDelay     \* INVENTORY_TIMEOUT

ASSUME TimeoutsAssumption == CloseDelay \in Nat /\ StopDelay \in Nat

(* A report takes longer to come than an alarm holds the door.             *)
ASSUME ReportAssumption == OpenDelay < CloseDelay + StopDelay

VARIABLES mode, cmd, closeTimer, closeRestart, stopTimer,   \* CommandHandler's
          door, reported, patient, alarmed, requests,
          closeLeft, stopLeft,   \* time left to its armed timers
          irq,        \* the interrupt thread is between the two parts of onAlarm
          stale,      \* a door has been open since the content was last sent, or
                      \*   is (history)
          matched     \* every close command named a door while no other was
                      \*   open (history)

Handler == INSTANCE CommandHandler
             WITH Requests <- {}, MaxCommands <- MaxCommands + MaxAlarms,
                  ws <- cmd, commands <- requests

times == <<closeLeft, stopLeft>>
shared == <<irq, stale, matched>>
handlerVars == <<mode, cmd, closeTimer, closeRestart, stopTimer, door, reported,
                 patient, alarmed, requests>>
coolerVars == <<vars, handlerVars, times, shared>>

AnyOpen == \E d \in Doors : opened[d]

CoolerInit == /\ Init /\ Handler!Init
              /\ closeLeft = 0 /\ stopLeft = 0
              /\ irq = "idle"
              /\ stale = FALSE
              /\ matched = TRUE
-----------------------------------------------------------------------------
Open(d) == /\ OpenDoor(d) /\ Handler!OpenDoor
           /\ stale' = TRUE
           /\ UNCHANGED <<times, irq, matched>>

Close(d) == /\ CloseDoor(d) /\ Handler!CloseDoor
            /\ matched' = (matched /\ \A e \in Doors : opened[e] => e = d)
            /\ UNCHANGED <<times, irq, stale>>

(* What GpioController does in a command, an alarm or a timer's callback.  *)
DoorStep == /\ CommandStep \/ AlarmStep \/ TimerStep
            /\ stale' = (stale \/ \E d \in Doors : opened'[d])
            /\ UNCHANGED <<handlerVars, times, irq, matched>>

(* The rest of the command, once GpioController has returned. *)
CommandGoesOn == /\ ~crashed /\ ws = "idle"
                 /\ \/ /\ Handler!ResetStopTimer \/ Handler!StartByOpen \/ Handler!StopByClose
                       /\ UNCHANGED closeLeft
                    \/ Handler!NewCloseTimer /\ closeLeft' = CloseDelay
                 /\ UNCHANGED <<vars, stopLeft, shared>>
-----------------------------------------------------------------------------
(* Mutant: the alarm does not restart the close timer. *)
AlarmLeavesTimer == /\ ~crashed /\ irq = "idle" /\ isr = "idle" /\ alarms < MaxAlarms
                    /\ irq' = "sensor"
                    /\ UNCHANGED <<vars, handlerVars, times, stale, matched>>

(* onAlarm: restartStopInventoryTimeout, if there is a close timer. *)
AlarmRestartsTimer ==
    /\ ~crashed /\ irq = "idle" /\ isr = "idle" /\ alarms < MaxAlarms
    /\ IF closeTimer = "none"
         THEN UNCHANGED <<handlerVars, closeLeft>>
         ELSE Handler!Alarm /\ closeLeft' = CloseDelay
    /\ irq' = "sensor"
    /\ UNCHANGED <<vars, stopLeft, stale, matched>>

(* ... and then the sensor's part, if a door is active. *)
AlarmReachesSensor == /\ irq = "sensor"
                      /\ irq' = "idle"
                      /\ IF active = None THEN UNCHANGED vars ELSE Alarm
                      /\ UNCHANGED <<handlerVars, times, stale, matched>>
-----------------------------------------------------------------------------
CloseTimerStep == /\ ~crashed
                  /\ \/ Handler!CloseFires /\ closeLeft = 0 /\ UNCHANGED times
                     \/ Handler!StartByTimer /\ UNCHANGED times
                     \/ /\ Handler!NewStopTimer
                        /\ closeLeft' = CloseDelay /\ stopLeft' = StopDelay
                  /\ UNCHANGED <<vars, shared>>

(* accumulateBuffer sends the content unless an inventory runs. *)
StopTimerStep == /\ ~crashed
                 /\ \/ /\ Handler!StopFires /\ stopLeft = 0
                       /\ UNCHANGED stale
                    \/ Handler!StopByTimer /\ UNCHANGED stale
                    \/ /\ Handler!Accumulate
                       /\ stale' = IF mode = "off" THEN AnyOpen ELSE stale
                 /\ UNCHANGED <<vars, times, irq, matched>>

Working == \/ ws # "idle" \/ cmd # "idle" \/ irq # "idle" \/ isr # "idle"
           \/ OpenRuns \/ DeinitRuns \/ Handler!CloseRuns \/ Handler!StopRuns

Less(timer, left) == IF timer = "armed" THEN left - 1 ELSE left

(* Time passes while nobody is at work, and over no timer that is due. *)
TimePasses == /\ ~crashed /\ ~Working
              /\ "armed" \in {deinit, open, closeTimer, stopTimer}
              /\ \A t \in {<<deinit, deinitLeft>>, <<open, openLeft>>,
                           <<closeTimer, closeLeft>>, <<stopTimer, stopLeft>>} :
                    t[1] = "armed" => t[2] > 0
              /\ deinitLeft' = Less(deinit, deinitLeft)
              /\ openLeft' = Less(open, openLeft)
              /\ closeLeft' = Less(closeTimer, closeLeft)
              /\ stopLeft' = Less(stopTimer, stopLeft)
              /\ UNCHANGED <<doors, deinit, open, wsVars, isrVars, crashed, handlerVars,
                             shared>>

ThreadStep == \/ DoorStep \/ CommandGoesOn \/ AlarmReachesSensor
              \/ CloseTimerStep \/ StopTimerStep

CoolerNext == \/ \E d \in Doors : Open(d) \/ Close(d)
              \/ AlarmRestartsTimer
              \/ ThreadStep \/ TimePasses

(* The threads are scheduled and time passes; calls take none of it. *)
CoolerSpec == /\ CoolerInit /\ [][CoolerNext]_coolerVars
              /\ WF_coolerVars(DoorStep) /\ WF_coolerVars(CommandGoesOn)
              /\ WF_coolerVars(AlarmReachesSensor) /\ WF_coolerVars(CloseTimerStep)
              /\ WF_coolerVars(StopTimerStep) /\ WF_coolerVars(TimePasses)
-----------------------------------------------------------------------------
CoolerTypeOK == /\ TypeOK /\ Handler!TypeOK
                /\ closeLeft \in 0..CloseDelay /\ stopLeft \in 0..StopDelay
                /\ irq \in {"idle", "sensor"}
                /\ stale \in BOOLEAN /\ matched \in BOOLEAN

Quiet == /\ ~Working /\ ~crashed
         /\ "armed" \notin {deinit, open, closeTimer, stopTimer}

(* When the cooler has come to rest after a closing, no inventory is left  *)
(* running, and the server has the content of after the last time a door   *)
(* was open, by a command or by an alarm.                                  *)
AtRestReported ==
    Quiet /\ door = "close" /\ ~AnyOpen => mode = "off" /\ ~stale

(* When the content of a cooler with an open door is sent: while an alarm  *)
(* holds the door; after a close command that named the other door; or     *)
(* while a command holds a door open that it opened before the last        *)
(* closing was over, or that an alarm came to since - which arms the spent *)
(* close timer again.  Never otherwise.                                    *)
OpenIsNotReported ==
    [][Handler!Accumulate /\ mode = "off" /\ AnyOpen
         => \/ open # "none" \/ isr # "idle"
            \/ ~matched
            \/ door = "open" /\ (~patient \/ alarmed)]_coolerVars
=============================================================================
