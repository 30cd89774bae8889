----------------------------- MODULE Cooler_proofs -----------------------------
(***************************************************************************)
(* Proofs about GpioController and about Cooler, which composes it with    *)
(* CommandHandler, for any doors, delays and bounds.                       *)
(***************************************************************************)
EXTENDS Cooler, TLAPS

(***************************************************************************)
(* GpioController.  Four threads touch _active_door without a lock.  That  *)
(* the handlers of an alarm find it, and that it is not forgotten while a  *)
(* door is open for an alarm, rests on time alone: whatever arms           *)
(* _deinit_timer while _open_timer runs gives it longer than _open_timer   *)
(* has left, and no time passes while a thread is at work.                 *)
(***************************************************************************)

DeinitLater == deinit = "armed" /\ deinitLeft > 0

(* _deinit_timer expires after _open_timer and its callback, and not while *)
(* an alarm is handled, unless the alarm came as it expired.               *)
Timing ==
    /\ isr \in {"open", "newOpenTimer"} =>
         deinit = "none" \/ (deinit = "armed" /\ deinitLeft = DeinitDelay)
    /\ open = "armed" => deinit = "none" \/ (deinit = "armed" /\ deinitLeft > openLeft)
    /\ open \in {"close", "rearm"} => deinit = "none" \/ DeinitLater
    /\ isr = "resetDeinit" /\ spaced => deinit = "none" \/ DeinitLater

(* Whoever goes on to open or to close the active door has one; a command  *)
(* that is about to make a door active has one, and finds none active.     *)
DoorIsKept ==
    /\ ws # "idle" => wsDoor # None
    /\ ws = "activate" => active = None
    /\ open # "none" \/ isr = "newOpenTimer" => active # None
    /\ isr \in {"resetDeinit", "open"} /\ spaced => active # None

(* The door an alarm opens is open for it until _open_timer closes it.     *)
OpenForAlarm == open \in {"armed", "close"} \/ isr = "newOpenTimer"

(* Besides the active door at most one is open; the active one as a second *)
(* only for an alarm; and a command about to open a door has closed the    *)
(* others but for that.                                                    *)
DoorsApart ==
    /\ \A d, e \in Doors : opened[d] /\ opened[e] /\ d # e =>
         OpenForAlarm /\ active \in {d, e}
    /\ ws = "open" =>
         \A d \in Doors : opened[d] /\ d # wsDoor => OpenForAlarm /\ d = active

IInv == /\ TypeOK /\ Timing /\ DoorIsKept /\ DoorsApart
        /\ ActiveIsBounded /\ AlarmFindsItsDoor
-----------------------------------------------------------------------------
(* At the start all doors are closed and none is active. *)
THEOREM InitInv == Init => IInv
<1> SUFFICES ASSUME Init PROVE IInv
  OBVIOUS
<1>1. TypeOK
  <2>1. /\ 0 \in 0..DeinitDelay /\ 0 \in 0..OpenDelay
        /\ 0 \in 0..MaxCommands /\ 0 \in 0..MaxAlarms
    BY DelaysAssumption, BoundsAssumption
  <2> QED
    BY <2>1 DEF Init, TypeOK
<1>2. Timing /\ DoorIsKept /\ ActiveIsBounded /\ AlarmFindsItsDoor
  BY DEF Init, Timing, DoorIsKept, ActiveIsBounded, AlarmFindsItsDoor
<1>3. DoorsApart
  BY DEF Init, DoorsApart
<1> QED
  BY <1>1, <1>2, <1>3 DEF IInv

(* The types. *)
LEMMA TypeStep == ASSUME TypeOK, [Next]_vars PROVE TypeOK'
<1> USE DelaysAssumption, BoundsAssumption
    DEF TypeOK, timers, doors, wsVars, isrVars
<1>1. ASSUME NEW d \in Doors, OpenDoor(d) PROVE TypeOK'
  <2>1. opened' \in [Doors -> BOOLEAN]
    BY <1>1 DEF OpenDoor
  <2> QED
    BY <1>1, <2>1 DEF OpenDoor, Command
<1>2. ASSUME NEW d \in Doors, CloseDoor(d) PROVE TypeOK'
  BY <1>2 DEF CloseDoor, Command
<1>3. CASE Alarm
  BY <1>3 DEF Alarm
<1>4. CASE DoorOpens
  BY <1>4 DEF DoorOpens
<1>5. CASE InitSecuredDoor
  BY <1>5 DEF InitSecuredDoor
<1>6. CASE Activate
  BY <1>6 DEF Activate
<1>7. CASE ArmByClose
  BY <1>7 DEF ArmByClose, ArmDeinit
<1>8. CASE ResetDeinit
  BY <1>8 DEF ResetDeinit
<1>9. CASE OpenActive
  BY <1>9 DEF OpenActive
<1>10. CASE NewOpenTimer
  BY <1>10 DEF NewOpenTimer
<1>11. CASE DeinitFires \/ Forget \/ OpenFires
  BY <1>11 DEF DeinitFires, Forget, OpenFires
<1>12. CASE CloseAfterAlarm
  BY <1>12 DEF CloseAfterAlarm
<1>13. CASE ArmByTimer
  BY <1>13 DEF ArmByTimer, ArmDeinit
<1>14. CASE Tick
  BY <1>14 DEF Tick
<1>15. CASE UNCHANGED vars
  BY <1>15 DEF vars
<1> QED
  BY <1>1, <1>2, <1>3, <1>4, <1>5, <1>6, <1>7, <1>8, <1>9, <1>10, <1>11, <1>12, <1>13,
     <1>14, <1>15 DEF Next, CommandStep, AlarmStep, TimerStep

(* The order in which the two timers expire. *)
LEMMA TimingStep == ASSUME TypeOK, Timing, [Next]_vars PROVE Timing'
<1> USE DelaysAssumption
    DEF TypeOK, Timing, DeinitLater, timers, doors, wsVars, isrVars, OpenRuns, DeinitRuns
<1>1. ASSUME NEW d \in Doors, OpenDoor(d) \/ CloseDoor(d) PROVE Timing'
  BY <1>1 DEF OpenDoor, CloseDoor, Command
<1>2. CASE Alarm
  BY <1>2 DEF Alarm
<1>3. CASE CommandStep
  BY <1>3 DEF CommandStep, DoorOpens, InitSecuredDoor, Activate, ArmByClose, ArmDeinit
<1>4. CASE AlarmStep
  BY <1>4 DEF AlarmStep, ResetDeinit, OpenActive, NewOpenTimer
<1>5. CASE TimerStep
  BY <1>5 DEF TimerStep, DeinitFires, Forget, OpenFires, CloseAfterAlarm, ArmByTimer,
              ArmDeinit
<1>6. CASE Tick
  BY <1>6 DEF Tick
<1>7. CASE UNCHANGED vars
  BY <1>7 DEF vars
<1> QED
  BY <1>1, <1>2, <1>3, <1>4, <1>5, <1>6, <1>7 DEF Next

(* By that order nothing is forgotten under an alarm's hands: with it, the *)
(* handlers find their door.                                               *)
LEMMA KeptStep ==
    ASSUME TypeOK, Timing, DoorIsKept, AlarmFindsItsDoor, [Next]_vars
    PROVE  DoorIsKept' /\ AlarmFindsItsDoor'
<1> USE DoorsAssumption
    DEF TypeOK, Timing, DeinitLater, DoorIsKept, AlarmFindsItsDoor, timers, doors, wsVars,
        isrVars, OpenRuns, DeinitRuns
<1> DEFINE Goal == DoorIsKept' /\ AlarmFindsItsDoor'
<1>1. ASSUME NEW d \in Doors, OpenDoor(d) \/ CloseDoor(d) PROVE Goal
  BY <1>1 DEF OpenDoor, CloseDoor, Command
<1>2. CASE Alarm
  BY <1>2 DEF Alarm
<1>3. CASE DoorOpens \/ InitSecuredDoor \/ ArmByClose
  BY <1>3 DEF DoorOpens, InitSecuredDoor, ArmByClose, ArmDeinit
<1>4. CASE Activate
  BY <1>4 DEF Activate
<1>5. CASE AlarmStep
  BY <1>5 DEF AlarmStep, ResetDeinit, OpenActive, NewOpenTimer
<1>6. CASE TimerStep
  BY <1>6 DEF TimerStep, DeinitFires, Forget, OpenFires, CloseAfterAlarm, ArmByTimer,
              ArmDeinit
<1>7. CASE Tick
  BY <1>7 DEF Tick
<1>8. CASE UNCHANGED vars
  BY <1>8 DEF vars
<1> QED
  BY <1>1, <1>2, <1>3, <1>4, <1>5, <1>6, <1>7, <1>8 DEF Next, CommandStep

(* Which doors may be open together. *)
LEMMA ApartStep ==
    ASSUME TypeOK, Timing, DoorIsKept, DoorsApart, [Next]_vars
    PROVE  DoorsApart'
<1> USE DEF TypeOK, DoorsApart, OpenForAlarm, timers, doors, wsVars, isrVars, OpenRuns,
            DeinitRuns
<1>1. ASSUME NEW d \in Doors, OpenDoor(d) \/ CloseDoor(d) PROVE DoorsApart'
  BY <1>1 DEF OpenDoor, CloseDoor, Command
<1>2. CASE Alarm
  BY <1>2 DEF Alarm
<1>3. CASE DoorOpens
  BY <1>3 DEF DoorOpens
<1>4. CASE InitSecuredDoor \/ ArmByClose
  BY <1>4 DEF InitSecuredDoor, ArmByClose, ArmDeinit
<1>5. CASE Activate
  BY <1>5 DEF Activate, DoorIsKept
<1>6. CASE AlarmStep
  BY <1>6 DEF AlarmStep, ResetDeinit, OpenActive, NewOpenTimer
<1>7. CASE DeinitFires \/ OpenFires \/ CloseAfterAlarm \/ ArmByTimer
  BY <1>7 DEF DeinitFires, OpenFires, CloseAfterAlarm, ArmByTimer, ArmDeinit, DoorIsKept
<1>8. CASE Forget
  <2>1. ~OpenForAlarm
    BY <1>8 DEF Forget, Timing, DeinitLater
  <2> QED
    BY <1>8, <2>1 DEF Forget
<1>9. CASE Tick
  BY <1>9 DEF Tick
<1>10. CASE UNCHANGED vars
  BY <1>10 DEF vars
<1> QED
  BY <1>1, <1>2, <1>3, <1>4, <1>5, <1>6, <1>7, <1>8, <1>9, <1>10
     DEF Next, CommandStep, TimerStep

(* Somebody is always on the way to give the active door up. *)
LEMMA BoundedStep == ASSUME ActiveIsBounded, [Next]_vars PROVE ActiveIsBounded'
<1> USE DEF ActiveIsBounded, timers, doors, wsVars, isrVars, OpenRuns, DeinitRuns
<1>1. ASSUME NEW d \in Doors, OpenDoor(d) \/ CloseDoor(d) PROVE ActiveIsBounded'
  BY <1>1 DEF OpenDoor, CloseDoor, Command
<1>2. CASE Alarm
  BY <1>2 DEF Alarm
<1>3. CASE CommandStep
  BY <1>3 DEF CommandStep, DoorOpens, InitSecuredDoor, Activate, ArmByClose, ArmDeinit
<1>4. CASE AlarmStep
  BY <1>4 DEF AlarmStep, ResetDeinit, OpenActive, NewOpenTimer
<1>5. CASE TimerStep
  BY <1>5 DEF TimerStep, DeinitFires, Forget, OpenFires, CloseAfterAlarm, ArmByTimer,
              ArmDeinit
<1>6. CASE Tick \/ UNCHANGED vars
  BY <1>6 DEF Tick, vars
<1> QED
  BY <1>1, <1>2, <1>3, <1>4, <1>5, <1>6 DEF Next

(* No step breaks the invariant. *)
THEOREM StepInv == IInv /\ [Next]_vars => IInv'
BY TypeStep, TimingStep, KeptStep, ApartStep, BoundedStep DEF IInv
-----------------------------------------------------------------------------
THEOREM Invariant == Spec => []IInv
BY InitInv, StepInv, PTL DEF Spec

(* The types, for any doors, delays and bounds. *)
THEOREM GpioTypeCorrect == Spec => []TypeOK
<1>1. IInv => TypeOK
  BY DEF IInv
<1> QED
  BY Invariant, <1>1, PTL

(* While a door is active a timer, or a thread about to arm one, is under  *)
(* way to give it up, whichever of the four threads is between two steps.  *)
THEOREM SensorGivesUp == Spec => []ActiveIsBounded
<1>1. IInv => ActiveIsBounded
  BY DEF IInv
<1> QED
  BY Invariant, <1>1, PTL

(* Two doors are open together only while an alarm holds one of them.      *)
THEOREM OneDoorOrAlarm == Spec => []BothOpenOnlyForAlarm
<1>1. IInv => BothOpenOnlyForAlarm
  BY DEF IInv, TypeOK, DoorsApart, OpenForAlarm, BothOpenOnlyForAlarm
<1> QED
  BY Invariant, <1>1, PTL

(* onAlarm and the callback of _open_timer find the door they dereference, *)
(* unless the alarm came in the instant _deinit_timer expired.             *)
THEOREM AlarmsFindTheirDoor == Spec => []AlarmFindsItsDoor
<1>1. IInv => AlarmFindsItsDoor
  BY DEF IInv
<1> QED
  BY Invariant, <1>1, PTL

-----------------------------------------------------------------------------
(***************************************************************************)
(* Cooler.  The composition implements its two parts, so GpioController's  *)
(* theorems hold of it.  What neither part can promise alone is what the   *)
(* server is told: that rests on the delays of four timers, of which an    *)
(* alarm sets two in the same instant.  The timers that bring the report   *)
(* outlast the one that holds the door, because CLOSED_TIMEOUT and         *)
(* INVENTORY_TIMEOUT together are longer than _open_mlscs.                 *)
(***************************************************************************)

(* Where the websocket thread and the timers are tells the last command.   *)
CommandIsLast ==
    /\ cmd \in {"resetStopTimer", "startInventory"} \/ ws = "open" => door = "open"
    /\ cmd \in {"stopInventory", "newCloseTimer"} => door = "close"
    /\ door = "none" => cmd = "idle" /\ closeTimer = "none" /\ stopTimer = "none"
    /\ door = "close" /\ closeTimer = "none" => cmd \in {"stopInventory", "newCloseTimer"}

(* While a command holds a door open no closing is in progress, if none    *)
(* was when it came and no alarm has come since.                           *)
OpenedAfterClosing == patient /\ ~alarmed /\ door = "open" => ~Handler!Closing

(* After a closing in its turn a door is open only for an alarm. *)
ClosedBut == matched /\ door = "close" =>
               \A d \in Doors : opened[d] => OpenForAlarm /\ d = active

(* No counted inventory is asked for here. *)
Uncounted == mode \in {"off", "loop"} /\ door # "test"

(* An inventory that runs on after a closing is going to be stopped. *)
StopToCome == door = "close" /\ mode = "loop" =>
                \/ cmd = "stopInventory"
                \/ closeTimer = "newStopTimer"
                \/ stopTimer \in {"armed", "stopInventory"}

(* A closing is in progress whose report comes more than `left' from now.  *)
Outlasts(left) == \/ cmd \in {"stopInventory", "newCloseTimer"}
                  \/ closeTimer = "armed" /\ closeLeft + StopDelay > left
                  \/ Handler!CloseRuns /\ (closeRestart \/ StopDelay > left)
                  \/ stopTimer = "armed" /\ stopLeft > left

(* The report comes after _open_timer has closed the door. *)
AlarmOutlasted == door = "close" =>
                    /\ irq = "sensor" \/ isr # "idle" => Outlasts(OpenDelay)
                    /\ open = "armed" => Outlasts(openLeft)
                    /\ open = "close" => Outlasts(0)

(* What has changed since the last report, another one will tell. *)
ReportToCome == door = "close" /\ stale =>
                  \/ AnyOpen
                  \/ cmd \in {"stopInventory", "newCloseTimer"}
                  \/ closeTimer \in {"armed", "startInventory", "newStopTimer"}
                  \/ stopTimer \in {"armed", "stopInventory"}
                  \/ stopTimer = "accumulate" /\ mode = "off"

CoolerInv == /\ IInv /\ CoolerTypeOK
             /\ CommandIsLast /\ OpenedAfterClosing /\ ClosedBut
             /\ Uncounted /\ StopToCome /\ AlarmOutlasted /\ ReportToCome
-----------------------------------------------------------------------------
(* Every step of the cooler is one of GpioController's, or none. *)
LEMMA StepOfSensor == ASSUME [CoolerNext]_coolerVars PROVE [Next]_vars
<1>1. ASSUME NEW d \in Doors, Open(d) \/ Close(d) PROVE Next
  BY <1>1 DEF Open, Close, Next
<1>2. CASE AlarmRestartsTimer
  BY <1>2 DEF AlarmRestartsTimer
<1>3. CASE DoorStep
  BY <1>3 DEF DoorStep, Next
<1>4. CASE CommandGoesOn \/ CloseTimerStep \/ StopTimerStep
  BY <1>4 DEF CommandGoesOn, CloseTimerStep, StopTimerStep
<1>5. CASE AlarmReachesSensor
  BY <1>5 DEF AlarmReachesSensor, Next
<1>6. CASE TimePasses
  <2>1. CASE "armed" \in {deinit, open}
    <3>1. /\ deinit = "armed" => deinitLeft > 0
          /\ open = "armed" => openLeft > 0
      BY <1>6 DEF TimePasses
    <3>2. Tick
      BY <1>6, <2>1, <3>1 DEF TimePasses, Working, Less, Tick
    <3> QED
      BY <3>2 DEF Next
  <2>2. CASE "armed" \notin {deinit, open}
    BY <1>6, <2>2 DEF TimePasses, Less, vars, timers
  <2> QED
    BY <2>1, <2>2
<1>7. CASE UNCHANGED coolerVars
  BY <1>7 DEF coolerVars
<1> QED
  BY <1>1, <1>2, <1>3, <1>4, <1>5, <1>6, <1>7 DEF CoolerNext, ThreadStep

(* ... and one of CommandHandler's, or none. *)
LEMMA StepOfHandler ==
    ASSUME [CoolerNext]_coolerVars PROVE [Handler!Next]_(Handler!vars)
<1> USE DEF Handler!Next, Handler!vars, Handler!timers, Handler!history, handlerVars
<1>1. ASSUME NEW d \in Doors, Open(d) \/ Close(d) PROVE Handler!Next
  BY <1>1 DEF Open, Close
<1>2. CASE AlarmRestartsTimer
  BY <1>2 DEF AlarmRestartsTimer
<1>3. CASE DoorStep \/ AlarmReachesSensor \/ TimePasses
  BY <1>3 DEF DoorStep, AlarmReachesSensor, TimePasses
<1>4. CASE CommandGoesOn
  BY <1>4 DEF CommandGoesOn, Handler!CommandStep
<1>5. CASE CloseTimerStep
  BY <1>5 DEF CloseTimerStep, Handler!CloseCallback
<1>6. CASE StopTimerStep
  BY <1>6 DEF StopTimerStep, Handler!StopCallback
<1>7. CASE UNCHANGED coolerVars
  BY <1>7 DEF coolerVars
<1> QED
  BY <1>1, <1>2, <1>3, <1>4, <1>5, <1>6, <1>7 DEF CoolerNext, ThreadStep

(* The types of CommandHandler's part; and no inventory is a counted one.  *)
LEMMA HandlerTypes ==
    ASSUME Handler!TypeOK, Uncounted, [CoolerNext]_coolerVars
    PROVE  Handler!TypeOK' /\ Uncounted'
<1> DEFINE Goal == Handler!TypeOK' /\ Uncounted'
<1>0. ASSUME requests < MaxCommands + MaxAlarms, requests' = requests + 1
      PROVE  requests' \in 0..(MaxCommands + MaxAlarms)
  BY <1>0, BoundsAssumption DEF Handler!TypeOK
<1> USE DEF Handler!TypeOK, Uncounted, Handler!Counted, Handler!CloseRuns,
            Handler!StopRuns, Handler!timers, Handler!history, handlerVars
<1>1. ASSUME NEW d \in Doors, Open(d) PROVE Goal
  <2>1. Handler!OpenDoor
    BY <1>1 DEF Open
  <2>2. requests' \in 0..(MaxCommands + MaxAlarms)
    BY <1>0, <2>1 DEF Handler!OpenDoor, Handler!Command
  <2> QED
    BY <2>1, <2>2 DEF Handler!OpenDoor
<1>2. ASSUME NEW d \in Doors, Close(d) PROVE Goal
  <2>1. Handler!CloseDoor
    BY <1>2 DEF Close
  <2>2. requests' \in 0..(MaxCommands + MaxAlarms)
    BY <1>0, <2>1 DEF Handler!CloseDoor, Handler!Command
  <2> QED
    BY <2>1, <2>2 DEF Handler!CloseDoor
<1>3. CASE AlarmRestartsTimer
  <2>1. CASE Handler!Alarm
    <3>1. requests' \in 0..(MaxCommands + MaxAlarms)
      BY <1>0, <2>1 DEF Handler!Alarm
    <3> QED
      BY <2>1, <3>1 DEF Handler!Alarm
  <2>2. CASE UNCHANGED handlerVars
    BY <2>2
  <2> QED
    BY <1>3, <2>1, <2>2 DEF AlarmRestartsTimer
<1>4. CASE DoorStep \/ AlarmReachesSensor \/ TimePasses \/ UNCHANGED coolerVars
  BY <1>4 DEF DoorStep, AlarmReachesSensor, TimePasses, coolerVars
<1>5. CASE CommandGoesOn
  <2>1. CASE Handler!ResetStopTimer
    BY <2>1 DEF Handler!ResetStopTimer
  <2>2. CASE Handler!StartByOpen
    BY <2>2 DEF Handler!StartByOpen, Handler!StartInventory
  <2>3. CASE Handler!StopByClose
    BY <2>3 DEF Handler!StopByClose, Handler!StopInventory
  <2>4. CASE Handler!NewCloseTimer
    BY <2>4 DEF Handler!NewCloseTimer
  <2> QED
    BY <1>5, <2>1, <2>2, <2>3, <2>4 DEF CommandGoesOn
<1>6. CASE CloseTimerStep
  <2>1. CASE Handler!CloseFires
    BY <2>1 DEF Handler!CloseFires
  <2>2. CASE Handler!StartByTimer
    BY <2>2 DEF Handler!StartByTimer, Handler!StartInventory
  <2>3. CASE Handler!NewStopTimer
    BY <2>3 DEF Handler!NewStopTimer
  <2> QED
    BY <1>6, <2>1, <2>2, <2>3 DEF CloseTimerStep
<1>7. CASE StopTimerStep
  <2>1. CASE Handler!StopFires
    BY <2>1 DEF Handler!StopFires
  <2>2. CASE Handler!StopByTimer
    BY <2>2 DEF Handler!StopByTimer, Handler!StopInventory
  <2>3. CASE Handler!Accumulate
    BY <2>3 DEF Handler!Accumulate
  <2> QED
    BY <1>7, <2>1, <2>2, <2>3 DEF StopTimerStep
<1> QED
  BY <1>1, <1>2, <1>3, <1>4, <1>5, <1>6, <1>7 DEF CoolerNext, ThreadStep

(* The types of what the composition adds. *)
LEMMA CoolerTypes ==
    ASSUME CoolerTypeOK, Uncounted, [CoolerNext]_coolerVars PROVE CoolerTypeOK'
<1>1. TypeOK'
  BY StepOfSensor, TypeStep DEF CoolerTypeOK
<1>2. Handler!TypeOK'
  BY HandlerTypes DEF CoolerTypeOK
<1> DEFINE Rest == /\ closeLeft \in 0..CloseDelay /\ stopLeft \in 0..StopDelay
                   /\ irq \in {"idle", "sensor"}
                   /\ stale \in BOOLEAN /\ matched \in BOOLEAN
<1>3. Rest'
  <2> USE TimeoutsAssumption DEF CoolerTypeOK, times, shared
  <2>1. ASSUME NEW d \in Doors, Open(d) \/ Close(d) PROVE Rest'
    BY <2>1 DEF Open, Close
  <2>2. CASE AlarmRestartsTimer
    BY <2>2 DEF AlarmRestartsTimer
  <2>3. CASE DoorStep
    BY <2>3 DEF DoorStep
  <2>4. CASE CommandGoesOn
    BY <2>4 DEF CommandGoesOn
  <2>5. CASE AlarmReachesSensor
    BY <2>5 DEF AlarmReachesSensor
  <2>6. CASE CloseTimerStep
    BY <2>6 DEF CloseTimerStep
  <2>7. CASE StopTimerStep
    BY <2>7 DEF StopTimerStep, AnyOpen
  <2>8. CASE TimePasses
    BY <2>8 DEF TimePasses, Less
  <2>9. CASE UNCHANGED coolerVars
    BY <2>9 DEF coolerVars
  <2> QED
    BY <2>1, <2>2, <2>3, <2>4, <2>5, <2>6, <2>7, <2>8, <2>9 DEF CoolerNext, ThreadStep
<1> QED
  BY <1>1, <1>2, <1>3 DEF CoolerTypeOK

(* GpioController's steps neither begin a command nor an alarm, arm        *)
(* _open_timer only for one, and close a door only when that has expired.  *)
LEMMA SensorSteps ==
    ASSUME IInv, DoorStep
    PROVE  /\ ws' = "open" => ws = "open"
           /\ isr' # "idle" => isr # "idle"
           /\ open' = "armed" => \/ open = "armed" /\ openLeft' = openLeft
                                 \/ isr # "idle" /\ openLeft' = OpenDelay
           /\ open' = "close" => open = "close" \/ (open = "armed" /\ openLeft = 0)
           /\ AnyOpen => AnyOpen' \/ open = "close"
<1> USE DEF IInv, TypeOK, AnyOpen, timers, doors, wsVars, isrVars
<1>1. CASE DoorOpens
  BY <1>1 DEF DoorOpens
<1>2. CASE InitSecuredDoor \/ Activate \/ ArmByClose
  BY <1>2 DEF InitSecuredDoor, Activate, ArmByClose
<1>3. CASE ResetDeinit \/ NewOpenTimer
  BY <1>3 DEF ResetDeinit, NewOpenTimer
<1>4. CASE OpenActive
  BY <1>4 DEF OpenActive
<1>5. CASE DeinitFires \/ Forget \/ OpenFires
  BY <1>5 DEF DeinitFires, Forget, OpenFires
<1>6. CASE CloseAfterAlarm
  BY <1>6 DEF CloseAfterAlarm
<1>7. CASE ArmByTimer
  BY <1>7 DEF ArmByTimer
<1> QED
  BY <1>1, <1>2, <1>3, <1>4, <1>5, <1>6, <1>7
     DEF DoorStep, CommandStep, AlarmStep, TimerStep

(* The last command. *)
LEMMA LastStep ==
    ASSUME CoolerInv, [CoolerNext]_coolerVars
    PROVE  CommandIsLast' /\ OpenedAfterClosing'
<1> DEFINE Goal == CommandIsLast' /\ OpenedAfterClosing'
<1> USE DEF CoolerInv, CommandIsLast, OpenedAfterClosing, Handler!Closing,
            Handler!CloseRuns, Handler!StopRuns, Handler!timers, Handler!history,
            handlerVars
<1>1. ASSUME NEW d \in Doors, Open(d) PROVE Goal
  BY <1>1 DEF Open, OpenDoor, Command, Handler!OpenDoor
<1>2. ASSUME NEW d \in Doors, Close(d) PROVE Goal
  BY <1>2 DEF Close, CloseDoor, Command, Handler!CloseDoor
<1>3. CASE AlarmRestartsTimer
  BY <1>3 DEF AlarmRestartsTimer, Handler!Alarm, vars, wsVars
<1>4. CASE DoorStep
  BY <1>4, SensorSteps DEF DoorStep
<1>5. CASE CommandGoesOn
  BY <1>5 DEF CommandGoesOn, Handler!ResetStopTimer, Handler!StartByOpen,
              Handler!StopByClose, Handler!NewCloseTimer, vars, wsVars
<1>6. CASE AlarmReachesSensor
  BY <1>6 DEF AlarmReachesSensor, Alarm, vars, wsVars
<1>7. CASE CloseTimerStep
  BY <1>7 DEF CloseTimerStep, Handler!CloseFires, Handler!StartByTimer,
              Handler!NewStopTimer, vars, wsVars
<1>8. CASE StopTimerStep
  BY <1>8 DEF StopTimerStep, Handler!StopFires, Handler!StopByTimer,
              Handler!Accumulate, vars, wsVars
<1>9. CASE TimePasses \/ UNCHANGED coolerVars
  BY <1>9 DEF TimePasses, coolerVars, vars, wsVars
<1> QED
  BY <1>1, <1>2, <1>3, <1>4, <1>5, <1>6, <1>7, <1>8, <1>9 DEF CoolerNext, ThreadStep

(* The doors after a closing. *)
LEMMA ClosedStep == ASSUME CoolerInv, [CoolerNext]_coolerVars PROVE ClosedBut'
<1> USE DEF CoolerInv, ClosedBut, OpenForAlarm, IInv, TypeOK, timers, doors, wsVars,
            isrVars, OpenRuns, DeinitRuns
<1>1. ASSUME NEW d \in Doors, Open(d) PROVE ClosedBut'
  BY <1>1 DEF Open, Handler!OpenDoor
<1>2. ASSUME NEW d \in Doors, Close(d) PROVE ClosedBut'
  BY <1>2 DEF Close, CloseDoor
<1>3. CASE DoorStep
  <2> USE <1>3 DEF DoorStep, handlerVars
  <2>1. CASE DoorOpens
    BY <2>1 DEF DoorOpens, CommandIsLast
  <2>2. CASE InitSecuredDoor \/ ArmByClose
    BY <2>2 DEF InitSecuredDoor, ArmByClose, ArmDeinit
  <2>3. CASE Activate
    BY <2>3 DEF Activate, DoorIsKept
  <2>4. CASE AlarmStep
    BY <2>4 DEF AlarmStep, ResetDeinit, OpenActive, NewOpenTimer
  <2>5. CASE DeinitFires \/ OpenFires \/ CloseAfterAlarm \/ ArmByTimer
    BY <2>5 DEF DeinitFires, OpenFires, CloseAfterAlarm, ArmByTimer, ArmDeinit, DoorIsKept
  <2>6. CASE Forget
    <3>1. ~OpenForAlarm
      BY <2>6 DEF Forget, Timing, DeinitLater
    <3> QED
      BY <2>6, <3>1 DEF Forget
  <2> QED
    BY <2>1, <2>2, <2>3, <2>4, <2>5, <2>6 DEF CommandStep, TimerStep
<1>4. CASE AlarmReachesSensor
  BY <1>4 DEF AlarmReachesSensor, Alarm, vars, handlerVars
<1>5. CASE AlarmRestartsTimer
  BY <1>5 DEF AlarmRestartsTimer, Handler!Alarm, handlerVars, vars
<1>6. CASE CommandGoesOn \/ CloseTimerStep \/ StopTimerStep
  <2>1. UNCHANGED <<vars, matched, door>>
    BY <1>6 DEF CommandGoesOn, CloseTimerStep, StopTimerStep, shared, Handler!history,
       Handler!ResetStopTimer, Handler!StartByOpen, Handler!StopByClose,
       Handler!NewCloseTimer, Handler!CloseFires, Handler!StartByTimer,
       Handler!NewStopTimer, Handler!StopFires, Handler!StopByTimer, Handler!Accumulate
  <2> QED
    BY <2>1 DEF vars
<1>7. CASE TimePasses \/ UNCHANGED coolerVars
  BY <1>7 DEF TimePasses, coolerVars, shared, handlerVars, vars
<1> QED
  BY <1>1, <1>2, <1>3, <1>4, <1>5, <1>6, <1>7 DEF CoolerNext, ThreadStep

(* An inventory left running by a closing. *)
LEMMA StopStep == ASSUME CoolerInv, [CoolerNext]_coolerVars PROVE StopToCome'
<1> USE DEF CoolerInv, StopToCome, CommandIsLast, Handler!CloseRuns, Handler!StopRuns,
            Handler!timers, Handler!history, handlerVars
<1>1. ASSUME NEW d \in Doors, Open(d) \/ Close(d) PROVE StopToCome'
  BY <1>1 DEF Open, Close, Handler!OpenDoor, Handler!CloseDoor
<1>2. CASE AlarmRestartsTimer
  BY <1>2 DEF AlarmRestartsTimer, Handler!Alarm
<1>3. CASE CommandGoesOn
  BY <1>3 DEF CommandGoesOn, Handler!ResetStopTimer, Handler!StartByOpen,
              Handler!StopByClose, Handler!StopInventory, Handler!NewCloseTimer
<1>4. CASE CloseTimerStep
  BY <1>4 DEF CloseTimerStep, Handler!CloseFires, Handler!StartByTimer,
              Handler!StartInventory, Handler!NewStopTimer
<1>5. CASE StopTimerStep
  BY <1>5 DEF StopTimerStep, Handler!StopFires, Handler!StopByTimer,
              Handler!StopInventory, Handler!Accumulate
<1>6. CASE DoorStep \/ AlarmReachesSensor \/ TimePasses \/ UNCHANGED coolerVars
  BY <1>6 DEF DoorStep, AlarmReachesSensor, TimePasses, coolerVars
<1> QED
  BY <1>1, <1>2, <1>3, <1>4, <1>5, <1>6 DEF CoolerNext, ThreadStep

(* No step of a command or of a timer of the closing brings the report     *)
(* forward.                                                                *)
LEMMA OutlastsStep ==
    ASSUME CoolerInv, door = "close", CommandGoesOn \/ CloseTimerStep \/ StopTimerStep
    PROVE  \A left \in 0..OpenDelay : Outlasts(left) => Outlasts(left)'
<1> SUFFICES ASSUME NEW left \in 0..OpenDelay, Outlasts(left) PROVE Outlasts(left)'
  OBVIOUS
<1> USE DelaysAssumption, TimeoutsAssumption, ReportAssumption
    DEF CoolerInv, CoolerTypeOK, CommandIsLast, Outlasts, Handler!CloseRuns,
        Handler!StopRuns, Handler!timers, Handler!history, times
<1>1. CASE CommandGoesOn
  <2>1. CASE Handler!ResetStopTimer \/ Handler!StartByOpen
    BY <2>1 DEF Handler!ResetStopTimer, Handler!StartByOpen
  <2>2. CASE Handler!StopByClose
    BY <2>2 DEF Handler!StopByClose
  <2>3. CASE Handler!NewCloseTimer /\ closeLeft' = CloseDelay
    BY <2>3 DEF Handler!NewCloseTimer
  <2> QED
    BY <1>1, <2>1, <2>2, <2>3 DEF CommandGoesOn
<1>2. CASE CloseTimerStep
  <2>1. CASE Handler!CloseFires /\ closeLeft = 0 /\ UNCHANGED times
    BY <2>1 DEF Handler!CloseFires
  <2>2. CASE Handler!StartByTimer /\ UNCHANGED times
    BY <2>2 DEF Handler!StartByTimer
  <2>3. CASE /\ Handler!NewStopTimer
             /\ closeLeft' = CloseDelay /\ stopLeft' = StopDelay
    BY <2>3 DEF Handler!NewStopTimer, Handler!TypeOK
  <2> QED
    BY <1>2, <2>1, <2>2, <2>3 DEF CloseTimerStep
<1>3. CASE StopTimerStep
  BY <1>3 DEF StopTimerStep, Handler!StopFires, Handler!StopByTimer, Handler!Accumulate
<1> QED
  BY <1>1, <1>2, <1>3

(* An alarm puts the report off, until after the door it opens is closed.  *)
LEMMA AlarmPutsOff ==
    ASSUME CoolerInv, door = "close", AlarmRestartsTimer
    PROVE  \A left \in 0..OpenDelay : Outlasts(left)'
<1> SUFFICES ASSUME NEW left \in 0..OpenDelay PROVE Outlasts(left)'
  OBVIOUS
<1> USE DelaysAssumption, TimeoutsAssumption, ReportAssumption
    DEF CoolerInv, CoolerTypeOK, CommandIsLast, Outlasts, Handler!CloseRuns,
        Handler!timers, handlerVars
<1>1. CASE closeTimer = "none"
  BY <1>1 DEF AlarmRestartsTimer
<1>2. CASE closeTimer # "none"
  <2>1. Handler!Alarm /\ closeLeft' = CloseDelay
    BY <1>2 DEF AlarmRestartsTimer
  <2>2. CASE Handler!CloseRuns
    BY <2>1, <2>2 DEF Handler!Alarm
  <2>3. CASE ~Handler!CloseRuns
    <3>1. closeTimer' = "armed"
      BY <2>1, <2>3 DEF Handler!Alarm
    <3>2. closeLeft' + StopDelay > left
      BY <2>1
    <3> QED
      BY <3>1, <3>2
  <2> QED
    BY <2>2, <2>3
<1> QED
  BY <1>1, <1>2

(* The report outlasts every alarm. *)
LEMMA OutlastedStep ==
    ASSUME CoolerInv, [CoolerNext]_coolerVars PROVE AlarmOutlasted'
<1> USE DelaysAssumption, TimeoutsAssumption DEF AlarmOutlasted
<1>1. OpenDelay \in 0..OpenDelay /\ openLeft \in 0..OpenDelay /\ 0 \in 0..OpenDelay
  BY DEF CoolerInv, CoolerTypeOK, TypeOK
<1>2. ASSUME NEW d \in Doors, Open(d) PROVE AlarmOutlasted'
  BY <1>2 DEF Open, Handler!OpenDoor
<1>3. ASSUME NEW d \in Doors, Close(d) PROVE AlarmOutlasted'
  BY <1>3 DEF Close, Handler!CloseDoor, Outlasts
<1>4. CASE DoorStep
  <2>1. UNCHANGED <<handlerVars, times, irq>>
    BY <1>4 DEF DoorStep
  <2>2. openLeft = 0 /\ Outlasts(openLeft) => Outlasts(0)
    BY DEF Outlasts
  <2> QED
    BY <1>4, <2>1, <2>2, SensorSteps
       DEF CoolerInv, Outlasts, Handler!CloseRuns, handlerVars, times
<1>5. CASE CommandGoesOn \/ CloseTimerStep \/ StopTimerStep
  <2>1. UNCHANGED <<vars, irq, door>>
    BY <1>5 DEF CommandGoesOn, CloseTimerStep, StopTimerStep, shared, Handler!history,
       Handler!ResetStopTimer, Handler!StartByOpen, Handler!StopByClose,
       Handler!NewCloseTimer, Handler!CloseFires, Handler!StartByTimer,
       Handler!NewStopTimer, Handler!StopFires, Handler!StopByTimer, Handler!Accumulate
  <2>2. UNCHANGED <<isr, open, openLeft>>
    BY <2>1 DEF vars, isrVars, timers
  <2> SUFFICES ASSUME door = "close"
               PROVE  /\ irq = "sensor" \/ isr # "idle" => Outlasts(OpenDelay)'
                      /\ open = "armed" => Outlasts(openLeft)'
                      /\ open = "close" => Outlasts(0)'
    BY <2>1, <2>2
  <2>3. \A left \in 0..OpenDelay : Outlasts(left) => Outlasts(left)'
    BY <1>5, OutlastsStep
  <2>4. Outlasts(openLeft) => Outlasts(openLeft)'
    BY <1>1, <2>2, <2>3 DEF Outlasts
  <2> QED
    BY <1>1, <2>3, <2>4 DEF CoolerInv
<1>6. CASE AlarmRestartsTimer
  <2>1. UNCHANGED <<isr, open, openLeft, door>>
    BY <1>6 DEF AlarmRestartsTimer, vars, isrVars, timers, Handler!Alarm, handlerVars
  <2>2. door = "close" => \A left \in 0..OpenDelay : Outlasts(left)'
    BY <1>6, AlarmPutsOff
  <2>3. door = "close" => Outlasts(openLeft)'
    BY <1>1, <2>1, <2>2 DEF Outlasts
  <2> QED
    BY <1>1, <2>1, <2>2, <2>3
<1>7. CASE AlarmReachesSensor
  BY <1>7 DEF AlarmReachesSensor, Alarm, vars, timers, isrVars, CoolerInv, Outlasts,
              Handler!CloseRuns, handlerVars, times
<1>8. CASE TimePasses
  <2>1. /\ irq' = "idle" /\ isr' = "idle" /\ open' # "close" /\ cmd = "idle"
        /\ UNCHANGED <<handlerVars, open>>
    BY <1>8 DEF TimePasses, Working, OpenRuns, shared, isrVars, CoolerInv, CoolerTypeOK
  <2>2. ~Handler!CloseRuns
    BY <1>8 DEF TimePasses, Working
  <2>3. ASSUME open = "armed", door = "close" PROVE Outlasts(openLeft)'
    <3>1. openLeft' = openLeft - 1 /\ Outlasts(openLeft)
      BY <1>8, <2>3 DEF TimePasses, Less, CoolerInv
    <3>2. CASE closeTimer = "armed" /\ closeLeft + StopDelay > openLeft
      <4>1. closeLeft' = closeLeft - 1 /\ closeTimer' = "armed"
        BY <1>8, <2>1, <3>2 DEF TimePasses, Less, handlerVars
      <4>2. closeLeft \in Nat /\ openLeft \in Nat /\ StopDelay \in Nat
        BY <1>1 DEF CoolerInv, CoolerTypeOK
      <4>3. closeLeft' + StopDelay > openLeft'
        BY <3>1, <3>2, <4>1, <4>2
      <4> QED
        BY <4>1, <4>3 DEF Outlasts
    <3>3. CASE stopTimer = "armed" /\ stopLeft > openLeft
      <4>1. stopLeft' = stopLeft - 1 /\ stopTimer' = "armed"
        BY <1>8, <2>1, <3>3 DEF TimePasses, Less, handlerVars
      <4>2. stopLeft \in Nat /\ openLeft \in Nat
        BY <1>1 DEF CoolerInv, CoolerTypeOK
      <4>3. stopLeft' > openLeft'
        BY <3>1, <3>3, <4>1, <4>2
      <4> QED
        BY <4>1, <4>3 DEF Outlasts
    <3> QED
      BY <2>1, <2>2, <3>1, <3>2, <3>3 DEF Outlasts
  <2> QED
    BY <2>1, <2>3 DEF handlerVars
<1>9. CASE UNCHANGED coolerVars
  BY <1>9 DEF coolerVars, vars, timers, isrVars, shared, CoolerInv, Outlasts,
              Handler!CloseRuns, handlerVars, times
<1> QED
  BY <1>2, <1>3, <1>4, <1>5, <1>6, <1>7, <1>8, <1>9 DEF CoolerNext, ThreadStep

(* A change is reported. *)
LEMMA ReportStep == ASSUME CoolerInv, [CoolerNext]_coolerVars PROVE ReportToCome'
<1> USE DEF ReportToCome
<1>1. ASSUME NEW d \in Doors, Open(d) \/ Close(d) PROVE ReportToCome'
  BY <1>1 DEF Open, Close, Handler!OpenDoor, Handler!CloseDoor
<1>2. CASE DoorStep
  <2>1. UNCHANGED handlerVars /\ (stale' => stale \/ AnyOpen')
    BY <1>2 DEF DoorStep, AnyOpen
  <2>2. AnyOpen /\ door = "close" => AnyOpen' \/ Outlasts(0)
    BY <1>2, SensorSteps DEF CoolerInv, AlarmOutlasted
  <2> QED
    BY <2>1, <2>2 DEF CoolerInv, Outlasts, Handler!CloseRuns, handlerVars
<1>3. CASE AlarmRestartsTimer
  BY <1>3 DEF AlarmRestartsTimer, Handler!Alarm, Handler!CloseRuns, handlerVars, AnyOpen,
              vars, doors, CoolerInv
<1>4. CASE CommandGoesOn
  BY <1>4 DEF CommandGoesOn, Handler!ResetStopTimer, Handler!StartByOpen,
              Handler!StopByClose, Handler!StopInventory, Handler!NewCloseTimer,
              Handler!timers, Handler!history, AnyOpen, vars, doors, shared, CoolerInv,
              CommandIsLast
<1>5. CASE CloseTimerStep
  BY <1>5 DEF CloseTimerStep, Handler!CloseFires, Handler!StartByTimer,
              Handler!NewStopTimer, Handler!history, AnyOpen, vars, doors, shared,
              CoolerInv
<1>6. CASE StopTimerStep
  <2>1. CASE Handler!StopFires /\ UNCHANGED stale
    BY <1>6, <2>1 DEF StopTimerStep, Handler!StopFires, Handler!history, AnyOpen, vars,
       doors, CoolerInv
  <2>2. CASE Handler!StopByTimer /\ UNCHANGED stale
    BY <1>6, <2>2 DEF StopTimerStep, Handler!StopByTimer, Handler!StopInventory,
       Handler!history, AnyOpen, vars, doors, CoolerInv
  <2>3. CASE Handler!Accumulate /\ stale' = IF mode = "off" THEN AnyOpen ELSE stale
    <3>1. UNCHANGED <<opened, mode, cmd, closeTimer, door>>
      BY <1>6, <2>3 DEF StopTimerStep, Handler!Accumulate, vars, doors
    <3>2. CASE mode = "off"
      BY <2>3, <3>1, <3>2 DEF AnyOpen
    <3>3. CASE mode = "loop"
      BY <2>3, <3>1, <3>3 DEF CoolerInv, StopToCome, Handler!Accumulate
    <3> QED
      BY <3>2, <3>3 DEF CoolerInv, Uncounted
  <2> QED
    BY <1>6, <2>1, <2>2, <2>3 DEF StopTimerStep
<1>7. CASE AlarmReachesSensor \/ TimePasses \/ UNCHANGED coolerVars
  <2>1. UNCHANGED <<handlerVars, opened, stale>>
    BY <1>7 DEF AlarmReachesSensor, Alarm, TimePasses, coolerVars, shared, vars, doors
  <2> QED
    BY <2>1 DEF CoolerInv, AnyOpen, handlerVars
<1> QED
  BY <1>1, <1>2, <1>3, <1>4, <1>5, <1>6, <1>7 DEF CoolerNext, ThreadStep
-----------------------------------------------------------------------------
(* At the start all is closed, spent and reported. *)
THEOREM CoolerInitInv == CoolerInit => CoolerInv
<1> SUFFICES ASSUME CoolerInit PROVE CoolerInv
  OBVIOUS
<1>1. IInv
  BY InitInv DEF CoolerInit
<1>2. CoolerTypeOK
  <2>1. /\ 0 \in 0..CloseDelay /\ 0 \in 0..StopDelay
        /\ 0 \in 0..(MaxCommands + MaxAlarms)
    BY TimeoutsAssumption, BoundsAssumption
  <2>2. Handler!TypeOK
    BY <2>1 DEF CoolerInit, Handler!Init, Handler!TypeOK, Handler!CloseRuns
  <2> QED
    BY <1>1, <2>1, <2>2 DEF CoolerInit, CoolerTypeOK, IInv
<1>3. CommandIsLast /\ OpenedAfterClosing /\ ClosedBut /\ Uncounted /\ StopToCome
  BY DEF CoolerInit, Init, Handler!Init, CommandIsLast, OpenedAfterClosing, ClosedBut,
         Uncounted, StopToCome
<1>4. AlarmOutlasted /\ ReportToCome
  BY DEF CoolerInit, Handler!Init, AlarmOutlasted, ReportToCome
<1> QED
  BY <1>1, <1>2, <1>3, <1>4 DEF CoolerInv

(* No step breaks the invariant. *)
THEOREM CoolerStepInv == CoolerInv /\ [CoolerNext]_coolerVars => CoolerInv'
<1> SUFFICES ASSUME CoolerInv, [CoolerNext]_coolerVars PROVE CoolerInv'
  OBVIOUS
<1>1. IInv'
  BY StepOfSensor, StepInv DEF CoolerInv
<1>2. CoolerTypeOK' /\ Uncounted'
  BY CoolerTypes, HandlerTypes DEF CoolerInv, CoolerTypeOK
<1>3. CommandIsLast' /\ OpenedAfterClosing' /\ ClosedBut' /\ StopToCome'
  BY LastStep, ClosedStep, StopStep
<1>4. AlarmOutlasted' /\ ReportToCome'
  BY OutlastedStep, ReportStep
<1> QED
  BY <1>1, <1>2, <1>3, <1>4 DEF CoolerInv

THEOREM CoolerInvariant == CoolerSpec => []CoolerInv
BY CoolerInitInv, CoolerStepInv, PTL DEF CoolerSpec
-----------------------------------------------------------------------------
(* The composition is a GpioController: whatever CommandHandler's timers   *)
(* do meanwhile, its doors and its sensor behave as that module says.      *)
THEOREM CoolerIsSensor == CoolerSpec => Spec
<1>1. CoolerInit => Init
  BY DEF CoolerInit
<1> QED
  BY <1>1, StepOfSensor, PTL DEF CoolerSpec, Spec

(* It is a CommandHandler too, with the alarms of the sensor: what is      *)
(* proved of that module holds here.                                       *)
THEOREM CoolerIsHandler == CoolerSpec => Handler!Spec
<1>1. CoolerInit => Handler!Init
  BY DEF CoolerInit
<1> QED
  BY <1>1, StepOfHandler, PTL DEF CoolerSpec, Handler!Spec

(* The types of both parts and of the four timers. *)
THEOREM CoolerTypeCorrect == CoolerSpec => []CoolerTypeOK
<1>1. CoolerInv => CoolerTypeOK
  BY DEF CoolerInv
<1> QED
  BY CoolerInvariant, <1>1, PTL

(* A cooler at rest after a closing has no inventory running, and the      *)
(* server knows what it has held since a door was last open, whatever      *)
(* alarms came and however early the next command.                         *)
THEOREM RestIsReported == CoolerSpec => []AtRestReported
<1>1. CoolerInv => AtRestReported
  <2> SUFFICES ASSUME CoolerInv, Quiet, door = "close", ~AnyOpen
               PROVE  mode = "off" /\ ~stale
    BY DEF AtRestReported
  <2>1. cmd = "idle" /\ ~Handler!CloseRuns /\ ~Handler!StopRuns
    BY DEF Quiet, Working
  <2>2. closeTimer # "armed" /\ stopTimer # "armed"
    BY DEF Quiet
  <2>3. mode = "off"
    BY <2>1, <2>2 DEF CoolerInv, Uncounted, StopToCome, Handler!CloseRuns,
       Handler!StopRuns
  <2>4. ~stale
    BY <2>1, <2>2 DEF CoolerInv, ReportToCome, Handler!CloseRuns, Handler!StopRuns
  <2> QED
    BY <2>3, <2>4
<1> QED
  BY CoolerInvariant, <1>1, PTL

(* The content of an open cooler is sent only where an alarm holds the     *)
(* door, after a close command for the other door, or where a command      *)
(* opened the door during a closing or an alarm has come to it since.      *)
THEOREM OpenNotReported == CoolerSpec => OpenIsNotReported
<1>1. ASSUME CoolerInv, Handler!Accumulate, mode = "off", AnyOpen, matched,
             door = "open" => patient /\ ~alarmed
      PROVE  open # "none" \/ isr # "idle"
  <2>1. stopTimer = "accumulate"
    BY <1>1 DEF Handler!Accumulate
  <2>2. door = "close"
    BY <1>1, <2>1 DEF CoolerInv, CommandIsLast, OpenedAfterClosing, Handler!Closing,
       Uncounted, CoolerTypeOK, Handler!TypeOK
  <2>3. OpenForAlarm
    BY <1>1, <2>2 DEF CoolerInv, ClosedBut, AnyOpen
  <2> QED
    BY <2>3 DEF OpenForAlarm
<1>2. CoolerInv =>
        [Handler!Accumulate /\ mode = "off" /\ AnyOpen
           => \/ open # "none" \/ isr # "idle"
              \/ ~matched
              \/ door = "open" /\ (~patient \/ alarmed)]_coolerVars
  <2>1. CoolerTypeOK /\ Handler!TypeOK => patient \in BOOLEAN /\ alarmed \in BOOLEAN
    BY DEF Handler!TypeOK
  <2> QED
    BY <1>1, <2>1
<1> QED
  BY CoolerInvariant, <1>2, PTL DEF OpenIsNotReported
=============================================================================
