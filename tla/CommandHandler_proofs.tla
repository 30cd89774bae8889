------------------------- MODULE CommandHandler_proofs -------------------------
(***************************************************************************)
(* Proofs about CommandHandler, for any number of commands and alarms.     *)
(*                                                                         *)
(* What can stop the inventory of an open door is a stop timer, and a stop *)
(* timer comes of a close timer.  Opening a door does not end a closing    *)
(* (it leaves _close_inventory_timer alone), and an alarm arms a spent     *)
(* close timer again, so the proof needs what `patient' and `alarmed' say: *)
(* no closing was in progress, and no alarm has come since.                *)
(***************************************************************************)
EXTENDS CommandHandler, TLAPS

(* The command in progress is the last one. *)
DoorOfCommand ==
    /\ ws \in {"resetStopTimer", "startInventory"} => door = "open"
    /\ ws \in {"stopInventory", "newCloseTimer"} => door = "close"

(* With the door open no closing is in progress. *)
OpenedAfterClosing == patient /\ ~alarmed /\ door = "open" => ~Closing

IInv == TypeOK /\ DoorOfCommand /\ OpenedAfterClosing /\ PatientInventoryKeepsRunning

(* At the start nothing runs. *)
THEOREM InitInv == Init => IInv
<1> SUFFICES ASSUME Init PROVE IInv
  OBVIOUS
<1>0. 0 \in 0..MaxCommands
  BY MaxCommandsAssumption
<1>1. TypeOK
  BY <1>0 DEF Init, TypeOK, CloseRuns
<1>2. DoorOfCommand /\ OpenedAfterClosing /\ PatientInventoryKeepsRunning
  BY DEF Init, DoorOfCommand, OpenedAfterClosing, PatientInventoryKeepsRunning
<1> QED
  BY <1>1, <1>2 DEF IInv

(* The commands: those that open and close a door, and the counted ones.   *)
LEMMA CommandInv ==
    ASSUME IInv, OpenDoor \/ CloseDoor \/ \E c \in Requests : CountedInventory(c)
    PROVE  IInv'
<1>0. Command => commands' \in 0..MaxCommands
  BY MaxCommandsAssumption DEF Command, IInv, TypeOK
<1> USE DEF IInv, TypeOK, DoorOfCommand, OpenedAfterClosing, PatientInventoryKeepsRunning,
            Closing, CloseRuns, timers, Counted
<1>1. CASE OpenDoor
  <2>1. Command
    BY <1>1 DEF OpenDoor
  <2>2. TypeOK'
    BY <1>0, <1>1, <2>1 DEF OpenDoor
  <2>3. (DoorOfCommand /\ OpenedAfterClosing /\ PatientInventoryKeepsRunning)'
    BY <1>1 DEF OpenDoor
  <2> QED
    BY <2>2, <2>3
<1>2. CASE CloseDoor
  <2>1. Command
    BY <1>2 DEF CloseDoor
  <2>2. TypeOK'
    BY <1>0, <1>2, <2>1 DEF CloseDoor
  <2>3. (DoorOfCommand /\ OpenedAfterClosing /\ PatientInventoryKeepsRunning)'
    BY <1>2 DEF CloseDoor
  <2> QED
    BY <2>2, <2>3
<1>3. ASSUME NEW c \in Requests, CountedInventory(c) PROVE IInv'
  BY <1>0, <1>3, RequestsAssumption DEF CountedInventory, Command
<1> QED
  BY <1>1, <1>2, <1>3

(* The rest of a command. *)
LEMMA CommandStepInv == ASSUME IInv, CommandStep PROVE IInv'
<1> USE DEF IInv, TypeOK, DoorOfCommand, OpenedAfterClosing, PatientInventoryKeepsRunning,
            Closing, CloseRuns, StopRuns, timers, history, Counted
<1>1. CASE ResetStopTimer
  BY <1>1 DEF ResetStopTimer
<1>2. CASE StartByOpen
  BY <1>2 DEF StartByOpen, StartInventory
<1>3. CASE StopByClose
  BY <1>3 DEF StopByClose, StopInventory
<1>4. CASE NewCloseTimer
  BY <1>4 DEF NewCloseTimer
<1> QED
  BY <1>1, <1>2, <1>3, <1>4 DEF CommandStep

(* The callbacks of the two timers; an alarm. *)
LEMMA TimerInv == ASSUME IInv, CloseCallback \/ StopCallback \/ Alarm PROVE IInv'
<1> USE MaxCommandsAssumption
    DEF IInv, TypeOK, DoorOfCommand, OpenedAfterClosing, PatientInventoryKeepsRunning,
        Closing, CloseRuns, StopRuns, timers, history, Counted
<1>1. CASE CloseFires
  BY <1>1 DEF CloseFires
<1>2. CASE StartByTimer
  BY <1>2 DEF StartByTimer, StartInventory
<1>3. CASE NewStopTimer
  BY <1>3 DEF NewStopTimer
<1>4. CASE StopFires
  BY <1>4 DEF StopFires
<1>5. CASE StopByTimer
  BY <1>5 DEF StopByTimer, StopInventory
<1>6. CASE Accumulate
  BY <1>6 DEF Accumulate
<1>7. CASE Alarm
  BY <1>7 DEF Alarm
<1> QED
  BY <1>1, <1>2, <1>3, <1>4, <1>5, <1>6, <1>7 DEF CloseCallback, StopCallback

(* No step breaks the invariant. *)
THEOREM StepInv == IInv /\ [Next]_vars => IInv'
<1> SUFFICES ASSUME IInv, [Next]_vars PROVE IInv'
  OBVIOUS
<1>1. CASE CountEnds
  BY <1>1 DEF CountEnds, IInv, TypeOK, DoorOfCommand, OpenedAfterClosing,
              PatientInventoryKeepsRunning, Closing, CloseRuns, timers, Counted
<1>2. CASE UNCHANGED vars
  BY <1>2 DEF vars, timers, history, IInv, TypeOK, DoorOfCommand, OpenedAfterClosing,
              PatientInventoryKeepsRunning, Closing, CloseRuns
<1> QED
  BY <1>1, <1>2, CommandInv, CommandStepInv, TimerInv DEF Next

THEOREM Invariant == Spec => []IInv
BY InitInv, StepInv, PTL DEF Spec

(* The types, and a restart of the close timer is left pending only while  *)
(* its callback runs.                                                      *)
THEOREM HandlerTypeCorrect == Spec => []TypeOK
<1>1. IInv => TypeOK
  BY DEF IInv
<1> QED
  BY Invariant, <1>1, PTL

(* The inventory of an open door runs on if no closing was in progress     *)
(* when the door was opened and no alarm has come since, whatever the      *)
(* callbacks and counted inventories in between.                           *)
THEOREM PatientDoorsAreWatched == Spec => []PatientInventoryKeepsRunning
<1>1. IInv => PatientInventoryKeepsRunning
  BY DEF IInv
<1> QED
  BY Invariant, <1>1, PTL
=============================================================================
