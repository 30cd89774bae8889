--------------------------- MODULE CommandHandler ---------------------------
(***************************************************************************)
(* CommandHandler: what the server's commands do to the inventory and to   *)
(* the two timers that follow the closing of a door.  What they do to the  *)
(* doors is GpioController's, and module Cooler's for the two together.    *)
(*                                                                         *)
(* Opening a door starts an inventory that runs while the door is open.    *)
(* Closing it stops that inventory; _close_inventory_timer then starts a   *)
(* result inventory, whose end and report _stop_inventory_timer brings.    *)
(* The commands run on the websocket thread, each timer's callback on its  *)
(* own thread, the obstacle alarm on the GPIO interrupt thread.            *)
(*                                                                         *)
(* The inventory is the abstract one of module Inventory and a timer the   *)
(* abstract one of module OneShot: destroying it waits for its callback.   *)
(***************************************************************************)
EXTENDS Naturals

CONSTANTS Requests,     \* counted inventories the server asks for: "count"
                        \*   (getContent), "test" (findBrokenLabels)
          MaxCommands   \* bound: commands and alarms

Counted == {"count", "test"}

ASSUME RequestsAssumption == Requests \subseteq Counted
ASSUME MaxCommandsAssumption == MaxCommands \in Nat

VARIABLES mode,          \* inventory: "off", "loop", "count", "test"
          ws,            \* what the websocket thread does next
          closeTimer,    \* _close_inventory_timer: "none", "armed", the step of
                         \*   its callback, or "spent"
          closeRestart,  \* it was restarted while its callback ran
          stopTimer,     \* _stop_inventory_timer, likewise
          door,          \* the last door command, or "test" if a test has begun
                         \*   since (history)
          reported,      \* the content was sent since then (history)
          patient,       \* no closing was in progress when a command last opened
                         \*   a door (history)
          alarmed,       \* an alarm has restarted the close timer since then
                         \*   (history)
          commands       \* commands and alarms so far

timers == <<closeTimer, closeRestart, stopTimer>>
history == <<door, reported, patient, alarmed>>
vars == <<mode, ws, timers, history, commands>>

CloseRuns == closeTimer \in {"startInventory", "newStopTimer"}
StopRuns == stopTimer \in {"stopInventory", "accumulate"}
Closing == closeTimer \notin {"none", "spent"} \/ stopTimer \notin {"none", "spent"}

Init == /\ mode = "off"
        /\ ws = "idle"
        /\ closeTimer = "none"
        /\ closeRestart = FALSE
        /\ stopTimer = "none"
        /\ door = "none"
        /\ reported = FALSE
        /\ patient = TRUE
        /\ alarmed = FALSE
        /\ commands = 0
-----------------------------------------------------------------------------
(* Mutant: startInventory refuses while a counted inventory runs. *)
StartIfIdle == mode' = IF mode \in Counted THEN mode ELSE "loop"

(* RfidController's calls: each first waits for the end of a counted       *)
(* inventory (it is joined), and stops an open-ended one.                  *)
StartInventory == mode \notin Counted /\ mode' = "loop"
StopInventory == mode \notin Counted /\ mode' = "off"

Command == ws = "idle" /\ commands < MaxCommands /\ commands' = commands + 1

(* openLeftDoor, openRightDoor; the door is GpioController's. *)
OpenDoor == /\ Command
            /\ patient' = ~Closing
            /\ alarmed' = FALSE
            /\ ws' = "resetStopTimer"
            /\ door' = "open"
            /\ reported' = FALSE
            /\ UNCHANGED <<mode, timers>>

ResetStopTimer == /\ ws = "resetStopTimer"
                  /\ ~StopRuns
                  /\ stopTimer' = "none"
                  /\ ws' = "startInventory"
                  /\ UNCHANGED <<mode, closeTimer, closeRestart, history, commands>>

StartByOpen == /\ ws = "startInventory"
               /\ StartInventory
               /\ ws' = "idle"
               /\ UNCHANGED <<timers, history, commands>>

CloseDoor == /\ Command
             /\ ws' = "stopInventory"
             /\ door' = "close"
             /\ reported' = FALSE
             /\ UNCHANGED <<mode, timers, patient, alarmed>>

StopByClose == /\ ws = "stopInventory"
               /\ StopInventory
               /\ ws' = "newCloseTimer"
               /\ UNCHANGED <<timers, history, commands>>

(* The new timer takes the place of the old one, whose callback is joined. *)
NewCloseTimer == /\ ws = "newCloseTimer"
                 /\ ~CloseRuns
                 /\ closeTimer' = "armed"
                 /\ closeRestart' = FALSE
                 /\ ws' = "idle"
                 /\ UNCHANGED <<mode, stopTimer, history, commands>>

(* getContent ("count") and findBrokenLabels ("test") are refused while an *)
(* inventory runs.                                                         *)
CountedInventory(c) == /\ Command
                       /\ mode' = IF mode = "off" THEN c ELSE mode
                       /\ door' = IF mode' = "test" THEN "test" ELSE door
                       /\ UNCHANGED <<ws, timers, reported, patient, alarmed>>

(* A counted inventory ends by itself; getContent's reports the content.   *)
CountEnds == /\ mode \in Counted
             /\ mode' = "off"
             /\ reported' = (reported \/ mode = "count")
             /\ UNCHANGED <<ws, timers, door, patient, alarmed, commands>>
-----------------------------------------------------------------------------
CloseFires == /\ closeTimer = "armed"
              /\ closeTimer' = "startInventory"
              /\ UNCHANGED <<mode, ws, closeRestart, stopTimer, history, commands>>

StartByTimer == /\ closeTimer = "startInventory"
                /\ StartInventory
                /\ closeTimer' = "newStopTimer"
                /\ UNCHANGED <<ws, closeRestart, stopTimer, history, commands>>

(* Mutant: the stop timer of an earlier closing is taken for a new one. *)
KeepStopTimer ==
    /\ closeTimer = "newStopTimer"
    /\ stopTimer' = IF stopTimer = "none" THEN "armed" ELSE stopTimer
    /\ closeTimer' = IF closeRestart THEN "armed" ELSE "spent"
    /\ closeRestart' = FALSE
    /\ UNCHANGED <<mode, ws, history, commands>>

NewStopTimer == /\ closeTimer = "newStopTimer"
                /\ ~StopRuns
                /\ stopTimer' = "armed"
                /\ closeTimer' = IF closeRestart THEN "armed" ELSE "spent"
                /\ closeRestart' = FALSE
                /\ UNCHANGED <<mode, ws, history, commands>>

StopFires == /\ stopTimer = "armed"
             /\ stopTimer' = "stopInventory"
             /\ UNCHANGED <<mode, ws, closeTimer, closeRestart, history, commands>>

(* Mutant: the stop timer's callback also ends the close timer. *)
StopBothTimers == /\ stopTimer = "stopInventory"
                  /\ StopInventory
                  /\ ~CloseRuns
                  /\ closeTimer' = "none"
                  /\ closeRestart' = FALSE
                  /\ stopTimer' = "accumulate"
                  /\ UNCHANGED <<ws, history, commands>>

StopByTimer == /\ stopTimer = "stopInventory"
               /\ StopInventory
               /\ stopTimer' = "accumulate"
               /\ UNCHANGED <<ws, closeTimer, closeRestart, history, commands>>

(* accumulateBuffer sends nothing if another inventory has begun. *)
Accumulate == /\ stopTimer = "accumulate"
              /\ stopTimer' = "spent"
              /\ reported' = (reported \/ mode = "off")
              /\ UNCHANGED <<mode, ws, closeTimer, closeRestart, door, patient, alarmed, commands>>

(* GpioController::onAlarm: restartStopInventoryTimeout.  A close timer    *)
(* that is spent is armed again, whether a closing is in progress or not.  *)
Alarm == /\ commands < MaxCommands
         /\ commands' = commands + 1
         /\ closeTimer # "none"
         /\ alarmed' = TRUE
         /\ closeTimer' = IF CloseRuns THEN closeTimer ELSE "armed"
         /\ closeRestart' = CloseRuns
         /\ UNCHANGED <<mode, ws, stopTimer, door, reported, patient>>

CommandStep == ResetStopTimer \/ StartByOpen \/ StopByClose \/ NewCloseTimer
CloseCallback == CloseFires \/ StartByTimer \/ NewStopTimer
StopCallback == StopFires \/ StopByTimer \/ Accumulate

Next == \/ OpenDoor \/ CloseDoor
        \/ \E c \in Requests : CountedInventory(c)
        \/ Alarm
        \/ CommandStep \/ CloseCallback \/ StopCallback \/ CountEnds

Spec == Init /\ [][Next]_vars

(* Threads run, timers expire and a counted inventory ends; a thread that  *)
(* waits for the end of one gets on, though another may begin at once.     *)
FairSpec == /\ Spec
            /\ SF_vars(CommandStep) /\ SF_vars(CloseCallback) /\ SF_vars(StopCallback)
            /\ WF_vars(CountEnds)
-----------------------------------------------------------------------------
(* The types; and a restart is left pending only by a callback that runs.  *)
TypeOK == /\ mode \in {"off", "loop"} \cup Counted
          /\ ws \in {"idle", "resetStopTimer", "startInventory", "stopInventory",
                     "newCloseTimer"}
          /\ closeTimer \in {"none", "armed", "startInventory", "newStopTimer", "spent"}
          /\ closeRestart \in BOOLEAN
          /\ closeRestart => CloseRuns
          /\ stopTimer \in {"none", "armed", "stopInventory", "accumulate", "spent"}
          /\ door \in {"none", "open", "close", "test"}
          /\ reported \in BOOLEAN /\ patient \in BOOLEAN /\ alarmed \in BOOLEAN
          /\ commands \in 0..MaxCommands

(* Once a command has opened a door its inventory runs on, if no closing   *)
(* was in progress then and no alarm has come since: neither a counted     *)
(* inventory nor a callback still on its way stops it.  Without either     *)
(* condition it does not hold: an alarm arms the spent close timer again,  *)
(* which then ends the inventory of an open door; and for a door opened in *)
(* a closing see OpenInventoryKeepsRunning.                                *)
PatientInventoryKeepsRunning ==
    patient /\ ~alarmed /\ ws = "idle" /\ door = "open" => mode = "loop"

(* "Stop the timer that ends the inventory on the closing of the door":    *)
(* what is left of an earlier closing does not stop the inventory of a     *)
(* door that is opened again.                                              *)
OpenInventoryKeepsRunning == ws = "idle" /\ door = "open" => mode = "loop"

(* No command waits for ever on a timer's callback or on an inventory.     *)
CommandReturns == ws # "idle" ~> ws = "idle"

(* A closing is answered: the server gets the content of the closed cooler *)
(* unless a door is commanded open again or a test of the labels begins    *)
(* (accumulateBuffer, called then, sends nothing).                         *)
ClosingIsReported == door = "close" ~> (reported \/ door # "close")
=============================================================================
