-------------------------------- MODULE Worker --------------------------------
(***************************************************************************)
(* WsClientWorker, WsClient, SignalDispatcher and main: the life of the    *)
(* driver's process, and driver.sh that starts it again.                   *)
(*                                                                         *)
(* The main thread builds the controllers and the client and then sleeps   *)
(* in SignalDispatcher's constructor.  A signal interrupts it: the handler *)
(* notifies it and destroys the client, whose deleter joins the client's   *)
(* thread.  That thread runs the callbacks of the connection; when the     *)
(* connection fails or closes it destroys the controllers and then, by     *)
(* stop(), its own client: a thread cannot join itself, so the process     *)
(* aborts, and driver.sh starts the next.                                  *)
(*                                                                         *)
(* Of the controllers only what matters here is kept: an inventory thread  *)
(* and a timer of CommandHandler that use the client and the RFID          *)
(* controller.  A null or destroyed object in use aborts the process.      *)
(***************************************************************************)
EXTENDS Naturals

CONSTANTS MaxSignals,   \* bound: signals sent to the process
          MaxCommands   \* bound: commands of the server

ASSUME BoundsAssumption == MaxSignals \in Nat /\ MaxCommands \in Nat

VARIABLES main,      \* the main thread's next step
          sig,       \* the signal handler's on the main thread, "none" outside
          net,       \* the client thread's
          client,    \* _client is set
          link,      \* the connection: "none", "opening", "open", "failed",
                     \*   "lost"
          rfid,      \* _rfid_controller: "set", "closing" (null, its destructor
                     \*   runs), "null", "dangling" (destroyed, not null)
          inv,       \* inventory thread: "off", "loop", "count"
          timer,     \* a timer of CommandHandler: "off", "armed", "use"
          ret,       \* _return_value
          status,    \* main's ret
          exit,      \* exit status of the process, "none" while it lives
          script,    \* driver.sh: "wait", "again", "done"
          why,       \* what may have asked this process to end (history)
          quiet,     \* the signal found the driver idle, and nothing came since
                     \*   (history)
          signals, commands    \* so far

work == <<inv, timer>>
counters == <<signals, commands>>
history == <<why, quiet>>
objects == <<client, link, rfid>>
results == <<ret, status>>
rest == <<results, exit, script, history, counters>>
workerVars == <<main, sig, net, objects, work, rest>>

WorkerInit ==
    /\ main = "construct"
    /\ sig = "none"
    /\ net = "none"
    /\ client = FALSE
    /\ link = "none"
    /\ rfid = "null"
    /\ inv = "off" /\ timer = "off"
    /\ ret = "0" /\ status = "0"
    /\ exit = "none"
    /\ script = "wait"
    /\ why = {}
    /\ quiet = FALSE
    /\ signals = 0 /\ commands = 0

Alive == exit = "none"
MainRuns == Alive /\ sig = "none"
Abort == exit' = "abort"

(* send(): the client it uses may be gone. *)
Send == IF client THEN UNCHANGED exit ELSE Abort
-----------------------------------------------------------------------------
(* The controllers; an exception ends main with status 0. *)
Construct == /\ MainRuns /\ main = "construct"
             /\ \/ main' = "start" /\ rfid' = "set" /\ UNCHANGED why
                \/ main' = "exit" /\ why' = why \cup {"exception"} /\ UNCHANGED rfid
             /\ UNCHANGED <<sig, net, client, link, work, results, exit, script, quiet,
                            counters>>

(* Mutant: a start that fails leaves _return_value as it was. *)
StartUnreported ==
    /\ MainRuns /\ main = "start"
    /\ \/ client' = TRUE /\ net' = "idle" /\ main' = "connect"
       \/ main' = "result" /\ UNCHANGED <<client, net>>
    /\ UNCHANGED <<sig, link, rfid, work, rest>>

(* startClient: init(), if the controllers could be initialised. *)
StartClient ==
    /\ MainRuns /\ main = "start"
    /\ \/ client' = TRUE /\ net' = "idle" /\ main' = "connect" /\ UNCHANGED ret
       \/ ret' = "2" /\ main' = "result" /\ UNCHANGED <<client, net>>
    /\ UNCHANGED <<sig, link, rfid, work, status, exit, script, history, counters>>

(* A connection that cannot even be made is null, and used. *)
Connect == /\ MainRuns /\ main = "connect"
           /\ \/ link' = "opening" /\ main' = "register" /\ UNCHANGED exit
              \/ Abort /\ UNCHANGED <<link, main>>
           /\ UNCHANGED <<sig, net, client, rfid, work, results, script, history,
                          counters>>

(* SignalDispatcher's constructor. *)
Register == /\ MainRuns /\ main = "register"
            /\ main' = "registered"
            /\ UNCHANGED <<sig, net, objects, work, rest>>

WaitForSignal == /\ MainRuns /\ main = "registered"
                 /\ main' = "wait"
                 /\ UNCHANGED <<sig, net, objects, work, rest>>

WakeUp == /\ MainRuns /\ main = "woken"
          /\ main' = "returned"
          /\ UNCHANGED <<sig, net, objects, work, rest>>

(* The wait has no condition to test again. *)
WakeUpForNothing == /\ MainRuns /\ main = "wait"
                    /\ main' = "returned"
                    /\ why' = why \cup {"spurious wakeup"}
                    /\ quiet' = FALSE
                    /\ UNCHANGED <<sig, net, objects, work, results, exit, script, counters>>

(* ~SignalDispatcher raises SIGTERM, at once handled. *)
DestroyDispatcher == /\ MainRuns /\ main = "returned"
                     /\ sig' = "notify"
                     /\ main' = "result"
                     /\ UNCHANGED <<net, objects, work, rest>>

(* startClient has returned. *)
GetReturnValue == /\ MainRuns /\ main = "result"
                  /\ status' = ret
                  /\ main' = "destroyRfid"
                  /\ UNCHANGED <<sig, net, objects, work, ret, exit, script, history,
                                 counters>>

(* ~RfidController joins the inventory thread: the pointer is not reset. *)
DestroyRfid == /\ MainRuns /\ main = "destroyRfid"
               /\ inv # "count"
               /\ inv' = "off"
               /\ rfid' = IF rfid = "null" THEN "null" ELSE "dangling"
               /\ main' = "destroyHandler"
               /\ UNCHANGED <<sig, net, client, link, timer, rest>>

(* ~CommandHandler joins its timers' callbacks. *)
DestroyHandler == /\ MainRuns /\ main = "destroyHandler"
                  /\ timer # "use"
                  /\ timer' = "off"
                  /\ main' = "exit"
                  /\ UNCHANGED <<sig, net, objects, inv, rest>>

MainStep == \/ Construct \/ StartClient \/ Connect \/ Register \/ WaitForSignal
            \/ WakeUp \/ DestroyDispatcher \/ GetReturnValue \/ DestroyRfid
            \/ DestroyHandler

(* The end of main: the log is stopped before this (module Process). *)
Exit == /\ MainRuns /\ main = "exit"
        /\ exit' = status
        /\ UNCHANGED <<main, sig, net, objects, work, results, script, history,
                       counters>>
-----------------------------------------------------------------------------
Idle == /\ main = "wait" /\ link = "open" /\ net = "idle"
        /\ inv = "off" /\ timer = "off"

(* Mutant: the handler is registered after the wait. *)
RegisteredLate == link # "none" /\ main \notin {"register", "registered", "wait"}

(* SignalDispatcher's constructor has registered the handler. *)
Registered == link # "none" /\ main # "register"

(* SIGINT or SIGTERM from outside, not while an earlier one is handled.    *)
(* Unregistered, it kills.                                                 *)
Signal == /\ MainRuns /\ signals < MaxSignals
          /\ signals' = signals + 1
          /\ why' = why \cup {"signal"}
          /\ quiet' = (signals = 0 /\ Idle)
          /\ IF Registered THEN sig' = "notify" /\ UNCHANGED exit
                           ELSE exit' = "killed" /\ UNCHANGED sig
          /\ UNCHANGED <<main, net, objects, work, results, script, commands>>

SigNotify == /\ Alive /\ sig = "notify"
             /\ main' = IF main = "wait" THEN "woken" ELSE main
             /\ sig' = "test"
             /\ UNCHANGED <<net, objects, work, rest>>

(* stop(), on the main thread and, further down, on the client's: the test *)
(* of _client and its reset are two steps, and two resets at once corrupt  *)
(* the pointer.                                                            *)
SigTest == /\ Alive /\ sig = "test"
           /\ sig' = IF client THEN "reset" ELSE "log"
           /\ UNCHANGED <<main, net, objects, work, rest>>

SigReset == /\ Alive /\ sig = "reset"
            /\ client' = FALSE
            /\ sig' = IF client THEN "join" ELSE "log"
            /\ \/ UNCHANGED exit
               \/ net = "reset" /\ Abort
            /\ UNCHANGED <<main, net, link, rfid, work, results, script, history,
                           counters>>

(* WsClient's deleter stops the endpoint, whose thread ends between two    *)
(* callbacks, and joins it.                                                *)
SigJoin == /\ Alive /\ sig = "join" /\ net = "idle"
           /\ net' = "ended"
           /\ sig' = "log"
           /\ UNCHANGED <<main, objects, work, rest>>

(* The handler's last message (module Process). *)
SigReturns == /\ Alive /\ sig = "log"
              /\ sig' = "none"
              /\ UNCHANGED <<main, net, objects, work, rest>>

SigStep == SigNotify \/ SigTest \/ SigReset \/ SigJoin
-----------------------------------------------------------------------------
Opened == /\ Alive /\ net = "idle" /\ link = "opening"
          /\ link' = "open"
          /\ net' = "greet"
          /\ UNCHANGED <<main, sig, client, rfid, work, rest>>

Greet == /\ Alive /\ net = "greet"
         /\ Send
         /\ net' = "idle"
         /\ UNCHANGED <<main, sig, objects, work, results, script, history, counters>>

(* A command of the server: it answers, starts an inventory or arms a timer. *)
Command == /\ Alive /\ net = "idle" /\ link = "open" /\ commands < MaxCommands
           /\ commands' = commands + 1
           /\ quiet' = FALSE
           /\ \/ Send /\ UNCHANGED work
              \/ inv = "off" /\ inv' \in {"loop", "count"} /\ UNCHANGED <<timer,
                                                                          exit>>
              \/ timer = "off" /\ timer' = "armed" /\ UNCHANGED <<inv, exit>>
           /\ UNCHANGED <<main, sig, net, objects, results, script, why, signals>>

(* onError (from "opening"), onClose.  The keepalive timer's callback may  *)
(* find its own pointer null.                                              *)
Lost == /\ Alive /\ net = "idle" /\ link \in {"opening", "open"}
        /\ link' = IF link = "opening" THEN "failed" ELSE "lost"
        /\ net' = "resetRfid"
        /\ quiet' = FALSE
        /\ UNCHANGED exit \/ Abort
        /\ UNCHANGED <<main, sig, client, rfid, work, results, script, why, counters>>

ResetRfid == /\ Alive /\ net = "resetRfid"
             /\ rfid' = IF rfid = "set" THEN "closing" ELSE rfid
             /\ net' = "joinInventory"
             /\ UNCHANGED <<main, sig, client, link, work, rest>>

(* The inventory is joined, the controller freed; main's dispatcher is     *)
(* null, unless main has left its constructor.  Only onError then sets the *)
(* status.                                                                 *)
JoinInventory == /\ Alive /\ net = "joinInventory" /\ inv # "count"
                 /\ inv' = "off"
                 /\ rfid' = IF rfid = "closing" THEN "null" ELSE rfid
                 /\ ret' = IF link = "failed" THEN "3" ELSE ret
                 /\ net' = "test"
                 /\ IF main \in {"construct", "start", "connect", "register",
                                 "registered", "wait", "woken"}
                      THEN UNCHANGED exit
                      ELSE Abort
                 /\ UNCHANGED <<main, sig, client, link, timer, status, script,
                                history, counters>>

NetTest == /\ Alive /\ net = "test"
           /\ net' = IF client THEN "reset" ELSE "idle"
           /\ UNCHANGED <<main, sig, objects, work, rest>>

(* Mutant: the client's thread is detached where it would join itself. *)
NetDetaches == /\ Alive /\ net = "reset"
               /\ client' = FALSE
               /\ net' = "ended"
               /\ UNCHANGED <<main, sig, link, rfid, work, rest>>

(* The deleter joins the thread it runs on: std::terminate. *)
NetReset == /\ Alive /\ net = "reset"
            /\ IF client THEN Abort /\ UNCHANGED net
                         ELSE net' = "idle" /\ UNCHANGED exit
            /\ UNCHANGED <<main, sig, objects, work, results, script, history,
                           counters>>

NetStep == Greet \/ ResetRfid \/ JoinInventory \/ NetTest \/ NetReset
-----------------------------------------------------------------------------
(* A counted inventory reports and ends. *)
InventoryReports == /\ Alive /\ inv = "count"
                    /\ Send
                    /\ inv' = "off"
                    /\ UNCHANGED <<main, sig, net, objects, timer, results, script,
                                   history, counters>>

TimerFires == /\ Alive /\ timer = "armed"
              /\ timer' = IF rfid \in {"set", "dangling"} THEN "use" ELSE "off"
              /\ UNCHANGED <<main, sig, net, objects, inv, rest>>

(* The callback starts an inventory, or stops one and reports. *)
TimerUses == /\ Alive /\ timer = "use"
             /\ timer' = "off"
             /\ IF rfid \in {"set", "closing"}
                  THEN \/ Send /\ inv' = IF inv = "loop" THEN "off" ELSE inv
                       \/ inv = "off" /\ inv' = "loop" /\ UNCHANGED exit
                  ELSE Abort /\ UNCHANGED inv
             /\ UNCHANGED <<main, sig, net, objects, results, script, history,
                            counters>>

WorkStep == InventoryReports \/ TimerFires \/ TimerUses
-----------------------------------------------------------------------------
(* driver.sh runs the driver until it returns 0.  Nothing outlives the     *)
(* process: the next one begins as this one did.                           *)
ScriptSees == /\ ~Alive /\ script = "wait"
              /\ script' = IF exit = "0" THEN "done" ELSE "again"
              /\ UNCHANGED <<main, sig, net, objects, work, results, exit, history,
                             counters>>

WorkerNext == \/ MainStep \/ WakeUpForNothing \/ Exit \/ SigStep \/ SigReturns \/ NetStep
              \/ WorkStep \/ Signal \/ Opened \/ Command \/ Lost
              \/ ScriptSees

WorkerSpec == WorkerInit /\ [][WorkerNext]_workerVars
-----------------------------------------------------------------------------
WorkerTypeOK ==
    /\ main \in {"construct", "start", "connect", "register", "registered", "wait",
                 "woken", "returned", "result", "destroyRfid", "destroyHandler", "exit"}
    /\ sig \in {"none", "notify", "test", "reset", "join", "log"}
    /\ net \in {"none", "idle", "greet", "resetRfid", "joinInventory", "test",
                "reset", "ended"}
    /\ client \in BOOLEAN
    /\ link \in {"none", "opening", "open", "failed", "lost"}
    /\ rfid \in {"set", "closing", "null", "dangling"}
    /\ inv \in {"off", "loop", "count"}
    /\ timer \in {"off", "armed", "use"}
    /\ {ret, status} \subseteq {"0", "2", "3"}
    /\ exit \in {"none", "0", "2", "3", "killed", "abort"}
    /\ script \in {"wait", "again", "done"}
    /\ why \subseteq {"signal", "exception", "spurious wakeup"}
    /\ quiet \in BOOLEAN
    /\ signals \in 0..MaxSignals /\ commands \in 0..MaxCommands

(* driver.sh stops for good only when the driver returns 0, and that takes *)
(* a signal or one of two accidents: a lost connection or a start that     *)
(* fails never ends that way.                                              *)
ZeroHasAReason == exit = "0" => why # {}
=============================================================================
