------------------------------- MODULE Process --------------------------------
(***************************************************************************)
(* The driver's process: Worker's threads print through LogQueue, a signal *)
(* handler prints on the thread it interrupts, and the log is stopped by   *)
(* the static destructors, after main and before the exit status.          *)
(***************************************************************************)
EXTENDS Worker, LogQueue

ThreadsAssumption == Writers = {"main", "net", "handler"}
ASSUME ThreadsAssumption
ASSUME PrintsAssumption == MaxPrints > MaxSignals + 1

vars == <<workerVars, logVars>>

Init == WorkerInit /\ LogInit
-----------------------------------------------------------------------------
(* Messages printed at any point, the handler's own (one for each signal,  *)
(* the one ~SignalDispatcher raises included) left aside.                  *)
Chatter == prints < MaxPrints - MaxSignals - 1

MainPrints == /\ MainRuns /\ stopping = "no" /\ main # "wait"
              /\ (Chatter /\ Lock("main")) \/ PrintMessage("main")
              /\ UNCHANGED workerVars

NetPrints == /\ Alive /\ net \notin {"none", "idle", "ended"}
             /\ (Chatter /\ Lock("net")) \/ PrintMessage("net")
             /\ UNCHANGED workerVars

(* The handler's message waits for the mutex, for ever if it interrupted   *)
(* the main thread that holds it.                                          *)
HandlerPrints == /\ Alive /\ sig = "log"
                 /\ \/ Lock("handler") /\ UNCHANGED workerVars
                    \/ PrintMessage("handler") /\ SigReturns

MainGoesOn == mutex # "main" /\ MainStep /\ UNCHANGED logVars
MainWakesUp == WakeUpForNothing /\ UNCHANGED logVars
HandlerStep == SigStep /\ UNCHANGED logVars
NetGoesOn == mutex # "net" /\ NetStep /\ UNCHANGED logVars
OtherThreads == WorkStep /\ UNCHANGED logVars
LogStep == Alive /\ ThreadStep /\ UNCHANGED workerVars

(* ~Log, and the end. *)
StopLog == /\ MainRuns /\ main = "exit" /\ mutex # "main"
           /\ StopLowers \/ StopStep
           /\ UNCHANGED workerVars

ProcessEnds == stopping = "done" /\ Exit /\ UNCHANGED logVars

ScriptGoesOn == ScriptSees /\ UNCHANGED logVars
Environment == /\ mutex # "net"
               /\ Opened \/ Command \/ Lost
               /\ UNCHANGED logVars
SignalComes == Signal /\ UNCHANGED logVars

Next == \/ MainPrints \/ NetPrints \/ HandlerPrints
        \/ MainGoesOn \/ MainWakesUp \/ HandlerStep \/ NetGoesOn \/ OtherThreads
        \/ LogStep \/ StopLog \/ ProcessEnds \/ ScriptGoesOn
        \/ Environment \/ SignalComes

Spec == Init /\ [][Next]_vars

(* Every thread runs; the mutex is not kept from a thread for ever.        *)
Fairness == /\ WF_vars(MainGoesOn) /\ WF_vars(HandlerStep) /\ WF_vars(NetGoesOn)
            /\ WF_vars(OtherThreads) /\ SF_vars(LogStep)
            /\ WF_vars(StopLog) /\ WF_vars(ProcessEnds) /\ WF_vars(ScriptGoesOn)
            /\ SF_vars(HandlerPrints)
            /\ SF_vars(MainPrints /\ PrintMessage("main"))
            /\ WF_vars(NetPrints /\ PrintMessage("net"))

FairSpec == Spec /\ Fairness
-----------------------------------------------------------------------------
TypeOK == WorkerTypeOK /\ LogTypeOK

(* A process that ended by itself has written every message it accepted.   *)
EndedIsWritten == exit \in {"0", "2", "3"} => queue = <<>> /\ thread = "ended"

(* A connection that fails or closes is tried again, by a new process: the *)
(* driver ends, and not with 0, unless it was asked to end meanwhile.      *)
LostConnectionIsRetried ==
    link \in {"failed", "lost"} /\ why = {} ~> script = "again" \/ why # {}

(* A signal that finds the main thread in its wait ends the process,       *)
(* unless the log's thread misses its stop or a second signal comes.       *)
SignalEndsProcess ==
    main = "wait" /\ sig = "notify" ~> ~Alive \/ missed \/ signals > 1

(* One that finds the driver idle ends it with 0: nobody uses the client   *)
(* or the controllers that the signal destroys.                            *)
QuietStopIsClean == quiet => exit \in {"none", "0"}
=============================================================================
