----------------------------- MODULE Process_proofs -----------------------------
(***************************************************************************)
(* Proofs about Process, for any number of signals and commands and any    *)
(* length of the log's queue: with what status the process may end, and    *)
(* that none of its messages is then left behind.                          *)
(***************************************************************************)
EXTENDS Process, SequenceTheorems, TLAPS

(* Main leaves its wait only for a reason, and ends without one only when  *)
(* the start has failed, which has set the status.                         *)
ReasonIsKept ==
    /\ sig # "none" \/ main \in {"woken", "returned"} => why # {}
    /\ main = "result" => why # {} \/ ret # "0"
    /\ main \in {"destroyRfid", "destroyHandler", "exit"} => why # {} \/ status # "0"

(* Only a failed start and a failed connection set the status, which main  *)
(* reads when startClient has returned.                                    *)
StatusIsClean ==
    /\ main \in {"construct", "start", "connect"} => link = "none" /\ ret = "0"
    /\ link \in {"opening", "open"} => ret = "0"
    /\ main \in {"construct", "start", "connect", "register", "registered", "wait",
                 "woken", "returned", "result"} => status = "0"

(* After a signal that has found the driver idle nothing uses the client.  *)
NothingInUse == quiet => /\ link = "open" /\ net \in {"idle", "ended"}
                         /\ inv = "off" /\ timer = "off"
                         /\ signals # 0 /\ status = "0"

WorkerInv == /\ signals \in Nat /\ ReasonIsKept /\ StatusIsClean /\ NothingInUse
             /\ ZeroHasAReason /\ QuietStopIsClean

(* The log's thread ends with an empty queue, to which nothing is added    *)
(* once the log is stopped.                                                *)
LogIsEmptied == /\ stopping # "no" => ~isRun
                /\ thread = "ended" => queue = <<>> /\ ~isRun
                /\ stopping = "done" => thread = "ended"

(* main ends after its log. *)
LogEndsFirst == exit \in {"0", "2", "3"} => stopping = "done"

IInv == WorkerInv /\ LogIsEmptied /\ LogEndsFirst
-----------------------------------------------------------------------------
(* At the start no status is set and no signal has come. *)
THEOREM InitInv == Init => IInv
<1> SUFFICES ASSUME Init PROVE IInv
  OBVIOUS
<1> USE DEF Init, WorkerInit, LogInit
<1>1. ReasonIsKept /\ StatusIsClean /\ NothingInUse /\ ZeroHasAReason /\ QuietStopIsClean
  BY DEF ReasonIsKept, StatusIsClean, NothingInUse, ZeroHasAReason, QuietStopIsClean
<1>2. LogIsEmptied /\ LogEndsFirst
  BY DEF LogIsEmptied, LogEndsFirst
<1> QED
  BY <1>1, <1>2 DEF IInv, WorkerInv

(* The main thread. *)
LEMMA MainInv == ASSUME WorkerInv, MainStep \/ WakeUpForNothing \/ Exit PROVE WorkerInv'
<1> USE DEF WorkerInv, ReasonIsKept, StatusIsClean, NothingInUse,
            ZeroHasAReason, QuietStopIsClean, MainRuns, Alive, Abort, work, counters,
            history, objects, results, rest
<1>1. CASE Construct
  BY <1>1 DEF Construct
<1>2. CASE StartClient
  BY <1>2 DEF StartClient
<1>3. CASE Connect
  BY <1>3 DEF Connect
<1>4. CASE Register \/ WaitForSignal \/ WakeUp
  BY <1>4 DEF Register, WaitForSignal, WakeUp
<1>5. CASE DestroyDispatcher
  BY <1>5 DEF DestroyDispatcher
<1>6. CASE GetReturnValue \/ DestroyRfid \/ DestroyHandler
  BY <1>6 DEF GetReturnValue, DestroyRfid, DestroyHandler
<1>7. CASE WakeUpForNothing
  BY <1>7 DEF WakeUpForNothing
<1>8. CASE Exit
  BY <1>8 DEF Exit
<1> QED
  BY <1>1, <1>2, <1>3, <1>4, <1>5, <1>6, <1>7, <1>8 DEF MainStep

(* A signal and its handler. *)
LEMMA SignalInv == ASSUME WorkerInv, Signal \/ SigStep \/ SigReturns PROVE WorkerInv'
<1> USE DEF WorkerInv, ReasonIsKept, StatusIsClean, NothingInUse,
            ZeroHasAReason, QuietStopIsClean, MainRuns, Alive, Abort, work, counters,
            history, objects, results, rest
<1>1. CASE Signal
  <2>1. signals' \in Nat /\ signals' # 0 /\ why' # {}
    BY <1>1 DEF Signal
  <2>2. quiet' => quiet' /\ ~quiet /\ Idle
    BY <1>1 DEF Signal
  <2> QED
    BY <1>1, <2>1, <2>2 DEF Signal, Idle, Registered
<1>2. CASE SigNotify
  BY <1>2 DEF SigNotify
<1>3. CASE SigTest
  BY <1>3 DEF SigTest
<1>4. CASE SigReset
  BY <1>4 DEF SigReset
<1>5. CASE SigJoin
  BY <1>5 DEF SigJoin
<1>6. CASE SigReturns
  BY <1>6 DEF SigReturns
<1> QED
  BY <1>1, <1>2, <1>3, <1>4, <1>5, <1>6 DEF SigStep

(* The connection, the client's thread, the inventory and the timer; the   *)
(* script.                                                                 *)
LEMMA OtherInv ==
    ASSUME WorkerInv, Opened \/ Command \/ Lost \/ NetStep \/ WorkStep \/ ScriptSees
    PROVE  WorkerInv'
<1> USE DEF WorkerInv, ReasonIsKept, StatusIsClean, NothingInUse,
            ZeroHasAReason, QuietStopIsClean, Alive, Abort, Send, work, counters,
            history, objects, results, rest
<1>1. CASE Opened
  BY <1>1 DEF Opened
<1>2. CASE Command
  BY <1>2 DEF Command
<1>3. CASE Lost
  BY <1>3 DEF Lost
<1>4. CASE Greet \/ ResetRfid
  BY <1>4 DEF Greet, ResetRfid
<1>5. CASE JoinInventory
  BY <1>5 DEF JoinInventory
<1>6. CASE NetTest \/ NetReset
  BY <1>6 DEF NetTest, NetReset
<1>7. CASE InventoryReports \/ TimerFires
  BY <1>7 DEF InventoryReports, TimerFires
<1>8. CASE TimerUses
  BY <1>8 DEF TimerUses
<1>9. CASE ScriptSees
  BY <1>9 DEF ScriptSees
<1> QED
  BY <1>1, <1>2, <1>3, <1>4, <1>5, <1>6, <1>7, <1>8, <1>9 DEF NetStep, WorkStep

(* The life of the process goes on as Worker says. *)
LEMMA WorkerStep == ASSUME WorkerInv, [Next]_vars PROVE WorkerInv'
<1>1. CASE UNCHANGED workerVars
  BY <1>1 DEF WorkerInv, ReasonIsKept, StatusIsClean, NothingInUse,
     ZeroHasAReason, QuietStopIsClean, workerVars, work, counters, history, objects, results, rest
<1>2. CASE HandlerPrints
  BY <1>1, <1>2, SignalInv DEF HandlerPrints
<1>3. CASE MainGoesOn \/ MainWakesUp \/ ProcessEnds
  BY <1>3, MainInv DEF MainGoesOn, MainWakesUp, ProcessEnds
<1>4. CASE HandlerStep \/ SignalComes
  BY <1>4, SignalInv DEF HandlerStep, SignalComes
<1>5. CASE NetGoesOn \/ OtherThreads \/ ScriptGoesOn \/ Environment
  BY <1>5, OtherInv DEF NetGoesOn, OtherThreads, ScriptGoesOn, Environment
<1>6. CASE MainPrints \/ NetPrints \/ LogStep \/ StopLog
  BY <1>1, <1>6 DEF MainPrints, NetPrints, LogStep, StopLog
<1>7. CASE UNCHANGED vars
  BY <1>1, <1>7 DEF vars
<1> QED
  BY <1>2, <1>3, <1>4, <1>5, <1>6, <1>7 DEF Next

(* The log's own steps. *)
LEMMA LogStepInv ==
    ASSUME LogIsEmptied,
           \/ ThreadStep \/ StopLowers \/ StopStep
           \/ \E w \in {"main", "net", "handler"} : Lock(w) \/ PrintMessage(w)
    PROVE  LogIsEmptied' /\ (stopping = "done" => stopping' = "done")
<1> USE DEF LogIsEmptied, Notified
<1>1. CASE ThreadStep
  BY <1>1 DEF ThreadStep, ThreadLocks, Take, ThreadEnds, ThreadFindsNothing, ThreadWaits,
              ThreadWrites
<1>2. CASE StopLowers \/ StopStep
  BY <1>2 DEF StopLowers, StopStep, StopNotifies, StopJoins
<1>3. ASSUME NEW w \in {"main", "net", "handler"}, Lock(w) \/ PrintMessage(w)
      PROVE  LogIsEmptied' /\ stopping' = stopping
  BY <1>3 DEF Lock, PrintMessage
<1> QED
  BY <1>1, <1>2, <1>3

(* No step but the end of main, after the log's, gives main's status.      *)
LEMMA EndStep == ASSUME LogIsEmptied, LogEndsFirst, [Next]_vars
                 PROVE  LogIsEmptied' /\ LogEndsFirst'
<1> DEFINE LogActs == \/ ThreadStep \/ StopLowers \/ StopStep
                      \/ \E w \in {"main", "net", "handler"} :
                            Lock(w) \/ PrintMessage(w)
<1>1. LogActs \/ UNCHANGED logVars
  BY DEF Next, MainPrints, NetPrints, HandlerPrints, MainGoesOn, MainWakesUp, HandlerStep,
         NetGoesOn, OtherThreads, LogStep, StopLog, ProcessEnds, ScriptGoesOn, Environment,
         SignalComes, vars
<1>2. LogIsEmptied' /\ (stopping = "done" => stopping' = "done")
  BY <1>1, LogStepInv DEF LogIsEmptied, logVars
<1>3. exit' \in {"0", "2", "3"} => exit' = exit \/ ProcessEnds
  <2> USE DEF MainRuns, Alive, Abort, Send, work, counters, history, objects, results, rest
  <2>1. CASE MainGoesOn \/ MainWakesUp
    BY <2>1 DEF MainGoesOn, MainWakesUp, MainStep, Construct, StartClient, Connect,
       Register, WaitForSignal, WakeUp, DestroyDispatcher, GetReturnValue, DestroyRfid,
       DestroyHandler,
       WakeUpForNothing
  <2>2. CASE HandlerStep \/ SignalComes \/ HandlerPrints
    BY <2>2 DEF HandlerStep, SigStep, SigNotify, SigTest, SigReset, SigJoin, SignalComes,
       Signal, HandlerPrints, SigReturns, workerVars
  <2>3. CASE NetGoesOn \/ Environment
    BY <2>3 DEF NetGoesOn, NetStep, Greet, ResetRfid, JoinInventory, NetTest, NetReset,
       Environment, Opened, Command, Lost
  <2>4. CASE OtherThreads \/ ScriptGoesOn
    BY <2>4 DEF OtherThreads, WorkStep, InventoryReports, TimerFires, TimerUses,
       ScriptGoesOn, ScriptSees
  <2>5. CASE MainPrints \/ NetPrints \/ LogStep \/ StopLog \/ UNCHANGED vars
    BY <2>5 DEF MainPrints, NetPrints, LogStep, StopLog, vars, workerVars
  <2> QED
    BY <2>1, <2>2, <2>3, <2>4, <2>5 DEF Next
<1> QED
  BY <1>2, <1>3 DEF LogEndsFirst, ProcessEnds

(* No step breaks the invariant. *)
THEOREM StepInv == IInv /\ [Next]_vars => IInv'
BY WorkerStep, EndStep DEF IInv

THEOREM Invariant == Spec => []IInv
BY InitInv, StepInv, PTL DEF Spec
-----------------------------------------------------------------------------
(* The types of Worker's part, in three groups that no step mixes.         *)
ThreadTypes ==
    /\ main \in {"construct", "start", "connect", "register", "registered", "wait",
                 "woken", "returned", "result", "destroyRfid", "destroyHandler", "exit"}
    /\ sig \in {"none", "notify", "test", "reset", "join", "log"}
    /\ net \in {"none", "idle", "greet", "resetRfid", "joinInventory", "test",
                "reset", "ended"}

ObjectTypes == /\ client \in BOOLEAN
               /\ link \in {"none", "opening", "open", "failed", "lost"}
               /\ rfid \in {"set", "closing", "null", "dangling"}
               /\ inv \in {"off", "loop", "count"}
               /\ timer \in {"off", "armed", "use"}

ResultTypes == /\ ret \in {"0", "2", "3"} /\ status \in {"0", "2", "3"}
               /\ exit \in {"none", "0", "2", "3", "killed", "abort"}
               /\ script \in {"wait", "again", "done"}
               /\ why \subseteq {"signal", "exception", "spurious wakeup"}
               /\ quiet \in BOOLEAN
               /\ signals \in 0..MaxSignals /\ commands \in 0..MaxCommands

WorkerStepOrNone == WorkerNext \/ UNCHANGED workerVars

LEMMA StepOfWorker == ASSUME [Next]_vars PROVE WorkerStepOrNone
BY DEF WorkerStepOrNone, WorkerNext, Next, MainPrints, NetPrints, HandlerPrints, MainGoesOn,
       MainWakesUp, HandlerStep, NetGoesOn, OtherThreads, LogStep, StopLog, ProcessEnds,
       ScriptGoesOn, Environment, SignalComes, vars

LEMMA CountsOn ==
    ASSUME NEW m \in Nat, NEW n \in 0..m, n < m PROVE n + 1 \in 0..m
OBVIOUS

LEMMA ThreadTypesStep == ASSUME ThreadTypes, WorkerStepOrNone PROVE ThreadTypes'
<1> USE DEF ThreadTypes, results, rest, objects, work, counters, history
<1>1. CASE MainStep
  BY <1>1 DEF MainStep, Construct, StartClient, Connect, Register, WaitForSignal, WakeUp,
              DestroyDispatcher, GetReturnValue, DestroyRfid, DestroyHandler
<1>2. CASE WakeUpForNothing \/ Exit \/ Signal \/ ScriptSees
  BY <1>2 DEF WakeUpForNothing, Exit, Signal, ScriptSees
<1>3. CASE SigStep \/ SigReturns
  BY <1>3 DEF SigStep, SigNotify, SigTest, SigReset, SigJoin, SigReturns
<1>4. CASE NetStep
  BY <1>4 DEF NetStep, Greet, ResetRfid, JoinInventory, NetTest, NetReset
<1>5. CASE Opened \/ Command \/ Lost
  BY <1>5 DEF Opened, Command, Lost
<1>6. CASE WorkStep
  BY <1>6 DEF WorkStep, InventoryReports, TimerFires, TimerUses
<1>7. CASE UNCHANGED workerVars
  BY <1>7 DEF workerVars
<1> QED
  BY <1>1, <1>2, <1>3, <1>4, <1>5, <1>6, <1>7 DEF WorkerStepOrNone, WorkerNext

LEMMA ObjectTypesStep == ASSUME ObjectTypes, WorkerStepOrNone PROVE ObjectTypes'
<1> USE DEF ObjectTypes, results, rest, objects, work, counters, history
<1>1. CASE MainStep
  BY <1>1 DEF MainStep, Construct, StartClient, Connect, Register, WaitForSignal, WakeUp,
              DestroyDispatcher, GetReturnValue, DestroyRfid, DestroyHandler
<1>2. CASE WakeUpForNothing \/ Exit \/ Signal \/ ScriptSees
  BY <1>2 DEF WakeUpForNothing, Exit, Signal, ScriptSees
<1>3. CASE SigStep \/ SigReturns
  BY <1>3 DEF SigStep, SigNotify, SigTest, SigReset, SigJoin, SigReturns
<1>4. CASE NetStep
  BY <1>4 DEF NetStep, Greet, ResetRfid, JoinInventory, NetTest, NetReset
<1>5. CASE Opened \/ Command \/ Lost
  BY <1>5 DEF Opened, Command, Lost
<1>6. CASE WorkStep
  BY <1>6 DEF WorkStep, InventoryReports, TimerFires, TimerUses
<1>7. CASE UNCHANGED workerVars
  BY <1>7 DEF workerVars
<1> QED
  BY <1>1, <1>2, <1>3, <1>4, <1>5, <1>6, <1>7 DEF WorkerStepOrNone, WorkerNext

LEMMA ResultTypesStep == ASSUME ResultTypes, WorkerStepOrNone PROVE ResultTypes'
<1> USE BoundsAssumption
    DEF ResultTypes, Abort, Send, results, rest, objects, work, counters, history
<1>1. CASE MainStep
  <2>1. CASE Construct
    BY <2>1 DEF Construct
  <2>2. CASE StartClient \/ Connect
    BY <2>2 DEF StartClient, Connect
  <2>3. CASE Register \/ WaitForSignal \/ WakeUp
    BY <2>3 DEF Register, WaitForSignal, WakeUp
  <2>4. CASE DestroyDispatcher \/ GetReturnValue \/ DestroyRfid \/ DestroyHandler
    BY <2>4 DEF DestroyDispatcher, GetReturnValue, DestroyRfid, DestroyHandler
  <2> QED
    BY <1>1, <2>1, <2>2, <2>3, <2>4 DEF MainStep
<1>2. CASE WakeUpForNothing \/ Exit \/ Signal \/ ScriptSees
  <2>1. CASE WakeUpForNothing
    BY <2>1 DEF WakeUpForNothing
  <2>2. CASE Exit \/ ScriptSees
    BY <2>2 DEF Exit, ScriptSees
  <2>3. CASE Signal
    <3>0. signals < MaxSignals /\ signals' = signals + 1
      BY <2>3 DEF Signal
    <3>1. signals' \in 0..MaxSignals /\ UNCHANGED <<ret, status, script, commands>>
      <4>1. signals' \in 0..MaxSignals
        BY <3>0, CountsOn
      <4>2. UNCHANGED <<ret, status, script, commands>>
        BY <2>3 DEF Signal
      <4> QED
        BY <4>1, <4>2
    <3>2. why' \subseteq {"signal", "exception", "spurious wakeup"}
      BY <2>3 DEF Signal
    <3>3. quiet' \in BOOLEAN /\ exit' \in {exit, "killed"}
      BY <2>3 DEF Signal
    <3> QED
      BY <3>1, <3>2, <3>3
  <2> QED
    BY <1>2, <2>1, <2>2, <2>3
<1>3. CASE SigStep \/ SigReturns
  BY <1>3 DEF SigStep, SigNotify, SigTest, SigReset, SigJoin, SigReturns
<1>4. CASE NetStep
  BY <1>4 DEF NetStep, Greet, ResetRfid, JoinInventory, NetTest, NetReset
<1>5. CASE Opened \/ Command \/ Lost
  <2>1. CASE Opened \/ Lost
    BY <2>1 DEF Opened, Lost
  <2>2. CASE Command
    <3>1. commands < MaxCommands /\ commands' = commands + 1
      BY <2>2 DEF Command
    <3>2. commands' \in 0..MaxCommands
      BY <3>1, CountsOn
    <3>3. quiet' = FALSE /\ UNCHANGED <<ret, status, script, why, signals>>
      BY <2>2 DEF Command
    <3>4. exit' \in {exit, "abort"}
      BY <2>2 DEF Command
    <3> QED
      BY <3>2, <3>3, <3>4
  <2> QED
    BY <1>5, <2>1, <2>2
<1>6. CASE WorkStep
  BY <1>6 DEF WorkStep, InventoryReports, TimerFires, TimerUses
<1>7. CASE UNCHANGED workerVars
  BY <1>7 DEF workerVars
<1> QED
  BY <1>1, <1>2, <1>3, <1>4, <1>5, <1>6, <1>7 DEF WorkerStepOrNone, WorkerNext

(* The types of Worker's part. *)
THEOREM WorkerTypeCorrect == Spec => []WorkerTypeOK
<1> DEFINE Types == ThreadTypes /\ ObjectTypes /\ ResultTypes
<1>1. Init => Types
  <2>1. 0 \in 0..MaxSignals /\ 0 \in 0..MaxCommands
    BY BoundsAssumption
  <2> QED
    BY <2>1 DEF Init, WorkerInit, ThreadTypes, ObjectTypes, ResultTypes
<1>2. Types /\ [Next]_vars => Types'
  BY StepOfWorker, ThreadTypesStep, ObjectTypesStep, ResultTypesStep
<1>3. Types => WorkerTypeOK
  BY DEF ThreadTypes, ObjectTypes, ResultTypes, WorkerTypeOK
<1> QED
  BY <1>1, <1>2, <1>3, PTL DEF Spec

(* driver.sh stops for good only after a signal, or one of the accidents   *)
(* that look like one: a failed start or connection is never taken for it. *)
THEOREM StopHasAReason == Spec => []ZeroHasAReason
<1>1. IInv => ZeroHasAReason
  BY DEF IInv, WorkerInv
<1> QED
  BY Invariant, <1>1, PTL

(* A signal that finds the driver idle ends it with no other status.       *)
THEOREM QuietSignalIsClean == Spec => []QuietStopIsClean
<1>1. IInv => QuietStopIsClean
  BY DEF IInv, WorkerInv
<1> QED
  BY Invariant, <1>1, PTL

(* A process that ends by itself has written all messages it accepted,     *)
(* whichever thread printed them and whenever the log was stopped.         *)
THEOREM AllIsWritten == Spec => []EndedIsWritten
<1>1. IInv => EndedIsWritten
  BY DEF IInv, LogIsEmptied, LogEndsFirst, EndedIsWritten
<1> QED
  BY Invariant, <1>1, PTL
-----------------------------------------------------------------------------
(* What is said of the entries of the log, of any sequence of them.        *)
Ordered(s) == \A i, j \in 1..Len(s) : i < j => Number(s[i]) < Number(s[j])

Tells(s, n) == \E i \in 1..Len(s) :
                  \/ s[i] = n
                  \/ s[i] <= -n /\ \A j \in 1..(i - 1) : Number(s[j]) < n

Tale(s, m) == /\ Ordered(s)
              /\ \A i \in 1..Len(s) : Number(s[i]) \in 1..m
              /\ \A n \in 1..m : Tells(s, n)

(* A message put behind what is kept. *)
LEMMA TaleGoesOn ==
    ASSUME NEW s \in Seq(Int), NEW m \in Nat, Tale(s, m)
    PROVE  Tale(s \o <<m + 1>>, m + 1)
<1> DEFINE t == s \o <<m + 1>>
<1>1. /\ t \in Seq(Int) /\ Len(s) \in Nat /\ Len(t) = Len(s) + 1
      /\ t[Len(s) + 1] = m + 1 /\ \A i \in 1..Len(s) : t[i] = s[i]
  <2>1. <<m + 1>> \in Seq(Int) /\ Len(<<m + 1>>) = 1 /\ <<m + 1>>[1] = m + 1
    OBVIOUS
  <2> QED
    BY <2>1, ConcatProperties, LenProperties
<1>2. \A i \in 1..Len(s) : s[i] \in Int /\ Number(s[i]) \in 1..m
  BY ElementOfSeq DEF Tale
<1> HIDE DEF t
<1>3. Ordered(t)
  <2> SUFFICES ASSUME NEW i \in 1..Len(t), NEW j \in 1..Len(t), i < j
               PROVE  Number(t[i]) < Number(t[j])
    BY DEF Ordered
  <2>1. i \in 1..Len(s) /\ t[i] = s[i] /\ Number(s[i]) \in 1..m
    <3>1. i \in 1..Len(s)
      BY <1>1
    <3> QED
      BY <1>1, <1>2, <3>1
  <2>2. CASE j = Len(s) + 1
    BY <1>1, <2>1, <2>2 DEF Number
  <2>3. CASE j # Len(s) + 1
    <3>1. j \in 1..Len(s)
      BY <1>1, <2>3
    <3>2. t[j] = s[j]
      BY <1>1, <3>1
    <3> QED
      BY <2>1, <3>1, <3>2 DEF Tale, Ordered
  <2> QED
    BY <2>2, <2>3
<1>4. ASSUME NEW i \in 1..Len(t) PROVE Number(t[i]) \in 1..(m + 1)
  <2>1. CASE i = Len(s) + 1
    <3>1. t[i] = m + 1
      BY <1>1, <2>1
    <3> QED
      BY <3>1 DEF Number
  <2>2. CASE i # Len(s) + 1
    <3>1. i \in 1..Len(s)
      BY <1>1, <2>2
    <3>2. Number(t[i]) \in 1..m
      BY <1>1, <1>2, <3>1
    <3> QED
      BY <3>2
  <2> QED
    BY <2>1, <2>2
<1>5. ASSUME NEW n \in 1..(m + 1) PROVE Tells(t, n)
  <2>1. CASE n = m + 1
    BY <1>1, <2>1 DEF Tells
  <2>2. CASE n # m + 1
    <3>0. n \in 1..m
      BY <2>2
    <3>1. PICK i \in 1..Len(s) :
             s[i] = n \/ (s[i] <= -n /\ \A j \in 1..(i - 1) : Number(s[j]) < n)
      BY <3>0 DEF Tale, Tells
    <3>2. i \in 1..Len(t) /\ t[i] = s[i] /\ \A j \in 1..(i - 1) : t[j] = s[j]
      BY <1>1
    <3> QED
      BY <3>1, <3>2 DEF Tells
  <2> QED
    BY <2>1, <2>2
<1> QED
  BY <1>3, <1>4, <1>5 DEF Tale, t

(* The error that stands for all that was queued, and for the message that *)
(* found the queue full, behind what has been taken.                       *)
LEMMA TaleIsCut ==
    ASSUME NEW p \in Seq(Int), NEW q \in Seq(Int), NEW m \in Nat, Tale(p \o q, m)
    PROVE  Tale(p \o <<-(m + 1)>>, m + 1)
<1> DEFINE s == p \o q
           t == p \o <<-(m + 1)>>
<1>1. /\ t \in Seq(Int) /\ Len(p) \in Nat /\ Len(t) = Len(p) + 1
      /\ t[Len(p) + 1] = -(m + 1) /\ \A i \in 1..Len(p) : t[i] = p[i]
  <2>1. <<-(m + 1)>> \in Seq(Int) /\ Len(<<-(m + 1)>>) = 1 /\ <<-(m + 1)>>[1] = -(m + 1)
    OBVIOUS
  <2> QED
    BY <2>1, ConcatProperties, LenProperties
<1>2. /\ s \in Seq(Int) /\ Len(s) \in Nat /\ Len(p) <= Len(s)
      /\ \A i \in 1..Len(p) : s[i] = p[i]
  BY ConcatProperties, LenProperties
<1>3. \A i \in 1..Len(s) : s[i] \in Int /\ Number(s[i]) \in 1..m
  BY <1>2, ElementOfSeq DEF Tale
<1>4. Tale(s, m)
  OBVIOUS
<1> HIDE DEF s, t
<1>5. ASSUME NEW i \in 1..Len(p)
      PROVE  i \in 1..Len(s) /\ t[i] = s[i] /\ t[i] \in Int /\ Number(t[i]) \in 1..m
  <2>1. i \in 1..Len(s)
    BY <1>1, <1>2
  <2>2. t[i] = p[i] /\ s[i] = p[i]
    BY <1>1, <1>2
  <2> QED
    BY <1>3, <2>1, <2>2
<1>6. Number(t[Len(p) + 1]) = m + 1
  BY <1>1 DEF Number
<1>7. Ordered(t)
  <2> SUFFICES ASSUME NEW i \in 1..Len(t), NEW j \in 1..Len(t), i < j
               PROVE  Number(t[i]) < Number(t[j])
    BY DEF Ordered
  <2>1. i \in 1..Len(p) /\ Number(t[i]) \in 1..m
    BY <1>1, <1>5
  <2>2. CASE j = Len(p) + 1
    BY <1>6, <2>1, <2>2
  <2>3. CASE j # Len(p) + 1
    <3>0. Len(p) \in Nat /\ Len(t) = Len(p) + 1
      BY <1>1
    <3>1. j \in 1..Len(p)
      BY <2>3, <3>0
    <3> QED
      BY <1>4, <1>5, <2>1, <3>1 DEF Tale, Ordered
  <2> QED
    BY <2>2, <2>3
<1>8. \A i \in 1..Len(t) : Number(t[i]) \in 1..(m + 1)
  <2> SUFFICES ASSUME NEW i \in 1..Len(t) PROVE Number(t[i]) \in 1..(m + 1)
    OBVIOUS
  <2>1. i \in 1..Len(p) \/ i = Len(p) + 1
    BY <1>1
  <2> QED
    BY <1>5, <1>6, <2>1
<1>9. ASSUME NEW n \in 1..(m + 1) PROVE Tells(t, n)
  <2>1. Len(p) + 1 \in 1..Len(t) /\ t[Len(p) + 1] <= -n
    BY <1>1
  <2>2. CASE \A j \in 1..Len(p) : Number(t[j]) < n
    BY <1>1, <2>1, <2>2 DEF Tells
  <2>3. CASE \E j \in 1..Len(p) : ~(Number(t[j]) < n)
    <3>1. PICK k \in 1..Len(p) : ~(Number(t[k]) < n)
      BY <2>3
    <3>2. n \in 1..m
      BY <1>5, <3>1
    <3>3. PICK i \in 1..Len(s) :
             s[i] = n \/ (s[i] <= -n /\ \A j \in 1..(i - 1) : Number(s[j]) < n)
      BY <1>4, <3>2 DEF Tale, Tells
    <3>4. k \in 1..Len(s) /\ ~(Number(s[k]) < n)
      BY <1>2, <1>5, <3>1
    <3>5. i <= k
      <4>1. SUFFICES ASSUME k < i PROVE FALSE
        OBVIOUS
      <4>2. CASE s[i] = n
        <5>1. Number(s[k]) < Number(s[i])
          BY <1>4, <3>4, <4>1 DEF Tale, Ordered
        <5> QED
          BY <3>4, <4>2, <5>1 DEF Number
      <4>3. CASE \A j \in 1..(i - 1) : Number(s[j]) < n
        BY <3>4, <4>1, <4>3
      <4> QED
        BY <3>3, <4>2, <4>3
    <3>6. i \in 1..Len(p) /\ \A j \in 1..(i - 1) : j \in 1..Len(p)
      <4> DEFINE lp == Len(p)
                 ls == Len(s)
      <4>1. lp \in Nat /\ ls \in Nat
        BY <1>1
      <4>2. i \in 1..ls /\ k \in 1..lp
        OBVIOUS
      <4> HIDE DEF lp, ls
      <4>3. i \in 1..lp /\ \A j \in 1..(i - 1) : j \in 1..lp
        BY <3>5, <4>1, <4>2
      <4> QED
        BY <4>3 DEF lp
    <3>7. i \in 1..Len(t) /\ t[i] = s[i] /\ \A j \in 1..(i - 1) : t[j] = s[j]
      BY <1>1, <1>5, <3>6
    <3> QED
      BY <3>3, <3>7 DEF Tells
  <2> QED
    BY <2>2, <2>3
<1> QED
  BY <1>7, <1>8, <1>9 DEF Tale, t

(* What the log's thread has taken. *)
TakenOut == out \o (IF thread = "write" THEN <<task>> ELSE <<>>)

(* The entries are numbers, and what is kept tells of all the messages     *)
(* accepted.                                                               *)
LogTells == /\ prints \in Nat /\ task \in Int
            /\ queue \in Seq(Int) /\ out \in Seq(Int)
            /\ Tale(Kept, prints)

LEMMA InitTells == Init => LogTells
<1> SUFFICES ASSUME Init PROVE LogTells
  OBVIOUS
<1>1. Kept = <<>> /\ prints = 0 /\ Len(<<>>) = 0
  BY DEF Init, LogInit, Kept
<1>2. Tale(<<>>, 0)
  BY DEF Tale, Ordered
<1> QED
  BY <1>1, <1>2 DEF LogTells, Init, LogInit

(* Steps of the log; how many messages there may be is only a bound.       *)
LogMoves == \/ ThreadStep \/ StopLowers \/ StopStep \/ UNCHANGED logVars
            \/ \E w \in {"main", "net", "handler"} : Lock(w) \/ PrintMessage(w)

(* What is kept goes from the queue to the thread and from there to the    *)
(* output; only a message accepted adds to it.                             *)
LEMMA KeptOn ==
    ASSUME LogTells, LogMoves
    PROVE  /\ task' \in Int /\ queue' \in Seq(Int) /\ out' \in Seq(Int)
           /\ TakenOut \in Seq(Int) /\ Kept = TakenOut \o queue
           /\ \/ prints' = prints /\ Kept' = Kept
              \/ prints' = prints + 1 /\ Kept' = Kept \o <<prints + 1>>
              \/ prints' = prints + 1 /\ Kept' = TakenOut \o <<-(prints + 1)>>
<1> DEFINE held == IF thread = "write" THEN <<task>> ELSE <<>>
<1>0. held \in Seq(Int) /\ TakenOut = out \o held /\ Kept = (out \o held) \o queue
  BY DEF LogTells, TakenOut, Kept
<1>1. TakenOut \in Seq(Int) /\ Kept = TakenOut \o queue
  BY <1>0, ConcatProperties DEF LogTells
<1> HIDE DEF held
<1> USE DEF LogTells
<1>2. CASE Take
  <2>1. /\ thread = "test" /\ thread' = "write" /\ queue # <<>>
        /\ task' = Head(queue) /\ queue' = Tail(queue) /\ UNCHANGED <<out, prints>>
    BY <1>2 DEF Take
  <2>2. task' \in Int /\ queue' \in Seq(Int) /\ <<task'>> \o queue' = queue
    BY <2>1, HeadTailProperties
  <2>3. Kept = out \o queue
    BY <2>1, ConcatEmptySeq DEF Kept
  <2>4. Kept' = (out \o <<task'>>) \o queue'
    BY <2>1 DEF Kept
  <2>5. Kept' = out \o (<<task'>> \o queue')
    <3>1. out \in Seq(Int) /\ <<task'>> \in Seq(Int) /\ queue' \in Seq(Int)
      BY <2>2
    <3>2. (out \o <<task'>>) \o queue' = out \o (<<task'>> \o queue')
      BY <3>1, ConcatAssociative
    <3> QED
      BY <2>4, <3>2
  <2> QED
    BY <1>1, <2>1, <2>2, <2>3, <2>5
<1>3. CASE ThreadWrites
  <2>1. /\ thread = "write" /\ thread' = "lock" /\ out' = Append(out, task)
        /\ UNCHANGED <<queue, task, prints>>
    BY <1>3 DEF ThreadWrites
  <2>2. out' = out \o <<task>> /\ out' \in Seq(Int)
    BY <2>1, AppendIsConcat, AppendProperties
  <2>3. Kept' = out' \o queue
    BY <2>1, <2>2, ConcatEmptySeq DEF Kept
  <2> QED
    BY <1>1, <2>1, <2>2, <2>3 DEF Kept
<1>4. ASSUME NEW w \in {"main", "net", "handler"}, PrintMessage(w), isRun
      PROVE  /\ queue' \in Seq(Int) /\ UNCHANGED <<task, out>> /\ prints' = prints + 1
             /\ \/ Kept' = Kept \o <<prints + 1>>
                \/ Kept' = TakenOut \o <<-(prints + 1)>>
  <2>1. /\ prints' = prints + 1 /\ UNCHANGED <<task, out>>
        /\ queue' = IF Len(queue) < MaxQueue THEN Append(queue, prints + 1)
                                             ELSE <<-(prints + 1)>>
        /\ thread' = "write" <=> thread = "write"
    BY <1>4 DEF PrintMessage, Queued, Notified
  <2>2. Kept' = TakenOut \o queue'
    BY <2>1 DEF Kept, TakenOut
  <2>3. CASE Len(queue) < MaxQueue
    <3>1. prints + 1 \in Int
      OBVIOUS
    <3>2. queue' = queue \o <<prints + 1>> /\ queue' \in Seq(Int)
      BY <2>1, <2>3, <3>1, AppendIsConcat, AppendProperties
    <3>3. <<prints + 1>> \in Seq(Int)
      BY <3>1
    <3>4. Kept' = (TakenOut \o queue) \o <<prints + 1>>
      BY <1>1, <2>2, <3>2, <3>3, ConcatAssociative
    <3> QED
      BY <1>1, <2>1, <3>2, <3>4
  <2>4. CASE ~(Len(queue) < MaxQueue)
    BY <2>1, <2>2, <2>4
  <2> QED
    BY <2>3, <2>4
<1>5. CASE UNCHANGED <<queue, task, prints, out>> /\ (thread' = "write" <=> thread = "write")
  BY <1>1, <1>5 DEF Kept
<1> QED
  BY <1>1, <1>2, <1>3, <1>4, <1>5
  DEF LogMoves, ThreadStep, ThreadLocks, ThreadEnds, ThreadFindsNothing, ThreadWaits,
      StopLowers, StopStep, StopNotifies, StopJoins, Lock, PrintMessage, Notified, logVars

(* No step of the process loses a message and does not say so. *)
LEMMA TellsStep == ASSUME LogTells, [Next]_vars PROVE LogTells'
<1>1. LogMoves
  BY DEF LogMoves, Next, MainPrints, NetPrints, HandlerPrints, MainGoesOn, MainWakesUp,
         HandlerStep, NetGoesOn, OtherThreads, LogStep, StopLog, ProcessEnds, ScriptGoesOn,
         Environment, SignalComes, vars
<1>2. Kept \in Seq(Int)
  BY <1>1, KeptOn, ConcatProperties DEF LogTells
<1>3. Tale(Kept', prints')
  BY <1>1, <1>2, KeptOn, TaleGoesOn, TaleIsCut DEF LogTells
<1> QED
  BY <1>1, <1>3, KeptOn DEF LogTells

(* However many messages come before the log's thread takes one, they are  *)
(* written in their order, and each that a full queue threw away is told   *)
(* by the error that took its place.                                       *)
THEOREM NoSilentLoss == Spec => []LossIsReported
<1>1. LogTells => LossIsReported
  BY DEF LogTells, Tale, Ordered, Tells, LossIsReported, InOrder, Reported
<1> QED
  BY InitTells, TellsStep, <1>1, PTL DEF Spec
=============================================================================
