------------------------ MODULE InventoryControl_proofs ------------------------
(***************************************************************************)
(* Proofs about InventoryControl, for any slots, counts and width of the   *)
(* loop variable, and whenever the threads store their flags.              *)
(*                                                                         *)
(* That stopInventory leaves nothing reading does not depend on the flags  *)
(* at all, only on who owns the thread: _inv_thread is the one place a     *)
(* thread is kept between calls, and its deleter joins.                    *)
(***************************************************************************)
EXTENDS InventoryControl, TLAPS

(* What the call in progress holds: a new thread only until it is stored,  *)
(* an old one only while it is deleted.                                    *)
CallerHolds ==
    /\ new # None <=> caller = "assign"
    /\ caller \in {"join", "lowerRun"} => old # None
    /\ caller \notin {"delete", "join", "lowerRun"} => old = None

(* What is held is a thread, not a slot that is free.                      *)
HeldAreThreads ==
    /\ invThread # None => thread[invThread] # "free"
    /\ new # None => thread[new] # "free"

(* From its reset on, stopInventory keeps _inv_thread null.                *)
StopResets ==
    call = "stop" /\ caller # "reset"
      => invThread = None /\ caller \notin {"spawn", "assign"}

IInv == TypeOK /\ ThreadsAreOwned /\ CallerHolds /\ HeldAreThreads /\ StopResets

(* In the initial state no thread exists and nobody holds one.             *)
THEOREM InitInv == Init => IInv
<1> SUFFICES ASSUME Init PROVE IInv
  OBVIOUS
<1>1. 0 \in 0..(Wrap - 1)
  BY WrapAssumption
<1>2. TypeOK
  BY <1>1 DEF Init, TypeOK
<1>3. ThreadsAreOwned /\ CallerHolds /\ HeldAreThreads /\ StopResets
  BY SlotsAssumption
     DEF Init, ThreadsAreOwned, CallerHolds, HeldAreThreads, StopResets
<1> QED
  BY <1>2, <1>3 DEF IInv

(* A call begins: it touches no thread.                                    *)
LEMMA CallInv ==
    ASSUME IInv, NEW c \in {"start", "stop", "inventory"},
           NEW next \in {"idle", "reset", "spawn"},
           c = "stop" => next = "reset",
           Call(c, next)
    PROVE  IInv'
BY DEF IInv, TypeOK, ThreadsAreOwned, CallerHolds, HeldAreThreads, StopResets, Call,
       flags, callerVars, counters

(* The steps of the caller, one by one.                                    *)
LEMMA CallerInv == ASSUME IInv, CallerStep PROVE IInv'
<1> USE SlotsAssumption
    DEF IInv, TypeOK, ThreadsAreOwned, CallerHolds, HeldAreThreads, StopResets,
        flags, counters
<1>1. CASE Reset
  BY <1>1 DEF Reset
<1>2. ASSUME NEW s \in Slots, Spawn(s) PROVE IInv'
  <2>1. TypeOK'
    BY <1>2, WrapAssumption DEF Spawn
  <2>2. thread' = [thread EXCEPT ![s] = "created"] /\ thread[s] = "free" /\ new' = s
    BY <1>2 DEF Spawn
  <2>3. ThreadsAreOwned'
    BY <1>2, <2>2 DEF Spawn
  <2>4. CallerHolds' /\ HeldAreThreads' /\ StopResets'
    BY <1>2, <2>2 DEF Spawn
  <2> QED
    BY <2>1, <2>3, <2>4
<1>3. CASE Assign
  BY <1>3 DEF Assign
<1>4. CASE LowerInventory
  BY <1>4 DEF LowerInventory
<1>5. CASE Join
  BY <1>5 DEF Join
<1>6. CASE LowerRun
  BY <1>6 DEF LowerRun, AfterDelete
<1>7. CASE NothingToDelete
  BY <1>7 DEF NothingToDelete, AfterDelete
<1> QED
  BY <1>1, <1>2, <1>3, <1>4, <1>5, <1>6, <1>7 DEF CallerStep

(* A thread goes on to a step that is not "free", and holds what it held.  *)
LEMMA GotoInv ==
    ASSUME IInv, NEW s \in Slots, thread[s] # "free",
           NEW next \in {"raiseInventory", "test", "round", "report", "lowerRun", "done"},
           Goto(s, next),
           isInventory' \in BOOLEAN, isInventoryRun' \in BOOLEAN,
           i' \in [Slots -> 0..(Wrap - 1)]
    PROVE  IInv'
BY SlotsAssumption
   DEF IInv, TypeOK, ThreadsAreOwned, CallerHolds, HeldAreThreads, StopResets, Goto,
       callerVars

(* The thread's loop variable wraps within its width.                      *)
LEMMA RoundCounts ==
    ASSUME IInv, NEW s \in Slots, Round(s)
    PROVE  i' \in [Slots -> 0..(Wrap - 1)]
<1>1. i \in [Slots -> 0..(Wrap - 1)] /\ Wrap \in Nat \ {0}
  BY WrapAssumption DEF IInv, TypeOK
<1>2. (i[s] + 1) % Wrap \in 0..(Wrap - 1)
  BY <1>1
<1> QED
  BY <1>1, <1>2 DEF Round

(* The steps of a thread.                                                  *)
LEMMA ThreadInv == ASSUME IInv, NEW s \in Slots, ThreadStep(s) PROVE IInv'
<1>1. i \in [Slots -> 0..(Wrap - 1)] /\ isInventory \in BOOLEAN /\ isInventoryRun \in BOOLEAN
  BY DEF IInv, TypeOK
<1>2. CASE RaiseRun(s)
  BY <1>1, <1>2, GotoInv DEF RaiseRun
<1>3. CASE RaiseInventory(s)
  BY <1>1, <1>3, GotoInv DEF RaiseInventory
<1>4. CASE TestLoop(s)
  BY <1>1, <1>4, GotoInv DEF TestLoop, flags
<1>5. CASE TestCount(s)
  BY <1>1, <1>5, GotoInv DEF TestCount, flags
<1>6. CASE Round(s)
  BY <1>1, <1>6, GotoInv, RoundCounts DEF Round, flags
<1>7. CASE Report(s)
  BY <1>1, <1>7, GotoInv DEF Report, flags
<1>8. CASE EndCount(s)
  BY <1>1, <1>8, GotoInv DEF EndCount
<1> QED
  BY <1>2, <1>3, <1>4, <1>5, <1>6, <1>7, <1>8 DEF ThreadStep

(* No step breaks the invariant. *)
THEOREM StepInv == IInv /\ [Next]_vars => IInv'
<1> SUFFICES ASSUME IInv, [Next]_vars PROVE IInv'
  OBVIOUS
<1>1. CASE StartInventory \/ StopInventory \/ InventoryCall
  BY <1>1, CallInv DEF StartInventory, StopInventory, InventoryCall
<1>2. CASE CallerStep
  BY <1>2, CallerInv
<1>3. ASSUME NEW s \in Slots, ThreadStep(s) PROVE IInv'
  BY <1>3, ThreadInv
<1>4. CASE UNCHANGED vars
  BY <1>4 DEF IInv, TypeOK, ThreadsAreOwned, CallerHolds, HeldAreThreads, StopResets,
              vars, flags, callerVars, counters
<1> QED
  BY <1>1, <1>2, <1>3, <1>4 DEF Next

(* The invariant holds in every behaviour, prompt or not. *)
THEOREM Invariance == Spec => []IInv
<1> QED
  BY InitInv, StepInv, PTL DEF Spec

(* A stopped inventory has nobody to own a thread: it is quiet. *)
LEMMA QuietWhenStopped == IInv => StoppedMeansQuiet
BY SlotsAssumption DEF IInv, ThreadsAreOwned, CallerHolds, StopResets, StoppedMeansQuiet,
       Live, TypeOK

(* The variables of the inventory's control keep their types. *)
THEOREM TypeCorrect == Spec => []TypeOK
<1>1. IInv => TypeOK
  BY DEF IInv
<1> QED
  BY <1>1, Invariance, PTL

(* No std::thread of startInventory or inventory is ever lost or destroyed *)
(* before it is joined, though calls and threads interleave in any way.    *)
THEOREM NoThreadIsLost == Spec => []ThreadsAreOwned
<1>1. IInv => ThreadsAreOwned
  BY DEF IInv
<1> QED
  BY <1>1, Invariance, PTL

(* When stopInventory returns no inventory reads, whatever came before. *)
THEOREM StopIsQuiet == Spec => []StoppedMeansQuiet
<1> QED
  BY QuietWhenStopped, Invariance, PTL
-----------------------------------------------------------------------------
(* While the calls are prompt the flags tell the truth.  The facts below   *)
(* are about such behaviours only.                                         *)

(* A loop that reads has its flag up, and ends only for the deleter that   *)
(* joins it.                                                               *)
LoopsUntilJoined ==
    \A s \in Slots : kind[s] = "loop" /\ ~(s = old /\ caller = "join") =>
        /\ thread[s] # "done"
        /\ thread[s] \in {"test", "round"} => isInventory

(* _is_inventory_run is up once a thread has stored it, and only for a     *)
(* thread that lives or a loop that is being deleted.                      *)
RunFlagFollows ==
    /\ \A s \in Slots : Live(s) /\ thread[s] # "created" => isInventoryRun
    /\ isInventoryRun => \/ \E s \in Slots : Live(s)
                         \/ caller \in {"join", "lowerRun"} /\ kind[old] = "loop"

(* Who may live beside whom: nobody while a thread is made, only the new   *)
(* one until it is stored; a thread deleted for the sake of a new one was  *)
(* a counted inventory that had ended.                                     *)
OneAtATime ==
    /\ caller = "spawn" => \A s \in Slots : ~Live(s)
    /\ caller = "assign" => \A s \in Slots : Live(s) => s = new
    /\ invThread # None /\ old # None => kind[old] = "count" /\ ~Live(old)

(* A thread that is stopped has stored its flags.                          *)
StoppedHasStarted ==
    /\ caller = "reset" => \A s \in Slots : ~Starting(s)
    /\ caller \in {"delete", "join"} /\ old # None /\ invThread = None => ~Starting(old)

(* A thread's steps are those of its kind.                                 *)
StepsOfKind ==
    \A s \in Slots : /\ thread[s] = "raiseInventory" => kind[s] = "loop"
                     /\ thread[s] \in {"report", "lowerRun"} => kind[s] = "count"

PromptInv == prompt => /\ LoopsUntilJoined /\ RunFlagFollows /\ OneAtATime
                       /\ StoppedHasStarted /\ StepsOfKind

(* At the start the prompt facts hold: no thread lives, both flags are down*)
(* and no call has been made.                                              *)
THEOREM InitPrompt == Init => PromptInv
BY SlotsAssumption
   DEF Init, PromptInv, LoopsUntilJoined, RunFlagFollows, OneAtATime,
       StoppedHasStarted, StepsOfKind, Live, Starting

(* A prompt call finds no thread that has yet to store its flags, so the   *)
(* run flag it tests is true to the facts.                                 *)
LEMMA CallPrompt ==
    ASSUME IInv, PromptInv, NEW c \in {"start", "stop", "inventory"},
           NEW next \in {"idle", "reset", "spawn"},
           next = "spawn" => ~isInventoryRun,
           Call(c, next)
    PROVE  PromptInv'
<1> SUFFICES ASSUME prompt' PROVE PromptInv'
  BY DEF PromptInv
<1>1. /\ prompt /\ \A s \in Slots : ~Starting(s)
      /\ caller = "idle" /\ caller' = next /\ old = None
      /\ UNCHANGED <<isInventory, isInventoryRun, invThread, new, old, kind, thread>>
  BY DEF Call, flags, counters, IInv, CallerHolds
<1>2. /\ LoopsUntilJoined /\ RunFlagFollows /\ OneAtATime /\ StepsOfKind
  BY <1>1 DEF PromptInv
<1>3. LoopsUntilJoined' /\ StepsOfKind'
  BY <1>1, <1>2 DEF LoopsUntilJoined, StepsOfKind
<1>4. RunFlagFollows'
  BY <1>1, <1>2 DEF RunFlagFollows, Live
<1>5. OneAtATime'
  BY <1>1, <1>2 DEF OneAtATime, RunFlagFollows, Live, Starting
<1>6. StoppedHasStarted'
  BY <1>1 DEF StoppedHasStarted, Starting
<1> QED
  BY <1>3, <1>4, <1>5, <1>6 DEF PromptInv

(* The caller's steps keep the flags truthful.                             *)
LEMMA CallerPrompt == ASSUME IInv, PromptInv, CallerStep PROVE PromptInv'
<1> SUFFICES ASSUME prompt' PROVE PromptInv'
  BY DEF PromptInv
<1>1. prompt' = prompt
  BY DEF CallerStep, Reset, Spawn, Assign, LowerInventory, Join, LowerRun,
         NothingToDelete
<1>2. /\ LoopsUntilJoined /\ RunFlagFollows /\ OneAtATime
      /\ StoppedHasStarted /\ StepsOfKind
  BY <1>1 DEF PromptInv
<1>3. TypeOK /\ ThreadsAreOwned /\ CallerHolds /\ HeldAreThreads /\ None \notin Slots
  BY SlotsAssumption DEF IInv
<1> USE <1>2, <1>3
<1> USE DEF Live, Starting, TypeOK, CallerHolds, flags, counters
<1>4. ASSUME NEW s \in Slots, Spawn(s) PROVE PromptInv'
  <2>1. /\ thread' = [thread EXCEPT ![s] = "created"] /\ thread[s] = "free"
        /\ kind' = [kind EXCEPT ![s] = IF call = "start" THEN "loop" ELSE "count"]
        /\ new' = s /\ caller = "spawn" /\ caller' = "assign" /\ old = None
        /\ UNCHANGED <<isInventory, isInventoryRun, invThread, old>>
    BY <1>4 DEF Spawn
  <2>2. LoopsUntilJoined'
    BY <2>1 DEF LoopsUntilJoined
  <2>3. RunFlagFollows'
    BY <2>1 DEF RunFlagFollows, OneAtATime
  <2>4. OneAtATime'
    BY <2>1 DEF OneAtATime
  <2>5. StoppedHasStarted' /\ StepsOfKind'
    BY <2>1 DEF StoppedHasStarted, StepsOfKind
  <2> QED
    BY <2>2, <2>3, <2>4, <2>5 DEF PromptInv
<1>5. CASE Reset
  <2>1. LoopsUntilJoined'
    BY <1>5 DEF Reset, LoopsUntilJoined, OneAtATime, ThreadsAreOwned
  <2>2. RunFlagFollows'
    BY <1>5 DEF Reset, RunFlagFollows, OneAtATime, ThreadsAreOwned
  <2>3. OneAtATime'
    BY <1>5 DEF Reset, OneAtATime, ThreadsAreOwned, LoopsUntilJoined
  <2>4. StoppedHasStarted'
    BY <1>5 DEF Reset, StoppedHasStarted
  <2>5. StepsOfKind'
    BY <1>5 DEF Reset, StepsOfKind
  <2> QED
    BY <2>1, <2>2, <2>3, <2>4, <2>5 DEF PromptInv
<1>6. CASE Assign
  <2>1. LoopsUntilJoined'
    BY <1>6 DEF Assign, LoopsUntilJoined, OneAtATime, ThreadsAreOwned
  <2>2. RunFlagFollows'
    BY <1>6 DEF Assign, RunFlagFollows, OneAtATime, ThreadsAreOwned
  <2>3. OneAtATime'
    BY <1>6 DEF Assign, OneAtATime, ThreadsAreOwned, LoopsUntilJoined,
           HeldAreThreads
  <2>4. StoppedHasStarted'
    BY <1>6 DEF Assign, StoppedHasStarted
  <2>5. StepsOfKind'
    BY <1>6 DEF Assign, StepsOfKind
  <2> QED
    BY <2>1, <2>2, <2>3, <2>4, <2>5 DEF PromptInv
<1>7. CASE LowerInventory
  <2>1. LoopsUntilJoined'
    BY <1>7 DEF LowerInventory, LoopsUntilJoined, OneAtATime, ThreadsAreOwned
  <2>2. RunFlagFollows'
    BY <1>7 DEF LowerInventory, RunFlagFollows, OneAtATime, ThreadsAreOwned
  <2>3. OneAtATime'
    BY <1>7 DEF LowerInventory, OneAtATime, ThreadsAreOwned, LoopsUntilJoined
  <2>4. StoppedHasStarted'
    BY <1>7 DEF LowerInventory, StoppedHasStarted
  <2>5. StepsOfKind'
    BY <1>7 DEF LowerInventory, StepsOfKind
  <2> QED
    BY <2>1, <2>2, <2>3, <2>4, <2>5 DEF PromptInv
<1>8. CASE Join
  <2>1. LoopsUntilJoined'
    BY <1>8 DEF Join, LoopsUntilJoined, OneAtATime, ThreadsAreOwned
  <2>2. RunFlagFollows'
    BY <1>8 DEF Join, RunFlagFollows, OneAtATime, ThreadsAreOwned
  <2>3. OneAtATime'
    BY <1>8 DEF Join, OneAtATime, ThreadsAreOwned, LoopsUntilJoined
  <2>4. StoppedHasStarted'
    BY <1>8 DEF Join, StoppedHasStarted
  <2>5. StepsOfKind'
    BY <1>8 DEF Join, StepsOfKind
  <2> QED
    BY <2>1, <2>2, <2>3, <2>4, <2>5 DEF PromptInv
<1>9. CASE LowerRun
  <2>1. LoopsUntilJoined'
    BY <1>9 DEF LowerRun, AfterDelete, LoopsUntilJoined, OneAtATime, ThreadsAreOwned
  <2>2. RunFlagFollows'
    BY <1>9 DEF LowerRun, AfterDelete, RunFlagFollows, OneAtATime, ThreadsAreOwned
  <2>3. OneAtATime'
    BY <1>9 DEF LowerRun, AfterDelete, OneAtATime, ThreadsAreOwned, LoopsUntilJoined
  <2>4. StoppedHasStarted'
    BY <1>9 DEF LowerRun, AfterDelete, StoppedHasStarted
  <2>5. StepsOfKind'
    BY <1>9 DEF LowerRun, AfterDelete, StepsOfKind
  <2> QED
    BY <2>1, <2>2, <2>3, <2>4, <2>5 DEF PromptInv
<1>10. CASE NothingToDelete
  <2>1. LoopsUntilJoined'
    BY <1>10 DEF NothingToDelete, AfterDelete, LoopsUntilJoined, OneAtATime, ThreadsAreOwned
  <2>2. RunFlagFollows'
    BY <1>10 DEF NothingToDelete, AfterDelete, RunFlagFollows, OneAtATime, ThreadsAreOwned
  <2>3. OneAtATime'
    BY <1>10 DEF NothingToDelete, AfterDelete, OneAtATime, ThreadsAreOwned, LoopsUntilJoined
  <2>4. StoppedHasStarted'
    BY <1>10 DEF NothingToDelete, AfterDelete, StoppedHasStarted
  <2>5. StepsOfKind'
    BY <1>10 DEF NothingToDelete, AfterDelete, StepsOfKind
  <2> QED
    BY <2>1, <2>2, <2>3, <2>4, <2>5 DEF PromptInv
<1> QED
  BY <1>4, <1>5, <1>6, <1>7, <1>8, <1>9, <1>10 DEF CallerStep

(* A thread's steps keep the flags truthful: the only thread there is      *)
(* stores them, and only for itself.                                       *)
LEMMA ThreadPrompt ==
    ASSUME IInv, PromptInv, NEW s \in Slots, ThreadStep(s)
    PROVE  PromptInv'
<1> SUFFICES ASSUME prompt' PROVE PromptInv'
  BY DEF PromptInv
<1>1. /\ prompt' = prompt
      /\ UNCHANGED <<invThread, caller, new, old, kind>>
      /\ \E next \in {"raiseInventory", "test", "round", "report", "lowerRun", "done"} :
            thread' = [thread EXCEPT ![s] = next]
  BY DEF ThreadStep, RaiseRun, RaiseInventory, TestLoop, TestCount, Round, Report,
         EndCount, Goto, callerVars
<1>2. /\ LoopsUntilJoined /\ RunFlagFollows /\ OneAtATime
      /\ StoppedHasStarted /\ StepsOfKind
  BY <1>1 DEF PromptInv
<1>3. TypeOK /\ ThreadsAreOwned /\ CallerHolds /\ None \notin Slots
  BY SlotsAssumption DEF IInv
<1>4. \A t \in Slots : Live(t) /\ Live(s) => t = s
  BY <1>2, <1>3 DEF OneAtATime, ThreadsAreOwned, CallerHolds, Live, TypeOK
<1>5. thread[s] # "free" /\ Live(s)
  BY DEF ThreadStep, RaiseRun, RaiseInventory, TestLoop, TestCount, Round, Report,
         EndCount, Live
<1>6. StoppedHasStarted' /\ OneAtATime'
  <2>1. \A t \in Slots : Starting(t)' => Starting(t)
    BY <1>1, <1>3 DEF Starting, TypeOK, ThreadStep, RaiseRun, RaiseInventory, TestLoop,
       TestCount, Round, Report, EndCount, Goto
  <2>2. \A t \in Slots : Live(t)' => Live(t)
    BY <1>1, <1>3, <1>5 DEF Live, TypeOK
  <2> QED
    BY <1>1, <1>2, <1>3, <2>1, <2>2 DEF StoppedHasStarted, OneAtATime, TypeOK
<1> USE <1>1, <1>2, <1>3, <1>4, <1>5 DEF Live, Starting, TypeOK, Goto, flags
<1>7. CASE RaiseRun(s)
  <2>1. LoopsUntilJoined'
    BY <1>7 DEF RaiseRun, LoopsUntilJoined, StepsOfKind, StoppedHasStarted, CallerHolds, ThreadsAreOwned
  <2>2. RunFlagFollows'
    BY <1>7 DEF RaiseRun, RunFlagFollows, CallerHolds, LoopsUntilJoined, StepsOfKind, ThreadsAreOwned
  <2>3. StepsOfKind'
    BY <1>7 DEF RaiseRun, StepsOfKind
  <2> QED
    BY <1>6, <2>1, <2>2, <2>3 DEF PromptInv
<1>8. CASE RaiseInventory(s)
  <2>1. LoopsUntilJoined'
    BY <1>8 DEF RaiseInventory, LoopsUntilJoined, StepsOfKind, StoppedHasStarted, CallerHolds, ThreadsAreOwned
  <2>2. RunFlagFollows'
    BY <1>8 DEF RaiseInventory, RunFlagFollows, CallerHolds, LoopsUntilJoined, StepsOfKind, ThreadsAreOwned
  <2>3. StepsOfKind'
    BY <1>8 DEF RaiseInventory, StepsOfKind
  <2> QED
    BY <1>6, <2>1, <2>2, <2>3 DEF PromptInv
<1>9. CASE TestLoop(s)
  <2>1. LoopsUntilJoined'
    BY <1>9 DEF TestLoop, LoopsUntilJoined, StepsOfKind, StoppedHasStarted, CallerHolds, ThreadsAreOwned
  <2>2. RunFlagFollows'
    BY <1>9 DEF TestLoop, RunFlagFollows, CallerHolds, LoopsUntilJoined, StepsOfKind, ThreadsAreOwned
  <2>3. StepsOfKind'
    BY <1>9 DEF TestLoop, StepsOfKind
  <2> QED
    BY <1>6, <2>1, <2>2, <2>3 DEF PromptInv
<1>10. CASE TestCount(s)
  <2>1. LoopsUntilJoined'
    BY <1>10 DEF TestCount, LoopsUntilJoined, StepsOfKind, StoppedHasStarted, CallerHolds, ThreadsAreOwned
  <2>2. RunFlagFollows'
    BY <1>10 DEF TestCount, RunFlagFollows, CallerHolds, LoopsUntilJoined, StepsOfKind, ThreadsAreOwned
  <2>3. StepsOfKind'
    BY <1>10 DEF TestCount, StepsOfKind
  <2> QED
    BY <1>6, <2>1, <2>2, <2>3 DEF PromptInv
<1>11. CASE Round(s)
  <2>1. LoopsUntilJoined'
    BY <1>11 DEF Round, LoopsUntilJoined, StepsOfKind, StoppedHasStarted, CallerHolds, ThreadsAreOwned
  <2>2. RunFlagFollows'
    BY <1>11 DEF Round, RunFlagFollows, CallerHolds, LoopsUntilJoined, StepsOfKind, ThreadsAreOwned
  <2>3. StepsOfKind'
    BY <1>11 DEF Round, StepsOfKind
  <2> QED
    BY <1>6, <2>1, <2>2, <2>3 DEF PromptInv
<1>12. CASE Report(s)
  <2>1. LoopsUntilJoined'
    BY <1>12 DEF Report, LoopsUntilJoined, StepsOfKind, StoppedHasStarted, CallerHolds, ThreadsAreOwned
  <2>2. RunFlagFollows'
    BY <1>12 DEF Report, RunFlagFollows, CallerHolds, LoopsUntilJoined, StepsOfKind, ThreadsAreOwned
  <2>3. StepsOfKind'
    BY <1>12 DEF Report, StepsOfKind
  <2> QED
    BY <1>6, <2>1, <2>2, <2>3 DEF PromptInv
<1>13. CASE EndCount(s)
  <2>1. LoopsUntilJoined'
    BY <1>13 DEF EndCount, LoopsUntilJoined, StepsOfKind, StoppedHasStarted, CallerHolds, ThreadsAreOwned
  <2>2. RunFlagFollows'
    BY <1>13 DEF EndCount, RunFlagFollows, CallerHolds, LoopsUntilJoined, StepsOfKind, ThreadsAreOwned
  <2>3. StepsOfKind'
    BY <1>13 DEF EndCount, StepsOfKind
  <2> QED
    BY <1>6, <2>1, <2>2, <2>3 DEF PromptInv
<1> QED
  BY <1>7, <1>8, <1>9, <1>10, <1>11, <1>12, <1>13 DEF ThreadStep

(* No step breaks what holds while the calls are prompt. *)
THEOREM StepPrompt == IInv /\ PromptInv /\ [Next]_vars => PromptInv'
<1> SUFFICES ASSUME IInv, PromptInv, [Next]_vars PROVE PromptInv'
  OBVIOUS
<1>1. CASE StartInventory \/ StopInventory \/ InventoryCall
  BY <1>1, CallPrompt DEF StartInventory, StopInventory, InventoryCall, IInv, TypeOK
<1>2. CASE CallerStep
  BY <1>2, CallerPrompt
<1>3. ASSUME NEW s \in Slots, ThreadStep(s) PROVE PromptInv'
  BY <1>3, ThreadPrompt
<1>4. CASE UNCHANGED vars
  BY <1>4 DEF PromptInv, LoopsUntilJoined, RunFlagFollows, OneAtATime,
              StoppedHasStarted, StepsOfKind, Live, Starting, vars, flags, callerVars,
              counters
<1> QED
  BY <1>1, <1>2, <1>3, <1>4 DEF Next

(* In every behaviour the flags tell the truth while the calls are prompt. *)
THEOREM PromptInvariance == Spec => [](IInv /\ PromptInv)
<1>1. Init => PromptInv
  BY InitPrompt
<1> QED
  BY <1>1, InitInv, StepInv, StepPrompt, PTL DEF Spec

(* Inventories of prompt calls never overlap.                              *)
THEOREM NeverTwo == Spec => []OneInventory
<1>1. IInv /\ PromptInv => OneInventory
  BY SlotsAssumption
     DEF IInv, PromptInv, OneAtATime, ThreadsAreOwned, CallerHolds, Live, TypeOK,
         OneInventory
<1> QED
  BY <1>1, PromptInvariance, PTL

(* Between prompt calls the run flag is up exactly while a thread reads.   *)
THEOREM FlagIsTrue == Spec => []RunFlagIsTrue
<1>1. IInv /\ PromptInv => RunFlagIsTrue
  BY DEF IInv, PromptInv, RunFlagFollows, CallerHolds, Live, Starting, TypeOK,
         RunFlagIsTrue
<1> QED
  BY <1>1, PromptInvariance, PTL
-----------------------------------------------------------------------------
(* InventoryControl implements Inventory.                                  *)

(* The abstract mode is the kind of the only thread that lives.            *)
LEMMA ModeOfLive ==
    ASSUME prompt, NEW s \in Slots, Live(s), \A t \in Slots : Live(t) => t = s
    PROVE  Mode = kind[s]
<1>1. (CHOOSE t \in Slots : Live(t)) = s
  OBVIOUS
<1> QED
  BY <1>1 DEF Mode

(* Without a thread that lives, or after a hasty call, it is "off".        *)
LEMMA ModeOff ==
    ASSUME ~prompt \/ \A t \in Slots : ~Live(t)
    PROVE  Mode = "off"
BY DEF Mode

(* At any time it is one of the three.                                     *)
LEMMA ModeType ==
    ASSUME IInv, OneInventory
    PROVE  Mode \in {"off", "loop", "count"}
BY ModeOff, ModeOfLive DEF OneInventory, IInv, TypeOK

(* A step that neither makes a thread live nor changes a kind leaves the   *)
(* abstract inventory alone or ends it.                                    *)
LEMMA KeepsOrEnds ==
    ASSUME IInv, OneInventory, OneInventory', prompt' => prompt, kind' = kind,
           \A t \in Slots : Live(t)' => Live(t)
    PROVE  Mode' = Mode \/ Mode' = "off"
<1>1. CASE ~prompt' \/ \A t \in Slots : ~Live(t)'
  BY <1>1 DEF Mode
<1>2. ASSUME prompt', NEW t \in Slots, Live(t)' PROVE Mode' = Mode
  <2>1. Mode = kind[t]
    BY <1>2, ModeOfLive DEF OneInventory
  <2>2. (CHOOSE u \in Slots : Live(u)') = t
    BY <1>2 DEF OneInventory
  <2> QED
    BY <1>2, <2>1, <2>2 DEF Mode
<1> QED
  BY <1>1, <1>2

(* Every step is a step of the abstract inventory or none.                 *)
LEMMA StepImplements ==
    ASSUME IInv, PromptInv, OneInventory, OneInventory', [Next]_vars
    PROVE  [Abstract!Next]_Mode
<1>1. Mode \in {"off", "loop", "count"}
  BY ModeType
<1>2. ASSUME NEW s \in Slots, Spawn(s) PROVE [Abstract!Next]_Mode
  <2>1. /\ prompt' = prompt /\ caller = "spawn"
        /\ thread' = [thread EXCEPT ![s] = "created"]
        /\ kind' = [kind EXCEPT ![s] = IF call = "start" THEN "loop" ELSE "count"]
        /\ thread \in [Slots -> {"free", "created", "raiseInventory", "test", "round",
                                 "report", "lowerRun", "done"}]
        /\ kind \in [Slots -> {"loop", "count"}]
    BY <1>2 DEF Spawn, IInv, TypeOK
  <2>2. CASE ~prompt
    BY <2>1, <2>2 DEF Mode
  <2>3. CASE prompt
    <3>1. Mode = "off"
      BY <2>1, <2>3, ModeOff DEF PromptInv, OneAtATime
    <3>2. Live(s)' /\ kind'[s] \in {"loop", "count"}
      BY <2>1 DEF Live
    <3>3. (CHOOSE t \in Slots : Live(t)') = s
      BY <2>1, <2>3, <3>2 DEF OneInventory
    <3>4. Mode' = kind'[s]
      BY <2>1, <2>3, <3>2, <3>3 DEF Mode
    <3> QED
      BY <3>1, <3>2, <3>4 DEF Abstract!Next, Abstract!Begin
  <2> QED
    BY <2>2, <2>3
<1>3. ASSUME [Next]_vars, \A s \in Slots : ~Spawn(s) PROVE [Abstract!Next]_Mode
  <2>1. (prompt' => prompt) /\ kind' = kind
    <3>1. CASE StartInventory \/ StopInventory \/ InventoryCall
      BY <3>1 DEF StartInventory, StopInventory, InventoryCall, Call
    <3>2. CASE CallerStep
      <4>1. \/ Reset \/ Assign \/ LowerInventory \/ Join \/ LowerRun
            \/ NothingToDelete
        BY <1>3, <3>2 DEF CallerStep
      <4>2. prompt' = prompt /\ kind' = kind
        BY <4>1 DEF Reset, Assign, LowerInventory, Join, LowerRun, NothingToDelete,
           counters
      <4> QED
        BY <4>2
    <3>3. ASSUME NEW s \in Slots, ThreadStep(s) PROVE prompt' = prompt /\ kind' = kind
      BY <3>3 DEF ThreadStep, RaiseRun, RaiseInventory, TestLoop, TestCount, Round,
         Report, EndCount, Goto
    <3>4. CASE UNCHANGED vars
      BY <3>4 DEF vars
    <3> QED
      BY <1>3, <3>1, <3>2, <3>3, <3>4 DEF Next
  <2>2. \A t \in Slots : Live(t)' => Live(t)
    <3>1. CASE UNCHANGED thread
      BY <3>1 DEF Live
    <3>2. CASE Join
      BY <3>2 DEF Join, Live, IInv, TypeOK
    <3>3. ASSUME NEW s \in Slots, ThreadStep(s)
          PROVE  \A t \in Slots : Live(t)' => Live(t)
      BY <3>3 DEF Live, ThreadStep, RaiseRun, RaiseInventory, TestLoop, TestCount,
         Round, Report, EndCount, Goto, IInv, TypeOK
    <3> QED
      BY <1>3, <3>1, <3>2, <3>3 DEF Next, StartInventory, StopInventory, InventoryCall,
         Call, CallerStep, Reset, Assign, LowerInventory, LowerRun, NothingToDelete,
         vars
  <2>3. Mode' = Mode \/ Mode' = "off"
    BY <2>1, <2>2, KeepsOrEnds
  <2> QED
    BY <1>1, <2>3 DEF Abstract!Next, Abstract!End
<1> QED
  BY <1>2, <1>3

(* Seen from outside the inventory is off, open-ended or counted, and goes *)
(* from one to another only over "off", as long as the calls are prompt.   *)
THEOREM Refines == Spec => ImplementsInventory
<1>1. Init => Abstract!Init
  BY ModeOff DEF Init, Live, Abstract!Init
<1>2. Spec => [](IInv /\ PromptInv)
  BY PromptInvariance
<1>3. Spec => []OneInventory
  BY NeverTwo
<1>4. IInv /\ PromptInv /\ OneInventory /\ OneInventory' /\ [Next]_vars
        => [Abstract!Next]_Mode
  BY StepImplements
<1> QED
  BY <1>1, <1>2, <1>3, <1>4, PTL DEF Spec, ImplementsInventory, Abstract!Spec
=============================================================================
