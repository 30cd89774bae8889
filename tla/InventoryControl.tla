-------------------------- MODULE InventoryControl --------------------------
(***************************************************************************)
(* The life of RfidController's inventory thread: startInventory,          *)
(* stopInventory and inventory, the two flags they share with the thread   *)
(* they start (_is_inventory, _is_inventory_run) and the shared_ptr        *)
(* _inv_thread, whose deleter joins the thread.                            *)
(*                                                                         *)
(* The calls come one at a time: from the websocket thread, or from a      *)
(* timer's callback while the websocket thread is elsewhere.  Every access *)
(* to a flag is a step, so that the thread's own stores fall anywhere      *)
(* between the caller's.                                                   *)
(***************************************************************************)
EXTENDS Naturals

CONSTANTS Slots,        \* identities for threads; freed by the deleter
          None,         \* a null shared_ptr
          Counts,       \* values of inventory's count_
          Wrap          \* 2^8: the loop over count_ counts in a uint8_t

ASSUME SlotsAssumption == None \notin Slots
ASSUME CountsAssumption == Counts \subseteq Nat
ASSUME WrapAssumption == Wrap \in Nat \ {0}

VARIABLES isInventory,     \* _is_inventory
          isInventoryRun,  \* _is_inventory_run
          invThread,       \* _inv_thread: the slot it points to, or None
          caller,          \* what the call in progress does next
          call,            \* the call in progress
          new, old,        \* its thread to store, its thread to delete
          kind,            \* kind[s]: "loop" or "count"
          count, i,        \* count_ and the uint8_t loop variable
          thread,          \* thread[s]: what the thread does next
          prompt           \* every thread had stored its flags when the next
                           \*   call came, the usual timing (a history variable)

flags == <<isInventory, isInventoryRun>>
callerVars == <<invThread, caller, call, new, old>>
counters == <<count, i>>
vars == <<flags, callerVars, kind, counters, thread, prompt>>

Live(s) == thread[s] \notin {"free", "done"}
Starting(s) == thread[s] \in {"created", "raiseInventory"}

Init == /\ isInventory = FALSE
        /\ isInventoryRun = FALSE
        /\ invThread = None
        /\ caller = "idle"
        /\ call = "none"
        /\ new = None
        /\ old = None
        /\ kind = [s \in Slots |-> "loop"]
        /\ count = [s \in Slots |-> 0]
        /\ i = [s \in Slots |-> 0]
        /\ thread = [s \in Slots |-> "free"]
        /\ prompt = TRUE
-----------------------------------------------------------------------------
(* The calls.  startInventory stops a running inventory first; inventory   *)
(* refuses while one is running; stopInventory only resets the pointer.    *)
Call(c, next) == /\ caller = "idle"
                 /\ prompt' = (prompt /\ \A s \in Slots : ~Starting(s))
                 /\ call' = c
                 /\ caller' = next
                 /\ UNCHANGED <<flags, invThread, new, old, kind, counters, thread>>

(* Mutant: a running inventory is not stopped first. *)
StartOverRunning == Call("start", "spawn")

StartInventory == Call("start", IF isInventoryRun THEN "reset" ELSE "spawn")

StopInventory == Call("stop", "reset")

InventoryCall == Call("inventory", IF isInventoryRun THEN "idle" ELSE "spawn")

(* _inv_thread.reset(): the pointer is null before the deleter runs.       *)
Reset == /\ caller = "reset"
         /\ old' = invThread
         /\ invThread' = None
         /\ caller' = "delete"
         /\ UNCHANGED <<flags, call, new, kind, counters, thread, prompt>>

(* new Thread: it may run at once, before _inv_thread holds it.            *)
Spawn(s) == /\ caller = "spawn"
            /\ thread[s] = "free"
            /\ thread' = [thread EXCEPT ![s] = "created"]
            /\ kind' = [kind EXCEPT ![s] = IF call = "start" THEN "loop" ELSE "count"]
            /\ \E n \in Counts : count' = [count EXCEPT ![s] = n]
            /\ i' = [i EXCEPT ![s] = 0]
            /\ new' = s
            /\ caller' = "assign"
            /\ UNCHANGED <<flags, invThread, call, old, prompt>>

(* Mutant: the old thread is left to itself. *)
AssignOverOld == /\ caller = "assign"
                 /\ invThread' = new
                 /\ new' = None
                 /\ caller' = "delete"
                 /\ UNCHANGED <<flags, call, old, kind, counters, thread, prompt>>

(* _inv_thread = ...: the thread it held before is deleted.                *)
Assign == /\ caller = "assign"
          /\ old' = invThread
          /\ invThread' = new
          /\ new' = None
          /\ caller' = "delete"
          /\ UNCHANGED <<flags, call, kind, counters, thread, prompt>>

(* Mutant: the deleter joins without telling the thread to stop. *)
OnlyJoin == /\ caller = "delete"
            /\ old # None
            /\ caller' = "join"
            /\ UNCHANGED <<flags, invThread, call, new, old, kind, counters, thread, prompt>>

(* The deleter's first store; the deleter of a counted inventory only joins.*)
LowerInventory == /\ caller = "delete"
                  /\ old # None
                  /\ isInventory' = IF kind[old] = "loop" THEN FALSE ELSE isInventory
                  /\ caller' = "join"
                  /\ UNCHANGED <<isInventoryRun, invThread, call, new, old, kind,
                                 counters, thread, prompt>>

(* Mutant: the deleter detaches the thread. *)
Detach == /\ caller = "join"
          /\ caller' = "lowerRun"
          /\ UNCHANGED <<flags, invThread, call, new, old, kind, counters, thread, prompt>>

Join == /\ caller = "join"
        /\ thread[old] = "done"
        /\ thread' = [thread EXCEPT ![old] = "free"]
        /\ caller' = "lowerRun"
        /\ UNCHANGED <<flags, invThread, call, new, old, kind, counters, prompt>>

(* startInventory that has stopped the old inventory goes on; the other    *)
(* calls are over with the deleter.                                        *)
AfterDelete == IF call = "start" /\ invThread = None THEN "spawn" ELSE "idle"

LowerRun == /\ caller = "lowerRun"
            /\ isInventoryRun' = IF kind[old] = "loop" THEN FALSE ELSE isInventoryRun
            /\ old' = None
            /\ caller' = AfterDelete
            /\ UNCHANGED <<isInventory, invThread, call, new, kind, counters, thread, prompt>>

NothingToDelete == /\ caller = "delete"
                   /\ old = None
                   /\ caller' = AfterDelete
                   /\ UNCHANGED <<flags, invThread, call, new, old, kind, counters,
                                  thread, prompt>>
-----------------------------------------------------------------------------
(* The thread.  A round is bufferReadProcess, compareBuffers and the save  *)
(* of the buffers read.                                                    *)
Goto(s, next) == /\ thread' = [thread EXCEPT ![s] = next]
                 /\ UNCHANGED <<callerVars, kind, count, prompt>>

RaiseRun(s) == /\ thread[s] = "created"
               /\ isInventoryRun' = TRUE
               /\ Goto(s, IF kind[s] = "loop" THEN "raiseInventory" ELSE "test")
               /\ UNCHANGED <<isInventory, i>>

RaiseInventory(s) == /\ thread[s] = "raiseInventory"
                     /\ isInventory' = TRUE
                     /\ Goto(s, "test")
                     /\ UNCHANGED <<isInventoryRun, i>>

TestLoop(s) == /\ thread[s] = "test"
               /\ kind[s] = "loop"
               /\ Goto(s, IF isInventory THEN "round" ELSE "done")
               /\ UNCHANGED <<flags, i>>

TestCount(s) == /\ thread[s] = "test"
                /\ kind[s] = "count"
                /\ Goto(s, IF i[s] < count[s] THEN "round" ELSE "report")
                /\ UNCHANGED <<flags, i>>

Round(s) == /\ thread[s] = "round"
            /\ Goto(s, "test")
            /\ i' = IF kind[s] = "count"
                      THEN [i EXCEPT ![s] = (@ + 1) % Wrap] ELSE i
            /\ UNCHANGED flags

(* verifyBuffer or currentBuffer sends what was read; then the flag falls. *)
Report(s) == /\ thread[s] = "report"
             /\ Goto(s, "lowerRun")
             /\ UNCHANGED <<flags, i>>

(* Mutant: a counted inventory leaves its flag up. *)
EndCountFlagUp(s) == /\ thread[s] = "lowerRun"
                     /\ Goto(s, "done")
                     /\ UNCHANGED <<flags, i>>

EndCount(s) == /\ thread[s] = "lowerRun"
               /\ isInventoryRun' = FALSE
               /\ Goto(s, "done")
               /\ UNCHANGED <<isInventory, i>>

CallerStep == \/ Reset \/ (\E s \in Slots : Spawn(s)) \/ Assign
              \/ LowerInventory \/ Join \/ LowerRun \/ NothingToDelete

ThreadStep(s) == \/ RaiseRun(s) \/ RaiseInventory(s) \/ TestLoop(s) \/ TestCount(s)
                 \/ Round(s) \/ Report(s) \/ EndCount(s)

Next == \/ StartInventory \/ StopInventory \/ InventoryCall
        \/ CallerStep
        \/ \E s \in Slots : ThreadStep(s)

Spec == Init /\ [][Next]_vars

(* Threads are scheduled, and a round ends: each of its waits is bounded by*)
(* a timer (module ReplyWait).  Nothing obliges anyone to make a call.     *)
Fairness == /\ WF_vars(CallerStep)
            /\ \A s \in Slots : WF_vars(ThreadStep(s))

FairSpec == Spec /\ Fairness
-----------------------------------------------------------------------------
TypeOK ==
    /\ isInventory \in BOOLEAN
    /\ isInventoryRun \in BOOLEAN
    /\ invThread \in Slots \cup {None}
    /\ caller \in {"idle", "reset", "spawn", "assign", "delete", "join", "lowerRun"}
    /\ call \in {"none", "start", "stop", "inventory"}
    /\ new \in Slots \cup {None}
    /\ old \in Slots \cup {None}
    /\ kind \in [Slots -> {"loop", "count"}]
    /\ count \in [Slots -> Counts \cup {0}]
    /\ i \in [Slots -> 0..(Wrap - 1)]
    /\ thread \in [Slots -> {"free", "created", "raiseInventory", "test", "round",
                             "report", "lowerRun", "done"}]
    /\ prompt \in BOOLEAN

(* A std::thread that is destroyed before it is joined ends the program,   *)
(* and one that nobody holds could never be stopped: every thread that has *)
(* not been joined is in exactly one of _inv_thread, the caller's new      *)
(* object and the deleter's.                                               *)
ThreadsAreOwned ==
    /\ \A s \in Slots : thread[s] # "free" =>
           \/ s = invThread \/ s = new \/ (s = old /\ caller \in {"delete", "join"})
    /\ \A s \in Slots : s = invThread => s # new /\ s # old
    /\ new # None => new # old

(* No round of one inventory overlaps a round of another: they would share *)
(* the reader and the buffers.  (After a hasty call they do overlap.)      *)
OneInventory == prompt => \A s, t \in Slots : Live(s) /\ Live(t) => s = t

(* "Inventory is running": between prompt calls the flag by which          *)
(* inventory refuses and startInventory stops is up exactly while a thread *)
(* reads.                                                                  *)
RunFlagIsTrue ==
    prompt /\ caller = "idle" /\ (\A s \in Slots : ~Starting(s))
      => (isInventoryRun <=> \E s \in Slots : Live(s))

(* stopInventory has ended the inventory when it returns, whatever came    *)
(* before.                                                                 *)
StoppedMeansQuiet ==
    caller = "idle" /\ call = "stop" => \A s \in Slots : ~Live(s)

(* A prompt call returns: the join of the old thread ends.  A counted      *)
(* inventory it may have to wait for ends, too, if its count fits.         *)
PromptCallReturns == caller # "idle" ~> (caller = "idle" \/ ~prompt)

(* "Ends the polling of the antennas": every call returns.                 *)
CallReturns == caller # "idle" ~> caller = "idle"

(* The kind of the live thread, for the abstract interface, as long as the *)
(* calls are prompt.                                                       *)
Mode == IF prompt /\ \E s \in Slots : Live(s)
          THEN kind[CHOOSE s \in Slots : Live(s)]
          ELSE "off"

Abstract == INSTANCE Inventory WITH mode <- Mode

ImplementsInventory == Abstract!Spec
=============================================================================
