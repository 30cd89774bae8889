-------------------------------- MODULE Timer --------------------------------
(***************************************************************************)
(* utils::Timer: a thread that polls a start time and runs a callback once *)
(* the interval has passed.  restart() moves the start time and raises     *)
(* _is_restart again; the destructor lowers _is_restart and _is_run and    *)
(* joins the thread.  _is_restart, _is_run and _start are first stored by  *)
(* the THREAD, not by the constructor.                                     *)
(*                                                                         *)
(* Time is abstract: `due' says that _start + _mlsleep has passed.         *)
(***************************************************************************)
EXTENDS Naturals

CONSTANT MaxCalls     \* bound: restart, executeNow and wait calls in a life

ASSUME MaxCallsAssumption == MaxCalls \in Nat

VARIABLES isRun, isRestart,  \* the atomic flags
          due,               \* _start lies _mlsleep or more in the past
          measured,          \* the thread's local copy of `due'
          thread,            \* what the timer's thread does next
          owner,             \* what the object's owner does
          calls,             \* calls made so far
          waitCondition      \* _wait_condition is set

vars == <<isRun, isRestart, due, measured, thread, owner, calls, waitCondition>>

(* The flags are indeterminate until the thread stores them. *)
Init == /\ isRun \in BOOLEAN
        /\ isRestart \in BOOLEAN
        /\ due = FALSE
        /\ measured = FALSE
        /\ thread = "raiseRun"
        /\ owner = "idle"
        /\ calls = 0
        /\ waitCondition = FALSE

Initialised == thread \notin {"raiseRun", "raiseRestart", "setStart"}
-----------------------------------------------------------------------------
RaiseRun == /\ thread = "raiseRun"
            /\ isRun' = TRUE
            /\ thread' = "raiseRestart"
            /\ UNCHANGED <<isRestart, due, measured, owner, calls, waitCondition>>

RaiseRestart == /\ thread = "raiseRestart"
                /\ isRestart' = TRUE
                /\ thread' = "setStart"
                /\ UNCHANGED <<isRun, due, measured, owner, calls, waitCondition>>

SetStart == /\ thread = "setStart"
            /\ due' = FALSE
            /\ thread' = "while"
            /\ UNCHANGED <<isRun, isRestart, measured, owner, calls, waitCondition>>

While == /\ thread = "while"
         /\ thread' = IF isRun THEN "measure" ELSE "exited"
         /\ UNCHANGED <<isRun, isRestart, due, measured, owner, calls, waitCondition>>

(* After a short sleep the age of _start is taken under the lock. *)
Measure == /\ thread = "measure"
           /\ measured' = due
           /\ thread' = "test"
           /\ UNCHANGED <<isRun, isRestart, due, owner, calls, waitCondition>>

(* Mutant: a spent timer runs its callback again. *)
TestAgeOnly == /\ thread = "test"
               /\ thread' = IF measured THEN "lower" ELSE "while"
               /\ UNCHANGED <<isRun, isRestart, due, measured, owner, calls, waitCondition>>

Test == /\ thread = "test"
        /\ thread' = IF isRestart /\ measured THEN "lower" ELSE "while"
        /\ UNCHANGED <<isRun, isRestart, due, measured, owner, calls, waitCondition>>

Lower == /\ thread = "lower"
         /\ isRestart' = FALSE
         /\ thread' = "task"
         /\ UNCHANGED <<isRun, due, measured, owner, calls, waitCondition>>

Task == /\ thread = "task"
        /\ thread' = "notify"
        /\ UNCHANGED <<isRun, isRestart, due, measured, owner, calls, waitCondition>>

(* The callback may itself call restart (the keepalive timer's does).      *)
TaskRestarts == /\ thread = "task"
                /\ calls < MaxCalls
                /\ calls' = calls + 1
                /\ isRestart' = TRUE
                /\ due' = FALSE
                /\ UNCHANGED <<isRun, measured, thread, owner, waitCondition>>

(* Mutant: _is_restart is lowered after the callback. *)
NotifyAndLower ==
    /\ thread = "notify"
    /\ thread' = "while"
    /\ isRestart' = FALSE
    /\ owner' = IF waitCondition /\ owner = "waiting" THEN "idle" ELSE owner
    /\ UNCHANGED <<isRun, due, measured, calls, waitCondition>>

Notify == /\ thread = "notify"
          /\ thread' = "while"
          /\ owner' = IF waitCondition /\ owner = "waiting" THEN "idle" ELSE owner
          /\ UNCHANGED <<isRun, isRestart, due, measured, calls, waitCondition>>

Elapse == /\ ~due
          /\ Initialised
          /\ due' = TRUE
          /\ UNCHANGED <<isRun, isRestart, measured, thread, owner, calls,
                         waitCondition>>
-----------------------------------------------------------------------------
(* The owner's calls. *)
Begin(next) == /\ owner = "idle"
               /\ calls < MaxCalls
               /\ calls' = calls + 1
               /\ owner' = next

Restart == /\ Begin("setStart")
           /\ isRestart' = TRUE
           /\ UNCHANGED <<isRun, due, measured, thread, waitCondition>>

RestartSetStart == /\ owner = "setStart"
                   /\ due' = FALSE
                   /\ owner' = "idle"
                   /\ UNCHANGED <<isRun, isRestart, measured, thread, calls,
                                  waitCondition>>

(* _start moves _mlsleep later.  If that is in the future the negative age,*)
(* read as a size_t, is larger than any interval: the timer is due at once *)
(* if it is polled before that time comes.  Otherwise the call has put the *)
(* run off by an interval.                                                 *)
ExecuteNow == /\ Begin("idle")
              /\ due' \in BOOLEAN
              /\ UNCHANGED <<isRun, isRestart, measured, thread, waitCondition>>

(* wait() makes the condition, then sleeps on it. *)
Wait == /\ Begin("toWait")
        /\ waitCondition' = TRUE
        /\ UNCHANGED <<isRun, isRestart, due, measured, thread>>

Sleep == /\ owner = "toWait"
         /\ owner' = "waiting"
         /\ UNCHANGED <<isRun, isRestart, due, measured, thread, calls, waitCondition>>

(* ~Timer: the two stores, then the members go in the reverse of their     *)
(* order: _wait_condition, _start and _mutex, and then _thread, whose      *)
(* deleter joins.                                                          *)
DestroyLowerRestart == /\ owner = "idle"
                       /\ isRestart' = FALSE
                       /\ owner' = "lowerRun"
                       /\ UNCHANGED <<isRun, due, measured, thread, calls,
                                      waitCondition>>

(* Mutant: the thread is not told to stop. *)
DestroyKeepRun == /\ owner = "lowerRun"
                  /\ owner' = "members"
                  /\ UNCHANGED <<isRun, isRestart, due, measured, thread, calls,
                                 waitCondition>>

DestroyLowerRun == /\ owner = "lowerRun"
                   /\ isRun' = FALSE
                   /\ owner' = "members"
                   /\ UNCHANGED <<isRestart, due, measured, thread, calls,
                                  waitCondition>>

DestroyMembers == /\ owner = "members"
                  /\ owner' = "join"
                  /\ UNCHANGED <<isRun, isRestart, due, measured, thread, calls,
                                 waitCondition>>

DestroyJoin == /\ owner = "join"
               /\ thread = "exited"
               /\ owner' = "gone"
               /\ UNCHANGED <<isRun, isRestart, due, measured, thread, calls,
                              waitCondition>>

Destroying == owner \in {"lowerRun", "members", "join", "gone"}

ThreadStep == \/ RaiseRun \/ RaiseRestart \/ SetStart \/ While \/ Measure
              \/ Test \/ Lower \/ Task \/ Notify

OwnerCall == \/ Restart \/ ExecuteNow \/ Wait \/ DestroyLowerRestart

OwnerStep == \/ RestartSetStart \/ Sleep
             \/ DestroyLowerRun \/ DestroyMembers \/ DestroyJoin

Next == ThreadStep \/ TaskRestarts \/ Elapse \/ OwnerCall \/ OwnerStep

Spec == Init /\ [][Next]_vars

(* Time passes, the thread and a call in progress are scheduled.           *)
FairSpec == Spec /\ WF_vars(ThreadStep) /\ WF_vars(Elapse) /\ WF_vars(OwnerStep)
-----------------------------------------------------------------------------
(* The types; and a thread in wait() has its condition.                    *)
TypeOK == /\ isRun \in BOOLEAN /\ isRestart \in BOOLEAN
          /\ due \in BOOLEAN /\ measured \in BOOLEAN
          /\ thread \in {"raiseRun", "raiseRestart", "setStart", "while", "measure",
                         "test", "lower", "task", "notify", "exited"}
          /\ owner \in {"idle", "setStart", "toWait", "waiting", "lowerRun",
                        "members", "join", "gone"}
          /\ calls \in 0..MaxCalls
          /\ waitCondition \in BOOLEAN
          /\ owner \in {"toWait", "waiting"} => waitCondition

(* The callback refers to the object its owner destroys: it never runs, or *)
(* is about to run, once the destructor has returned.                      *)
NoCallbackAfterDestroy == owner = "gone" => thread = "exited"

(* A destructor that comes once the thread has stored its flags returns.   *)
InitialisedDestroyEnds ==
    (owner = "lowerRun" /\ Initialised) ~> owner = "gone"

(* No start and no restart is forgotten, whatever the thread was doing     *)
(* when it came: while _is_restart is up the callback is still to run,     *)
(* unless the timer is destroyed.                                          *)
RestartFires == isRestart ~> (thread = "task" \/ Destroying)

(* What a user of the timer relies on: it runs the callback only when it   *)
(* has been started or restarted since the last run, and it is silent      *)
(* once it has been destroyed.                                             *)
Abstract == INSTANCE OneShot
              WITH owes <- isRestart \/ thread \in {"raiseRun", "raiseRestart"},
                   phase <- CASE thread = "lower" -> "due"
                              [] thread = "task" -> "running"
                              [] OTHER -> "quiet",
                   gone <- (owner = "gone")

ImplementsOneShot == Abstract!Spec
=============================================================================
