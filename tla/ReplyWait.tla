------------------------------ MODULE ReplyWait ------------------------------
(***************************************************************************)
(* How RfidController waits for the reader's replies.                      *)
(*                                                                         *)
(* A thread that talks to the reader locks RfidController::_mutex, writes  *)
(* a request to the serial port and sleeps on the condition variable of    *)
(* the reply's command id; the serial thread takes the replies off the     *)
(* line and notifies that condition.  extLockWaitCmdResult bounds the wait *)
(* with a Timer kept in ONE member, _notify_timer, which every thread that *)
(* waits shares.  The waits have no predicate.                             *)
(***************************************************************************)
EXTENDS Naturals, Sequences

CONSTANTS RoundThreads,     \* threads that read tags: bufferReadProcess
          SettingsThreads,  \* threads that call getAntSettings
          Nobody,           \* no thread
          MaxWire           \* bound: replies under way on the serial line

ASSUME ThreadsAssumption == Nobody \notin RoundThreads \cup SettingsThreads
ASSUME MaxWireAssumption == MaxWire \in Nat

Threads == RoundThreads \cup SettingsThreads

Cmds == {"inventory", "tagCount", "getAndReset", "allTags",
         "frequencyRegion", "outputPower"}

VARIABLES mutex,   \* the thread that holds _mutex, or Nobody
          conds,   \* the keys of _cmd_conditions
          pc,      \* pc[t]: "out" of the lock, "in" it, "waiting", "woken"
          at,      \* at[t]: the next step of t's script
          asked,   \* asked[t]: the reader answers t's last request in full
          missed,  \* missed[t]: what t is to wait for next was notified
                   \*   while t was out of the lock
          timer,   \* _notify_timer: whose wait it bounds, and if it has fired
          wire,    \* replies on their way to the serial thread, in order
          notices  \* notifyOneCmdResult calls left for the packet in hand

(* asked and missed are history variables: no guard reads them.            *)
vars == <<mutex, conds, pc, at, asked, missed, timer, wire, notices>>
-----------------------------------------------------------------------------
Ask(c)   == [op |-> "ask",   cmd |-> c]   \* write the request of c
Await(c) == [op |-> "await", cmd |-> c]   \* extLockWaitCmdResult(c, ...)
Unlock   == [op |-> "unlock"]             \* end of a lock scope
UnlockOrReturn == [op |-> "unlockOrReturn"]  \* ... or of the whole call
Return   == [op |-> "return"]             \* unlock, and the call is over

(* bufferReadProcess, then readFromBufferAndReset: the tags are awaited in *)
(* a lock scope of their own, and only if the reader counted any.          *)
ReadRound == << Ask("inventory"), Await("inventory"), Unlock,
                Ask("tagCount"), Await("tagCount"), Ask("getAndReset"),
                UnlockOrReturn,
                Await("allTags"), Return >>

GetAntSettings == << Ask("frequencyRegion"), Await("frequencyRegion"),
                     Ask("outputPower"), Await("outputPower"), Return >>

Script(t) == IF t \in RoundThreads THEN ReadRound ELSE GetAntSettings

StepOf(t) == Script(t)[at[t]]

(* What the reader may send to a request.  The tags of a buffer come with  *)
(* their number; "fewTags" are tags that do not add up to it.              *)
Replies(c) == IF c = "getAndReset" THEN {c, "fewTags"} ELSE {c}

(* The conditions a reply notifies, in this order: all_tags_receaved by    *)
(* onReadData at the last of the tags, then the packet's own command id.   *)
Notices(r) == CASE r = "getAndReset" -> <<"allTags", "getAndReset">>
                [] r = "fewTags"     -> <<"getAndReset">>
                [] OTHER             -> <<r>>

NoTimer == [owner |-> Nobody, fired |-> FALSE]

Waiters(c) == {t \in Threads : pc[t] = "waiting" /\ StepOf(t).cmd = c}

Init == /\ mutex = Nobody
        /\ conds = {}
        /\ pc = [t \in Threads |-> "out"]
        /\ at = [t \in Threads |-> 1]
        /\ asked = [t \in Threads |-> FALSE]
        /\ missed = [t \in Threads |-> FALSE]
        /\ timer = NoTimer
        /\ wire = <<>>
        /\ notices = <<>>
-----------------------------------------------------------------------------
Lock(t) == /\ pc[t] = "out"
           /\ mutex = Nobody
           /\ mutex' = t
           /\ pc' = [pc EXCEPT ![t] = "in"]
           /\ UNCHANGED <<conds, at, asked, missed, timer, wire, notices>>

(* A request is written while the lock is held.  The reader answers it, or *)
(* the request or the reply is lost; a full line loses it too.             *)
Write(t) == /\ pc[t] = "in"
            /\ StepOf(t).op = "ask"
            /\ at' = [at EXCEPT ![t] = @ + 1]
            /\ \/ \E r \in Replies(StepOf(t).cmd) :
                     /\ Len(wire) < MaxWire
                     /\ wire' = Append(wire, r)
                     /\ asked' = [asked EXCEPT ![t] = r # "fewTags"]
               \/ /\ wire' = wire
                  /\ asked' = [asked EXCEPT ![t] = FALSE]
            /\ UNCHANGED <<mutex, conds, pc, missed, timer, notices>>

(* extLockWaitCmdResult up to cond.wait: the condition is created, or the  *)
(* threads already on it are woken; the new timer takes the place of the   *)
(* one in _notify_timer, whosever that is; the wait releases the lock.     *)
BeginWait(t) ==
    /\ pc[t] = "in"
    /\ StepOf(t).op = "await"
    /\ LET c == StepOf(t).cmd
       IN /\ conds' = conds \cup {c}
          /\ pc' = [u \in Threads |->
                       IF u = t THEN "waiting"
                       ELSE IF c \in conds /\ u \in Waiters(c) THEN "woken"
                       ELSE pc[u]]
    /\ timer' = [owner |-> t, fired |-> FALSE]
    /\ mutex' = Nobody
    /\ UNCHANGED <<at, asked, missed, wire, notices>>

(* Mutant: the callback tells nobody. *)
ExpireSilently(t) == /\ timer = [owner |-> t, fired |-> FALSE]
                     /\ timer' = [timer EXCEPT !.fired = TRUE]
                     /\ UNCHANGED <<mutex, conds, pc, at, asked, missed, wire, notices>>

(* The timer's callback.  It runs on the timer's thread without _mutex and *)
(* wakes every thread on the condition its frame refers to.  The timeouts  *)
(* are of seconds, so it does not fire before its owner is on the          *)
(* condition; it may fire after the owner was woken by a late answer.      *)
Expire(t) == /\ timer = [owner |-> t, fired |-> FALSE]
             /\ timer' = [timer EXCEPT !.fired = TRUE]
             /\ pc' = [u \in Threads |->
                          IF u \in Waiters(StepOf(t).cmd) THEN "woken" ELSE pc[u]]
             /\ UNCHANGED <<mutex, conds, at, asked, missed, wire, notices>>

(* The standard lets a condition variable wake a thread for no reason.     *)
SpuriousWakeup(t) == /\ pc[t] = "waiting"
                     /\ pc' = [pc EXCEPT ![t] = "woken"]
                     /\ UNCHANGED <<mutex, conds, at, asked, missed, timer, wire, notices>>

(* Mutant: _notify_timer outlives the wait it bounds. *)
EndWaitKeepsTimer(t) ==
    /\ pc[t] = "woken"
    /\ mutex = Nobody
    /\ mutex' = t
    /\ pc' = [pc EXCEPT ![t] = "in"]
    /\ at' = [at EXCEPT ![t] = @ + 1]
    /\ asked' = [asked EXCEPT ![t] = FALSE]
    /\ missed' = [missed EXCEPT ![t] = FALSE]
    /\ UNCHANGED <<conds, timer, wire, notices>>

(* cond.wait returns with the lock; extLockWaitCmdResult then resets       *)
(* _notify_timer, whosever it is, and goes back to its caller.             *)
EndWait(t) == /\ pc[t] = "woken"
              /\ mutex = Nobody
              /\ mutex' = t
              /\ pc' = [pc EXCEPT ![t] = "in"]
              /\ at' = [at EXCEPT ![t] = @ + 1]
              /\ timer' = NoTimer
              /\ asked' = [asked EXCEPT ![t] = FALSE]
              /\ missed' = [missed EXCEPT ![t] = FALSE]
              /\ UNCHANGED <<conds, wire, notices>>

LeaveLock(t) == /\ pc[t] = "in"
                /\ \/ /\ StepOf(t).op \in {"unlock", "unlockOrReturn"}
                      /\ at' = [at EXCEPT ![t] = @ + 1]
                      /\ asked' = asked
                   \/ /\ StepOf(t).op \in {"unlockOrReturn", "return"}
                      /\ at' = [at EXCEPT ![t] = 1]
                      /\ asked' = [asked EXCEPT ![t] = FALSE]
                /\ mutex' = Nobody
                /\ pc' = [pc EXCEPT ![t] = "out"]
                /\ UNCHANGED <<conds, missed, timer, wire, notices>>

(* The serial thread takes a packet off the line ...                       *)
Receive == /\ notices = <<>>
           /\ wire # <<>>
           /\ notices' = Notices(Head(wire))
           /\ wire' = Tail(wire)
           /\ UNCHANGED <<mutex, conds, pc, at, asked, missed, timer>>

(* Whoever sleeps on the condition wakes; whoever is still on the way to   *)
(* it, between two lock scopes, has missed it.                             *)
NotifyAll(c) ==
    /\ pc' = [u \in Threads |->
                IF c \in conds /\ u \in Waiters(c) THEN "woken" ELSE pc[u]]
    /\ missed' = [u \in Threads |-> missed[u] \/ (pc[u] = "out" /\ StepOf(u) = Await(c))]

(* Mutant: the notification does not take the lock. *)
NotifyWithoutLock ==
    /\ notices # <<>>
    /\ NotifyAll(Head(notices))
    /\ notices' = Tail(notices)
    /\ UNCHANGED <<mutex, conds, at, asked, timer, wire>>

(* ... and notifies under the lock: not between a request and a wait that  *)
(* share a lock scope, but between those of the last tags.                 *)
NotifyOneCmdResult ==
    /\ notices # <<>>
    /\ mutex = Nobody
    /\ NotifyAll(Head(notices))
    /\ notices' = Tail(notices)
    /\ UNCHANGED <<mutex, conds, at, asked, timer, wire>>

ThreadStep(t) == \/ Lock(t) \/ Write(t) \/ BeginWait(t) \/ Expire(t)
                 \/ SpuriousWakeup(t) \/ EndWait(t) \/ LeaveLock(t)

Next == \/ \E t \in Threads : ThreadStep(t)
        \/ Receive
        \/ NotifyOneCmdResult

Spec == Init /\ [][Next]_vars

(* Timers expire, the serial thread reads and the threads run; a thread    *)
(* that keeps finding the lock free gets it.  Nobody wakes spuriously.     *)
Fairness == /\ \A t \in Threads : /\ SF_vars(Lock(t))
                                  /\ SF_vars(EndWait(t))
                                  /\ WF_vars(Write(t) \/ BeginWait(t) \/ LeaveLock(t))
                                  /\ WF_vars(Expire(t))
            /\ WF_vars(Receive)
            /\ SF_vars(NotifyOneCmdResult)

FairSpec == Spec /\ Fairness
-----------------------------------------------------------------------------
TypeOK == /\ mutex \in Threads \cup {Nobody}
          /\ conds \subseteq Cmds
          /\ pc \in [Threads -> {"out", "in", "waiting", "woken"}]
          /\ at \in [Threads -> Nat \ {0}]
          /\ \A t \in Threads : at[t] <= Len(Script(t))
          /\ asked \in [Threads -> BOOLEAN]
          /\ missed \in [Threads -> BOOLEAN]
          /\ timer \in [owner : Threads \cup {Nobody}, fired : BOOLEAN]
          /\ wire \in Seq(Cmds \cup {"fewTags"})
          /\ notices \in Seq(Cmds)

(* The timer's callback writes through references into the frame of the    *)
(* extLockWaitCmdResult call that made it (is_no_timeout, condition): while *)
(* the timer exists that call has not returned, though another thread may  *)
(* replace or reset the timer.                                             *)
CallbackFrameAlive ==
    timer.owner # Nobody => pc[timer.owner] \in {"waiting", "woken"}

Notifies(r, c) == \E j \in 1..Len(Notices(r)) : Notices(r)[j] = c

UnderWay(c) == \/ \E i \in 1..Len(wire) : Notifies(wire[i], c)
               \/ \E i \in 1..Len(notices) : notices[i] = c

(* Which notifications can be missed, and which cannot.  A thread asleep   *)
(* whose request the reader answers has the notification still ahead of    *)
(* it, on the line or in the hands of the serial thread - with the one     *)
(* exception of the last tags, asked for in one lock scope and awaited in  *)
(* the next: those may have been notified while it held no lock.           *)
NoLostWakeup ==
    \A t \in Threads :
       pc[t] = "waiting" /\ asked[t]
         => \/ UnderWay(StepOf(t).cmd)
            \/ missed[t] /\ StepOf(t) = Await("allTags")

(* Whether or not the reader answers, a wait that keeps its timer ends.    *)
(* (Another thread's wait may take the timer: see EveryWaitEnds.)          *)
TimedWaitEnds ==
    \A t \in Threads : (pc[t] = "waiting" /\ timer.owner = t)
                         ~> (pc[t] # "waiting" \/ timer.owner # t)

(* "UNLOCK_TIMEOUT: the limit of the wait for the end of the answer to a   *)
(* command": no wait lasts for ever, whether or not the reader answers.    *)
EveryWaitEnds == \A t \in Threads : pc[t] = "waiting" ~> pc[t] # "waiting"
=============================================================================
