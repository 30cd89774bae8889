------------------------------- MODULE OneShot -------------------------------
(***************************************************************************)
(* A one-shot timer as its users see it.  It owes one run of its callback  *)
(* from its construction, and again after every restart; its destruction   *)
(* takes the debt back, but not a run the timer has already decided upon.  *)
(***************************************************************************)
VARIABLES owes,   \* the callback has yet to run
          phase,  \* of its run: "quiet", "due" (decided upon) or "running"
          gone    \* the timer has been destroyed

vars == <<owes, phase, gone>>

Init == owes = TRUE /\ phase = "quiet" /\ gone = FALSE

(* A restart that comes while a run is due is spent on that run. *)
Restart == owes' = TRUE /\ UNCHANGED phase

Cancel == owes' = FALSE /\ UNCHANGED phase

FallDue == phase = "quiet" /\ owes /\ phase' = "due" /\ UNCHANGED owes

Fire == phase = "due" /\ phase' = "running" /\ owes' = FALSE

Finish == phase = "running" /\ phase' = "quiet" /\ UNCHANGED owes

Destroy == phase = "quiet" /\ gone' = TRUE /\ UNCHANGED <<owes, phase>>

Next == /\ ~gone
        /\ \/ (Restart \/ Cancel \/ FallDue \/ Fire \/ Finish) /\ UNCHANGED gone
           \/ Destroy

Spec == Init /\ [][Next]_vars
=============================================================================
