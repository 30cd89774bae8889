------------------------------ MODULE Timer_proofs ------------------------------
(***************************************************************************)
(* Proofs about Timer, for any number of calls in its life.                *)
(*                                                                         *)
(* What ends the thread is _is_run alone, and the destructor returns only  *)
(* once it has joined it; from this follow both that no callback comes     *)
(* after the destruction and that the thread's stores, which the owner's   *)
(* calls may overtake, look to a user like those of a one-shot timer.      *)
(***************************************************************************)
EXTENDS Timer, TLAPS

IInv == TypeOK /\ NoCallbackAfterDestroy

(* At the start the thread has stored nothing. *)
THEOREM InitInv == Init => IInv
<1>1. 0 \in 0..MaxCalls
  BY MaxCallsAssumption
<1> QED
  BY <1>1 DEF Init, IInv, TypeOK, NoCallbackAfterDestroy

(* The thread's steps: it takes none when it has exited. *)
LEMMA ThreadInv == ASSUME IInv, ThreadStep PROVE IInv'
<1> USE DEF IInv, TypeOK, NoCallbackAfterDestroy
<1>1. CASE RaiseRun \/ RaiseRestart \/ SetStart
  BY <1>1 DEF RaiseRun, RaiseRestart, SetStart
<1>2. CASE While \/ Measure \/ Test
  BY <1>2 DEF While, Measure, Test
<1>3. CASE Lower \/ Task \/ Notify
  BY <1>3 DEF Lower, Task, Notify
<1> QED
  BY <1>1, <1>2, <1>3 DEF ThreadStep

(* The owner's: only the end of the join lets the object go. *)
LEMMA OwnerInv == ASSUME IInv, OwnerCall \/ OwnerStep PROVE IInv'
<1> USE DEF IInv, TypeOK, NoCallbackAfterDestroy
<1>1. ASSUME NEW next, Begin(next) PROVE calls' \in 0..MaxCalls /\ owner = "idle"
  BY <1>1, MaxCallsAssumption DEF Begin
<1>2. CASE Restart
  <2>1. Begin("setStart")
    BY <1>2 DEF Restart
  <2> QED
    BY <1>1, <1>2, <2>1 DEF Restart, Begin
<1>3. CASE ExecuteNow
  <2>1. Begin("idle")
    BY <1>3 DEF ExecuteNow
  <2> QED
    BY <1>1, <1>3, <2>1 DEF ExecuteNow, Begin
<1>4. CASE Wait
  <2>1. Begin("toWait")
    BY <1>4 DEF Wait
  <2> QED
    BY <1>1, <1>4, <2>1 DEF Wait, Begin
<1>5. CASE DestroyLowerRestart \/ DestroyLowerRun
  BY <1>5 DEF DestroyLowerRestart, DestroyLowerRun
<1>6. CASE RestartSetStart \/ Sleep \/ DestroyMembers \/ DestroyJoin
  BY <1>6 DEF RestartSetStart, Sleep, DestroyMembers, DestroyJoin
<1> QED
  BY <1>2, <1>3, <1>4, <1>5, <1>6 DEF OwnerCall, OwnerStep

(* No step breaks the invariant. *)
THEOREM StepInv == IInv /\ [Next]_vars => IInv'
<1> SUFFICES ASSUME IInv, [Next]_vars PROVE IInv'
  OBVIOUS
<1>1. CASE TaskRestarts
  <2>1. calls' \in 0..MaxCalls
    BY <1>1, MaxCallsAssumption DEF TaskRestarts, IInv, TypeOK
  <2> QED
    BY <1>1, <2>1 DEF TaskRestarts, IInv, TypeOK, NoCallbackAfterDestroy
<1>2. CASE Elapse
  BY <1>2 DEF Elapse, IInv, TypeOK, NoCallbackAfterDestroy
<1>3. CASE UNCHANGED vars
  BY <1>3 DEF vars, IInv, TypeOK, NoCallbackAfterDestroy
<1> QED
  BY <1>1, <1>2, <1>3, ThreadInv, OwnerInv DEF Next

THEOREM Invariant == Spec => []IInv
BY InitInv, StepInv, PTL DEF Spec
-----------------------------------------------------------------------------
(* The types, and a thread in wait() has its condition. *)
THEOREM TimerTypeCorrect == Spec => []TypeOK
<1>1. IInv => TypeOK
  BY DEF IInv
<1> QED
  BY Invariant, <1>1, PTL

(* Once the destructor has returned the callback neither runs nor will.    *)
THEOREM SilentWhenDestroyed == Spec => []NoCallbackAfterDestroy
<1>1. IInv => NoCallbackAfterDestroy
  BY DEF IInv
<1> QED
  BY Invariant, <1>1, PTL
-----------------------------------------------------------------------------
(* The one-shot timer starts with its first run to come: until the thread  *)
(* has raised _is_restart, whatever the flag holds, it is going to.        *)
LEMMA InitOneShot == Init => Abstract!Init
BY DEF Init, Abstract!Init

(* The thread's steps: it decides upon a run only while it owes one, and   *)
(* the debt is paid as the run begins.                                     *)
LEMMA ThreadOneShot ==
    ASSUME IInv, ThreadStep PROVE [Abstract!Next]_(Abstract!vars)
<1> USE DEF IInv, TypeOK, NoCallbackAfterDestroy, Abstract!Next, Abstract!vars
<1>1. owner # "gone" /\ owner' # "gone"
  BY DEF ThreadStep, RaiseRun, RaiseRestart, SetStart, While, Measure, Test, Lower, Task,
         Notify
<1>2. CASE RaiseRun \/ RaiseRestart \/ SetStart \/ While \/ Measure
  BY <1>2 DEF RaiseRun, RaiseRestart, SetStart, While, Measure
<1>3. CASE Test
  BY <1>1, <1>3 DEF Test, Abstract!FallDue
<1>4. CASE Lower
  BY <1>1, <1>4 DEF Lower, Abstract!Fire
<1>5. CASE Task
  BY <1>1, <1>5 DEF Task, Abstract!Finish
<1>6. CASE Notify
  BY <1>6 DEF Notify
<1> QED
  BY <1>2, <1>3, <1>4, <1>5, <1>6 DEF ThreadStep

(* The other steps: a restart, a destructor that takes the debt back, and  *)
(* one that ends.                                                          *)
LEMMA OwnerOneShot ==
    ASSUME IInv, TaskRestarts \/ Elapse \/ OwnerCall \/ OwnerStep
    PROVE  [Abstract!Next]_(Abstract!vars)
<1> USE DEF IInv, TypeOK, NoCallbackAfterDestroy, Abstract!Next, Abstract!vars
<1>1. CASE TaskRestarts
  BY <1>1 DEF TaskRestarts, Abstract!Restart
<1>2. CASE Restart
  BY <1>2 DEF Restart, Begin, Abstract!Restart
<1>3. CASE DestroyLowerRestart
  BY <1>3 DEF DestroyLowerRestart, Abstract!Cancel
<1>4. CASE DestroyJoin
  BY <1>4 DEF DestroyJoin, Abstract!Destroy
<1>5. CASE Elapse \/ ExecuteNow \/ Wait
  BY <1>5 DEF Elapse, ExecuteNow, Wait, Begin
<1>6. CASE RestartSetStart \/ Sleep \/ DestroyLowerRun \/ DestroyMembers
  BY <1>6 DEF RestartSetStart, Sleep, DestroyLowerRun, DestroyMembers
<1> QED
  BY <1>1, <1>2, <1>3, <1>4, <1>5, <1>6 DEF OwnerCall, OwnerStep

(* The timer implements the one-shot timer its users see, though its flags *)
(* are stored by its thread and restarted and cleared by others meanwhile. *)
THEOREM RefinesOneShot == Spec => ImplementsOneShot
<1>1. IInv /\ [Next]_vars => [Abstract!Next]_(Abstract!vars)
  <2>1. UNCHANGED vars => UNCHANGED Abstract!vars
    BY DEF vars, Abstract!vars
  <2> QED
    BY <2>1, ThreadOneShot, OwnerOneShot DEF Next
<1> QED
  BY <1>1, InitOneShot, Invariant, PTL DEF Spec, Abstract!Spec, ImplementsOneShot
=============================================================================
