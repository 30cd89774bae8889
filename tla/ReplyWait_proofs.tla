--------------------------- MODULE ReplyWait_proofs ---------------------------
(***************************************************************************)
(* Proofs about ReplyWait, for any threads and any length of the line.     *)
(*                                                                         *)
(* Which notifications can be missed rests on the lock: a request is       *)
(* written and its wait begun in one lock scope - the last tags' wait in   *)
(* the next one - and the serial thread notifies in another.  The          *)
(* inductive invariant IInv says so: the thread "in" the lock is the one   *)
(* that holds it, a thread asleep is at an "await" whose condition exists, *)
(* and from the moment a request is written until its wait is over, the    *)
(* notification of its answer is under way or was missed out of the lock.  *)
(***************************************************************************)
EXTENDS ReplyWait, TLAPS, SequenceTheorems

LockOwner == \A t \in Threads : pc[t] = "in" <=> mutex = t

AsleepInAwait ==
    \A t \in Threads :
       /\ pc[t] \in {"waiting", "woken"} => StepOf(t).op = "await"
       /\ pc[t] = "waiting" => StepOf(t).cmd \in conds

(* Out of the lock only the last tags are ever on the way to be awaited.   *)
OutOfLock ==
    \A t \in Threads :
       pc[t] = "out" => /\ StepOf(t).op # "unlockOrReturn"
                        /\ StepOf(t).op = "await" => StepOf(t) = Await("allTags")

(* What the request just written is going to be waited for with.           *)
Promised(t) == IF StepOf(t).op = "await" THEN StepOf(t).cmd ELSE "allTags"

AnswerUnderWay ==
    \A t \in Threads :
       /\ asked[t] /\ pc[t] # "woken" /\ StepOf(t).op \in {"await", "unlockOrReturn"}
            => UnderWay(Promised(t)) \/ missed[t]
       /\ missed[t] => StepOf(t) = Await("allTags")

IInv == /\ TypeOK
        /\ LockOwner
        /\ AsleepInAwait
        /\ OutOfLock
        /\ AnswerUnderWay
        /\ CallbackFrameAlive
-----------------------------------------------------------------------------
(* What every script is like: it ends in "return"; it waits for what it    *)
(* has just asked for, or, in the lock scope after getAndReset, for the    *)
(* last of the tags; and it never waits twice in a row.                    *)
GoodStep(s, k) ==
    /\ s[k].op \in {"ask", "await"} => s[k].cmd \in Cmds
    /\ s[k].op # "return" => k + 1 <= Len(s)
    /\ s[k].op \in {"await", "unlock"} => s[k + 1].op \notin {"await", "unlockOrReturn"}
    /\ s[k].op = "unlockOrReturn" => s[k + 1] = Await("allTags")
    /\ s[k].op = "ask" /\ s[k + 1].op = "await"
         => s[k].cmd = s[k + 1].cmd /\ s[k].cmd # "getAndReset"
    /\ s[k].op = "ask" /\ s[k + 1].op = "unlockOrReturn" => s[k].cmd = "getAndReset"

GoodScript(s) ==
    /\ Len(s) \in Nat \ {0}
    /\ s[1].op \notin {"await", "unlockOrReturn"}
    /\ \A k \in 1..Len(s) : GoodStep(s, k)

(* The steps of bufferReadProcess and readFromBufferAndReset are such a    *)
(* script.                                                                 *)
LEMMA ReadRoundIsGood == GoodScript(ReadRound)
<1>1. Len(ReadRound) = 9
  BY DEF ReadRound
<1>2. /\ ReadRound[1] = Ask("inventory") /\ ReadRound[2] = Await("inventory")
      /\ ReadRound[3] = Unlock
      /\ ReadRound[4] = Ask("tagCount") /\ ReadRound[5] = Await("tagCount")
      /\ ReadRound[6] = Ask("getAndReset") /\ ReadRound[7] = UnlockOrReturn
      /\ ReadRound[8] = Await("allTags") /\ ReadRound[9] = Return
  BY DEF ReadRound
<1>3. ASSUME NEW k \in 1..9
      PROVE  GoodStep(ReadRound, k)
  <2>1. k \in {1, 2, 3, 4, 5, 6, 7, 8, 9}
    OBVIOUS
  <2> QED
    BY <1>1, <1>2, <2>1 DEF GoodStep, Ask, Await, Unlock, UnlockOrReturn, Return, Cmds
<1> QED
  BY <1>1, <1>2, <1>3 DEF GoodScript, Ask

(* ... and so are those of getAntSettings.                                 *)
LEMMA GetAntSettingsIsGood == GoodScript(GetAntSettings)
<1>1. Len(GetAntSettings) = 5
  BY DEF GetAntSettings
<1>2. /\ GetAntSettings[1] = Ask("frequencyRegion")
      /\ GetAntSettings[2] = Await("frequencyRegion")
      /\ GetAntSettings[3] = Ask("outputPower")
      /\ GetAntSettings[4] = Await("outputPower")
      /\ GetAntSettings[5] = Return
  BY DEF GetAntSettings
<1>3. ASSUME NEW k \in 1..5
      PROVE  GoodStep(GetAntSettings, k)
  <2>1. k \in {1, 2, 3, 4, 5}
    OBVIOUS
  <2> QED
    BY <1>1, <1>2, <2>1 DEF GoodStep, Ask, Await, Return, Cmds
<1> QED
  BY <1>1, <1>2, <1>3 DEF GoodScript, Ask

(* So every thread that waits for the reader follows a good script.        *)
LEMMA ScriptIsGood == \A t \in Threads : GoodScript(Script(t))
BY ReadRoundIsGood, GetAntSettingsIsGood DEF Script, Threads

(* Where a thread is, it finds a step; before the last one there is a next.*)
LEMMA StepFacts ==
    ASSUME TypeOK, NEW t \in Threads
    PROVE  /\ at[t] \in 1..Len(Script(t))
           /\ StepOf(t).op \in {"ask", "await"} => StepOf(t).cmd \in Cmds
           /\ StepOf(t).op # "return" => at[t] + 1 \in 1..Len(Script(t))
           /\ GoodStep(Script(t), at[t])
           /\ 1 \in 1..Len(Script(t))
           /\ Script(t)[1].op \notin {"await", "unlockOrReturn"}
<1>1. GoodScript(Script(t))
  BY ScriptIsGood
<1>2. at[t] \in 1..Len(Script(t))
  BY <1>1 DEF TypeOK, GoodScript
<1> QED
  BY <1>1, <1>2 DEF GoodScript, GoodStep, StepOf

Wire == Cmds \cup {"fewTags"}

(* A reply stays under way while it moves along the line.                  *)
LEMMA AppendKeeps ==
    ASSUME NEW s \in Seq(Wire), NEW e \in Wire
    PROVE  /\ Append(s, e) \in Seq(Wire)
           /\ \E i \in 1..Len(Append(s, e)) : Append(s, e)[i] = e
           /\ \A i \in 1..Len(s) : i \in 1..Len(Append(s, e)) /\ Append(s, e)[i] = s[i]
<1>1. /\ Append(s, e) \in Seq(Wire)
      /\ Len(Append(s, e)) = Len(s) + 1
      /\ Append(s, e)[Len(s) + 1] = e
      /\ \A i \in 1..Len(s) : Append(s, e)[i] = s[i]
  OBVIOUS
<1>2. Len(s) \in Nat
  OBVIOUS
<1> QED
  BY <1>1, <1>2

(* The serial thread takes only the first reply off the line.             *)
LEMMA TailKeeps ==
    ASSUME NEW S, NEW s \in Seq(S), s # <<>>
    PROVE  /\ Tail(s) \in Seq(S) /\ Head(s) \in S
           /\ \A i \in 1..Len(s) : \/ s[i] = Head(s)
                                  \/ \E j \in 1..Len(Tail(s)) : Tail(s)[j] = s[i]
<1>1. /\ Tail(s) \in Seq(S) /\ Head(s) \in S /\ Head(s) = s[1]
      /\ Len(s) \in Nat \ {0} /\ Len(Tail(s)) = Len(s) - 1
      /\ \A j \in 1..Len(Tail(s)) : Tail(s)[j] = s[j + 1]
  OBVIOUS
<1>2. ASSUME NEW i \in 1..Len(s), i # 1
      PROVE  \E j \in 1..Len(Tail(s)) : Tail(s)[j] = s[i]
  <2>1. i - 1 \in 1..Len(Tail(s)) /\ Tail(s)[i - 1] = s[i]
    BY <1>1, <1>2
  <2> QED
    BY <2>1
<1> QED
  BY <1>1, <1>2

(* What a reply notifies is named by command ids: its own, if it is whole, *)
(* and that of the last tags if it brings them all.                        *)
LEMMA NoticesType ==
    ASSUME NEW r \in Wire
    PROVE  /\ Notices(r) \in Seq(Cmds)
           /\ r # "fewTags" => Notifies(r, r)
           /\ r = "getAndReset" => Notifies(r, "allTags")
<1>1. CASE r = "getAndReset"
  <2>1. Notices(r) = <<"allTags", r>> /\ {"allTags", r} \subseteq Cmds
    BY <1>1 DEF Notices, Cmds
  <2>2. /\ Len(Notices(r)) = 2 /\ Notices(r)[1] = "allTags" /\ Notices(r)[2] = r
        /\ Notices(r) \in Seq(Cmds)
    BY <2>1
  <2> QED
    BY <1>1, <2>2 DEF Notifies
<1>2. CASE r = "fewTags"
  <2>1. Notices(r) = <<"getAndReset">> /\ "getAndReset" \in Cmds
    BY <1>2 DEF Notices, Cmds
  <2>2. Notices(r) \in Seq(Cmds)
    BY <2>1
  <2> QED
    BY <1>2, <2>2
<1>3. CASE r \notin {"getAndReset", "fewTags"}
  <2>1. Notices(r) = <<r>> /\ r \in Cmds
    BY <1>3 DEF Notices, Wire
  <2>2. Len(Notices(r)) = 1 /\ Notices(r)[1] = r /\ Notices(r) \in Seq(Cmds)
    BY <2>1
  <2> QED
    BY <1>3, <2>2 DEF Notifies
<1> QED
  BY <1>1, <1>2, <1>3
-----------------------------------------------------------------------------
(* Before any thread runs nobody waits and the line is empty.              *)
THEOREM InitInv == Init => IInv
<1> SUFFICES ASSUME Init PROVE IInv
  OBVIOUS
<1>1. TypeOK
  <2>1. \A t \in Threads : 1 <= Len(Script(t))
    BY ScriptIsGood DEF GoodScript
  <2> QED
    BY <2>1 DEF Init, TypeOK, NoTimer
<1>2. \A t \in Threads : /\ pc[t] = "out" /\ t # Nobody /\ ~asked[t] /\ ~missed[t]
                         /\ StepOf(t).op \notin {"await", "unlockOrReturn"}
  BY ThreadsAssumption, ScriptIsGood DEF Init, Threads, StepOf, GoodScript
<1> QED
  BY <1>1, <1>2 DEF Init, IInv, LockOwner, AsleepInAwait, OutOfLock, AnswerUnderWay,
                    CallbackFrameAlive, NoTimer

(* What holds of the threads that a step leaves alone is not repeated: each *)
(* lemma below shows that one action preserves IInv.                       *)
LEMMA LockInv == ASSUME IInv, NEW t \in Threads, Lock(t) PROVE IInv'
<1>1. /\ pc \in [Threads -> {"out", "in", "waiting", "woken"}] /\ Nobody \notin Threads
      /\ pc[t] = "out" /\ mutex = Nobody /\ mutex' = t /\ pc' = [pc EXCEPT ![t] = "in"]
      /\ UNCHANGED <<conds, at, asked, missed, timer, wire, notices>>
  BY ThreadsAssumption DEF IInv, TypeOK, Threads, Lock
<1>2. \A u \in Threads : StepOf(u)' = StepOf(u) /\ Promised(u)' = Promised(u)
  BY <1>1 DEF StepOf, Script, Promised
<1>3. \A d : UnderWay(d)' <=> UnderWay(d)
  BY <1>1 DEF UnderWay
<1>4. TypeOK'
  BY <1>1 DEF IInv, TypeOK, Script
<1>5. LockOwner'
  BY <1>1 DEF IInv, LockOwner
<1>6. AsleepInAwait' /\ OutOfLock' /\ CallbackFrameAlive'
  BY <1>1, <1>2 DEF IInv, AsleepInAwait, OutOfLock, CallbackFrameAlive
<1>7. AnswerUnderWay'
  BY <1>1, <1>2, <1>3 DEF IInv, AnswerUnderWay
<1> QED
  BY <1>4, <1>5, <1>6, <1>7 DEF IInv

(* A request is written in the lock: from there its answer is under way.   *)
LEMMA WriteInv == ASSUME IInv, NEW t \in Threads, Write(t) PROVE IInv'
<1> DEFINE c == StepOf(t).cmd
           next == Script(t)[at[t] + 1]
<1>1. /\ pc \in [Threads -> {"out", "in", "waiting", "woken"}]
      /\ at \in [Threads -> Nat \ {0}] /\ asked \in [Threads -> BOOLEAN]
      /\ wire \in Seq(Wire) /\ pc' = pc /\ conds' = conds /\ timer' = timer
      /\ notices' = notices /\ mutex' = mutex /\ missed' = missed /\ pc[t] = "in"
      /\ at' = [at EXCEPT ![t] = @ + 1] /\ StepOf(t).op = "ask"
  BY DEF IInv, TypeOK, Write, Wire
<1>2. /\ c \in Cmds /\ at[t] + 1 \in 1..Len(Script(t))
      /\ next.op = "await" => c = next.cmd /\ c # "getAndReset"
      /\ next.op = "unlockOrReturn" => c = "getAndReset"
  BY <1>1, StepFacts DEF IInv, GoodStep, StepOf
<1>3. \/ \E r \in Replies(c) : /\ wire' = Append(wire, r)
                                /\ asked' = [asked EXCEPT ![t] = r # "fewTags"]
      \/ wire' = wire /\ asked' = [asked EXCEPT ![t] = FALSE]
  BY DEF Write
<1>4. \A r \in Replies(c) : r \in Wire /\ (r # "fewTags" => r = c)
  BY <1>2 DEF Replies, Wire
<1>5. wire' \in Seq(Wire) /\ \A d : UnderWay(d) => UnderWay(d)'
  <2>1. ASSUME NEW r \in Replies(c), wire' = Append(wire, r)
        PROVE  wire' \in Seq(Wire) /\ \A d : UnderWay(d) => UnderWay(d)'
    BY <1>1, <1>4, <2>1, AppendKeeps DEF UnderWay
  <2>2. CASE wire' = wire
    BY <1>1, <2>2 DEF UnderWay
  <2> QED
    BY <1>3, <2>1, <2>2
<1>6. /\ StepOf(t)' = next
      /\ \A u \in Threads : u # t => /\ StepOf(u)' = StepOf(u) /\ asked'[u] = asked[u]
                                     /\ Promised(u)' = Promised(u)
  BY <1>1, <1>3 DEF StepOf, Script, Promised
<1>7. TypeOK'
  <2>1. at' \in [Threads -> Nat \ {0}] /\ \A u \in Threads : at'[u] <= Len(Script(u))
    BY <1>1, <1>2 DEF IInv, TypeOK
  <2>2. asked' \in [Threads -> BOOLEAN]
    BY <1>1, <1>3
  <2> QED
    BY <1>1, <1>5, <2>1, <2>2 DEF IInv, TypeOK, Script, Wire
<1>8. LockOwner' /\ CallbackFrameAlive'
  BY <1>1 DEF IInv, LockOwner, CallbackFrameAlive
<1>9. AsleepInAwait' /\ OutOfLock'
  BY <1>1, <1>6 DEF IInv, AsleepInAwait, OutOfLock
<1>10. ~missed[t]
  BY <1>1 DEF IInv, AnswerUnderWay, Await
<1>11. ASSUME asked'[t], next.op \in {"await", "unlockOrReturn"}
       PROVE  UnderWay(Promised(t))'
  <2>1. wire' = Append(wire, c)
    BY <1>1, <1>3, <1>4, <1>11
  <2>2. Notifies(c, Promised(t)')
    <3>1. c \in Wire /\ c # "fewTags"
      BY <1>2 DEF Wire, Cmds
    <3>2. CASE next.op = "await"
      BY <1>2, <1>6, <3>1, <3>2, NoticesType DEF Promised
    <3>3. CASE next.op = "unlockOrReturn"
      BY <1>2, <1>6, <3>1, <3>3, NoticesType DEF Promised
    <3> QED
      BY <1>11, <3>2, <3>3
  <2>3. \E i \in 1..Len(wire') : wire'[i] = c
    BY <1>1, <1>2, <2>1, AppendKeeps DEF Wire
  <2> QED
    BY <2>2, <2>3 DEF UnderWay
<1>12. AnswerUnderWay'
  BY <1>1, <1>5, <1>6, <1>10, <1>11 DEF IInv, AnswerUnderWay
<1> QED
  BY <1>7, <1>8, <1>9, <1>12 DEF IInv

(* The wait begins in the lock scope of its request; the timer is now its  *)
(* own, and the threads already on the condition are only woken.           *)
LEMMA BeginWaitInv == ASSUME IInv, NEW t \in Threads, BeginWait(t) PROVE IInv'
<1> DEFINE c == StepOf(t).cmd
<1>1. /\ pc \in [Threads -> {"out", "in", "waiting", "woken"}]
      /\ conds' = conds \cup {c} /\ pc[t] = "in" /\ StepOf(t).op = "await"
      /\ timer' = [owner |-> t, fired |-> FALSE] /\ mutex' = Nobody
      /\ at' = at /\ asked' = asked /\ missed' = missed /\ wire' = wire
      /\ notices' = notices /\ Nobody \notin Threads
  BY ThreadsAssumption DEF IInv, TypeOK, BeginWait, Threads
<1>2. /\ pc' \in [Threads -> {"out", "in", "waiting", "woken"}]
      /\ pc'[t] = "waiting"
      /\ \A u \in Threads : u # t =>
            pc'[u] = pc[u] \/ (pc[u] = "waiting" /\ pc'[u] = "woken")
  BY <1>1 DEF BeginWait, Waiters
<1>3. \A u \in Threads : StepOf(u)' = StepOf(u) /\ Promised(u)' = Promised(u)
  BY <1>1 DEF StepOf, Script, Promised
<1>4. \A d : UnderWay(d)' <=> UnderWay(d)
  BY <1>1 DEF UnderWay
<1>5. mutex = t /\ \A u \in Threads : u # t => pc[u] # "in"
  BY <1>1 DEF IInv, LockOwner
<1>6. TypeOK'
  <2>1. c \in Cmds
    BY <1>1, StepFacts DEF IInv
  <2> QED
    BY <1>1, <1>2, <2>1 DEF IInv, TypeOK, Script
<1>7. LockOwner'
  BY <1>1, <1>2, <1>5 DEF LockOwner
<1>8. AsleepInAwait' /\ OutOfLock'
  BY <1>1, <1>2, <1>3 DEF IInv, AsleepInAwait, OutOfLock
<1>9. CallbackFrameAlive'
  BY <1>1, <1>2 DEF CallbackFrameAlive
<1>10. AnswerUnderWay'
  BY <1>1, <1>2, <1>3, <1>4 DEF IInv, AnswerUnderWay
<1> QED
  BY <1>6, <1>7, <1>8, <1>9, <1>10 DEF IInv

(* Sleepers may be woken at any time: what IInv says of a thread asleep it *)
(* also says of one that is awake, or says nothing.                        *)
LEMMA WakeInv ==
    ASSUME IInv,
           pc' \in [Threads -> {"out", "in", "waiting", "woken"}],
           \A u \in Threads :
               pc'[u] = pc[u] \/ (pc[u] = "waiting" /\ pc'[u] = "woken"),
           UNCHANGED <<mutex, conds, at, asked>>,
           timer'.owner = timer.owner
    PROVE  /\ LockOwner' /\ AsleepInAwait' /\ OutOfLock' /\ CallbackFrameAlive'
           /\ \A u \in Threads : StepOf(u)' = StepOf(u) /\ Promised(u)' = Promised(u)
<1>1. \A u \in Threads : StepOf(u)' = StepOf(u) /\ Promised(u)' = Promised(u)
  BY DEF StepOf, Script, Promised
<1>2. LockOwner'
  BY DEF IInv, LockOwner
<1>3. AsleepInAwait' /\ OutOfLock'
  BY <1>1 DEF IInv, AsleepInAwait, OutOfLock
<1>4. CallbackFrameAlive'
  BY ThreadsAssumption DEF IInv, TypeOK, CallbackFrameAlive, Threads
<1> QED
  BY <1>1, <1>2, <1>3, <1>4

(* An expiring timer wakes the threads on the condition of its owner.      *)
LEMMA ExpireInv ==
    ASSUME IInv, NEW t \in Threads, Expire(t) \/ SpuriousWakeup(t)
    PROVE  IInv'
<1>1. /\ pc' \in [Threads -> {"out", "in", "waiting", "woken"}]
      /\ \A u \in Threads :
            pc'[u] = pc[u] \/ (pc[u] = "waiting" /\ pc'[u] = "woken")
  BY DEF IInv, TypeOK, Expire, SpuriousWakeup, Waiters
<1>2. /\ UNCHANGED <<mutex, conds, at, asked, missed, wire, notices>>
      /\ timer' \in [owner : Threads \cup {Nobody}, fired : BOOLEAN]
      /\ timer'.owner = timer.owner
  BY DEF IInv, TypeOK, Expire, SpuriousWakeup
<1>3. /\ LockOwner' /\ AsleepInAwait' /\ OutOfLock' /\ CallbackFrameAlive'
      /\ \A u \in Threads : StepOf(u)' = StepOf(u) /\ Promised(u)' = Promised(u)
  BY <1>1, <1>2, WakeInv
<1>4. TypeOK'
  BY <1>1, <1>2 DEF IInv, TypeOK, Script
<1>5. \A d : UnderWay(d)' <=> UnderWay(d)
  BY <1>2 DEF UnderWay
<1>6. AnswerUnderWay'
  BY <1>1, <1>2, <1>3, <1>5 DEF IInv, AnswerUnderWay
<1> QED
  BY <1>3, <1>4, <1>6 DEF IInv

(* The end of a wait resets the one _notify_timer, so nobody's frame is    *)
(* referred to, and nothing is asked any more.                             *)
LEMMA EndWaitInv == ASSUME IInv, NEW t \in Threads, EndWait(t) PROVE IInv'
<1>1. /\ pc \in [Threads -> {"out", "in", "waiting", "woken"}]
      /\ at \in [Threads -> Nat \ {0}]
      /\ asked \in [Threads -> BOOLEAN] /\ missed \in [Threads -> BOOLEAN]
      /\ pc[t] = "woken" /\ mutex = Nobody /\ mutex' = t
      /\ pc' = [pc EXCEPT ![t] = "in"] /\ at' = [at EXCEPT ![t] = @ + 1]
      /\ asked' = [asked EXCEPT ![t] = FALSE] /\ missed' = [missed EXCEPT ![t] = FALSE]
      /\ timer' = NoTimer /\ UNCHANGED <<conds, wire, notices>>
      /\ Nobody \notin Threads
  BY ThreadsAssumption DEF IInv, TypeOK, EndWait, Threads
<1>2. StepOf(t).op = "await" /\ at[t] + 1 \in 1..Len(Script(t))
  BY <1>1, StepFacts DEF IInv, AsleepInAwait
<1>3. \A u \in Threads : u # t =>
         /\ StepOf(u)' = StepOf(u) /\ Promised(u)' = Promised(u)
         /\ pc'[u] = pc[u] /\ asked'[u] = asked[u] /\ missed'[u] = missed[u]
  BY <1>1 DEF StepOf, Script, Promised
<1>4. TypeOK'
  <2>1. at' \in [Threads -> Nat \ {0}] /\ \A u \in Threads : at'[u] <= Len(Script(u))
    BY <1>1, <1>2 DEF IInv, TypeOK
  <2> QED
    BY <1>1, <2>1 DEF IInv, TypeOK, Script, NoTimer
<1>5. LockOwner'
  BY <1>1 DEF IInv, LockOwner
<1>6. AsleepInAwait' /\ OutOfLock'
  BY <1>1, <1>3 DEF IInv, AsleepInAwait, OutOfLock
<1>7. CallbackFrameAlive'
  BY <1>1 DEF CallbackFrameAlive, NoTimer
<1>8. \A d : UnderWay(d)' <=> UnderWay(d)
  BY <1>1 DEF UnderWay
<1>9. AnswerUnderWay'
  BY <1>1, <1>3, <1>8 DEF IInv, AnswerUnderWay
<1> QED
  BY <1>4, <1>5, <1>6, <1>7, <1>9 DEF IInv

(* A lock scope that ends after the tags were asked for leaves them to be  *)
(* awaited in the next; the end of the call forgets what was asked.        *)
LEMMA LeaveLockInv == ASSUME IInv, NEW t \in Threads, LeaveLock(t) PROVE IInv'
<1>1. /\ pc \in [Threads -> {"out", "in", "waiting", "woken"}]
      /\ at \in [Threads -> Nat \ {0}] /\ asked \in [Threads -> BOOLEAN]
      /\ pc[t] = "in" /\ mutex' = Nobody /\ pc' = [pc EXCEPT ![t] = "out"]
      /\ UNCHANGED <<conds, missed, timer, wire, notices>> /\ Nobody \notin Threads
  BY ThreadsAssumption DEF IInv, TypeOK, LeaveLock, Threads
<1>2. ~missed[t]
  BY DEF IInv, AnswerUnderWay, Await, LeaveLock
<1>3. PICK k \in 1..Len(Script(t)) :
         /\ at' = [at EXCEPT ![t] = k]
         /\ \/ /\ StepOf(t).op = "unlockOrReturn" /\ Script(t)[k] = Await("allTags")
               /\ asked' = asked
            \/ /\ Script(t)[k].op \notin {"await", "unlockOrReturn"}
               /\ asked' = asked \/ asked' = [asked EXCEPT ![t] = FALSE]
  <2>1. CASE /\ StepOf(t).op \in {"unlock", "unlockOrReturn"}
             /\ at' = [at EXCEPT ![t] = @ + 1] /\ asked' = asked
    <3>1. at[t] + 1 \in 1..Len(Script(t)) /\ at' = [at EXCEPT ![t] = at[t] + 1]
      BY <1>1, <2>1, StepFacts DEF IInv
    <3>2. \/ StepOf(t).op = "unlockOrReturn" /\ Script(t)[at[t] + 1] = Await("allTags")
          \/ Script(t)[at[t] + 1].op \notin {"await", "unlockOrReturn"}
      BY <2>1, StepFacts DEF IInv, GoodStep, StepOf
    <3> QED
      BY <2>1, <3>1, <3>2
  <2>2. CASE at' = [at EXCEPT ![t] = 1] /\ asked' = [asked EXCEPT ![t] = FALSE]
    <3>1. 1 \in 1..Len(Script(t)) /\ Script(t)[1].op \notin {"await", "unlockOrReturn"}
      BY StepFacts DEF IInv
    <3> QED
      BY <2>2, <3>1
  <2> QED
    BY <2>1, <2>2 DEF LeaveLock
<1>4. /\ StepOf(t)' = Script(t)[k]
      /\ \A u \in Threads : u # t =>
            /\ StepOf(u)' = StepOf(u) /\ Promised(u)' = Promised(u)
            /\ pc'[u] = pc[u] /\ asked'[u] = asked[u]
  BY <1>1, <1>3 DEF StepOf, Script, Promised
<1>5. TypeOK'
  <2>1. \A u \in Threads : Len(Script(u)) \in Nat
    BY ScriptIsGood DEF GoodScript
  <2>2. at' \in [Threads -> Nat \ {0}] /\ \A u \in Threads : at'[u] <= Len(Script(u))
    BY <1>1, <1>3, <2>1 DEF IInv, TypeOK
  <2>3. asked' \in [Threads -> BOOLEAN]
    BY <1>1, <1>3
  <2> QED
    BY <1>1, <2>2, <2>3 DEF IInv, TypeOK, Script
<1>6. LockOwner'
  BY <1>1 DEF IInv, LockOwner
<1>7. AsleepInAwait' /\ CallbackFrameAlive'
  BY <1>1, <1>4 DEF IInv, TypeOK, AsleepInAwait, CallbackFrameAlive
<1>8. OutOfLock'
  BY <1>1, <1>3, <1>4 DEF IInv, OutOfLock, Await
<1>9. \A d : UnderWay(d)' <=> UnderWay(d)
  BY <1>1 DEF UnderWay
<1>10. asked'[t] /\ (StepOf(t).op)' \in {"await", "unlockOrReturn"}
          => UnderWay(Promised(t)')
  <2>1. SUFFICES ASSUME asked'[t], (StepOf(t).op)' \in {"await", "unlockOrReturn"}
                 PROVE  UnderWay(Promised(t)')
    OBVIOUS
  <2>2. /\ StepOf(t).op = "unlockOrReturn" /\ asked[t]
        /\ StepOf(t)' = Await("allTags")
    BY <1>3, <1>4, <2>1
  <2>3. Promised(t) = "allTags" /\ Promised(t)' = "allTags"
    BY <2>2 DEF Promised, Await
  <2> QED
    BY <1>1, <1>2, <2>2, <2>3 DEF IInv, AnswerUnderWay
<1>11. AnswerUnderWay'
  BY <1>1, <1>2, <1>4, <1>9, <1>10 DEF IInv, AnswerUnderWay
<1> QED
  BY <1>5, <1>6, <1>7, <1>8, <1>11 DEF IInv

(* A packet that leaves the line becomes the notices in hand.              *)
LEMMA ReceiveInv == ASSUME IInv, Receive PROVE IInv'
<1>1. /\ wire \in Seq(Wire) /\ wire # <<>> /\ notices = <<>>
      /\ notices' = Notices(Head(wire)) /\ wire' = Tail(wire)
      /\ UNCHANGED <<mutex, conds, pc, at, asked, missed, timer>>
  BY DEF IInv, TypeOK, Receive, Wire
<1>2. /\ wire' \in Seq(Wire) /\ Head(wire) \in Wire
      /\ \A i \in 1..Len(wire) : \/ wire[i] = Head(wire)
                                 \/ \E j \in 1..Len(wire') : wire'[j] = wire[i]
  BY <1>1, TailKeeps
<1>3. notices' \in Seq(Cmds)
  BY <1>1, <1>2, NoticesType
<1>4. ASSUME NEW d, UnderWay(d)
      PROVE  UnderWay(d)'
  <2>1. PICK i \in 1..Len(wire) : Notifies(wire[i], d)
    BY <1>1, <1>4 DEF UnderWay
  <2>2. CASE wire[i] = Head(wire)
    BY <1>1, <2>1, <2>2 DEF UnderWay, Notifies
  <2>3. CASE \E j \in 1..Len(wire') : wire'[j] = wire[i]
    BY <2>1, <2>3 DEF UnderWay
  <2> QED
    BY <1>2, <2>1, <2>2, <2>3
<1>5. \A u \in Threads : StepOf(u)' = StepOf(u) /\ Promised(u)' = Promised(u)
  BY <1>1 DEF StepOf, Script, Promised
<1>6. TypeOK'
  BY <1>1, <1>2, <1>3 DEF IInv, TypeOK, Script, Wire
<1>7. LockOwner' /\ AsleepInAwait' /\ OutOfLock' /\ CallbackFrameAlive'
  BY <1>1, <1>5 DEF IInv, LockOwner, AsleepInAwait, OutOfLock, CallbackFrameAlive
<1>8. AnswerUnderWay'
  BY <1>1, <1>4, <1>5 DEF IInv, AnswerUnderWay
<1> QED
  BY <1>6, <1>7, <1>8 DEF IInv

(* The one step that takes a notification away.  It needs the lock, so no  *)
(* thread is between a request and a wait in one scope; whoever sleeps on  *)
(* the condition is woken, for AsleepInAwait says that the condition       *)
(* exists, and whoever is out of the lock on the way to it has missed it.  *)
LEMMA NotifyInv == ASSUME IInv, NotifyOneCmdResult PROVE IInv'
<1> DEFINE c == Head(notices)
<1>1. /\ notices \in Seq(Cmds) /\ notices # <<>> /\ notices' = Tail(notices)
      /\ mutex = Nobody /\ UNCHANGED <<mutex, conds, at, asked, timer, wire>>
      /\ Nobody \notin Threads /\ missed \in [Threads -> BOOLEAN]
  BY ThreadsAssumption DEF IInv, TypeOK, NotifyOneCmdResult, Threads
<1>2. /\ pc' \in [Threads -> {"out", "in", "waiting", "woken"}]
      /\ \A u \in Threads :
            pc'[u] = pc[u] \/ (pc[u] = "waiting" /\ pc'[u] = "woken")
      /\ \A u \in Threads : pc'[u] = "waiting" => StepOf(u).cmd # c
  BY DEF IInv, TypeOK, AsleepInAwait, NotifyOneCmdResult, NotifyAll, Waiters
<1>3. missed' = [u \in Threads |-> missed[u] \/ (pc[u] = "out" /\ StepOf(u) = Await(c))]
  BY DEF NotifyOneCmdResult, NotifyAll
<1>4. /\ notices' \in Seq(Cmds)
      /\ \A i \in 1..Len(notices) : \/ notices[i] = c
                                    \/ \E j \in 1..Len(notices') : notices'[j] = notices[i]
  BY <1>1, TailKeeps
<1>5. \A d : d # c /\ UnderWay(d) => UnderWay(d)'
  BY <1>1, <1>4 DEF UnderWay
<1>6. /\ LockOwner' /\ AsleepInAwait' /\ OutOfLock' /\ CallbackFrameAlive'
      /\ \A u \in Threads : StepOf(u)' = StepOf(u) /\ Promised(u)' = Promised(u)
  BY <1>1, <1>2, WakeInv
<1>7. TypeOK'
  <2>1. missed' \in [Threads -> BOOLEAN]
    BY <1>1, <1>3
  <2> QED
    BY <1>1, <1>2, <1>4, <2>1 DEF IInv, TypeOK, Script
<1>8. \A u \in Threads : pc[u] # "in"
  BY <1>1 DEF IInv, LockOwner
<1>9. ASSUME NEW u \in Threads, asked[u], pc'[u] # "woken",
             StepOf(u).op \in {"await", "unlockOrReturn"}
      PROVE  UnderWay(Promised(u))' \/ missed'[u]
  <2>1. UnderWay(Promised(u)) \/ missed[u]
    BY <1>2, <1>9 DEF IInv, AnswerUnderWay
  <2>2. pc[u] \in {"out", "waiting"}
    BY <1>2, <1>8, <1>9 DEF IInv, TypeOK
  <2>3. CASE missed[u]
    BY <1>3, <2>3
  <2>4. CASE UnderWay(Promised(u)) /\ Promised(u) # c
    BY <1>5, <1>6, <2>4
  <2>5. CASE Promised(u) = c /\ pc[u] = "waiting"
    BY <1>2, <1>9, <2>5 DEF IInv, AsleepInAwait, Promised
  <2>6. CASE Promised(u) = c /\ pc[u] = "out"
    <3>1. StepOf(u) = Await(c)
      BY <1>9, <2>6 DEF IInv, OutOfLock, Promised, Await
    <3> QED
      BY <1>3, <2>6, <3>1
  <2> QED
    BY <2>1, <2>2, <2>3, <2>4, <2>5, <2>6
<1>10. ASSUME NEW u \in Threads, missed'[u]
       PROVE  StepOf(u) = Await("allTags")
  <2>1. CASE missed[u]
    BY <2>1 DEF IInv, AnswerUnderWay
  <2>2. CASE pc[u] = "out" /\ StepOf(u) = Await(c)
    BY <2>2 DEF IInv, OutOfLock, Await
  <2> QED
    BY <1>3, <1>10, <2>1, <2>2
<1>11. AnswerUnderWay'
  BY <1>1, <1>6, <1>9, <1>10 DEF AnswerUnderWay
<1> QED
  BY <1>6, <1>7, <1>11 DEF IInv
-----------------------------------------------------------------------------
(* IInv is inductive: every step of a thread, of the timer and of the      *)
(* serial thread preserves it.                                             *)
THEOREM StepInv == IInv /\ [Next]_vars => IInv'
<1> SUFFICES ASSUME IInv, [Next]_vars PROVE IInv'
  OBVIOUS
<1>1. ASSUME NEW t \in Threads, ThreadStep(t) PROVE IInv'
  BY <1>1, LockInv, WriteInv, BeginWaitInv, ExpireInv, EndWaitInv, LeaveLockInv
     DEF ThreadStep
<1>2. CASE Receive
  BY <1>2, ReceiveInv
<1>3. CASE NotifyOneCmdResult
  BY <1>3, NotifyInv
<1>4. CASE UNCHANGED vars
  BY <1>4 DEF vars, IInv, TypeOK, LockOwner, AsleepInAwait, OutOfLock,
              AnswerUnderWay, CallbackFrameAlive, UnderWay, Promised, StepOf, Script
<1> QED
  BY <1>1, <1>2, <1>3, <1>4 DEF Next

(* So IInv holds in every state.                                           *)
THEOREM Invariance == Spec => []IInv
<1> QED
  BY InitInv, StepInv, PTL DEF Spec

(* The variables keep their types, and no script runs past its end.        *)
THEOREM TypeCorrect == Spec => []TypeOK
<1>1. IInv => TypeOK
  BY DEF IInv
<1> QED
  BY <1>1, Invariance, PTL

(* For any number of threads and any line: the timer's callback never      *)
(* outlives the frame it refers to, whoever replaces or resets the timer.  *)
THEOREM TimerInFrame == Spec => []CallbackFrameAlive
<1>1. IInv => CallbackFrameAlive
  BY DEF IInv
<1> QED
  BY <1>1, Invariance, PTL

(* For any number of threads and any line: an answered request leaves its  *)
(* thread asleep with the notification gone only if it asked for the tags  *)
(* of the buffer and the last of them came between its two lock scopes.    *)
THEOREM NoReplyMissed == Spec => []NoLostWakeup
<1>1. IInv => NoLostWakeup
  BY DEF IInv, AsleepInAwait, AnswerUnderWay, NoLostWakeup, Promised
<1> QED
  BY <1>1, Invariance, PTL
=============================================================================
