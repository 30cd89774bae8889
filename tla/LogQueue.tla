------------------------------- MODULE LogQueue -------------------------------
(***************************************************************************)
(* Log: the queue of messages and the one thread that outputs them.        *)
(*                                                                         *)
(* Any thread prints; the message is queued under _mutex and the log's     *)
(* thread, that sleeps on _cond while the queue is empty, is notified.     *)
(* stop() lowers _is_run and notifies without taking the mutex, then joins *)
(* the thread: between its test of _is_run and its wait the thread does    *)
(* not hear it.                                                            *)
(*                                                                         *)
(* An entry n of the queue is the n-th message accepted, an entry -n the   *)
(* "Log max queue size exceeded!" that took the place of a full queue and  *)
(* of that message.  All levels are on; the text is left out.              *)
(***************************************************************************)
EXTENDS Integers, Sequences

CONSTANTS Writers,     \* the threads that print
          MaxQueue,    \* LOG_MAX_QUEUE_SIZE
          MaxPrints    \* bound: messages accepted

ASSUME WritersAssumption == {"none", "log"} \cap Writers = {}
ASSUME MaxQueueAssumption == MaxQueue \in Nat \ {0}
ASSUME MaxPrintsAssumption == MaxPrints \in Nat

VARIABLES mutex,     \* who holds _mutex: a writer, "log" or "none"
          thread,    \* the log's thread: its next step in execute
          isRun,     \* _is_run
          queue,     \* _queue
          task,      \* the entry the thread has taken
          stopping,  \* stop(): "no", "notify", "join", "done"
          missed,    \* its notification found the thread about to wait (history)
          prints,    \* messages accepted (history)
          out        \* entries written (history)

logVars == <<mutex, thread, isRun, queue, task, stopping, missed, prints, out>>

LogInit == /\ mutex = "none"
           /\ thread = "lock"
           /\ isRun = TRUE
           /\ queue = <<>>
           /\ task = 0
           /\ stopping = "no"
           /\ missed = FALSE
           /\ prints = 0
           /\ out = <<>>

Notified == IF thread = "asleep" THEN "lock" ELSE thread
-----------------------------------------------------------------------------
Lock(w) == /\ mutex = "none"
           /\ mutex' = w
           /\ UNCHANGED <<thread, isRun, queue, task, stopping, missed, prints, out>>

(* Mutant: a full queue is emptied and nothing says so. *)
EmptyQueued(n) == IF Len(queue) < MaxQueue THEN Append(queue, n) ELSE <<n>>

(* A full queue is swapped out and one error message left in its place. *)
Queued(n) == IF Len(queue) < MaxQueue THEN Append(queue, n) ELSE <<-n>>

(* print, in the hands of the thread that holds the mutex. *)
PrintMessage(w) ==
    /\ mutex = w
    /\ mutex' = "none"
    /\ IF isRun
         THEN /\ prints' = prints + 1
              /\ queue' = Queued(prints')
              /\ thread' = Notified
         ELSE UNCHANGED <<prints, queue, thread>>
    /\ UNCHANGED <<isRun, task, stopping, missed, out>>

ThreadLocks == /\ thread = "lock" /\ mutex = "none"
               /\ mutex' = "log"
               /\ thread' = "test"
               /\ UNCHANGED <<isRun, queue, task, stopping, missed, prints, out>>

Take == /\ thread = "test" /\ queue # <<>>
        /\ task' = Head(queue)
        /\ queue' = Tail(queue)
        /\ mutex' = "none"
        /\ thread' = "write"
        /\ UNCHANGED <<isRun, stopping, missed, prints, out>>

(* Mutant: stopped, the thread leaves without a look at the queue. *)
EndEarly == /\ thread = "test" /\ ~isRun
            /\ mutex' = "none"
            /\ thread' = "ended"
            /\ UNCHANGED <<isRun, queue, task, stopping, missed, prints, out>>

ThreadEnds == /\ thread = "test" /\ queue = <<>> /\ ~isRun
              /\ mutex' = "none"
              /\ thread' = "ended"
              /\ UNCHANGED <<isRun, queue, task, stopping, missed, prints, out>>

ThreadFindsNothing == /\ thread = "test" /\ queue = <<>> /\ isRun
                      /\ thread' = "wait"
                      /\ UNCHANGED <<mutex, isRun, queue, task, stopping, missed,
                                     prints, out>>

ThreadWaits == /\ thread = "wait"
               /\ mutex' = "none"
               /\ thread' = "asleep"
               /\ UNCHANGED <<isRun, queue, task, stopping, missed, prints, out>>

ThreadWrites == /\ thread = "write"
                /\ out' = Append(out, task)
                /\ thread' = "lock"
                /\ UNCHANGED <<mutex, isRun, queue, task, stopping, missed, prints>>
-----------------------------------------------------------------------------
StopLowers == /\ stopping = "no"
              /\ isRun' = FALSE
              /\ stopping' = "notify"
              /\ UNCHANGED <<mutex, thread, queue, task, missed, prints, out>>

(* Mutant: stop() leaves the sleeping thread asleep. *)
StopSilently == /\ stopping = "notify"
                /\ stopping' = "join"
                /\ UNCHANGED <<mutex, thread, isRun, queue, task, missed, prints, out>>

StopNotifies == /\ stopping = "notify"
                /\ thread' = Notified
                /\ missed' = (thread = "wait")
                /\ stopping' = "join"
                /\ UNCHANGED <<mutex, isRun, queue, task, prints, out>>

StopJoins == /\ stopping = "join" /\ thread = "ended"
             /\ stopping' = "done"
             /\ UNCHANGED <<mutex, thread, isRun, queue, task, missed, prints, out>>

ThreadStep == \/ ThreadLocks \/ Take \/ ThreadEnds \/ ThreadFindsNothing
              \/ ThreadWaits \/ ThreadWrites
StopStep == StopNotifies \/ StopJoins
LogNext == \/ ThreadStep \/ StopLowers \/ StopStep
           \/ \E w \in Writers : (prints < MaxPrints /\ Lock(w)) \/ PrintMessage(w)

LogSpec == LogInit /\ [][LogNext]_logVars
-----------------------------------------------------------------------------
Entries == -MaxPrints..MaxPrints

LogTypeOK == /\ mutex \in Writers \cup {"log", "none"}
             /\ thread \in {"lock", "test", "wait", "asleep", "write", "ended"}
             /\ isRun \in BOOLEAN
             /\ queue \in Seq(Entries) /\ Len(queue) <= MaxQueue
             /\ task \in Entries
             /\ stopping \in {"no", "notify", "join", "done"}
             /\ missed \in BOOLEAN
             /\ prints \in 0..MaxPrints
             /\ out \in Seq(Entries)

Number(e) == IF e < 0 THEN -e ELSE e

Kept == out \o (IF thread = "write" THEN <<task>> ELSE <<>>) \o queue

(* Messages are written in the order in which they were accepted, and one *)
(* that a full queue lost is followed by the error that says so, with no   *)
(* later message in between.                                               *)
InOrder == \A i, j \in 1..Len(Kept) : i < j => Number(Kept[i]) < Number(Kept[j])

Reported(n) == \E i \in 1..Len(Kept) :
                  \/ Kept[i] = n
                  \/ Kept[i] <= -n /\ \A j \in 1..(i - 1) : Number(Kept[j]) < n

LossIsReported == InOrder /\ \A n \in 1..prints : Reported(n)
=============================================================================
