----------------------------- MODULE TagBuffers -----------------------------
(***************************************************************************)
(* RfidController's tag buffers: how the polls of an inventory fill them   *)
(* and what is reported of them.                                           *)
(*                                                                         *)
(* In a poll the inventory thread has the reader look for tags, asks how   *)
(* many it holds, and has it send and forget them; the serial thread puts  *)
(* each tag that arrives into _buffered_data (this poll), _accumulate_data *)
(* (this inventory) and _prob_read_data (a count for each tag).            *)
(*                                                                         *)
(* A wait ends with its answer or with its timeout: it is assumed to keep  *)
(* its timer, which module ReplyWait shows no two threads do that wait at  *)
(* once, and not to wake up for nothing.  The reader and the serial line   *)
(* are outside the program.  One inventory runs at a time (module          *)
(* InventoryControl).                                                      *)
(***************************************************************************)
EXTENDS Naturals, Sequences, FiniteSets

CONSTANTS Tags,       \* the tags there are
          Attempts,   \* _attempt_read_num: attempts of a poll while a door is open
          MaxPolls,   \* bound: polls of the antennas in all
          MaxFaults   \* bound: requests and answers lost, and answers that
                      \*   come after their wait has timed out

ASSUME TagsAssumption == IsFiniteSet(Tags)
ASSUME BoundsAssumption ==
    Attempts \in Nat \ {0} /\ MaxPolls \in Nat /\ MaxFaults \in Nat

Kinds == {"open",     \* startInventory(true)
          "result",   \* startInventory(false); inventory(n, false) works alike
          "test"}     \* inventory(n, true)

VARIABLES held,         \* the tags in the reader's own buffer
          line,         \* the reader's answers under way, in order
          bufferedData, \* _buffered_data
          curReadData,  \* _cur_read_data
          readData,     \* _read_data
          accumulateData,  \* _accumulate_data
          probReadData, \* _prob_read_data: how often each tag was read
          curTagCount,  \* _cur_tag_count
          notice,       \* what the serial thread is about to notify of
          inv,          \* what the inventory thread does next
          kind,         \* its inventory
          attempt,      \* attempts made in the poll
          polls,        \* polls in all
          seen,         \* the tags the reader saw in this poll (history)
          found,        \* how many looks of this inventory saw each tag (history)
          faults        \* faults so far

reader == <<held, line>>
serial == <<curTagCount, notice>>
buffers == <<bufferedData, curReadData, readData, accumulateData, probReadData>>
progress == <<kind, attempt, polls>>
history == <<seen, found>>
vars == <<reader, buffers, serial, inv, progress, history, faults>>

NoCounts == [t \in Tags |-> 0]

Init == /\ held = {} /\ line = <<>>
        /\ bufferedData = {} /\ curReadData = {} /\ readData = {}
        /\ accumulateData = {}
        /\ probReadData = NoCounts
        /\ curTagCount = 0 /\ notice = "none"
        /\ inv = "idle" /\ kind = "result"
        /\ attempt = 0 /\ polls = 0
        /\ seen = {} /\ found = NoCounts
        /\ faults = 0

Fault == faults < MaxFaults /\ faults' = faults + 1
-----------------------------------------------------------------------------
(* The inventory thread. *)

(* Mutant: startInventory does not clear _accumulate_data. *)
StartKeepsTags(k) ==
    /\ inv = "idle"
    /\ polls < MaxPolls
    /\ kind' = k
    /\ probReadData' = IF k = "test" THEN NoCounts ELSE probReadData
    /\ seen' = {} /\ found' = NoCounts
    /\ inv' = "poll"
    /\ UNCHANGED <<reader, bufferedData, curReadData, readData, accumulateData,
                   serial, attempt, polls, faults>>

(* Mutant: a test does not clear _prob_read_data. *)
StartKeepsCounts(k) ==
    /\ inv = "idle"
    /\ polls < MaxPolls
    /\ kind' = k
    /\ accumulateData' = {}
    /\ seen' = {} /\ found' = NoCounts
    /\ inv' = "poll"
    /\ UNCHANGED <<reader, bufferedData, curReadData, readData, probReadData,
                   serial, attempt, polls, faults>>

StartInventory(k) ==
    /\ inv = "idle"
    /\ polls < MaxPolls
    /\ kind' = k
    /\ accumulateData' = {}
    /\ probReadData' = IF k = "test" THEN NoCounts ELSE probReadData
    /\ seen' = {} /\ found' = NoCounts
    /\ inv' = "poll"
    /\ UNCHANGED <<reader, bufferedData, curReadData, readData, serial, attempt,
                   polls, faults>>

(* Mutant: a poll does not clear _cur_read_data. *)
BeginPollKeepsTags ==
    /\ inv = "poll"
    /\ polls < MaxPolls
    /\ polls' = polls + 1
    /\ attempt' = 0
    /\ seen' = {}
    /\ inv' = "inventory"
    /\ UNCHANGED <<reader, bufferedData, curReadData, readData, accumulateData,
                   probReadData, serial, kind, found, faults>>

BeginPoll == /\ inv = "poll"
             /\ polls < MaxPolls
             /\ polls' = polls + 1
             /\ attempt' = 0
             /\ curReadData' = {}
             /\ seen' = {}
             /\ inv' = "inventory"
             /\ UNCHANGED <<reader, bufferedData, readData, accumulateData, probReadData,
                            serial, kind, found, faults>>

(* bufferReadProcess: the reader adds the tags it sees to those it holds.  *)
(* readFromBufferAndReset then asks for their number.                      *)
CountAnswer == [type |-> "count", n |-> Cardinality(held'), tags |-> {}]

Inventory == /\ inv = "inventory"
             /\ \E S \in SUBSET Tags :
                  /\ held' = held \cup S
                  /\ seen' = seen \cup S
                  /\ found' = [t \in Tags |-> found[t] + IF t \in S THEN 1 ELSE 0]
             /\ \/ line' = Append(line, CountAnswer) /\ UNCHANGED faults
                \/ line' = line /\ Fault
             /\ attempt' = attempt + 1
             /\ inv' = "awaitCount"
             /\ UNCHANGED <<buffers, serial, kind, polls>>

(* Awake again, the thread clears _buffered_data and has the reader send   *)
(* its tags and forget them.  With no tags to come it waits for none.      *)
TagsAnswer == [type |-> "tags", n |-> Cardinality(held), tags |-> held]

GetAndReset ==
    /\ inv = "counted"
    /\ bufferedData' = {}
    /\ \/ /\ line' = IF held = {} THEN line ELSE Append(line, TagsAnswer)
          /\ held' = {}
          /\ UNCHANGED faults
       \/ /\ Fault
          /\ UNCHANGED reader
    /\ inv' = IF curTagCount = 0 THEN "read" ELSE "toAwaitTags"
    /\ UNCHANGED <<curReadData, readData, accumulateData, probReadData, serial,
                   progress, history>>

(* The lock was released in between: what arrived meanwhile notified nobody.*)
AwaitTags == /\ inv = "toAwaitTags"
             /\ inv' = "awaitTags"
             /\ UNCHANGED <<reader, buffers, serial, progress, history, faults>>

(* Of a reliable line nothing is to come when the wait times out. *)
NothingComes == line = <<>> /\ notice = "none"

(* Mutant: the wait for the tags has no timeout. *)
TimeoutOfCount ==
    /\ inv = "awaitCount"
    /\ IF NothingComes THEN UNCHANGED faults ELSE Fault
    /\ inv' = "counted"
    /\ UNCHANGED <<reader, buffers, serial, progress, history>>

Timeout == /\ inv \in {"awaitCount", "awaitTags"}
           /\ IF NothingComes THEN UNCHANGED faults ELSE Fault
           /\ inv' = IF inv = "awaitCount" THEN "counted" ELSE "received"
           /\ UNCHANGED <<reader, buffers, serial, progress, history>>

CopyBuffer == /\ inv = "received"
              /\ curReadData' = bufferedData
              /\ inv' = "read"
              /\ UNCHANGED <<reader, bufferedData, readData, accumulateData,
                             probReadData, serial, progress, history, faults>>

AgainOrCompare == /\ inv = "read"
                  /\ inv' = IF kind = "open" /\ attempt < Attempts
                              THEN "inventory" ELSE "compare"
                  /\ UNCHANGED <<reader, buffers, serial, progress, history, faults>>

(* compareBuffers(false): the difference to the last poll is computed, but *)
(* sent only with need_result_.  _cur_read_data then becomes _read_data.   *)
CompareBuffers ==
    /\ inv = "compare"
    /\ readData' = curReadData
    /\ inv' = "poll"
    /\ UNCHANGED <<reader, bufferedData, curReadData, accumulateData, probReadData,
                   serial, progress, history, faults>>

(* An open-ended inventory polls until it is stopped, a counted one as     *)
(* often as it was told.                                                   *)
EndPolls == /\ inv = "poll"
            /\ inv' = "report"
            /\ UNCHANGED <<reader, buffers, serial, progress, history, faults>>

(* verifyBuffer sends the counts of a test, currentBuffer or, after a      *)
(* stop, accumulateBuffer the tags: what the buffers hold in this step.    *)
Report == /\ inv = "report"
          /\ inv' = "idle"
          /\ UNCHANGED <<reader, buffers, serial, progress, history, faults>>
-----------------------------------------------------------------------------
(* The serial thread.  An answer is stored, and then, in a lock scope of   *)
(* its own, notified of.                                                   *)
ReceiveCount == /\ notice = "none"
                /\ line # <<>> /\ Head(line).type = "count"
                /\ curTagCount' = Head(line).n
                /\ line' = Tail(line)
                /\ notice' = "count"
                /\ UNCHANGED <<held, buffers, inv, progress, history, faults>>

(* The tags come in any order; the answer is over with its last tag.       *)
TakeTag(t) == /\ line # <<>> /\ Head(line).type = "tags" /\ t \in Head(line).tags
              /\ line' = IF Head(line).tags = {t} THEN Tail(line)
                         ELSE [line EXCEPT ![1].tags = @ \ {t}]

OnReadData(t) ==
    /\ notice = "none"
    /\ TakeTag(t)
    /\ probReadData' = [probReadData EXCEPT ![t] = @ + 1]
    /\ accumulateData' = accumulateData \cup {t}
    /\ bufferedData' = bufferedData \cup {t}
    /\ notice' = IF Cardinality(bufferedData') = Head(line).n THEN "tags" ELSE "none"
    /\ UNCHANGED <<held, curReadData, readData, curTagCount, inv, progress, history,
                   faults>>

NotifyOneCmdResult ==
    /\ notice # "none"
    /\ notice' = "none"
    /\ inv' = CASE notice = "count" /\ inv = "awaitCount" -> "counted"
                [] notice = "tags" /\ inv = "awaitTags" -> "received"
                [] OTHER -> inv
    /\ UNCHANGED <<reader, buffers, curTagCount, progress, history, faults>>

LoseAnswer == /\ Fault
              /\ line # <<>>
              /\ \/ line' = Tail(line)
                 \/ \E t \in Tags : TakeTag(t)
              /\ UNCHANGED <<held, buffers, serial, inv, progress, history>>

InventoryThread == \/ BeginPoll \/ Inventory \/ GetAndReset \/ AwaitTags \/ Timeout
                   \/ CopyBuffer \/ AgainOrCompare \/ CompareBuffers \/ Report

SerialThread == ReceiveCount \/ NotifyOneCmdResult \/ \E t \in Tags : OnReadData(t)

Next == \/ \E k \in Kinds : StartInventory(k)
        \/ EndPolls
        \/ InventoryThread \/ SerialThread \/ LoseAnswer

Spec == Init /\ [][Next]_vars

(* Both threads are scheduled and timers expire. *)
FairSpec == Spec /\ WF_vars(InventoryThread) /\ WF_vars(SerialThread)
-----------------------------------------------------------------------------
TypeOK == /\ held \subseteq Tags
          /\ line \in Seq([type : {"count", "tags"}, n : 0..Cardinality(Tags),
                           tags : SUBSET Tags])
          /\ bufferedData \subseteq Tags /\ curReadData \subseteq Tags
          /\ readData \subseteq Tags /\ accumulateData \subseteq Tags
          /\ probReadData \in [Tags -> Nat]
          /\ curTagCount \in 0..Cardinality(Tags)
          /\ notice \in {"none", "count", "tags"}
          /\ inv \in {"idle", "poll", "inventory", "awaitCount", "counted",
                      "toAwaitTags", "awaitTags", "received", "read", "compare",
                      "report"}
          /\ kind \in Kinds
          /\ attempt \in 0..Attempts
          /\ polls \in 0..MaxPolls
          /\ faults \in 0..MaxFaults
          /\ seen \subseteq Tags /\ found \in [Tags -> 0..(MaxPolls * Attempts)]

(* The line has lost nothing so far and kept no thread waiting too long.   *)
(* What a count left by an earlier poll does to the next is not said.      *)
Reliable == faults = 0

(* What an inventory has accumulated when it reports is exactly what the   *)
(* reader saw in its polls, though the notification of the last tags may   *)
(* have come before the wait for it.                                       *)
AccumulatedIsFound ==
    Reliable /\ inv = "report" => accumulateData = {t \in Tags : found[t] > 0}

(* A poll is compared on what the reader saw in that poll.                 *)
PollsDoNotMix == Reliable /\ inv = "compare" => curReadData \subseteq seen

(* A test, from which findBrokenLabels judges the tags, reports for each   *)
(* tag in how many of its polls the reader saw it.                         *)
TestCountsPolls ==
    Reliable /\ inv = "report" /\ kind = "test" => probReadData = found

(* Whatever the line loses and delays, a poll ends: a lost answer, one     *)
(* that comes too late, or the count of an earlier poll, which the thread  *)
(* then uses, costs a timeout at most.                                     *)
PollEnds == inv = "inventory" ~> inv = "compare"
=============================================================================
