--------------------------- MODULE TagBuffers_proofs ---------------------------
(***************************************************************************)
(* Proofs about TagBuffers, for any tags, attempts and polls.              *)
(*                                                                         *)
(* As long as the line loses nothing, the thread and the reader take turns:*)
(* one answer is under way at most, and every tag the reader has seen is   *)
(* in one place, held by the reader, under way, or in the buffers.         *)
(***************************************************************************)
EXTENDS TagBuffers, FiniteSetTheorems, SequenceTheorems, TLAPS

Answers == [type : {"count", "tags"}, n : 0..Cardinality(Tags), tags : SUBSET Tags]

(* What the reader has sent and the serial thread has not yet taken. *)
Pending == IF line = <<>> THEN {} ELSE Head(line).tags

(* The tags of an answer are those that are still to come of as many as it *)
(* announced; the ones that came are in _buffered_data.                    *)
TagsUnderWay ==
    \E T \in SUBSET Tags :
       /\ T # {} /\ T \cap bufferedData = {}
       /\ line = <<[type |-> "tags", n |-> Cardinality(T \cup bufferedData), tags |-> T]>>

(* The turns that the thread, the reader and the line take in a poll.      *)
Turns ==
    /\ inv \notin {"awaitCount", "counted"} => held = {}
    /\ inv \notin {"awaitCount", "toAwaitTags", "awaitTags"} => NothingComes
    /\ inv = "awaitCount" =>
         \/ /\ notice = "none"
            /\ line = <<[type |-> "count", n |-> Cardinality(held), tags |-> {}]>>
         \/ notice = "count" /\ line = <<>> /\ curTagCount = Cardinality(held)
    /\ inv = "counted" => curTagCount = Cardinality(held)
    /\ inv \in {"toAwaitTags", "awaitTags"} =>
         \/ notice = "none" /\ (line = <<>> \/ TagsUnderWay)
         \/ notice = "tags" /\ line = <<>>

(* Every tag that a look of this inventory saw is somewhere on its way. *)
FoundIsOnItsWay ==
    inv # "idle" => accumulateData \cup held \cup Pending = {t \in Tags : found[t] > 0}

(* In a test a tag on its way is yet to be counted, once. *)
CountsAreComplete ==
    inv # "idle" /\ kind = "test" =>
      \A t \in Tags :
         found[t] = probReadData[t] + IF t \in held \cup Pending THEN 1 ELSE 0

(* What is read in a poll is what the reader saw in that poll. *)
ReadIsSeen ==
    /\ inv \notin {"idle", "poll", "report"} => curReadData \cup held \subseteq seen
    /\ inv \in {"toAwaitTags", "awaitTags", "received"} =>
         bufferedData \cup Pending \subseteq seen

Ledger == Turns /\ FoundIsOnItsWay /\ CountsAreComplete /\ ReadIsSeen

(* A poll makes no more attempts than it may, and each adds one look. *)
LooksAreCounted ==
    /\ inv = "inventory" => attempt < Attempts
    /\ inv \notin {"idle", "poll", "report"} => polls > 0
    /\ \A t \in Tags : found[t] = 0 \/ found[t] + Attempts <= polls * Attempts + attempt

IInv == TypeOK /\ LooksAreCounted /\ (Reliable => Ledger)
-----------------------------------------------------------------------------
(* How many tags a set of them holds. *)
LEMMA TagCounts ==
    ASSUME NEW S \in SUBSET Tags
    PROVE  Cardinality(S) \in 0..Cardinality(Tags) /\ (Cardinality(S) = 0 <=> S = {})
<1>1. IsFiniteSet(Tags) /\ IsFiniteSet(S)
  BY TagsAssumption, FS_Subset
<1> QED
  BY <1>1, FS_Subset, FS_CardinalityType, FS_EmptySet

(* Two sets of tags, of which one is part of the other, are the same if    *)
(* they count the same.                                                    *)
LEMMA SameTags ==
    ASSUME NEW S \in SUBSET Tags, NEW T \in SUBSET S, Cardinality(T) = Cardinality(S)
    PROVE  T = S
BY TagsAssumption, FS_Subset

(* The first answer under way. *)
LEMMA FirstAnswer ==
    ASSUME line \in Seq(Answers), line # <<>>
    PROVE  /\ Head(line) \in Answers /\ Tail(line) \in Seq(Answers)
           /\ Len(line) \in Nat \ {0} /\ Head(line) = line[1]
<1>1. Len(line) \in Nat \ {0}
  BY EmptySeq
<1> QED
  BY <1>1, HeadTailProperties, ElementOfSeq

(* A line with one answer. *)
LEMMA OneAnswer ==
    ASSUME NEW a, NEW b
    PROVE  /\ <<a>> # <<>> /\ Head(<<a>>) = a /\ Tail(<<a>>) = <<>>
           /\ Append(<<>>, a) = <<a>>
           /\ [<<a>> EXCEPT ![1] = b] = <<b>>
OBVIOUS

LEMMA InitInv == Init => IInv
<1> SUFFICES ASSUME Init PROVE IInv
  OBVIOUS
<1>1. Cardinality(Tags) \in Nat
  BY TagsAssumption, FS_CardinalityType
<1>2. TypeOK
  BY <1>1, BoundsAssumption DEF Init, TypeOK, NoCounts, Kinds
<1>3. LooksAreCounted
  BY DEF Init, LooksAreCounted, NoCounts
<1>4. Ledger
  BY DEF Init, Ledger, Turns, FoundIsOnItsWay, CountsAreComplete, ReadIsSeen, NothingComes
<1> QED
  BY <1>2, <1>3, <1>4 DEF IInv

(* What is taken off the line or put on it leaves it a line of answers.    *)
LEMMA LineType ==
    ASSUME line \in Seq(Answers)
    PROVE  /\ line # <<>> => Tail(line) \in Seq(Answers)
           /\ \A a \in Answers : Append(line, a) \in Seq(Answers)
           /\ \A t \in Tags : TakeTag(t) => line' \in Seq(Answers)
<1>1. ASSUME NEW t \in Tags, TakeTag(t) PROVE line' \in Seq(Answers)
  <2>1. /\ line # <<>> /\ Len(line) \in Nat \ {0}
        /\ line[1] \in Answers /\ Tail(line) \in Seq(Answers)
    BY <1>1, FirstAnswer DEF TakeTag
  <2> DEFINE rest == [line[1] EXCEPT !.tags = @ \ {t}]
  <2>2. rest \in Answers
    BY <2>1 DEF Answers
  <2>3. [line EXCEPT ![1].tags = @ \ {t}] = [line EXCEPT ![1] = rest]
    OBVIOUS
  <2>4. [line EXCEPT ![1].tags = @ \ {t}] \in Seq(Answers)
    <3>1. 1 \in 1..Len(line)
      BY <2>1
    <3> HIDE DEF rest
    <3> QED
      BY <2>2, <2>3, <3>1, ExceptSeq
  <2> QED
    BY <1>1, <2>1, <2>4 DEF TakeTag
<1> QED
  BY <1>1, FirstAnswer, AppendProperties

(* Whatever a step does, the types stay. *)
LEMMA TypeStep == ASSUME TypeOK, LooksAreCounted, [Next]_vars PROVE TypeOK' /\ LooksAreCounted'
<1> USE BoundsAssumption DEF TypeOK, LooksAreCounted, reader, serial, buffers, progress,
           history
<1> DEFINE Line == line \in Seq(Answers)
<1>0. /\ Line
      /\ Line' => line' \in Seq([type : {"count", "tags"}, n : 0..Cardinality(Tags),
                                 tags : SUBSET Tags])
  BY DEF Answers
<1> HIDE DEF Line
<1>01. line' = line => Line'
  BY <1>0 DEF Line
<1>1. ASSUME NEW k \in Kinds, StartInventory(k) PROVE TypeOK' /\ LooksAreCounted'
  BY <1>1, <1>0, <1>01 DEF StartInventory, NoCounts
<1>2. CASE BeginPoll
  <2>1. polls + 1 \in 0..MaxPolls /\ (polls + 1) * Attempts = polls * Attempts + Attempts
    BY <1>2 DEF BeginPoll
  <2> QED
    BY <1>2, <1>0, <1>01, <2>1 DEF BeginPoll
<1>3. CASE Inventory
  <2>1. PICK S \in SUBSET Tags :
          /\ held' = held \cup S /\ seen' = seen \cup S
          /\ found' = [t \in Tags |-> found[t] + IF t \in S THEN 1 ELSE 0]
    BY <1>3 DEF Inventory
  <2>2. CountAnswer \in Answers
    BY <2>1, TagCounts DEF CountAnswer, Answers
  <2>3. Line'
    BY <1>0, <1>3, <2>2, LineType DEF Inventory, Line
  <2>4. attempt < Attempts /\ polls > 0 /\ polls' = polls /\ attempt' = attempt + 1
    BY <1>3 DEF Inventory
  <2>5. /\ polls * Attempts \in Nat /\ MaxPolls * Attempts \in Nat
        /\ polls * Attempts <= MaxPolls * Attempts /\ Attempts <= polls * Attempts
    BY <2>4
  <2>6. attempt' \in 0..Attempts
    BY <2>4
  <2>7. ASSUME NEW t \in Tags
        PROVE  /\ found'[t] \in 0..(MaxPolls * Attempts)
               /\ found'[t] = 0 \/ found'[t] + Attempts <= polls' * Attempts + attempt'
    <3>1. found'[t] = found[t] + IF t \in S THEN 1 ELSE 0
      BY <2>1
    <3>2. found[t] \in Nat /\ (found[t] = 0 \/ found[t] + Attempts <= polls * Attempts + attempt)
      OBVIOUS
    <3> DEFINE p == polls * Attempts
               m == MaxPolls * Attempts
    <3>3. p \in Nat /\ m \in Nat /\ p <= m /\ Attempts <= p
      BY <2>5
    <3>4. polls' * Attempts = p
      BY <2>4
    <3>5. found[t] = 0 \/ found[t] + Attempts <= p + attempt
      BY <3>2
    <3> HIDE DEF p, m
    <3>6. found'[t] \in 0..m /\ (found'[t] = 0 \/ found'[t] + Attempts <= p + attempt')
      BY <2>4, <3>1, <3>2, <3>3, <3>5
    <3> QED
      BY <3>4, <3>6 DEF m
  <2>8. LooksAreCounted'
    BY <1>3, <2>4, <2>7 DEF Inventory
  <2>9. found' \in [Tags -> 0..(MaxPolls * Attempts)]
    BY <2>1, <2>7
  <2> QED
    BY <1>0, <1>3, <2>1, <2>3, <2>4, <2>6, <2>8, <2>9 DEF Inventory, Fault
<1>4. CASE GetAndReset
  <2>1. TagsAnswer \in Answers
    BY TagCounts DEF TagsAnswer, Answers
  <2>2. Line'
    BY <1>0, <1>4, <2>1, LineType DEF GetAndReset, Line
  <2> QED
    BY <1>0, <1>4, <2>2 DEF GetAndReset, Fault
<1>5. CASE AwaitTags \/ Timeout
  BY <1>5, <1>0, <1>01 DEF AwaitTags, Timeout, Fault
<1>6. CASE CopyBuffer \/ AgainOrCompare \/ CompareBuffers
  BY <1>6, <1>0, <1>01 DEF CopyBuffer, AgainOrCompare, CompareBuffers
<1>7. CASE EndPolls \/ Report
  BY <1>7, <1>0, <1>01 DEF EndPolls, Report
<1>8. CASE ReceiveCount
  <2>1. Line' /\ Head(line).n \in 0..Cardinality(Tags)
    BY <1>0, <1>8, FirstAnswer DEF ReceiveCount, Line, Answers
  <2> QED
    BY <1>0, <1>8, <2>1 DEF ReceiveCount
<1>81. CASE NotifyOneCmdResult
  BY <1>81, <1>0, <1>01 DEF NotifyOneCmdResult
<1>9. ASSUME NEW t \in Tags, OnReadData(t) PROVE TypeOK' /\ LooksAreCounted'
  <2>1. Line'
    BY <1>0, <1>9, LineType DEF OnReadData, Line
  <2> QED
    BY <1>0, <1>9, <2>1 DEF OnReadData
<1>10. CASE LoseAnswer
  <2>1. Line'
    BY <1>0, <1>10, LineType DEF LoseAnswer, Line
  <2> QED
    BY <1>0, <1>10, <2>1 DEF LoseAnswer, Fault
<1>11. CASE UNCHANGED vars
  BY <1>0, <1>01, <1>11 DEF vars
<1> QED
  BY <1>1, <1>2, <1>3, <1>4, <1>5, <1>6, <1>7, <1>8, <1>81, <1>9, <1>10,
     <1>11
  DEF Next, InventoryThread, SerialThread
-----------------------------------------------------------------------------
(* A fault is not forgotten. *)
LEMMA FaultsStay ==
    ASSUME TypeOK, [Next]_vars, Reliable'
    PROVE  Reliable /\ ~Fault
BY DEF TypeOK, Reliable, Fault, vars, Next, StartInventory, EndPolls, InventoryThread, BeginPoll,
       Inventory, GetAndReset, AwaitTags, Timeout, CopyBuffer, AgainOrCompare,
       CompareBuffers, Report, SerialThread, ReceiveCount,
       NotifyOneCmdResult, OnReadData, LoseAnswer

(* What is then under way is no count. *)
LEMMA TagsComeFirst == ASSUME TagsUnderWay PROVE line # <<>> /\ Head(line).type = "tags"
<1>1. PICK T \in SUBSET Tags :
        line = <<[type |-> "tags", n |-> Cardinality(T \cup bufferedData), tags |-> T]>>
  BY DEF TagsUnderWay
<1> DEFINE a == [type |-> "tags", n |-> Cardinality(T \cup bufferedData), tags |-> T]
<1>2. a.type = "tags"
  OBVIOUS
<1> HIDE DEF a
<1> QED
  BY <1>1, <1>2, OneAnswer DEF a

(* A tag that arrives: the rest of the answer is still under way, or the   *)
(* answer is over and _buffered_data has all of it.                        *)
LEMMA TagArrives ==
    ASSUME TypeOK, TagsUnderWay, NEW t \in Tags, TakeTag(t),
           bufferedData' = bufferedData \cup {t}
    PROVE  /\ t \in Pending
           /\ bufferedData' \cup Pending' = bufferedData \cup Pending
           /\ Pending' = Pending \ {t}
           /\ IF Cardinality(bufferedData') = Head(line).n THEN line' = <<>>
                                                           ELSE TagsUnderWay'
<1>1. PICK T \in SUBSET Tags :
        /\ T # {} /\ T \cap bufferedData = {}
        /\ line = <<[type |-> "tags", n |-> Cardinality(T \cup bufferedData), tags |-> T]>>
  BY DEF TagsUnderWay
<1> DEFINE a == [type |-> "tags", n |-> Cardinality(T \cup bufferedData), tags |-> T]
           b == [type |-> "tags", n |-> Cardinality(T \cup bufferedData), tags |-> T \ {t}]
<1>2. /\ line # <<>> /\ Head(line) = a /\ Tail(line) = <<>>
      /\ [line EXCEPT ![1].tags = @ \ {t}] = <<b>>
  BY <1>1, OneAnswer
<1>3. t \in T /\ line' = IF T = {t} THEN <<>> ELSE <<b>>
  <2>1. Head(line).tags = T
    BY <1>2
  <2> HIDE DEF a, b
  <2> QED
    BY <1>2, <2>1 DEF TakeTag
<1>4. Pending = T
  BY <1>2 DEF Pending
<1>5. Pending' = T \ {t}
  <2>1. CASE T = {t}
    BY <1>3, <2>1 DEF Pending
  <2>2. CASE T # {t}
    BY <1>3, <2>2, OneAnswer DEF Pending
  <2> QED
    BY <2>1, <2>2
<1>6. (T \ {t}) \cup bufferedData' = T \cup bufferedData
  BY <1>3
<1>7. CASE T = {t}
  <2>1. Cardinality(bufferedData') = a.n
    BY <1>6, <1>7
  <2> QED
    BY <1>2, <1>3, <1>4, <1>5, <1>6, <1>7, <2>1
<1>8. CASE T # {t}
  <2>1. TagsUnderWay'
    <3>1. T \ {t} \in SUBSET Tags /\ T \ {t} # {} /\ (T \ {t}) \cap bufferedData' = {}
      BY <1>1, <1>3, <1>8
    <3>2. line' = <<[type |-> "tags", n |-> Cardinality((T \ {t}) \cup bufferedData'),
                     tags |-> T \ {t}]>>
      BY <1>3, <1>6, <1>8
    <3> QED
      BY <3>1, <3>2 DEF TagsUnderWay
  <2>2. Cardinality(bufferedData') # a.n
    <3>1. bufferedData' # T \cup bufferedData
      BY <1>1, <1>3, <1>8
    <3>2. T \cup bufferedData \in SUBSET Tags /\ bufferedData' \subseteq T \cup bufferedData
      BY <1>3 DEF TypeOK
    <3> QED
      BY <3>1, <3>2, SameTags
  <2> QED
    BY <1>2, <1>3, <1>4, <1>5, <1>6, <2>1, <2>2
<1> QED
  BY <1>7, <1>8

(* The exchange goes on in turns. *)
LEMMA TurnsStep ==
    ASSUME TypeOK, Turns, [Next]_vars, Reliable'
    PROVE  Turns'
<1> USE FaultsStay DEF Turns, NothingComes
<1>1. CASE UNCHANGED <<reader, bufferedData, serial>> /\ inv' \in {"idle", "poll",
           "inventory", "received", "read", "compare", "report"}
           /\ inv \in {"idle", "poll", "received", "read", "compare", "report"}
  BY <1>1 DEF reader, serial
<1>2. CASE Inventory
  <2>1. /\ line = <<>> /\ line' = Append(line, CountAnswer) /\ inv' = "awaitCount"
        /\ notice' = "none"
    BY <1>2 DEF Inventory, serial
  <2>2. line' = <<CountAnswer>>
    BY <2>1, OneAnswer
  <2> QED
    BY <2>1, <2>2 DEF CountAnswer
<1>3. CASE GetAndReset
  <2>1. /\ line = <<>> /\ curTagCount = Cardinality(held)
        /\ held' = {} /\ bufferedData' = {} /\ held \in SUBSET Tags
        /\ line' = IF held = {} THEN line ELSE Append(line, TagsAnswer)
        /\ inv' = IF curTagCount = 0 THEN "read" ELSE "toAwaitTags"
        /\ notice' = "none"
    BY <1>3 DEF GetAndReset, TypeOK, serial
  <2>2. CASE held = {}
    BY <2>1, <2>2, TagCounts
  <2>3. CASE held # {}
    <3>1. line' = <<TagsAnswer>> /\ inv' = "toAwaitTags"
      BY <2>1, <2>3, OneAnswer, TagCounts
    <3>2. Cardinality(held \cup bufferedData') = Cardinality(held)
      BY <2>1
    <3>3. TagsUnderWay'
      BY <2>1, <2>3, <3>1, <3>2 DEF TagsUnderWay, TagsAnswer
    <3> QED
      BY <2>1, <3>1, <3>3
  <2> QED
    BY <2>2, <2>3
<1>4. CASE AwaitTags
  BY <1>4 DEF AwaitTags, reader, serial, buffers, TagsUnderWay
<1>5. CASE Timeout
  <2>1. NothingComes /\ UNCHANGED <<reader, bufferedData, serial>>
    BY <1>5 DEF Timeout, buffers
  <2>2. inv = "awaitTags" /\ inv' = "received"
    BY <1>5, <2>1, OneAnswer DEF Timeout
  <2> QED
    BY <2>1, <2>2 DEF reader, serial
<1>6. CASE ReceiveCount
  <2>1. line # <<>> /\ Head(line).type = "count" /\ line' = Tail(line)
        /\ curTagCount' = Head(line).n /\ held' = held
        /\ inv' = inv /\ notice = "none" /\ notice' = "count"
    BY <1>6 DEF ReceiveCount
  <2>2. inv = "awaitCount"
    BY <2>1, TagsComeFirst
  <2>3. line' = <<>> /\ curTagCount' = Cardinality(held)
    BY <2>1, <2>2, OneAnswer
  <2> QED
    BY <2>1, <2>2, <2>3
<1>7. ASSUME NEW t \in Tags, OnReadData(t) PROVE Turns'
  <2>1. TakeTag(t) /\ line # <<>> /\ Head(line).type = "tags" /\ held' = held
        /\ bufferedData' = bufferedData \cup {t} /\ curTagCount' = curTagCount
        /\ notice = "none" /\ inv' = inv
        /\ notice' = IF Cardinality(bufferedData') = Head(line).n THEN "tags" ELSE "none"
    BY <1>7 DEF OnReadData, TakeTag
  <2>2. inv \in {"toAwaitTags", "awaitTags"} /\ TagsUnderWay
    BY <2>1, OneAnswer
  <2> QED
    BY <2>1, <2>2, TagArrives
<1>71. CASE NotifyOneCmdResult
  <2>1. /\ notice # "none" /\ notice' = "none"
        /\ UNCHANGED <<line, held, bufferedData, curTagCount>>
        /\ inv' = CASE notice = "count" /\ inv = "awaitCount" -> "counted"
                     [] notice = "tags" /\ inv = "awaitTags" -> "received"
                     [] OTHER -> inv
    BY <1>71 DEF NotifyOneCmdResult, reader, buffers
  <2>2. \/ inv = "awaitCount" /\ notice = "count"
        \/ inv \in {"toAwaitTags", "awaitTags"} /\ notice = "tags"
    BY <2>1
  <2> QED
    BY <2>1, <2>2
<1>8. CASE UNCHANGED vars
  BY <1>8 DEF vars, reader, serial, buffers, TagsUnderWay
<1>9. ASSUME NEW k \in Kinds, StartInventory(k) PROVE Turns'
  BY <1>1, <1>9 DEF StartInventory
<1> QED
  BY <1>1, <1>2, <1>3, <1>4, <1>5, <1>6, <1>7, <1>71, <1>8, <1>9
  DEF Next, InventoryThread, SerialThread, EndPolls, BeginPoll, CopyBuffer, AgainOrCompare,
      CompareBuffers, Report, LoseAnswer, buffers

(* What becomes of the tags on their way: a look adds to those held, and   *)
(* the reader sends all it holds; only an arrival takes one away.          *)
GoesOn == \/ inv = "awaitCount" /\ inv' = "counted"
          \/ inv = "toAwaitTags" /\ inv' = "awaitTags"
          \/ inv = "awaitTags" /\ inv' = "received"
          \/ inv = "read" /\ inv' \in {"inventory", "compare"}

LEMMA WayOfTags ==
    ASSUME TypeOK, Turns, [Next]_vars, Reliable'
    PROVE  \/ \E S \in SUBSET Tags :
                /\ Inventory /\ held = {} /\ Pending = {} /\ Pending' = {}
                /\ held' = S /\ seen' = seen \cup S
                /\ found' = [t \in Tags |-> found[t] + IF t \in S THEN 1 ELSE 0]
           \/ GetAndReset /\ held' = {} /\ Pending = {} /\ Pending' = held
           \/ \E t \in Tags : /\ OnReadData(t) /\ TagsUnderWay
                              /\ t \in Pending /\ Pending' = Pending \ {t} /\ held = {}
           \/ /\ held' = held /\ Pending' = Pending
              /\ UNCHANGED bufferedData
              /\ \/ \E k \in Kinds : StartInventory(k)
                 \/ BeginPoll \/ CopyBuffer \/ CompareBuffers
                 \/ /\ inv' \in {inv, "idle", "report"} \/ GoesOn
                    /\ UNCHANGED <<kind, seen, found, accumulateData, probReadData,
                                   curReadData>>
<1> USE FaultsStay DEF Turns, NothingComes, GoesOn
<1>1. CASE Inventory
  <2>1. PICK S \in SUBSET Tags :
          /\ held' = held \cup S /\ seen' = seen \cup S
          /\ found' = [t \in Tags |-> found[t] + IF t \in S THEN 1 ELSE 0]
    BY <1>1 DEF Inventory
  <2>2. held = {} /\ line = <<>> /\ line' = <<CountAnswer>>
    BY <1>1, OneAnswer DEF Inventory
  <2>3. Pending = {} /\ Pending' = {}
    BY <2>2, OneAnswer DEF Pending, CountAnswer
  <2> QED
    BY <1>1, <2>1, <2>2, <2>3
<1>2. CASE GetAndReset
  <2>1. line = <<>> /\ held' = {}
        /\ line' = IF held = {} THEN line ELSE Append(line, TagsAnswer)
    BY <1>2 DEF GetAndReset
  <2>2. Pending = {} /\ Pending' = held
    BY <2>1, OneAnswer DEF Pending, TagsAnswer
  <2> QED
    BY <1>2, <2>1, <2>2
<1>3. ASSUME NEW t \in Tags, OnReadData(t)
      PROVE  TagsUnderWay /\ t \in Pending /\ Pending' = Pending \ {t} /\ held = {}
  <2>1. TakeTag(t) /\ line # <<>> /\ Head(line).type = "tags"
        /\ bufferedData' = bufferedData \cup {t}
    BY <1>3 DEF OnReadData, TakeTag
  <2>2. inv \in {"toAwaitTags", "awaitTags"} /\ TagsUnderWay
    BY <2>1, OneAnswer
  <2> QED
    BY <2>1, <2>2, TagArrives
<1>4. CASE ReceiveCount
  <2>1. /\ inv = "awaitCount" /\ inv' = inv /\ line' = Tail(line) /\ line # <<>>
        /\ UNCHANGED <<held, buffers, kind, history>>
    BY <1>4, OneAnswer, TagsComeFirst DEF ReceiveCount, progress
  <2>2. line # <<>> /\ Head(line).tags = {} /\ Tail(line) = <<>>
    <3> DEFINE a == [type |-> "count", n |-> Cardinality(held), tags |-> {}]
    <3>1. line = <<a>> /\ a.tags = {}
      BY <2>1
    <3> HIDE DEF a
    <3> QED
      BY <3>1, OneAnswer
  <2>3. Pending = {} /\ Pending' = {}
    BY <2>1, <2>2 DEF Pending
  <2> QED
    BY <2>1, <2>3 DEF buffers, history
<1>5. CASE \/ BeginPoll \/ CopyBuffer \/ CompareBuffers \/ \E k \in Kinds : StartInventory(k)
  BY <1>5 DEF BeginPoll, CopyBuffer, CompareBuffers, StartInventory, reader, Pending
<1>51. CASE NotifyOneCmdResult
  BY <1>51 DEF NotifyOneCmdResult, reader, buffers, progress, history, Pending
<1>6. CASE AwaitTags \/ Timeout \/ AgainOrCompare \/ Report \/ EndPolls \/ UNCHANGED vars
  BY <1>6, OneAnswer DEF AwaitTags, Timeout, AgainOrCompare, Report, EndPolls, vars, reader, buffers,
              progress, history, Pending
<1> QED
  BY <1>1, <1>2, <1>3, <1>4, <1>5, <1>51, <1>6
  DEF Next, InventoryThread, SerialThread, LoseAnswer

(* Every tag found is still on its way, or has been accumulated. *)
LEMMA FoundStep ==
    ASSUME TypeOK, Turns, FoundIsOnItsWay, [Next]_vars, Reliable'
    PROVE  FoundIsOnItsWay'
<1> USE DEF FoundIsOnItsWay
<1>1. ASSUME NEW S \in SUBSET Tags, Inventory, held = {}, Pending = {}, Pending' = {},
             held' = S, found' = [t \in Tags |-> found[t] + IF t \in S THEN 1 ELSE 0]
      PROVE  FoundIsOnItsWay'
  <2>1. inv # "idle" /\ accumulateData' = accumulateData
    BY <1>1 DEF Inventory, buffers
  <2>2. {t \in Tags : found'[t] > 0} = {t \in Tags : found[t] > 0} \cup S
    BY <1>1 DEF TypeOK
  <2> QED
    BY <1>1, <2>1, <2>2
<1>2. ASSUME GetAndReset, held' = {}, Pending = {}, Pending' = held
      PROVE  FoundIsOnItsWay'
  BY <1>2 DEF GetAndReset, history
<1>3. ASSUME NEW t \in Tags, OnReadData(t), t \in Pending, Pending' = Pending \ {t}
      PROVE  FoundIsOnItsWay'
  <2>1. UNCHANGED <<held, found>> /\ accumulateData' = accumulateData \cup {t}
        /\ (inv' # "idle" => inv # "idle")
    BY <1>3 DEF OnReadData, history
  <2> QED
    BY <1>3, <2>1
<1>4. ASSUME held' = held, Pending' = Pending, NEW k \in Kinds, StartInventory(k)
      PROVE  FoundIsOnItsWay'
  <2>1. held = {} /\ Pending = {}
    BY <1>4 DEF Turns, NothingComes, StartInventory, Pending
  <2> QED
    BY <1>4, <2>1 DEF StartInventory, NoCounts
<1>5. CASE /\ held' = held /\ Pending' = Pending
           /\ BeginPoll \/ CopyBuffer \/ CompareBuffers
  BY <1>5 DEF BeginPoll, CopyBuffer, CompareBuffers, history
<1>6. CASE /\ held' = held /\ Pending' = Pending /\ UNCHANGED <<found, accumulateData>>
           /\ inv' # "idle" => inv # "idle"
  BY <1>6
<1>7. inv' = "idle" \/ inv # "idle" \/ \E k \in Kinds : StartInventory(k)
  BY DEF Next, InventoryThread, SerialThread, LoseAnswer, BeginPoll, Inventory, GetAndReset,
         AwaitTags, Timeout, CopyBuffer, AgainOrCompare, CompareBuffers, Report, EndPolls,
         ReceiveCount, NotifyOneCmdResult, OnReadData, vars
<1> QED
  BY <1>1, <1>2, <1>3, <1>4, <1>5, <1>6, <1>7, WayOfTags

(* In a test a tag is on its way once, and counted when it arrives. *)
LEMMA CountsStep ==
    ASSUME TypeOK, Turns, CountsAreComplete, [Next]_vars, Reliable'
    PROVE  CountsAreComplete'
<1> USE DEF CountsAreComplete
<1>1. ASSUME NEW S \in SUBSET Tags, Inventory, held = {}, Pending = {}, Pending' = {},
             held' = S, found' = [t \in Tags |-> found[t] + IF t \in S THEN 1 ELSE 0]
      PROVE  CountsAreComplete'
  <2>1. inv # "idle" /\ probReadData' = probReadData /\ kind' = kind
    BY <1>1 DEF Inventory, buffers
  <2> QED
    BY <1>1, <2>1 DEF TypeOK
<1>2. ASSUME GetAndReset, held' = {}, Pending = {}, Pending' = held
      PROVE  CountsAreComplete'
  BY <1>2 DEF GetAndReset, history, progress
<1>3. ASSUME NEW t \in Tags, OnReadData(t), t \in Pending, Pending' = Pending \ {t}, held = {}
      PROVE  CountsAreComplete'
  <2>1. /\ UNCHANGED <<held, found, kind>>
        /\ probReadData' = [probReadData EXCEPT ![t] = @ + 1]
        /\ inv' # "idle" => inv # "idle"
    BY <1>3 DEF OnReadData, history, progress
  <2>2. ASSUME inv' # "idle", kind' = "test", NEW u \in Tags
        PROVE  found'[u] = probReadData'[u] + IF u \in held' \cup Pending' THEN 1 ELSE 0
    <3>1. found[u] = probReadData[u] + IF u \in held \cup Pending THEN 1 ELSE 0
      BY <2>1, <2>2
    <3> QED
      BY <1>3, <2>1, <3>1 DEF TypeOK
  <2> QED
    BY <2>2
<1>4. ASSUME held' = held, Pending' = Pending, NEW k \in Kinds, StartInventory(k)
      PROVE  CountsAreComplete'
  <2>1. held = {} /\ Pending = {}
    BY <1>4 DEF Turns, NothingComes, StartInventory, Pending
  <2> QED
    BY <1>4, <2>1 DEF StartInventory, NoCounts
<1>5. CASE /\ held' = held /\ Pending' = Pending
           /\ BeginPoll \/ CopyBuffer \/ CompareBuffers
  BY <1>5 DEF BeginPoll, CopyBuffer, CompareBuffers, history, progress
<1>6. CASE /\ held' = held /\ Pending' = Pending /\ UNCHANGED <<kind, found, probReadData>>
           /\ inv' # "idle" => inv # "idle"
  BY <1>6
<1>7. inv' = "idle" \/ inv # "idle" \/ \E k \in Kinds : StartInventory(k)
  BY DEF Next, InventoryThread, SerialThread, LoseAnswer, BeginPoll, Inventory, GetAndReset,
         AwaitTags, Timeout, CopyBuffer, AgainOrCompare, CompareBuffers, Report, EndPolls,
         ReceiveCount, NotifyOneCmdResult, OnReadData, vars
<1> QED
  BY <1>1, <1>2, <1>3, <1>4, <1>5, <1>6, <1>7, WayOfTags

(* What is under way when a poll begins, which is nothing, and what it     *)
(* copies, stays within what it has seen.                                  *)
LEMMA ReadStep ==
    ASSUME TypeOK, Turns, ReadIsSeen, [Next]_vars, Reliable'
    PROVE  ReadIsSeen'
<1> USE DEF ReadIsSeen
<1>1. ASSUME NEW S \in SUBSET Tags, Inventory, Pending = {}, Pending' = {},
             held' = S, seen' = seen \cup S
      PROVE  ReadIsSeen'
  BY <1>1 DEF Inventory, buffers
<1>2. ASSUME GetAndReset, held' = {}, Pending = {}, Pending' = held
      PROVE  ReadIsSeen'
  BY <1>2 DEF GetAndReset, history
<1>3. ASSUME NEW t \in Tags, OnReadData(t), TagsUnderWay, t \in Pending,
             Pending' = Pending \ {t}, held = {}
      PROVE  ReadIsSeen'
  <2>1. inv \in {"toAwaitTags", "awaitTags"}
    <3>1. line # <<>> /\ Head(line).type = "tags"
      BY <1>3, TagsComeFirst
    <3> QED
      BY <3>1, OneAnswer DEF Turns, NothingComes
  <2> QED
    BY <1>3, <2>1 DEF OnReadData, history
<1>4. ASSUME held' = held, Pending' = Pending, NEW k \in Kinds, StartInventory(k)
      PROVE  ReadIsSeen'
  BY <1>4 DEF StartInventory
<1>5. CASE held' = held /\ Pending' = Pending /\ BeginPoll
  BY <1>5 DEF BeginPoll, Turns, NothingComes
<1>6. CASE held' = held /\ Pending' = Pending /\ (CopyBuffer \/ CompareBuffers)
  BY <1>6 DEF CopyBuffer, CompareBuffers, history, Turns, NothingComes
<1>7. CASE /\ held' = held /\ Pending' = Pending
           /\ inv' \in {inv, "idle", "report"} \/ GoesOn
           /\ UNCHANGED <<bufferedData, seen, curReadData>>
  BY <1>7 DEF GoesOn
<1> QED
  BY <1>1, <1>2, <1>3, <1>4, <1>5, <1>6, <1>7, WayOfTags

(* No step breaks the invariant. *)
THEOREM StepInv == IInv /\ [Next]_vars => IInv'
<1> SUFFICES ASSUME IInv, [Next]_vars PROVE IInv'
  OBVIOUS
<1>1. TypeOK' /\ LooksAreCounted'
  BY TypeStep DEF IInv
<1>2. ASSUME Reliable' PROVE Ledger'
  <2>1. Ledger
    BY <1>2, FaultsStay DEF IInv
  <2> QED
    BY <1>2, <2>1, TurnsStep, FoundStep, CountsStep, ReadStep DEF IInv, Ledger
<1> QED
  BY <1>1, <1>2 DEF IInv

THEOREM Invariant == Spec => []IInv
BY InitInv, StepInv, PTL DEF Spec
-----------------------------------------------------------------------------
(* The types of the buffers; a tag is found at most once in every attempt. *)
THEOREM TagsTypeCorrect == Spec => []TypeOK
<1>1. IInv => TypeOK
  BY DEF IInv
<1> QED
  BY Invariant, <1>1, PTL

(* What an inventory reports is what the reader saw in it: when it reports *)
(* nothing is under way any more, whichever notifications its waits missed.*)
THEOREM NoTagIsMissed == Spec => []AccumulatedIsFound
<1>1. IInv => AccumulatedIsFound
  <2> SUFFICES ASSUME IInv, Reliable, inv = "report"
               PROVE  accumulateData = {t \in Tags : found[t] > 0}
    BY DEF AccumulatedIsFound
  <2> QED
    BY DEF IInv, Ledger, Turns, NothingComes, FoundIsOnItsWay, Pending
<1> QED
  BY Invariant, <1>1, PTL

(* A poll is compared on its own tags: nothing of the last one is left in  *)
(* the buffer it copies, nor comes in after it was cleared.                *)
THEOREM NoTagOfAnotherPoll == Spec => []PollsDoNotMix
<1>1. IInv => PollsDoNotMix
  BY DEF IInv, Ledger, ReadIsSeen, PollsDoNotMix
<1> QED
  BY Invariant, <1>1, PTL

(* The labels judged broken are those the reader did not see: a test       *)
(* counts every poll that saw a tag, and none twice.                       *)
THEOREM EveryPollCounts == Spec => []TestCountsPolls
<1>1. IInv => TestCountsPolls
  <2> SUFFICES ASSUME IInv, Reliable, inv = "report", kind = "test"
               PROVE  probReadData = found
    BY DEF TestCountsPolls
  <2>1. held = {} /\ Pending = {}
    BY DEF IInv, Ledger, Turns, NothingComes, Pending
  <2>2. \A t \in Tags : found[t] = probReadData[t] + 0
    BY <2>1 DEF IInv, Ledger, CountsAreComplete
  <2> QED
    BY <2>2 DEF IInv, TypeOK
<1> QED
  BY Invariant, <1>1, PTL
=============================================================================
