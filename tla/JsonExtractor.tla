--------------------------- MODULE JsonExtractor ---------------------------
(***************************************************************************)
(* JsonExtractor: cuts JSON objects out of the text of the server's        *)
(* messages by pairing braces.  What is left after the last object stays   *)
(* in _buf for the next message; _stack holds the positions of the braces  *)
(* that are still open.  onMessage scans _buf from its start every time.   *)
(*                                                                         *)
(* A character is an opening brace, a closing brace or any other.          *)
(***************************************************************************)
EXTENDS Integers, Sequences, FiniteSets, SequencesExt

CONSTANTS MaxText,     \* bound: characters received between two clears
          MaxMessage   \* bound: characters of a message

ASSUME BoundsAssumption == MaxText \in Nat /\ MaxMessage \in Nat

VARIABLES buf,        \* _buf
          stack,      \* _stack: positions in _buf
          delivered,  \* the objects given to _on_json_fn
          text,       \* everything received so far (a history variable)
          whole       \* no object of it was split between messages (history)

vars == <<buf, stack, delivered, text, whole>>

Char == {"open", "close", "other"}
Pieces == UNION {[1..n -> Char] : n \in 1..MaxMessage}

Init == /\ buf = <<>>
        /\ stack = <<>>
        /\ delivered = <<>>
        /\ text = <<>>
        /\ whole = TRUE

(* Mutant: the inner objects are delivered too. *)
PairInner(s, c, pos) ==
    CASE s.bad \/ c = "other" -> s
      [] ~s.bad /\ c = "open" -> [s EXCEPT !.stack = Append(@, pos)]
      [] ~s.bad /\ c = "close" /\ s.stack = <<>> -> [s EXCEPT !.bad = TRUE]
      [] ~s.bad /\ c = "close" /\ s.stack # <<>> ->
           [s EXCEPT !.stack = Front(@), !.found = Append(@, <<Last(s.stack), pos>>)]

(* One character of the scan.  `found' collects the outermost pairs; a     *)
(* closing brace that has no partner stops the scan.                       *)
Pair(s, c, pos) ==
    CASE s.bad \/ c = "other" -> s
      [] ~s.bad /\ c = "open" -> [s EXCEPT !.stack = Append(@, pos)]
      [] ~s.bad /\ c = "close" /\ s.stack = <<>> -> [s EXCEPT !.bad = TRUE]
      [] ~s.bad /\ c = "close" /\ s.stack # <<>> ->
           [s EXCEPT !.stack = Front(@),
                     !.found = IF Len(s.stack) = 1
                                 THEN Append(@, <<Last(s.stack), pos>>) ELSE @]

(* The scan of b, begun with the stack the last scan left. *)
Scan(b, st) ==
    LET upTo[n \in 0..Len(b)] ==
          IF n = 0 THEN [stack |-> st, found |-> <<>>, bad |-> FALSE]
                   ELSE Pair(upTo[n - 1], b[n], n)
    IN upTo[Len(b)]

(* Mutant: the closing brace of the last object stays in the buffer.       *)
RestWithBrace(s, b) == IF s.bad THEN <<>>
                       ELSE IF s.found = <<>> THEN b
                       ELSE SubSeq(b, Last(s.found)[2], Len(b))

(* Bad data clears the buffer; otherwise what follows the last object is   *)
(* kept for the next message.                                              *)
Rest(s, b) == IF s.bad THEN <<>>
              ELSE IF s.found = <<>> THEN b
              ELSE SubSeq(b, Last(s.found)[2] + 1, Len(b))

(* Mutant: the stack is not cleared after an object. *)
StackAfterObject(s) == IF s.bad THEN <<>> ELSE s.stack

(* The stack is cleared on bad data and if there was an object.            *)
StackLeft(s) == IF s.bad \/ s.found # <<>> THEN <<>> ELSE s.stack

(* The objects found before bad data are delivered all the same.           *)
OnMessage(m) ==
    LET b == buf \o m
        s == Scan(b, stack)
    IN /\ delivered' = delivered \o [k \in 1..Len(s.found) |->
                                       SubSeq(b, s.found[k][1], s.found[k][2])]
       /\ buf' = Rest(s, b)
       /\ stack' = StackLeft(s)

Opens(s, n) == Cardinality({k \in 1..n : s[k] = "open"})
Closes(s, n) == Cardinality({k \in 1..n : s[k] = "close"})
Depth(s, n) == Opens(s, n) - Closes(s, n)

ReceivePiece(m) == /\ Len(text) + Len(m) <= MaxText
                   /\ OnMessage(m)
                   /\ text' = text \o m
                   /\ whole' = (whole /\ Depth(text', Len(text')) = 0)

(* clear(), from the client's onError and onClose: the text that follows   *)
(* is a new one.                                                           *)
Clear == /\ text # <<>>
         /\ buf' = <<>> /\ stack' = <<>>
         /\ delivered' = <<>> /\ text' = <<>>
         /\ whole' = TRUE

Next == Clear \/ \E m \in Pieces : ReceivePiece(m)

Spec == Init /\ [][Next]_vars
-----------------------------------------------------------------------------
(* The types: the stack holds positions in the buffer. *)
TypeOK == /\ buf \in Seq(Char)
          /\ stack \in Seq(1..Len(buf))
          /\ delivered \in Seq(Seq(Char))
          /\ text \in Seq(Char)
          /\ whole \in BOOLEAN

(* The objects of a text whose braces pair: an object ends where the depth *)
(* comes back to 0 and begins at the last brace that left depth 0.         *)
WellFormed(s) == \A n \in 1..Len(s) : Depth(s, n) >= 0
ObjectEnds(s) == {n \in 1..Len(s) : s[n] = "close" /\ Depth(s, n) = 0}
ObjectBegin(s, n) ==
    CHOOSE k \in 1..n : /\ s[k] = "open" /\ Depth(s, k) = 1
                        /\ \A l \in k..(n - 1) : Depth(s, l) > 0
EndsUpTo(s, n) == Cardinality({m \in ObjectEnds(s) : m <= n})
ObjectEnd(s, k) == CHOOSE n \in ObjectEnds(s) : EndsUpTo(s, n) = k
Objects(s) == [k \in 1..Cardinality(ObjectEnds(s)) |->
                 SubSeq(s, ObjectBegin(s, ObjectEnd(s, k)), ObjectEnd(s, k))]

(* However the text is cut into messages, nothing is delivered that is not *)
(* one of its objects, none twice and none out of order.                   *)
DeliversInOrder == WellFormed(text) => IsPrefix(delivered, Objects(text))

(* As long as every message ends between two objects, the extractor has    *)
(* delivered every object of the text, however many a message holds.       *)
WholeAreDelivered == WellFormed(text) /\ whole => delivered = Objects(text)

(* Whatever came, positions on the stack are positions of opening braces   *)
(* of the buffer: they are where an object is cut out of it.               *)
StackIsInBuffer == TypeOK /\ \A k \in 1..Len(stack) : buf[stack[k]] = "open"
=============================================================================
