--------------------------- MODULE Scanners_proofs ---------------------------
(***************************************************************************)
(* Proofs about the two scanners that cut messages out of what arrives     *)
(* piece by piece, JsonExtractor and the parser of the serial protocol,    *)
(* and about Settings, whose requests and answers pass the latter: for any *)
(* text and any pieces of it, any width of a byte, any garbage, errors and *)
(* configurations.                                                         *)
(*                                                                         *)
(* Both scanners are recursive functions over what they read.  What they   *)
(* compute is shown by induction on its length, for which LeastNumber      *)
(* stands: the library's induction theorems take an operator, which no     *)
(* prover here can instantiate, and a set of numbers does as well.         *)
(*                                                                         *)
(* The text is cut (Cut): what was delivered are the objects that end up   *)
(* to some place of the text, the buffer is what follows it and the stack  *)
(* is how deep it is.                                                      *)
(*                                                                         *)
(* The line is at some place of a packet (LineInv): before it there may be *)
(* garbage, of which the buffer keeps less than a packet; from its head    *)
(* byte on the buffer holds what was read of it; due is the packet, if the *)
(* check sum is right.                                                     *)
(*                                                                         *)
(* Every request is one of four orders (OrdersInv), what is known of the   *)
(* reader's settings it has had (PastInv), the last order of each kind is  *)
(* the one wanted (ConfInv), and of an answer that is not late there is    *)
(* only the question that it answers (FreshInv).                           *)
(***************************************************************************)
EXTENDS JsonExtractor, Settings, FiniteSetTheorems, SequenceTheorems, TLAPS

(* Of any numbers there is a least: what stands for induction in what      *)
(* follows.                                                                *)
LEMMA LeastNumber ==
    ASSUME NEW S \in SUBSET Nat, S # {}
    PROVE  \E n \in S : \A m \in S : n <= m
<1> DEFINE T == {0..n : n \in S}
<1>1. IsWellFoundedOn(StrictSubsetOrdering(Nat), FiniteSubsetsOf(Nat))
  BY FS_StrictSubsetOrderingWellFounded
<1>2. T \subseteq FiniteSubsetsOf(Nat) /\ T # {}
  <2>1. \A n \in S : IsFiniteSet(0..n) /\ 0..n \in SUBSET Nat
    BY FS_Interval
  <2> QED
    BY <2>1 DEF FiniteSubsetsOf
<1>3. PICK x \in T : \A y \in T : <<y, x>> \notin StrictSubsetOrdering(Nat)
  <2> HIDE DEF T
  <2> QED
    BY <1>1, <1>2, WFMin
<1>4. PICK n \in S : x = 0..n
  OBVIOUS
<1>5. ASSUME NEW m \in S, m < n PROVE FALSE
  <2>1. 0..m \in T /\ 0..m \subseteq 0..n /\ n \in 0..n /\ n \notin 0..m
    BY <1>5
  <2>2. 0..m # 0..n
    BY <2>1
  <2>3. 0..m \in SUBSET Nat /\ 0..n \in SUBSET Nat
    OBVIOUS
  <2>4. <<0..m, 0..n>> \in StrictSubsetOrdering(Nat)
    BY <2>1, <2>2, <2>3 DEF StrictSubsetOrdering
  <2> QED
    BY <2>1, <2>4, <1>3, <1>4
<1> QED
  BY <1>5

(* Induction up to a number, over the set of the numbers for which what is *)
(* to be shown holds.                                                      *)
LEMMA Induction ==
    ASSUME NEW l \in Nat, NEW H, 0 \in H,
           \A n \in 1..l : n - 1 \in H => n \in H
    PROVE  \A n \in 0..l : n \in H
<1> SUFFICES ASSUME NEW k \in 0..l, k \notin H PROVE FALSE
  OBVIOUS
<1> DEFINE S == {n \in 0..l : n \notin H}
<1>1. PICK n \in S : \A m \in S : n <= m
  <2>1. S \in SUBSET Nat /\ S # {}
    OBVIOUS
  <2> HIDE DEF S
  <2> QED
    BY <2>1, LeastNumber
<1>2. n \in 1..l /\ n - 1 \in 0..l /\ ~(n <= n - 1)
  BY <1>1
<1>3. n - 1 \in H
  BY <1>1, <1>2
<1> QED
  BY <1>1, <1>2, <1>3

(* Sequences. *)
LEMMA NoneOf == ASSUME NEW S PROVE <<>> \in Seq(S) /\ Len(<<>>) = 0
  OBVIOUS

LEMMA OneMore ==
    ASSUME NEW S, NEW q \in Seq(S), NEW e \in S
    PROVE  /\ Append(q, e) \in Seq(S)
           /\ Append(q, e) # <<>>
           /\ Len(q) \in Nat /\ Len(Append(q, e)) = Len(q) + 1
           /\ \A k \in 1..Len(q) : Append(q, e)[k] = q[k]
           /\ Append(q, e)[Len(q) + 1] = e
  OBVIOUS

LEMMA OneLess ==
    ASSUME NEW S, NEW q \in Seq(S), q # <<>>
    PROVE  /\ Len(q) \in Nat \ {0}
           /\ Front(q) \in Seq(S)
           /\ Len(Front(q)) = Len(q) - 1
           /\ \A k \in 1..(Len(q) - 1) : Front(q)[k] = q[k]
           /\ Last(q) \in S /\ Last(q) = q[Len(q)]
<1>1. Len(q) \in Nat \ {0}
  BY EmptySeq
<1>2. Last(q) \in S /\ Last(q) = q[Len(q)]
  BY <1>1 DEF Last
<1>3. \A k \in 1..(Len(q) - 1) : q[k] \in S
  BY <1>1
<1>4. /\ Front(q) \in Seq(S)
      /\ Len(Front(q)) = Len(q) - 1
      /\ \A k \in 1..(Len(q) - 1) : Front(q)[k] = q[k]
  <2> DEFINE l == Len(q) - 1
  <2>1. l \in Nat /\ 1 \in Int /\ l \in Int /\ l - 1 + 1 = l
    BY <1>1
  <2>2. \A k \in 1..l : q[k] \in S
    BY <1>3
  <2> HIDE DEF l
  <2>3. /\ SubSeq(q, 1, l) \in Seq(S)
        /\ Len(SubSeq(q, 1, l)) = l
        /\ \A k \in 1..l : SubSeq(q, 1, l)[k] = q[1 + k - 1]
    BY <2>1, <2>2, SubSeqProperties
  <2>4. \A k \in 1..l : 1 + k - 1 = k
    OBVIOUS
  <2>5. \A k \in 1..l : SubSeq(q, 1, l)[k] = q[k]
    BY <2>3, <2>4
  <2>6. Front(q) = SubSeq(q, 1, l)
    BY DEF Front, l
  <2> QED
    BY <2>3, <2>5, <2>6 DEF l
<1> QED
  BY <1>1, <1>2, <1>4

(* The states of the scan of b. *)
Start(st) == [stack |-> st, found |-> <<>>, bad |-> FALSE]
IsScan(f, b, st, l) ==
    f = [n \in 0..l |-> IF n = 0 THEN Start(st) ELSE Pair(f[n - 1], b[n], n)]

LEMMA ScanExists ==
    ASSUME NEW b, NEW st, NEW l \in Nat
    PROVE  \E f : IsScan(f, b, st, l)
<1> DEFINE H == {k \in 0..l : \E f : IsScan(f, b, st, k)}
<1>1. 0 \in H
  <2>1. IsScan([n \in 0..0 |-> Start(st)], b, st, 0)
    BY DEF IsScan
  <2> QED
    BY <2>1
<1>2. ASSUME NEW k \in 1..l, k - 1 \in H PROVE k \in H
  <2>1. PICK f : IsScan(f, b, st, k - 1)
    BY <1>2
  <2> DEFINE g == [n \in 0..k |-> IF n = k THEN Pair(f[k - 1], b[k], k) ELSE f[n]]
  <2>2. ASSUME NEW n \in 0..k
        PROVE  g[n] = IF n = 0 THEN Start(st) ELSE Pair(g[n - 1], b[n], n)
    <3>1. CASE n = k
      <4>1. n - 1 \in 0..k /\ n - 1 # k /\ n # 0
        BY <3>1
      <4> QED
        BY <3>1, <4>1
    <3>2. CASE n # k
      <4>1. n \in 0..(k - 1)
        BY <3>2
      <4>2. g[n] = f[n] /\ (n # 0 => g[n - 1] = f[n - 1])
        BY <3>2
      <4>3. f[n] = IF n = 0 THEN Start(st) ELSE Pair(f[n - 1], b[n], n)
        BY <2>1, <4>1 DEF IsScan
      <4> QED
        BY <4>2, <4>3
    <3> QED
      BY <3>1, <3>2
  <2>3. g = [n \in 0..k |-> IF n = 0 THEN Start(st) ELSE Pair(g[n - 1], b[n], n)]
    <3>1. g = [n \in 0..k |-> g[n]]
      OBVIOUS
    <3> HIDE DEF g
    <3> QED
      BY <2>2, <3>1
  <2>4. IsScan(g, b, st, k)
    <3> HIDE DEF g
    <3> QED
      BY <2>3 DEF IsScan
  <2> QED
    BY <2>4
<1>3. l \in H
  <2> HIDE DEF H
  <2> QED
    BY <1>1, <1>2, Induction
<1> QED
  BY <1>3

LEMMA ScanIsLast ==
    ASSUME NEW b, NEW st, Len(b) \in Nat
    PROVE  \E f : IsScan(f, b, st, Len(b)) /\ Scan(b, st) = f[Len(b)]
<1> DEFINE upTo == CHOOSE f : IsScan(f, b, st, Len(b))
<1>1. IsScan(upTo, b, st, Len(b))
  BY ScanExists
<1>2. Scan(b, st) = upTo[Len(b)]
  BY DEF Scan, IsScan, Start
<1> QED
  BY <1>1, <1>2

LEMMA ScanSteps ==
    ASSUME NEW b, NEW st, Len(b) \in Nat
    PROVE  \E f : /\ f[0] = Start(st)
                  /\ \A n \in 1..Len(b) : f[n] = Pair(f[n - 1], b[n], n)
                  /\ Scan(b, st) = f[Len(b)]
<1>1. PICK f : IsScan(f, b, st, Len(b)) /\ Scan(b, st) = f[Len(b)]
  BY ScanIsLast
<1>2. \A n \in 0..Len(b) : f[n] = IF n = 0 THEN Start(st) ELSE Pair(f[n - 1], b[n], n)
  BY <1>1 DEF IsScan
<1> QED
  BY <1>1, <1>2
-----------------------------------------------------------------------------
(* The stack holds positions of opening braces, whatever comes. *)
ScanStates(b) == [stack : Seq(1..Len(b)),
                  found : Seq((1..Len(b)) \X (1..Len(b))),
                  bad   : BOOLEAN]

OpenIn(b, st) == \A k \in 1..Len(st) : b[st[k]] = "open"

LEMMA NoneOpen == ASSUME NEW b PROVE OpenIn(b, <<>>)
<1> DEFINE l == Len(<<>>)
<1>1. l = 0
  OBVIOUS
<1> HIDE DEF l
<1>2. 1..l = {}
  BY <1>1
<1> QED
  BY <1>2 DEF OpenIn, l

LEMMA PairInBuffer ==
    ASSUME NEW b \in Seq(Char), NEW n \in 1..Len(b), NEW s \in ScanStates(b),
           OpenIn(b, s.stack)
    PROVE  LET r == Pair(s, b[n], n) IN r \in ScanStates(b) /\ OpenIn(b, r.stack)
<1> DEFINE r == Pair(s, b[n], n)
<1>0. s.stack \in Seq(1..Len(b)) /\ s.found \in Seq((1..Len(b)) \X (1..Len(b)))
      /\ s.bad \in BOOLEAN /\ b[n] \in Char
  BY DEF ScanStates
<1>1. CASE s.bad \/ b[n] = "other"
  BY <1>1 DEF Pair
<1>2. CASE ~s.bad /\ b[n] = "open"
  <2>1. r = [s EXCEPT !.stack = Append(s.stack, n)]
    BY <1>2 DEF Pair
  <2>2. Append(s.stack, n) \in Seq(1..Len(b)) /\ OpenIn(b, Append(s.stack, n))
    <3> DEFINE q == Append(s.stack, n)
    <3>1. /\ q \in Seq(1..Len(b)) /\ Len(s.stack) \in Nat /\ Len(q) = Len(s.stack) + 1
          /\ \A k \in 1..Len(s.stack) : q[k] = s.stack[k]
          /\ q[Len(s.stack) + 1] = n
      BY <1>0, OneMore
    <3> HIDE DEF q
    <3>2. \A k \in 1..Len(q) : k \in 1..Len(s.stack) \/ k = Len(s.stack) + 1
      BY <3>1
    <3> QED
      BY <3>1, <3>2, <1>2 DEF OpenIn, q
  <2> QED
    BY <2>1, <2>2 DEF ScanStates
<1>3. CASE ~s.bad /\ b[n] = "close" /\ s.stack = <<>>
  <2>1. r = [s EXCEPT !.bad = TRUE]
    BY <1>3 DEF Pair
  <2> QED
    BY <2>1 DEF ScanStates
<1>4. CASE ~s.bad /\ b[n] = "close" /\ s.stack # <<>>
  <2> DEFINE found == IF Len(s.stack) = 1
                        THEN Append(s.found, <<Last(s.stack), n>>) ELSE s.found
  <2>1. r = [s EXCEPT !.stack = Front(s.stack), !.found = found]
    BY <1>4 DEF Pair
  <2>2. /\ Front(s.stack) \in Seq(1..Len(b)) /\ OpenIn(b, Front(s.stack))
        /\ Last(s.stack) \in 1..Len(b)
    <3>1. /\ Front(s.stack) \in Seq(1..Len(b)) /\ Len(Front(s.stack)) = Len(s.stack) - 1
          /\ Len(s.stack) \in Nat \ {0} /\ Last(s.stack) \in 1..Len(b)
          /\ \A k \in 1..(Len(s.stack) - 1) : Front(s.stack)[k] = s.stack[k]
      BY <1>0, <1>4, OneLess
    <3>2. ASSUME NEW k \in 1..Len(Front(s.stack)) PROVE b[Front(s.stack)[k]] = "open"
      <4>1. k \in 1..(Len(s.stack) - 1) /\ k \in 1..Len(s.stack)
        BY <3>1
      <4>2. b[s.stack[k]] = "open"
        BY <4>1 DEF OpenIn
      <4> QED
        BY <3>1, <4>1, <4>2
    <3> QED
      BY <3>1, <3>2 DEF OpenIn
  <2>3. found \in Seq((1..Len(b)) \X (1..Len(b)))
    BY <1>0, <2>2
  <2> HIDE DEF found
  <2> QED
    BY <2>1, <2>2, <2>3 DEF ScanStates
<1> QED
  BY <1>0, <1>1, <1>2, <1>3, <1>4 DEF Char

LEMMA ScanInBuffer ==
    ASSUME NEW b \in Seq(Char), NEW st \in Seq(1..Len(b)), OpenIn(b, st)
    PROVE  Scan(b, st) \in ScanStates(b) /\ OpenIn(b, Scan(b, st).stack)
<1>0. Len(b) \in Nat
  OBVIOUS
<1>1. PICK f : /\ f[0] = Start(st)
               /\ \A n \in 1..Len(b) : f[n] = Pair(f[n - 1], b[n], n)
               /\ Scan(b, st) = f[Len(b)]
  BY <1>0, ScanSteps
<1> DEFINE H == {n \in 0..Len(b) : f[n] \in ScanStates(b) /\ OpenIn(b, f[n].stack)}
<1>2. 0 \in H
  <2>1. f[0] = Start(st) /\ 0 \in 0..Len(b)
    BY <1>0, <1>1
  <2>2. Start(st) \in ScanStates(b) /\ Start(st).stack = st
    BY NoneOf DEF Start, ScanStates
  <2> QED
    BY <2>1, <2>2
<1>3. ASSUME NEW n \in 1..Len(b), n - 1 \in H PROVE n \in H
  <2>1. f[n - 1] \in ScanStates(b) /\ OpenIn(b, f[n - 1].stack) /\ n \in 0..Len(b)
    BY <1>3
  <2>2. f[n] = Pair(f[n - 1], b[n], n)
    BY <1>1
  <2> QED
    BY <2>1, <2>2, PairInBuffer
<1>4. \A n \in 0..Len(b) : n \in H
  <2> HIDE DEF H
  <2> QED
    BY <1>0, <1>2, <1>3, Induction
<1> QED
  BY <1>1, <1>4

LEMMA CutInBuffer ==
    ASSUME NEW b \in Seq(Char), NEW s \in ScanStates(b)
    PROVE  /\ [k \in 1..Len(s.found) |-> SubSeq(b, s.found[k][1], s.found[k][2])]
                 \in Seq(Seq(Char))
           /\ Rest(s, b) \in Seq(Char)
<1>0. s.found \in Seq((1..Len(b)) \X (1..Len(b))) /\ Len(s.found) \in Nat /\ Len(b) \in Nat
  BY DEF ScanStates
<1>1. ASSUME NEW k \in 1..Len(s.found)
      PROVE  /\ s.found[k][1] \in 1..Len(b) /\ s.found[k][2] \in 1..Len(b)
             /\ SubSeq(b, s.found[k][1], s.found[k][2]) \in Seq(Char)
  <2>1. s.found[k][1] \in 1..Len(b) /\ s.found[k][2] \in 1..Len(b)
    BY <1>0
  <2>2. SubSeq(b, s.found[k][1], s.found[k][2]) \in Seq(Char)
    BY <2>1, SubSeqProperties
  <2> QED
    BY <2>1, <2>2
<1>2. [k \in 1..Len(s.found) |-> SubSeq(b, s.found[k][1], s.found[k][2])]
         \in Seq(Seq(Char))
  BY <1>0, <1>1
<1>3. CASE s.bad \/ s.found = <<>>
  BY <1>2, <1>3 DEF Rest
<1>4. CASE ~s.bad /\ s.found # <<>>
  <2>1. Last(s.found)[2] \in 1..Len(b)
    BY <1>0, <1>1, <1>4 DEF Last
  <2>2. SubSeq(b, Last(s.found)[2] + 1, Len(b)) \in Seq(Char)
    BY <2>1, SubSeqProperties
  <2> QED
    BY <1>2, <1>4, <2>2 DEF Rest
<1> QED
  BY <1>3, <1>4

LEMMA InitStack == Init => StackIsInBuffer
  BY DEF Init, StackIsInBuffer, TypeOK

LEMMA StepStack == StackIsInBuffer /\ [Next]_vars => StackIsInBuffer'
<1> SUFFICES ASSUME StackIsInBuffer, [Next]_vars PROVE StackIsInBuffer'
  OBVIOUS
<1>0. TypeOK /\ OpenIn(buf, stack)
  BY DEF StackIsInBuffer, OpenIn
<1>1. CASE UNCHANGED vars
  BY <1>1 DEF vars, StackIsInBuffer, TypeOK
<1>2. CASE Clear
  <2>1. /\ buf' = <<>> /\ stack' = <<>> /\ delivered' = <<>>
        /\ text' = <<>> /\ whole' = TRUE
    BY <1>2 DEF Clear
  <2>2. TypeOK'
    BY <2>1, NoneOf DEF TypeOK
  <2>3. OpenIn(buf', stack')
    <3>1. stack' = <<>>
      BY <2>1
    <3> QED
      BY <3>1, NoneOpen
  <2> QED
    BY <2>2, <2>3 DEF StackIsInBuffer, OpenIn
<1>3. ASSUME NEW m \in Pieces, ReceivePiece(m) PROVE StackIsInBuffer'
  <2> DEFINE b == buf \o m
             s == Scan(b, stack)
  <2>1. m \in Seq(Char) /\ buf \in Seq(Char) /\ text \in Seq(Char)
    BY <1>0, BoundsAssumption DEF Pieces, TypeOK
  <2>2. /\ b \in Seq(Char) /\ Len(b) = Len(buf) + Len(m)
        /\ Len(buf) \in Nat /\ Len(m) \in Nat
        /\ \A k \in 1..Len(buf) : b[k] = buf[k]
    BY <2>1
  <2>3. stack \in Seq(1..Len(b)) /\ OpenIn(b, stack)
    <3>1. stack \in Seq(1..Len(buf))
      BY <1>0 DEF TypeOK
    <3>2. \A k \in 1..Len(stack) : stack[k] \in 1..Len(buf)
      BY <3>1
    <3> HIDE DEF b
    <3>3. stack \in Seq(1..Len(b))
      BY <3>1, <3>2, <2>2
    <3> QED
      BY <3>2, <3>3, <2>2, <1>0 DEF OpenIn
  <2> HIDE DEF b
  <2>4. s \in ScanStates(b) /\ OpenIn(b, s.stack)
    BY <2>2, <2>3, ScanInBuffer
  <2> HIDE DEF s
  <2>5. /\ delivered' = delivered \o [k \in 1..Len(s.found) |->
                                         SubSeq(b, s.found[k][1], s.found[k][2])]
        /\ buf' = Rest(s, b)
        /\ stack' = StackLeft(s)
        /\ text' = text \o m
    BY <1>3 DEF ReceivePiece, OnMessage, b, s
  <2>6. delivered' \in Seq(Seq(Char)) /\ buf' \in Seq(Char)
    <3>1. delivered \in Seq(Seq(Char))
      BY <1>0 DEF TypeOK
    <3>2. [k \in 1..Len(s.found) |-> SubSeq(b, s.found[k][1], s.found[k][2])]
             \in Seq(Seq(Char)) /\ Rest(s, b) \in Seq(Char)
      BY <2>2, <2>4, CutInBuffer
    <3> QED
      BY <3>1, <3>2, <2>5
  <2>7. stack' \in Seq(1..Len(buf')) /\ OpenIn(buf', stack')
    <3>1. CASE s.bad \/ s.found # <<>>
      <4>1. stack' = <<>>
        BY <3>1, <2>5 DEF StackLeft
      <4> QED
        BY <4>1, NoneOpen
    <3>2. CASE ~s.bad /\ s.found = <<>>
      <4>1. stack' = s.stack /\ buf' = b
        BY <3>2, <2>5 DEF StackLeft, Rest
      <4> QED
        BY <4>1, <2>4 DEF ScanStates
    <3> QED
      BY <3>1, <3>2
  <2>8. text' \in Seq(Char) /\ whole' \in BOOLEAN
    BY <1>0, <1>3, <2>1, <2>5 DEF ReceivePiece, TypeOK
  <2> QED
    BY <2>6, <2>7, <2>8 DEF StackIsInBuffer, TypeOK, OpenIn
<1> QED
  BY <1>1, <1>2, <1>3 DEF Next

(* Whatever the server sends and however it is cut, the positions from     *)
(* which JsonExtractor::onMessage cuts objects are positions of opening    *)
(* braces of _buf.                                                         *)
THEOREM StackStaysInBuffer == Spec => []StackIsInBuffer
  BY InitStack, StepStack, PTL DEF Spec
-----------------------------------------------------------------------------
(* Counting: what Depth and EndsUpTo are made of. *)
LEMMA CountUpTo ==
    ASSUME NEW S, NEW n \in Nat
    PROVE  /\ Cardinality(S \cap (1..n)) \in Nat
           /\ n = 0 => Cardinality(S \cap (1..n)) = 0
           /\ n > 0 => Cardinality(S \cap (1..n)) =
                         Cardinality(S \cap (1..(n - 1))) + (IF n \in S THEN 1 ELSE 0)
<1>1. \A m \in Nat : IsFiniteSet(S \cap (1..m)) /\ Cardinality(S \cap (1..m)) \in Nat
  <2> TAKE m \in Nat
  <2>1. IsFiniteSet(1..m)
    BY FS_Interval
  <2>2. S \cap (1..m) \subseteq 1..m
    OBVIOUS
  <2> QED
    BY <2>1, <2>2, FS_Subset, FS_CardinalityType
<1>2. ASSUME n = 0 PROVE Cardinality(S \cap (1..n)) = 0
  <2>1. S \cap (1..n) = {}
    BY <1>2
  <2> QED
    BY <2>1, FS_EmptySet
<1>3. ASSUME n > 0
      PROVE  Cardinality(S \cap (1..n)) =
               Cardinality(S \cap (1..(n - 1))) + (IF n \in S THEN 1 ELSE 0)
  <2>1. n - 1 \in Nat /\ 1..n = (1..(n - 1)) \cup {n} /\ n \notin 1..(n - 1)
    BY <1>3
  <2>2. CASE n \in S
    <3>1. S \cap (1..n) = (S \cap (1..(n - 1))) \cup {n} /\ n \notin S \cap (1..(n - 1))
      BY <2>1, <2>2
    <3>2. IsFiniteSet(S \cap (1..(n - 1)))
      BY <1>1, <2>1
    <3> QED
      BY <2>2, <3>1, <3>2, FS_AddElement
  <2>3. CASE n \notin S
    <3>1. S \cap (1..n) = S \cap (1..(n - 1))
      BY <2>1, <2>3
    <3> QED
      BY <1>1, <2>1, <2>3, <3>1
  <2> QED
    BY <2>2, <2>3
<1> QED
  BY <1>1, <1>2, <1>3

LEMMA DepthStep ==
    ASSUME NEW s, NEW n \in Nat
    PROVE  /\ Depth(s, n) \in Int
           /\ n = 0 => Depth(s, n) = 0
           /\ n > 0 => /\ s[n] = "open" => Depth(s, n) = Depth(s, n - 1) + 1
                       /\ s[n] = "close" => Depth(s, n) = Depth(s, n - 1) - 1
                       /\ s[n] \notin {"open", "close"} => Depth(s, n) = Depth(s, n - 1)
<1> DEFINE O == {k \in Nat : s[k] = "open"}
           C == {k \in Nat : s[k] = "close"}
<1>1. \A m \in Nat : /\ Opens(s, m) = Cardinality(O \cap (1..m))
                     /\ Closes(s, m) = Cardinality(C \cap (1..m))
  <2> TAKE m \in Nat
  <2>0. \A k \in 1..m : k \in Nat
    OBVIOUS
  <2>1. {k \in 1..m : s[k] = "open"} = O \cap (1..m)
    BY <2>0, Zenon
  <2>2. {k \in 1..m : s[k] = "close"} = C \cap (1..m)
    BY <2>0, Zenon
  <2> QED
    BY <2>1, <2>2 DEF Opens, Closes
<1>2. (n \in O <=> s[n] = "open") /\ (n \in C <=> s[n] = "close")
  OBVIOUS
<1> HIDE DEF O, C
<1>3. /\ Opens(s, n) \in Nat /\ Closes(s, n) \in Nat
      /\ n = 0 => Opens(s, n) = 0 /\ Closes(s, n) = 0
  <2>1. /\ Cardinality(O \cap (1..n)) \in Nat
        /\ n = 0 => Cardinality(O \cap (1..n)) = 0
    BY CountUpTo
  <2>2. /\ Cardinality(C \cap (1..n)) \in Nat
        /\ n = 0 => Cardinality(C \cap (1..n)) = 0
    BY CountUpTo
  <2> QED
    BY <1>1, <2>1, <2>2
<1>4. ASSUME n > 0
      PROVE  /\ Opens(s, n - 1) \in Nat /\ Closes(s, n - 1) \in Nat
             /\ Opens(s, n) = Opens(s, n - 1) + (IF s[n] = "open" THEN 1 ELSE 0)
             /\ Closes(s, n) = Closes(s, n - 1) + (IF s[n] = "close" THEN 1 ELSE 0)
  <2>1. n - 1 \in Nat
    BY <1>4
  <2>2. /\ Cardinality(O \cap (1..(n - 1))) \in Nat
        /\ Cardinality(O \cap (1..n)) =
             Cardinality(O \cap (1..(n - 1))) + (IF n \in O THEN 1 ELSE 0)
    BY <1>4, <2>1, CountUpTo
  <2>3. /\ Cardinality(C \cap (1..(n - 1))) \in Nat
        /\ Cardinality(C \cap (1..n)) =
             Cardinality(C \cap (1..(n - 1))) + (IF n \in C THEN 1 ELSE 0)
    BY <1>4, <2>1, CountUpTo
  <2>4. /\ Opens(s, n) = Cardinality(O \cap (1..n))
        /\ Closes(s, n) = Cardinality(C \cap (1..n))
        /\ Opens(s, n - 1) = Cardinality(O \cap (1..(n - 1)))
        /\ Closes(s, n - 1) = Cardinality(C \cap (1..(n - 1)))
    BY <1>1, <2>1
  <2> QED
    BY <1>2, <2>2, <2>3, <2>4
<1>5. Depth(s, n) = Opens(s, n) - Closes(s, n) /\ Depth(s, n - 1) = Opens(s, n - 1) - Closes(s, n - 1)
  BY DEF Depth
<1>6. Depth(s, n) \in Int /\ (n = 0 => Depth(s, n) = 0)
  BY <1>3, <1>5
<1> DEFINE Up == s[n] = "open"
           Down == s[n] = "close"
<1>7. ~(Up /\ Down)
  OBVIOUS
<1> HIDE DEF Up, Down
<1>8. ASSUME n > 0
      PROVE  /\ Up => Depth(s, n) = Depth(s, n - 1) + 1
             /\ Down => Depth(s, n) = Depth(s, n - 1) - 1
             /\ ~Up /\ ~Down => Depth(s, n) = Depth(s, n - 1)
  <2>1. /\ Opens(s, n) = Opens(s, n - 1) + (IF Up THEN 1 ELSE 0)
        /\ Closes(s, n) = Closes(s, n - 1) + (IF Down THEN 1 ELSE 0)
        /\ Opens(s, n - 1) \in Nat /\ Closes(s, n - 1) \in Nat
    BY <1>4, <1>8 DEF Up, Down
  <2> QED
    BY <1>5, <1>7, <2>1
<1> QED
  BY <1>6, <1>8 DEF Up, Down

LEMMA DepthOfPrefix ==
    ASSUME NEW s, NEW t, NEW n \in Nat, \A k \in 1..n : t[k] = s[k]
    PROVE  Depth(t, n) = Depth(s, n)
<1>1. /\ {k \in 1..n : t[k] = "open"} = {k \in 1..n : s[k] = "open"}
      /\ {k \in 1..n : t[k] = "close"} = {k \in 1..n : s[k] = "close"}
  OBVIOUS
<1> QED
  BY <1>1 DEF Depth, Opens, Closes

LEMMA EndsStep ==
    ASSUME NEW s \in Seq(Char), NEW n \in 0..Len(s)
    PROVE  /\ EndsUpTo(s, n) \in Nat
           /\ n = 0 => EndsUpTo(s, n) = 0
           /\ n > 0 => EndsUpTo(s, n) =
                  EndsUpTo(s, n - 1) + (IF n \in ObjectEnds(s) THEN 1 ELSE 0)
<1>0. Len(s) \in Nat
  OBVIOUS
<1>1. \A m \in 0..Len(s) : EndsUpTo(s, m) = Cardinality(ObjectEnds(s) \cap (1..m))
  <2> TAKE m \in 0..Len(s)
  <2>0. ASSUME NEW e \in ObjectEnds(s) PROVE e <= m <=> e \in 1..m
    <3>1. e \in 1..Len(s)
      BY Zenon DEF ObjectEnds
    <3> QED
      BY <1>0, <3>1
  <2>1. {e \in ObjectEnds(s) : e <= m} = ObjectEnds(s) \cap (1..m)
    BY <2>0, Zenon
  <2> QED
    BY <2>1 DEF EndsUpTo
<1>2. n > 0 => n - 1 \in 0..Len(s)
  BY <1>0
<1>3. n \in Nat
  BY <1>0
<1>4. /\ Cardinality(ObjectEnds(s) \cap (1..n)) \in Nat
      /\ n = 0 => Cardinality(ObjectEnds(s) \cap (1..n)) = 0
      /\ n > 0 => Cardinality(ObjectEnds(s) \cap (1..n)) =
                    Cardinality(ObjectEnds(s) \cap (1..(n - 1)))
                      + (IF n \in ObjectEnds(s) THEN 1 ELSE 0)
  BY <1>3, CountUpTo
<1> QED
  BY <1>1, <1>2, <1>4

LEMMA EndsGrow ==
    ASSUME NEW s \in Seq(Char), NEW n \in 0..Len(s), NEW m \in 0..n
    PROVE  /\ EndsUpTo(s, m) <= EndsUpTo(s, n)
           /\ n \in ObjectEnds(s) /\ m < n => EndsUpTo(s, m) < EndsUpTo(s, n)
<1>0. Len(s) \in Nat
  OBVIOUS
<1>1. \A k \in 0..Len(s) : m <= k => EndsUpTo(s, m) <= EndsUpTo(s, k)
  <2> DEFINE H == {k \in 0..Len(s) : m <= k => EndsUpTo(s, m) <= EndsUpTo(s, k)}
  <2>1. 0 \in H
    BY <1>0, EndsStep
  <2>2. ASSUME NEW k \in 1..Len(s), k - 1 \in H PROVE k \in H
    <3>1. k \in 0..Len(s) /\ k - 1 \in 0..Len(s) /\ m \in 0..Len(s) /\ k > 0
      BY <1>0
    <3>2. /\ EndsUpTo(s, k) \in Nat /\ EndsUpTo(s, k - 1) \in Nat /\ EndsUpTo(s, m) \in Nat
          /\ EndsUpTo(s, k - 1) <= EndsUpTo(s, k)
      BY <3>1, EndsStep
    <3>3. CASE m = k
      BY <3>1, <3>2, <3>3
    <3>4. CASE m # k
      BY <2>2, <3>1, <3>2, <3>4
    <3> QED
      BY <3>3, <3>4
  <2> HIDE DEF H
  <2>3. \A k \in 0..Len(s) : k \in H
    BY <1>0, <2>1, <2>2, Induction
  <2> QED
    BY <2>3 DEF H
<1>2. ASSUME n \in ObjectEnds(s), m < n PROVE EndsUpTo(s, m) < EndsUpTo(s, n)
  <2>1. n - 1 \in 0..Len(s) /\ m <= n - 1 /\ n > 0 /\ m \in 0..Len(s)
    BY <1>0, <1>2
  <2>2. EndsUpTo(s, m) <= EndsUpTo(s, n - 1)
    BY <1>1, <2>1
  <2>3. EndsUpTo(s, n) = EndsUpTo(s, n - 1) + 1 /\ EndsUpTo(s, n - 1) \in Nat
        /\ EndsUpTo(s, m) \in Nat
    BY <1>2, <2>1, EndsStep
  <2> QED
    BY <2>2, <2>3
<1> QED
  BY <1>0, <1>1, <1>2

(* Every object has its place in the order of their ends. *)
LEMMA EndOfEach ==
    ASSUME NEW s \in Seq(Char), NEW k \in 1..EndsUpTo(s, Len(s))
    PROVE  \E n \in ObjectEnds(s) : EndsUpTo(s, n) = k
<1>0. Len(s) \in Nat /\ Len(s) \in 0..Len(s) /\ 0 \in 0..Len(s)
  OBVIOUS
<1> DEFINE S == {n \in 0..Len(s) : k <= EndsUpTo(s, n)}
<1>1. Len(s) \in S /\ S \in SUBSET Nat
  BY <1>0, EndsStep
<1>2. PICK n \in S : \A m \in S : n <= m
  <2> HIDE DEF S
  <2> QED
    BY <1>1, LeastNumber
<1>3. n \in 0..Len(s) /\ EndsUpTo(s, n) \in Nat /\ k <= EndsUpTo(s, n) /\ n # 0
  <2>1. EndsUpTo(s, 0) = 0
    BY <1>0, EndsStep
  <2>2. n \in 0..Len(s) /\ k <= EndsUpTo(s, n) /\ k \in Nat \ {0}
    BY <1>0, EndsStep
  <2> QED
    BY <2>1, <2>2, EndsStep
<1>4. n - 1 \in 0..Len(s) /\ n > 0 /\ n - 1 < n
  BY <1>0, <1>3
<1>5. ~(k <= EndsUpTo(s, n - 1))
  BY <1>2, <1>4
<1>6. EndsUpTo(s, n - 1) \in Nat
      /\ EndsUpTo(s, n) = EndsUpTo(s, n - 1) + (IF n \in ObjectEnds(s) THEN 1 ELSE 0)
  BY <1>3, <1>4, EndsStep
<1>7. n \in ObjectEnds(s) /\ EndsUpTo(s, n) = k
  BY <1>0, <1>3, <1>5, <1>6
<1> QED
  BY <1>7
-----------------------------------------------------------------------------
(* What begins an object that ends at n. *)
IsBegin(s, n, k) == /\ k \in 1..n
                    /\ s[k] = "open" /\ Depth(s, k) = 1
                    /\ \A l \in k..(n - 1) : Depth(s, l) > 0

LEMMA BeginIs ==
    ASSUME NEW s, NEW n \in Nat, NEW k
    PROVE  IsBegin(s, n, k) <=>
             /\ k \in Nat /\ 1 <= k /\ k <= n
             /\ s[k] = "open" /\ Depth(s, k) = 1
             /\ \A l \in Nat : k <= l /\ l < n => Depth(s, l) > 0
<1>1. IsBegin(s, n, k) <=> /\ k \in 1..n
                           /\ s[k] = "open" /\ Depth(s, k) = 1
                           /\ \A l \in k..(n - 1) : Depth(s, l) > 0
  BY Zenon DEF IsBegin
<1>2. k \in 1..n <=> k \in Nat /\ 1 <= k /\ k <= n
  OBVIOUS
<1>3. ASSUME k \in 1..n PROVE \A l : l \in k..(n - 1) <=> l \in Nat /\ k <= l /\ l < n
  BY <1>3
<1> QED
  BY <1>1, <1>2, <1>3, Zenon

LEMMA BeginIsOne ==
    ASSUME NEW s \in Seq(Char), NEW n \in 1..Len(s), NEW k, IsBegin(s, n, k)
    PROVE  ObjectBegin(s, n) = k
<1>1. ASSUME NEW i, NEW j, IsBegin(s, n, i), IsBegin(s, n, j), i < j PROVE FALSE
  <2>1. n \in Nat
    OBVIOUS
  <2>2. /\ i \in Nat /\ j \in Nat /\ 1 <= i /\ j <= n
        /\ s[j] = "open" /\ Depth(s, j) = 1
        /\ \A l \in Nat : i <= l /\ l < n => Depth(s, l) > 0
    BY <1>1, <2>1, BeginIs
  <2>3. j - 1 \in Nat /\ i <= j - 1 /\ j - 1 < n /\ j > 0
    BY <1>1, <2>1, <2>2
  <2>4. Depth(s, j - 1) > 0
    BY <2>2, <2>3
  <2>5. Depth(s, j - 1) \in Int /\ Depth(s, j) = Depth(s, j - 1) + 1
    BY <2>2, <2>3, DepthStep
  <2> QED
    BY <2>2, <2>4, <2>5
<1>2. \A j : IsBegin(s, n, j) => j = k
  <2> SUFFICES ASSUME NEW j, IsBegin(s, n, j) PROVE j = k
    OBVIOUS
  <2>1. n \in Nat
    OBVIOUS
  <2>2. j \in Nat /\ k \in Nat
    BY <2>1, BeginIs
  <2>3. ~(j < k) /\ ~(k < j)
    BY <1>1
  <2> QED
    BY <2>2, <2>3
<1>3. ObjectBegin(s, n) = CHOOSE j : IsBegin(s, n, j)
  BY Zenon DEF ObjectBegin, IsBegin
<1>4. IsBegin(s, n, CHOOSE j : IsBegin(s, n, j))
  BY Zenon
<1> QED
  BY <1>2, <1>3, <1>4

(* The scan of what follows place c of the text t, where the depth is 0.   *)
(* Begun with an empty stack it finds the objects: after n characters the  *)
(* stack is as high as the depth and its first position is where the       *)
(* object that is open began; the pairs found are the objects ended so far.*)
OpenSince(t, c, n, p) == /\ p \in 1..n
                         /\ t[c + p] = "open" /\ Depth(t, c + p) = 1
                         /\ \A l \in (c + p)..(c + n) : Depth(t, l) > 0

LEMMA OpenSinceIs ==
    ASSUME NEW t, NEW c \in Nat, NEW n \in Nat, NEW p
    PROVE  OpenSince(t, c, n, p) <=>
             /\ p \in Nat /\ 1 <= p /\ p <= n
             /\ t[c + p] = "open" /\ Depth(t, c + p) = 1
             /\ \A l \in Nat : c + p <= l /\ l <= c + n => Depth(t, l) > 0
<1>1. OpenSince(t, c, n, p) <=> /\ p \in 1..n
                                /\ t[c + p] = "open" /\ Depth(t, c + p) = 1
                                /\ \A l \in (c + p)..(c + n) : Depth(t, l) > 0
  BY Zenon DEF OpenSince
<1>2. p \in 1..n <=> p \in Nat /\ 1 <= p /\ p <= n
  OBVIOUS
<1>3. ASSUME p \in 1..n
      PROVE  \A l : l \in (c + p)..(c + n) <=> l \in Nat /\ c + p <= l /\ l <= c + n
  BY <1>3
<1> QED
  BY <1>1, <1>2, <1>3, Zenon

Found(t, c, s, e, k) == /\ k \in 1..Len(s.found)
                        /\ c + s.found[k][2] = e
                        /\ IsBegin(t, e, c + s.found[k][1])

CutFrom(c, s) == IF s.found = <<>> THEN c ELSE c + Last(s.found)[2]

Aligned(t, c, s, n) ==
    /\ ~s.bad
    /\ Len(s.stack) = Depth(t, c + n)
    /\ s.stack # <<>> => OpenSince(t, c, n, s.stack[1])
    /\ Len(s.found) = EndsUpTo(t, c + n) - EndsUpTo(t, c)
    /\ \A e \in ObjectEnds(t) :
          c < e /\ e <= c + n => Found(t, c, s, e, EndsUpTo(t, e) - EndsUpTo(t, c))
    /\ \A e \in ObjectEnds(t) : e <= c + n => e <= CutFrom(c, s)
    /\ \/ CutFrom(c, s) = c
       \/ CutFrom(c, s) \in ObjectEnds(t) /\ CutFrom(c, s) \in c..(c + n)

LEMMA AlignedStep ==
    ASSUME NEW t \in Seq(Char), WellFormed(t),
           NEW c \in 0..Len(t), NEW b \in Seq(Char), Len(b) = Len(t) - c,
           NEW n \in 1..Len(b), b[n] = t[c + n],
           NEW s \in ScanStates(b), Aligned(t, c, s, n - 1)
    PROVE  Aligned(t, c, Pair(s, b[n], n), n)
<1> DEFINE r == Pair(s, b[n], n)
           x == c + n
<1>0. /\ Len(t) \in Nat /\ Len(b) \in Nat /\ c \in Nat /\ n \in Nat
      /\ x \in 1..Len(t) /\ x \in 0..Len(t) /\ x \in Nat /\ x > 0
      /\ c + (n - 1) = x - 1 /\ x - 1 \in Nat /\ x - 1 \in 0..Len(t) /\ c \in 0..x /\ c < x
  OBVIOUS
<1>1. /\ s.stack \in Seq(1..Len(b)) /\ s.found \in Seq((1..Len(b)) \X (1..Len(b)))
      /\ b[n] \in Char /\ t[x] = b[n]
  BY DEF ScanStates
<1>2. Len(s.stack) \in Nat /\ (s.stack = <<>> <=> Len(s.stack) = 0)
  <2>1. s.stack \in Seq(1..Len(b))
    BY <1>1
  <2> QED
    BY <2>1, EmptySeq
<1>13. Len(s.found) \in Nat
  <2>1. s.found \in Seq((1..Len(b)) \X (1..Len(b)))
    BY <1>1
  <2> QED
    BY <2>1
<1>14. c + (n - 1) = x - 1
  BY <1>0
<1>3. /\ ~s.bad
      /\ Len(s.stack) = Depth(t, x - 1)
      /\ s.stack # <<>> => OpenSince(t, c, n - 1, s.stack[1])
      /\ Len(s.found) = EndsUpTo(t, x - 1) - EndsUpTo(t, c)
  BY <1>14 DEF Aligned
<1>15. \A e \in ObjectEnds(t) :
          c < e /\ e <= x - 1 => Found(t, c, s, e, EndsUpTo(t, e) - EndsUpTo(t, c))
  BY <1>14, Zenon DEF Aligned
<1>16. /\ \A e \in ObjectEnds(t) : e <= x - 1 => e <= CutFrom(c, s)
       /\ CutFrom(c, s) = c \/ (CutFrom(c, s) \in ObjectEnds(t) /\ CutFrom(c, s) \in c..(x - 1))
  BY <1>14, Zenon DEF Aligned
<1>4. /\ Depth(t, x) \in Int /\ Depth(t, x - 1) \in Int /\ Depth(t, x) >= 0
      /\ t[x] = "open" => Depth(t, x) = Depth(t, x - 1) + 1
      /\ t[x] = "close" => Depth(t, x) = Depth(t, x - 1) - 1
      /\ t[x] \notin {"open", "close"} => Depth(t, x) = Depth(t, x - 1)
  <2>1. Depth(t, x) >= 0
    BY <1>0 DEF WellFormed
  <2> QED
    BY <1>0, <2>1, DepthStep
<1>5. /\ EndsUpTo(t, x) \in Nat /\ EndsUpTo(t, x - 1) \in Nat /\ EndsUpTo(t, c) \in Nat
      /\ EndsUpTo(t, x) = EndsUpTo(t, x - 1) + (IF x \in ObjectEnds(t) THEN 1 ELSE 0)
  BY <1>0, EndsStep
<1>6. x \in ObjectEnds(t) <=> t[x] = "close" /\ Depth(t, x) = 0
  BY <1>0 DEF ObjectEnds
<1>7. \A e \in ObjectEnds(t) : e \in Nat /\ (e <= x => e <= x - 1 \/ e = x)
  <2> TAKE e \in ObjectEnds(t)
  <2>1. e \in 1..Len(t)
    BY Zenon DEF ObjectEnds
  <2> QED
    BY <1>0, <2>1
<1> HIDE DEF x
(* The object goes on, or none is open: nothing is found. *)
<1>8. ASSUME r.found = s.found, ~r.bad, Len(r.stack) = Depth(t, x),
             x \notin ObjectEnds(t), r.stack # <<>> => OpenSince(t, c, n, r.stack[1])
      PROVE  Aligned(t, c, r, n)
  <2> HIDE DEF r
  <2>1. CutFrom(c, r) = CutFrom(c, s)
    BY <1>8 DEF CutFrom
  <2>2. \A e \in ObjectEnds(t) :
           c < e /\ e <= x => Found(t, c, r, e, EndsUpTo(t, e) - EndsUpTo(t, c))
    BY <1>15, <1>7, <1>8 DEF Found
  <2>3. \A e \in ObjectEnds(t) : e <= x => e <= CutFrom(c, r)
    BY <1>16, <1>7, <1>8, <2>1
  <2>4. CutFrom(c, r) = c \/ (CutFrom(c, r) \in ObjectEnds(t) /\ CutFrom(c, r) \in c..x)
    <3>1. \A k : k \in c..(x - 1) => k \in c..x
      BY <1>0
    <3> QED
      BY <3>1, <1>16, <2>1, Zenon
  <2>5. Len(r.found) = EndsUpTo(t, x) - EndsUpTo(t, c)
    BY <1>3, <1>5, <1>8
  <2> QED
    BY <1>8, <2>2, <2>3, <2>4, <2>5 DEF Aligned, x
(* What is open stays open. *)
<1>9. ASSUME NEW p, OpenSince(t, c, n - 1, p), Depth(t, x) > 0
      PROVE  OpenSince(t, c, n, p)
  <2>1. n - 1 \in Nat
    BY <1>0
  <2>2. /\ p \in Nat /\ 1 <= p /\ p <= n - 1
        /\ t[c + p] = "open" /\ Depth(t, c + p) = 1
        /\ \A l \in Nat : c + p <= l /\ l <= c + (n - 1) => Depth(t, l) > 0
    BY <1>0, <1>9, <2>1, OpenSinceIs
  <2>3. ASSUME NEW l \in Nat, c + p <= l, l <= c + n PROVE Depth(t, l) > 0
    <3>1. l <= c + (n - 1) \/ l = x
      BY <1>0, <2>3 DEF x
    <3> QED
      BY <1>9, <2>2, <2>3, <3>1
  <2>4. p <= n
    BY <1>0, <2>2
  <2> QED
    BY <1>0, <2>2, <2>3, <2>4, OpenSinceIs
<1>10. CASE b[n] = "other"
  <2>1. r = s
    BY <1>10 DEF Pair
  <2>2. Depth(t, x) = Depth(t, x - 1) /\ x \notin ObjectEnds(t)
    BY <1>1, <1>4, <1>6, <1>10
  <2>3. r.stack # <<>> => OpenSince(t, c, n, r.stack[1])
    BY <1>2, <1>3, <1>9, <2>1, <2>2
  <2> QED
    BY <1>3, <1>8, <2>1, <2>2, <2>3
<1>11. CASE b[n] = "open"
  <2>1. r = [s EXCEPT !.stack = Append(s.stack, n)]
    BY <1>3, <1>11 DEF Pair
  <2>2. r.found = s.found /\ ~r.bad /\ r.stack = Append(s.stack, n)
    BY <1>3, <2>1 DEF ScanStates
  <2>3. Depth(t, x) = Depth(t, x - 1) + 1 /\ x \notin ObjectEnds(t)
    BY <1>1, <1>4, <1>6, <1>11
  <2>4. /\ Len(r.stack) = Len(s.stack) + 1
        /\ \A k \in 1..Len(s.stack) : r.stack[k] = s.stack[k]
        /\ r.stack[Len(s.stack) + 1] = n
    BY <1>1, <2>2, OneMore
  <2>5. OpenSince(t, c, n, r.stack[1])
    <3>1. CASE s.stack = <<>>
      <4>1. r.stack[1] = n /\ Depth(t, x) = 1
        BY <1>2, <1>3, <2>3, <2>4, <3>1
      <4>2. \A l \in Nat : c + n <= l /\ l <= c + n => Depth(t, l) > 0
        <5>1. \A l \in Nat : c + n <= l /\ l <= c + n => l = x
          BY <1>0 DEF x
        <5> QED
          BY <4>1, <5>1
      <4>3. n \in Nat /\ 1 <= n /\ n <= n /\ t[c + n] = "open" /\ Depth(t, c + n) = 1
        BY <1>0, <1>1, <1>11, <4>1 DEF x
      <4>4. OpenSince(t, c, n, n)
        <5>1. c \in Nat /\ n \in Nat
          BY <1>0
        <5>2. OpenSince(t, c, n, n) <=>
                /\ n \in Nat /\ 1 <= n /\ n <= n
                /\ t[c + n] = "open" /\ Depth(t, c + n) = 1
                /\ \A l \in Nat : c + n <= l /\ l <= c + n => Depth(t, l) > 0
          BY <5>1, OpenSinceIs, ZenonT(40)
        <5> QED
          BY <5>2, <4>2, <4>3, ZenonT(40)
      <4> QED
        BY <4>1, <4>4
    <3>2. CASE s.stack # <<>>
      <4>0. Len(s.stack) \in Nat \ {0}
        BY <1>3, <3>2, EmptySeq
      <4>1. r.stack[1] = s.stack[1] /\ Depth(t, x) > 0
        <5>1. 1 \in 1..Len(s.stack)
          BY <4>0
        <5>2. r.stack[1] = s.stack[1]
          BY <2>4, <5>1, Zenon
        <5>3. Depth(t, x) = Len(s.stack) + 1
          <6>1. Depth(t, x) = Depth(t, x - 1) + 1
            BY <2>3
          <6>2. Len(s.stack) = Depth(t, x - 1)
            BY <1>3
          <6> QED
            BY <6>1, <6>2, Zenon
        <5>4. Depth(t, x) > 0
          BY <4>0, <5>3
        <5> QED
          BY <5>2, <5>4
      <4> QED
        BY <1>3, <1>9, <3>2, <4>1
    <3> QED
      BY <3>1, <3>2
  <2> QED
    BY <1>3, <1>8, <2>2, <2>3, <2>4, <2>5
<1>12. CASE b[n] = "close"
  <2>1. Depth(t, x) = Depth(t, x - 1) - 1 /\ Len(s.stack) > 0 /\ s.stack # <<>>
    BY <1>1, <1>2, <1>3, <1>4, <1>12
  <2>2. /\ Len(Front(s.stack)) = Len(s.stack) - 1
        /\ Front(s.stack) \in Seq(1..Len(b))
        /\ \A k \in 1..(Len(s.stack) - 1) : Front(s.stack)[k] = s.stack[k]
        /\ Last(s.stack) = s.stack[Len(s.stack)] /\ Last(s.stack) \in 1..Len(b)
    BY <1>1, <2>1, OneLess
  <2>3. CASE Len(s.stack) = 1
    <3> DEFINE pair == <<Last(s.stack), n>>
    <3>1. r = [s EXCEPT !.stack = Front(s.stack), !.found = Append(s.found, pair)]
      BY <1>3, <1>12, <2>1, <2>3 DEF Pair
    <3>2. r.found = Append(s.found, pair) /\ ~r.bad /\ r.stack = Front(s.stack)
      BY <1>3, <3>1 DEF ScanStates
    <3>3. /\ pair \in (1..Len(b)) \X (1..Len(b))
          /\ pair[1] = s.stack[1] /\ pair[2] = n
      BY <2>2, <2>3
    <3> HIDE DEF pair, r
    <3>4. /\ Len(r.found) = Len(s.found) + 1 /\ r.found # <<>>
          /\ \A k \in 1..Len(s.found) : r.found[k] = s.found[k]
          /\ r.found[Len(s.found) + 1] = pair
      <4> DEFINE S == (1..Len(b)) \X (1..Len(b))
      <4>1. s.found \in Seq(S) /\ pair \in S
        BY <1>1, <3>3
      <4> HIDE DEF S
      <4> QED
        BY <3>2, <4>1, OneMore
    <3>5. Depth(t, x) = 0 /\ x \in ObjectEnds(t) /\ Len(r.stack) = 0 /\ r.stack = <<>>
      <4>1. Depth(t, x) = 0 /\ Len(r.stack) = 0
        BY <1>3, <2>1, <2>2, <2>3, <3>2
      <4> QED
        BY <1>1, <1>6, <1>12, <2>2, <3>2, <4>1, EmptySeq
    <3>6. CutFrom(c, r) = x
      BY <3>3, <3>4, <1>13 DEF CutFrom, Last, x
    <3>7. Len(r.found) = EndsUpTo(t, x) - EndsUpTo(t, c)
      BY <1>3, <1>5, <3>4, <3>5
    <3>8. Found(t, c, r, x, EndsUpTo(t, x) - EndsUpTo(t, c))
      <4> DEFINE k == Len(s.found) + 1
      <4>1. EndsUpTo(t, x) - EndsUpTo(t, c) = k /\ k \in 1..Len(r.found) /\ r.found[k] = pair
        BY <1>13, <3>4, <3>7
      <4>2. OpenSince(t, c, n - 1, s.stack[1])
        BY <1>3, <2>1
      <4>3. IsBegin(t, x, c + s.stack[1])
        <5> DEFINE p == s.stack[1]
                   m == n - 1
        <5>1. m \in Nat /\ c \in Nat /\ OpenSince(t, c, m, p)
          BY <1>0, <4>2
        <5> HIDE DEF p, m
        <5>2. /\ p \in Nat /\ 1 <= p /\ p <= m
              /\ t[c + p] = "open" /\ Depth(t, c + p) = 1
              /\ \A l \in Nat : c + p <= l /\ l <= c + m => Depth(t, l) > 0
          BY <5>1, OpenSinceIs, Zenon
        <5>3. c + p \in Nat /\ 1 <= c + p /\ c + p <= x
          BY <1>0, <5>2 DEF x, m
        <5>4. \A l \in Nat : c + p <= l /\ l < x => Depth(t, l) > 0
          BY <1>0, <5>2 DEF x, m
        <5> QED
          BY <1>0, <5>2, <5>3, <5>4, BeginIs DEF p
      <4> HIDE DEF k
      <4> QED
        BY <3>3, <4>1, <4>3 DEF Found, x
    <3>9. \A e \in ObjectEnds(t) :
             c < e /\ e <= x => Found(t, c, r, e, EndsUpTo(t, e) - EndsUpTo(t, c))
      <4> SUFFICES ASSUME NEW e \in ObjectEnds(t), c < e, e <= x - 1
                   PROVE  Found(t, c, r, e, EndsUpTo(t, e) - EndsUpTo(t, c))
        BY <1>7, <3>8
      <4> DEFINE k == EndsUpTo(t, e) - EndsUpTo(t, c)
      <4>1. Found(t, c, s, e, k)
        BY <1>15
      <4> HIDE DEF k
      <4>2. k \in 1..Len(s.found) /\ k \in 1..Len(r.found) /\ r.found[k] = s.found[k]
        BY <1>13, <3>4, <4>1 DEF Found
      <4>3. Found(t, c, r, e, k)
        BY <4>1, <4>2 DEF Found
      <4> QED
        BY <4>3 DEF k
    <3>10. \A e \in ObjectEnds(t) : e <= x => e <= CutFrom(c, r)
      BY <3>6
    <3>11. CutFrom(c, r) \in ObjectEnds(t) /\ CutFrom(c, r) \in c..x
      BY <1>0, <3>5, <3>6
    <3> QED
      BY <3>2, <3>5, <3>7, <3>9, <3>10, <3>11 DEF Aligned, x, r
  <2>4. CASE Len(s.stack) # 1
    <3>1. r = [s EXCEPT !.stack = Front(s.stack), !.found = s.found]
      BY <1>3, <1>12, <2>1, <2>4 DEF Pair
    <3>2. r.found = s.found /\ ~r.bad /\ r.stack = Front(s.stack)
      BY <1>3, <3>1 DEF ScanStates
    <3>3. Len(s.stack) > 1 /\ Depth(t, x) > 0 /\ x \notin ObjectEnds(t)
          /\ Len(r.stack) = Depth(t, x)
      <4> HIDE DEF r
      <4>1. Len(s.stack) > 1
        <5>1. \A l \in Nat : l > 0 /\ l # 1 => l > 1
          OBVIOUS
        <5> QED
          BY <1>2, <2>1, <2>4, <5>1
      <4>2. Len(r.stack) = Len(s.stack) - 1
        BY <2>2, <3>2
      <4> QED
        BY <1>2, <1>3, <1>4, <1>6, <2>1, <4>1, <4>2
    <3>4. r.stack[1] = s.stack[1]
      BY <1>2, <2>2, <3>2, <3>3
    <3>5. OpenSince(t, c, n, r.stack[1])
      BY <1>3, <1>9, <2>1, <3>3, <3>4
    <3> QED
      BY <1>8, <3>2, <3>3, <3>5
  <2> QED
    BY <2>3, <2>4
<1> QED
  BY <1>1, <1>10, <1>11, <1>12 DEF Char

LEMMA ScanAligned ==
    ASSUME NEW t \in Seq(Char), WellFormed(t),
           NEW c \in 0..Len(t), Depth(t, c) = 0,
           NEW b \in Seq(Char), Len(b) = Len(t) - c,
           \A n \in 1..Len(b) : b[n] = t[c + n]
    PROVE  /\ Scan(b, <<>>) \in ScanStates(b)
           /\ Aligned(t, c, Scan(b, <<>>), Len(b))
<1>0. Len(b) \in Nat /\ c \in Nat /\ Len(t) \in Nat
  OBVIOUS
<1>1. PICK f : /\ f[0] = Start(<<>>)
               /\ \A n \in 1..Len(b) : f[n] = Pair(f[n - 1], b[n], n)
               /\ Scan(b, <<>>) = f[Len(b)]
  BY <1>0, ScanSteps
<1> DEFINE H == {n \in 0..Len(b) : /\ f[n] \in ScanStates(b)
                                   /\ OpenIn(b, f[n].stack)
                                   /\ Aligned(t, c, f[n], n)}
<1>2. 0 \in H
  <2> DEFINE s == Start(<<>>)
  <2>1. s.stack = <<>> /\ s.found = <<>> /\ ~s.bad
    BY DEF Start
  <2>2. s \in ScanStates(b) /\ OpenIn(b, s.stack)
    BY <2>1, NoneOf, NoneOpen DEF Start, ScanStates
  <2> HIDE DEF s
  <2>3. c + 0 = c /\ EndsUpTo(t, c) \in Nat
    BY <1>0, EndsStep
  <2>4. CutFrom(c, s) = c /\ Len(<<>>) = 0
    BY <2>1 DEF CutFrom
  <2>5. \A e \in ObjectEnds(t) : ~(c < e /\ e <= c)
    BY <1>0 DEF ObjectEnds
  <2>6. Aligned(t, c, s, 0)
    BY <2>1, <2>3, <2>4, <2>5 DEF Aligned
  <2>7. f[0] = s
    BY <1>1 DEF s
  <2> QED
    BY <1>0, <2>2, <2>6, <2>7
<1>3. ASSUME NEW n \in 1..Len(b), n - 1 \in H PROVE n \in H
  <2>1. /\ f[n - 1] \in ScanStates(b) /\ OpenIn(b, f[n - 1].stack)
        /\ Aligned(t, c, f[n - 1], n - 1)
        /\ n \in 0..Len(b)
    BY <1>3
  <2>2. f[n] = Pair(f[n - 1], b[n], n) /\ b[n] = t[c + n]
    BY <1>1
  <2>3. f[n] \in ScanStates(b) /\ OpenIn(b, f[n].stack)
    BY <2>1, <2>2, PairInBuffer
  <2>4. Aligned(t, c, f[n], n)
    BY <2>1, <2>2, AlignedStep
  <2> QED
    BY <2>1, <2>3, <2>4
<1>4. \A n \in 0..Len(b) : n \in H
  <2> HIDE DEF H
  <2> QED
    BY <1>0, <1>2, <1>3, Induction
<1>5. Len(b) \in H
  BY <1>0, <1>4
<1> QED
  BY <1>1, <1>5

(* Begun with positions on the stack, it finds nothing in a text whose     *)
(* braces pair: the stack is never down to its first position when a brace *)
(* closes.                                                                 *)
Stuck(t, c, st, s, n) == /\ ~s.bad /\ s.found = <<>>
                         /\ Len(s.stack) = Len(st) + Depth(t, c + n)

LEMMA StuckStep ==
    ASSUME NEW t \in Seq(Char), WellFormed(t),
           NEW c \in 0..Len(t), NEW b \in Seq(Char), Len(b) = Len(t) - c,
           NEW n \in 1..Len(b), b[n] = t[c + n],
           NEW st \in Seq(1..Len(b)), st # <<>>,
           NEW s \in ScanStates(b), Stuck(t, c, st, s, n - 1)
    PROVE  Stuck(t, c, st, Pair(s, b[n], n), n)
<1> DEFINE r == Pair(s, b[n], n)
           x == c + n
<1>0. /\ x \in 1..Len(t) /\ x \in Nat /\ x > 0 /\ c + (n - 1) = x - 1 /\ x - 1 \in Nat
  OBVIOUS
<1>1. s.stack \in Seq(1..Len(b)) /\ b[n] \in Char /\ t[x] = b[n]
  BY DEF ScanStates
<1>2. Len(s.stack) \in Nat /\ (s.stack = <<>> <=> Len(s.stack) = 0)
  BY <1>1, EmptySeq
<1>3. Len(st) \in Nat /\ Len(st) > 0
  BY EmptySeq
<1>4. ~s.bad /\ s.found = <<>> /\ Len(s.stack) = Len(st) + Depth(t, x - 1)
  BY <1>0 DEF Stuck
<1>5. /\ Depth(t, x) \in Int /\ Depth(t, x - 1) \in Int /\ Depth(t, x) >= 0
      /\ t[x] = "open" => Depth(t, x) = Depth(t, x - 1) + 1
      /\ t[x] = "close" => Depth(t, x) = Depth(t, x - 1) - 1
      /\ t[x] \notin {"open", "close"} => Depth(t, x) = Depth(t, x - 1)
  <2>1. Depth(t, x) >= 0
    BY <1>0 DEF WellFormed
  <2> QED
    BY <1>0, <2>1, DepthStep
<1> HIDE DEF x
<1>6. CASE b[n] = "other"
  <2>1. r = s
    BY <1>6 DEF Pair
  <2>2. Depth(t, x) = Depth(t, x - 1)
    BY <1>1, <1>5, <1>6
  <2> QED
    BY <1>4, <2>1, <2>2 DEF Stuck, x
<1>7. CASE b[n] = "open"
  <2>1. r = [s EXCEPT !.stack = Append(s.stack, n)]
    BY <1>4, <1>7 DEF Pair
  <2>2. r.found = s.found /\ ~r.bad /\ r.stack = Append(s.stack, n)
    BY <1>4, <2>1 DEF ScanStates
  <2>3. Len(r.stack) = Len(s.stack) + 1
    BY <1>1, <2>2, OneMore
  <2>4. Depth(t, x) = Depth(t, x - 1) + 1
    BY <1>1, <1>5, <1>7
  <2> HIDE DEF r
  <2>5. Len(r.stack) = Len(st) + Depth(t, x)
    BY <1>2, <1>3, <1>4, <1>5, <2>3, <2>4
  <2> QED
    BY <1>4, <2>2, <2>5 DEF Stuck, x, r
<1>8. CASE b[n] = "close"
  <2>1. Depth(t, x) = Depth(t, x - 1) - 1
    BY <1>1, <1>5, <1>8
  <2>2. Len(s.stack) # 1 /\ Len(s.stack) # 0 /\ s.stack # <<>>
    <3>1. Depth(t, x - 1) >= 1
      BY <1>5, <2>1
    <3>2. Len(s.stack) >= 2
      BY <1>3, <1>4, <1>5, <3>1
    <3>3. \A l \in Nat : l >= 2 => l # 1 /\ l # 0
      OBVIOUS
    <3>4. Len(s.stack) # 1 /\ Len(s.stack) # 0
      BY <1>2, <3>2, <3>3
    <3> QED
      BY <1>2, <3>4
  <2>3. r = [s EXCEPT !.stack = Front(s.stack), !.found = s.found]
    BY <1>4, <1>8, <2>2 DEF Pair
  <2>4. r.found = s.found /\ ~r.bad /\ r.stack = Front(s.stack)
    BY <1>4, <2>3 DEF ScanStates
  <2>5. Len(r.stack) = Len(s.stack) - 1
    BY <1>1, <2>2, <2>4, OneLess
  <2> HIDE DEF r
  <2>6. Len(r.stack) = Len(st) + Depth(t, x)
    BY <1>2, <1>3, <1>4, <1>5, <2>1, <2>5
  <2> QED
    BY <1>4, <2>4, <2>6 DEF Stuck, x, r
<1> QED
  BY <1>1, <1>6, <1>7, <1>8 DEF Char

LEMMA ScanStuck ==
    ASSUME NEW t \in Seq(Char), WellFormed(t),
           NEW c \in 0..Len(t), Depth(t, c) = 0,
           NEW b \in Seq(Char), Len(b) = Len(t) - c,
           \A n \in 1..Len(b) : b[n] = t[c + n],
           NEW st \in Seq(1..Len(b)), st # <<>>, OpenIn(b, st)
    PROVE  /\ Scan(b, st).found = <<>> /\ ~Scan(b, st).bad
           /\ Scan(b, st).stack # <<>>
<1>0. Len(b) \in Nat /\ c \in Nat /\ Len(t) \in Nat /\ c + 0 = c /\ c + Len(b) = Len(t)
  OBVIOUS
<1>1. PICK f : /\ f[0] = Start(st)
               /\ \A n \in 1..Len(b) : f[n] = Pair(f[n - 1], b[n], n)
               /\ Scan(b, st) = f[Len(b)]
  BY <1>0, ScanSteps
<1>2. Len(st) \in Nat /\ Len(st) > 0
  BY EmptySeq
<1> DEFINE H == {n \in 0..Len(b) : /\ f[n] \in ScanStates(b)
                                   /\ OpenIn(b, f[n].stack)
                                   /\ Stuck(t, c, st, f[n], n)}
<1>3. 0 \in H
  <2> DEFINE s == Start(st)
  <2>1. s.stack = st /\ s.found = <<>> /\ ~s.bad
    BY DEF Start
  <2>2. s \in ScanStates(b) /\ OpenIn(b, s.stack)
    BY <2>1, NoneOf DEF Start, ScanStates
  <2> HIDE DEF s
  <2>3. Stuck(t, c, st, s, 0)
    BY <1>0, <1>2, <2>1 DEF Stuck
  <2>4. f[0] = s
    BY <1>1 DEF s
  <2> QED
    BY <1>0, <2>2, <2>3, <2>4
<1>4. ASSUME NEW n \in 1..Len(b), n - 1 \in H PROVE n \in H
  <2>1. /\ f[n - 1] \in ScanStates(b) /\ OpenIn(b, f[n - 1].stack)
        /\ Stuck(t, c, st, f[n - 1], n - 1)
        /\ n \in 0..Len(b)
    BY <1>4
  <2>2. f[n] = Pair(f[n - 1], b[n], n) /\ b[n] = t[c + n]
    BY <1>1
  <2>3. f[n] \in ScanStates(b) /\ OpenIn(b, f[n].stack)
    BY <2>1, <2>2, PairInBuffer
  <2>4. Stuck(t, c, st, f[n], n)
    BY <2>1, <2>2, StuckStep
  <2> QED
    BY <2>1, <2>3, <2>4
<1>5. \A n \in 0..Len(b) : n \in H
  <2> HIDE DEF H
  <2> QED
    BY <1>0, <1>3, <1>4, Induction
<1>6. Len(b) \in H
  BY <1>0, <1>5
<1> DEFINE r == Scan(b, st)
<1>7. r \in ScanStates(b) /\ Stuck(t, c, st, r, Len(b))
  BY <1>1, <1>6
<1> HIDE DEF r
<1>8. Depth(t, Len(t)) \in Int /\ Depth(t, Len(t)) >= 0
  <2>1. CASE Len(t) = 0
    BY <2>1, DepthStep
  <2>2. CASE Len(t) # 0
    <3>1. Len(t) \in 1..Len(t)
      BY <1>0, <2>2
    <3> QED
      BY <1>0, <3>1, DepthStep DEF WellFormed
  <2> QED
    BY <2>1, <2>2
<1>9. Len(r.stack) = Len(st) + Depth(t, Len(t)) /\ r.found = <<>> /\ ~r.bad
  BY <1>0, <1>7 DEF Stuck
<1>10. Len(r.stack) # 0
  BY <1>2, <1>8, <1>9
<1>11. Len(<<>>) = 0
  OBVIOUS
<1>12. r.stack # <<>>
  BY <1>10, <1>11
<1> QED
  BY <1>9, <1>12 DEF r
-----------------------------------------------------------------------------
(* What the depths, the ends and the beginnings in a text say does not     *)
(* change when more text comes.                                            *)
LEMMA MoreText ==
    ASSUME NEW s \in Seq(Char), NEW m \in Seq(Char)
    PROVE  LET t == s \o m
           IN /\ \A n \in 0..Len(s) : Depth(t, n) = Depth(s, n)
              /\ \A n \in 0..Len(s) : n \in ObjectEnds(t) <=> n \in ObjectEnds(s)
              /\ \A n \in 0..Len(s) : EndsUpTo(t, n) = EndsUpTo(s, n)
              /\ \A n \in 0..Len(s) : \A k : IsBegin(t, n, k) <=> IsBegin(s, n, k)
              /\ WellFormed(t) => WellFormed(s)
<1> DEFINE t == s \o m
<1>0. /\ t \in Seq(Char) /\ Len(s) \in Nat /\ Len(t) \in Nat /\ Len(s) <= Len(t)
      /\ \A k \in 1..Len(s) : t[k] = s[k]
  OBVIOUS
<1> HIDE DEF t
<1>1. ASSUME NEW n \in 0..Len(s) PROVE Depth(t, n) = Depth(s, n)
  <2>1. n \in Nat /\ \A k \in 1..n : t[k] = s[k]
    BY <1>0
  <2> QED
    BY <2>1, DepthOfPrefix
<1>2. ASSUME NEW n \in 0..Len(s) PROVE n \in ObjectEnds(t) <=> n \in ObjectEnds(s)
  <2>1. n \in 1..Len(t) <=> n \in 1..Len(s)
    BY <1>0
  <2>2. n \in 1..Len(s) => t[n] = s[n]
    BY <1>0
  <2> QED
    BY <1>1, <2>1, <2>2 DEF ObjectEnds
<1>3. ASSUME NEW n \in 0..Len(s) PROVE EndsUpTo(t, n) = EndsUpTo(s, n)
  <2>1. \A e : e \in ObjectEnds(t) /\ e <= n => e \in 0..Len(s)
    <3>1. \A e \in ObjectEnds(t) : e \in 1..Len(t)
      BY Zenon DEF ObjectEnds
    <3> QED
      BY <1>0, <3>1
  <2>2. \A e : e \in ObjectEnds(s) => e \in 0..Len(s)
    BY <1>0 DEF ObjectEnds
  <2>3. {e \in ObjectEnds(t) : e <= n} = {e \in ObjectEnds(s) : e <= n}
    BY <1>2, <2>1, <2>2, Zenon
  <2> QED
    BY <2>3 DEF EndsUpTo
<1>4. ASSUME NEW n \in 0..Len(s), NEW k PROVE IsBegin(t, n, k) <=> IsBegin(s, n, k)
  <2>1. n \in Nat /\ \A l : l \in 1..n => l \in 1..Len(s) /\ l \in 0..Len(s)
    BY <1>0
  <2>2. \A l : k \in 1..n /\ l \in k..(n - 1) => l \in 0..Len(s)
    BY <1>0
  <2> QED
    BY <1>0, <1>1, <2>1, <2>2, Zenon DEF IsBegin
<1>5. WellFormed(t) => WellFormed(s)
  <2>1. \A n \in 1..Len(s) : n \in 1..Len(t) /\ n \in 0..Len(s)
    BY <1>0
  <2> QED
    BY <1>1, <2>1 DEF WellFormed
<1> QED
  BY <1>1, <1>2, <1>3, <1>4, <1>5 DEF t

(* A piece of the buffer is a piece of the text. *)
LEMMA SamePiece ==
    ASSUME NEW t \in Seq(Char), NEW b \in Seq(Char), NEW c \in 0..Len(t),
           Len(b) = Len(t) - c, \A n \in 1..Len(b) : b[n] = t[c + n],
           NEW i \in 1..(Len(b) + 1), NEW j \in 0..Len(b)
    PROVE  /\ SubSeq(b, i, j) = SubSeq(t, c + i, c + j)
           /\ SubSeq(b, i, j) \in Seq(Char)
<1>0. Len(t) \in Nat /\ Len(b) \in Nat /\ c \in Nat /\ i \in Nat /\ j \in Nat
  OBVIOUS
<1> DEFINE ci == c + i
           cj == c + j
           p == SubSeq(b, i, j)
           q == SubSeq(t, ci, cj)
<1>1. ci \in Int /\ cj \in Int /\ i \in Int /\ j \in Int /\ (i <= j <=> ci <= cj)
      /\ cj - ci + 1 = j - i + 1 /\ j - i + 1 \in Int
  BY <1>0
<1>2. \A k \in i..j : b[k] \in Char
  BY <1>0
<1>3. \A k \in ci..cj : t[k] \in Char
  <2>1. \A k \in ci..cj : k \in 1..Len(t)
    BY <1>0
  <2> QED
    BY <2>1
<1> HIDE DEF ci, cj
<1>4. /\ p \in Seq(Char) /\ Len(p) = (IF i <= j THEN j - i + 1 ELSE 0)
      /\ \A k \in 1..(j - i + 1) : p[k] = b[i + k - 1]
  BY <1>1, <1>2, SubSeqProperties
<1>5. /\ q \in Seq(Char) /\ Len(q) = (IF ci <= cj THEN cj - ci + 1 ELSE 0)
      /\ \A k \in 1..(cj - ci + 1) : q[k] = t[ci + k - 1]
  BY <1>1, <1>3, SubSeqProperties
<1> HIDE DEF p, q
<1>6. Len(p) = Len(q)
  BY <1>1, <1>4, <1>5
<1>7. ASSUME NEW k \in 1..Len(p) PROVE p[k] = q[k]
  <2>1. k \in 1..(j - i + 1) /\ k \in Nat
    BY <1>0, <1>4
  <2>2. i + k - 1 \in 1..Len(b) /\ ci + k - 1 = c + (i + k - 1)
    BY <1>0, <2>1 DEF ci
  <2>3. p[k] = b[i + k - 1] /\ q[k] = t[ci + k - 1]
    BY <1>1, <1>4, <1>5, <2>1
  <2> QED
    BY <2>2, <2>3
<1>8. p = q
  BY <1>4, <1>5, <1>6, <1>7, SeqEqual
<1> QED
  BY <1>4, <1>8 DEF p, q, ci, cj

LEMMA PieceOfMore ==
    ASSUME NEW S, NEW s \in Seq(S), NEW m \in Seq(S),
           NEW i \in 1..(Len(s) + 1), NEW j \in 0..Len(s)
    PROVE  SubSeq(s \o m, i, j) = SubSeq(s, i, j)
<1>0. Len(s) \in Nat /\ i \in Nat /\ j \in Nat
  OBVIOUS
<1> DEFINE t == s \o m
<1>1. t \in Seq(S) /\ \A k \in 1..Len(s) : t[k] = s[k]
  OBVIOUS
<1> HIDE DEF t
<1>2. \A k \in i..j : s[k] \in S /\ t[k] = s[k] /\ t[k] \in S
  <2>1. \A k \in i..j : k \in 1..Len(s)
    BY <1>0
  <2>2. \A k \in 1..Len(s) : s[k] \in S
    OBVIOUS
  <2> QED
    BY <1>1, <2>1, <2>2
<1>3. /\ SubSeq(s, i, j) \in Seq(S) /\ Len(SubSeq(s, i, j)) = (IF i <= j THEN j - i + 1 ELSE 0)
      /\ \A k \in 1..(j - i + 1) : SubSeq(s, i, j)[k] = s[i + k - 1]
  BY <1>0, <1>2, SubSeqProperties
<1>4. /\ SubSeq(t, i, j) \in Seq(S) /\ Len(SubSeq(t, i, j)) = (IF i <= j THEN j - i + 1 ELSE 0)
      /\ \A k \in 1..(j - i + 1) : SubSeq(t, i, j)[k] = t[i + k - 1]
  BY <1>0, <1>2, SubSeqProperties
<1>5. ASSUME NEW k \in 1..Len(SubSeq(t, i, j)) PROVE SubSeq(t, i, j)[k] = SubSeq(s, i, j)[k]
  <2>1. k \in 1..(j - i + 1) /\ i + k - 1 \in i..j
    BY <1>0, <1>4
  <2> QED
    BY <1>2, <1>3, <1>4, <2>1
<1>6. SubSeq(t, i, j) = SubSeq(s, i, j)
  <2>1. Len(SubSeq(t, i, j)) = Len(SubSeq(s, i, j))
    BY <1>3, <1>4
  <2> QED
    BY <1>3, <1>4, <1>5, <2>1, SeqEqual
<1> QED
  BY <1>6 DEF t
-----------------------------------------------------------------------------
(* The objects of s that end up to c, and no others, are in d. *)
HoldsUpTo(d, s, c) ==
    /\ Len(d) = EndsUpTo(s, c)
    /\ \A n \in ObjectEnds(s) :
          n <= c => \E k : IsBegin(s, n, k) /\ d[EndsUpTo(s, n)] = SubSeq(s, k, n)

(* buf is what follows place c of the text, and the depth there is 0.      *)
(* What ended before has been delivered; all that has ended, if the stack  *)
(* is empty, and it is empty if no object was split.                       *)
CutAt(c) == /\ Depth(text, c) = 0
            /\ Len(buf) = Len(text) - c
            /\ \A n \in 1..Len(buf) : buf[n] = text[c + n]
            /\ HoldsUpTo(delivered, text, c)
            /\ stack = <<>> => \A n \in ObjectEnds(text) : n <= c
            /\ whole => stack = <<>> /\ Depth(text, Len(text)) = 0

Cut == WellFormed(text) => \E c \in 0..Len(text) : CutAt(c)

(* What is delivered is kept when more is received and nothing is found.   *)
LEMMA HeldWithMore ==
    ASSUME NEW s \in Seq(Char), NEW m \in Seq(Char), NEW c \in 0..Len(s),
           NEW d, HoldsUpTo(d, s, c)
    PROVE  HoldsUpTo(d, s \o m, c)
<1> DEFINE t == s \o m
<1>0. Len(s) \in Nat /\ c \in Nat /\ t \in Seq(Char)
  OBVIOUS
<1>1. /\ \A n \in 0..Len(s) : n \in ObjectEnds(t) <=> n \in ObjectEnds(s)
      /\ \A n \in 0..Len(s) : EndsUpTo(t, n) = EndsUpTo(s, n)
      /\ \A n \in 0..Len(s) : \A k : IsBegin(t, n, k) <=> IsBegin(s, n, k)
  BY MoreText
<1>2. Len(d) = EndsUpTo(t, c)
  BY <1>1 DEF HoldsUpTo
<1>3. ASSUME NEW n \in ObjectEnds(t), n <= c
      PROVE  \E k : IsBegin(t, n, k) /\ d[EndsUpTo(t, n)] = SubSeq(t, k, n)
  <2>1. n \in 0..Len(s) /\ n \in Nat
    <3>1. n \in 1..Len(t)
      BY Zenon DEF ObjectEnds
    <3> QED
      BY <1>0, <1>3, <3>1
  <2>2. PICK k : IsBegin(s, n, k) /\ d[EndsUpTo(s, n)] = SubSeq(s, k, n)
    BY <1>1, <1>3, <2>1 DEF HoldsUpTo
  <2>3. k \in 1..(Len(s) + 1)
    BY <1>0, <2>1, <2>2, BeginIs
  <2>4. SubSeq(t, k, n) = SubSeq(s, k, n)
    BY <2>1, <2>3, PieceOfMore
  <2> QED
    BY <1>1, <2>1, <2>2, <2>4
<1> QED
  BY <1>2, <1>3 DEF HoldsUpTo, t

(* What the scan finds is delivered behind what was delivered before. *)
LEMMA HeldWithFound ==
    ASSUME NEW t \in Seq(Char), NEW c \in 0..Len(t), NEW d \in Seq(Seq(Char)),
           NEW b \in Seq(Char), Len(b) = Len(t) - c,
           \A n \in 1..Len(b) : b[n] = t[c + n],
           HoldsUpTo(d, t, c),
           NEW s \in ScanStates(b), Aligned(t, c, s, Len(b))
    PROVE  HoldsUpTo(d \o [k \in 1..Len(s.found) |->
                             SubSeq(b, s.found[k][1], s.found[k][2])],
                     t, CutFrom(c, s))
<1> DEFINE p == [k \in 1..Len(s.found) |-> SubSeq(b, s.found[k][1], s.found[k][2])]
           e0 == CutFrom(c, s)
<1>0. Len(t) \in Nat /\ Len(b) \in Nat /\ c \in Nat /\ c + Len(b) = Len(t) /\ Len(t) \in 0..Len(t)
  OBVIOUS
<1>1. p \in Seq(Seq(Char)) /\ Len(p) = Len(s.found) /\ Len(s.found) \in Nat
  <2>1. p \in Seq(Seq(Char))
    BY CutInBuffer
  <2>2. Len(s.found) \in Nat
    BY DEF ScanStates
  <2> QED
    BY <2>1, <2>2
<1>2. \A k \in 1..Len(s.found) : /\ s.found[k][1] \in 1..Len(b) /\ s.found[k][2] \in 1..Len(b)
                                 /\ p[k] = SubSeq(b, s.found[k][1], s.found[k][2])
  <2>1. s.found \in Seq((1..Len(b)) \X (1..Len(b)))
    BY DEF ScanStates
  <2>2. \A k \in 1..Len(s.found) : s.found[k] \in (1..Len(b)) \X (1..Len(b))
    BY <2>1
  <2> QED
    BY <2>2
<1> HIDE DEF p
<1>10. \A i \in 1..(Len(b) + 1), j \in 0..Len(b) :
          SubSeq(b, i, j) = SubSeq(t, c + i, c + j)
  BY SamePiece
<1>3. /\ Len(s.found) = EndsUpTo(t, Len(t)) - EndsUpTo(t, c)
      /\ \A e \in ObjectEnds(t) :
            c < e /\ e <= Len(t) => Found(t, c, s, e, EndsUpTo(t, e) - EndsUpTo(t, c))
      /\ \A e \in ObjectEnds(t) : e <= Len(t) => e <= e0
      /\ e0 \in c..Len(t)
  BY <1>0 DEF Aligned
<1> HIDE DEF e0
<1>4. e0 \in 0..Len(t) /\ e0 \in Nat /\ c \in 0..Len(t)
  BY <1>0, <1>3
<1>5. EndsUpTo(t, e0) = EndsUpTo(t, Len(t))
  <2>1. \A e \in ObjectEnds(t) : e \in 1..Len(t)
    BY Zenon DEF ObjectEnds
  <2>2. \A e \in ObjectEnds(t) : e <= e0 /\ e <= Len(t)
    BY <1>0, <1>3, <2>1
  <2>3. {e \in ObjectEnds(t) : e <= e0} = {e \in ObjectEnds(t) : e <= Len(t)}
    BY <2>2, Zenon
  <2> QED
    BY <2>3 DEF EndsUpTo
<1>6. /\ EndsUpTo(t, c) \in Nat /\ EndsUpTo(t, Len(t)) \in Nat
      /\ Len(d) = EndsUpTo(t, c) /\ Len(d) \in Nat
  BY <1>0, <1>4, EndsStep DEF HoldsUpTo
<1> DEFINE q == d \o p
<1>7. /\ Len(q) = Len(d) + Len(p)
      /\ \A i \in 1..(Len(d) + Len(p)) : q[i] = IF i <= Len(d) THEN d[i] ELSE p[i - Len(d)]
  <2>1. d \in Seq(Seq(Char)) /\ p \in Seq(Seq(Char))
    BY <1>1
  <2> QED
    BY <2>1, ConcatProperties
<1> HIDE DEF q
<1>8. Len(q) = EndsUpTo(t, e0)
  BY <1>1, <1>3, <1>5, <1>6, <1>7
<1>9. ASSUME NEW e \in ObjectEnds(t), e <= e0
      PROVE  \E k : IsBegin(t, e, k) /\ q[EndsUpTo(t, e)] = SubSeq(t, k, e)
  <2>1. e \in Nat /\ e \in 0..Len(t) /\ e > 0 /\ e <= Len(t)
    <3>1. e \in 1..Len(t)
      BY Zenon DEF ObjectEnds
    <3> QED
      BY <1>0, <3>1
  <2> DEFINE i == EndsUpTo(t, e)
  <2>2. i \in Nat /\ i > 0
    <3>1. 0 \in 0..e /\ 0 < e /\ 0 \in 0..Len(t)
      BY <2>1
    <3>2. EndsUpTo(t, 0) = 0 /\ EndsUpTo(t, e) \in Nat
      BY <2>1, <3>1, EndsStep
    <3> QED
      BY <2>1, <3>1, <3>2, EndsGrow
  <2> HIDE DEF i
  <2>3. CASE e <= c
    <3>1. PICK k : IsBegin(t, e, k) /\ d[i] = SubSeq(t, k, e)
      BY <2>3 DEF HoldsUpTo, i
    <3>2. i <= Len(d)
      BY <1>4, <1>6, <2>1, <2>3, EndsGrow DEF i
    <3>3. q[i] = d[i]
      <4>1. i \in 1..(Len(d) + Len(p))
        BY <1>1, <1>6, <2>2, <3>2
      <4> QED
        BY <1>7, <3>2, <4>1
    <3> QED
      BY <3>1, <3>3 DEF i
  <2>4. CASE ~(e <= c)
    <3> DEFINE k == i - EndsUpTo(t, c)
    <3>1. Found(t, c, s, e, k)
      <4>1. c < e
        BY <1>0, <2>1, <2>4
      <4> QED
        BY <1>3, <2>1, <4>1 DEF i
    <3>2. k \in 1..Len(s.found) /\ c + s.found[k][2] = e /\ IsBegin(t, e, c + s.found[k][1])
      BY <3>1 DEF Found
    <3>3. i \in 1..(Len(d) + Len(p)) /\ ~(i <= Len(d)) /\ i - Len(d) = k
      BY <1>1, <1>6, <2>2, <3>2
    <3> HIDE DEF k
    <3>4. q[i] = p[k]
      BY <1>7, <3>3
    <3> DEFINE f1 == s.found[k][1]
               f2 == s.found[k][2]
    <3>5. f1 \in 1..Len(b) /\ f2 \in 1..Len(b) /\ p[k] = SubSeq(b, f1, f2)
      BY <1>2, <3>2
    <3> HIDE DEF f1, f2
    <3>7. f1 \in 1..(Len(b) + 1) /\ f2 \in 0..Len(b)
      BY <1>0, <3>5
    <3>8. SubSeq(b, f1, f2) = SubSeq(t, c + f1, c + f2)
      BY <1>10, <3>7
    <3>6. p[k] = SubSeq(t, c + s.found[k][1], c + s.found[k][2])
      BY <3>5, <3>8 DEF f1, f2
    <3> QED
      BY <3>2, <3>4, <3>6 DEF i
  <2> QED
    BY <2>3, <2>4
<1> QED
  BY <1>8, <1>9 DEF HoldsUpTo, q, p, e0

LEMMA EmptyText ==
    ASSUME NEW s, s = <<>>
    PROVE  /\ Len(s) = 0 /\ s \in Seq(Char)
           /\ Depth(s, 0) = 0 /\ EndsUpTo(s, 0) = 0
           /\ \A n : n \notin ObjectEnds(s)
<1>1. Len(s) = 0 /\ s \in Seq(Char) /\ 0 \in Nat
  OBVIOUS
<1>2. Depth(s, 0) = 0
  BY <1>1, DepthStep
<1>3. \A n : n \notin ObjectEnds(s)
  BY <1>1 DEF ObjectEnds
<1>4. {m \in ObjectEnds(s) : m <= 0} = {}
  BY <1>3
<1>5. EndsUpTo(s, 0) = 0
  BY <1>4, FS_EmptySet DEF EndsUpTo
<1> QED
  BY <1>1, <1>2, <1>3, <1>5

LEMMA InitCut == Init => Cut
<1> SUFFICES ASSUME Init PROVE Cut
  OBVIOUS
<1>1. buf = <<>> /\ stack = <<>> /\ delivered = <<>> /\ text = <<>>
  BY DEF Init
<1>2. Len(text) = 0 /\ Len(buf) = 0 /\ Len(delivered) = 0
  BY <1>1
<1>3. /\ Depth(text, 0) = 0 /\ EndsUpTo(text, 0) = 0
      /\ \A n : n \notin ObjectEnds(text)
  BY <1>1, EmptyText
<1>5. CutAt(0)
  BY <1>1, <1>2, <1>3 DEF CutAt, HoldsUpTo
<1> QED
  BY <1>2, <1>5 DEF Cut

LEMMA ReceiveCut ==
    ASSUME StackIsInBuffer, Cut, NEW m \in Pieces, ReceivePiece(m)
    PROVE  Cut'
<1> SUFFICES ASSUME WellFormed(text') PROVE \E c \in 0..Len(text') : CutAt(c)'
  BY DEF Cut
<1> DEFINE t == text \o m
           b == buf \o m
           s == Scan(b, stack)
<1>1. /\ buf \in Seq(Char) /\ text \in Seq(Char) /\ m \in Seq(Char)
      /\ delivered \in Seq(Seq(Char)) /\ stack \in Seq(1..Len(buf))
      /\ OpenIn(buf, stack)
  BY BoundsAssumption DEF Pieces, StackIsInBuffer, TypeOK, OpenIn
<1>2. /\ text' = t
      /\ delivered' = delivered \o [k \in 1..Len(s.found) |->
                                       SubSeq(b, s.found[k][1], s.found[k][2])]
      /\ buf' = Rest(s, b)
      /\ stack' = StackLeft(s)
      /\ whole' = (whole /\ Depth(t, Len(t)) = 0)
  BY DEF ReceivePiece, OnMessage
<1>3. WellFormed(t) /\ WellFormed(text)
  BY <1>1, <1>2, MoreText
<1>4. PICK c \in 0..Len(text) : CutAt(c)
  BY <1>3 DEF Cut
<1>5. /\ Len(text) \in Nat /\ Len(buf) \in Nat /\ Len(m) \in Nat /\ c \in Nat
      /\ t \in Seq(Char) /\ Len(t) = Len(text) + Len(m)
      /\ \A n \in 1..Len(t) : t[n] = IF n <= Len(text) THEN text[n] ELSE m[n - Len(text)]
  BY <1>1
<1>6. /\ b \in Seq(Char) /\ Len(b) = Len(buf) + Len(m)
      /\ \A n \in 1..Len(b) : b[n] = IF n <= Len(buf) THEN buf[n] ELSE m[n - Len(buf)]
  BY <1>1
<1> HIDE DEF t, b
<1>7. /\ Depth(text, c) = 0 /\ Len(buf) = Len(text) - c
      /\ \A n \in 1..Len(buf) : buf[n] = text[c + n]
      /\ HoldsUpTo(delivered, text, c)
      /\ stack = <<>> => \A n \in ObjectEnds(text) : n <= c
      /\ whole => stack = <<>> /\ Depth(text, Len(text)) = 0
  BY <1>4 DEF CutAt
<1>8. c \in 0..Len(t) /\ Len(b) = Len(t) - c /\ c + Len(b) = Len(t) /\ Len(b) \in Nat /\ Len(t) \in Nat
  BY <1>5, <1>6, <1>7
<1>9. ASSUME NEW n \in 1..Len(b) PROVE b[n] = t[c + n]
  <2>1. c + n \in 1..Len(t) /\ (c + n <= Len(text) <=> n <= Len(buf))
        /\ c + n - Len(text) = n - Len(buf)
    BY <1>5, <1>7, <1>8
  <2>2. n <= Len(buf) => buf[n] = text[c + n]
    BY <1>5, <1>7
  <2>3. b[n] = IF n <= Len(buf) THEN buf[n] ELSE m[n - Len(buf)]
    BY <1>6
  <2>4. t[c + n] = IF c + n <= Len(text) THEN text[c + n] ELSE m[c + n - Len(text)]
    BY <1>5, <2>1
  <2> QED
    BY <2>1, <2>2, <2>3, <2>4
<1>10. Depth(t, c) = 0 /\ HoldsUpTo(delivered, t, c)
  <2>1. Depth(t, c) = Depth(text, c)
    BY <1>1, MoreText DEF t
  <2>2. HoldsUpTo(delivered, t, c)
    BY <1>1, <1>7, HeldWithMore DEF t
  <2> QED
    BY <1>7, <2>1, <2>2
<1>11. CASE stack = <<>>
  <2>1. s \in ScanStates(b) /\ Aligned(t, c, s, Len(b))
    BY <1>3, <1>5, <1>6, <1>8, <1>9, <1>10, <1>11, ScanAligned
  <2> HIDE DEF s
  <2>10. PICK e : e = CutFrom(c, s)
    OBVIOUS
  <2>2. HoldsUpTo(delivered', t, e)
    BY <1>1, <1>2, <1>5, <1>6, <1>8, <1>9, <1>10, <2>1, <2>10, HeldWithFound
  <2>3. /\ ~s.bad
        /\ Len(s.stack) = Depth(t, Len(t))
        /\ \A n \in ObjectEnds(t) : n <= Len(t) => n <= e
        /\ e = c \/ (e \in ObjectEnds(t) /\ e \in c..Len(t))
    BY <1>8, <2>1, <2>10 DEF Aligned
  <2>4. e \in 0..Len(t) /\ e \in Nat /\ c <= e
    BY <1>8, <2>3
  <2>5. Depth(t, e) = 0
    BY <1>10, <2>3 DEF ObjectEnds
  <2>6. \A n \in ObjectEnds(t) : n <= e
    <3>1. \A n \in ObjectEnds(t) : n \in 1..Len(t)
      BY Zenon DEF ObjectEnds
    <3> QED
      BY <1>8, <2>3, <3>1
  <2>7. /\ Len(buf') = Len(t) - e
        /\ \A n \in 1..Len(buf') : buf'[n] = t[e + n]
    <3>1. CASE s.found = <<>>
      <4>1. buf' = b /\ e = c
        BY <1>2, <2>3, <2>10, <3>1 DEF Rest, CutFrom
      <4> QED
        BY <1>8, <1>9, <4>1
    <3>2. CASE s.found # <<>>
      <4> DEFINE j == Last(s.found)[2]
      <4>1. buf' = SubSeq(b, j + 1, Len(b)) /\ e = c + j
        BY <1>2, <2>3, <2>10, <3>2 DEF Rest, CutFrom
      <4>2. j \in 1..Len(b)
        <5> DEFINE S == (1..Len(b)) \X (1..Len(b))
        <5>1. s.found \in Seq(S)
          BY <2>1 DEF ScanStates
        <5> HIDE DEF S
        <5>2. Last(s.found) \in S
          BY <3>2, <5>1, OneLess
        <5> QED
          BY <5>2 DEF S
      <4> HIDE DEF j
      <4>3. /\ j + 1 \in Int /\ Len(b) \in Int /\ Len(b) - (j + 1) + 1 = Len(b) - j
            /\ (j + 1 <= Len(b) => Len(b) - j > 0) /\ (~(j + 1 <= Len(b)) => Len(b) - j = 0)
        BY <1>8, <4>2
      <4>4. \A k \in (j + 1)..Len(b) : b[k] \in Char
        BY <1>6, <1>8, <4>2
      <4>5. /\ Len(buf') = (IF j + 1 <= Len(b) THEN Len(b) - (j + 1) + 1 ELSE 0)
            /\ \A k \in 1..(Len(b) - (j + 1) + 1) : buf'[k] = b[j + 1 + k - 1]
        BY <4>1, <4>3, <4>4, SubSeqProperties
      <4>6. Len(buf') = Len(b) - j
        BY <4>3, <4>5
      <4>7. ASSUME NEW n \in 1..Len(buf') PROVE buf'[n] = t[e + n]
        <5>1. n \in 1..(Len(b) - j) /\ j + 1 + n - 1 = j + n /\ j + n \in 1..Len(b)
              /\ c + (j + n) = e + n
          BY <1>8, <4>1, <4>2, <4>6
        <5> QED
          BY <1>9, <4>3, <4>5, <5>1
      <4>8. Len(b) - j = Len(t) - e
        BY <1>8, <4>1, <4>2
      <4> QED
        BY <4>6, <4>7, <4>8
    <3> QED
      BY <3>1, <3>2
  <2>8. whole' => stack' = <<>> /\ Depth(t, Len(t)) = 0
    <3>1. CASE s.found # <<>>
      BY <1>2, <3>1 DEF StackLeft
    <3>2. CASE s.found = <<>>
      <4>1. stack' = s.stack /\ s.stack \in Seq(1..Len(b))
        BY <1>2, <2>1, <2>3, <3>2 DEF StackLeft, ScanStates
      <4>2. Depth(t, Len(t)) = 0 => s.stack = <<>>
        BY <2>3, <4>1, EmptySeq
      <4> QED
        BY <1>2, <4>1, <4>2
    <3> QED
      BY <3>1, <3>2
  <2>9. CutAt(e)'
    BY <1>2, <2>2, <2>5, <2>6, <2>7, <2>8 DEF CutAt
  <2> QED
    BY <1>2, <2>4, <2>9
<1>12. CASE stack # <<>>
  <2>1. stack \in Seq(1..Len(b)) /\ OpenIn(b, stack)
    <3>1. \A k \in 1..Len(stack) : stack[k] \in 1..Len(buf) /\ buf[stack[k]] = "open"
      BY <1>1 DEF OpenIn
    <3>2. \A i \in 1..Len(buf) : i \in 1..Len(b) /\ b[i] = buf[i]
      BY <1>5, <1>6
    <3>3. stack \in Seq(1..Len(b))
      BY <1>1, <3>1, <3>2
    <3> QED
      BY <3>1, <3>2, <3>3 DEF OpenIn
  <2>2. s.found = <<>> /\ ~s.bad /\ s.stack # <<>>
    BY <1>3, <1>5, <1>6, <1>8, <1>9, <1>10, <1>12, <2>1, ScanStuck
  <2> HIDE DEF s
  <2>3. buf' = b /\ stack' = s.stack /\ delivered' = delivered
    <3>1. delivered \o [k \in 1..Len(s.found) |-> SubSeq(b, s.found[k][1], s.found[k][2])]
            = delivered
      <4>1. [k \in 1..Len(s.found) |-> SubSeq(b, s.found[k][1], s.found[k][2])] = <<>>
        BY <2>2
      <4> QED
        BY <1>1, <4>1, ConcatEmptySeq
    <3> QED
      BY <1>2, <2>2, <3>1 DEF Rest, StackLeft
  <2>4. ~whole'
    BY <1>2, <1>7, <1>12
  <2>5. CutAt(c)'
    BY <1>2, <1>8, <1>9, <1>10, <2>2, <2>3, <2>4 DEF CutAt
  <2> QED
    BY <1>2, <1>8, <2>5
<1> QED
  BY <1>11, <1>12

LEMMA StepCut == StackIsInBuffer /\ Cut /\ [Next]_vars => Cut'
<1> SUFFICES ASSUME StackIsInBuffer, Cut, [Next]_vars PROVE Cut'
  OBVIOUS
<1>1. CASE UNCHANGED vars
  BY <1>1 DEF vars, Cut, CutAt
<1>2. CASE Clear
  <2>1. /\ buf' = <<>> /\ stack' = <<>> /\ delivered' = <<>> /\ text' = <<>>
    BY <1>2 DEF Clear
  <2>2. Len(text') = 0 /\ Len(buf') = 0 /\ Len(delivered') = 0
    BY <2>1
  <2>3. /\ Depth(text', 0) = 0 /\ EndsUpTo(text', 0) = 0
        /\ \A n : n \notin ObjectEnds(text')
    BY <2>1, EmptyText
  <2>5. CutAt(0)'
    BY <2>1, <2>2, <2>3 DEF CutAt, HoldsUpTo
  <2> QED
    BY <2>2, <2>5 DEF Cut
<1>3. ASSUME NEW m \in Pieces, ReceivePiece(m) PROVE Cut'
  BY <1>3, ReceiveCut
<1> QED
  BY <1>1, <1>2, <1>3 DEF Next

(* So what is delivered is, place by place, the objects of the text. *)
LEMMA ObjectsAre ==
    ASSUME NEW s \in Seq(Char), NEW c \in 0..Len(s),
           NEW d \in Seq(Seq(Char)), HoldsUpTo(d, s, c)
    PROVE  /\ IsPrefix(d, Objects(s))
           /\ (\A n \in ObjectEnds(s) : n <= c) => d = Objects(s)
<1> DEFINE total == EndsUpTo(s, Len(s))
           o == Objects(s)
           S == Seq(Char) \cup {o[k] : k \in 1..total}
<1>0. Len(s) \in Nat /\ Len(s) \in 0..Len(s) /\ c \in 0..Len(s) /\ c \in 0..Len(s) /\ c \in Nat
  OBVIOUS
<1>1. Cardinality(ObjectEnds(s)) = total
  <2>0. \A e \in ObjectEnds(s) : e \in 1..Len(s)
    BY Zenon DEF ObjectEnds
  <2>1. {e \in ObjectEnds(s) : e <= Len(s)} = ObjectEnds(s)
    BY <1>0, <2>0
  <2> QED
    BY <2>1 DEF EndsUpTo
<1>2. total \in Nat /\ EndsUpTo(s, c) \in Nat /\ EndsUpTo(s, c) <= total
  BY <1>0, EndsStep, EndsGrow
<1>3. o = [k \in 1..total |->
            SubSeq(s, ObjectBegin(s, ObjectEnd(s, k)), ObjectEnd(s, k))]
  BY <1>1 DEF Objects
<1>4. Len(d) = EndsUpTo(s, c) /\ Len(d) \in Nat /\ Len(d) <= total
  BY <1>2 DEF HoldsUpTo
<1> HIDE DEF total
<1>5. ASSUME NEW k \in 1..Len(d) PROVE o[k] = d[k]
  <2>0. k \in 1..total
    BY <1>2, <1>4
  <2> DEFINE n == ObjectEnd(s, k)
  <2>1. \E e \in ObjectEnds(s) : EndsUpTo(s, e) = k
    BY <2>0, EndOfEach DEF total
  <2>2. n \in ObjectEnds(s) /\ EndsUpTo(s, n) = k
    BY <2>1, Zenon DEF ObjectEnd
  <2> HIDE DEF n
  <2>3. n \in 1..Len(s) /\ n \in 0..Len(s) /\ n \in Nat
    <3>1. n \in 1..Len(s)
      BY <2>2, Zenon DEF ObjectEnds
    <3> QED
      BY <1>0, <3>1
  <2>4. n <= c
    <3>1. ASSUME c < n PROVE FALSE
      <4>1. c \in 0..n
        BY <1>0, <2>3, <3>1
      <4>2. EndsUpTo(s, c) < EndsUpTo(s, n)
        BY <2>2, <2>3, <3>1, <4>1, EndsGrow
      <4> QED
        BY <1>2, <1>4, <2>2, <4>2
    <3> QED
      BY <1>0, <2>3, <3>1
  <2>5. PICK j : IsBegin(s, n, j) /\ d[EndsUpTo(s, n)] = SubSeq(s, j, n)
    BY <2>2, <2>4 DEF HoldsUpTo
  <2>6. ObjectBegin(s, n) = j
    BY <2>3, <2>5, BeginIsOne
  <2>7. o[k] = SubSeq(s, ObjectBegin(s, n), n)
    BY <1>3, <2>0 DEF n
  <2> QED
    BY <2>2, <2>5, <2>6, <2>7
<1>6. o \in Seq(S) /\ d \in Seq(S) /\ Len(o) = total
  <2>1. \A k \in 1..total : o[k] \in S
    OBVIOUS
  <2>2. o \in [1..total -> S]
    BY <1>3, <2>1
  <2>3. d \in Seq(S)
    OBVIOUS
  <2> HIDE DEF S, o
  <2> QED
    BY <1>2, <2>2, <2>3
<1> HIDE DEF S, o
<1>7. SubSeq(d, 1, Len(d)) = SubSeq(o, 1, Len(d))
  <2> DEFINE l == Len(d)
  <2>1. l \in Nat /\ l - 1 + 1 = l /\ 1 \in Int /\ l \in Int
        /\ (1 <= l => l - 1 + 1 = l) /\ (~(1 <= l) => l = 0)
    BY <1>4
  <2>2. \A k \in 1..l : d[k] \in S /\ o[k] = d[k] /\ o[k] \in S
    BY <1>5, <1>6
  <2> HIDE DEF l
  <2>3. /\ SubSeq(d, 1, l) \in Seq(S) /\ Len(SubSeq(d, 1, l)) = l
        /\ \A k \in 1..l : SubSeq(d, 1, l)[k] = d[1 + k - 1]
    BY <2>1, <2>2, SubSeqProperties
  <2>4. /\ SubSeq(o, 1, l) \in Seq(S) /\ Len(SubSeq(o, 1, l)) = l
        /\ \A k \in 1..l : SubSeq(o, 1, l)[k] = o[1 + k - 1]
    BY <2>1, <2>2, SubSeqProperties
  <2>5. \A k \in 1..l : 1 + k - 1 = k
    BY <2>1
  <2>6. \A k \in 1..l : SubSeq(d, 1, l)[k] = SubSeq(o, 1, l)[k]
    BY <2>2, <2>3, <2>4, <2>5
  <2>7. SubSeq(d, 1, l) = SubSeq(o, 1, l)
    BY <2>3, <2>4, <2>6, SeqEqual
  <2> QED
    BY <2>7 DEF l
<1>8. ASSUME \A n \in ObjectEnds(s) : n <= c PROVE d = o
  <2>1. {e \in ObjectEnds(s) : e <= c} = ObjectEnds(s)
    BY <1>8, Zenon
  <2>2. Len(d) = total
    BY <1>1, <1>4, <2>1 DEF EndsUpTo
  <2> QED
    BY <1>5, <1>6, <2>2, SeqEqual
<1> QED
  BY <1>4, <1>6, <1>7, <1>8 DEF IsPrefix, o

LEMMA CutDelivers == StackIsInBuffer /\ Cut => DeliversInOrder /\ WholeAreDelivered
<1> SUFFICES ASSUME StackIsInBuffer, Cut, WellFormed(text)
             PROVE  /\ IsPrefix(delivered, Objects(text))
                    /\ whole => delivered = Objects(text)
  BY DEF DeliversInOrder, WholeAreDelivered
<1>1. PICK c \in 0..Len(text) : CutAt(c)
  BY DEF Cut
<1>2. text \in Seq(Char) /\ delivered \in Seq(Seq(Char))
  BY DEF StackIsInBuffer, TypeOK
<1>3. /\ IsPrefix(delivered, Objects(text))
      /\ (\A n \in ObjectEnds(text) : n <= c) => delivered = Objects(text)
  BY <1>1, <1>2, ObjectsAre DEF CutAt
<1> QED
  BY <1>1, <1>3 DEF CutAt

(* What JsonExtractor::onMessage has delivered, what it holds in _buf and  *)
(* its stack are, after every message, the text up to that place.          *)
THEOREM TextIsCut == Spec => [](StackIsInBuffer /\ Cut)
  BY InitStack, StepStack, InitCut, StepCut, PTL DEF Spec

(* However the server's text is cut into websocket messages, and of        *)
(* whatever length they are: JsonExtractor delivers the objects of the     *)
(* text, from its first on, none twice, none changed and none that is not  *)
(* one of them.                                                            *)
THEOREM DeliveredInOrder == Spec => []DeliversInOrder
  BY TextIsCut, CutDelivers, PTL

(* And if no object was split between messages, all of them. *)
THEOREM WholeObjectsArrive == Spec => []WholeAreDelivered
  BY TextIsCut, CutDelivers, PTL
-----------------------------------------------------------------------------
(* Arithmetic of bytes. *)
LEMMA ModSmall == ASSUME NEW x \in Nat, x < Width PROVE x % Width = x
  BY ByteAssumption

LEMMA ModOver ==
    ASSUME NEW x \in Nat, Width <= x, x < 2 * Width PROVE x % Width = x - Width
  BY ByteAssumption

LEMMA AddIsByte ==
    ASSUME NEW x \in Byte, NEW y \in Byte
    PROVE  /\ (x + y) % Width \in Byte
           /\ (x + y) % Width = IF x + y < Width THEN x + y ELSE x + y - Width
<1>1. Width \in Nat \ {0} /\ x \in Nat /\ y \in Nat /\ x < Width /\ y < Width
  BY ByteAssumption DEF Byte
<1>2. x + y \in Nat /\ x + y < 2 * Width
  BY <1>1
<1>3. CASE x + y < Width
  <2>1. (x + y) % Width = x + y
    BY <1>2, <1>3, ModSmall
  <2> QED
    BY <1>1, <1>3, <2>1 DEF Byte
<1>4. CASE ~(x + y < Width)
  <2>1. (x + y) % Width = x + y - Width
    BY <1>1, <1>2, <1>4, ModOver
  <2> QED
    BY <1>1, <1>4, <2>1 DEF Byte
<1> QED
  BY <1>3, <1>4

LEMMA AddCommutes ==
    ASSUME NEW x \in Byte, NEW y \in Byte, NEW e \in Byte
    PROVE  /\ (((x + e) % Width) + y) % Width = (((x + y) % Width) + e) % Width
           /\ (x + ((y + e) % Width)) % Width = (((x + y) % Width) + e) % Width
<1>1. Width \in Nat \ {0} /\ x \in Nat /\ y \in Nat /\ e \in Nat
      /\ x < Width /\ y < Width /\ e < Width
  BY ByteAssumption DEF Byte
<1> DEFINE xe == (x + e) % Width
           ye == (y + e) % Width
           xy == (x + y) % Width
<1>2. /\ xe \in Byte /\ xe = IF x + e < Width THEN x + e ELSE x + e - Width
      /\ ye \in Byte /\ ye = IF y + e < Width THEN y + e ELSE y + e - Width
      /\ xy \in Byte /\ xy = IF x + y < Width THEN x + y ELSE x + y - Width
  BY AddIsByte
<1> HIDE DEF xe, ye, xy
<1>3. /\ (xe + y) % Width = IF xe + y < Width THEN xe + y ELSE xe + y - Width
      /\ (x + ye) % Width = IF x + ye < Width THEN x + ye ELSE x + ye - Width
      /\ (xy + e) % Width = IF xy + e < Width THEN xy + e ELSE xy + e - Width
  BY <1>2, AddIsByte
<1>4. (xe + y) % Width = (xy + e) % Width
  BY <1>1, <1>2, <1>3
<1>5. (x + ye) % Width = (xy + e) % Width
  BY <1>1, <1>2, <1>3
<1> QED
  BY <1>4, <1>5 DEF xe, ye, xy

LEMMA AddChanges ==
    ASSUME NEW x \in Byte, NEW e \in Byte \ {0}
    PROVE  (x + e) % Width # x
<1>1. Width \in Nat \ {0} /\ x \in Nat /\ e \in Nat /\ x < Width /\ e < Width /\ e # 0
  BY ByteAssumption DEF Byte
<1>2. (x + e) % Width = IF x + e < Width THEN x + e ELSE x + e - Width
  BY AddIsByte
<1> QED
  BY <1>1, <1>2

LEMMA Complement ==
    ASSUME NEW x \in Byte, NEW y \in Byte
    PROVE  /\ (Width - x) % Width \in Byte
           /\ x # y => (Width - x) % Width # (Width - y) % Width
<1>1. Width \in Nat \ {0} /\ x \in Nat /\ y \in Nat /\ x < Width /\ y < Width
  BY ByteAssumption DEF Byte
<1>2. ASSUME NEW z \in Byte PROVE (Width - z) % Width = IF z = 0 THEN 0 ELSE Width - z
  <2>1. z \in Nat /\ z < Width
    BY ByteAssumption DEF Byte
  <2>2. CASE z = 0
    <3>1. Width - z \in Nat /\ Width <= Width - z /\ Width - z < 2 * Width
      BY <1>1, <2>2
    <3>2. (Width - z) % Width = Width - z - Width
      BY <3>1, ModOver
    <3> QED
      BY <1>1, <2>2, <3>2
  <2>3. CASE z # 0
    <3>1. Width - z \in Nat /\ Width - z < Width
      BY <1>1, <2>1, <2>3
    <3>2. (Width - z) % Width = Width - z
      BY <3>1, ModSmall
    <3> QED
      BY <2>3, <3>2
  <2> QED
    BY <2>2, <2>3
<1>3. /\ (Width - x) % Width = IF x = 0 THEN 0 ELSE Width - x
      /\ (Width - y) % Width = IF y = 0 THEN 0 ELSE Width - y
  BY <1>2
<1>4. (Width - x) % Width \in 0..(Width - 1)
  BY <1>1, <1>3
<1>5. x # y => (Width - x) % Width # (Width - y) % Width
  BY <1>1, <1>3
<1> QED
  BY <1>4, <1>5 DEF Byte
-----------------------------------------------------------------------------
(* The check sum. *)
IsSum(f, s, l) == f = [n \in 0..l |-> IF n = 0 THEN 0 ELSE (f[n - 1] + s[n]) % Width]

LEMMA SumExists == ASSUME NEW s, NEW l \in Nat PROVE \E f : IsSum(f, s, l)
<1> DEFINE H == {k \in 0..l : \E f : IsSum(f, s, k)}
<1>1. 0 \in H
  <2>1. IsSum([n \in 0..0 |-> 0], s, 0)
    BY DEF IsSum
  <2> QED
    BY <2>1
<1>2. ASSUME NEW k \in 1..l, k - 1 \in H PROVE k \in H
  <2>1. PICK f : IsSum(f, s, k - 1)
    BY <1>2
  <2> DEFINE g == [n \in 0..k |-> IF n = k THEN (f[k - 1] + s[k]) % Width ELSE f[n]]
  <2>2. ASSUME NEW n \in 0..k
        PROVE  g[n] = IF n = 0 THEN 0 ELSE (g[n - 1] + s[n]) % Width
    <3>1. CASE n = k
      <4>1. n - 1 \in 0..k /\ n - 1 # k /\ n # 0
        BY <3>1
      <4> QED
        BY <3>1, <4>1
    <3>2. CASE n # k
      <4>1. n \in 0..(k - 1)
        BY <3>2
      <4>2. g[n] = f[n] /\ (n # 0 => g[n - 1] = f[n - 1])
        BY <3>2
      <4>3. f[n] = IF n = 0 THEN 0 ELSE (f[n - 1] + s[n]) % Width
        BY <2>1, <4>1 DEF IsSum
      <4> QED
        BY <4>2, <4>3
    <3> QED
      BY <3>1, <3>2
  <2>3. IsSum(g, s, k)
    <3>1. g = [n \in 0..k |-> g[n]]
      OBVIOUS
    <3> HIDE DEF g
    <3>2. g = [n \in 0..k |-> IF n = 0 THEN 0 ELSE (g[n - 1] + s[n]) % Width]
      BY <2>2, <3>1
    <3> QED
      BY <3>2 DEF IsSum
  <2> QED
    BY <2>3
<1>3. l \in H
  <2> HIDE DEF H
  <2> QED
    BY <1>1, <1>2, Induction
<1> QED
  BY <1>3

LEMMA SumSteps ==
    ASSUME NEW s, Len(s) \in Nat
    PROVE  \E f : /\ f[0] = 0
                  /\ \A n \in 1..Len(s) : f[n] = (f[n - 1] + s[n]) % Width
                  /\ Sum(s) = f[Len(s)]
<1> DEFINE upTo == CHOOSE f : IsSum(f, s, Len(s))
<1>1. IsSum(upTo, s, Len(s))
  BY SumExists
<1>2. Sum(s) = upTo[Len(s)]
  BY DEF Sum, IsSum
<1> HIDE DEF upTo
<1>3. \A n \in 0..Len(s) : upTo[n] = IF n = 0 THEN 0 ELSE (upTo[n - 1] + s[n]) % Width
  BY <1>1 DEF IsSum
<1> QED
  BY <1>2, <1>3

LEMMA SumOfBytes ==
    ASSUME NEW s \in Seq(Byte)
    PROVE  Sum(s) \in Byte /\ CheckSum(s) \in Byte
<1>0. Len(s) \in Nat
  OBVIOUS
<1>a. Len(s) \in 0..Len(s)
  BY <1>0
<1>1. PICK f : /\ f[0] = 0
               /\ \A n \in 1..Len(s) : f[n] = (f[n - 1] + s[n]) % Width
               /\ Sum(s) = f[Len(s)]
  BY <1>0, SumSteps
<1> DEFINE H == {n \in 0..Len(s) : f[n] \in Byte}
<1>2. 0 \in H
  BY <1>0, <1>1, ByteAssumption DEF Byte
<1>3. ASSUME NEW n \in 1..Len(s), n - 1 \in H PROVE n \in H
  <2>1. s[n] \in Byte /\ f[n - 1] \in Byte /\ n \in 0..Len(s)
    BY <1>3
  <2>2. (f[n - 1] + s[n]) % Width \in Byte
    BY <2>1, AddIsByte
  <2> QED
    BY <1>1, <2>1, <2>2
<1>4. Len(s) \in H
  <2> HIDE DEF H
  <2> QED
    BY <1>0, <1>2, <1>3, <1>a, Induction
<1>5. Sum(s) \in Byte
  BY <1>1, <1>4
<1> QED
  BY <1>5, Complement DEF CheckSum

(* An error in one byte changes the check sum of the bytes. *)
LEMMA SumTellsError ==
    ASSUME NEW s \in Seq(Byte), NEW t \in Seq(Byte), Len(t) = Len(s),
           NEW k \in 1..Len(s), NEW e \in Byte \ {0},
           \A n \in 1..Len(s) : t[n] = IF n = k THEN (s[n] + e) % Width ELSE s[n]
    PROVE  CheckSum(t) # CheckSum(s)
<1>0. Len(s) \in Nat
  OBVIOUS
<1>a. Len(s) \in 0..Len(s)
  BY <1>0
<1>1. PICK f : /\ f[0] = 0
               /\ \A n \in 1..Len(s) : f[n] = (f[n - 1] + s[n]) % Width
               /\ Sum(s) = f[Len(s)]
  BY <1>0, SumSteps
<1>2. PICK g : /\ g[0] = 0
               /\ \A n \in 1..Len(s) : g[n] = (g[n - 1] + t[n]) % Width
               /\ Sum(t) = g[Len(s)]
  BY <1>0, SumSteps
<1> DEFINE H == {n \in 0..Len(s) : /\ f[n] \in Byte
                                   /\ g[n] = IF n < k THEN f[n] ELSE (f[n] + e) % Width}
<1>3. 0 \in H
  BY <1>0, <1>1, <1>2, ByteAssumption DEF Byte
<1>4. ASSUME NEW n \in 1..Len(s), n - 1 \in H PROVE n \in H
  <2>1. s[n] \in Byte /\ f[n - 1] \in Byte /\ n \in 0..Len(s) /\ n \in Nat /\ k \in Nat
    BY <1>4
  <2>2. f[n] = (f[n - 1] + s[n]) % Width /\ g[n] = (g[n - 1] + t[n]) % Width
    BY <1>1, <1>2
  <2>3. f[n] \in Byte
    BY <2>1, <2>2, AddIsByte
  <2>4. g[n - 1] = IF n - 1 < k THEN f[n - 1] ELSE (f[n - 1] + e) % Width
    BY <1>4
  <2>5. CASE n < k
    <3>1. g[n - 1] = f[n - 1] /\ t[n] = s[n]
      BY <2>1, <2>4, <2>5
    <3> QED
      BY <2>1, <2>2, <2>3, <2>5, <3>1
  <2>6. CASE n = k
    <3>1. g[n - 1] = f[n - 1] /\ t[n] = (s[n] + e) % Width
      BY <2>1, <2>4, <2>6
    <3>2. g[n] = (f[n] + e) % Width
      BY <2>1, <2>2, <3>1, AddCommutes
    <3> QED
      BY <2>1, <2>3, <2>6, <3>2
  <2>7. CASE k < n
    <3>1. g[n - 1] = (f[n - 1] + e) % Width /\ t[n] = s[n]
      BY <2>1, <2>4, <2>7
    <3>2. g[n] = (f[n] + e) % Width
      BY <2>1, <2>2, <3>1, AddCommutes
    <3> QED
      BY <2>1, <2>3, <2>7, <3>2
  <2> QED
    BY <2>1, <2>5, <2>6, <2>7
<1>5. Len(s) \in H
  <2> HIDE DEF H
  <2> QED
    BY <1>0, <1>3, <1>4, <1>a, Induction
<1>6. f[Len(s)] \in Byte /\ ~(Len(s) < k)
  BY <1>0, <1>5
<1>7. Sum(t) = (Sum(s) + e) % Width /\ Sum(s) \in Byte
  BY <1>1, <1>2, <1>5, <1>6
<1>8. Sum(t) # Sum(s) /\ Sum(t) \in Byte
  BY <1>7, AddChanges, AddIsByte
<1> QED
  BY <1>7, <1>8, Complement DEF CheckSum
-----------------------------------------------------------------------------
(* Packets.  The data of none is longer than four bytes. *)
MaxData == 4

IsBody(b, cmd, data) ==
    /\ b \in Seq(Byte) /\ Len(b) = Len(data) + 4
    /\ b[1] = HeadByte /\ b[2] = Len(data) + 3 /\ b[4] = cmd
    /\ \A k \in 1..Len(data) : b[k + 4] = data[k]

(* The bytes p are a whole packet. *)
IsFrame(p) == /\ p \in Seq(Byte) /\ Len(p) \in Nat /\ Len(p) >= MinLen
              /\ p[1] = HeadByte /\ BlockLen(p) = Len(p)

LEMMA BodyIs ==
    ASSUME NEW cmd \in Commands, NEW data \in Seq(Byte), Len(data) <= MaxData
    PROVE  IsBody(Body(cmd, data), cmd, data)
<1> DEFINE h == <<HeadByte, Len(data) + 3, Reader, cmd>>
<1>0. Len(data) \in Nat /\ Width \in Nat
  BY ByteAssumption
<1>1. {HeadByte, Len(data) + 3, Reader, cmd} \subseteq Byte
  <2>1. Len(data) + 3 \in 0..(Width - 1)
    BY <1>0, WidthAssumption DEF MaxData
  <2> QED
    BY <2>1, ByteAssumption DEF Byte
<1>2. h \in Seq(Byte) /\ Len(h) = 4
      /\ h[1] = HeadByte /\ h[2] = Len(data) + 3 /\ h[4] = cmd
  BY <1>1
<1>3. Body(cmd, data) = h \o data
  BY DEF Body
<1> HIDE DEF h
<1>4. /\ h \o data \in Seq(Byte) /\ Len(h \o data) = 4 + Len(data)
      /\ \A k \in 1..(4 + Len(data)) : (h \o data)[k] = IF k <= 4 THEN h[k] ELSE data[k - 4]
  <2>1. h \in Seq(Byte)
    BY <1>2
  <2>2. /\ h \o data \in Seq(Byte) /\ Len(h \o data) = Len(h) + Len(data)
        /\ \A k \in 1..(Len(h) + Len(data)) :
              (h \o data)[k] = IF k <= Len(h) THEN h[k] ELSE data[k - Len(h)]
    BY <2>1, ConcatProperties
  <2> QED
    BY <1>2, <2>2
<1>5. ASSUME NEW k \in 1..Len(data) PROVE (h \o data)[k + 4] = data[k]
  <2>1. k + 4 \in 1..(4 + Len(data)) /\ ~(k + 4 <= 4) /\ k + 4 - 4 = k
    BY <1>0
  <2> QED
    BY <1>4, <2>1
<1>6. /\ (h \o data)[1] = h[1] /\ (h \o data)[2] = h[2] /\ (h \o data)[4] = h[4]
  BY <1>0, <1>4
<1> QED
  BY <1>0, <1>2, <1>3, <1>4, <1>5, <1>6 DEF IsBody

(* A sequence of bytes and one byte behind it. *)
LEMMA WithSum ==
    ASSUME NEW b \in Seq(Byte), NEW c \in Byte
    PROVE  /\ b \o <<c>> \in Seq(Byte) /\ Len(b \o <<c>>) = Len(b) + 1
           /\ Len(b) \in Nat
           /\ \A k \in 1..Len(b) : (b \o <<c>>)[k] = b[k]
           /\ (b \o <<c>>)[Len(b) + 1] = c
           /\ Last(b \o <<c>>) = c
           /\ Front(b \o <<c>>) = b
<1> DEFINE q == Append(b, c)
<1>1. b \o <<c>> = q
  BY AppendIsConcat
<1>2. /\ q \in Seq(Byte) /\ Len(q) = Len(b) + 1 /\ q # <<>> /\ Len(b) \in Nat
      /\ \A k \in 1..Len(b) : q[k] = b[k]
      /\ q[Len(b) + 1] = c
  BY OneMore
<1> HIDE DEF q
<1>3. /\ Front(q) \in Seq(Byte) /\ Len(Front(q)) = Len(q) - 1
      /\ \A k \in 1..(Len(q) - 1) : Front(q)[k] = q[k]
      /\ Last(q) = q[Len(q)]
  BY <1>2, OneLess
<1>4. Len(Front(q)) = Len(b) /\ \A k \in 1..Len(Front(q)) : Front(q)[k] = b[k]
  BY <1>2, <1>3
<1>5. Front(q) = b
  BY <1>3, <1>4, SeqEqual
<1> QED
  BY <1>1, <1>2, <1>3, <1>5

LEMMA DataOfPacket ==
    ASSUME NEW cmd \in Commands, NEW data \in Seq(Byte), NEW p \in Seq(Byte),
           Len(p) = Len(data) + 5, \A k \in 1..Len(data) : p[k + 4] = data[k]
    PROVE  (IF Len(p) > MinLen THEN SubSeq(p, 5, Len(p) - 1) ELSE <<>>) = data
<1>0. Len(data) \in Nat
  OBVIOUS
<1>1. CASE Len(data) = 0
  <2>1. data = <<>> /\ ~(Len(p) > MinLen)
    BY <1>1, EmptySeq DEF MinLen
  <2> QED
    BY <2>1
<1>2. CASE Len(data) # 0
  <2> DEFINE d == SubSeq(p, 5, Len(p) - 1)
  <2>1. Len(p) > MinLen /\ Len(p) - 1 = Len(data) + 4 /\ Len(data) > 0
    BY <1>0, <1>2 DEF MinLen
  <2>2. 5 \in Int /\ Len(p) - 1 \in Int /\ \A i \in 5..(Len(p) - 1) : p[i] \in Byte
    BY <1>0
  <2>3. /\ d \in Seq(Byte)
        /\ Len(d) = IF 5 <= Len(p) - 1 THEN Len(p) - 1 - 5 + 1 ELSE 0
        /\ \A i \in 1..(Len(p) - 1 - 5 + 1) : d[i] = p[5 + i - 1]
    BY <2>2, SubSeqProperties
  <2> HIDE DEF d
  <2>4. Len(d) = Len(data)
    BY <1>0, <2>1, <2>3
  <2>5. ASSUME NEW i \in 1..Len(d) PROVE d[i] = data[i]
    <3>1. i \in 1..(Len(p) - 1 - 5 + 1) /\ 5 + i - 1 = i + 4 /\ i \in 1..Len(data)
      BY <1>0, <2>1, <2>4
    <3> QED
      BY <2>3, <3>1
  <2>6. d = data
    BY <2>3, <2>4, <2>5, SeqEqual
  <2> QED
    BY <2>1, <2>6 DEF d
<1> QED
  BY <1>1, <1>2

LEMMA PacketIs ==
    ASSUME NEW cmd \in Commands, NEW data \in Seq(Byte), Len(data) <= MaxData
    PROVE  /\ IsFrame(Packet(cmd, data))
           /\ Len(Packet(cmd, data)) = Len(data) + 5
           /\ Front(Packet(cmd, data)) = Body(cmd, data)
           /\ Body(cmd, data) \in Seq(Byte)
           /\ Last(Packet(cmd, data)) = CheckSum(Body(cmd, data))
           /\ Message(Packet(cmd, data)) = [cmd |-> cmd, data |-> data]
<1> DEFINE b == Body(cmd, data)
           p == Packet(cmd, data)
<1>0. Len(data) \in Nat
  OBVIOUS
<1>1. IsBody(b, cmd, data)
  BY BodyIs
<1>2. p = b \o <<CheckSum(b)>>
  BY DEF Packet
<1>3. CheckSum(b) \in Byte
  BY <1>1, SumOfBytes DEF IsBody
<1> HIDE DEF b, p
<1>4. /\ p \in Seq(Byte) /\ Len(p) = Len(b) + 1 /\ Len(b) \in Nat
      /\ \A k \in 1..Len(b) : p[k] = b[k]
      /\ Last(p) = CheckSum(b) /\ Front(p) = b
  BY <1>1, <1>2, <1>3, WithSum DEF IsBody
<1>5. Len(b) = Len(data) + 4
  BY <1>1 DEF IsBody
<1>6. /\ p[1] = HeadByte /\ p[2] = Len(data) + 3 /\ p[4] = cmd
      /\ \A k \in 1..Len(data) : p[k + 4] = data[k]
  <2>1. 1 \in 1..Len(b) /\ 2 \in 1..Len(b) /\ 4 \in 1..Len(b)
        /\ \A k \in 1..Len(data) : k + 4 \in 1..Len(b)
    BY <1>0, <1>5
  <2> QED
    BY <1>1, <1>4, <2>1 DEF IsBody
<1>7. Len(p) = Len(data) + 5
  BY <1>0, <1>4, <1>5
<1>8. IsFrame(p)
  BY <1>0, <1>4, <1>6, <1>7 DEF IsFrame, BlockLen, MinLen
<1>9. Message(p) = [cmd |-> cmd, data |-> data]
  <2>1. (IF Len(p) > MinLen THEN SubSeq(p, 5, Len(p) - 1) ELSE <<>>) = data
    BY <1>4, <1>6, <1>7, DataOfPacket
  <2>2. CheckSum(Front(p)) = Last(p)
    BY <1>4
  <2> QED
    BY <1>6, <2>1, <2>2 DEF Message
<1>10. b \in Seq(Byte)
  BY <1>1 DEF IsBody
<1> QED
  BY <1>4, <1>7, <1>8, <1>9, <1>10 DEF b, p

(* A packet in which the line has changed a byte behind the length is told *)
(* by its check sum.                                                       *)
LEMMA CorruptedIs ==
    ASSUME NEW cmd \in Commands, NEW data \in Seq(Byte), Len(data) <= MaxData,
           NEW k \in 3..Len(Packet(cmd, data)), NEW e \in Errors
    PROVE  LET q == [Packet(cmd, data) EXCEPT ![k] = (@ + e) % Width]
           IN  IsFrame(q) /\ Message(q) = NoMessage
<1> DEFINE p == Packet(cmd, data)
           x == (p[k] + e) % Width
           q == [p EXCEPT ![k] = x]
           b == Body(cmd, data)
<1>1. /\ IsFrame(p) /\ Front(p) = b /\ b \in Seq(Byte) /\ Last(p) = CheckSum(b)
      /\ Len(p) = Len(data) + 5
  BY PacketIs
<1>2. e \in Byte \ {0} /\ [p EXCEPT ![k] = (@ + e) % Width] = q
  BY ErrorsAssumption
<1>3. p \in Seq(Byte) /\ Len(p) \in Nat /\ Len(p) >= 5 /\ p # <<>>
  BY <1>1, EmptySeq DEF IsFrame, MinLen
<1> HIDE DEF p, b
<1>4. k \in 1..Len(p) /\ p[k] \in Byte /\ k # 1 /\ k # 2
  BY <1>3 DEF p
<1>5. x \in Byte /\ x # p[k]
  BY <1>2, <1>4, AddIsByte, AddChanges
<1> HIDE DEF x
<1>6. /\ q \in Seq(Byte) /\ Len(q) = Len(p)
      /\ \A j \in 1..Len(p) : q[j] = IF j = k THEN x ELSE p[j]
  BY <1>3, <1>4, <1>5, ExceptSeq
<1> HIDE DEF q
<1>7. IsFrame(q)
  <2>1. 1 \in 1..Len(p) /\ 2 \in 1..Len(p)
    BY <1>3
  <2>2. q[1] = p[1] /\ q[2] = p[2]
    BY <1>4, <1>6, <2>1
  <2> QED
    BY <1>1, <1>6, <2>2 DEF IsFrame, BlockLen
<1>8. q # <<>>
  BY <1>3, <1>6, EmptySeq
<1>9. /\ Front(q) \in Seq(Byte) /\ Len(Front(q)) = Len(p) - 1
      /\ \A j \in 1..(Len(p) - 1) : Front(q)[j] = q[j]
      /\ Last(q) = q[Len(p)]
  BY <1>6, <1>8, OneLess
<1>10. /\ Len(b) = Len(p) - 1
       /\ \A j \in 1..(Len(p) - 1) : b[j] = p[j]
       /\ Last(p) = p[Len(p)]
  BY <1>1, <1>3, OneLess
<1>11. CheckSum(Front(q)) # Last(q)
  <2>1. CASE k = Len(p)
    <3>1. \A j \in 1..Len(b) : Front(q)[j] = b[j]
      <4>1. \A j \in 1..(Len(p) - 1) : j \in 1..Len(p) /\ j # Len(p)
        BY <1>3
      <4> QED
        BY <1>6, <1>9, <1>10, <2>1, <4>1
    <3>2. Front(q) = b
      BY <1>1, <1>9, <1>10, <3>1, SeqEqual
    <3>3. Last(q) = x /\ CheckSum(b) = p[k]
      BY <1>1, <1>4, <1>6, <1>9, <1>10, <2>1
    <3> QED
      BY <1>5, <3>2, <3>3
  <2>2. CASE k # Len(p)
    <3>1. k \in 1..Len(b)
      BY <1>3, <1>4, <1>10, <2>2
    <3>2. \A n \in 1..Len(b) : Front(q)[n] = IF n = k THEN (b[n] + e) % Width ELSE b[n]
      <4>1. \A n \in 1..(Len(p) - 1) : n \in 1..Len(p)
        BY <1>3
      <4> QED
        BY <1>6, <1>9, <1>10, <4>1 DEF x
    <3>3. CheckSum(Front(q)) # CheckSum(b)
      <4>1. b \in Seq(Byte) /\ Front(q) \in Seq(Byte) /\ Len(Front(q)) = Len(b)
        BY <1>1, <1>9, <1>10
      <4>2. e \in Byte \ {0}
        BY <1>2
      <4> QED
        BY <3>1, <3>2, <4>1, <4>2, SumTellsError
    <3>4. Last(q) = CheckSum(b)
      <4>1. Len(p) \in 1..Len(p)
        BY <1>3
      <4> QED
        BY <1>1, <1>6, <1>9, <1>10, <2>2, <4>1
    <3> QED
      BY <3>3, <3>4
  <2> QED
    BY <2>1, <2>2
<1>12. Message(q) = NoMessage
  BY <1>11 DEF Message
<1> QED
  BY <1>2, <1>7, <1>12 DEF q, p

(* What the reader takes a request for. *)
TakenOf(r) == Message(SubSeq(r, 1, BlockLen(r)))

LEMMA RequestIs ==
    ASSUME NEW cmd \in Commands, NEW data \in Seq(Byte), Len(data) <= MaxData
    PROVE  /\ Request(cmd, data) \in Seq(Byte)
           /\ TakenOf(Request(cmd, data)) = [cmd |-> cmd, data |-> data]
<1> DEFINE p == Packet(cmd, data)
           z == [k \in 1..Len(data) |-> 0]
           r == Request(cmd, data)
<1>0. Len(data) \in Nat
  OBVIOUS
<1>1. r = p \o z
  BY DEF Request, Packet
<1>2. IsFrame(p) /\ Message(p) = [cmd |-> cmd, data |-> data]
  BY PacketIs
<1>3. p \in Seq(Byte) /\ Len(p) \in Nat /\ Len(p) >= 5
  BY <1>2 DEF IsFrame, MinLen
<1>4. z \in Seq(Byte)
  <2>1. 0 \in Byte
    BY ByteAssumption DEF Byte
  <2> QED
    BY <1>0, <2>1
<1> HIDE DEF p, z, r
<1>5. /\ r \in Seq(Byte) /\ Len(z) \in Nat
      /\ \A i \in 1..(Len(p) + Len(z)) : r[i] = IF i <= Len(p) THEN p[i] ELSE z[i - Len(p)]
  BY <1>1, <1>3, <1>4, ConcatProperties
<1>6. BlockLen(r) = Len(p)
  <2>1. 2 \in 1..(Len(p) + Len(z)) /\ 2 <= Len(p)
    BY <1>3, <1>5
  <2>2. r[2] = p[2]
    BY <1>5, <2>1
  <2> QED
    BY <1>2, <2>2 DEF BlockLen, IsFrame
<1>7. SubSeq(r, 1, Len(p)) = p
  <2>1. 1 \in 1..Len(p) /\ Len(p) \in 1..Len(p)
    BY <1>3
  <2>2. SubSeq(r, 1, Len(p)) = SubSeq(p, 1, Len(p))
    BY <1>1, <1>3, <1>4, <2>1, SubSeqOfConcat1
  <2> QED
    BY <1>3, <2>2, SubSeqFull
<1>8. TakenOf(r) = Message(p)
  BY <1>6, <1>7 DEF TakenOf
<1> QED
  BY <1>2, <1>5, <1>8 DEF r, p
-----------------------------------------------------------------------------
(* The bytes under way: a packet p, before which there may be garbage, of  *)
(* which a part h is still on the line and a part g, too short to be       *)
(* looked at, in the buffer; or n bytes of p have been read.               *)
NoHead == Byte \ {HeadByte}

Before(p, got, bytes) ==
    \E h \in Seq(NoHead) : got \in Seq(NoHead) /\ Len(got) < MinLen /\ bytes = h \o p

Read(p, n, got) == \E g \in Seq(NoHead) : /\ got = g \o SubSeq(p, 1, n)
                                          /\ g = <<>> \/ Len(got) < MinLen

Within(p, got, bytes) == \E n \in 1..(Len(p) - 1) : /\ Read(p, n, got)
                                                    /\ bytes = SubSeq(p, n + 1, Len(p))

DueFor(p) == IF Message(p) = NoMessage THEN <<>> ELSE <<Message(p)>>

Known(msg) == msg = NoMessage \/ msg \in [cmd : Commands, data : Seq(Byte)]

LineInv ==
    /\ ~strange
    /\ line = <<>> => recvBuf = <<>> /\ due = <<>>
    /\ line # <<>> => \E p \in Seq(Byte) :
                         /\ IsFrame(p) /\ Known(Message(p)) /\ due = DueFor(p)
                         /\ Before(p, recvBuf, line) \/ Within(p, recvBuf, line)

LEMMA NoHeadsAreBytes == \A s \in Seq(NoHead) : s \in Seq(Byte)
  BY SeqMonotonic DEF NoHead

LEMMA GarbageByte ==
    ASSUME NEW g \in Seq(NoHead), Len(g) < MinLen, NEW c \in NoHead,
           ReceivePacket(Append(g, c))
    PROVE  message' = NoMessage /\ recvBuf' \in Seq(NoHead) /\ Len(recvBuf') < MinLen
<1> DEFINE got == Append(g, c)
<1>1. got \in Seq(NoHead) /\ Len(got) \in Nat
  BY OneMore
<1>2. \A k \in 1..Len(got) : got[k] \in NoHead
  BY <1>1, ElementOfSeq
<1> HIDE DEF got
<1>3. CASE Len(got) < MinLen
  <2>1. recvBuf' = got /\ message' = NoMessage
    BY <1>1, <1>3 DEF ReceivePacket, MinLen, got
  <2> QED
    BY <1>1, <1>3, <2>1
<1>4. CASE ~(Len(got) < MinLen)
  <2>1. 1 \in 1..Len(got)
    BY <1>1, <1>4 DEF MinLen
  <2>2. got[1] # HeadByte
    BY <1>2, <2>1 DEF NoHead
  <2>3. recvBuf' = FromHead(got) /\ message' = NoMessage
    BY <1>4, <2>2 DEF ReceivePacket, got
  <2>4. {k \in 1..Len(got) : got[k] = HeadByte} = {}
    BY <1>2 DEF NoHead
  <2>5. FromHead(got) = <<>>
    BY <2>4 DEF FromHead
  <2> QED
    BY <2>3, <2>5, NoneOf DEF MinLen
<1> QED
  BY <1>3, <1>4

(* Garbage before a head byte is dropped, and no more. *)
LEMMA GarbageDropped ==
    ASSUME NEW g \in Seq(NoHead), NEW q \in Seq(Byte), q # <<>>, q[1] = HeadByte
    PROVE  FromHead(g \o q) = q
<1> DEFINE got == g \o q
           heads == {k \in 1..Len(got) : got[k] = HeadByte}
           first == Len(g) + 1
<1>1. g \in Seq(Byte) /\ Len(g) \in Nat /\ Len(q) \in Nat \ {0}
  BY NoHeadsAreBytes, EmptySeq, LenProperties
<1>2. /\ got \in Seq(Byte) /\ Len(got) = Len(g) + Len(q)
      /\ \A i \in 1..(Len(g) + Len(q)) : got[i] = IF i <= Len(g) THEN g[i] ELSE q[i - Len(g)]
  BY <1>1, ConcatProperties
<1> HIDE DEF got
<1>3. first \in heads
  <2>1. first \in 1..(Len(g) + Len(q)) /\ ~(first <= Len(g)) /\ first - Len(g) = 1
    BY <1>1
  <2> QED
    BY <1>2, <2>1
<1>4. ASSUME NEW l \in heads PROVE first <= l
  <2>1. l \in 1..(Len(g) + Len(q)) /\ got[l] = HeadByte
    BY <1>2
  <2>2. ~(l <= Len(g))
    <3> SUFFICES ASSUME l <= Len(g) PROVE FALSE
      OBVIOUS
    <3>1. l \in 1..Len(g) /\ got[l] = g[l]
      BY <1>1, <1>2, <2>1
    <3>2. g[l] \in NoHead
      BY <3>1, ElementOfSeq
    <3> QED
      BY <2>1, <3>1, <3>2 DEF NoHead
  <2> QED
    BY <1>1, <2>1, <2>2
<1> DEFINE k == CHOOSE m \in heads : \A l \in heads : m <= l
<1>5. k \in heads /\ \A l \in heads : k <= l
  BY <1>3, <1>4
<1>6. k = first
  <2>1. k <= first /\ first <= k
    BY <1>3, <1>4, <1>5
  <2>2. k \in Nat /\ first \in Nat
    <3>1. k \in 1..Len(got)
      BY <1>5
    <3> QED
      BY <1>1, <1>2, <3>1
  <2> HIDE DEF k, first
  <2> QED
    BY <2>1, <2>2
<1>7. FromHead(got) = SubSeq(got, k, Len(got))
  BY <1>3 DEF FromHead
<1> HIDE DEF k
<1>8. SubSeq(got, first, Len(got)) = SubSeq(q, first - Len(g), Len(got) - Len(g))
  <2>1. first \in (Len(g) + 1)..(Len(g) + Len(q)) /\ Len(got) \in (Len(g) + 1)..(Len(g) + Len(q))
    BY <1>1, <1>2
  <2> QED
    BY <1>1, <2>1, SubSeqOfConcat2 DEF got
<1>9. first - Len(g) = 1 /\ Len(got) - Len(g) = Len(q)
  BY <1>1, <1>2
<1>10. SubSeq(q, 1, Len(q)) = q
  BY SubSeqFull
<1> QED
  BY <1>6, <1>7, <1>8, <1>9, <1>10 DEF got

(* The first n bytes of a packet. *)
LEMMA FirstBytes ==
    ASSUME NEW p, IsFrame(p), NEW n \in 1..Len(p)
    PROVE  LET q == SubSeq(p, 1, n)
           IN  /\ q \in Seq(Byte) /\ Len(q) = n /\ q # <<>>
               /\ q[1] = HeadByte /\ (n >= 2 => q[2] = p[2])
<1> DEFINE q == SubSeq(p, 1, n)
<1>1. p \in Seq(Byte) /\ Len(p) \in Nat /\ n \in Nat /\ n >= 1
  BY DEF IsFrame
<1>2. 1 \in Int /\ n \in Int /\ \A i \in 1..n : p[i] \in Byte
  BY <1>1
<1>3. /\ q \in Seq(Byte) /\ Len(q) = IF 1 <= n THEN n - 1 + 1 ELSE 0
      /\ \A i \in 1..(n - 1 + 1) : q[i] = p[1 + i - 1]
  BY <1>2, SubSeqProperties
<1> HIDE DEF q
<1>4. Len(q) = n /\ \A i \in 1..n : q[i] = p[i]
  <2>1. n - 1 + 1 = n /\ \A i \in 1..n : 1 + i - 1 = i
    BY <1>1
  <2> QED
    BY <1>1, <1>3, <2>1
<1>5. q # <<>>
  BY <1>1, <1>4, EmptySeq
<1>6. q[1] = HeadByte /\ (n >= 2 => q[2] = p[2])
  <2>1. 1 \in 1..n /\ (n >= 2 => 2 \in 1..n)
    BY <1>1
  <2> QED
    BY <1>4, <2>1 DEF IsFrame
<1> QED
  BY <1>3, <1>4, <1>5, <1>6 DEF q

LEMMA PacketByte ==
    ASSUME NEW p, IsFrame(p), NEW n \in 1..Len(p), NEW g \in Seq(NoHead), NEW got,
           got = g \o SubSeq(p, 1, n), g = <<>> \/ Len(got) <= MinLen,
           ReceivePacket(got)
    PROVE  IF n < Len(p)
             THEN message' = NoMessage /\ Read(p, n, recvBuf')
             ELSE Receive(Message(p)) /\ recvBuf' = <<>>
<1> DEFINE q == SubSeq(p, 1, n)
<1>1. /\ p \in Seq(Byte) /\ Len(p) \in Nat /\ Len(p) >= 5 /\ n \in Nat /\ n >= 1 /\ n <= Len(p)
      /\ g \in Seq(Byte) /\ Len(g) \in Nat
  BY NoHeadsAreBytes DEF IsFrame, MinLen
<1>2. q \in Seq(Byte) /\ Len(q) = n /\ q # <<>> /\ q[1] = HeadByte /\ (n >= 2 => q[2] = p[2])
  BY FirstBytes
<1>0. got = g \o q
  OBVIOUS
<1> HIDE DEF q
<1>3. CASE g = <<>>
  <2>1. got = q
    BY <1>0, <1>2, <1>3, ConcatEmptySeq
  <2>2. CASE n < MinLen
    <3>1. message' = NoMessage /\ recvBuf' = q
      <4>1. ~(Len(got) >= MinLen)
        BY <1>1, <1>2, <2>1, <2>2 DEF MinLen
      <4> QED
        BY <2>1, <4>1, Zenon DEF ReceivePacket
    <3>2. n < Len(p)
      BY <1>1, <2>2 DEF MinLen
    <3> QED
      BY <1>3, <1>0, <2>1, <3>1, <3>2 DEF Read, q
  <2>3. CASE ~(n < MinLen)
    <3>1. n >= 2 /\ n >= MinLen
      BY <1>1, <2>3 DEF MinLen
    <3>2. BlockLen(q) = Len(p)
      BY <1>2, <3>1 DEF BlockLen, IsFrame
    <3>3. IF Len(p) <= n
            THEN /\ Receive(Message(SubSeq(q, 1, Len(p))))
                 /\ recvBuf' = SubSeq(q, Len(p) + 1, n)
            ELSE recvBuf' = q /\ message' = NoMessage
      <4>1. ~(Len(q) < MinLen) /\ q[1] = HeadByte
        BY <1>2, <2>3
      <4> QED
        BY <1>2, <2>1, <3>2, <4>1 DEF ReceivePacket
    <3>4. CASE n < Len(p)
      <4>1. recvBuf' = q /\ message' = NoMessage
        BY <1>1, <3>3, <3>4
      <4> QED
        BY <1>3, <1>0, <2>1, <3>4, <4>1 DEF Read, q
    <3>5. CASE ~(n < Len(p))
      <4>1. n = Len(p)
        BY <1>1, <3>5
      <4>2. q = p
        BY <1>1, <4>1, SubSeqFull DEF q
      <4>3. SubSeq(q, 1, Len(p)) = p
        BY <1>1, <4>2, SubSeqFull
      <4>4. SubSeq(q, Len(p) + 1, n) = <<>>
        <5>1. Len(p) + 1 \in Int /\ n \in Int /\ n < Len(p) + 1
          BY <1>1
        <5> QED
          BY <5>1, SubSeqEmpty
      <4>5. Len(p) <= n
        BY <1>1, <4>1
      <4> QED
        BY <3>3, <3>5, <4>3, <4>4, <4>5
    <3> QED
      BY <3>4, <3>5
  <2> QED
    BY <2>2, <2>3
<1>4. CASE g # <<>>
  <2>1. Len(g) \in Nat \ {0}
    BY <1>4, EmptySeq
  <2>2. /\ Len(got) = Len(g) + n
        /\ \A i \in 1..(Len(g) + n) : got[i] = IF i <= Len(g) THEN g[i] ELSE q[i - Len(g)]
    <3>1. /\ Len(g \o q) = Len(g) + Len(q)
          /\ \A i \in 1..(Len(g) + Len(q)) :
                (g \o q)[i] = IF i <= Len(g) THEN g[i] ELSE q[i - Len(g)]
      <4>1. g \in Seq(Byte) /\ q \in Seq(Byte)
        BY <1>1, <1>2
      <4> QED
        BY <4>1, ConcatProperties
    <3> QED
      BY <1>0, <1>2, <3>1
  <2>3. n < Len(p)
    BY <1>1, <1>4, <2>1, <2>2 DEF MinLen
  <2>4. CASE Len(got) < MinLen
    <3>1. message' = NoMessage /\ recvBuf' = got
      <4>1. ~(Len(got) >= MinLen)
        BY <1>1, <2>2, <2>4 DEF MinLen
      <4> QED
        BY <4>1, Zenon DEF ReceivePacket
    <3> QED
      BY <1>0, <2>3, <2>4, <3>1 DEF Read, q
  <2>5. CASE ~(Len(got) < MinLen)
    <3>1. got[1] # HeadByte
      <4>1. 1 \in 1..(Len(g) + n) /\ 1 \in 1..Len(g) /\ 1 <= Len(g)
        BY <1>1, <2>1
      <4>2. got[1] = g[1] /\ g[1] \in NoHead
        BY <2>2, <4>1, ElementOfSeq
      <4> QED
        BY <4>2 DEF NoHead
    <3>2. message' = NoMessage /\ recvBuf' = FromHead(got)
      BY <2>5, <3>1 DEF ReceivePacket
    <3>3. recvBuf' = <<>> \o q
      BY <1>0, <1>2, <3>2, GarbageDropped, ConcatEmptySeq
    <3>4. <<>> \in Seq(NoHead)
      BY NoneOf
    <3> QED
      BY <2>3, <3>2, <3>3, <3>4 DEF Read, q
  <2> QED
    BY <2>4, <2>5
<1> QED
  BY <1>3, <1>4
-----------------------------------------------------------------------------
(* What a byte does: the message it completes is the one due. *)
Handled == \/ message' = NoMessage /\ due' = due
           \/ /\ message' # NoMessage /\ Known(message')
              /\ due = <<message'>> /\ due' = <<>>

LEMMA ZeroIsNoCommand == 0 \notin Commands
  BY ByteAssumption

LEMMA NextByte ==
    ASSUME ~strange, NEW p \in Seq(Byte), IsFrame(p), Known(Message(p)), due = DueFor(p),
           NEW n \in 1..Len(p), NEW g \in Seq(NoHead), line = SubSeq(p, n, Len(p)),
           Append(recvBuf, Head(line)) = g \o SubSeq(p, 1, n),
           g = <<>> \/ Len(g \o SubSeq(p, 1, n)) <= MinLen,
           OnByte
    PROVE  LineInv' /\ Handled
<1> DEFINE m == Message(p)
<1>1. Len(p) \in Nat /\ n \in Nat /\ n >= 1 /\ n <= Len(p)
  BY DEF IsFrame
<1>2. line' = SubSeq(p, n + 1, Len(p))
  <2>1. Len(p) \in n..Len(p)
    BY <1>1
  <2>2. Tail(SubSeq(p, n, Len(p))) = SubSeq(p, n + 1, Len(p))
    BY <2>1, HeadTailOfSubSeq
  <2> QED
    BY <2>2 DEF OnByte
<1>3. IF n < Len(p)
        THEN message' = NoMessage /\ Read(p, n, recvBuf')
        ELSE Receive(m) /\ recvBuf' = <<>>
  <2>1. ReceivePacket(g \o SubSeq(p, 1, n))
    BY DEF OnByte
  <2> QED
    BY <2>1, PacketByte
<1>4. /\ strange' = (strange \/ /\ message' # NoMessage
                                /\ due = <<>> \/ message' # Head(due))
      /\ due' = IF message' = NoMessage \/ due = <<>> THEN due ELSE Tail(due)
  BY DEF OnByte
<1>5. CASE n < Len(p)
  <2>1. message' = NoMessage /\ Read(p, n, recvBuf')
    BY <1>3, <1>5
  <2>2. due' = due /\ ~strange'
    BY <1>4, <2>1
  <2>3. n \in 1..(Len(p) - 1)
    BY <1>1, <1>5
  <2>4. Within(p, recvBuf', line')
    BY <1>2, <2>1, <2>3 DEF Within
  <2>5. line' # <<>>
    <3> DEFINE q == SubSeq(p, n + 1, Len(p))
    <3>1. n + 1 \in Int /\ Len(p) \in Int /\ \A i \in (n + 1)..Len(p) : p[i] \in Byte
      BY <1>1
    <3>2. Len(q) = IF n + 1 <= Len(p) THEN Len(p) - (n + 1) + 1 ELSE 0
      BY <3>1, SubSeqProperties
    <3> HIDE DEF q
    <3>3. Len(q) # 0
      BY <1>1, <1>5, <3>2
    <3>4. q # <<>>
      BY <3>3
    <3> QED
      BY <1>2, <3>4 DEF q
  <2>6. LineInv'
    <3>1. due' = DueFor(p)
      BY <2>2
    <3>2. \E r \in Seq(Byte) : /\ IsFrame(r) /\ Known(Message(r)) /\ due' = DueFor(r)
                               /\ Before(r, recvBuf', line') \/ Within(r, recvBuf', line')
      BY <2>4, <3>1
    <3> QED
      BY <2>2, <2>5, <3>2 DEF LineInv
  <2> QED
    BY <2>1, <2>2, <2>6 DEF Handled
<1>6. CASE ~(n < Len(p))
  <2>1. Receive(m) /\ recvBuf' = <<>>
    BY <1>3, <1>6
  <2>2. line' = <<>>
    <3>1. n + 1 \in Int /\ Len(p) \in Int /\ Len(p) < n + 1
      BY <1>1, <1>6
    <3> QED
      BY <1>2, <3>1, SubSeqEmpty
  <2>3. CASE m = NoMessage
    <3>1. due = <<>> /\ m.cmd = 0
      BY <2>3 DEF DueFor, NoMessage
    <3>2. message' = NoMessage
      BY <2>1, <3>1, ZeroIsNoCommand DEF Receive
    <3>3. due' = due /\ ~strange'
      BY <1>4, <3>2
    <3> QED
      BY <2>1, <2>2, <3>1, <3>2, <3>3 DEF LineInv, Handled
  <2>4. CASE m # NoMessage
    <3>1. due = <<m>> /\ m \in [cmd : Commands, data : Seq(Byte)]
      BY <2>4 DEF DueFor, Known
    <3>2. message' = m
      BY <2>1, <3>1 DEF Receive
    <3>3. Head(<<m>>) = m /\ Tail(<<m>>) = <<>> /\ <<m>> # <<>>
      OBVIOUS
    <3>4. due' = <<>> /\ ~strange'
      BY <1>4, <2>4, <3>1, <3>2, <3>3
    <3> QED
      BY <2>1, <2>2, <2>4, <3>1, <3>2, <3>4 DEF LineInv, Handled, Known
  <2> QED
    BY <2>3, <2>4
<1> QED
  BY <1>5, <1>6

LEMMA ByteStep == ASSUME LineInv, OnByte PROVE LineInv' /\ Handled
<1>1. PICK p \in Seq(Byte) : /\ IsFrame(p) /\ Known(Message(p)) /\ due = DueFor(p)
                             /\ Before(p, recvBuf, line) \/ Within(p, recvBuf, line)
  BY DEF LineInv, OnByte
<1>2. ~strange
  BY DEF LineInv
<1>3. Len(p) \in Nat /\ Len(p) >= 5 /\ p # <<>> /\ p[1] = HeadByte
  BY <1>1, EmptySeq DEF IsFrame, MinLen
<1>4. CASE Before(p, recvBuf, line)
  <2>1. PICK h \in Seq(NoHead) : /\ recvBuf \in Seq(NoHead) /\ Len(recvBuf) < MinLen
                                 /\ line = h \o p
    BY <1>4 DEF Before
  <2>2. CASE h = <<>>
    <3>1. line = p
      BY <2>1, <2>2, ConcatEmptySeq
    <3>2. line = SubSeq(p, 1, Len(p)) /\ Head(line) = HeadByte
      BY <1>3, <3>1, SubSeqFull
    <3>3. SubSeq(p, 1, 1) = <<HeadByte>>
      <4> DEFINE q == SubSeq(p, 1, 1)
      <4>1. 1 \in 1..Len(p)
        BY <1>3
      <4>2. q \in Seq(Byte) /\ Len(q) = 1 /\ q[1] = HeadByte
        BY <1>1, <4>1, FirstBytes
      <4> HIDE DEF q
      <4>3. <<HeadByte>> \in Seq(Byte) /\ Len(<<HeadByte>>) = 1 /\ <<HeadByte>>[1] = HeadByte
        BY ByteAssumption
      <4>4. \A i \in 1..1 : i = 1
        OBVIOUS
      <4>5. q = <<HeadByte>>
        BY <4>2, <4>3, <4>4, SeqEqual
      <4> QED
        BY <4>5 DEF q
    <3>4. Append(recvBuf, Head(line)) = recvBuf \o SubSeq(p, 1, 1)
      <4>1. recvBuf \in Seq(Byte) /\ HeadByte \in Byte
        BY <2>1, NoHeadsAreBytes, ByteAssumption
      <4> QED
        BY <3>2, <3>3, <4>1, AppendIsConcat
    <3>5. Len(recvBuf \o SubSeq(p, 1, 1)) <= MinLen
      <4>1. recvBuf \in Seq(Byte) /\ HeadByte \in Byte
        BY <2>1, NoHeadsAreBytes, ByteAssumption
      <4>2. Len(Append(recvBuf, HeadByte)) = Len(recvBuf) + 1 /\ Len(recvBuf) \in Nat
        BY <4>1, OneMore
      <4>3. Len(recvBuf) + 1 <= MinLen
        BY <2>1, <4>2 DEF MinLen
      <4> QED
        BY <3>2, <3>4, <4>2, <4>3
    <3>6. 1 \in 1..Len(p)
      BY <1>3
    <3> QED
      BY <1>1, <1>2, <2>1, <3>2, <3>4, <3>5, <3>6, NextByte
  <2>3. CASE h # <<>>
    <3>1. Head(h) \in NoHead /\ Tail(h) \in Seq(NoHead)
      BY <2>3, HeadTailProperties
    <3>2. Head(line) = Head(h) /\ Tail(line) = Tail(h) \o p
      <4>1. h \in Seq(Byte)
        BY NoHeadsAreBytes
      <4>2. Head(h \o p) = Head(h)
        BY <2>3, <4>1
      <4>3. Tail(h \o p) = Tail(h) \o p
        BY <2>3, <4>1
      <4> QED
        BY <2>1, <4>2, <4>3
    <3>3. ReceivePacket(Append(recvBuf, Head(h))) /\ line' = Tail(h) \o p
      BY <3>2 DEF OnByte
    <3>4. message' = NoMessage /\ recvBuf' \in Seq(NoHead) /\ Len(recvBuf') < MinLen
      BY <2>1, <3>1, <3>3, GarbageByte
    <3>5. due' = due /\ ~strange'
      BY <1>2, <3>4 DEF OnByte
    <3>6. Before(p, recvBuf', line')
      BY <3>1, <3>3, <3>4 DEF Before
    <3>7. line' # <<>>
      <4>1. Tail(h) \in Seq(Byte)
        BY <3>1, NoHeadsAreBytes
      <4> QED
        BY <1>3, <3>3, <4>1, ConcatEqualIffEmpty, ConcatSimplifications
    <3>8. LineInv'
      <4>1. \E r \in Seq(Byte) : /\ IsFrame(r) /\ Known(Message(r)) /\ due' = DueFor(r)
                                 /\ Before(r, recvBuf', line') \/ Within(r, recvBuf', line')
        BY <1>1, <3>5, <3>6
      <4> QED
        BY <3>5, <3>7, <4>1 DEF LineInv
    <3> QED
      BY <3>4, <3>5, <3>8 DEF Handled
  <2> QED
    BY <2>2, <2>3
<1>5. CASE Within(p, recvBuf, line)
  <2>1. PICK n \in 1..(Len(p) - 1) : Read(p, n, recvBuf) /\ line = SubSeq(p, n + 1, Len(p))
    BY <1>5 DEF Within
  <2>2. PICK g \in Seq(NoHead) : /\ recvBuf = g \o SubSeq(p, 1, n)
                                 /\ g = <<>> \/ Len(recvBuf) < MinLen
    BY <2>1 DEF Read
  <2> DEFINE q == SubSeq(p, 1, n)
             c == p[n + 1]
  <2>3. n \in 1..Len(p) /\ n + 1 \in 1..Len(p) /\ Len(p) \in (n + 1)..Len(p)
        /\ n + 1 \in 1..(n + 1) /\ 1 \in 1..Len(p) /\ n + 1 \in 1..Len(p) /\ n + 1 - 1 = n
    BY <1>3
  <2>4. Head(line) = c /\ c \in Byte
    <3>1. Head(SubSeq(p, n + 1, Len(p))) = p[n + 1]
      BY <2>3, HeadTailOfSubSeq
    <3> QED
      BY <2>1, <2>3, <3>1
  <2>5. q \in Seq(Byte) /\ g \in Seq(Byte)
    BY <1>1, <2>3, FirstBytes, NoHeadsAreBytes
  <2>6. SubSeq(p, 1, n + 1) = q \o <<c>>
    BY <2>3, SubSeqRecursiveSecond
  <2> HIDE DEF q, c
  <2>7. Append(recvBuf, Head(line)) = g \o SubSeq(p, 1, n + 1)
    <3>1. g \o q \in Seq(Byte)
      BY <2>5, ConcatProperties
    <3>2. Append(g \o q, c) = (g \o q) \o <<c>>
      BY <2>4, <3>1, AppendIsConcat
    <3>3. <<c>> \in Seq(Byte)
      BY <2>4
    <3>4. (g \o q) \o <<c>> = g \o (q \o <<c>>)
      BY <2>5, <3>3, ConcatAssociative
    <3>5. recvBuf = g \o q
      BY <2>2 DEF q
    <3> QED
      BY <2>4, <2>6, <3>2, <3>4, <3>5
  <2>8. g = <<>> \/ Len(g \o SubSeq(p, 1, n + 1)) <= MinLen
    <3>1. recvBuf \in Seq(Byte)
      BY <2>2, <2>5, ConcatProperties DEF q
    <3>2. Len(Append(recvBuf, Head(line))) = Len(recvBuf) + 1 /\ Len(recvBuf) \in Nat
      BY <2>4, <3>1, OneMore
    <3> QED
      BY <2>2, <2>7, <3>2 DEF MinLen
  <2> QED
    BY <1>1, <1>2, <2>1, <2>3, <2>7, <2>8, NextByte
<1> QED
  BY <1>1, <1>4, <1>5
-----------------------------------------------------------------------------
LEMMA PacketStarts ==
    ASSUME line = <<>>, LineInv, NEW p \in Seq(Byte), IsFrame(p), Known(Message(p)),
           NEW h \in Garbage, line' = h \o p, due' = DueFor(p),
           UNCHANGED <<recvBuf, strange>>
    PROVE  LineInv'
<1>1. recvBuf = <<>> /\ ~strange
  BY DEF LineInv
<1>2. h \in Seq(NoHead)
  BY GarbageAssumption DEF NoHead
<1>3. recvBuf' \in Seq(NoHead) /\ Len(recvBuf') < MinLen
  BY <1>1, NoneOf DEF MinLen
<1>4. Before(p, recvBuf', line')
  BY <1>2, <1>3 DEF Before
<1>5. line' # <<>>
  <2>1. p # <<>> /\ h \in Seq(Byte)
    BY <1>2, NoHeadsAreBytes, EmptySeq DEF IsFrame, MinLen
  <2> QED
    BY <2>1, ConcatEqualIffEmpty, ConcatSimplifications
<1>6. \E r \in Seq(Byte) : /\ IsFrame(r) /\ Known(Message(r)) /\ due' = DueFor(r)
                           /\ Before(r, recvBuf', line') \/ Within(r, recvBuf', line')
  BY <1>4
<1> QED
  BY <1>1, <1>5, <1>6 DEF LineInv

LEMMA SendStep ==
    ASSUME LineInv, NEW cmd \in Commands, NEW data \in Seq(Byte), Len(data) <= MaxData,
           ReaderSends(cmd, data)
    PROVE  /\ LineInv' /\ line = <<>> /\ due = <<>>
           /\ due' \in {<<>>, <<[cmd |-> cmd, data |-> data]>>}
<1> DEFINE p == Packet(cmd, data)
           m == [cmd |-> cmd, data |-> data]
<1>1. line = <<>> /\ due = <<>>
  BY DEF ReaderSends, LineInv
<1>2. IsFrame(p) /\ Message(p) = m /\ p \in Seq(Byte)
  BY PacketIs DEF IsFrame
<1>3. m \in [cmd : Commands, data : Seq(Byte)] /\ m # NoMessage
  <2>1. m.cmd # NoMessage.cmd
    BY ZeroIsNoCommand DEF NoMessage
  <2> QED
    BY <2>1
<1> HIDE DEF p, m
<1>4. UNCHANGED <<recvBuf, strange>>
  BY DEF ReaderSends
<1>5. PICK h \in Garbage :
         \/ line' = h \o p /\ due' = Append(due, m)
         \/ \E k \in 3..Len(p), e \in Errors :
               line' = h \o [p EXCEPT ![k] = (@ + e) % Width] /\ due' = due
  BY DEF ReaderSends, p, m
<1>6. CASE line' = h \o p /\ due' = Append(due, m)
  <2>1. due' = <<m>>
    BY <1>1, <1>6
  <2>2. due' = DueFor(p) /\ Known(Message(p))
    BY <1>2, <1>3, <2>1 DEF DueFor, Known
  <2>3. LineInv'
    BY <1>1, <1>2, <1>4, <1>6, <2>2, PacketStarts
  <2> QED
    BY <1>1, <2>1, <2>3 DEF m
<1>7. CASE \E k \in 3..Len(p), e \in Errors :
              line' = h \o [p EXCEPT ![k] = (@ + e) % Width] /\ due' = due
  <2>1. PICK k \in 3..Len(p), e \in Errors :
               line' = h \o [p EXCEPT ![k] = (@ + e) % Width] /\ due' = due
    BY <1>7
  <2> DEFINE q == [p EXCEPT ![k] = (@ + e) % Width]
  <2>2. IsFrame(q) /\ Message(q) = NoMessage
    BY CorruptedIs DEF p
  <2> HIDE DEF q
  <2>3. due' = DueFor(q) /\ Known(Message(q)) /\ q \in Seq(Byte)
    BY <1>1, <2>1, <2>2 DEF DueFor, Known, IsFrame
  <2>4. line' = h \o q
    BY <2>1 DEF q
  <2>5. LineInv'
    BY <1>1, <1>4, <2>2, <2>3, <2>4, PacketStarts
  <2> QED
    BY <1>1, <2>1, <2>5
<1> QED
  BY <1>5, <1>6, <1>7

LEMMA LineTypes ==
    ASSUME LineInv
    PROVE  /\ line \in Seq(Byte) /\ recvBuf \in Seq(Byte)
           /\ due \in Seq([cmd : Commands, data : Seq(Byte)])
<1>1. CASE line = <<>>
  BY <1>1, NoneOf DEF LineInv
<1>2. CASE line # <<>>
  <2>1. PICK p \in Seq(Byte) : /\ IsFrame(p) /\ Known(Message(p)) /\ due = DueFor(p)
                               /\ Before(p, recvBuf, line) \/ Within(p, recvBuf, line)
    BY <1>2 DEF LineInv
  <2>2. due \in Seq([cmd : Commands, data : Seq(Byte)])
    <3> DEFINE S == [cmd : Commands, data : Seq(Byte)]
               m == Message(p)
    <3>1. due = IF m = NoMessage THEN <<>> ELSE <<m>>
      BY <2>1 DEF DueFor
    <3>2. m = NoMessage \/ m \in S
      BY <2>1 DEF Known
    <3> HIDE DEF S, m
    <3>3. due \in Seq(S)
      BY <3>1, <3>2
    <3> QED
      BY <3>3 DEF S
  <2>3. CASE Before(p, recvBuf, line)
    <3>1. PICK h \in Seq(NoHead) : recvBuf \in Seq(NoHead) /\ line = h \o p
      BY <2>3 DEF Before
    <3>2. recvBuf \in Seq(Byte) /\ h \in Seq(Byte)
      BY <3>1, NoHeadsAreBytes
    <3> QED
      BY <2>2, <3>1, <3>2, ConcatProperties
  <2>4. CASE Within(p, recvBuf, line)
    <3>1. PICK n \in 1..(Len(p) - 1) : Read(p, n, recvBuf) /\ line = SubSeq(p, n + 1, Len(p))
      BY <2>4 DEF Within
    <3>2. PICK g \in Seq(NoHead) : recvBuf = g \o SubSeq(p, 1, n)
      BY <3>1 DEF Read
    <3>3. Len(p) \in Nat /\ n \in 1..Len(p)
      BY <2>1 DEF IsFrame
    <3>4. g \in Seq(Byte) /\ SubSeq(p, 1, n) \in Seq(Byte)
      BY <2>1, <3>3, NoHeadsAreBytes, FirstBytes
    <3>5. SubSeq(p, n + 1, Len(p)) \in Seq(Byte)
      <4>1. n + 1 \in Int /\ Len(p) \in Int /\ \A i \in (n + 1)..Len(p) : p[i] \in Byte
        BY <3>3
      <4> QED
        BY <4>1, SubSeqProperties
    <3> QED
      BY <2>2, <3>1, <3>2, <3>4, <3>5, ConcatProperties
  <2> QED
    BY <2>1, <2>3, <2>4
<1> QED
  BY <1>1, <1>2
-----------------------------------------------------------------------------
(* The orders.  Nothing is written to the port but these. *)
IsOrder(r) == LET taken == TakenOf(r)
              IN  /\ r \in Seq(Byte)
                  /\ \/ taken.cmd = SetRegion /\ taken.data \in [1..3 -> Byte]
                     \/ taken.cmd = SetPower /\ taken.data \in [Antennas -> Byte]
                     \/ taken.cmd \in {GetRegion, GetPower}

Commanded(r, cmd) == TakenOf(r).cmd = cmd

LEMMA Triple ==
    ASSUME NEW d \in [1..3 -> Byte]
    PROVE  d \in Seq(Byte) /\ Len(d) = 3 /\ d # <<>> /\ d = <<d[1], d[2], d[3]>>
<1>1. d \in Seq(Byte)
  <2>1. 3 \in Nat /\ [i \in 1..3 |-> d[i]] = d /\ \A i \in 1..3 : d[i] \in Byte
    OBVIOUS
  <2>2. [i \in 1..3 |-> d[i]] \in Seq(Byte)
    BY <2>1
  <2> QED
    BY <2>1, <2>2
<1>2. Len(d) = 3
  <2>1. DOMAIN d = 1..3 /\ DOMAIN d = 1..Len(d) /\ Len(d) \in Nat
    BY <1>1, LenProperties
  <2> QED
    BY <2>1
<1>3. d # <<>>
  BY <1>2, NoneOf
<1>4. d = <<d[1], d[2], d[3]>>
  <2> DEFINE t == <<d[1], d[2], d[3]>>
  <2>1. d[1] \in Byte /\ d[2] \in Byte /\ d[3] \in Byte
    OBVIOUS
  <2>2. t \in Seq(Byte) /\ Len(t) = 3 /\ t[1] = d[1] /\ t[2] = d[2] /\ t[3] = d[3]
    BY <2>1
  <2> HIDE DEF t
  <2>3. \A i \in 1..Len(d) : d[i] = t[i]
    BY <1>2, <2>2
  <2>4. d = t
    BY <1>1, <1>2, <2>2, <2>3, SeqEqual
  <2> QED
    BY <2>4 DEF t
<1> QED
  BY <1>1, <1>2, <1>3, <1>4

LEMMA Four ==
    ASSUME NEW d \in [Antennas -> Byte]
    PROVE  d \in Seq(Byte) /\ Len(d) = 4
<1>1. d \in Seq(Byte)
  <2>1. 4 \in Nat /\ [i \in 1..4 |-> d[i]] = d /\ \A i \in 1..4 : d[i] \in Byte
    BY DEF Antennas
  <2>2. [i \in 1..4 |-> d[i]] \in Seq(Byte)
    BY <2>1
  <2> QED
    BY <2>1, <2>2
<1>2. DOMAIN d = 1..4 /\ DOMAIN d = 1..Len(d) /\ Len(d) \in Nat
  BY <1>1, LenProperties DEF Antennas
<1> QED
  BY <1>1, <1>2

LEMMA FrequenciesAre ==
    ASSUME NEW x \in Byte, NEW y \in Byte, NEW z \in Byte
    PROVE  Frequencies(x, y, z) \in [1..3 -> Byte]
<1>1. ETSI \in Byte /\ 0 \in Byte /\ 6 \in Byte
  BY LimitsAssumption, ByteAssumption DEF Byte, ETSI
<1> DEFINE inRange == y <= z /\ y <= MaxFrequency /\ z <= MaxFrequency
           a == IF Quantity < x THEN ETSI ELSE x
           b == IF inRange THEN y ELSE 0
           c == IF inRange THEN z ELSE 6
<1>2. a \in Byte /\ b \in Byte /\ c \in Byte
  BY <1>1
<1>3. Frequencies(x, y, z) = <<a, b, c>>
  BY DEF Frequencies
<1> HIDE DEF a, b, c
<1>4. <<a, b, c>> \in [1..3 -> Byte]
  BY <1>2
<1> QED
  BY <1>3, <1>4

LEMMA RegionOrder ==
    ASSUME NEW d \in [1..3 -> Byte]
    PROVE  /\ IsOrder(Request(SetRegion, d))
           /\ TakenOf(Request(SetRegion, d)) = [cmd |-> SetRegion, data |-> d]
<1>1. d \in Seq(Byte) /\ Len(d) <= MaxData
  <2>1. d \in Seq(Byte) /\ Len(d) = 3
    BY Triple
  <2> QED
    BY <2>1 DEF MaxData
<1>2. SetRegion \in Commands
  BY CommandsAssumption
<1>3. /\ Request(SetRegion, d) \in Seq(Byte)
      /\ TakenOf(Request(SetRegion, d)) = [cmd |-> SetRegion, data |-> d]
  BY <1>1, <1>2, RequestIs
<1> QED
  BY <1>3 DEF IsOrder

LEMMA PowerOrder ==
    ASSUME NEW d \in [Antennas -> Byte]
    PROVE  /\ IsOrder(Request(SetPower, d))
           /\ TakenOf(Request(SetPower, d)) = [cmd |-> SetPower, data |-> d]
<1>1. d \in Seq(Byte) /\ Len(d) <= MaxData
  <2>1. d \in Seq(Byte) /\ Len(d) = 4
    BY Four
  <2> QED
    BY <2>1 DEF MaxData
<1>2. SetPower \in Commands
  BY CommandsAssumption
<1>3. /\ Request(SetPower, d) \in Seq(Byte)
      /\ TakenOf(Request(SetPower, d)) = [cmd |-> SetPower, data |-> d]
  BY <1>1, <1>2, RequestIs
<1> QED
  BY <1>3 DEF IsOrder

LEMMA Question ==
    ASSUME NEW cmd \in {GetRegion, GetPower}
    PROVE  /\ IsOrder(Request(cmd, <<>>))
           /\ TakenOf(Request(cmd, <<>>)).cmd = cmd
<1>1. <<>> \in Seq(Byte) /\ Len(<<>>) <= MaxData
  BY NoneOf DEF MaxData
<1>2. cmd \in Commands
  BY CommandsAssumption
<1>3. /\ Request(cmd, <<>>) \in Seq(Byte)
      /\ TakenOf(Request(cmd, <<>>)) = [cmd |-> cmd, data |-> <<>>]
  BY <1>1, <1>2, RequestIs
<1> QED
  BY <1>3 DEF IsOrder

(* What execute adds to the requests q for the frequencies, and for the    *)
(* powers, of the server: what is in range is sent as it is.               *)
Sends(q, q2, cmd, d) == \E r : /\ IsOrder(r) /\ TakenOf(r) = [cmd |-> cmd, data |-> d]
                               /\ q2 = Append(q, r)

LEMMA SendsRegion ==
    ASSUME NEW q \in Seq(Seq(Byte)), NEW c \in Configurations, c.region # <<>>
    PROVE  \E d \in [1..3 -> Byte] : /\ Sends(q, q \o ExecuteRegion(c.region), SetRegion, d)
                                     /\ InRange(c) => d = c.region /\ Valid(SetRegion, d)
<1> DEFINE b == c.region
           d == Frequencies(b[1], b[2], b[3])
           r == Request(SetRegion, d)
<1>1. b \in [1..3 -> Byte]
  BY ConfigurationsAssumption
<1>2. b[1] \in Byte /\ b[2] \in Byte /\ b[3] \in Byte
  BY <1>1
<1>3. d \in [1..3 -> Byte]
  BY <1>2, FrequenciesAre
<1>4. IsOrder(r) /\ TakenOf(r) = [cmd |-> SetRegion, data |-> d]
  BY <1>3, RegionOrder
<1>5. ExecuteRegion(b) = <<r>>
  <2>1. Len(b) = 3
    BY <1>1, Triple
  <2> QED
    BY <2>1 DEF ExecuteRegion
<1>6. q \o <<r>> = Append(q, r)
  <2>1. r \in Seq(Byte)
    BY <1>4 DEF IsOrder
  <2> HIDE DEF r
  <2> QED
    BY <2>1, AppendIsConcat
<1>7. Sends(q, q \o ExecuteRegion(b), SetRegion, d)
  BY <1>4, <1>5, <1>6 DEF Sends
<1>8. ASSUME InRange(c) PROVE d = b /\ Valid(SetRegion, d)
  <2>1. b[1] \in 1..3 /\ b[2] <= b[3] /\ b[3] <= MaxFrequency
    BY <1>8 DEF InRange
  <2>2. b[2] <= MaxFrequency
    <3>1. b[2] \in Nat /\ b[3] \in Nat /\ MaxFrequency \in Nat
      BY <1>2, LimitsAssumption, ByteAssumption DEF Byte
    <3> QED
      BY <2>1, <3>1
  <2>3. ~(Quantity < b[1])
    BY <2>1 DEF Quantity
  <2>4. d = <<b[1], b[2], b[3]>>
    BY <2>1, <2>2, <2>3 DEF Frequencies
  <2>5. d = b
    BY <1>1, <2>4, Triple
  <2>6. Len(b) = 3
    BY <1>1, Triple
  <2> HIDE DEF d, b
  <2> QED
    BY <2>1, <2>5, <2>6 DEF Valid
<1> QED
  BY <1>3, <1>7, <1>8

LEMMA NoRegion == ASSUME NEW q \in Seq(Seq(Byte)) PROVE q \o ExecuteRegion(<<>>) = q
<1> DEFINE l == Len(<<>>)
<1>1. l = 0
  OBVIOUS
<1> HIDE DEF l
<1>2. ~(l = 3) /\ ~(l = 2)
  BY <1>1
<1>3. ExecuteRegion(<<>>) = <<>>
  BY <1>2 DEF ExecuteRegion, l
<1> QED
  BY <1>3, ConcatEmptySeq

LEMMA NoPowers ==
    ASSUME NEW q \in Seq(Seq(Byte)), NEW c \in Configurations, Len(c.powers) \notin {1, 4}
    PROVE  q \o ExecutePowers(c.powers) = q
<1>1. ExecutePowers(c.powers) = <<>>
  BY DEF ExecutePowers
<1> QED
  BY <1>1, ConcatEmptySeq

LEMMA SpreadIs ==
    ASSUME NEW b \in Seq(Byte), Len(b) \in {1, 4}
    PROVE  Spread(b) \in [Antennas -> Byte] /\ \A a \in Antennas : \E k \in DOMAIN b : Spread(b)[a] = b[k]
<1>1. DOMAIN b = 1..Len(b)
  BY LenProperties
<1>2. ASSUME NEW a \in Antennas
      PROVE  \E k \in DOMAIN b : /\ (IF Len(b) = 1 THEN b[1] ELSE b[a]) = b[k]
                                 /\ b[k] \in Byte
  <2>1. CASE Len(b) = 1
    <3>1. 1 \in DOMAIN b /\ b[1] \in Byte
      BY <1>1, <2>1
    <3> QED
      BY <2>1, <3>1
  <2>2. CASE Len(b) = 4
    <3>1. a \in DOMAIN b /\ b[a] \in Byte
      BY <1>1, <2>2 DEF Antennas
    <3> QED
      BY <2>2, <3>1
  <2> QED
    BY <2>1, <2>2
<1> QED
  BY <1>2 DEF Spread

LEMMA SendsPowers ==
    ASSUME NEW q \in Seq(Seq(Byte)), NEW c \in Configurations, Len(c.powers) \in {1, 4}
    PROVE  \E d \in [Antennas -> Byte] :
              /\ Sends(q, q \o ExecutePowers(c.powers), SetPower, d)
              /\ InRange(c) => d = Spread(c.powers) /\ Valid(SetPower, d)
<1> DEFINE b == Spread(c.powers)
           d == Powers(b)
           r == Request(SetPower, d)
<1>1. /\ b \in [Antennas -> Byte]
      /\ \A a \in Antennas : \E k \in DOMAIN c.powers : b[a] = c.powers[k]
  BY ConfigurationsAssumption, SpreadIs
<1>2. d \in [Antennas -> Byte]
  <2>1. 0 \in Byte
    BY ByteAssumption DEF Byte
  <2> HIDE DEF b
  <2> QED
    BY <1>1, <2>1 DEF Powers
<1>3. IsOrder(r) /\ TakenOf(r) = [cmd |-> SetPower, data |-> d]
  BY <1>2, PowerOrder
<1>4. ExecutePowers(c.powers) = <<r>>
  BY DEF ExecutePowers
<1>5. q \o <<r>> = Append(q, r)
  <2>1. r \in Seq(Byte)
    BY <1>3 DEF IsOrder
  <2> HIDE DEF r
  <2> QED
    BY <2>1, AppendIsConcat
<1>6. Sends(q, q \o ExecutePowers(c.powers), SetPower, d)
  BY <1>3, <1>4, <1>5 DEF Sends
<1>7. ASSUME InRange(c) PROVE d = b /\ Valid(SetPower, d)
  <2>1. \A k \in DOMAIN c.powers : c.powers[k] <= MaxPower
    BY <1>7 DEF InRange
  <2>2. \A a \in Antennas : b[a] <= MaxPower
    BY <1>1, <2>1
  <2> HIDE DEF b
  <2>3. d = b
    BY <1>1, <2>2 DEF Powers
  <2>4. Len(d) = 4
    BY <1>2, Four
  <2>5. SetPower # SetRegion
    BY CommandsAssumption
  <2> HIDE DEF d
  <2> QED
    BY <2>2, <2>3, <2>4, <2>5 DEF Valid
<1> QED
  BY <1>2, <1>6, <1>7
-----------------------------------------------------------------------------
(* The last request of a command among q carries want; if there is none,   *)
(* the reader has it.                                                      *)
Carries(q, cmd, want, have) ==
    /\ \A k \in 1..Len(q) :
          /\ Commanded(q[k], cmd)
          /\ \A j \in (k + 1)..Len(q) : ~Commanded(q[j], cmd)
          => TakenOf(q[k]).data = want
    /\ (\A k \in 1..Len(q) : ~Commanded(q[k], cmd)) => have = want

LEMMA CarriesSent ==
    ASSUME NEW q \in Seq(Seq(Byte)), NEW r \in Seq(Byte), NEW cmd, NEW have,
           Commanded(r, cmd)
    PROVE  Carries(Append(q, r), cmd, TakenOf(r).data, have)
<1> DEFINE s == Append(q, r)
<1>1. /\ Len(q) \in Nat /\ Len(s) = Len(q) + 1
      /\ \A k \in 1..Len(q) : s[k] = q[k]
      /\ s[Len(q) + 1] = r
  BY OneMore
<1> HIDE DEF s
<1>2. Len(s) \in 1..Len(s) /\ Commanded(s[Len(s)], cmd) /\ s[Len(s)] = r
  BY <1>1
<1>3. \A k \in 1..Len(s) : k = Len(s) \/ Len(s) \in (k + 1)..Len(s)
  BY <1>1
<1> QED
  BY <1>2, <1>3 DEF Carries, s

LEMMA CarriesOther ==
    ASSUME NEW q \in Seq(Seq(Byte)), NEW r \in Seq(Byte), NEW cmd, NEW want, NEW have,
           ~Commanded(r, cmd), Carries(q, cmd, want, have)
    PROVE  Carries(Append(q, r), cmd, want, have)
<1> DEFINE s == Append(q, r)
<1>1. /\ Len(q) \in Nat /\ Len(s) = Len(q) + 1
      /\ \A k \in 1..Len(q) : s[k] = q[k]
      /\ s[Len(q) + 1] = r
  BY OneMore
<1> HIDE DEF s
<1>2. ASSUME NEW k \in 1..Len(s), Commanded(s[k], cmd),
             \A j \in (k + 1)..Len(s) : ~Commanded(s[j], cmd)
      PROVE  TakenOf(s[k]).data = want
  <2>1. k \in 1..Len(q)
    BY <1>1, <1>2
  <2>2. s[k] = q[k]
    BY <1>1, <2>1
  <2>3. ASSUME NEW j \in (k + 1)..Len(q) PROVE ~Commanded(q[j], cmd)
    <3>1. j \in (k + 1)..Len(s) /\ j \in 1..Len(q)
      BY <1>1, <2>1
    <3> QED
      BY <1>1, <1>2, <3>1
  <2> QED
    BY <1>2, <2>1, <2>2, <2>3 DEF Carries
<1>3. ASSUME \A k \in 1..Len(s) : ~Commanded(s[k], cmd) PROVE have = want
  <2>1. ASSUME NEW k \in 1..Len(q) PROVE ~Commanded(q[k], cmd)
    <3>1. k \in 1..Len(s)
      BY <1>1
    <3> QED
      BY <1>1, <1>3, <3>1
  <2> QED
    BY <2>1 DEF Carries
<1> QED
  BY <1>2, <1>3 DEF Carries, s

LEMMA CarriesTaken ==
    ASSUME NEW q \in Seq(Seq(Byte)), q # <<>>, NEW cmd, NEW want, NEW have, NEW next,
           Carries(q, cmd, want, have),
           next = IF Commanded(Head(q), cmd) THEN TakenOf(Head(q)).data ELSE have
    PROVE  Carries(Tail(q), cmd, want, next)
<1> DEFINE s == Tail(q)
<1>1. /\ Len(q) \in Nat \ {0} /\ Len(s) = Len(q) - 1
      /\ \A k \in 1..Len(s) : s[k] = q[k + 1]
      /\ Head(q) = q[1]
  BY EmptySeq, HeadTailProperties
<1> HIDE DEF s
<1>2. ASSUME NEW k \in 1..Len(s), Commanded(s[k], cmd),
             \A j \in (k + 1)..Len(s) : ~Commanded(s[j], cmd)
      PROVE  TakenOf(s[k]).data = want
  <2>1. k + 1 \in 1..Len(q) /\ s[k] = q[k + 1]
    BY <1>1
  <2>2. ASSUME NEW j \in (k + 1 + 1)..Len(q) PROVE ~Commanded(q[j], cmd)
    <3>1. j - 1 \in (k + 1)..Len(s) /\ j - 1 \in 1..Len(s) /\ j - 1 + 1 = j
      BY <1>1
    <3>2. s[j - 1] = q[j]
      BY <1>1, <3>1
    <3> QED
      BY <1>2, <3>1, <3>2
  <2> QED
    BY <1>2, <2>1, <2>2 DEF Carries
<1>3. ASSUME \A k \in 1..Len(s) : ~Commanded(s[k], cmd) PROVE next = want
  <2>1. ASSUME NEW j \in 2..Len(q) PROVE ~Commanded(q[j], cmd)
    <3>1. j - 1 \in 1..Len(s) /\ j - 1 + 1 = j
      BY <1>1
    <3>2. s[j - 1] = q[j]
      BY <1>1, <3>1
    <3> QED
      BY <1>3, <3>1, <3>2
  <2>2. 1 \in 1..Len(q) /\ \A k \in 1..Len(q) : k = 1 \/ k \in 2..Len(q)
    BY <1>1
  <2>3. CASE Commanded(q[1], cmd)
    <3>1. TakenOf(q[1]).data = want
      <4>1. \A j \in (1 + 1)..Len(q) : ~Commanded(q[j], cmd)
        <5>1. 1 + 1 = 2
          OBVIOUS
        <5> QED
          BY <2>1, <5>1
      <4> QED
        BY <2>2, <2>3, <4>1 DEF Carries
    <3> QED
      BY <1>1, <2>3, <3>1
  <2>4. CASE ~Commanded(q[1], cmd)
    <3>1. \A k \in 1..Len(q) : ~Commanded(q[k], cmd)
      BY <2>1, <2>2, <2>4
    <3> QED
      BY <1>1, <2>4, <3>1 DEF Carries
  <2> QED
    BY <2>3, <2>4
<1> QED
  BY <1>2, <1>3 DEF Carries, s
-----------------------------------------------------------------------------
(* The inductive invariant: the line is as LineInv says, nothing but       *)
(* orders is written to the port, and what is known of the reader's        *)
(* settings, or under way from it, it has had.                             *)
ReaderSettings == [region : [1..3 -> Byte], powers : [Antennas -> Byte]]
Questions == {GetRegion, GetPower}

PowersOf(data) == [a \in Antennas |-> data[1]]

RegionOf(region, known) == \E s \in known : region = s.region
PowersIn(powers, known) == \E s \in known : powers = s.powers

Told(msg, known) ==
    /\ msg.cmd = GetRegion => msg.data \in [1..3 -> Byte] /\ RegionOf(msg.data, known)
    /\ msg.cmd = GetPower /\ Len(msg.data) = 1
         => PowersOf(msg.data) \in [Antennas -> Byte] /\ PowersIn(PowersOf(msg.data), known)

OrdersInv == /\ requests \in Seq(Seq(Byte))
             /\ \A k \in 1..Len(requests) : IsOrder(requests[k])

TypeInv == /\ message \in [cmd : Commands \cup {0}, data : Seq(Byte)]
           /\ strange \in BOOLEAN
           /\ reader \in ReaderSettings /\ wanted \in ReaderSettings
           /\ antSets \in Settings /\ report \in Settings
           /\ storing \in BOOLEAN
           /\ ws \in {"idle", "region", "askPower", "power", "report"}
           /\ asked \in 0..MaxRequests
           /\ kept \in BOOLEAN /\ late \in BOOLEAN

PastInv == /\ reader \in past
           /\ RegionOf(antSets.region, past \cup {Blank})
           /\ PowersIn(antSets.powers, past \cup {Blank})
           /\ due # <<>> => Told(Head(due), past)
           /\ storing => message.cmd \in Questions /\ Told(message, past)
           /\ NothingIsInvented

IInv == LineInv /\ OrdersInv /\ TypeInv /\ PastInv

LEMMA CommandsDiffer ==
    /\ {SetRegion, GetRegion, SetPower, GetPower} \subseteq Commands
    /\ SetRegion # GetRegion /\ SetRegion # SetPower /\ SetRegion # GetPower
    /\ GetRegion # SetPower /\ GetRegion # GetPower /\ SetPower # GetPower
    /\ SetRegion # 0 /\ GetRegion # 0 /\ SetPower # 0 /\ GetPower # 0
<1>1. {SetRegion, GetRegion, SetPower, GetPower} \subseteq Commands
      /\ SetRegion # GetRegion /\ SetPower # GetPower
  BY CommandsAssumption
<1>2. {SetRegion, GetRegion} \cap {SetPower, GetPower} = {}
  BY CommandsAssumption
<1>3. SetRegion # SetPower /\ SetRegion # GetPower /\ GetRegion # SetPower /\ GetRegion # GetPower
  BY <1>2
<1>4. SetRegion # 0 /\ GetRegion # 0 /\ SetPower # 0 /\ GetPower # 0
  BY <1>1, ZeroIsNoCommand
<1> QED
  BY <1>1, <1>3, <1>4

LEMMA FirstOrder ==
    ASSUME OrdersInv, requests # <<>>
    PROVE  /\ Head(requests) = requests[1] /\ IsOrder(requests[1])
           /\ Taken = TakenOf(requests[1])
           /\ Tail(requests) \in Seq(Seq(Byte))
           /\ Len(requests) \in Nat \ {0} /\ Len(Tail(requests)) = Len(requests) - 1
           /\ \A k \in 1..Len(Tail(requests)) : /\ Tail(requests)[k] = requests[k + 1]
                                                /\ IsOrder(Tail(requests)[k])
<1>1. requests \in Seq(Seq(Byte)) /\ Len(requests) \in Nat \ {0}
  BY EmptySeq DEF OrdersInv
<1>2. /\ Tail(requests) \in Seq(Seq(Byte)) /\ Len(Tail(requests)) = Len(requests) - 1
      /\ \A k \in 1..Len(Tail(requests)) : Tail(requests)[k] = requests[k + 1]
  BY <1>1, HeadTailProperties
<1>3. Head(requests) = requests[1]
  BY <1>1
<1>4. 1 \in 1..Len(requests)
      /\ \A k \in 1..Len(Tail(requests)) : k + 1 \in 1..Len(requests)
  BY <1>1, <1>2
<1> QED
  BY <1>1, <1>2, <1>3, <1>4 DEF OrdersInv, Taken, TakenOf

LEMMA OneMoreOrder ==
    ASSUME NEW q \in Seq(Seq(Byte)), \A k \in 1..Len(q) : IsOrder(q[k]), NEW r, IsOrder(r)
    PROVE  /\ Append(q, r) \in Seq(Seq(Byte))
           /\ \A k \in 1..Len(Append(q, r)) : IsOrder(Append(q, r)[k])
<1>0. r \in Seq(Byte)
  BY DEF IsOrder
<1> DEFINE s == Append(q, r)
<1>1. /\ s \in Seq(Seq(Byte)) /\ Len(q) \in Nat /\ Len(s) = Len(q) + 1
      /\ \A k \in 1..Len(q) : s[k] = q[k]
      /\ s[Len(q) + 1] = r
  BY <1>0, OneMore
<1> HIDE DEF s
<1>2. \A k \in 1..Len(s) : k \in 1..Len(q) \/ k = Len(q) + 1
  BY <1>1
<1> QED
  BY <1>1, <1>2 DEF s

(* What the reader does with a request, and what it answers. *)
ReaderDoes(cmd, data) ==
    /\ cmd \in Commands /\ data \in Seq(Byte) /\ Len(data) <= MaxData
    /\ Taken.cmd = cmd /\ ReaderSends(cmd, data)
    /\ \/ /\ cmd = SetRegion /\ Valid(SetRegion, Taken.data)
          /\ reader' = [reader EXCEPT !.region = Taken.data]
          /\ past' = past \cup {reader'}
       \/ /\ cmd = SetPower /\ Valid(SetPower, Taken.data)
          /\ reader' = [reader EXCEPT !.powers = Taken.data]
          /\ past' = past \cup {reader'}
       \/ /\ cmd \in {SetRegion, SetPower} /\ ~Valid(cmd, Taken.data)
          /\ UNCHANGED <<reader, past>>
       \/ /\ cmd = GetRegion /\ data = reader.region
          /\ UNCHANGED <<reader, past>>
       \/ /\ cmd = GetPower
          /\ IF Uniform(reader.powers) THEN data = <<reader.powers[1]>> ELSE Len(data) = 4
          /\ UNCHANGED <<reader, past>>

LEMMA ReaderIs ==
    ASSUME TypeInv, OrdersInv, ReaderAnswers
    PROVE  /\ \E cmd, data : ReaderDoes(cmd, data)
           /\ requests # <<>> /\ requests' = Tail(requests)
           /\ UNCHANGED <<message, antSets, storing, ws, report, asked, wanted, kept, late>>
<1>1. /\ requests # <<>> /\ requests' = Tail(requests)
      /\ UNCHANGED <<antSets, storing, ws, report, asked, wanted, kept, late>>
  BY DEF ReaderAnswers
<1>2. reader.region \in [1..3 -> Byte] /\ reader.powers \in [Antennas -> Byte]
  BY DEF TypeInv, ReaderSettings
<1>3. UNCHANGED message
  BY DEF ReaderAnswers, ReaderSets, ReaderTells, ReaderSends
<1>4. CASE ReaderSets
  <2>1. PICK cmd \in {SetRegion, SetPower} :
           /\ Taken.cmd = cmd
           /\ IF Valid(cmd, Taken.data)
                THEN /\ Become(IF cmd = SetRegion
                                 THEN [reader EXCEPT !.region = Taken.data]
                                 ELSE [reader EXCEPT !.powers = Taken.data])
                     /\ ReaderSends(cmd, <<Success>>)
                ELSE ReaderSends(cmd, <<Fail>>) /\ UNCHANGED <<reader, past>>
    BY <1>4 DEF ReaderSets
  <2>2. /\ <<Success>> \in Seq(Byte) /\ Len(<<Success>>) <= MaxData
        /\ <<Fail>> \in Seq(Byte) /\ Len(<<Fail>>) <= MaxData
    BY LimitsAssumption DEF MaxData
  <2>3. cmd \in Commands
    BY CommandsDiffer
  <2>4. CASE Valid(cmd, Taken.data)
    <3>1. CASE cmd = SetRegion
      <4>1. Become([reader EXCEPT !.region = Taken.data]) /\ ReaderSends(cmd, <<Success>>)
        BY <2>1, <2>4, <3>1
      <4>2. ReaderDoes(cmd, <<Success>>)
        BY <2>1, <2>2, <2>3, <2>4, <3>1, <4>1 DEF ReaderDoes, Become
      <4> QED
        BY <1>1, <1>3, <4>2
    <3>2. CASE cmd # SetRegion
      <4>1. Become([reader EXCEPT !.powers = Taken.data]) /\ ReaderSends(cmd, <<Success>>)
            /\ cmd = SetPower
        BY <2>1, <2>4, <3>2
      <4>2. ReaderDoes(cmd, <<Success>>)
        BY <2>1, <2>2, <2>3, <2>4, <4>1 DEF ReaderDoes, Become
      <4> QED
        BY <1>1, <1>3, <4>2
    <3> QED
      BY <3>1, <3>2
  <2>5. CASE ~Valid(cmd, Taken.data)
    <3>1. ReaderDoes(cmd, <<Fail>>)
      BY <2>1, <2>2, <2>3, <2>5 DEF ReaderDoes
    <3> QED
      BY <1>1, <1>3, <3>1
  <2> QED
    BY <2>4, <2>5
<1>5. CASE ReaderTells
  <2>1. CASE Taken.cmd = GetRegion /\ ReaderSends(GetRegion, reader.region)
    <3>1. reader.region \in Seq(Byte) /\ Len(reader.region) = 3
      BY <1>2, Triple
    <3>2. Len(reader.region) <= MaxData
      BY <3>1 DEF MaxData
    <3>3. ReaderDoes(GetRegion, reader.region)
      BY <1>5, <2>1, <3>1, <3>2, CommandsDiffer DEF ReaderDoes, ReaderTells
    <3> QED
      BY <1>1, <1>3, <3>3
  <2>2. CASE /\ Taken.cmd = GetPower
             /\ ReaderSends(GetPower, IF Uniform(reader.powers) THEN <<reader.powers[1]>>
                                                                ELSE reader.powers)
    <3> DEFINE data == IF Uniform(reader.powers) THEN <<reader.powers[1]>> ELSE reader.powers
    <3>1. reader.powers \in Seq(Byte) /\ Len(reader.powers) = 4
      BY <1>2, Four
    <3>2. reader.powers[1] \in Byte
      BY <1>2 DEF Antennas
    <3>3. /\ data \in Seq(Byte) /\ Len(data) <= MaxData
          /\ ~Uniform(reader.powers) => Len(data) = 4
      <4>1. CASE Uniform(reader.powers)
        <5> DEFINE x == reader.powers[1]
        <5>1. x \in Byte /\ data = <<x>>
          BY <3>2, <4>1
        <5> HIDE DEF x, data
        <5> QED
          BY <4>1, <5>1 DEF MaxData
      <4>2. CASE ~Uniform(reader.powers)
        <5>1. data = reader.powers
          BY <4>2
        <5> HIDE DEF data
        <5>2. data \in Seq(Byte) /\ Len(data) = 4
          BY <3>1, <5>1, Zenon
        <5> QED
          BY <5>2 DEF MaxData
      <4> QED
        BY <4>1, <4>2
    <3>4. Uniform(reader.powers) => data = <<reader.powers[1]>>
      OBVIOUS
    <3>5. ReaderSends(GetPower, data)
      BY <2>2
    <3> HIDE DEF data
    <3>6. ReaderDoes(GetPower, data)
      BY <1>5, <2>2, <3>3, <3>4, <3>5, CommandsDiffer DEF ReaderDoes, ReaderTells
    <3> QED
      BY <1>1, <1>3, <3>6
  <2> QED
    BY <1>5, <2>1, <2>2 DEF ReaderTells
<1> QED
  BY <1>4, <1>5 DEF ReaderAnswers

(* What the serial thread does with a byte. *)
SerialDoes ==
    /\ ~storing /\ storing' = (message'.cmd \in Questions)
    /\ \/ message'.cmd \notin Questions /\ (due' = due \/ due' = <<>>)
       \/ message'.cmd \in Questions /\ due = <<message'>> /\ due' = <<>>

LEMMA SerialIs ==
    ASSUME IInv, RunSerial
    PROVE  /\ LineInv' /\ SerialDoes
           /\ message' \in [cmd : Commands \cup {0}, data : Seq(Byte)]
           /\ strange' \in BOOLEAN
           /\ UNCHANGED <<requests, reader, antSets, ws, report, asked,
                          wanted, kept, late, past>>
<1>1. LineInv' /\ Handled
  BY ByteStep DEF IInv, RunSerial
<1>2. UNCHANGED <<requests, reader, antSets, ws, report, asked, wanted, kept, late, past>>
  BY DEF RunSerial, history
<1>3. strange' \in BOOLEAN
  BY DEF RunSerial, OnByte, IInv, TypeInv
<1>4. ~storing /\ storing' = (message'.cmd \in Questions)
  BY DEF RunSerial, Questions
<1>5. CASE message' = NoMessage /\ due' = due
  <2>1. message'.cmd = 0 /\ message' \in [cmd : Commands \cup {0}, data : Seq(Byte)]
    BY <1>5, NoneOf DEF NoMessage
  <2>2. message'.cmd \notin Questions
    BY <2>1, CommandsDiffer DEF Questions
  <2> QED
    BY <1>1, <1>2, <1>3, <1>4, <1>5, <2>1, <2>2 DEF SerialDoes
<1>6. CASE message' # NoMessage /\ Known(message') /\ due = <<message'>> /\ due' = <<>>
  <2>1. message' \in [cmd : Commands, data : Seq(Byte)]
    BY <1>6 DEF Known
  <2>2. message' \in [cmd : Commands \cup {0}, data : Seq(Byte)]
    BY <2>1
  <2> QED
    BY <1>1, <1>2, <1>3, <1>4, <1>6, <2>2 DEF SerialDoes
<1> QED
  BY <1>1, <1>5, <1>6 DEF Handled

(* What the answer that is being stored makes of _ant_sets. *)
LEMMA DecodedIs ==
    ASSUME IInv, storing
    PROVE  \/ /\ message.cmd = GetRegion /\ Told(message, past)
              /\ message.data \in [1..3 -> Byte]
              /\ Decoded = [antSets EXCEPT !.region = message.data]
           \/ /\ message.cmd = GetPower /\ Told(message, past)
              /\ Decoded = IF Len(message.data) = 1
                             THEN [antSets EXCEPT !.powers = PowersOf(message.data)]
                             ELSE antSets
<1>1. message.cmd \in Questions /\ Told(message, past)
  BY DEF IInv, PastInv
<1>2. CASE message.cmd = GetRegion
  <2>1. message.data \in [1..3 -> Byte]
    BY <1>1, <1>2 DEF Told
  <2>2. Len(message.data) = 3
    BY <2>1, Triple
  <2>3. Decoded = [antSets EXCEPT !.region = message.data]
    BY <1>2, <2>2 DEF Decoded, OnGetFrequencyRegion
  <2> QED
    BY <1>1, <1>2, <2>1, <2>3
<1>3. CASE message.cmd = GetPower
  <2>1. message.cmd # GetRegion
    BY <1>3, CommandsDiffer
  <2>2. Decoded = IF Len(message.data) = 1
                    THEN [antSets EXCEPT !.powers = PowersOf(message.data)]
                    ELSE antSets
    BY <2>1 DEF Decoded, OnGetOutputPower, PowersOf
  <2> QED
    BY <1>1, <1>3, <2>2
<1> QED
  BY <1>1, <1>2, <1>3 DEF Questions

LEMMA DecodedReal ==
    ASSUME IInv, storing
    PROVE  /\ Decoded \in Settings
           /\ RegionOf(Decoded.region, past \cup {Blank})
           /\ PowersIn(Decoded.powers, past \cup {Blank})
<1>1. /\ antSets \in Settings
      /\ antSets.region \in [1..3 -> Byte \cup {Unread}]
      /\ antSets.powers \in [Antennas -> Byte \cup {Unread}]
      /\ RegionOf(antSets.region, past \cup {Blank})
      /\ PowersIn(antSets.powers, past \cup {Blank})
  BY DEF IInv, TypeInv, PastInv, Settings
<1>2. CASE Decoded = antSets
  BY <1>1, <1>2
<1>3. CASE /\ message.cmd = GetRegion /\ Told(message, past)
           /\ Decoded = [antSets EXCEPT !.region = message.data]
  <2>1. message.data \in [1..3 -> Byte] /\ RegionOf(message.data, past)
    BY <1>3 DEF Told
  <2>2. message.data \in [1..3 -> Byte \cup {Unread}]
    BY <2>1
  <2>3. RegionOf(message.data, past \cup {Blank})
    BY <2>1 DEF RegionOf
  <2>4. Decoded \in Settings
    BY <1>1, <1>3, <2>2 DEF Settings
  <2>5. Decoded.region = message.data /\ Decoded.powers = antSets.powers
    BY <1>1, <1>3 DEF Settings
  <2> QED
    BY <1>1, <2>3, <2>4, <2>5
<1>4. CASE /\ message.cmd = GetPower /\ Told(message, past) /\ Len(message.data) = 1
           /\ Decoded = [antSets EXCEPT !.powers = PowersOf(message.data)]
  <2> DEFINE p == PowersOf(message.data)
  <2>1. p \in [Antennas -> Byte] /\ PowersIn(p, past)
    BY <1>4 DEF Told
  <2>2. Decoded = [antSets EXCEPT !.powers = p]
    BY <1>4
  <2> HIDE DEF p
  <2>3. p \in [Antennas -> Byte \cup {Unread}]
    BY <2>1
  <2>4. PowersIn(p, past \cup {Blank})
    BY <2>1 DEF PowersIn
  <2>5. Decoded \in Settings
    BY <1>1, <2>2, <2>3 DEF Settings
  <2>6. Decoded.powers = p /\ Decoded.region = antSets.region
    BY <1>1, <2>2 DEF Settings
  <2> QED
    BY <1>1, <2>4, <2>5, <2>6
<1> QED
  BY <1>2, <1>3, <1>4, DecodedIs

LEMMA CopiesAre ==
    ASSUME NEW D, NEW V, NEW f \in [D -> V], NEW g \in [D -> V], NEW h \in Copies(f, g)
    PROVE  h \in [D -> V] /\ \A k \in D : h[k] \in {f[k], g[k]}
<1>1. PICK stored \in SUBSET D : h = [k \in D |-> IF k \in stored THEN g[k] ELSE f[k]]
  BY DEF Copies
<1> QED
  BY <1>1
-----------------------------------------------------------------------------
LEMMA InitIInv == SettingsInit => IInv
<1> SUFFICES ASSUME SettingsInit PROVE IInv
  OBVIOUS
<1> DEFINE r0 == <<ETSI, 0, 6>>
           p0 == [a \in Antennas |-> 0]
<1>1. /\ line = <<>> /\ recvBuf = <<>> /\ message = NoMessage /\ due = <<>> /\ strange = FALSE
      /\ requests = <<>> /\ reader = [region |-> r0, powers |-> p0]
      /\ antSets = Blank /\ storing = FALSE
      /\ ws = "idle" /\ report = Blank /\ asked = 0
      /\ wanted = [region |-> r0, powers |-> p0]
      /\ kept = TRUE /\ late = FALSE /\ past = {reader}
  BY DEF SettingsInit, ParserInit, Initially
<1>2. r0 \in [1..3 -> Byte] /\ p0 \in [Antennas -> Byte]
  <2>1. ETSI \in Byte /\ 0 \in Byte /\ 6 \in Byte
    BY LimitsAssumption, ByteAssumption DEF Byte, ETSI
  <2> QED
    BY <2>1
<1> HIDE DEF r0, p0
<1>3. LineInv
  BY <1>1 DEF LineInv
<1>4. OrdersInv
  <2>1. requests \in Seq(Seq(Byte)) /\ Len(requests) = 0
    BY <1>1, NoneOf
  <2>2. 1..Len(requests) = {}
    BY <2>1
  <2> QED
    BY <2>1, <2>2 DEF OrdersInv
<1>5. TypeInv
  <2>1. message \in [cmd : Commands \cup {0}, data : Seq(Byte)]
    BY <1>1, NoneOf DEF NoMessage
  <2>2. [region |-> r0, powers |-> p0] \in ReaderSettings
    BY <1>2 DEF ReaderSettings
  <2>3. Blank \in Settings
    BY DEF Blank, Settings
  <2>4. asked \in 0..MaxRequests
    BY <1>1, MaxRequestsAssumption
  <2> QED
    BY <1>1, <2>1, <2>2, <2>3, <2>4 DEF TypeInv
<1>6. PastInv
  <2>1. RegionOf(antSets.region, past \cup {Blank}) /\ PowersIn(antSets.powers, past \cup {Blank})
    BY <1>1, Zenon DEF RegionOf, PowersIn
  <2>2. NothingIsInvented
    <3>1. Blank \in past \cup {Blank}
      OBVIOUS
    <3>2. /\ \A k \in 1..3 : report.region[k] \in {Blank.region[k], Blank.region[k]}
          /\ \A a \in Antennas : report.powers[a] \in {Blank.powers[a], Blank.powers[a]}
      BY <1>1
    <3> QED
      BY <3>1, <3>2, Zenon DEF NothingIsInvented
  <2> QED
    BY <1>1, <2>1, <2>2 DEF PastInv
<1> QED
  BY <1>3, <1>4, <1>5, <1>6 DEF IInv

(* The configuration: orders are written, in bytes. *)
LEMMA ConfigureOrders ==
    ASSUME OrdersInv, NEW c \in Configurations, Configure(c)
    PROVE  OrdersInv'
<1> DEFINE q1 == requests \o ExecuteRegion(c.region)
           q2 == q1 \o ExecutePowers(c.powers)
<1>1. requests \in Seq(Seq(Byte)) /\ \A k \in 1..Len(requests) : IsOrder(requests[k])
  BY DEF OrdersInv
<1>2. q1 \in Seq(Seq(Byte)) /\ \A k \in 1..Len(q1) : IsOrder(q1[k])
  <2>1. CASE c.region = <<>>
    BY <1>1, <2>1, NoRegion
  <2>2. CASE c.region # <<>>
    <3>1. PICK d \in [1..3 -> Byte] : Sends(requests, q1, SetRegion, d)
      BY <1>1, <2>2, SendsRegion
    <3>2. PICK r : IsOrder(r) /\ q1 = Append(requests, r)
      BY <3>1 DEF Sends
    <3> QED
      BY <1>1, <3>2, OneMoreOrder
  <2> QED
    BY <2>1, <2>2
<1> HIDE DEF q1
<1>3. q2 \in Seq(Seq(Byte)) /\ \A k \in 1..Len(q2) : IsOrder(q2[k])
  <2>1. CASE Len(c.powers) \notin {1, 4}
    BY <1>2, <2>1, NoPowers
  <2>2. CASE Len(c.powers) \in {1, 4}
    <3>1. PICK d \in [Antennas -> Byte] : Sends(q1, q2, SetPower, d)
      BY <1>2, <2>2, SendsPowers
    <3>2. PICK r : IsOrder(r) /\ q2 = Append(q1, r)
      BY <3>1 DEF Sends
    <3> QED
      BY <1>2, <3>2, OneMoreOrder
  <2> QED
    BY <2>1, <2>2
<1> HIDE DEF q2
<1>4. requests' = q2
  BY DEF Configure, q1, q2
<1> QED
  BY <1>3, <1>4 DEF OrdersInv

LEMMA SameLine == LineInv /\ UNCHANGED parserVars => LineInv'
  BY DEF LineInv, parserVars

LEMMA SamePast ==
    PastInv /\ UNCHANGED <<due, reader, antSets, storing, message, report, past>> => PastInv'
  BY DEF PastInv, NothingIsInvented

(* What was told remains so while the past grows. *)
LEMMA PastGrows ==
    ASSUME NothingIsInvented, report' = report, past \subseteq past'
    PROVE  /\ NothingIsInvented'
           /\ \A msg : Told(msg, past) => Told(msg, past')
           /\ \A region : RegionOf(region, past \cup {Blank}) => RegionOf(region, past' \cup {Blank})
           /\ \A powers : PowersIn(powers, past \cup {Blank}) => PowersIn(powers, past' \cup {Blank})
<1>1. past \cup {Blank} \subseteq past' \cup {Blank}
  OBVIOUS
<1>2. NothingIsInvented'
  <2>1. PICK p, q \in past \cup {Blank} :
            \A k \in 1..3 : report.region[k] \in {p.region[k], q.region[k]}
    BY DEF NothingIsInvented
  <2>2. PICK u, v \in past \cup {Blank} :
            \A a \in Antennas : report.powers[a] \in {u.powers[a], v.powers[a]}
    BY DEF NothingIsInvented
  <2>3. /\ p \in past' \cup {Blank} /\ q \in past' \cup {Blank}
        /\ u \in past' \cup {Blank} /\ v \in past' \cup {Blank}
    BY <1>1
  <2>4. /\ \A k \in 1..3 : report'.region[k] \in {p.region[k], q.region[k]}
        /\ \A a \in Antennas : report'.powers[a] \in {u.powers[a], v.powers[a]}
    BY <2>1, <2>2
  <2> QED
    BY <2>3, <2>4, Zenon DEF NothingIsInvented
<1>3. \A region : RegionOf(region, past) => RegionOf(region, past')
  BY Zenon DEF RegionOf
<1>4. \A powers : PowersIn(powers, past) => PowersIn(powers, past')
  BY Zenon DEF PowersIn
<1>5. \A msg : Told(msg, past) => Told(msg, past')
  BY <1>3, <1>4, Zenon DEF Told
<1>6. \A region : RegionOf(region, past \cup {Blank}) => RegionOf(region, past' \cup {Blank})
  BY <1>1, Zenon DEF RegionOf
<1>7. \A powers : PowersIn(powers, past \cup {Blank}) => PowersIn(powers, past' \cup {Blank})
  BY <1>1, Zenon DEF PowersIn
<1> QED
  BY <1>2, <1>5, <1>6, <1>7

LEMMA SameOrders == OrdersInv /\ UNCHANGED requests => OrdersInv'
  BY DEF OrdersInv

LEMMA ConfigureTypes ==
    ASSUME TypeInv, NEW c \in Configurations, Configure(c)
    PROVE  TypeInv'
<1>1. wanted' \in ReaderSettings
  <2>1. wanted.region \in [1..3 -> Byte] /\ wanted.powers \in [Antennas -> Byte]
    BY DEF TypeInv, ReaderSettings
  <2> DEFINE x == IF c.region = <<>> THEN wanted.region ELSE c.region
             y == IF Len(c.powers) \in {1, 4} THEN Spread(c.powers) ELSE wanted.powers
  <2>2. x \in [1..3 -> Byte]
    BY <2>1, ConfigurationsAssumption
  <2>3. y \in [Antennas -> Byte]
    BY <2>1, ConfigurationsAssumption, SpreadIs
  <2>4. wanted' = [region |-> x, powers |-> y]
    BY DEF Configure
  <2> HIDE DEF x, y
  <2> QED
    BY <2>2, <2>3, <2>4 DEF ReaderSettings
<1>2. asked' \in 0..MaxRequests
  BY MaxRequestsAssumption DEF TypeInv, Configure
<1>3. kept' \in BOOLEAN
  BY DEF TypeInv, Configure, InRange
<1>4. UNCHANGED <<message, strange, reader, antSets, storing, report, ws, late>>
  BY DEF Configure, parserVars
<1> QED
  BY <1>1, <1>2, <1>3, <1>4 DEF TypeInv

LEMMA ReaderStep ==
    ASSUME IInv, ReaderAnswers
    PROVE  IInv'
<1>1. /\ requests # <<>> /\ requests' = Tail(requests)
      /\ UNCHANGED <<message, antSets, storing, ws, report, asked, wanted, kept, late>>
  BY ReaderIs DEF IInv
<1>2. PICK cmd, data : ReaderDoes(cmd, data)
  BY ReaderIs DEF IInv
<1>3. /\ LineInv' /\ line = <<>> /\ due = <<>>
      /\ due' \in {<<>>, <<[cmd |-> cmd, data |-> data]>>}
  BY <1>2, SendStep DEF IInv, ReaderDoes
<1>4. OrdersInv'
  BY <1>1, FirstOrder DEF IInv, OrdersInv
<1>5. reader' \in ReaderSettings /\ reader' \in past'
      /\ past \subseteq past'
  <2>1. /\ reader \in ReaderSettings /\ reader \in past
        /\ reader.region \in [1..3 -> Byte] /\ reader.powers \in [Antennas -> Byte]
    BY DEF IInv, TypeInv, PastInv, ReaderSettings
  <2>2. IsOrder(requests[1]) /\ Taken = TakenOf(requests[1])
    BY <1>1, FirstOrder DEF IInv
  <2>3. CASE cmd = SetRegion /\ reader' = [reader EXCEPT !.region = Taken.data]
             /\ past' = past \cup {reader'}
    <3>1. Taken.data \in [1..3 -> Byte]
      BY <1>2, <2>2, <2>3, CommandsDiffer DEF IsOrder, ReaderDoes
    <3> QED
      BY <2>1, <2>3, <3>1 DEF ReaderSettings
  <2>4. CASE cmd = SetPower /\ reader' = [reader EXCEPT !.powers = Taken.data]
             /\ past' = past \cup {reader'}
    <3>1. Taken.data \in [Antennas -> Byte]
      BY <1>2, <2>2, <2>4, CommandsDiffer DEF IsOrder, ReaderDoes
    <3> QED
      BY <2>1, <2>4, <3>1 DEF ReaderSettings
  <2>5. CASE UNCHANGED <<reader, past>>
    BY <2>1, <2>5
  <2> QED
    BY <1>2, <2>3, <2>4, <2>5 DEF ReaderDoes
<1>6. due' # <<>> => Told(Head(due'), past')
  <2> SUFFICES ASSUME due' # <<>> PROVE Told(Head(due'), past')
    OBVIOUS
  <2> DEFINE m == [cmd |-> cmd, data |-> data]
  <2>1. Head(due') = m
    BY <1>3
  <2>2. reader.region \in [1..3 -> Byte] /\ reader.powers \in [Antennas -> Byte]
        /\ RegionOf(reader.region, past) /\ PowersIn(reader.powers, past)
    <3>1. reader \in past /\ reader \in ReaderSettings
      BY DEF IInv, TypeInv, PastInv
    <3> QED
      BY <3>1, Zenon DEF ReaderSettings, RegionOf, PowersIn
  <2>6. RegionOf(reader.region, past') /\ PowersIn(reader.powers, past')
    BY <1>5, <2>2, Zenon DEF RegionOf, PowersIn
  <2>3. CASE cmd \in {SetRegion, SetPower}
    <3>1. m.cmd # GetRegion /\ m.cmd # GetPower
      BY <2>3, CommandsDiffer
    <3> QED
      BY <2>1, <3>1 DEF Told
  <2>4. CASE cmd = GetRegion
    <3>1. data = reader.region
      BY <1>2, <2>4, CommandsDiffer DEF ReaderDoes
    <3>2. m.cmd # GetPower /\ m.data = reader.region
      BY <2>4, <3>1, CommandsDiffer
    <3> QED
      BY <2>1, <2>2, <2>6, <3>2 DEF Told
  <2>5. CASE cmd = GetPower
    <3>1. IF Uniform(reader.powers) THEN data = <<reader.powers[1]>> ELSE Len(data) = 4
      BY <1>2, <2>5, CommandsDiffer DEF ReaderDoes
    <3>2. m.cmd # GetRegion /\ m.data = data
      BY <2>5, CommandsDiffer
    <3>3. ASSUME Len(data) = 1 PROVE PowersOf(data) = reader.powers
      <4>1. Uniform(reader.powers) /\ data = <<reader.powers[1]>>
        BY <3>1, <3>3
      <4>2. data[1] = reader.powers[1]
        BY <4>1
      <4>3. \A a \in Antennas : reader.powers[a] = data[1]
        BY <4>1, <4>2 DEF Uniform
      <4> QED
        BY <2>2, <4>3 DEF PowersOf
    <3> QED
      BY <2>1, <2>2, <2>6, <3>2, <3>3 DEF Told
  <2> QED
    BY <1>2, <2>3, <2>4, <2>5 DEF ReaderDoes
<1>7. TypeInv'
  <2>1. strange' = strange
    BY <1>2 DEF ReaderDoes, ReaderSends
  <2> QED
    BY <1>1, <1>5, <2>1 DEF IInv, TypeInv
<1>8. PastInv'
  <2>1. NothingIsInvented /\ report' = report
    BY <1>1 DEF IInv, PastInv
  <2>2. /\ NothingIsInvented'
        /\ Told(message, past) => Told(message, past')
        /\ RegionOf(antSets.region, past' \cup {Blank})
        /\ PowersIn(antSets.powers, past' \cup {Blank})
    BY <1>5, <2>1, PastGrows DEF IInv, PastInv
  <2>3. storing' => message'.cmd \in Questions /\ Told(message', past')
    BY <1>1, <2>2 DEF IInv, PastInv
  <2> QED
    BY <1>1, <1>5, <1>6, <2>2, <2>3 DEF PastInv
<1> QED
  BY <1>3, <1>4, <1>7, <1>8 DEF IInv

LEMMA SerialStep ==
    ASSUME IInv, RunSerial
    PROVE  IInv'
<1>1. /\ LineInv' /\ SerialDoes
      /\ message' \in [cmd : Commands \cup {0}, data : Seq(Byte)]
      /\ strange' \in BOOLEAN
      /\ UNCHANGED <<requests, reader, antSets, ws, report, asked, wanted, kept, late, past>>
  BY SerialIs
<1>2. OrdersInv'
  BY <1>1, SameOrders DEF IInv
<1>3. storing' \in BOOLEAN
  BY <1>1 DEF SerialDoes
<1>4. TypeInv'
  BY <1>1, <1>3 DEF IInv, TypeInv
<1>5. storing' => message'.cmd \in Questions /\ Told(message', past')
  <2> SUFFICES ASSUME storing' PROVE message'.cmd \in Questions /\ Told(message', past')
    OBVIOUS
  <2>1. message'.cmd \in Questions /\ due = <<message'>>
    BY <1>1 DEF SerialDoes
  <2>2. Head(<<message'>>) = message' /\ <<message'>> # <<>>
    OBVIOUS
  <2> QED
    BY <1>1, <2>1, <2>2 DEF IInv, PastInv
<1>6. due' = due \/ due' = <<>>
  BY <1>1 DEF SerialDoes
<1>7. NothingIsInvented'
  BY <1>1 DEF IInv, PastInv, NothingIsInvented
<1>8. PastInv'
  BY <1>1, <1>5, <1>6, <1>7 DEF IInv, PastInv
<1> QED
  BY <1>1, <1>2, <1>4, <1>8 DEF IInv

LEMMA StoreIs ==
    ASSUME IInv, Store
    PROVE  /\ storing /\ storing' = FALSE /\ antSets' = Decoded
           /\ ws' = CASE message.cmd = GetRegion /\ ws = "region" -> "askPower"
                      [] message.cmd = GetPower /\ ws = "power" -> "report"
                      [] OTHER -> ws
           /\ UNCHANGED parserVars
           /\ UNCHANGED <<due, message, strange, requests, reader, report, asked,
                          wanted, kept, late, past>>
BY DEF Store, Answered, parserVars, history

LEMMA StoreStep ==
    ASSUME IInv, Store
    PROVE  IInv'
<1>1. /\ storing /\ storing' = FALSE /\ antSets' = Decoded
      /\ ws' \in {ws, "askPower", "report"}
      /\ UNCHANGED parserVars
      /\ UNCHANGED <<due, message, strange, requests, reader, report, asked,
                     wanted, kept, late, past>>
  BY StoreIs
<1>2. /\ antSets' \in Settings
      /\ RegionOf(antSets'.region, past' \cup {Blank})
      /\ PowersIn(antSets'.powers, past' \cup {Blank})
  BY <1>1, DecodedReal
<1>3. TypeInv'
  BY <1>1, <1>2 DEF IInv, TypeInv
<1>4. NothingIsInvented'
  BY <1>1 DEF IInv, PastInv, NothingIsInvented
<1>5. PastInv'
  BY <1>1, <1>2, <1>4 DEF IInv, PastInv
<1> QED
  BY <1>1, <1>3, <1>5, SameLine, SameOrders DEF IInv

(* The copy of _ant_sets mixes what is stored with what was. *)
LEMMA ReportIs ==
    ASSUME IInv, Report
    PROVE  /\ report' \in Settings
           /\ NothingIsInvented'
           /\ ~storing => report' = antSets
<1> DEFINE new == IF storing THEN Decoded ELSE antSets
<1>1. /\ antSets \in Settings
      /\ RegionOf(antSets.region, past \cup {Blank})
      /\ PowersIn(antSets.powers, past \cup {Blank})
  BY DEF IInv, TypeInv, PastInv
<1>2. /\ new \in Settings
      /\ RegionOf(new.region, past \cup {Blank})
      /\ PowersIn(new.powers, past \cup {Blank})
  BY <1>1, DecodedReal
<1>3. PICK region \in Copies(antSets.region, new.region),
           powers \in Copies(antSets.powers, new.powers) :
              report' = [region |-> region, powers |-> powers]
  BY DEF Report
<1>4. ~storing => new = antSets
  OBVIOUS
<1>5. past' = past
  BY DEF Report, history
<1> HIDE DEF new
<1>6. /\ antSets.region \in [1..3 -> Byte \cup {Unread}]
      /\ antSets.powers \in [Antennas -> Byte \cup {Unread}]
      /\ new.region \in [1..3 -> Byte \cup {Unread}]
      /\ new.powers \in [Antennas -> Byte \cup {Unread}]
  BY <1>1, <1>2 DEF Settings
<1>7. /\ region \in [1..3 -> Byte \cup {Unread}]
      /\ \A k \in 1..3 : region[k] \in {antSets.region[k], new.region[k]}
  BY <1>3, <1>6, CopiesAre
<1>8. /\ powers \in [Antennas -> Byte \cup {Unread}]
      /\ \A a \in Antennas : powers[a] \in {antSets.powers[a], new.powers[a]}
  BY <1>3, <1>6, CopiesAre
<1>9. report' \in Settings
  BY <1>3, <1>7, <1>8 DEF Settings
<1>10. NothingIsInvented'
  <2>1. report'.region = region /\ report'.powers = powers
    BY <1>3
  <2>2. PICK p, q \in past \cup {Blank} : antSets.region = p.region /\ new.region = q.region
    BY <1>1, <1>2 DEF RegionOf
  <2>3. PICK u, v \in past \cup {Blank} : antSets.powers = u.powers /\ new.powers = v.powers
    BY <1>1, <1>2 DEF PowersIn
  <2>4. /\ \A k \in 1..3 : report'.region[k] \in {p.region[k], q.region[k]}
        /\ \A a \in Antennas : report'.powers[a] \in {u.powers[a], v.powers[a]}
    BY <1>7, <1>8, <2>1, <2>2, <2>3
  <2> QED
    BY <1>5, <2>2, <2>3, <2>4, Zenon DEF NothingIsInvented
<1>11. ASSUME ~storing PROVE report' = antSets
  <2>1. /\ \A k \in 1..3 : region[k] = antSets.region[k]
        /\ \A a \in Antennas : powers[a] = antSets.powers[a]
    BY <1>4, <1>7, <1>8, <1>11
  <2>2. region = antSets.region /\ powers = antSets.powers
    BY <1>6, <1>7, <1>8, <2>1
  <2> QED
    BY <1>1, <1>3, <2>2 DEF Settings
<1> QED
  BY <1>9, <1>10, <1>11

LEMMA StepIInv == IInv /\ [SettingsNext]_settingsVars => IInv'
<1> SUFFICES ASSUME IInv, [SettingsNext]_settingsVars PROVE IInv'
  OBVIOUS
<1> USE DEF IInv
<1>1. ASSUME NEW c \in Configurations, Configure(c) PROVE IInv'
  <2>1. UNCHANGED parserVars /\ UNCHANGED <<due, reader, antSets, storing, message, report, past>>
    BY <1>1 DEF Configure, parserVars
  <2> QED
    BY <1>1, <2>1, SameLine, SamePast, ConfigureOrders, ConfigureTypes
<1>2. CASE AskRegion
  <2>1. UNCHANGED parserVars /\ UNCHANGED <<due, reader, antSets, storing, message, report, past>>
    BY <1>2 DEF AskRegion, parserVars
  <2>2. OrdersInv'
    BY <1>2, Question, OneMoreOrder DEF AskRegion, Ask, OrdersInv
  <2>3. TypeInv'
    <3>1. late' \in BOOLEAN
      BY <1>2 DEF AskRegion, TypeInv
    <3>2. asked' \in 0..MaxRequests
      BY <1>2, MaxRequestsAssumption DEF AskRegion, TypeInv
    <3>3. UNCHANGED <<message, strange, reader, wanted, antSets, storing, report, kept>>
          /\ ws' = "region"
      BY <1>2 DEF AskRegion, Ask, parserVars
    <3> QED
      BY <3>1, <3>2, <3>3 DEF TypeInv
  <2> QED
    BY <2>1, <2>2, <2>3, SameLine, SamePast
<1>3. CASE AskPower
  <2>1. UNCHANGED parserVars /\ UNCHANGED <<due, reader, antSets, storing, message, report, past>>
    BY <1>3 DEF AskPower, parserVars, history
  <2>2. OrdersInv'
    BY <1>3, Question, OneMoreOrder DEF AskPower, Ask, OrdersInv
  <2>3. TypeInv'
    BY <1>3 DEF AskPower, Ask, parserVars, history, TypeInv
  <2> QED
    BY <2>1, <2>2, <2>3, SameLine, SamePast
<1>4. CASE Timeout
  <2>1. UNCHANGED parserVars
        /\ UNCHANGED <<due, reader, antSets, storing, message, report, past, requests>>
    BY <1>4 DEF Timeout, parserVars
  <2>2. TypeInv'
    BY <1>4 DEF Timeout, parserVars, TypeInv
  <2> QED
    BY <2>1, <2>2, SameLine, SamePast, SameOrders
<1>5. CASE Report
  <2>1. UNCHANGED parserVars /\ UNCHANGED <<requests>>
    BY <1>5 DEF Report
  <2>2. UNCHANGED <<message, strange, reader, wanted, antSets, storing, asked, kept, late, due, past>>
        /\ ws' = "idle"
    BY <1>5 DEF Report, parserVars, history
  <2>3. report' \in Settings /\ NothingIsInvented'
    BY <1>5, ReportIs
  <2>4. TypeInv'
    BY <2>2, <2>3 DEF TypeInv
  <2>5. PastInv'
    BY <2>2, <2>3 DEF PastInv
  <2> QED
    BY <2>1, <2>4, <2>5, SameLine, SameOrders
<1>6. CASE RunSerial
  BY <1>6, SerialStep
<1>10. CASE Store
  BY <1>10, StoreStep
<1>7. CASE ReaderAnswers
  BY <1>7, ReaderStep
<1>8. CASE RequestIsLost
  <2>1. UNCHANGED parserVars /\ UNCHANGED <<due, reader, antSets, storing, message, report, past>>
    BY <1>8 DEF RequestIsLost, parserVars
  <2>2. OrdersInv'
    BY <1>8, FirstOrder DEF RequestIsLost, OrdersInv
  <2>3. TypeInv'
    <3>1. kept' \in BOOLEAN
      BY <1>8 DEF RequestIsLost, TypeInv
    <3> QED
      BY <1>8, <3>1 DEF RequestIsLost, parserVars, TypeInv
  <2> QED
    BY <2>1, <2>2, <2>3, SameLine, SamePast
<1>9. CASE UNCHANGED settingsVars
  <2>1. UNCHANGED parserVars
        /\ UNCHANGED <<due, reader, antSets, storing, message, report, past, requests>>
    BY <1>9 DEF settingsVars, parserVars, history
  <2>2. TypeInv'
    BY <1>9 DEF settingsVars, parserVars, history, TypeInv
  <2> QED
    BY <2>1, <2>2, SameLine, SamePast, SameOrders
<1> QED
  BY <1>1, <1>2, <1>3, <1>4, <1>5, <1>6, <1>7, <1>8, <1>9, <1>10 DEF SettingsNext

LEMMA IInvImplies == IInv => SettingsTypeOK /\ DeliversIntact /\ NothingIsInvented
<1> SUFFICES ASSUME IInv PROVE SettingsTypeOK /\ DeliversIntact /\ NothingIsInvented
  OBVIOUS
<1>1. /\ line \in Seq(Byte) /\ recvBuf \in Seq(Byte)
      /\ due \in Seq([cmd : Commands, data : Seq(Byte)])
  BY LineTypes DEF IInv
<1>2. ParserTypeOK
  BY <1>1 DEF IInv, TypeInv, ParserTypeOK
<1>3. reader \in Settings /\ wanted \in Settings
  <2>1. ReaderSettings \subseteq Settings
    BY DEF ReaderSettings, Settings
  <2> QED
    BY <2>1 DEF IInv, TypeInv
<1>4. SettingsTypeOK
  BY <1>2, <1>3 DEF IInv, TypeInv, OrdersInv, SettingsTypeOK
<1>5. DeliversIntact
  <2>1. line = <<>> => due = <<>> /\ Len(recvBuf) < MinLen
    BY NoneOf DEF IInv, LineInv, MinLen
  <2> QED
    BY <2>1 DEF IInv, LineInv, DeliversIntact
<1> QED
  BY <1>4, <1>5 DEF IInv, PastInv

LEMMA SettingsIInv == SettingsSpec => []IInv
  BY InitIInv, StepIInv, PTL DEF SettingsSpec

(* Whatever the server configures and whatever the line does, what is      *)
(* written to the port are bytes, and the settings hold what they should.  *)
THEOREM SettingsTypeCorrect == SettingsSpec => []SettingsTypeOK
  BY SettingsIInv, IInvImplies, PTL

(* CommandsHandler::receivePacket and Message give the commands every      *)
(* packet that the reader sent and nothing corrupted, in order and once,   *)
(* and nothing else, whatever garbage is before one.                       *)
THEOREM IntactPacketsArrive == SettingsSpec => []DeliversIntact
  BY SettingsIInv, IInvImplies, PTL

(* However answers are lost, corrupted or late, and whenever the serial    *)
(* thread stores one while getAntSettings copies _ant_sets, no field of    *)
(* the report is one the reader never had, or that was never read, and no  *)
(* report mixes more than two of the reader's settings.                    *)
THEOREM ReportsAreReal == SettingsSpec => []NothingIsInvented
  BY SettingsIInv, IInvImplies, PTL
-----------------------------------------------------------------------------
(* What the server configures is on its way to the reader, or there: of    *)
(* the requests that set the region the last carries the region wanted;    *)
(* if there is none, the reader has it.  So for the powers.  All of them   *)
(* are ones the reader takes.                                              *)
Pending(q, wantRegion, wantPowers, region, powers) ==
    /\ \A k \in 1..Len(q) : \A cmd \in {SetRegion, SetPower} :
          Commanded(q[k], cmd) => Valid(cmd, TakenOf(q[k]).data)
    /\ Carries(q, SetRegion, wantRegion, region)
    /\ Carries(q, SetPower, wantPowers, powers)

ConfInv == kept => Pending(requests, wanted.region, wanted.powers,
                           reader.region, reader.powers)

LEMMA ValidSent ==
    ASSUME NEW q \in Seq(Seq(Byte)), NEW r, NEW cmd0 \in {SetRegion, SetPower}, NEW d,
           IsOrder(r), TakenOf(r) = [cmd |-> cmd0, data |-> d], Valid(cmd0, d),
           \A k \in 1..Len(q) : \A cmd \in {SetRegion, SetPower} :
              Commanded(q[k], cmd) => Valid(cmd, TakenOf(q[k]).data)
    PROVE  \A k \in 1..Len(Append(q, r)) : \A cmd \in {SetRegion, SetPower} :
              Commanded(Append(q, r)[k], cmd) => Valid(cmd, TakenOf(Append(q, r)[k]).data)
<1>0. r \in Seq(Byte)
  BY DEF IsOrder
<1> DEFINE s == Append(q, r)
<1>1. /\ Len(q) \in Nat /\ Len(s) = Len(q) + 1
      /\ \A k \in 1..Len(q) : s[k] = q[k]
      /\ s[Len(q) + 1] = r
  BY <1>0, OneMore
<1> HIDE DEF s
<1>2. \A k \in 1..Len(s) : k \in 1..Len(q) \/ k = Len(q) + 1
  BY <1>1
<1>3. TakenOf(r).cmd = cmd0 /\ TakenOf(r).data = d
  OBVIOUS
<1>4. \A cmd : Commanded(r, cmd) => Valid(cmd, TakenOf(r).data)
  BY <1>3 DEF Commanded
<1>5. ASSUME NEW k \in 1..Len(s), NEW cmd \in {SetRegion, SetPower}, Commanded(s[k], cmd)
      PROVE  Valid(cmd, TakenOf(s[k]).data)
  <2>1. CASE k \in 1..Len(q)
    <3>1. s[k] = q[k]
      BY <1>1, <2>1
    <3> QED
      BY <1>5, <2>1, <3>1
  <2>2. CASE k = Len(q) + 1
    <3>1. s[k] = r
      BY <1>1, <2>2
    <3> QED
      BY <1>4, <1>5, <3>1
  <2> QED
    BY <1>2, <2>1, <2>2
<1> QED
  BY <1>5 DEF s

LEMMA PendingRegion ==
    ASSUME NEW q \in Seq(Seq(Byte)), NEW q2, NEW wr, NEW wp, NEW hr, NEW hp, NEW d,
           Pending(q, wr, wp, hr, hp), Sends(q, q2, SetRegion, d), Valid(SetRegion, d)
    PROVE  Pending(q2, d, wp, hr, hp)
<1>1. PICK r : /\ IsOrder(r) /\ TakenOf(r) = [cmd |-> SetRegion, data |-> d]
               /\ q2 = Append(q, r)
  BY DEF Sends
<1>2. r \in Seq(Byte)
  BY <1>1 DEF IsOrder
<1>3. TakenOf(r).cmd = SetRegion /\ TakenOf(r).data = d
  BY <1>1
<1>4. Commanded(r, SetRegion) /\ ~Commanded(r, SetPower)
  BY <1>3, CommandsDiffer DEF Commanded
<1>5. Carries(q2, SetRegion, d, hr)
  BY <1>1, <1>2, <1>3, <1>4, CarriesSent
<1>6. Carries(q2, SetPower, wp, hp)
  BY <1>1, <1>2, <1>4, CarriesOther DEF Pending
<1>7. \A k \in 1..Len(q2) : \A cmd \in {SetRegion, SetPower} :
         Commanded(q2[k], cmd) => Valid(cmd, TakenOf(q2[k]).data)
  BY <1>1, ValidSent DEF Pending
<1> QED
  BY <1>5, <1>6, <1>7 DEF Pending

LEMMA PendingPowers ==
    ASSUME NEW q \in Seq(Seq(Byte)), NEW q2, NEW wr, NEW wp, NEW hr, NEW hp, NEW d,
           Pending(q, wr, wp, hr, hp), Sends(q, q2, SetPower, d), Valid(SetPower, d)
    PROVE  Pending(q2, wr, d, hr, hp)
<1>1. PICK r : /\ IsOrder(r) /\ TakenOf(r) = [cmd |-> SetPower, data |-> d]
               /\ q2 = Append(q, r)
  BY DEF Sends
<1>2. r \in Seq(Byte)
  BY <1>1 DEF IsOrder
<1>3. TakenOf(r).cmd = SetPower /\ TakenOf(r).data = d
  BY <1>1
<1>4. Commanded(r, SetPower) /\ ~Commanded(r, SetRegion)
  BY <1>3, CommandsDiffer DEF Commanded
<1>5. Carries(q2, SetPower, d, hp)
  BY <1>1, <1>2, <1>3, <1>4, CarriesSent
<1>6. Carries(q2, SetRegion, wr, hr)
  BY <1>1, <1>2, <1>4, CarriesOther DEF Pending
<1>7. \A k \in 1..Len(q2) : \A cmd \in {SetRegion, SetPower} :
         Commanded(q2[k], cmd) => Valid(cmd, TakenOf(q2[k]).data)
  BY <1>1, ValidSent DEF Pending
<1> QED
  BY <1>5, <1>6, <1>7 DEF Pending

LEMMA PendingQuestion ==
    ASSUME NEW q \in Seq(Seq(Byte)), NEW wr, NEW wp, NEW hr, NEW hp,
           NEW cmd0 \in Questions, Pending(q, wr, wp, hr, hp)
    PROVE  Pending(Append(q, Request(cmd0, <<>>)), wr, wp, hr, hp)
<1> DEFINE r == Request(cmd0, <<>>)
           s == Append(q, r)
<1>1. IsOrder(r) /\ TakenOf(r).cmd = cmd0 /\ r \in Seq(Byte)
  BY Question DEF Questions, IsOrder
<1> HIDE DEF r
<1>2. \A cmd \in {SetRegion, SetPower} : ~Commanded(r, cmd)
  BY <1>1, CommandsDiffer DEF Commanded, Questions
<1>3. Carries(s, SetRegion, wr, hr) /\ Carries(s, SetPower, wp, hp)
  BY <1>1, <1>2, CarriesOther DEF Pending
<1>4. /\ Len(q) \in Nat /\ Len(s) = Len(q) + 1
      /\ \A k \in 1..Len(q) : s[k] = q[k]
      /\ s[Len(q) + 1] = r
  BY <1>1, OneMore
<1> HIDE DEF s
<1>5. \A k \in 1..Len(s) : k \in 1..Len(q) \/ k = Len(q) + 1
  BY <1>4
<1>6. \A k \in 1..Len(s) : \A cmd \in {SetRegion, SetPower} :
         Commanded(s[k], cmd) => Valid(cmd, TakenOf(s[k]).data)
  BY <1>2, <1>4, <1>5 DEF Pending
<1> QED
  BY <1>3, <1>6 DEF Pending, s, r

LEMMA PendingTaken ==
    ASSUME NEW q \in Seq(Seq(Byte)), q # <<>>, NEW wr, NEW wp, NEW hr, NEW hp,
           NEW nr, NEW np, Pending(q, wr, wp, hr, hp),
           nr = IF Commanded(Head(q), SetRegion) THEN TakenOf(Head(q)).data ELSE hr,
           np = IF Commanded(Head(q), SetPower) THEN TakenOf(Head(q)).data ELSE hp
    PROVE  Pending(Tail(q), wr, wp, nr, np)
<1>1. Carries(q, SetRegion, wr, hr) /\ Carries(q, SetPower, wp, hp)
  BY DEF Pending
<1>2. Carries(Tail(q), SetRegion, wr, nr)
  BY <1>1, CarriesTaken
<1>3. Carries(Tail(q), SetPower, wp, np)
  BY <1>1, CarriesTaken
<1> DEFINE s == Tail(q)
<1>4. /\ Len(q) \in Nat \ {0} /\ Len(s) = Len(q) - 1
      /\ \A k \in 1..Len(s) : s[k] = q[k + 1]
  BY EmptySeq, HeadTailProperties
<1> HIDE DEF s
<1>5. \A k \in 1..Len(s) : k + 1 \in 1..Len(q)
  BY <1>4
<1>6. \A k \in 1..Len(s) : \A cmd \in {SetRegion, SetPower} :
         Commanded(s[k], cmd) => Valid(cmd, TakenOf(s[k]).data)
  BY <1>4, <1>5 DEF Pending
<1> QED
  BY <1>2, <1>3, <1>6 DEF Pending, s

LEMMA PendingNothing ==
    ASSUME NEW r, NEW p
    PROVE  Pending(<<>>, r, p, r, p)
<1> DEFINE l == Len(<<>>)
<1>1. l = 0
  OBVIOUS
<1> HIDE DEF l
<1>2. 1..l = {}
  BY <1>1
<1> QED
  BY <1>2 DEF Pending, Carries, l

LEMMA ConfigurePending ==
    ASSUME IInv, ConfInv, NEW c \in Configurations, Configure(c)
    PROVE  ConfInv'
<1> SUFFICES ASSUME kept' PROVE Pending(requests', wanted'.region, wanted'.powers,
                                        reader'.region, reader'.powers)
  BY DEF ConfInv
<1>1. kept /\ InRange(c) /\ reader' = reader
  BY DEF Configure, IInv, TypeInv
<1>2. requests \in Seq(Seq(Byte))
  BY DEF IInv, OrdersInv
<1> DEFINE q1 == requests \o ExecuteRegion(c.region)
           q2 == q1 \o ExecutePowers(c.powers)
           wr == IF c.region = <<>> THEN wanted.region ELSE c.region
           wp == IF Len(c.powers) \in {1, 4} THEN Spread(c.powers) ELSE wanted.powers
<1>3. requests' = q2 /\ wanted' = [region |-> wr, powers |-> wp]
  BY DEF Configure
<1>4. wanted'.region = wr /\ wanted'.powers = wp
  BY <1>3
<1>5. q1 \in Seq(Seq(Byte)) /\ Pending(q1, wr, wanted.powers, reader.region, reader.powers)
  <2>1. CASE c.region = <<>>
    <3>1. q1 = requests /\ wr = wanted.region
      BY <1>2, <2>1, NoRegion
    <3> QED
      BY <1>1, <1>2, <3>1 DEF ConfInv
  <2>2. CASE c.region # <<>>
    <3>1. PICK d \in [1..3 -> Byte] : /\ Sends(requests, q1, SetRegion, d)
                                      /\ d = c.region /\ Valid(SetRegion, d)
      BY <1>1, <1>2, <2>2, SendsRegion
    <3>2. q1 \in Seq(Seq(Byte))
      <4>1. PICK r : IsOrder(r) /\ q1 = Append(requests, r)
        BY <3>1 DEF Sends
      <4>2. r \in Seq(Byte)
        BY <4>1 DEF IsOrder
      <4> QED
        BY <1>2, <4>1, <4>2, OneMore
    <3>3. Pending(requests, wanted.region, wanted.powers, reader.region, reader.powers)
      BY <1>1 DEF ConfInv
    <3>4. Pending(q1, d, wanted.powers, reader.region, reader.powers)
      BY <1>2, <3>1, <3>3, PendingRegion
    <3>5. wr = d
      BY <2>2, <3>1
    <3> QED
      BY <3>2, <3>4, <3>5
  <2> QED
    BY <2>1, <2>2
<1> HIDE DEF q1, wr
<1>6. Pending(q2, wr, wp, reader.region, reader.powers)
  <2>1. CASE Len(c.powers) \notin {1, 4}
    <3>1. q2 = q1 /\ wp = wanted.powers
      BY <1>5, <2>1, NoPowers
    <3> QED
      BY <1>5, <3>1
  <2>2. CASE Len(c.powers) \in {1, 4}
    <3>1. PICK d \in [Antennas -> Byte] : /\ Sends(q1, q2, SetPower, d)
                                          /\ d = Spread(c.powers) /\ Valid(SetPower, d)
      BY <1>1, <1>5, <2>2, SendsPowers
    <3>2. Pending(q2, wr, d, reader.region, reader.powers)
      BY <1>5, <3>1, PendingPowers
    <3>3. wp = d
      BY <2>2, <3>1
    <3> QED
      BY <3>2, <3>3
  <2> QED
    BY <2>1, <2>2
<1> HIDE DEF q2, wp
<1> QED
  BY <1>1, <1>3, <1>4, <1>6

LEMMA ReaderPending == ASSUME IInv, ConfInv, ReaderAnswers PROVE ConfInv'
<1> SUFFICES ASSUME kept' PROVE Pending(requests', wanted'.region, wanted'.powers,
                                        reader'.region, reader'.powers)
  BY DEF ConfInv
<1>1. requests # <<>> /\ requests' = Tail(requests) /\ kept' = kept /\ wanted' = wanted
  BY ReaderIs DEF IInv
<1>2. PICK cmd, data : ReaderDoes(cmd, data)
  BY ReaderIs DEF IInv
<1>3. /\ Head(requests) = requests[1] /\ Taken = TakenOf(requests[1])
      /\ requests \in Seq(Seq(Byte)) /\ 1 \in 1..Len(requests)
  <2>1. Len(requests) \in Nat \ {0}
    BY <1>1, FirstOrder DEF IInv
  <2>2. 1 \in 1..Len(requests)
    BY <2>1
  <2> QED
    BY <1>1, <2>2, FirstOrder DEF IInv, OrdersInv
<1>4. Taken.cmd = cmd
  BY <1>2 DEF ReaderDoes
<1>5. \A x : Commanded(Head(requests), x) <=> x = cmd
  BY <1>3, <1>4 DEF Commanded
<1>6. Pending(requests, wanted.region, wanted.powers, reader.region, reader.powers)
  BY <1>1 DEF ConfInv
<1>7. cmd \in {SetRegion, SetPower} => Valid(cmd, Taken.data)
  BY <1>3, <1>5, <1>6 DEF Pending
<1>8. reader \in ReaderSettings
  BY DEF IInv, TypeInv
<1>9. /\ reader'.region = IF cmd = SetRegion THEN Taken.data ELSE reader.region
      /\ reader'.powers = IF cmd = SetPower THEN Taken.data ELSE reader.powers
  <2>1. CASE cmd = SetRegion
    <3>1. reader' = [reader EXCEPT !.region = Taken.data]
      BY <1>2, <1>7, <2>1, CommandsDiffer DEF ReaderDoes
    <3> QED
      BY <1>8, <2>1, <3>1, CommandsDiffer DEF ReaderSettings
  <2>2. CASE cmd = SetPower
    <3>1. reader' = [reader EXCEPT !.powers = Taken.data]
      BY <1>2, <1>7, <2>2, CommandsDiffer DEF ReaderDoes
    <3> QED
      BY <1>8, <2>2, <3>1, CommandsDiffer DEF ReaderSettings
  <2>3. CASE cmd \notin {SetRegion, SetPower}
    <3>1. reader' = reader
      BY <1>2, <2>3 DEF ReaderDoes
    <3> QED
      BY <2>3, <3>1
  <2> QED
    BY <2>1, <2>2, <2>3
<1> DEFINE nr == reader'.region
           np == reader'.powers
<1>10. /\ nr = IF Commanded(Head(requests), SetRegion)
                 THEN TakenOf(Head(requests)).data ELSE reader.region
       /\ np = IF Commanded(Head(requests), SetPower)
                 THEN TakenOf(Head(requests)).data ELSE reader.powers
  BY <1>3, <1>5, <1>9
<1> HIDE DEF nr, np
<1>11. Pending(Tail(requests), wanted.region, wanted.powers, nr, np)
  BY <1>1, <1>3, <1>6, <1>10, PendingTaken
<1> QED
  BY <1>1, <1>11 DEF nr, np

LEMMA StepConf == IInv /\ ConfInv /\ [SettingsNext]_settingsVars => ConfInv'
<1> SUFFICES ASSUME IInv, ConfInv, [SettingsNext]_settingsVars PROVE ConfInv'
  OBVIOUS
<1>1. ASSUME NEW c \in Configurations, Configure(c) PROVE ConfInv'
  BY <1>1, ConfigurePending
<1>2. CASE AskRegion
  <2>1. requests' = Append(requests, Request(GetRegion, <<>>)) /\ UNCHANGED <<wanted, reader, kept>>
    BY <1>2 DEF AskRegion, Ask
  <2> QED
    BY <2>1, PendingQuestion DEF ConfInv, IInv, OrdersInv, Questions
<1>3. CASE AskPower
  <2>1. requests' = Append(requests, Request(GetPower, <<>>)) /\ UNCHANGED <<wanted, reader, kept>>
    BY <1>3 DEF AskPower, Ask, history
  <2> QED
    BY <2>1, PendingQuestion DEF ConfInv, IInv, OrdersInv, Questions
<1>4. CASE Timeout
  BY <1>4 DEF Timeout, ConfInv
<1>5. CASE Report
  BY <1>5 DEF Report, history, ConfInv
<1>6. CASE RunSerial
  BY <1>6 DEF RunSerial, history, ConfInv
<1>10. CASE Store
  BY <1>10 DEF Store, history, ConfInv
<1>7. CASE ReaderAnswers
  BY <1>7, ReaderPending
<1>8. CASE RequestIsLost
  <2>1. requests # <<>> /\ kept' = (kept /\ Taken = NoMessage)
    BY <1>8 DEF RequestIsLost
  <2>2. IsOrder(requests[1]) /\ Taken = TakenOf(requests[1])
    BY <2>1, FirstOrder DEF IInv
  <2>3. Taken.cmd # NoMessage.cmd
    BY <2>2, CommandsDiffer DEF IsOrder, NoMessage
  <2>4. Taken # NoMessage
    BY <2>3
  <2> QED
    BY <2>1, <2>4 DEF ConfInv
<1>9. CASE UNCHANGED settingsVars
  BY <1>9 DEF settingsVars, history, ConfInv
<1> QED
  BY <1>1, <1>2, <1>3, <1>4, <1>5, <1>6, <1>7, <1>8, <1>9, <1>10 DEF SettingsNext

LEMMA InitConf == SettingsInit => ConfInv
  BY PendingNothing DEF SettingsInit, ConfInv

LEMMA ConfImplies == IInv /\ ConfInv => ConfiguredIsSet
<1> SUFFICES ASSUME IInv, ConfInv, kept, requests = <<>> PROVE reader = wanted
  BY DEF ConfiguredIsSet
<1>1. Pending(requests, wanted.region, wanted.powers, reader.region, reader.powers)
  BY DEF ConfInv
<1>2. \A cmd : \A k \in 1..Len(requests) : ~Commanded(requests[k], cmd)
  <2>1. Len(requests) = 0
    BY NoneOf
  <2>2. 1..Len(requests) = {}
    BY <2>1
  <2> QED
    BY <2>2
<1>3. reader.region = wanted.region /\ reader.powers = wanted.powers
  BY <1>1, <1>2 DEF Pending, Carries
<1>4. reader \in ReaderSettings /\ wanted \in ReaderSettings
  BY DEF IInv, TypeInv
<1> QED
  BY <1>3, <1>4 DEF ReaderSettings

(* What setRfidConfig writes is what the reader is set to, if all of it    *)
(* was in range and no request was lost.                                   *)
THEOREM ConfigurationsArrive == SettingsSpec => []ConfiguredIsSet
<1>1. SettingsInit => IInv /\ ConfInv
  BY InitIInv, InitConf
<1>2. IInv /\ ConfInv /\ [SettingsNext]_settingsVars => (IInv /\ ConfInv)'
  BY StepIInv, StepConf
<1> QED
  BY <1>1, <1>2, ConfImplies, PTL DEF SettingsSpec
-----------------------------------------------------------------------------
(* Unless an answer is late, at most one question is under way: that of    *)
(* the thread that waits for its answer, behind all else that was sent.    *)
NoQuestion(q) == \A k \in 1..Len(q) : TakenOf(q[k]).cmd \notin Questions

Quiet == /\ NoQuestion(requests) /\ ~storing
         /\ due # <<>> => Head(due).cmd \notin Questions

RegionAsked ==
    /\ \A k \in 1..Len(requests) : TakenOf(requests[k]).cmd \in Questions
          => k = Len(requests) /\ TakenOf(requests[k]).cmd = GetRegion
    /\ due # <<>> /\ Head(due).cmd \in Questions
          => requests = <<>> /\ Head(due).cmd = GetRegion /\ Head(due).data = reader.region
    /\ storing => /\ requests = <<>> /\ due = <<>>
                  /\ message.cmd = GetRegion /\ message.data = reader.region

PowerAsked ==
    /\ requests # <<>> => Len(requests) = 1 /\ TakenOf(requests[1]).cmd = GetPower
    /\ due # <<>> => /\ requests = <<>> /\ Head(due).cmd = GetPower
                     /\ Uniform(reader.powers) => Head(due).data = <<reader.powers[1]>>
    /\ storing => /\ requests = <<>> /\ due = <<>> /\ message.cmd = GetPower
                  /\ Uniform(reader.powers) => message.data = <<reader.powers[1]>>

Settled == requests = <<>> /\ due = <<>> /\ ~storing
RegionKnown == antSets.region = reader.region
PowersKnown == Uniform(reader.powers) => antSets.powers = reader.powers

FreshInv == ~late => /\ ws = "idle" => Quiet
                     /\ ws = "region" => RegionAsked
                     /\ ws = "askPower" => Settled /\ RegionKnown
                     /\ ws = "power" => PowerAsked /\ RegionKnown
                     /\ ws = "report" => Settled /\ RegionKnown /\ PowersKnown

LEMMA NoQuestionSent ==
    ASSUME NEW q \in Seq(Seq(Byte)), NEW q2, NEW cmd \in {SetRegion, SetPower}, NEW d,
           NoQuestion(q), Sends(q, q2, cmd, d)
    PROVE  NoQuestion(q2) /\ q2 \in Seq(Seq(Byte))
<1>1. PICK r : /\ IsOrder(r) /\ TakenOf(r) = [cmd |-> cmd, data |-> d]
               /\ q2 = Append(q, r)
  BY DEF Sends
<1>2. r \in Seq(Byte)
  BY <1>1 DEF IsOrder
<1>3. TakenOf(r).cmd = cmd
  BY <1>1
<1>4. TakenOf(r).cmd \notin Questions
  BY <1>3, CommandsDiffer DEF Questions
<1>5. /\ q2 \in Seq(Seq(Byte)) /\ Len(q) \in Nat /\ Len(q2) = Len(q) + 1
      /\ \A k \in 1..Len(q) : q2[k] = q[k]
      /\ q2[Len(q) + 1] = r
  BY <1>1, <1>2, OneMore
<1>6. \A k \in 1..Len(q2) : k \in 1..Len(q) \/ k = Len(q) + 1
  BY <1>5
<1> QED
  BY <1>4, <1>5, <1>6 DEF NoQuestion

LEMMA ConfigureFresh ==
    ASSUME IInv, FreshInv, NEW c \in Configurations, Configure(c)
    PROVE  FreshInv'
<1> SUFFICES ASSUME ~late' PROVE Quiet'
  <2>1. ws' = "idle"
    BY DEF Configure
  <2> QED
    BY <2>1 DEF FreshInv
<1>1. Quiet /\ UNCHANGED <<due, storing>>
  BY DEF Configure, FreshInv, parserVars
<1>2. requests \in Seq(Seq(Byte)) /\ NoQuestion(requests)
  BY <1>1 DEF IInv, OrdersInv, Quiet
<1> DEFINE q1 == requests \o ExecuteRegion(c.region)
           q2 == q1 \o ExecutePowers(c.powers)
<1>3. q1 \in Seq(Seq(Byte)) /\ NoQuestion(q1)
  <2>1. CASE c.region = <<>>
    BY <1>2, <2>1, NoRegion
  <2>2. CASE c.region # <<>>
    <3>1. PICK d \in [1..3 -> Byte] : Sends(requests, q1, SetRegion, d)
      BY <1>2, <2>2, SendsRegion
    <3> QED
      BY <1>2, <3>1, NoQuestionSent
  <2> QED
    BY <2>1, <2>2
<1> HIDE DEF q1
<1>4. NoQuestion(q2)
  <2>1. CASE Len(c.powers) \notin {1, 4}
    BY <1>3, <2>1, NoPowers
  <2>2. CASE Len(c.powers) \in {1, 4}
    <3>1. PICK d \in [Antennas -> Byte] : Sends(q1, q2, SetPower, d)
      BY <1>3, <2>2, SendsPowers
    <3> QED
      BY <1>3, <3>1, NoQuestionSent
  <2> QED
    BY <2>1, <2>2
<1> HIDE DEF q2
<1>5. requests' = q2
  BY DEF Configure, q1, q2
<1> QED
  BY <1>1, <1>4, <1>5 DEF Quiet

LEMMA AskRegionFresh == ASSUME IInv, FreshInv, AskRegion PROVE FreshInv'
<1> SUFFICES ASSUME ~late' PROVE RegionAsked'
  <2>1. ws' = "region"
    BY DEF AskRegion, Ask
  <2> QED
    BY <2>1 DEF FreshInv
<1> DEFINE r == Request(GetRegion, <<>>)
<1>1. /\ ws = "idle" /\ requests' = Append(requests, r)
      /\ UNCHANGED <<due, reader, storing>>
      /\ late' = (late /\ (requests # <<>> \/ line # <<>> \/ storing))
  BY DEF AskRegion, Ask, parserVars
<1>2. Quiet
  <2>1. CASE ~late
    BY <1>1, <2>1 DEF FreshInv
  <2>2. CASE late
    <3>1. requests = <<>> /\ line = <<>> /\ ~storing
      BY <1>1, <2>2 DEF IInv, TypeInv
    <3>2. due = <<>>
      BY <3>1 DEF IInv, LineInv
    <3>3. Len(requests) = 0
      BY <3>1, NoneOf
    <3>4. 1..Len(requests) = {}
      BY <3>3
    <3> QED
      BY <3>1, <3>2, <3>4 DEF Quiet, NoQuestion
  <2> QED
    BY <2>1, <2>2
<1>3. TakenOf(r).cmd = GetRegion /\ r \in Seq(Byte)
  BY Question DEF IsOrder
<1> HIDE DEF r
<1>4. /\ Len(requests) \in Nat /\ Len(requests') = Len(requests) + 1
      /\ \A k \in 1..Len(requests) : requests'[k] = requests[k]
      /\ requests'[Len(requests) + 1] = r
  BY <1>1, <1>3, OneMore DEF IInv, OrdersInv
<1>5. \A k \in 1..Len(requests') : k \in 1..Len(requests) \/ k = Len(requests')
  BY <1>4
<1>6. ASSUME NEW k \in 1..Len(requests'), TakenOf(requests'[k]).cmd \in Questions
      PROVE  k = Len(requests') /\ TakenOf(requests'[k]).cmd = GetRegion
  <2>1. k \notin 1..Len(requests)
    BY <1>2, <1>4, <1>6 DEF Quiet, NoQuestion
  <2> QED
    BY <1>3, <1>4, <1>5, <2>1
<1>7. ~storing' /\ (due' # <<>> /\ Head(due').cmd \in Questions => FALSE)
  BY <1>1, <1>2 DEF Quiet
<1> QED
  BY <1>6, <1>7 DEF RegionAsked

LEMMA AskPowerFresh == ASSUME IInv, FreshInv, AskPower PROVE FreshInv'
<1> SUFFICES ASSUME ~late' PROVE PowerAsked' /\ RegionKnown'
  <2>1. ws' = "power"
    BY DEF AskPower, Ask
  <2> QED
    BY <2>1 DEF FreshInv
<1> DEFINE r == Request(GetPower, <<>>)
<1>1. /\ ws = "askPower" /\ requests' = Append(requests, r)
      /\ UNCHANGED <<due, reader, antSets, storing, late>>
  BY DEF AskPower, Ask, parserVars, history
<1>2. Settled /\ RegionKnown
  BY <1>1 DEF FreshInv
<1>3. TakenOf(r).cmd = GetPower
  BY Question
<1> HIDE DEF r
<1>4. requests' = <<r>>
  BY <1>1, <1>2 DEF Settled
<1>5. Len(<<r>>) = 1 /\ <<r>>[1] = r
  OBVIOUS
<1> QED
  BY <1>1, <1>2, <1>3, <1>4, <1>5 DEF Settled, RegionKnown, PowerAsked

LEMMA SerialFresh == ASSUME IInv, FreshInv, RunSerial PROVE FreshInv'
<1> SUFFICES ASSUME ~late' PROVE FreshInv'
  BY DEF FreshInv
<1>1. SerialDoes /\ UNCHANGED <<requests, reader, antSets, ws, late>>
  BY SerialIs
<1>2. /\ ws = "idle" => Quiet
      /\ ws = "region" => RegionAsked
      /\ ws = "askPower" => Settled /\ RegionKnown
      /\ ws = "power" => PowerAsked /\ RegionKnown
      /\ ws = "report" => Settled /\ RegionKnown /\ PowersKnown
  BY <1>1 DEF FreshInv
<1>3. (RegionKnown => RegionKnown') /\ (PowersKnown => PowersKnown')
  BY <1>1 DEF RegionKnown, PowersKnown
<1>4. CASE message'.cmd \notin Questions /\ ~storing' /\ (due' = due \/ due' = <<>>)
  <2>1. Quiet => Quiet'
    BY <1>1, <1>4 DEF Quiet, NoQuestion
  <2>2. RegionAsked => RegionAsked'
    BY <1>1, <1>4 DEF RegionAsked
  <2>3. PowerAsked => PowerAsked'
    BY <1>1, <1>4 DEF PowerAsked
  <2>4. Settled => Settled'
    BY <1>1, <1>4 DEF Settled
  <2> QED
    BY <1>1, <1>2, <1>3, <2>1, <2>2, <2>3, <2>4 DEF FreshInv
<1>5. CASE message'.cmd \in Questions /\ due = <<message'>> /\ due' = <<>>
  <2>1. Head(due) = message' /\ due # <<>>
    <3>1. Head(<<message'>>) = message' /\ <<message'>> # <<>>
      OBVIOUS
    <3> QED
      BY <1>5, <3>1
  <2>2. ~Quiet /\ ~Settled
    BY <1>5, <2>1 DEF Quiet, Settled
  <2>3. RegionAsked => RegionAsked'
    <3> SUFFICES ASSUME RegionAsked PROVE RegionAsked'
      OBVIOUS
    <3>1. requests = <<>> /\ message'.cmd = GetRegion /\ message'.data = reader.region
      BY <1>5, <2>1 DEF RegionAsked
    <3> QED
      BY <1>1, <1>5, <3>1 DEF RegionAsked
  <2>4. PowerAsked => PowerAsked'
    <3> SUFFICES ASSUME PowerAsked PROVE PowerAsked'
      OBVIOUS
    <3>1. /\ requests = <<>> /\ message'.cmd = GetPower
          /\ Uniform(reader.powers) => message'.data = <<reader.powers[1]>>
      BY <2>1 DEF PowerAsked
    <3> QED
      BY <1>1, <1>5, <3>1 DEF PowerAsked
  <2> QED
    BY <1>1, <1>2, <1>3, <2>2, <2>3, <2>4 DEF FreshInv
<1> QED
  BY <1>1, <1>4, <1>5 DEF SerialDoes

LEMMA StoreFresh == ASSUME IInv, FreshInv, Store PROVE FreshInv'
<1> SUFFICES ASSUME ~late' PROVE FreshInv'
  BY DEF FreshInv
<1>1. /\ storing /\ storing' = FALSE /\ antSets' = Decoded
      /\ ws' = CASE message.cmd = GetRegion /\ ws = "region" -> "askPower"
                 [] message.cmd = GetPower /\ ws = "power" -> "report"
                 [] OTHER -> ws
      /\ UNCHANGED <<due, message, requests, reader, late>>
  BY StoreIs
<1>2. /\ ws = "idle" => Quiet
      /\ ws = "region" => RegionAsked
      /\ ws = "askPower" => Settled /\ RegionKnown
      /\ ws = "power" => PowerAsked /\ RegionKnown
      /\ ws = "report" => Settled /\ RegionKnown /\ PowersKnown
  BY <1>1 DEF FreshInv
<1>3. antSets \in Settings /\ ws \in {"idle", "region", "askPower", "power", "report"}
      /\ reader.powers \in [Antennas -> Byte]
  BY DEF IInv, TypeInv, ReaderSettings
<1>4. ~Quiet /\ ~Settled
  BY <1>1 DEF Quiet, Settled
<1>5. CASE ws = "region"
  <2>1. /\ requests = <<>> /\ due = <<>>
        /\ message.cmd = GetRegion /\ message.data = reader.region
    BY <1>1, <1>2, <1>5 DEF RegionAsked
  <2>2. Decoded = [antSets EXCEPT !.region = message.data]
    BY <1>1, <2>1, DecodedIs, CommandsDiffer
  <2>3. antSets'.region = reader.region
    BY <1>1, <1>3, <2>1, <2>2 DEF Settings
  <2>4. ws' = "askPower"
    BY <1>1, <1>5, <2>1
  <2>5. Settled' /\ RegionKnown'
    BY <1>1, <2>1, <2>3 DEF Settled, RegionKnown
  <2> QED
    BY <2>4, <2>5 DEF FreshInv
<1>6. CASE ws = "power"
  <2>1. /\ requests = <<>> /\ due = <<>> /\ message.cmd = GetPower
        /\ Uniform(reader.powers) => message.data = <<reader.powers[1]>>
    BY <1>1, <1>2, <1>6 DEF PowerAsked
  <2>2. message.cmd # GetRegion
    BY <2>1, CommandsDiffer
  <2>3. Decoded = IF Len(message.data) = 1
                    THEN [antSets EXCEPT !.powers = PowersOf(message.data)]
                    ELSE antSets
    BY <1>1, <2>2, DecodedIs
  <2>4. antSets'.region = antSets.region
    BY <1>1, <1>3, <2>3 DEF Settings
  <2>5. ASSUME Uniform(reader.powers) PROVE antSets'.powers = reader.powers
    <3> DEFINE x == reader.powers[1]
               data == message.data
    <3>1. data = <<x>>
      BY <2>1, <2>5
    <3>2. \A a \in Antennas : reader.powers[a] = x
      BY <2>5 DEF Uniform
    <3> HIDE DEF x
    <3>3. Len(data) = 1 /\ data[1] = x
      BY <3>1
    <3>4. PowersOf(data) = reader.powers
      BY <1>3, <3>2, <3>3 DEF PowersOf
    <3>5. antSets' = [antSets EXCEPT !.powers = reader.powers]
      BY <1>1, <2>3, <3>3, <3>4
    <3> QED
      BY <1>3, <3>5 DEF Settings
  <2>6. ws' = "report"
    BY <1>1, <1>6, <2>1, <2>2
  <2>7. Settled' /\ RegionKnown' /\ PowersKnown'
    BY <1>1, <1>2, <1>6, <2>1, <2>4, <2>5 DEF Settled, RegionKnown, PowersKnown
  <2> QED
    BY <2>6, <2>7 DEF FreshInv
<1> QED
  BY <1>2, <1>3, <1>4, <1>5, <1>6

LEMMA ReaderFresh == ASSUME IInv, FreshInv, ReaderAnswers PROVE FreshInv'
<1> SUFFICES ASSUME ~late' PROVE FreshInv'
  BY DEF FreshInv
<1>1. requests # <<>> /\ requests' = Tail(requests)
      /\ UNCHANGED <<antSets, ws, late, storing>>
  BY ReaderIs DEF IInv
<1>2. PICK cmd, data : ReaderDoes(cmd, data)
  BY ReaderIs DEF IInv
<1> DEFINE m == [cmd |-> cmd, data |-> data]
<1>3. due' \in {<<>>, <<m>>}
  BY <1>2, SendStep DEF IInv, ReaderDoes
<1>4. m.cmd = cmd /\ m.data = data
  OBVIOUS
<1> HIDE DEF m
<1>5. due' # <<>> => Head(due') = m
  BY <1>3
<1>6. /\ Taken = TakenOf(requests[1]) /\ Taken.cmd = cmd
      /\ Len(requests) \in Nat \ {0} /\ Len(requests') = Len(requests) - 1
      /\ \A k \in 1..Len(requests') : requests'[k] = requests[k + 1]
      /\ requests' \in Seq(Seq(Byte))
  BY <1>1, <1>2, FirstOrder DEF IInv, ReaderDoes
<1>7. 1 \in 1..Len(requests)
      /\ \A k \in 1..Len(requests') : k + 1 \in 1..Len(requests)
                                      /\ (k + 1 = Len(requests) => k = Len(requests'))
  BY <1>6
<1>8. Len(requests) = 1 => requests' = <<>>
  BY <1>6, EmptySeq
<1>9. cmd \in Questions => reader' = reader
  BY <1>2, CommandsDiffer DEF ReaderDoes, Questions
<1>10. /\ ws = "idle" => Quiet
       /\ ws = "region" => RegionAsked
       /\ ws = "askPower" => Settled /\ RegionKnown
       /\ ws = "power" => PowerAsked /\ RegionKnown
       /\ ws = "report" => Settled /\ RegionKnown /\ PowersKnown
  BY <1>1 DEF FreshInv
<1>11. ws \in {"idle", "region", "askPower", "power", "report"}
  BY DEF IInv, TypeInv
<1>12. CASE ws = "idle"
  <2>1. cmd \notin Questions
    BY <1>6, <1>7, <1>10, <1>12 DEF Quiet, NoQuestion
  <2>2. NoQuestion(requests')
    BY <1>6, <1>7, <1>10, <1>12 DEF Quiet, NoQuestion
  <2>3. Quiet'
    BY <1>1, <1>4, <1>5, <1>10, <1>12, <2>1, <2>2 DEF Quiet
  <2> QED
    BY <1>1, <1>12, <2>3 DEF FreshInv
<1>13. CASE ws = "region"
  <2>1. CASE cmd \in Questions
    <3>1. 1 = Len(requests) /\ cmd = GetRegion
      BY <1>6, <1>7, <1>10, <1>13, <2>1 DEF RegionAsked
    <3>2. data = reader.region
      BY <1>2, <3>1, CommandsDiffer DEF ReaderDoes
    <3>3. requests' = <<>> /\ Len(requests') = 0 /\ reader' = reader
      BY <1>6, <1>8, <1>9, <2>1, <3>1
    <3>4. 1..Len(requests') = {}
      BY <3>3
    <3>5. RegionAsked'
      BY <1>1, <1>4, <1>5, <1>10, <1>13, <3>1, <3>2, <3>3, <3>4 DEF RegionAsked
    <3> QED
      BY <1>1, <1>13, <3>5 DEF FreshInv
  <2>2. CASE cmd \notin Questions
    <3>1. due' # <<>> => Head(due').cmd \notin Questions
      BY <1>4, <1>5, <2>2
    <3>2. ASSUME NEW k \in 1..Len(requests'), TakenOf(requests'[k]).cmd \in Questions
          PROVE  k = Len(requests') /\ TakenOf(requests'[k]).cmd = GetRegion
      <4>1. requests'[k] = requests[k + 1] /\ k + 1 \in 1..Len(requests)
        BY <1>6, <1>7
      <4>2. k + 1 = Len(requests) /\ TakenOf(requests[k + 1]).cmd = GetRegion
        BY <1>10, <1>13, <3>2, <4>1 DEF RegionAsked
      <4> QED
        BY <1>7, <4>1, <4>2
    <3>3. RegionAsked'
      BY <1>1, <1>10, <1>13, <3>1, <3>2 DEF RegionAsked
    <3> QED
      BY <1>1, <1>13, <3>3 DEF FreshInv
  <2> QED
    BY <2>1, <2>2
<1>14. CASE ws = "power"
  <2>1. Len(requests) = 1 /\ cmd = GetPower
    BY <1>1, <1>6, <1>10, <1>14 DEF PowerAsked
  <2>2. requests' = <<>> /\ reader' = reader
    BY <1>8, <1>9, <2>1 DEF Questions
  <2>3. Uniform(reader.powers) => data = <<reader.powers[1]>>
    BY <1>2, <2>1, CommandsDiffer DEF ReaderDoes
  <2>4. PowerAsked'
    BY <1>1, <1>4, <1>5, <1>10, <1>14, <2>1, <2>2, <2>3 DEF PowerAsked
  <2>5. RegionKnown'
    BY <1>1, <1>10, <1>14, <2>2 DEF RegionKnown
  <2> QED
    BY <1>1, <1>14, <2>4, <2>5 DEF FreshInv
<1>15. CASE ws \in {"askPower", "report"}
  BY <1>1, <1>10, <1>15 DEF Settled
<1> QED
  BY <1>11, <1>12, <1>13, <1>14, <1>15

LEMMA LostFresh == ASSUME IInv, FreshInv, RequestIsLost PROVE FreshInv'
<1> SUFFICES ASSUME ~late' PROVE FreshInv'
  BY DEF FreshInv
<1>1. /\ requests # <<>> /\ requests' = Tail(requests)
      /\ UNCHANGED <<antSets, ws, late, due, reader, storing>>
  BY DEF RequestIsLost, parserVars
<1>2. /\ Len(requests) \in Nat \ {0} /\ Len(requests') = Len(requests) - 1
      /\ \A k \in 1..Len(requests') : requests'[k] = requests[k + 1]
      /\ requests' \in Seq(Seq(Byte))
  BY <1>1, FirstOrder DEF IInv
<1>3. \A k \in 1..Len(requests') : k + 1 \in 1..Len(requests)
                                   /\ (k + 1 = Len(requests) => k = Len(requests'))
  BY <1>2
<1>4. Len(requests) = 1 => requests' = <<>>
  BY <1>2, EmptySeq
<1>5. Quiet => Quiet'
  BY <1>1, <1>2, <1>3 DEF Quiet, NoQuestion
<1>6. RegionAsked => RegionAsked'
  <2> SUFFICES ASSUME RegionAsked PROVE RegionAsked'
    OBVIOUS
  <2>1. ~storing' /\ ~(due' # <<>> /\ Head(due').cmd \in Questions)
    BY <1>1 DEF RegionAsked
  <2>2. ASSUME NEW k \in 1..Len(requests'), TakenOf(requests'[k]).cmd \in Questions
        PROVE  k = Len(requests') /\ TakenOf(requests'[k]).cmd = GetRegion
    <3>1. requests'[k] = requests[k + 1] /\ k + 1 \in 1..Len(requests)
      BY <1>2, <1>3
    <3>2. k + 1 = Len(requests) /\ TakenOf(requests[k + 1]).cmd = GetRegion
      BY <2>2, <3>1 DEF RegionAsked
    <3> QED
      BY <1>3, <3>1, <3>2
  <2> QED
    BY <2>1, <2>2 DEF RegionAsked
<1>7. PowerAsked => PowerAsked'
  <2> SUFFICES ASSUME PowerAsked PROVE PowerAsked'
    OBVIOUS
  <2>1. requests' = <<>> /\ due = <<>> /\ ~storing
    BY <1>1, <1>4 DEF PowerAsked
  <2> QED
    BY <1>1, <2>1 DEF PowerAsked
<1>8. ~Settled /\ (RegionKnown => RegionKnown')
  BY <1>1 DEF Settled, RegionKnown
<1>9. /\ ws = "idle" => Quiet
      /\ ws = "region" => RegionAsked
      /\ ws = "askPower" => Settled
      /\ ws = "power" => PowerAsked /\ RegionKnown
      /\ ws = "report" => Settled
  BY <1>1 DEF FreshInv
<1> QED
  BY <1>1, <1>5, <1>6, <1>7, <1>8, <1>9 DEF FreshInv

LEMMA StepFresh == IInv /\ FreshInv /\ [SettingsNext]_settingsVars => FreshInv'
<1> SUFFICES ASSUME IInv, FreshInv, [SettingsNext]_settingsVars PROVE FreshInv'
  OBVIOUS
<1>1. ASSUME NEW c \in Configurations, Configure(c) PROVE FreshInv'
  BY <1>1, ConfigureFresh
<1>2. CASE Timeout
  BY <1>2 DEF Timeout, FreshInv
<1>3. CASE Report
  <2>1. ws = "report" /\ ws' = "idle" /\ UNCHANGED <<requests, due, late, storing>>
    BY <1>3 DEF Report, parserVars, history
  <2>2. Settled => Quiet'
    <3> SUFFICES ASSUME Settled PROVE Quiet'
      OBVIOUS
    <3>1. requests' = <<>> /\ due' = <<>> /\ ~storing'
      BY <2>1 DEF Settled
    <3>2. Len(requests') = 0
      BY <3>1, NoneOf
    <3>3. 1..Len(requests') = {}
      BY <3>2
    <3> QED
      BY <3>1, <3>3 DEF Quiet, NoQuestion
  <2> QED
    BY <2>1, <2>2 DEF FreshInv
<1>4. CASE UNCHANGED settingsVars
  <2>1. UNCHANGED <<requests, reader, antSets, ws, late, due, storing, message>>
    BY <1>4 DEF settingsVars, parserVars, history
  <2>2. (Quiet => Quiet') /\ (RegionAsked => RegionAsked') /\ (PowerAsked => PowerAsked')
    BY <2>1 DEF Quiet, NoQuestion, RegionAsked, PowerAsked
  <2>3. (Settled => Settled') /\ (RegionKnown => RegionKnown') /\ (PowersKnown => PowersKnown')
    BY <2>1 DEF Settled, RegionKnown, PowersKnown
  <2> QED
    BY <2>1, <2>2, <2>3 DEF FreshInv
<1> QED
  BY <1>1, <1>2, <1>3, <1>4, AskRegionFresh, AskPowerFresh, SerialFresh, StoreFresh,
     ReaderFresh, LostFresh DEF SettingsNext

LEMMA InitFresh == SettingsInit => FreshInv
<1> SUFFICES ASSUME SettingsInit PROVE Quiet
  BY DEF SettingsInit, FreshInv
<1>1. requests = <<>> /\ due = <<>> /\ ~storing
  BY DEF SettingsInit, ParserInit
<1>2. Len(requests) = 0
  BY <1>1, NoneOf
<1>3. 1..Len(requests) = {}
  BY <1>2
<1> QED
  BY <1>1, <1>3 DEF Quiet, NoQuestion

(* Unless an answer nobody waits for any more may be on its way, what      *)
(* getAntSettings reports are the settings of the reader at that moment.   *)
THEOREM ReportsAreCurrent == SettingsSpec => ReportIsCurrent
<1> DEFINE Current == Report /\ ~late =>
                        /\ report'.region = reader.region
                        /\ Uniform(reader.powers) => report'.powers = reader.powers
<1>1. SettingsInit => IInv /\ FreshInv
  BY InitIInv, InitFresh
<1>2. IInv /\ FreshInv /\ [SettingsNext]_settingsVars => (IInv /\ FreshInv)'
  BY StepIInv, StepFresh
<1>3. IInv /\ FreshInv /\ [SettingsNext]_settingsVars => [Current]_settingsVars
  <2> SUFFICES ASSUME IInv, FreshInv, Report, ~late
               PROVE  /\ report'.region = reader.region
                      /\ Uniform(reader.powers) => report'.powers = reader.powers
    OBVIOUS
  <2>1. ws = "report"
    BY DEF Report
  <2>2. ~storing /\ RegionKnown /\ PowersKnown
    BY <2>1 DEF FreshInv, Settled
  <2>3. report' = antSets
    BY <2>2, ReportIs
  <2> QED
    BY <2>2, <2>3 DEF RegionKnown, PowersKnown
<1>4. SettingsSpec => [][Current]_settingsVars
  BY <1>1, <1>2, <1>3, PTL DEF SettingsSpec
<1> QED
  BY <1>4 DEF ReportIsCurrent
=============================================================================
