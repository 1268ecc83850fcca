--------------------------- MODULE DyIDSLexProofs ---------------------------
(***************************************************************************)
(* DyIDS::lex is correct on payloads of every length: it stays before the  *)
(* first NUL and returns 1 exactly when the pattern is there.              *)
(***************************************************************************)
EXTENDS DyIDSLex, TLAPS

(* No match begins before index n. *)
ClearBefore(n) == \A i \in 0 .. N : i < n => ~StartsAt(i)

(* The two bytes from index i are 01 03. *)
Pair(i) == payload[i] = 1 /\ payload[i + 1] = 3

(* A pair lies before or at the cursor. *)
PairSeen == \E i \in 0 .. N : i + 1 <= cursor /\ Pair(i)

(* The payload and the token's place: marker - 1 is where the token that is *)
(* being tried began.                                                       *)
Frame ==
    /\ TypeOK
    /\ payload[end] = 0 /\ \A i \in 0 .. N : i < end => payload[i] # 0

(* What each label knows. *)
LabelInv ==
    /\ label \in {"first_group", "yy5"} => cursor <= end /\ ClearBefore(cursor)
    /\ label = "yy2" => cursor = end /\ ClearBefore(cursor)
    /\ label = "yy4" => cursor < end /\ payload[cursor] = 1 /\ ClearBefore(cursor)
    /\ label = "yy6" => cursor < end /\ payload[cursor] # 1 /\ ClearBefore(cursor)
    /\ label \in {"yy7", "yy9"} =>
         /\ yyaccept = 0 /\ cursor = marker /\ 0 < marker /\ cursor < end
         /\ ~Pair(marker - 1) /\ ClearBefore(marker - 1)
    /\ label = "yy7" => payload[cursor] = 1
    /\ label = "yy12" =>
         /\ yyaccept = 0 /\ cursor < end /\ 0 < marker /\ marker <= end
         /\ 0 < cursor /\ payload[cursor] = 1
         /\ ~Pair(marker - 1) /\ ClearBefore(marker - 1)
    /\ label = "yy10" => cursor < end /\ PairSeen
    /\ label = "yy10" /\ yyaccept = 0 =>
         /\ 0 < marker /\ marker <= end /\ ClearBefore(marker - 1)
         /\ Pair(marker - 1) =>
              \A k \in 0 .. N : marker < k /\ k <= cursor => payload[k] # 11
    /\ label = "yy8" /\ yyaccept = 0 =>
         0 < marker /\ marker <= end /\ ClearBefore(marker)
    /\ label \in {"yy10", "yy8"} /\ yyaccept = 1 => Matches
    /\ label = "yy13" => cursor < end /\ PairSeen /\ Matches
    /\ label = "yy15" => Matches
    /\ ResultCorrect

Inv == Frame /\ LabelInv

(* The empty scan knows nothing yet and claims nothing. *)
LEMMA InvInit == Init => Inv
  BY NAssumption DEF Init, Inv, Frame, LabelInv, TypeOK, Labels, ClearBefore,
                     ResultCorrect

(* A token tried at index m - 1 that is no pair is no match either. *)
LEMMA ClearNext ==
  ASSUME Frame, NEW m \in Nat, 0 < m, ClearBefore(m - 1), ~StartsAt(m - 1)
  PROVE  ClearBefore(m)
  BY NAssumption DEF ClearBefore, Frame, TypeOK

(* Reading the next byte stays inside the memory. *)
LEMMA NextByte ==
  ASSUME Frame, cursor < end
  PROVE  /\ cursor \in 0 .. N /\ cursor + 1 \in 0 .. N /\ cursor + 1 <= end
         /\ payload[cursor + 1] = 0 => cursor + 1 = end
         /\ payload[cursor + 1] # 0 => cursor + 1 < end
  BY NAssumption DEF Frame, TypeOK

(* Every step but a return leaves the payload, its end and the result.      *)
LEMMA FrameStep ==
  ASSUME Frame, Next, LabelInv PROVE Frame'
  <1> USE DEF Frame, TypeOK, Labels
  <1>1. CASE FirstGroup
    BY <1>1 DEF FirstGroup, Switch
  <1>2. CASE AdvanceAndMark
    BY <1>2 DEF AdvanceAndMark, Switch
  <1>3. CASE Advance
    BY <1>3 DEF Advance, Switch
  <1>4. CASE Backtrack
    BY <1>4 DEF Backtrack
  <1>5. CASE SkipByte
    BY <1>5 DEF SkipByte
  <1>6. CASE ReturnNoMatch
    BY <1>6 DEF ReturnNoMatch
  <1>7. CASE ReturnMatch
    BY <1>7 DEF ReturnMatch
  <1> QED
    BY <1>1, <1>2, <1>3, <1>4, <1>5, <1>6, <1>7 DEF Next

(* Each label's knowledge follows from that of the label before it. *)
LEMMA LabelStep ==
  ASSUME Inv, Next PROVE LabelInv'
  <1>0. Frame /\ LabelInv /\ Frame' /\ TypeOK
    BY FrameStep DEF Inv, Frame
  <1>u. UNCHANGED <<payload, end>>
    BY DEF Next, FirstGroup, AdvanceAndMark, Advance, Backtrack, SkipByte,
           ReturnNoMatch, ReturnMatch
  <1>s. /\ \A i : StartsAt(i)' <=> StartsAt(i)
        /\ Matches' <=> Matches
        /\ \A i : Pair(i)' <=> Pair(i)
    BY <1>u DEF StartsAt, Matches, Pair
  <1>c. \A n : ClearBefore(n)' <=> ClearBefore(n)
    BY <1>s DEF ClearBefore
  <1>1. CASE FirstGroup
    <2>1. cursor \in 0 .. N /\ (payload[cursor] = 0 => cursor = end)
          /\ (payload[cursor] # 0 => cursor < end)
      BY <1>0, <1>1, NAssumption DEF FirstGroup, Frame, TypeOK, LabelInv
    <2> QED
      BY <1>0, <1>1, <1>c, <1>u, <2>1
      DEF FirstGroup, Switch, LabelInv, ResultCorrect, ClearBefore
  <1>2. CASE AdvanceAndMark /\ label # "yy13"
    <2>1. cursor < end /\ ClearBefore(cursor) /\ cursor' = cursor + 1
          /\ marker' = cursor + 1 /\ yyaccept' = 0 /\ cursor \in Nat
      BY <1>0, <1>2 DEF AdvanceAndMark, LabelInv, TypeOK
    <2>2. marker' - 1 = cursor
      BY <2>1
    <2>3. CASE payload[cursor + 1] = 0
      <3>1. label' = "yy5"
        BY <1>2, <2>3 DEF AdvanceAndMark, Switch
      <3>2. ~StartsAt(cursor)
        BY <2>3 DEF StartsAt
      <3>3. ClearBefore(cursor + 1) /\ cursor + 1 <= end
        BY <1>0, <2>1, <3>2, NextByte DEF ClearBefore
      <3> QED
        BY <1>c, <1>u, <2>1, <3>1, <3>3 DEF LabelInv, ResultCorrect
    <2>4. CASE payload[cursor + 1] # 0 /\ Pair(cursor)
      <3>1. label' = "yy10"
        BY <1>0, <1>2, <2>4 DEF AdvanceAndMark, Switch, LabelInv, Pair
      <3>2. PairSeen' /\ cursor' < end /\ cursor' <= end
        BY <1>0, <1>s, <1>u, <2>1, <2>4, NextByte DEF PairSeen
      <3>3. \A k \in 0 .. N : ~(marker' < k /\ k <= cursor')
        BY <2>1
      <3> QED
        BY <1>u, <1>c, <2>1, <2>2, <3>1, <3>2, <3>3 DEF LabelInv, ResultCorrect
    <2>5. CASE payload[cursor + 1] # 0 /\ ~Pair(cursor)
      <3>1. \/ label' = "yy7" /\ payload[cursor + 1] = 1
            \/ label' = "yy9"
        BY <1>0, <1>2, <2>5 DEF AdvanceAndMark, Switch, LabelInv, Pair
      <3>2. cursor' < end
        BY <1>0, <2>1, <2>5, NextByte
      <3> QED
        BY <1>u, <1>c, <1>s, <2>1, <2>2, <2>5, <3>1, <3>2 DEF LabelInv, ResultCorrect
    <2> QED
      BY <2>3, <2>4, <2>5
  <1>3. CASE AdvanceAndMark /\ label = "yy13"
    <2>1. Matches /\ cursor < end /\ cursor' = cursor + 1 /\ yyaccept' = 1
      BY <1>0, <1>3 DEF AdvanceAndMark, LabelInv
    <2>2. \/ label' = "yy15"
          \/ label' \in {"yy13", "yy10"} /\ cursor' < end
      BY <1>0, <1>3, <2>1, NextByte DEF AdvanceAndMark, Switch
    <2>3. PairSeen'
      BY <1>0, <1>3, <1>s, <2>1 DEF LabelInv, PairSeen, TypeOK
    <2> QED
      BY <1>s, <1>u, <2>1, <2>2, <2>3 DEF LabelInv, ResultCorrect
  <1>4. CASE Advance /\ label \in {"yy7", "yy9", "yy12"}
    <2>1. /\ cursor < end /\ cursor' = cursor + 1 /\ marker' = marker
          /\ yyaccept = 0 /\ yyaccept' = 0 /\ cursor \in Nat /\ marker \in Nat
          /\ 0 < marker /\ marker <= end /\ ClearBefore(marker - 1)
          /\ ~Pair(marker - 1)
      BY <1>0, <1>4 DEF Advance, LabelInv, TypeOK
    <2>2. ~StartsAt(marker - 1)
      BY <2>1 DEF StartsAt, Pair
    <2>3. ClearBefore(marker)
      BY <1>0, <2>1, <2>2, ClearNext
    <2>4. CASE label' = "yy8"
      BY <1>c, <1>u, <2>1, <2>3, <2>4 DEF LabelInv, ResultCorrect
    <2>5. CASE label' = "yy12"
      <3>1. payload[cursor + 1] = 1
        BY <1>4, <2>5 DEF Advance, Switch
      <3>2. cursor' < end
        BY <1>0, <2>1, <3>1, NextByte
      <3> QED
        BY <1>c, <1>s, <1>u, <2>1, <2>5, <3>1, <3>2 DEF LabelInv, ResultCorrect
    <2>6. CASE label' = "yy10"
      <3>1. payload[cursor] = 1 /\ payload[cursor + 1] = 3
        BY <1>0, <1>4, <2>6 DEF Advance, Switch, LabelInv
      <3>2. PairSeen' /\ cursor' < end
        BY <1>0, <1>s, <1>u, <2>1, <3>1, NextByte DEF PairSeen, Pair
      <3> QED
        BY <1>c, <1>s, <1>u, <2>1, <2>6, <3>2 DEF LabelInv, ResultCorrect
    <2> QED
      BY <1>4, <2>4, <2>5, <2>6 DEF Advance, Switch
  <1>5. CASE Advance /\ label = "yy10"
    <2>1. /\ cursor < end /\ cursor' = cursor + 1 /\ marker' = marker
          /\ yyaccept' = yyaccept /\ cursor \in Nat /\ marker \in Nat
          /\ PairSeen /\ PairSeen'
      BY <1>0, <1>5, <1>s DEF Advance, LabelInv, TypeOK, PairSeen
    <2>2. CASE payload[cursor + 1] = 0
      <3>1. label' = "yy8" /\ cursor + 1 = end
        BY <1>0, <1>5, <2>1, <2>2, NextByte DEF Advance, Switch
      <3>2. ASSUME yyaccept = 0 PROVE ClearBefore(marker) /\ 0 < marker /\ marker <= end
        <4>1. /\ 0 < marker /\ marker <= end /\ ClearBefore(marker - 1)
              /\ Pair(marker - 1) =>
                   \A k \in 0 .. N : marker < k /\ k <= cursor => payload[k] # 11
          BY <1>0, <1>5, <3>2 DEF LabelInv
        <4>2. ~StartsAt(marker - 1)
          BY <2>1, <3>1, <4>1, NAssumption DEF StartsAt, Pair
        <4> QED
          BY <1>0, <2>1, <4>1, <4>2, ClearNext
      <3>3. yyaccept = 1 => Matches
        BY <1>0, <1>5 DEF LabelInv
      <3> QED
        BY <1>c, <1>s, <1>u, <2>1, <3>1, <3>2, <3>3 DEF LabelInv, ResultCorrect
    <2>3. CASE payload[cursor + 1] = 11
      <3>1. label' = "yy13" /\ cursor' < end
        BY <1>0, <1>5, <2>1, <2>3, NextByte DEF Advance, Switch
      <3>2. Matches
        <4>1. PICK i \in 0 .. N : i + 1 <= cursor /\ Pair(i)
          BY <2>1 DEF PairSeen
        <4>2. cursor + 1 \in 0 .. N /\ cursor + 1 < end
          BY <1>0, <2>1, <2>3, NextByte
        <4>3. i + 1 < end /\ i + 1 < cursor + 1
          BY <1>0, <2>1, <4>1, <4>2, NAssumption DEF TypeOK
        <4>4. StartsAt(i)
          BY <2>3, <4>1, <4>2, <4>3 DEF StartsAt, Pair
        <4> QED
          BY <4>4 DEF Matches
      <3> QED
        BY <1>s, <1>u, <2>1, <3>1, <3>2 DEF LabelInv, ResultCorrect
    <2>4. CASE payload[cursor + 1] \notin {0, 11}
      <3>1. label' = "yy10" /\ cursor' < end
        BY <1>0, <1>5, <2>1, <2>4, NextByte DEF Advance, Switch
      <3>2. yyaccept = 1 => Matches
        BY <1>0, <1>5 DEF LabelInv
      <3>3. ASSUME yyaccept = 0
            PROVE  /\ 0 < marker /\ marker <= end /\ ClearBefore(marker - 1)
                   /\ Pair(marker - 1) =>
                        \A k \in 0 .. N : marker < k /\ k <= cursor' => payload[k] # 11
        <4>1. /\ 0 < marker /\ marker <= end /\ ClearBefore(marker - 1)
              /\ Pair(marker - 1) =>
                   \A k \in 0 .. N : marker < k /\ k <= cursor => payload[k] # 11
          BY <1>0, <1>5, <3>3 DEF LabelInv
        <4> QED
          BY <2>1, <2>4, <4>1
      <3> QED
        BY <1>c, <1>s, <1>u, <2>1, <3>1, <3>2, <3>3 DEF LabelInv, ResultCorrect
    <2> QED
      BY <2>2, <2>3, <2>4
  <1>6. CASE Backtrack
    <2>1. yyaccept = 0 => ClearBefore(marker) /\ marker <= end
      BY <1>0, <1>6 DEF Backtrack, LabelInv
    <2>2. yyaccept = 1 => Matches
      BY <1>0, <1>6 DEF Backtrack, LabelInv
    <2> QED
      BY <1>0, <1>6, <1>c, <1>s, <1>u, <2>1, <2>2
      DEF Backtrack, LabelInv, ResultCorrect, TypeOK
  <1>7. CASE SkipByte
    BY <1>0, <1>7, <1>c, <1>u DEF SkipByte, LabelInv, ResultCorrect
  <1>8. CASE ReturnNoMatch
    <2>1. ClearBefore(end)
      BY <1>0, <1>8 DEF ReturnNoMatch, LabelInv
    <2>2. ~Matches
      BY <1>0, <2>1, NAssumption DEF ClearBefore, Matches, StartsAt, TypeOK
    <2> QED
      BY <1>8, <1>s, <2>2 DEF ReturnNoMatch, LabelInv, ResultCorrect
  <1>9. CASE ReturnMatch
    BY <1>0, <1>9, <1>s DEF ReturnMatch, LabelInv, ResultCorrect
  <1> QED
    BY <1>1, <1>2, <1>3, <1>4, <1>5, <1>6, <1>7, <1>8, <1>9
    DEF Next, AdvanceAndMark, Advance

(* The inductive invariant holds throughout every scan. *)
LEMMA InvStable == Spec => []Inv
  <1>1. Inv /\ [Next]_vars => Inv'
    <2>1. ASSUME Inv, Next PROVE Inv'
      BY <2>1, FrameStep, LabelStep DEF Inv
    <2>2. ASSUME Inv, UNCHANGED vars PROVE Inv'
      BY <2>2 DEF vars, Inv, Frame, LabelInv, TypeOK, ClearBefore, StartsAt,
                  Matches, Pair, PairSeen, ResultCorrect
    <2> QED
      BY <2>1, <2>2
  <1> QED
    BY <1>1, InvInit, PTL DEF Spec

(* On a payload of any length the scanner never reads past the first NUL,   *)
(* so a payload that holds one is never over-read.                          *)
THEOREM NeverPastNul == Spec => []NoReadPastNul
  <1>1. Inv => NoReadPastNul
    BY DEF Inv, LabelInv, NoReadPastNul, Reading
  <1> QED
    BY <1>1, InvStable, PTL

(* On a payload of any length lex returns 1 if and only if 01 03 and later  *)
(* 0b occur before the first NUL.                                           *)
THEOREM LexCorrect == Spec => []ResultCorrect
  <1>1. Inv => ResultCorrect
    BY DEF Inv, LabelInv
  <1> QED
    BY <1>1, InvStable, PTL
=============================================================================
