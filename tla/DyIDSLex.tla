------------------------------ MODULE DyIDSLex ------------------------------
(***************************************************************************)
(* DyIDS::lex, the generated scanner that the intrusion detection element  *)
(* runs over a packet's payload: the labels yy2 .. yy15, the cursor, the   *)
(* marker it backtracks to and yyaccept.  Each step runs one label's code  *)
(* up to its goto.  The payload is the memory from the cursor's start; the *)
(* scanner stops at a NUL byte and has no other bound.                     *)
(***************************************************************************)
EXTENDS Integers

CONSTANTS
    N,          \* bound: the last index of the memory modelled
    Byte        \* byte values told apart

ASSUME NAssumption == N \in Nat
ASSUME ByteAssumption == {0, 1, 3, 11} \subseteq Byte

VARIABLES
    payload,    \* the memory scanned
    end,        \* index of its first NUL
    label, cursor, marker, yyaccept, result

vars == <<payload, end, label, cursor, marker, yyaccept, result>>

Labels == {"first_group", "yy2", "yy4", "yy5", "yy6", "yy7", "yy8", "yy9",
           "yy10", "yy12", "yy13", "yy15", "returned"}

Init ==
    /\ payload \in [0 .. N -> Byte]
    /\ end \in 0 .. N /\ payload[end] = 0
    /\ \A i \in 0 .. N : i < end => payload[i] # 0
    /\ label = "first_group" /\ cursor = 0 /\ marker = 0 /\ yyaccept = 0
    /\ result = -1

(* The switch at the end of a label: where byte c leads from label l. *)
Switch(l, c) ==
    CASE l = "first_group" -> (CASE c = 0 -> "yy2"
                                 [] c = 1 -> "yy4"
                                 [] OTHER -> "yy6")
      [] l = "yy4"  -> (CASE c = 0 -> "yy5"
                          [] c = 1 -> "yy7"
                          [] c = 3 -> "yy10"
                          [] OTHER -> "yy9")
      [] l = "yy6"  -> (CASE c = 0 -> "yy5"
                          [] c = 1 -> "yy7"
                          [] OTHER -> "yy9")
      [] l = "yy7"  -> (CASE c = 1 -> "yy12"
                          [] c = 3 -> "yy10"
                          [] OTHER -> "yy8")
      [] l = "yy9"  -> IF c = 1 THEN "yy12" ELSE "yy8"
      [] l = "yy10" -> (CASE c = 0 -> "yy8"
                          [] c = 11 -> "yy13"
                          [] OTHER -> "yy10")
      [] l = "yy12" -> IF c = 3 THEN "yy10" ELSE "yy8"
      [] l = "yy13" -> (CASE c = 0 -> "yy15"
                          [] c = 11 -> "yy13"
                          [] OTHER -> "yy10")

(* The start of a token: look at the byte under the cursor. *)
FirstGroup ==
    /\ label = "first_group"
    /\ yyaccept' = 0
    /\ label' = Switch(label, payload[cursor])
    /\ UNCHANGED <<payload, end, cursor, marker, result>>

(* Mutant: the marker is taken before the cursor advances. *)
MarkAndAdvance ==
    /\ label \in {"yy4", "yy6", "yy13"}
    /\ yyaccept' = IF label = "yy13" THEN 1 ELSE 0
    /\ cursor' = cursor + 1 /\ marker' = cursor
    /\ label' = Switch(label, payload[cursor + 1])
    /\ UNCHANGED <<payload, end, result>>

(* Mutant: yy13 does not note the match to fall back to. *)
AdvanceNoAccept ==
    /\ label \in {"yy4", "yy6", "yy13"}
    /\ yyaccept' = 0
    /\ cursor' = cursor + 1 /\ marker' = cursor + 1
    /\ label' = Switch(label, payload[cursor + 1])
    /\ UNCHANGED <<payload, end, result>>

(* yy4, yy6, yy13: advance, and remember the place to come back to. *)
AdvanceAndMark ==
    /\ label \in {"yy4", "yy6", "yy13"}
    /\ yyaccept' = IF label = "yy13" THEN 1 ELSE 0
    /\ cursor' = cursor + 1 /\ marker' = cursor + 1
    /\ label' = Switch(label, payload[cursor + 1])
    /\ UNCHANGED <<payload, end, result>>

(* Mutant: yy10 does not stop at a NUL. *)
AdvanceOverNul ==
    /\ label \in {"yy7", "yy9", "yy10", "yy12"}
    /\ cursor' = cursor + 1
    /\ label' = IF label = "yy10" /\ payload[cursor + 1] = 0
                THEN label ELSE Switch(label, payload[cursor + 1])
    /\ UNCHANGED <<payload, end, marker, yyaccept, result>>

(* yy7, yy9, yy10, yy12: advance. *)
Advance ==
    /\ label \in {"yy7", "yy9", "yy10", "yy12"}
    /\ cursor' = cursor + 1
    /\ label' = Switch(label, payload[cursor + 1])
    /\ UNCHANGED <<payload, end, marker, yyaccept, result>>

(* yy8: no transition; fall back to the marker. *)
Backtrack ==
    /\ label = "yy8"
    /\ cursor' = marker
    /\ label' = IF yyaccept = 0 THEN "yy5" ELSE "yy15"
    /\ UNCHANGED <<payload, end, marker, yyaccept, result>>

(* yy5: the byte is skipped, scan on from the cursor. *)
SkipByte ==
    /\ label = "yy5"
    /\ label' = "first_group"
    /\ UNCHANGED <<payload, end, cursor, marker, yyaccept, result>>

(* yy2 and yy15: the two returns. *)
ReturnNoMatch ==
    /\ label = "yy2"
    /\ cursor' = cursor + 1 /\ result' = 0 /\ label' = "returned"
    /\ UNCHANGED <<payload, end, marker, yyaccept>>

ReturnMatch ==
    /\ label = "yy15"
    /\ result' = 1 /\ label' = "returned"
    /\ UNCHANGED <<payload, end, cursor, marker, yyaccept>>

Next == \/ FirstGroup \/ AdvanceAndMark \/ Advance \/ Backtrack \/ SkipByte
        \/ ReturnNoMatch \/ ReturnMatch

Spec == Init /\ [][Next]_vars
FairSpec == Spec /\ WF_vars(Next)

-----------------------------------------------------------------------------
(* Properties.                                                              *)

(* The labels whose code reads the byte after the cursor. *)
Reading == {"yy4", "yy6", "yy7", "yy9", "yy10", "yy12", "yy13"}

(* Every variable has its type. *)
TypeOK ==
    /\ payload \in [0 .. N -> Byte] /\ end \in 0 .. N
    /\ label \in Labels
    /\ cursor \in Nat /\ marker \in Nat
    /\ yyaccept \in {0, 1} /\ result \in {-1, 0, 1}

(* The scanner never reads past the NUL, through every backtrack: a label   *)
(* that reads the next byte is entered only with the NUL still ahead.       *)
NoReadPastNul ==
    /\ label = "first_group" => cursor <= end
    /\ label \in Reading => cursor < end

(* What the scanner looks for: 01 03 and, later, 0b, before the first NUL.  *)
StartsAt(i) ==
    /\ i + 1 < end /\ payload[i] = 1 /\ payload[i + 1] = 3
    /\ \E k \in 0 .. N : i + 1 < k /\ k < end /\ payload[k] = 11

Matches == \E i \in 0 .. N : StartsAt(i)

(* lex returns 1 exactly for the payloads that match, although it looks for *)
(* the pattern three bytes at a time and restarts after every failure.      *)
ResultCorrect == label = "returned" => result = IF Matches THEN 1 ELSE 0

(* The scanner returns on every payload that has a NUL. *)
Terminates == <>(label = "returned")
=============================================================================
