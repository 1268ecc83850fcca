----------------------------- MODULE SolverCall -----------------------------
(***************************************************************************)
(* What run_short_solver promises the controller, whatever goes on between *)
(* the pipes: a call returns, and what it applied, if anything, is the     *)
(* answer to the request it sent.  The promise is void once the call is    *)
(* broken (SolverPipe says by what), and it stays void.                    *)
(***************************************************************************)
EXTENDS Integers

CONSTANT None       \* no answer was applied

VARIABLES
    call,           \* "idle", "asked" or "broken"
    req,            \* requests made
    used            \* the request whose answer the last call applied

vars == <<call, req, used>>

Init == call = "idle" /\ req = 0 /\ used = None

(* The controller sends the next request; its old answer is history. *)
Ask ==
    /\ call = "idle" /\ call' = "asked"
    /\ req' = req + 1 /\ used' = None

(* value = 1: the answer is applied, once. *)
Apply ==
    /\ call = "asked" /\ used = None /\ used' = req
    /\ UNCHANGED <<call, req>>

(* The call returns, with or without an answer. *)
Return ==
    /\ call = "asked" /\ call' = "idle"
    /\ UNCHANGED <<req, used>>

(* The solver threw, or was asked before it was there, or somebody died. *)
Break ==
    /\ call # "broken" /\ call' = "broken"
    /\ req' = 0 /\ used' = None

Next == Ask \/ Apply \/ Return \/ Break

(* No call waits for ever. *)
Returns == call = "asked" ~> call # "asked"

Spec == Init /\ [][Next]_vars /\ Returns
=============================================================================
