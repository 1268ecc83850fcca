---------------------------- MODULE MCFlowRatio ----------------------------
(* The flows are interchangeable: sorting may put equal shares either way. *)
EXTENDS FlowRatio, TLC

FlowSymmetry == Permutations(Flows)
=============================================================================
