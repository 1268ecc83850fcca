----------------------------- MODULE MCDyIDSLex -----------------------------
(* All memories of a few bytes; 7 stands for every byte that has no switch  *)
(* case of its own.                                                         *)
EXTENDS DyIDSLex

SomeBytes == {0, 1, 3, 7, 11}
=============================================================================
