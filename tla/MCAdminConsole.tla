--------------------------- MODULE MCAdminConsole ---------------------------
(***************************************************************************)
(* AdminConsole on small instances; requests, and columns and values that   *)
(* nothing computes with, are interchangeable.                              *)
(***************************************************************************)
EXTENDS AdminConsole, TLC

Symmetry ==
  Permutations(Request) \cup Permutations(Column) \cup Permutations(Value)
=============================================================================
