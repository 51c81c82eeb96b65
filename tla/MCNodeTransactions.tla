-------------------------- MODULE MCNodeTransactions --------------------------
(***************************************************************************)
(* NodeTransactions on small instances.  Sessions are interchangeable.     *)
(***************************************************************************)
EXTENDS NodeTransactions, TLC

Symmetry == Permutations(Session) \cup Permutations(Config)
=============================================================================
