------------------------ MODULE MCSubscriptionAccess ------------------------
(***************************************************************************)
(* SubscriptionAccess on small instances; requests are interchangeable.    *)
(***************************************************************************)
EXTENDS SubscriptionAccess, TLC

Symmetry == Permutations(Session)
=============================================================================
