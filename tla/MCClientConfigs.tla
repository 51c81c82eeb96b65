--------------------------- MODULE MCClientConfigs ---------------------------
(* Two nodes in two regions and floats of three bits: 8 is the last number  *)
(* below which none is missing, 9 is rounded, and 64 is a float but its     *)
(* shortest digits are those of 60.                                         *)
EXTENDS ClientConfigs, TLC

CONSTANTS n1, n2, a, b

MCNode     == {n1, n2}
MCRegionOf == n1 :> "eu" @@ n2 :> "us"
Symmetry   == Permutations({a, b})
=============================================================================
