---------------------------- MODULE MCPanelNodes ----------------------------
(***************************************************************************)
(* PanelNodes on small instances.  Node ids and configs are interchangeable. *)
(***************************************************************************)
EXTENDS PanelNodes, TLC

Symmetry == Permutations(Node) \cup Permutations(Config)
=============================================================================
