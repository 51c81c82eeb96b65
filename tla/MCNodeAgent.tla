---------------------------- MODULE MCNodeAgent ----------------------------
(***************************************************************************)
(* NodeAgent on small instances.  Two numbers are enough for an activation *)
(* over an older one and for a rollback to it; the panel may hand out any  *)
(* of them again, whatever the agent reported.                             *)
(*                                                                         *)
(* ConfigValidation runs first, until it leaves the document a panel       *)
(* renders: the agent's steps do not depend on it, so the states of the    *)
(* two are added and not multiplied.                                       *)
(***************************************************************************)
EXTENDS NodeAgent, ConfigValidation

CONSTANTS good, bad     \* configs

SmallOffer ==
  {[number |-> 1, target |-> 0, config |-> good],
   [number |-> 2, target |-> 1, config |-> good],
   [number |-> 3, target |-> 1, config |-> bad]}

Start == Init /\ Renders

GatesThenAgent ==
  /\ Start
  /\ [][\/ Init /\ Changes /\ UNCHANGED agentVars
        \/ document = Rendered(TRUE) /\ Next /\ UNCHANGED document]_<<agentVars, document>>
=============================================================================
