--------------------------- MODULE ConfigRollout ---------------------------
(***************************************************************************)
(* What delivering configs promises to the admin of a node: revisions are  *)
(* numbered in order, every one gets at most one verdict, and 'applied' is *)
(* said only of a revision whose artifacts the node holds.  ConfigDelivery *)
(* implements it with two processes, a network and files.                  *)
(***************************************************************************)
EXTENDS Naturals

CONSTANT MaxRevision     \* bound: revisions ever created

VARIABLES verdict,  \* of every revision number
          held      \* revisions whose artifacts the node holds

Number == 1..MaxRevision

Init ==
  /\ verdict = [k \in Number |-> "none"]
  /\ held = {}

Create(k) ==
  /\ verdict[k] = "none"
  /\ \A j \in 1..(k - 1) : verdict[j] # "none"
  /\ verdict' = [verdict EXCEPT ![k] = "pending"]
  /\ UNCHANGED held

\* Not only while it is pending: a verdict may overtake the node's next attempt.
Hold(k) ==
  /\ verdict[k] # "none"
  /\ held' = held \cup {k}
  /\ UNCHANGED verdict

Decide(k, outcome) ==
  /\ verdict[k] = "pending"
  /\ outcome = "applied" => k \in held
  /\ verdict' = [verdict EXCEPT ![k] = outcome]
  /\ UNCHANGED held

Next ==
  \E k \in Number :
    \/ Create(k)
    \/ Hold(k)
    \/ \E outcome \in {"applied", "failed"} : Decide(k, outcome)

Spec == Init /\ [][Next]_<<verdict, held>>
=============================================================================
