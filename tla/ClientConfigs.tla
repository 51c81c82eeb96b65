---------------------------- MODULE ClientConfigs ----------------------------
(***************************************************************************)
(* What is inside a config: which subscriptions become clients of which    *)
(* node, and what happens to their traffic limits on the way from the      *)
(* subscriptions table to the hash the agent verifies.                     *)
(*                                                                         *)
(* panel-api hashes and signs the JSON it rendered from int64 columns and  *)
(* stores it as jsonb, which keeps every digit.  From there on the payload *)
(* is a map[string]any: its numbers are float64 whenever panel-api or      *)
(* node-agent reads it, and are written as the shortest decimal that reads *)
(* back as that float64.  PanelNodes and NodeAgent take the config as      *)
(* opaque; here it is opened, and the lifecycle of a node is cut down to   *)
(* what the two queries on subscriptions ask of it.                        *)
(***************************************************************************)
EXTENDS Integers, Sequences, FiniteSetsExt

CONSTANTS Subscription,
          Node,
          RegionOf,     \* the region column of each node
          Preference,   \* values of preferred_region, "" for none
          Limit,        \* values of traffic_limit_bytes, 0 for NULL
          Mantissa,     \* bits of a float's significand: 53
          Decimals,     \* decimal digits a limit may have: 19
          MaxRevision   \* bound: revisions created, of all nodes

ASSUME ConfigsAssumption ==
  /\ Limit \subseteq Nat
  /\ {Mantissa, Decimals} \subseteq Nat \ {0}
  /\ MaxRevision \in Nat

VARIABLES subs,       \* subscriptions joined with their users
          nodes,      \* the node rows
          revisions,  \* config_revisions of every node, in order of number
          fresh       \* history: the deploy no subscription changed since

vars == <<subs, nodes, revisions, fresh>>

-----------------------------------------------------------------------------
(* Numbers *)

\* A function, not base^k: the proofs reason about how powers grow.
Power(base) == LET p[k \in Nat] == IF k = 0 THEN 1 ELSE base * p[k - 1] IN p

Nearest(n, candidates) ==
  CHOOSE c \in candidates :
    \A d \in candidates : Max({n - c, c - n}) <= Max({n - d, d - n})

\* The nearest float64, ties to the even significand.
Float(n) ==
  LET e == CHOOSE k \in 0..n : /\ n < Power(2)[Mantissa + k]
                               /\ k = 0 \/ n >= Power(2)[Mantissa + k - 1]
      u == Power(2)[e]      \* the unit of its last bit
      q == n \div u
      r == 2 * (n % u)
  IN  IF r < u \/ (r = u /\ q % 2 = 0) THEN q * u ELSE (q + 1) * u

\* encoding/json writes the shortest digits that read back as the float,
\* padded with zeros.
Written(float) ==
  LET Rounded(k) ==
        LET u == Power(10)[k]
        IN  {c \in {(float \div u) * u, (float \div u + 1) * u} : Float(c) = float}
      zeros == Max({k \in 0..Decimals : Rounded(k) # {}})
  IN  Nearest(float, Rounded(zeros))

-----------------------------------------------------------------------------
(* Rows *)

\* eligible: subscription and user are active and expires_at is ahead.
SubscriptionRow == [eligible : BOOLEAN, region : Preference, limit : Limit]

\* serving: active and not draining, with a hostname.  idle: none of the three
\* others, an unhealthy node say.
NodeState == {"serving", "idle", "draining", "disabled"}
NodeRow   == [state : NodeState, activeRevision : Nat]

\* The payload as a text: what is hashed, and what is stored.
Text(number, kind, limits) == [number |-> number, kind |-> kind, limits |-> limits]

\* A text that went through a map[string]any.
Reread(text) ==
  [text EXCEPT !.limits = [s \in DOMAIN @ |-> Written(Float(@[s]))]]

Clients(revision) == DOMAIN revision.text.limits

\* Mutation: a subscription without a preference goes nowhere.
PreferredOnly(n) ==
  {s \in Subscription : subs[s].eligible /\ subs[s].region = RegionOf[n]}

\* The WHERE clause of listConfigSubscriptionInputs.
ConfigSubscriptionInputs(n) ==
  {s \in Subscription :
     /\ subs[s].eligible
     /\ subs[s].region \in {"", RegionOf[n]}}

\* The nodes Access may export for s; it takes the first by region, name and id.
AccessNodes(s) ==
  {n \in Node : /\ subs[s].eligible
                /\ nodes[n].state = "serving"
                /\ subs[s].region \in {"", RegionOf[n]}}

-----------------------------------------------------------------------------

Init ==
  /\ subs \in [Subscription -> [eligible : {FALSE}, region : {""}, limit : Limit]]
  /\ nodes = [n \in Node |-> [state |-> "idle", activeRevision |-> 0]]
  /\ revisions = [n \in Node |-> <<>>]
  /\ fresh = [n \in Node |-> 0]

\* Created, updated, suspended, renewed or expired, or its user suspended.
SubscriptionChanges(s) ==
  /\ \E row \in SubscriptionRow : subs' = [subs EXCEPT ![s] = row]
  /\ subs' # subs
  /\ fresh' = [n \in Node |-> 0]
  /\ UNCHANGED <<nodes, revisions>>

NodeChanges(n) ==
  /\ \E state \in NodeState \ {nodes[n].state} :
       nodes' = [nodes EXCEPT ![n].state = state]
  /\ UNCHANGED <<subs, revisions, fresh>>

Created == MapThenSumSet(LAMBDA n : Len(revisions[n]), Node)

Sign(n, text, hashed) ==
  /\ nodes[n].state \in {"serving", "idle"}
  /\ Created < MaxRevision      \* bound
  /\ revisions' = [revisions EXCEPT ![n] =
       Append(@, [text |-> text, hashed |-> hashed, status |-> "pending"])]

CreateDummyConfigRevision(n) ==
  LET number == Len(revisions[n]) + 1
      text   == Text(number, "deploy",
                     [s \in ConfigSubscriptionInputs(n) |-> subs[s].limit])
  IN  /\ Sign(n, text, text)
      /\ fresh' = [fresh EXCEPT ![n] = number]
      /\ UNCHANGED <<subs, nodes>>

\* Mutation: the stored bundle_json is spliced as raw JSON and hashed as a map.
RollbackHashedBeforeClone(n, k) ==
  LET target == revisions[n][k]
      text   == Text(Len(revisions[n]) + 1, "rollback", target.text.limits)
  IN  /\ target.status = "applied"
      /\ Sign(n, text, target.hashed)
      /\ UNCHANGED <<subs, nodes, fresh>>

\* The target's bundle_json was read into a map and is cloned through JSON
\* before it is hashed.  Its clients are the target's, eligible or not.
CreateRollbackConfigRevision(n, k) ==
  LET target == revisions[n][k]
      text   == Text(Len(revisions[n]) + 1, "rollback", Reread(target.text).limits)
  IN  /\ target.status = "applied"
      /\ Sign(n, text, text)
      /\ UNCHANGED <<subs, nodes, fresh>>

\* Mutation: the hash is not verified.
AnyHash(revision) == TRUE

\* verifyConfigBundleHash: the agent marshals the bundle it decoded.  A rendered
\* payload passes its other checks.
Verifies(revision) == revision.hashed = Reread(revision.text)

\* The node's agent takes the latest pending revision and reports.  One that
\* verifies may fail for another reason; "refused" is a failed revision with
\* 'invalid config bundle hash' for its error_message.
Decide(n, k) ==
  /\ nodes[n].state # "disabled"
  /\ revisions[n][k].status = "pending"
  /\ \A j \in (k + 1)..Len(revisions[n]) : revisions[n][j].status # "pending"
  /\ \E verdict \in IF Verifies(revisions[n][k]) THEN {"applied", "failed"}
                                                 ELSE {"refused"} :
       /\ revisions' = [revisions EXCEPT ![n][k].status = verdict]
       /\ nodes' = [nodes EXCEPT ![n].activeRevision =
                      IF verdict = "applied" THEN k ELSE @]
  /\ UNCHANGED <<subs, fresh>>

Next ==
  \/ \E s \in Subscription : SubscriptionChanges(s)
  \/ \E n \in Node :
       \/ NodeChanges(n)
       \/ CreateDummyConfigRevision(n)
       \/ \E k \in 1..Len(revisions[n]) :
            CreateRollbackConfigRevision(n, k) \/ Decide(n, k)

Spec == Init /\ [][Next]_vars

-----------------------------------------------------------------------------
(* Properties *)

\* A revision that panel-api signed is refused only because a limit above
\* 2^Mantissa, in any of its clients, lost digits; a rollback is never refused,
\* its numbers have been through a float64 before they were hashed.
RefusedOnlyByRounding ==
  \A n \in Node, k \in 1..MaxRevision :
    k <= Len(revisions[n]) /\ revisions[n][k].status = "refused" =>
      /\ revisions[n][k].text.kind = "deploy"
      /\ \E s \in Clients(revisions[n][k]) :
           revisions[n][k].text.limits[s] > Power(2)[Mantissa]

\* Every limit in an active config is one of the subscriptions' column and is written
\* back as it was: what survives the agent's check survived float64 unrounded.
ActiveLimitsAreExact ==
  \A n \in Node :
    nodes[n].activeRevision # 0 =>
      \A s \in Clients(revisions[n][nodes[n].activeRevision]) :
        LET limit == revisions[n][nodes[n].activeRevision].text.limits[s]
        IN  limit \in Limit /\ Written(Float(limit)) = limit

\* The link a subscription is given works once the node was deployed to: no node
\* Access may export lacks the subscription when its active config is a deploy
\* since which no subscription changed.  The two queries are written apart.
LinkWorksAfterDeploy ==
  \A s \in Subscription : \A n \in AccessNodes(s) :
    nodes[n].activeRevision = fresh[n] /\ fresh[n] # 0 =>
      s \in Clients(revisions[n][fresh[n]])

\* What services/panel-api/README.md says of the payload: it is hash stable, so
\* the agent accepts whatever panel-api signed.
SignedIsAccepted ==
  \A n \in Node, k \in 1..MaxRevision :
    k <= Len(revisions[n]) => revisions[n][k].status # "refused"
=============================================================================
