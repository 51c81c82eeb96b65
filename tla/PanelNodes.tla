----------------------------- MODULE PanelNodes -----------------------------
(***************************************************************************)
(* The node side of panel-api: the rows of nodes, node_bootstrap_tokens,   *)
(* node_registrations and config_revisions, and the repository operations  *)
(* of storage/nodes.go that the admin and the node HTTP handlers call.     *)
(*                                                                         *)
(* Every operation that takes the row lock of its node first (Drain,       *)
(* Disable, the two revision creations, ...) or is one SQL statement is    *)
(* one action: such transactions are serialised by the row.                *)
(* ReportConfigRevision is the exception.  Its first UPDATE reads the node *)
(* through a join, without locking it, and its second UPDATE tests the     *)
(* node again without looking at the number of rows it changed, so another *)
(* transaction may commit between the two, and between a second UPDATE     *)
(* that changed no row and the commit: it is a ReportBegin, sometimes a    *)
(* ReportMisses and a ReportCommit step, and 'reporting' holds the         *)
(* transactions in between.  NodeTransactions goes statement by statement. *)
(***************************************************************************)
EXTENDS Integers, FiniteSets, FiniteSetsExt

CONSTANTS Node,              \* ids a node row can have
          Config,            \* rendered Xray configs, opaque
          ReportedRevision,  \* revision numbers a node client sends
          ReportedState,     \* runtime states it sends
          ReportedStatus,    \* node statuses it sends
          MaxRevision,       \* bound: revisions created for a node
          MaxReports         \* bound: report transactions open at once

\* The values of the status column, and of runtime_state once normalised.
NodeStatus == {"pending", "active", "unhealthy", "drained", "disabled"}
RuntimeState == {"not_prepared", "active_config_ready", "validation_failed",
                 "prepare_failed"}

ASSUME PanelAssumption ==
  /\ ReportedRevision \subseteq Nat
  /\ ReportedState \subseteq RuntimeState
  /\ ReportedStatus \subseteq NodeStatus
  /\ MaxRevision \in Nat
  /\ MaxReports \in Nat

VARIABLES nodes,          \* nodes joined with its one bootstrap token row
          revisions,      \* rows of config_revisions
          registrations,  \* rows of node_registrations, counted per node
          reporting       \* report transactions between their statements

vars == <<nodes, revisions, registrations, reporting>>

-----------------------------------------------------------------------------
(* Rows *)

DrainState == {"active", "draining", "drained"}
Outcome    == {"applied", "failed"}

NodeRow ==
  [status         : NodeStatus \cup {"absent"},
   drainState     : DrainState,
   bootstrap      : {"none", "active", "used"},
   expired        : BOOLEAN,       \* expires_at is not after now
   registered     : BOOLEAN,       \* registered_at and auth_token_hash are set
   activeRevision : Nat,
   lastApplied    : Nat,
   runtimeState   : RuntimeState]

Revision ==
  [node   : Node,
   number : Nat,
   status : {"pending"} \cup Outcome,
   kind   : {"deploy", "rollback"},
   source : Nat,      \* source_revision_number, 0 for a deploy
   target : Nat,      \* rollback_target_revision
   config : Config]

\* What the body of a report carries once the handler filled its defaults, and
\* whether the transaction's second UPDATE already ran and changed no row.
Report ==
  [node : Node, number : Nat, outcome : Outcome, lastApplied : Nat,
   runtimeState : RuntimeState, missed : BOOLEAN]

NoRow ==
  [status |-> "absent", drainState |-> "active", bootstrap |-> "none",
   expired |-> FALSE, registered |-> FALSE, activeRevision |-> 0,
   lastApplied |-> 0, runtimeState |-> "not_prepared"]

Exists(n)      == nodes[n].status # "absent"
RevisionsOf(n) == {r \in revisions : r.node = n}
Numbers(n)     == {r.number : r \in RevisionsOf(n)}
NextNumber(n) == Max({0} \cup Numbers(n)) + 1
Pending(n)    == {r \in RevisionsOf(n) : r.status = "pending"}

\* Mutation: registered_at IS NOT NULL is missing.
AuthorisedUnregistered(n, holder) ==
  /\ holder = n
  /\ nodes[n].status # "disabled"

\* The WHERE clause of every node-facing statement: the bearer token is the
\* one issued to this node, and the node is registered and not disabled.
Authorised(n, holder) ==
  /\ holder = n
  /\ nodes[n].registered
  /\ nodes[n].status # "disabled"

\* Mutation: the latest revision, if it is pending.
LatestIfPending(n, holder) ==
  {r \in Pending(n) : /\ Authorised(n, holder)
                      /\ \A s \in RevisionsOf(n) : s.number <= r.number}

\* FindLatestPendingConfigRevision: at most one row, the highest number.
LatestPending(n, holder) ==
  {r \in Pending(n) : /\ Authorised(n, holder)
                      /\ \A s \in Pending(n) : s.number <= r.number}

-----------------------------------------------------------------------------
(* Node lifecycle *)

Init ==
  /\ nodes = [n \in Node |-> NoRow]
  /\ revisions = {}
  /\ registrations = [n \in Node |-> 0]
  /\ reporting = {}

CreateBootstrapToken(n) ==
  /\ ~Exists(n)
  /\ nodes' = [nodes EXCEPT ![n] =
                 [NoRow EXCEPT !.status = "pending", !.bootstrap = "active"]]
  /\ UNCHANGED <<revisions, registrations, reporting>>

\* Time passes the expires_at of an unused token.
BootstrapTokenExpires(n) ==
  /\ nodes[n].bootstrap = "active"
  /\ ~nodes[n].expired
  /\ nodes' = [nodes EXCEPT ![n].expired = TRUE]
  /\ UNCHANGED <<revisions, registrations, reporting>>

\* The token row is locked first, so two registrations cannot interleave; a
\* disabled node rolls everything back and the token stays usable.
Register(n) ==
  /\ nodes[n].bootstrap = "active"
  /\ ~nodes[n].expired
  /\ nodes[n].status \in {"pending", "active", "unhealthy", "drained"}
  /\ nodes' = [nodes EXCEPT ![n].status = "active",
                            ![n].registered = TRUE,
                            ![n].bootstrap = "used"]
  /\ registrations' = [registrations EXCEPT ![n] = @ + 1]
  /\ UNCHANGED <<revisions, reporting>>

\* One UPDATE: status and active_revision are taken as reported, the runtime
\* fields only when the request carries any of them.
RecordHeartbeat(n, holder, status, active, metadata, applied, state) ==
  /\ Authorised(n, holder)
  /\ nodes' = [nodes EXCEPT
       ![n].status = IF nodes[n].drainState = "drained" THEN "drained" ELSE status,
       ![n].activeRevision = active,
       ![n].lastApplied = IF metadata THEN applied ELSE @,
       ![n].runtimeState = IF metadata THEN state ELSE @]
  /\ UNCHANGED <<revisions, registrations, reporting>>

Drain(n) ==
  /\ Exists(n)
  /\ nodes[n].status # "disabled"
  /\ nodes[n].drainState # "draining"
  /\ nodes' = [nodes EXCEPT ![n].drainState = "draining"]
  /\ UNCHANGED <<revisions, registrations, reporting>>

Undrain(n) ==
  /\ Exists(n)
  /\ nodes[n].status # "disabled"
  /\ nodes[n].drainState # "active"
  /\ nodes' = [nodes EXCEPT ![n].drainState = "active"]
  /\ UNCHANGED <<revisions, registrations, reporting>>

Disable(n) ==
  /\ Exists(n)
  /\ nodes[n].status # "disabled"
  /\ nodes' = [nodes EXCEPT ![n].status = "disabled"]
  /\ UNCHANGED <<revisions, registrations, reporting>>

Enable(n) ==
  /\ nodes[n].status = "disabled"
  /\ nodes' = [nodes EXCEPT ![n].status = "unhealthy"]
  /\ UNCHANGED <<revisions, registrations, reporting>>

-----------------------------------------------------------------------------
(* Config revisions *)

\* Both creations lock the node row and refuse a disabled or draining node.
AcceptsRevisions(n) ==
  /\ Exists(n)
  /\ nodes[n].status # "disabled"
  /\ nodes[n].drainState = "active"
  /\ NextNumber(n) <= MaxRevision       \* bound

Insert(n, kind, source, config) ==
  revisions' = revisions \cup
    {[node |-> n, number |-> NextNumber(n), status |-> "pending",
      kind |-> kind, source |-> source, target |-> nodes[n].activeRevision,
      config |-> config]}

\* The config is rendered from the subscriptions eligible at that moment; here
\* it is any config.
CreateDummyConfigRevision(n, config) ==
  /\ AcceptsRevisions(n)
  /\ Insert(n, "deploy", 0, config)
  /\ UNCHANGED <<nodes, registrations, reporting>>

\* The payload is a clone of the target's, so the config is the target's.
CreateRollbackConfigRevision(n, r) ==
  /\ r \in RevisionsOf(n)
  /\ AcceptsRevisions(n)
  /\ r.status = "applied"
  /\ Insert(n, "rollback", r.number, r.config)
  /\ UNCHANGED <<nodes, registrations, reporting>>

\* First statement: the join finds the node authorised and the revision
\* pending.  A second report of the same revision waits for its row lock, and
\* goes on, or finds the revision decided, when the first one ends.
ReportBegin(report, holder) ==
  /\ report \notin reporting
  /\ Authorised(report.node, holder)
  /\ report.number \in {r.number : r \in Pending(report.node)}
  /\ Cardinality(reporting) < MaxReports      \* bound
  /\ reporting' = reporting \cup {report}
  /\ UNCHANGED <<nodes, revisions, registrations>>

\* Mutation: a failed report moves the active revision too.
FailedMovesActive(row, report) ==
  [row EXCEPT !.activeRevision = report.number,
              !.runtimeState = report.runtimeState]

\* Mutation: active_revision = GREATEST(active_revision, the reported one).
ActiveNeverLower(row, report) ==
  IF report.outcome = "failed" THEN row
  ELSE [row EXCEPT !.activeRevision = Max({@, report.number}),
                   !.runtimeState = report.runtimeState]

\* The runtime columns written by the second statement.
ReportedRow(row, report) ==
  IF report.outcome = "applied"
    THEN [row EXCEPT !.activeRevision = report.number,
                     !.lastApplied = IF report.lastApplied > 0
                                       THEN report.lastApplied
                                       ELSE report.number,
                     !.runtimeState = report.runtimeState]
    ELSE [row EXCEPT !.lastApplied = IF report.lastApplied > 0
                                       THEN report.lastApplied ELSE @,
                     !.runtimeState = report.runtimeState]

\* The second statement finds the node disabled since the first one: it matches
\* no row, and takes no lock that would keep the node disabled.
ReportMisses(report) ==
  /\ report \in reporting
  /\ ~report.missed
  /\ nodes[report.node].status = "disabled"
  /\ reporting' = (reporting \ {report}) \cup {[report EXCEPT !.missed = TRUE]}
  /\ UNCHANGED <<nodes, revisions, registrations>>

\* Second statement and commit, or the commit after a missed second statement:
\* the verdict is recorded all the same.
ReportCommit(report) ==
  /\ report \in reporting
  /\ \E r \in Pending(report.node) :
       /\ r.number = report.number
       /\ revisions' = (revisions \ {r}) \cup
                         {[r EXCEPT !.status = report.outcome]}
  /\ nodes' = IF nodes[report.node].status = "disabled" \/ report.missed
                THEN nodes
                ELSE [nodes EXCEPT ![report.node] = ReportedRow(@, report)]
  /\ reporting' = reporting \ {report}
  /\ UNCHANGED registrations

\* The transaction rolls back: the revision was decided while it waited, the
\* client went away, or it lost a deadlock (it holds the revision and wants the
\* node, a rollback of the same revision holds the node and wants the revision).
ReportAbort(report) ==
  /\ report \in reporting
  /\ reporting' = reporting \ {report}
  /\ UNCHANGED <<nodes, revisions, registrations>>

-----------------------------------------------------------------------------

NodeStep(n) ==
  \/ CreateBootstrapToken(n)
  \/ BootstrapTokenExpires(n)
  \/ Register(n)
  \/ Drain(n)
  \/ Undrain(n)
  \/ Disable(n)
  \/ Enable(n)
  \/ \E config \in Config : CreateDummyConfigRevision(n, config)
  \/ \E r \in RevisionsOf(n) : CreateRollbackConfigRevision(n, r)

HeartbeatStep(n) ==
  \E holder \in Node, status \in ReportedStatus, active \in ReportedRevision,
     metadata \in BOOLEAN, applied \in ReportedRevision, state \in ReportedState :
    RecordHeartbeat(n, holder, status, active, metadata, applied, state)

ReportStep ==
  \/ \E n, holder \in Node, number \in 1..MaxRevision, outcome \in Outcome,
        applied \in ReportedRevision, state \in ReportedState :
       ReportBegin([node |-> n, number |-> number, outcome |-> outcome,
                    lastApplied |-> applied, runtimeState |-> state,
                    missed |-> FALSE], holder)
  \/ \E report \in reporting : ReportMisses(report)
  \/ \E report \in reporting : ReportCommit(report)
  \/ \E report \in reporting : ReportAbort(report)

Next ==
  \/ \E n \in Node : NodeStep(n) \/ HeartbeatStep(n)
  \/ ReportStep

Spec == Init /\ [][Next]_vars

-----------------------------------------------------------------------------
(* Properties *)

\* Type invariant: every row has the columns and the values the schema allows.
TypeOK ==
  /\ nodes \in [Node -> NodeRow]
  /\ revisions \subseteq Revision
  /\ registrations \in [Node -> Nat]
  /\ reporting \subseteq Report

\* MAX(revision_number) + 1 under the node's row lock numbers the revisions of
\* a node 1, 2, 3, ... without a gap and without a duplicate, whatever
\* creations, verdicts and lifecycle changes are mixed.
NumbersAreASequence ==
  \A n \in Node :
    /\ \E k \in 0..MaxRevision : Numbers(n) = 1..k
    /\ \A r, s \in RevisionsOf(n) : r.number = s.number => r = s

\* A rollback carries, however long the chain of rollbacks of rollbacks is, the
\* config of an older deploy of the same node that the node once confirmed
\* applied, and its direct source is still recorded as applied.
RollbackRestoresAppliedDeploy ==
  \A r \in revisions : r.kind = "rollback" =>
    /\ \E s \in RevisionsOf(r.node) :
         s.number = r.source /\ s.number < r.number /\ s.status = "applied"
    /\ \E d \in RevisionsOf(r.node) :
         /\ d.kind = "deploy" /\ d.status = "applied"
         /\ d.number <= r.source /\ d.config = r.config

\* A bootstrap token registers one node once: the node has a credential, a used
\* token and a row in node_registrations together or not at all.
TokenRegistersOnce ==
  \A n \in Node :
    /\ nodes[n].registered <=> nodes[n].bootstrap = "used"
    /\ registrations[n] = IF nodes[n].registered THEN 1 ELSE 0

\* Nothing a node reports is recorded before it registered: no verdict, no
\* report under way, no active or applied revision.
UnregisteredIsInert ==
  \A n \in Node : ~nodes[n].registered =>
    /\ nodes[n].activeRevision = 0
    /\ nodes[n].lastApplied = 0
    /\ Pending(n) = RevisionsOf(n)
    /\ \A report \in reporting : report.node # n

\* s is the row r, or r after its verdict.
Continues(r, s) ==
  /\ s = [r EXCEPT !.status = s.status]
  /\ r.status # "pending" => s = r

\* A revision is never deleted, its payload never changes, and once applied or
\* failed it keeps that verdict, whichever reports come late or twice.
VerdictIsFinal ==
  [][\A r \in revisions : \E s \in revisions' : Continues(r, s)]_revisions

\* What a disabled node's row may become: its token's clock goes on, and Enable.
FrozenRows(row) ==
  {[row EXCEPT !.expired = e, !.status = st] :
     e \in BOOLEAN, st \in {"disabled", "unhealthy"}}

\* While a node is disabled neither its own requests (a report that began
\* before included) nor the admin's move anything but its token's clock:
\* the only way on is Enable, to unhealthy.
DisabledNodeIsFrozen ==
  [][\A n \in Node : nodes[n].status = "disabled" =>
       /\ nodes'[n] \in FrozenRows(nodes[n])
       /\ Numbers(n)' = Numbers(n)
       /\ registrations'[n] = registrations[n]]_vars

\* What docs/api.md says of the report endpoint: an applied report updates the
\* node's active revision together with the revision's status.
AppliedMovesActiveRevision ==
  [][\A n \in Node : \A r \in Pending(n) :
       [r EXCEPT !.status = "applied"] \in revisions'
         => nodes'[n].activeRevision = r.number]_vars
=============================================================================
