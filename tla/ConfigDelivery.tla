--------------------------- MODULE ConfigDelivery ---------------------------
(***************************************************************************)
(* A config revision's way from the admin to a node and its verdict's way  *)
(* back: panel-api (PanelNodes, one node row) and node-agent (NodeAgent)   *)
(* over HTTP.                                                              *)
(*                                                                         *)
(* The fetch is one SELECT; what happens between it and the agent's next   *)
(* step may as well happen after, so it is one action of both.  A report   *)
(* is a message: it may be lost, refused, or received while the agent      *)
(* waits; or the agent gives up after its 10 seconds, or dies, and the     *)
(* message or the transaction it started goes on without it.               *)
(*                                                                         *)
(* It starts where the operator starts the agent: the node is registered,  *)
(* the agent has its token.  Draining is left out, it only withholds       *)
(* creations, which may not happen anyway.                                 *)
(*                                                                         *)
(* The agent's application never registers itself and never sends a        *)
(* heartbeat (BuildHeartbeatPayload has no caller in app.go), so neither   *)
(* HeartbeatStep nor a stale one is part of this system.                   *)
(***************************************************************************)
EXTENDS Integers, FiniteSets

CONSTANTS Self,         \* the node
          Config,       \* rendered configs
          Verifiable,   \* those the agent accepts
          MaxRevision,  \* bound: revisions created
          MaxReports,   \* bound: reports on the wire, and transactions open
          MaxCrashes    \* bound: crashes of the agent

VARIABLES nodes, revisions, registrations, reporting,  \* PanelNodes
          status, job, disk,                           \* NodeAgent
          wire,       \* reports sent and not received
          awaiting,   \* the report the agent waits for an answer to
          crashes,    \* counts Crash
          disturbed   \* history: which of the two disturbances happened

panelVars == <<nodes, revisions, registrations, reporting>>
agentVars == <<status, job, disk>>
netVars   == <<wire, awaiting>>
history   == <<crashes, disturbed>>
vars      == <<panelVars, agentVars, netVars, history>>

Panel == INSTANCE PanelNodes WITH Node <- {Self}, ReportedRevision <- {},
           ReportedState <- {}, ReportedStatus <- {}

\* The trail of runtime events is left to NodeAgent's own runs.
Agent == INSTANCE NodeAgent WITH TrailLimit <- 0, LocalProcess <- FALSE,
           Offer <- [number : 1..MaxRevision, target : 0..MaxRevision,
                     config : Config]

ASSUME DeliveryAssumption ==
  /\ Verifiable \subseteq Config
  /\ {MaxRevision, MaxReports, MaxCrashes} \subseteq Nat

NoReport == [number |-> 0]

RegisteredRow ==
  [Panel!NoRow EXCEPT !.status = "active", !.bootstrap = "used",
                      !.registered = TRUE]

Init ==
  /\ nodes = [n \in {Self} |-> RegisteredRow]
  /\ registrations = [n \in {Self} |-> 1]
  /\ revisions = {}
  /\ reporting = {}
  /\ Agent!Init
  /\ wire = {}
  /\ awaiting = NoReport
  /\ crashes = 0
  /\ disturbed = {}

-----------------------------------------------------------------------------
(* The panel by itself *)

AdminStep ==
  /\ \/ Panel!Disable(Self)
     \/ Panel!Enable(Self)
     \/ \E config \in Config : Panel!CreateDummyConfigRevision(Self, config)
     \/ \E r \in revisions : Panel!CreateRollbackConfigRevision(Self, r)
  /\ UNCHANGED <<agentVars, netVars, history>>

\* The server received a report: its handler begins the transaction.
ReceiveReport(report) ==
  /\ report \in wire
  /\ Panel!ReportBegin(report, Self)
  /\ wire' = wire \ {report}
  /\ UNCHANGED <<agentVars, awaiting, history>>

\* Refused before it changed anything (disabled node, revision decided), or lost.
DropReport(report) ==
  /\ report \in wire
  /\ wire' = wire \ {report}
  /\ UNCHANGED <<panelVars, agentVars, awaiting, history>>

\* "torn" remembers that an applied verdict was committed without moving the
\* node row, "late" that a report was recorded its sender no longer waits for.
CommitReport(report) ==
  /\ Panel!ReportCommit(report)
  /\ disturbed' = disturbed
       \cup {d \in {"torn"} : nodes[Self].status = "disabled" \/ report.missed}
       \cup {d \in {"late"} : [report EXCEPT !.missed = FALSE] # awaiting}
  /\ UNCHANGED <<agentVars, netVars, crashes>>

MissNode(report) ==
  /\ Panel!ReportMisses(report)
  /\ UNCHANGED <<agentVars, netVars, history>>

AbortReport(report) ==
  /\ Panel!ReportAbort(report)
  /\ UNCHANGED <<agentVars, netVars, history>>

-----------------------------------------------------------------------------
(* The agent, and both *)

\* GET .../config-revisions/pending.
Fetch ==
  /\ \E r \in Panel!LatestPending(Self, Self) :
       Agent!FetchOffer([number |-> r.number, target |-> r.target,
                         config |-> r.config])
  /\ UNCHANGED <<panelVars, netVars, history>>

\* Nothing pending, unauthorised, or no answer.
FetchFails ==
  /\ Agent!FetchNothing
  /\ UNCHANGED <<panelVars, netVars, history>>

AgentStep ==
  /\ Agent!StartPoll \/ Agent!ApplyStep \/ Agent!Restart
  /\ UNCHANGED <<panelVars, netVars, history>>

\* POST .../config-revisions/{revisionId}/report.
SendReport ==
  LET report == [node |-> Self, number |-> job.offer.number,
                 outcome |-> job.outcome, lastApplied |-> status.lastApplied,
                 runtimeState |-> status.runtimeState, missed |-> FALSE]
  IN  /\ job.step = "report"
      /\ awaiting = NoReport
      /\ Cardinality(wire \cup reporting) < MaxReports     \* bound
      /\ wire' = wire \cup {report}
      /\ awaiting' = report
      /\ UNCHANGED <<panelVars, agentVars, history>>

\* The answer, an error or the timeout; the next poll is due at the next tick.
EndPoll ==
  /\ Agent!ReportDone
  /\ awaiting' = NoReport
  /\ UNCHANGED <<panelVars, wire, history>>

Crash ==
  /\ crashes < MaxCrashes      \* bound
  /\ Agent!Crash
  /\ crashes' = crashes + 1
  /\ awaiting' = NoReport
  /\ UNCHANGED <<panelVars, wire, disturbed>>

Next ==
  \/ AdminStep
  \/ Fetch
  \/ FetchFails
  \/ AgentStep
  \/ SendReport
  \/ EndPoll
  \/ Crash
  \/ \E report \in wire : ReceiveReport(report) \/ DropReport(report)
  \/ \E report \in reporting : MissNode(report)
  \/ \E report \in reporting : CommitReport(report) \/ AbortReport(report)

Spec == Init /\ [][Next]_vars

\* The polling loop never stops and its steps are bounded by timeouts; a handler
\* ends its transaction; a request stays on the wire for a while only.  Since
\* every tick polls again, one attempt after the other, a fetch, a report and
\* a commit that can succeed again and again do so at last.
Fairness ==
  /\ WF_vars(AgentStep)
  /\ WF_vars(EndPoll)
  /\ WF_vars(\E report \in wire : ReceiveReport(report) \/ DropReport(report))
  /\ WF_vars(\E report \in reporting : CommitReport(report) \/ AbortReport(report))
  /\ SF_vars(Fetch)
  /\ SF_vars(SendReport)
  /\ SF_vars(\E report \in wire : ReceiveReport(report))
  /\ SF_vars(\E report \in reporting : CommitReport(report))

FairSpec == Spec /\ Fairness

-----------------------------------------------------------------------------
(* Properties *)

VerdictOf(k) ==
  LET found == {r \in revisions : r.number = k}
  IN  IF found = {} THEN "none" ELSE (CHOOSE r \in found : TRUE).status

Applied == {r.number : r \in {s \in revisions : s.status = "applied"}}

\* Type invariant of what this module adds.
TypeOK ==
  /\ wire \subseteq Panel!Report
  /\ awaiting \in Panel!Report \cup {NoReport}
  /\ crashes \in 0..MaxCrashes
  /\ disturbed \subseteq {"torn", "late"}

\* The node's active revision on the panel is 0 or has the verdict applied, and
\* the panel shows active_config_ready only for such a one.
PanelActiveIsApplied ==
  /\ nodes[Self].activeRevision \in {0} \cup Applied
  /\ nodes[Self].runtimeState = "active_config_ready"
       => nodes[Self].activeRevision # 0

\* An applied verdict is never invented, lost answers, crashes and repeated
\* attempts included: the node holds the artifacts of that revision, and its
\* config is one the agent accepts.
AppliedIsHeld ==
  /\ Applied \subseteq disk.revision_config \cap disk.revision_metadata
  /\ \A r \in revisions : r.status = "applied" => r.config \in Verifiable

\* Panel and node agree at every moment: the config active on the node's disk is
\* of a revision the panel knows, nothing is applied before there is one, and if
\* its verdict is applied it is the panel's active revision.  (Otherwise it is
\* pending still, or a repeated or half-failed apply was reported failed.)  The
\* two exceptions are the ones 'disturbed' remembers.
ActiveAgreement ==
  disturbed = {} =>
    LET active == disk.active_config
    IN  /\ active \in {0} \cup {r.number : r \in revisions}
        /\ active = 0 => Applied = {}
        /\ active \in Applied => nodes[Self].activeRevision = active

Rollout ==
  INSTANCE ConfigRollout WITH
    verdict <- [k \in 1..MaxRevision |-> VerdictOf(k)],
    held    <- disk.revision_config \cap disk.revision_metadata

\* The two processes and the network implement the promise.
ImplementsRollout == Rollout!Spec

\* A pending revision does not stay pending: it gets its verdict, whatever was
\* lost or failed on the way, unless the admin disables the node.
PendingIsDecided ==
  \A k \in 1..MaxRevision :
    VerdictOf(k) = "pending" ~>
      VerdictOf(k) # "pending" \/ nodes[Self].status = "disabled"
=============================================================================
