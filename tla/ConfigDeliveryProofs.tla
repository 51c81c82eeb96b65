------------------------ MODULE ConfigDeliveryProofs ------------------------
(***************************************************************************)
(* Proofs about ConfigDelivery, for any configs and any number of          *)
(* revisions, reports and crashes.                                         *)
(*                                                                         *)
(* The argument is compositional: what was proved of the panel and of the  *)
(* agent by themselves holds of them here (A and P), and what a message    *)
(* says was true when the agent sent it (Truthful) and cannot become       *)
(* false: artifacts are never deleted, rows never changed but by verdicts. *)
(***************************************************************************)
EXTENDS ConfigDelivery, TLAPS

A == INSTANCE NodeAgentProofs WITH TrailLimit <- 0, LocalProcess <- FALSE,
       Offer <- [number : 1..MaxRevision, target : 0..MaxRevision,
                 config : Config]

\* A node client that sends whatever its types allow.
P == INSTANCE PanelNodesProofs WITH Node <- {Self}, ReportedRevision <- Nat,
       ReportedState <- {"not_prepared", "active_config_ready",
                         "validation_failed", "prepare_failed"},
       ReportedStatus <- {}

-----------------------------------------------------------------------------
(* The parts *)

\* The agent and the panel may be assumed to be what their proofs assume.
LEMMA PartsAssumed == A!AgentAssumption /\ P!PanelAssumption
<1>1. MaxRevision \in Nat /\ MaxReports \in Nat /\ Verifiable \subseteq Config
  BY DeliveryAssumption
<1>2. A!AgentAssumption
  BY <1>1 DEF A!AgentAssumption
<1>3. P!PanelAssumption
  BY <1>1 DEF P!PanelAssumption, P!RuntimeState
<1> QED BY <1>2, <1>3

\* The failures of the agent.
LEMMA SameFail == \A type : Agent!Fail(type) => A!Fail(type)
BY Zenon DEF Agent!Fail, A!Fail, Agent!WithEvent, A!WithEvent

\* The files and their order.
LEMMA SameFiles ==
  /\ Agent!WriteOrder = A!WriteOrder /\ Agent!Files = A!Files
  /\ \A file : /\ Agent!NextStep(file) = A!NextStep(file)
               /\ Agent!Written(file) = A!Written(file)
<1>1. Agent!WriteOrder = A!WriteOrder
  BY DEF Agent!WriteOrder, A!WriteOrder
<1>2. Agent!Files = A!Files
  BY <1>1 DEF Agent!Files, A!Files
<1>3. ASSUME NEW file PROVE Agent!NextStep(file) = A!NextStep(file)
  BY <1>1 DEF Agent!NextStep, A!NextStep
<1>4. ASSUME NEW file PROVE Agent!Written(file) = A!Written(file)
  BY DEF Agent!Written, A!Written
<1> QED BY <1>1, <1>2, <1>3, <1>4

\* The steps of the agent's apply path.
LEMMA SameApply == Agent!ApplyStep => A!ApplyStep
<1> USE DEF Agent!At, A!At
<1>1. Agent!ValidateAndStore => A!ValidateAndStore
  BY SameFail, Zenon DEF Agent!ValidateAndStore, A!ValidateAndStore
<1>2. Agent!DryRun => A!DryRun
  BY SameFail, SameFiles, Zenon DEF Agent!DryRun, A!DryRun
<1>3. ASSUME NEW file \in Agent!Files, Agent!WriteFile(file)
      PROVE  file \in A!Files /\ A!WriteFile(file)
  BY <1>3, SameFiles, Zenon DEF Agent!WriteFile, A!WriteFile
<1>4. Agent!WriteState => A!WriteState
  BY Zenon DEF Agent!WriteState, A!WriteState
<1>5. Agent!WriteFails => A!WriteFails
  BY SameFail, SameFiles, Zenon DEF Agent!WriteFails, A!WriteFails
<1>6. Agent!PrepareActiveConfig => A!PrepareActiveConfig
  BY Zenon DEF Agent!PrepareActiveConfig, A!PrepareActiveConfig, Agent!WithEvent,
               A!WithEvent
<1>7. Agent!PersistRuntimeState => A!PersistRuntimeState
  BY Zenon DEF Agent!PersistRuntimeState, A!PersistRuntimeState
<1>8. Agent!PersistFails => A!PersistFails
  BY SameFail, Zenon DEF Agent!PersistFails, A!PersistFails
<1> QED
  BY <1>1, <1>2, <1>3, <1>4, <1>5, <1>6, <1>7, <1>8 DEF Agent!ApplyStep, A!ApplyStep

\* The steps of the agent's poll.
LEMMA SamePoll ==
  /\ Agent!StartPoll => A!StartPoll
  /\ Agent!FetchNothing => A!FetchNothing
  /\ \A offer : Agent!FetchOffer(offer) => A!FetchOffer(offer)
  /\ Agent!ReportDone => A!ReportDone
  /\ Agent!Crash => A!Crash
  /\ Agent!Restart => A!Restart
BY Zenon DEF Agent!At, A!At, Agent!StartPoll, A!StartPoll, Agent!FetchNothing, A!FetchNothing,
   Agent!FetchOffer, A!FetchOffer, Agent!ReportDone, A!ReportDone, Agent!Crash,
   A!Crash, Agent!Restart, A!Restart, Agent!Idle, A!Idle, Agent!NoOffer, A!NoOffer,
   Agent!FreshStatus, A!FreshStatus

\* The rows of the panel.
LEMMA SameRows ==
  /\ \A n : /\ Panel!RevisionsOf(n) = P!RevisionsOf(n)
            /\ Panel!Numbers(n) = P!Numbers(n)
            /\ Panel!Pending(n) = P!Pending(n)
            /\ Panel!Exists(n) <=> P!Exists(n)
            /\ Panel!NextNumber(n) = P!NextNumber(n)
  /\ \A n, holder : Panel!Authorised(n, holder) <=> P!Authorised(n, holder)
  /\ Panel!Report = P!Report
<1>1. \A n : Panel!RevisionsOf(n) = P!RevisionsOf(n)
  BY DEF Panel!RevisionsOf, P!RevisionsOf
<1>2. \A n : Panel!Numbers(n) = P!Numbers(n) /\ Panel!Pending(n) = P!Pending(n)
  BY <1>1 DEF Panel!Numbers, P!Numbers, Panel!Pending, P!Pending
<1>3. \A n : Panel!Exists(n) <=> P!Exists(n)
  BY DEF Panel!Exists, P!Exists
<1>4. \A n : Panel!NextNumber(n) = P!NextNumber(n)
  BY <1>2 DEF Panel!NextNumber, P!NextNumber, Panel!Max, P!Max
<1>5. \A n, holder : Panel!Authorised(n, holder) <=> P!Authorised(n, holder)
  BY DEF Panel!Authorised, P!Authorised
<1>6. Panel!Report = P!Report
  BY DEF Panel!Report, P!Report, Panel!Outcome, P!Outcome, Panel!RuntimeState, P!RuntimeState
<1> QED BY <1>1, <1>2, <1>3, <1>4, <1>5, <1>6

\* The steps of the panel.
LEMMA SamePanel ==
  /\ Panel!Disable(Self) => P!Disable(Self)
  /\ Panel!Enable(Self) => P!Enable(Self)
  /\ \A config : Panel!CreateDummyConfigRevision(Self, config)
                   => P!CreateDummyConfigRevision(Self, config)
  /\ \A r : Panel!CreateRollbackConfigRevision(Self, r)
              => P!CreateRollbackConfigRevision(Self, r)
  /\ \A report : /\ Panel!ReportBegin(report, Self) => P!ReportBegin(report, Self)
                 /\ Panel!ReportMisses(report) => P!ReportMisses(report)
                 /\ Panel!ReportCommit(report) => P!ReportCommit(report)
                 /\ Panel!ReportAbort(report) => P!ReportAbort(report)
<1>1. /\ Panel!Disable(Self) => P!Disable(Self)
      /\ Panel!Enable(Self) => P!Enable(Self)
  BY SameRows, Zenon DEF Panel!Disable, P!Disable, Panel!Enable, P!Enable
<1>2. Panel!AcceptsRevisions(Self) => P!AcceptsRevisions(Self)
  BY SameRows, Zenon DEF Panel!AcceptsRevisions, P!AcceptsRevisions
<1>3. \A kind, source, config : Panel!Insert(Self, kind, source, config)
                                  => P!Insert(Self, kind, source, config)
  BY SameRows, Zenon DEF Panel!Insert, P!Insert
<1>4. \A config : Panel!CreateDummyConfigRevision(Self, config)
                    => P!CreateDummyConfigRevision(Self, config)
  BY <1>2, <1>3, Zenon DEF Panel!CreateDummyConfigRevision, P!CreateDummyConfigRevision
<1>5. \A r : Panel!CreateRollbackConfigRevision(Self, r)
               => P!CreateRollbackConfigRevision(Self, r)
  BY <1>2, <1>3, SameRows, Zenon DEF Panel!CreateRollbackConfigRevision,
     P!CreateRollbackConfigRevision
<1>6. \A report : Panel!ReportBegin(report, Self) => P!ReportBegin(report, Self)
  <2>1. \A n : Panel!Authorised(n, Self) => P!Authorised(n, Self)
    BY SameRows
  <2>2. \A n : Panel!Pending(n) = P!Pending(n)
    BY SameRows
  <2>3. Panel!Cardinality(reporting) = P!Cardinality(reporting)
    BY Zenon DEF Panel!Cardinality, P!Cardinality
  <2> QED BY <2>1, <2>2, <2>3, Zenon DEF Panel!ReportBegin, P!ReportBegin
<1>7. \A row, report : Panel!ReportedRow(row, report) = P!ReportedRow(row, report)
  BY Zenon DEF Panel!ReportedRow, P!ReportedRow
<1>8. \A report : Panel!ReportCommit(report) => P!ReportCommit(report)
  BY <1>7, SameRows, Zenon DEF Panel!ReportCommit, P!ReportCommit
<1>9. \A report : /\ Panel!ReportMisses(report) => P!ReportMisses(report)
                  /\ Panel!ReportAbort(report) => P!ReportAbort(report)
  BY Zenon DEF Panel!ReportMisses, P!ReportMisses, Panel!ReportAbort, P!ReportAbort
<1> QED BY <1>1, <1>4, <1>5, <1>6, <1>8, <1>9

-----------------------------------------------------------------------------
(* The invariant *)

NoPoll == {"down", "idle", "fetch"}

\* The row whose config the agent works on.
OfferStored ==
  job.step \notin NoPoll =>
    \E r \in revisions : r.number = job.offer.number /\ r.config = job.offer.config

Targets == \A r \in revisions : r.target \in 0..MaxRevision

\* A report tells the truth, for ever.
Genuine(report) ==
  /\ report \in P!Report
  /\ report.number \in 1..MaxRevision
  /\ report.outcome = "applied" =>
       /\ report.number \in A!Held
       /\ \E r \in revisions : r.number = report.number /\ r.config \in Verifiable
  /\ report.outcome = "failed" => report.runtimeState # "active_config_ready"

Messages ==
  /\ \A report \in wire \cup reporting : Genuine(report)
  /\ \A report \in wire : ~report.missed

DeliveryInv ==
  /\ P!Numbering
  /\ A!AgentInv /\ A!Truthful
  /\ OfferStored /\ Targets /\ Messages
  /\ AppliedIsHeld
  /\ PanelActiveIsApplied

\* The rows of the one node, as the proofs need them.
LEMMA Rows ==
  ASSUME P!Numbering
  PROVE  /\ nodes \in [{Self} -> P!NodeRow] /\ nodes[Self] \in P!NodeRow
         /\ revisions \subseteq P!Revision
         /\ \A r \in revisions : r.node = Self /\ r.number \in 1..MaxRevision
         /\ \A r, s \in revisions : r.number = s.number => r = s
         /\ P!RevisionsOf(Self) = revisions
<1>1. /\ nodes \in [{Self} -> P!NodeRow] /\ revisions \subseteq P!Revision
  BY Zenon DEF P!Numbering, P!TypeOK
<1>2. \A r \in revisions : r.node = Self
  BY <1>1 DEF P!Revision
<1>3. P!RevisionsOf(Self) = revisions
  BY <1>2 DEF P!RevisionsOf
<1>4. /\ \E k \in 0..MaxRevision : P!Numbers(Self) = 1..k
      /\ \A r, s \in P!RevisionsOf(Self) : r.number = s.number => r = s
  BY DEF P!Numbering, P!NumbersAreASequence
<1>5. \A r \in revisions : r.number \in P!Numbers(Self)
  BY <1>3 DEF P!Numbers
<1>6. \A r \in revisions : r.number \in 1..MaxRevision
  <2>1. MaxRevision \in Nat
    BY DeliveryAssumption
  <2> QED BY <1>4, <1>5, <2>1
<1> QED BY <1>1, <1>2, <1>3, <1>4, <1>6

\* The agent takes its steps, with an offer it may get.
LEMMA AgentTakesSteps ==
  ASSUME DeliveryInv, [Next]_vars
  PROVE  [A!Next]_<<status, job, disk>>
<1>1. CASE Fetch
  <2>1. PICK r \in Panel!LatestPending(Self, Self) :
          Agent!FetchOffer([number |-> r.number, target |-> r.target,
                            config |-> r.config])
    BY <1>1 DEF Fetch
  <2>2. r \in revisions
    BY <2>1 DEF Panel!LatestPending, Panel!Pending, Panel!RevisionsOf
  <2>3. /\ r.number \in 1..MaxRevision /\ r.target \in 0..MaxRevision
        /\ r.config \in Config
    BY <2>2, Rows DEF DeliveryInv, Targets, P!Revision
  <2>4. [number |-> r.number, target |-> r.target, config |-> r.config]
          \in [number : 1..MaxRevision, target : 0..MaxRevision, config : Config]
    BY <2>3
  <2> QED BY <2>1, <2>4, SamePoll, Zenon DEF A!Next
<1>2. CASE AgentStep
  BY <1>2, SamePoll, SameApply DEF AgentStep, A!Next
<1>3. CASE FetchFails \/ EndPoll \/ Crash
  BY <1>3, SamePoll DEF FetchFails, EndPoll, Crash, A!Next
<1>4. CASE UNCHANGED agentVars
  BY <1>4 DEF agentVars
<1> QED
  BY <1>1, <1>2, <1>3, <1>4 DEF Next, AdminStep, SendReport, ReceiveReport, DropReport,
     CommitReport, MissNode, AbortReport, vars, agentVars

\* The panel takes its steps.
LEMMA PanelTakesSteps ==
  ASSUME DeliveryInv, [Next]_vars
  PROVE  [P!Next]_<<nodes, revisions, registrations, reporting>>
<1>1. CASE AdminStep
  <2>1. \/ P!Disable(Self) \/ P!Enable(Self)
        \/ \E config \in Config : P!CreateDummyConfigRevision(Self, config)
        \/ \E r \in revisions : P!CreateRollbackConfigRevision(Self, r)
    BY <1>1, SamePanel DEF AdminStep
  <2>2. P!RevisionsOf(Self) = revisions
    BY Rows DEF DeliveryInv
  <2>3. P!NodeStep(Self)
    BY <2>1, <2>2 DEF P!NodeStep
  <2> QED BY <2>3 DEF P!Next
<1>2. ASSUME NEW report \in wire, ReceiveReport(report) PROVE P!Next
  <2>1. P!ReportBegin(report, Self)
    BY <1>2, SamePanel DEF ReceiveReport
  <2>2. /\ report \in P!Report /\ report.number \in 1..MaxRevision
        /\ report.missed = FALSE
    BY <1>2 DEF DeliveryInv, Messages, Genuine, P!Report
  <2>3. report = [node |-> Self, number |-> report.number, outcome |-> report.outcome,
                  lastApplied |-> report.lastApplied,
                  runtimeState |-> report.runtimeState, missed |-> FALSE]
    BY <2>2 DEF P!Report
  <2>4. /\ report.outcome \in P!Outcome /\ report.lastApplied \in Nat
        /\ report.runtimeState \in {"not_prepared", "active_config_ready",
                                    "validation_failed", "prepare_failed"}
    BY <2>2 DEF P!Report, P!RuntimeState
  <2>5. P!ReportStep
    BY <2>1, <2>2, <2>3, <2>4 DEF P!ReportStep
  <2> QED BY <2>5 DEF P!Next
<1>3. ASSUME NEW report \in reporting,
             MissNode(report) \/ CommitReport(report) \/ AbortReport(report)
      PROVE  P!Next
  <2>1. P!ReportMisses(report) \/ P!ReportCommit(report) \/ P!ReportAbort(report)
    BY <1>3, SamePanel DEF MissNode, CommitReport, AbortReport
  <2> QED BY <2>1 DEF P!ReportStep, P!Next
<1>4. CASE UNCHANGED panelVars
  BY <1>4 DEF panelVars
<1> QED
  BY <1>1, <1>2, <1>3, <1>4 DEF Next, Fetch, FetchFails, AgentStep, SendReport, EndPoll,
     Crash, DropReport, vars, panelVars

-----------------------------------------------------------------------------
(* What a step leaves *)

\* Rows keep what the agent was told of them, applied ones everything.
LEMMA RowsStay ==
  ASSUME DeliveryInv, [Next]_vars, NEW r \in revisions
  PROVE  \E s \in revisions' : /\ s.number = r.number /\ s.config = r.config
                               /\ r.status = "applied" => s = r
<1>1. P!TypeOK /\ [P!Next]_P!vars
  BY PanelTakesSteps DEF P!vars, DeliveryInv, P!Numbering
<1>2. PICK s \in revisions' : P!Continues(r, s)
  BY <1>1, PartsAssumed, P!StepKeepsRevisions
<1>3. r \in P!Revision
  BY Rows DEF DeliveryInv
<1>4. s.number = r.number /\ s.config = r.config
  BY <1>2, <1>3 DEF P!Continues, P!Revision
<1> QED BY <1>2, <1>4 DEF P!Continues

\* Artifacts stay.
LEMMA HeldStays ==
  ASSUME DeliveryInv, [Next]_vars
  PROVE  A!Held \subseteq A!Held'
<1>1. A!AgentInv /\ [A!Next]_A!agentVars
  BY AgentTakesSteps DEF A!agentVars, DeliveryInv
<1>2. \/ A!Held' = A!Held
      \/ A!Held' = A!Held \cup {job.offer.number}
  BY <1>1, PartsAssumed, A!HeldGrows
<1> QED BY <1>2

\* What was true when a report was sent stays true.
LEMMA GenuineStays ==
  ASSUME DeliveryInv, [Next]_vars, NEW report, Genuine(report)
  PROVE  Genuine(report)'
<1>1. A!Held \subseteq A!Held'
  BY HeldStays
<1>2. \A r \in revisions : \E s \in revisions' : s.number = r.number /\ s.config = r.config
  BY RowsStay
<1> QED BY <1>1, <1>2 DEF Genuine, P!Report, P!Outcome, P!RuntimeState

\* The rows after a step: the rows before, a new one, one with its verdict.
LEMMA NewRows ==
  ASSUME DeliveryInv, [Next]_vars
  PROVE  \/ revisions' = revisions
         \/ \E row : /\ P!InsertsRow(Self, row) /\ row.status = "pending"
                     /\ row.target = nodes[Self].activeRevision
                     /\ row.number = P!NextNumber(Self)
                     /\ revisions' = revisions \cup {row}
                     /\ UNCHANGED <<nodes, disk>>
         \/ \E report \in reporting, r \in revisions :
              /\ CommitReport(report) /\ r.number = report.number
              /\ r.status = "pending"
              /\ revisions' = (revisions \ {r}) \cup {[r EXCEPT !.status = report.outcome]}
<1>1. CASE AdminStep
  <2>1. \/ P!Disable(Self) \/ P!Enable(Self)
        \/ \E config \in Config : P!CreateDummyConfigRevision(Self, config)
        \/ \E r \in revisions : P!CreateRollbackConfigRevision(Self, r)
    BY <1>1, SamePanel DEF AdminStep
  <2>2. P!Disable(Self) \/ P!Enable(Self) => revisions' = revisions
    BY DEF P!Disable, P!Enable
  <2>3. ASSUME \/ \E config \in Config : P!CreateDummyConfigRevision(Self, config)
               \/ \E r \in revisions : P!CreateRollbackConfigRevision(Self, r)
        PROVE  \E row : P!InsertsRow(Self, row) /\ UNCHANGED <<nodes, disk>>
    <3>1. UNCHANGED <<nodes, disk>>
      BY <1>1, <2>3 DEF AdminStep, agentVars, P!CreateDummyConfigRevision,
         P!CreateRollbackConfigRevision
    <3>2. P!RevisionsOf(Self) = revisions
      BY Rows DEF DeliveryInv
    <3>3. \E row : P!InsertsRow(Self, row)
      BY <2>3, <3>2, PartsAssumed, P!CreationInserts
    <3> QED BY <3>1, <3>3
  <2>4. ASSUME NEW row, P!InsertsRow(Self, row)
        PROVE  /\ row.status = "pending" /\ row.target = nodes[Self].activeRevision
               /\ row.number = P!NextNumber(Self)
               /\ revisions' = revisions \cup {row}
    <3> DEFINE new == [node |-> Self, number |-> P!NextNumber(Self),
                       status |-> "pending", kind |-> row.kind,
                       source |-> row.source, target |-> nodes[Self].activeRevision,
                       config |-> row.config]
    <3>1. row = new /\ revisions' = revisions \cup {row}
      BY <2>4 DEF P!InsertsRow
    <3>2. /\ new.status = "pending" /\ new.target = nodes[Self].activeRevision
          /\ new.number = P!NextNumber(Self)
      OBVIOUS
    <3> HIDE DEF new
    <3> QED BY <3>1, <3>2
  <2> QED BY <2>1, <2>2, <2>3, <2>4
<1>2. ASSUME NEW report \in reporting, CommitReport(report)
      PROVE  \E r \in revisions :
               /\ r.number = report.number /\ r.status = "pending"
               /\ revisions' = (revisions \ {r}) \cup {[r EXCEPT !.status = report.outcome]}
  BY <1>2 DEF CommitReport, Panel!ReportCommit, Panel!Pending, Panel!RevisionsOf
<1>3. ASSUME NEW report, ReceiveReport(report) \/ MissNode(report) \/ AbortReport(report)
                         \/ DropReport(report)
      PROVE  revisions' = revisions
  BY <1>3 DEF ReceiveReport, MissNode, AbortReport, DropReport, Panel!ReportBegin,
     Panel!ReportMisses, Panel!ReportAbort, panelVars
<1>4. CASE UNCHANGED panelVars
  BY <1>4 DEF panelVars
<1> QED
  BY <1>1, <1>2, <1>3, <1>4 DEF Next, Fetch, FetchFails, AgentStep, SendReport, EndPoll,
     Crash, vars, panelVars

\* The node's row after a step, as far as the verdicts move it.
LEMMA NewNode ==
  ASSUME DeliveryInv, [Next]_vars
  PROVE  \/ /\ nodes'[Self].activeRevision = nodes[Self].activeRevision
            /\ nodes'[Self].runtimeState = nodes[Self].runtimeState
         \/ \E report \in reporting :
              /\ CommitReport(report)
              /\ nodes'[Self].runtimeState = report.runtimeState
              /\ nodes'[Self].activeRevision =
                   IF report.outcome = "applied" THEN report.number
                                                 ELSE nodes[Self].activeRevision
<1>1. nodes \in [{Self} -> P!NodeRow] /\ nodes[Self] \in P!NodeRow
  BY Rows DEF DeliveryInv
<1>2. CASE AdminStep
  <2>1. \/ Panel!Disable(Self) \/ Panel!Enable(Self) \/ UNCHANGED nodes
    BY <1>2 DEF AdminStep, Panel!CreateDummyConfigRevision,
       Panel!CreateRollbackConfigRevision
  <2>2. \/ UNCHANGED nodes
        \/ \E st : nodes' = [nodes EXCEPT ![Self].status = st]
    BY <2>1 DEF Panel!Disable, Panel!Enable
  <2> QED BY <1>1, <2>2 DEF P!NodeRow
<1>3. ASSUME NEW report \in reporting, CommitReport(report), nodes' # nodes
      PROVE  /\ nodes'[Self].runtimeState = report.runtimeState
             /\ nodes'[Self].activeRevision =
                  IF report.outcome = "applied" THEN report.number
                                                ELSE nodes[Self].activeRevision
  <2>1. report.node = Self
    BY DEF DeliveryInv, Messages, Genuine, P!Report
  <2>2. nodes' = [nodes EXCEPT ![Self] = Panel!ReportedRow(@, report)]
    BY <1>3, <2>1 DEF CommitReport, Panel!ReportCommit
  <2>3. nodes'[Self] = Panel!ReportedRow(nodes[Self], report)
    BY <1>1, <2>2
  <2> QED BY <1>1, <2>3 DEF Panel!ReportedRow, P!NodeRow
<1>4. ASSUME NEW report, ReceiveReport(report) \/ MissNode(report) \/ AbortReport(report)
                         \/ DropReport(report)
      PROVE  UNCHANGED nodes
  BY <1>4 DEF ReceiveReport, MissNode, AbortReport, DropReport, Panel!ReportBegin,
     Panel!ReportMisses, Panel!ReportAbort, panelVars
<1>5. CASE UNCHANGED panelVars
  BY <1>5 DEF panelVars
<1> QED
  BY <1>2, <1>3, <1>4, <1>5 DEF Next, Fetch, FetchFails, AgentStep, SendReport, EndPoll,
     Crash, vars, panelVars

-----------------------------------------------------------------------------
(* The invariant is kept *)

\* A report says what the agent did.
LEMMA SentReport ==
  ASSUME DeliveryInv, job.step = "report"
  PROVE  Genuine([node |-> Self, number |-> job.offer.number,
                  outcome |-> job.outcome, lastApplied |-> status.lastApplied,
                  runtimeState |-> status.runtimeState, missed |-> FALSE])
<1> DEFINE report == [node |-> Self, number |-> job.offer.number,
                      outcome |-> job.outcome, lastApplied |-> status.lastApplied,
                      runtimeState |-> status.runtimeState, missed |-> FALSE]
<1>1. /\ status \in A!AgentState /\ A!HasOffer /\ A!Truthful /\ OfferStored
  BY DEF DeliveryInv, A!AgentInv, A!Typed, A!TypeOK
<1>2. /\ job.offer.number \in 1..MaxRevision
      /\ job.outcome \in {"applied", "failed"}
  BY <1>1 DEF A!HasOffer, A!Truthful
<1>3. /\ status.lastApplied \in Nat /\ status.runtimeState \in P!RuntimeState
  BY <1>1 DEF A!AgentState, P!RuntimeState
<1>4. job.offer.number \in Nat
  BY <1>2
<1>5. report \in P!Report
  BY <1>2, <1>3, <1>4 DEF P!Report, P!Outcome
<1>6. \E r \in revisions : r.number = job.offer.number /\ r.config = job.offer.config
  BY <1>1 DEF OfferStored, NoPoll
<1>7. job.outcome = "applied" =>
        job.offer.number \in A!Held /\ job.offer.config \in Verifiable
  BY <1>1 DEF A!Truthful
<1>8. job.outcome = "failed" => status.runtimeState # "active_config_ready"
  BY <1>1 DEF A!Truthful
<1>9. /\ report.number = job.offer.number /\ report.outcome = job.outcome
      /\ report.runtimeState = status.runtimeState
  OBVIOUS
<1> HIDE DEF report
<1>10. Genuine(report)
  BY <1>2, <1>5, <1>6, <1>7, <1>8, <1>9 DEF Genuine
<1> QED BY <1>10 DEF report

\* Messages stay genuine, new ones are.
LEMMA MessagesStep ==
  ASSUME DeliveryInv, [Next]_vars
  PROVE  Messages'
<1>1. /\ \A report \in wire \cup reporting : Genuine(report)
      /\ \A report \in wire : ~report.missed
  BY DEF DeliveryInv, Messages
<1>2. \A report : Genuine(report) => Genuine(report)'
  BY GenuineStays
<1>3. CASE wire' \subseteq wire /\ reporting' \subseteq wire \cup reporting
  BY <1>1, <1>2, <1>3 DEF Messages
<1>4. CASE SendReport
  <2> DEFINE report == [node |-> Self, number |-> job.offer.number,
                        outcome |-> job.outcome, lastApplied |-> status.lastApplied,
                        runtimeState |-> status.runtimeState, missed |-> FALSE]
  <2>1. wire' = wire \cup {report} /\ reporting' = reporting /\ job.step = "report"
    BY <1>4 DEF SendReport, panelVars
  <2>2. Genuine(report) /\ ~report.missed
    BY <2>1, SentReport
  <2> HIDE DEF report
  <2> QED BY <1>1, <1>2, <2>1, <2>2 DEF Messages
<1>5. ASSUME NEW report \in reporting, MissNode(report) PROVE Messages'
  <2> DEFINE missed == [report EXCEPT !.missed = TRUE]
  <2>1. wire' = wire /\ reporting' = (reporting \ {report}) \cup {missed}
    BY <1>5 DEF MissNode, Panel!ReportMisses, netVars
  <2>2. Genuine(report) /\ report \in P!Report
    BY <1>1 DEF Genuine
  <2>3. /\ missed \in P!Report /\ missed.number = report.number
        /\ missed.outcome = report.outcome /\ missed.runtimeState = report.runtimeState
    BY <2>2 DEF P!Report
  <2> HIDE DEF missed
  <2>4. Genuine(missed)
    BY <2>2, <2>3 DEF Genuine
  <2> QED BY <1>1, <1>2, <2>1, <2>4 DEF Messages
<1>6. ASSUME NEW report \in wire, ReceiveReport(report) \/ DropReport(report)
      PROVE  wire' \subseteq wire /\ reporting' \subseteq wire \cup reporting
  BY <1>6 DEF ReceiveReport, DropReport, Panel!ReportBegin, panelVars
<1>7. ASSUME NEW report \in reporting, CommitReport(report) \/ AbortReport(report)
      PROVE  wire' \subseteq wire /\ reporting' \subseteq wire \cup reporting
  BY <1>7 DEF CommitReport, AbortReport, Panel!ReportCommit, Panel!ReportAbort, netVars
<1>8. AdminStep => wire' \subseteq wire /\ reporting' \subseteq wire \cup reporting
  BY DEF AdminStep, Panel!Disable, Panel!Enable, Panel!CreateDummyConfigRevision,
     Panel!CreateRollbackConfigRevision, netVars
<1>9. Fetch \/ FetchFails \/ AgentStep \/ EndPoll \/ Crash \/ UNCHANGED vars
        => wire' \subseteq wire /\ reporting' \subseteq wire \cup reporting
  BY DEF Fetch, FetchFails, AgentStep, EndPoll, Crash, panelVars, netVars, vars
<1> QED BY <1>3, <1>4, <1>5, <1>6, <1>7, <1>8, <1>9 DEF Next

\* A poll that goes on works on its offer, and the agent takes no step of an
\* apply while it reports.
LEMMA PollGoesOn ==
  ASSUME DeliveryInv
  PROVE  /\ AgentStep => \/ job'.step \in NoPoll
                         \/ job'.offer = job.offer /\ job.step \notin NoPoll
         /\ FetchFails \/ EndPoll \/ Crash => job'.step \in NoPoll
         /\ AgentStep \/ Fetch \/ FetchFails => job.step # "report"
<1>1. job \in A!Job /\ A!AgentInv
  BY DEF DeliveryInv, A!AgentInv, A!Typed, A!TypeOK
<1>2. AgentStep => job.step \notin {"fetch", "report"}
  <2>1. "fetch" \notin Agent!Files /\ "report" \notin Agent!Files
    BY SameFiles, PartsAssumed, A!Order
  <2>2. Agent!ApplyStep => job.step \notin {"fetch", "report"}
    BY <2>1 DEF Agent!ApplyStep, Agent!At, Agent!ValidateAndStore, Agent!DryRun,
       Agent!WriteFile, Agent!WriteState, Agent!WriteFails,
       Agent!PrepareActiveConfig, Agent!PersistRuntimeState, Agent!PersistFails
  <2> QED BY <2>2 DEF AgentStep, Agent!StartPoll, Agent!Restart, Agent!At
<1>3. ASSUME AgentStep
      PROVE  \/ job'.step \in NoPoll
             \/ job'.offer = job.offer /\ job.step \notin NoPoll
  <2>1. A!Next
    BY <1>3, SamePoll, SameApply DEF AgentStep, A!Next
  <2>2. \/ job'.step \in NoPoll
        \/ job'.offer = job.offer /\ job.step \notin NoPoll
        \/ \E offer : A!FetchOffer(offer)
    BY <1>1, <2>1, PartsAssumed, A!OneOffer DEF NoPoll
  <2>3. (\E offer : A!FetchOffer(offer)) => job.step = "fetch"
    BY DEF A!FetchOffer, A!At
  <2> QED BY <1>2, <1>3, <2>2, <2>3
<1>4. FetchFails \/ EndPoll \/ Crash => job'.step \in NoPoll
  <2>1. Agent!Idle.step = "idle" /\ [Agent!Idle EXCEPT !.step = "down"].step = "down"
    BY DEF Agent!Idle
  <2> QED BY <2>1 DEF FetchFails, EndPoll, Crash, Agent!FetchNothing,
          Agent!ReportDone, Agent!Crash, NoPoll
<1>5. Fetch \/ FetchFails => job.step # "report"
  BY DEF Fetch, FetchFails, Agent!FetchOffer, Agent!FetchNothing, Agent!At
<1>6. AgentStep \/ Fetch \/ FetchFails => job.step # "report"
  BY <1>2, <1>5
<1> QED BY <1>3, <1>4, <1>6, Zenon

\* The offer of a poll is a row, as it was or with its verdict.
LEMMA OfferStep ==
  ASSUME DeliveryInv, [Next]_vars
  PROVE  OfferStored'
<1>1. job \in A!Job
  BY DEF DeliveryInv, A!AgentInv, A!Typed, A!TypeOK
<1>2. CASE Fetch
  <2>1. PICK r \in Panel!LatestPending(Self, Self) :
          Agent!FetchOffer([number |-> r.number, target |-> r.target,
                            config |-> r.config])
    BY <1>2 DEF Fetch
  <2>2. r \in revisions /\ revisions' = revisions
    BY <1>2, <2>1 DEF Panel!LatestPending, Panel!Pending, Panel!RevisionsOf, Fetch,
       panelVars
  <2>3. job'.offer = [number |-> r.number, target |-> r.target, config |-> r.config]
    BY <1>1, <2>1 DEF Agent!FetchOffer, A!Job
  <2>4. job'.offer.number = r.number /\ job'.offer.config = r.config
    BY <2>3
  <2> QED BY <2>2, <2>4 DEF OfferStored
<1>3. CASE \/ job'.step \in NoPoll
           \/ job'.offer = job.offer /\ job.step \notin NoPoll
  BY <1>3, RowsStay DEF DeliveryInv, OfferStored
<1>4. CASE AgentStep \/ FetchFails \/ EndPoll \/ Crash
  BY <1>3, <1>4, PollGoesOn
<1>5. CASE UNCHANGED agentVars
  BY <1>3, <1>5 DEF agentVars
<1> QED
  BY <1>2, <1>4, <1>5 DEF Next, AdminStep, SendReport, ReceiveReport, DropReport,
     CommitReport, MissNode, AbortReport, vars

\* A rollback target is a revision, or none.
LEMMA TargetsStep ==
  ASSUME DeliveryInv, [Next]_vars
  PROVE  Targets'
<1>1. Targets
  BY DEF DeliveryInv
<1>2. nodes[Self].activeRevision \in 0..MaxRevision
  <2>1. nodes[Self].activeRevision \in {0} \cup Applied
    BY DEF DeliveryInv, PanelActiveIsApplied
  <2>2. \A k \in Applied : k \in 1..MaxRevision
    BY Rows DEF DeliveryInv, Applied
  <2>3. MaxRevision \in Nat
    BY DeliveryAssumption
  <2> QED BY <2>1, <2>2, <2>3
<1>3. ASSUME NEW r \in revisions, NEW outcome
      PROVE  [r EXCEPT !.status = outcome].target = r.target
  BY Rows DEF DeliveryInv, P!Revision
<1>4. CASE revisions' = revisions
  BY <1>1, <1>4 DEF Targets
<1>5. ASSUME NEW row, row.target = nodes[Self].activeRevision,
             revisions' = revisions \cup {row}
      PROVE  Targets'
  BY <1>1, <1>2, <1>5 DEF Targets
<1>6. ASSUME NEW report \in reporting, NEW r \in revisions,
             revisions' = (revisions \ {r}) \cup {[r EXCEPT !.status = report.outcome]}
      PROVE  Targets'
  <2> DEFINE new == [r EXCEPT !.status = report.outcome]
  <2>1. new.target = r.target
    BY <1>3
  <2>2. revisions' = (revisions \ {r}) \cup {new}
    BY <1>6
  <2> HIDE DEF new
  <2> QED BY <1>1, <2>1, <2>2 DEF Targets
<1> QED BY <1>4, <1>5, <1>6, NewRows

\* Only a genuine report decides.
LEMMA AppliedStep ==
  ASSUME DeliveryInv, [Next]_vars
  PROVE  AppliedIsHeld'
<1>1. A!Held \subseteq A!Held'
  BY HeldStays
<1>2. \A r \in revisions : r.status = "applied" =>
        r.number \in A!Held /\ r.config \in Verifiable
  BY DEF DeliveryInv, AppliedIsHeld, Applied, A!Held
<1>3. SUFFICES \A r \in revisions' : r.status = "applied" =>
        r.number \in A!Held' /\ r.config \in Verifiable
  BY DEF AppliedIsHeld, Applied, A!Held
<1>4. ASSUME NEW report \in reporting, NEW r \in revisions, r.number = report.number,
             report.outcome = "applied"
      PROVE  r.number \in A!Held /\ r.config \in Verifiable
  BY <1>4, Rows DEF DeliveryInv, Messages, Genuine
<1>5. ASSUME NEW r \in revisions, NEW outcome
      PROVE  /\ [r EXCEPT !.status = outcome].number = r.number
             /\ [r EXCEPT !.status = outcome].config = r.config
             /\ [r EXCEPT !.status = outcome].status = outcome
  BY Rows DEF DeliveryInv, P!Revision
<1>6. ASSUME NEW r \in revisions', r.status = "applied"
      PROVE  r.number \in A!Held' /\ r.config \in Verifiable
  <2>1. CASE r \in revisions
    BY <1>1, <1>2, <1>6, <2>1
  <2>2. ASSUME NEW report \in reporting, NEW s \in revisions, s.number = report.number,
               r = [s EXCEPT !.status = report.outcome]
        PROVE  r.number \in A!Held' /\ r.config \in Verifiable
    BY <1>1, <1>4, <1>5, <1>6, <2>2
  <2> QED BY <1>6, <2>1, <2>2, NewRows
<1> QED BY <1>6

\* The active revision moves with a verdict.
LEMMA ActiveStep ==
  ASSUME DeliveryInv, [Next]_vars
  PROVE  PanelActiveIsApplied'
<1>1. /\ nodes[Self].activeRevision \in {0} \cup Applied
      /\ nodes[Self].runtimeState = "active_config_ready"
           => nodes[Self].activeRevision # 0
  BY DEF DeliveryInv, PanelActiveIsApplied
<1>2. Applied \subseteq Applied'
  BY RowsStay DEF Applied
<1>3. CASE /\ nodes'[Self].activeRevision = nodes[Self].activeRevision
           /\ nodes'[Self].runtimeState = nodes[Self].runtimeState
  BY <1>1, <1>2, <1>3 DEF PanelActiveIsApplied
<1>4. ASSUME NEW report \in reporting, CommitReport(report),
             nodes'[Self].runtimeState = report.runtimeState,
             nodes'[Self].activeRevision =
               IF report.outcome = "applied" THEN report.number
                                             ELSE nodes[Self].activeRevision
      PROVE  PanelActiveIsApplied'
  <2>1. /\ report.outcome \in {"applied", "failed"} /\ report.number # 0
        /\ report.outcome = "failed" => report.runtimeState # "active_config_ready"
    <3>1. Genuine(report) /\ MaxRevision \in Nat
      BY DeliveryAssumption DEF DeliveryInv, Messages
    <3>2. report.number # 0
      BY <3>1 DEF Genuine
    <3> QED BY <3>1, <3>2 DEF Genuine, P!Report, P!Outcome
  <2>2. report.outcome = "applied" => report.number \in Applied'
    <3>1. PICK r \in Panel!Pending(report.node) :
            /\ r.number = report.number
            /\ revisions' = (revisions \ {r}) \cup {[r EXCEPT !.status = report.outcome]}
      BY <1>4 DEF CommitReport, Panel!ReportCommit
    <3>2. r \in P!Revision
      BY Rows DEF DeliveryInv, Panel!Pending, Panel!RevisionsOf
    <3>3. /\ [r EXCEPT !.status = report.outcome].number = report.number
          /\ [r EXCEPT !.status = report.outcome].status = report.outcome
      BY <3>1, <3>2 DEF P!Revision
    <3> QED BY <3>1, <3>3 DEF Applied
  <2> QED BY <1>1, <1>2, <1>4, <2>1, <2>2 DEF PanelActiveIsApplied
<1> QED BY <1>3, <1>4, NewNode

\* Every step keeps the invariant.
LEMMA DeliveryStep == DeliveryInv /\ [Next]_vars => DeliveryInv'
<1> SUFFICES ASSUME DeliveryInv, [Next]_vars PROVE DeliveryInv'
  OBVIOUS
<1>1. A!AgentInv' /\ A!Truthful'
  <2>1. A!AgentInv /\ A!Truthful /\ [A!Next]_A!agentVars
    BY AgentTakesSteps DEF A!agentVars, DeliveryInv
  <2> QED BY <2>1, PartsAssumed, A!AgentInvStep, A!TruthfulStep
<1>2. P!Numbering'
  <2>1. P!Numbering /\ [P!Next]_P!vars
    BY PanelTakesSteps DEF P!vars, DeliveryInv
  <2> QED BY <2>1, PartsAssumed, P!NumberingStep
<1> QED
  BY <1>1, <1>2, OfferStep, TargetsStep, MessagesStep, AppliedStep, ActiveStep
  DEF DeliveryInv

\* A registered node, no revision, an agent that starts.
LEMMA DeliveryInit == Init => DeliveryInv
<1> SUFFICES ASSUME Init PROVE DeliveryInv
  OBVIOUS
<1>1. /\ revisions = {} /\ wire = {} /\ reporting = {}
      /\ registrations = [n \in {Self} |-> 1]
      /\ nodes = [n \in {Self} |-> RegisteredRow]
  BY DEF Init
<1>2. /\ RegisteredRow \in P!NodeRow /\ RegisteredRow.activeRevision = 0
      /\ RegisteredRow.runtimeState = "not_prepared"
  BY DEF RegisteredRow, Panel!NoRow, P!NodeRow, P!NodeStatus, P!DrainState,
         P!RuntimeState
<1>3. P!TypeOK
  BY <1>1, <1>2 DEF P!TypeOK
<1>4. P!Numbers(Self) = 1..0 /\ P!RevisionsOf(Self) = {} /\ 0 \in 0..MaxRevision
  BY <1>1, DeliveryAssumption DEF P!Numbers, P!RevisionsOf
<1>5. P!Numbering
  BY <1>3, <1>4 DEF P!Numbering, P!NumbersAreASequence
<1>6. A!AgentInv
  <2>1. A!Init
    BY Zenon DEF Init, Agent!Init, A!Init, Agent!FreshStatus, A!FreshStatus,
       Agent!Idle, A!Idle, Agent!NoOffer, A!NoOffer, Agent!EmptyDisk, A!EmptyDisk
  <2> QED BY <2>1, PartsAssumed, A!AgentInvInit
<1>7. job.step = "idle"
  BY DEF Init, Agent!Init, Agent!Idle
<1>8. PanelActiveIsApplied
  BY <1>1, <1>2 DEF PanelActiveIsApplied
<1> QED
  BY <1>1, <1>5, <1>6, <1>7, <1>8 DEF DeliveryInv, A!Truthful, OfferStored, NoPoll, Targets,
     Messages, AppliedIsHeld, Applied

-----------------------------------------------------------------------------
(* The theorems *)

\* The inductive invariant holds of every run of the two processes.
THEOREM DeliveryCorrect == Spec => []DeliveryInv
BY DeliveryInit, DeliveryStep, PTL DEF Spec

\* No applied verdict is invented: whatever was lost, repeated or crashed, the
\* node holds the artifacts, and its config is one the agent accepts.
THEOREM AppliedHeld == Spec => []AppliedIsHeld
<1>1. DeliveryInv => AppliedIsHeld
  BY DEF DeliveryInv
<1> QED BY <1>1, DeliveryCorrect, PTL

\* The active revision the panel shows has the verdict applied, and it shows
\* ready only for such a one.
THEOREM ActiveApplied == Spec => []PanelActiveIsApplied
<1>1. DeliveryInv => PanelActiveIsApplied
  BY DEF DeliveryInv
<1> QED BY <1>1, DeliveryCorrect, PTL

-----------------------------------------------------------------------------
(* Agreement of panel and node *)

\* While the agent waits for an answer, it is at the report it sent.
AwaitsOwn ==
  awaiting # NoReport =>
    /\ job.step = "report"
    /\ awaiting.number = job.offer.number
    /\ awaiting.outcome = job.outcome

\* Until it sent that report, nobody decides the revision it works on.
OfferPending ==
  job.step \notin NoPoll /\ awaiting = NoReport =>
    \A r \in revisions : r.number = job.offer.number => r.status = "pending"

AgreeInv == AwaitsOwn /\ (disturbed = {} => OfferPending) /\ ActiveAgreement

\* A report is not NoReport.
LEMMA SomeReport == \A report : Genuine(report) =>
  /\ report # NoReport
  /\ [report EXCEPT !.missed = FALSE] # NoReport
  /\ [report EXCEPT !.missed = FALSE].number = report.number
  /\ [report EXCEPT !.missed = FALSE].outcome = report.outcome
<1> SUFFICES ASSUME NEW report, Genuine(report)
             PROVE  /\ report # NoReport
                    /\ [report EXCEPT !.missed = FALSE] # NoReport
                    /\ [report EXCEPT !.missed = FALSE].number = report.number
                    /\ [report EXCEPT !.missed = FALSE].outcome = report.outcome
  OBVIOUS
<1>1. report \in P!Report /\ report.number # 0
  BY DeliveryAssumption DEF Genuine
<1>2. /\ [report EXCEPT !.missed = FALSE].number = report.number
      /\ [report EXCEPT !.missed = FALSE].outcome = report.outcome
  BY <1>1 DEF P!Report
<1>3. NoReport.number = 0
  BY DEF NoReport
<1> QED BY <1>1, <1>2, <1>3

\* Disturbances are not forgotten.
LEMMA DisturbedGrows == [Next]_vars => disturbed \subseteq disturbed'
BY DEF Next, AdminStep, Fetch, FetchFails, AgentStep, SendReport, EndPoll, Crash,
   ReceiveReport, DropReport, MissNode, CommitReport, AbortReport, history, vars

\* Waiting begins with the report and ends with the poll.
LEMMA AwaitsStep ==
  ASSUME DeliveryInv, AwaitsOwn, [Next]_vars
  PROVE  AwaitsOwn'
<1>1. CASE SendReport
  <2> DEFINE report == [node |-> Self, number |-> job.offer.number,
                        outcome |-> job.outcome, lastApplied |-> status.lastApplied,
                        runtimeState |-> status.runtimeState, missed |-> FALSE]
  <2>1. awaiting' = report /\ job' = job /\ job.step = "report"
    BY <1>1 DEF SendReport, agentVars
  <2>2. report.number = job.offer.number /\ report.outcome = job.outcome
    OBVIOUS
  <2> HIDE DEF report
  <2> QED BY <2>1, <2>2 DEF AwaitsOwn
<1>2. CASE EndPoll \/ Crash
  BY <1>2 DEF EndPoll, Crash, AwaitsOwn
<1>3. CASE Fetch \/ FetchFails \/ AgentStep
  <2>1. awaiting' = awaiting /\ job.step # "report"
    BY <1>3, PollGoesOn DEF Fetch, FetchFails, AgentStep, netVars
  <2> QED BY <2>1 DEF AwaitsOwn
<1>4. CASE UNCHANGED <<agentVars, awaiting>>
  BY <1>4 DEF AwaitsOwn, agentVars
<1> QED
  BY <1>1, <1>2, <1>3, <1>4 DEF Next, AdminStep, ReceiveReport, DropReport, CommitReport,
     MissNode, AbortReport, netVars, vars

\* An undisturbed verdict is the one the agent waits for.
LEMMA OnTime ==
  ASSUME DeliveryInv, AwaitsOwn, NEW report \in reporting, CommitReport(report),
         disturbed' = {}
  PROVE  /\ Genuine(report) /\ report.node = Self /\ ~report.missed
         /\ nodes[Self].status # "disabled"
         /\ awaiting # NoReport
         /\ job.step = "report"
         /\ job.offer.number = report.number /\ job.outcome = report.outcome
<1>1. Genuine(report)
  BY DEF DeliveryInv, Messages
<1>2. report.node = Self
  BY <1>1 DEF Genuine, P!Report
<1>3. ~(nodes[Self].status = "disabled" \/ report.missed)
  BY DEF CommitReport
<1>4. [report EXCEPT !.missed = FALSE] = awaiting
  BY DEF CommitReport
<1> QED BY <1>1, <1>2, <1>3, <1>4, SomeReport DEF AwaitsOwn

\* What an apply works on stays pending.
LEMMA OfferPendingStep ==
  ASSUME DeliveryInv, AwaitsOwn, OfferPending, [Next]_vars, disturbed' = {}
  PROVE  OfferPending'
<1> SUFFICES ASSUME job'.step \notin NoPoll, awaiting' = NoReport,
                    NEW r \in revisions', r.number = job'.offer.number
             PROVE  r.status = "pending"
  BY DEF OfferPending
<1>1. \A p, q \in revisions : p.number = q.number => p = q
  BY Rows DEF DeliveryInv
<1>2. CASE Fetch
  <2>1. PICK q \in Panel!LatestPending(Self, Self) :
          Agent!FetchOffer([number |-> q.number, target |-> q.target,
                            config |-> q.config])
    BY <1>2 DEF Fetch
  <2>2. q \in revisions /\ q.status = "pending" /\ revisions' = revisions
    BY <1>2, <2>1 DEF Panel!LatestPending, Panel!Pending, Panel!RevisionsOf, Fetch,
       panelVars
  <2>3. job \in A!Job
    BY DEF DeliveryInv, A!AgentInv, A!Typed, A!TypeOK
  <2>4. job'.offer = [number |-> q.number, target |-> q.target, config |-> q.config]
    BY <2>1, <2>3 DEF Agent!FetchOffer, A!Job
  <2>5. job'.offer.number = q.number
    BY <2>4
  <2> QED BY <1>1, <2>2, <2>5
<1>3. CASE AgentStep
  <2>1. revisions' = revisions /\ awaiting' = awaiting
    BY <1>3 DEF AgentStep, panelVars, netVars
  <2>2. job'.offer = job.offer /\ job.step \notin NoPoll
    BY <1>3, PollGoesOn
  <2> QED BY <2>1, <2>2 DEF OfferPending
<1>4. CASE FetchFails \/ EndPoll \/ Crash
  BY <1>4, PollGoesOn
<1>5. CASE SendReport
  <2>1. job.step = "report"
    BY <1>5 DEF SendReport
  <2> QED BY <1>5, <2>1, SentReport, SomeReport DEF SendReport
<1>6. ASSUME NEW report \in reporting, CommitReport(report) PROVE FALSE
  <2>1. awaiting' = awaiting
    BY <1>6 DEF CommitReport, netVars
  <2> QED BY <1>6, <2>1, OnTime
<1>7. CASE /\ UNCHANGED <<job, awaiting>>
           /\ ~\E report \in reporting : CommitReport(report)
  <2>1. \/ r \in revisions
        \/ r.status = "pending"
    BY <1>7, NewRows
  <2> QED BY <1>7, <2>1 DEF OfferPending
<1> QED
  BY <1>2, <1>3, <1>4, <1>5, <1>6, <1>7 DEF Next, AdminStep, ReceiveReport, DropReport,
     MissNode, AbortReport, agentVars, netVars, vars

\* An undisturbed verdict moves the row as the agent did its disk.
LEMMA AgreementOnTime ==
  ASSUME DeliveryInv, AgreeInv, NEW report \in reporting, CommitReport(report),
         disturbed = {}, disturbed' = {}
  PROVE  ActiveAgreement'
<1>1. /\ Genuine(report) /\ report.node = Self /\ ~report.missed
      /\ nodes[Self].status # "disabled" /\ job.step = "report"
      /\ job.offer.number = report.number /\ job.outcome = report.outcome
  BY OnTime DEF AgreeInv
<1>2. nodes \in [{Self} -> P!NodeRow] /\ nodes[Self] \in P!NodeRow
      /\ \A p \in revisions : p \in P!Revision
  BY Rows DEF DeliveryInv
<1>3. nodes'[Self].activeRevision =
        IF report.outcome = "applied" THEN report.number
                                      ELSE nodes[Self].activeRevision
  <2>1. nodes' = [nodes EXCEPT ![Self] = Panel!ReportedRow(@, report)]
    BY <1>1 DEF CommitReport, Panel!ReportCommit
  <2>2. nodes'[Self] = Panel!ReportedRow(nodes[Self], report)
    BY <1>2, <2>1
  <2> QED BY <1>2, <2>2 DEF Panel!ReportedRow, P!NodeRow
<1>4. disk' = disk
  BY DEF CommitReport, agentVars
<1>5. PICK r \in revisions :
        /\ r.number = report.number /\ r.status = "pending"
        /\ revisions' = (revisions \ {r}) \cup {[r EXCEPT !.status = report.outcome]}
  BY DEF CommitReport, Panel!ReportCommit, Panel!Pending, Panel!RevisionsOf
<1> DEFINE new == [r EXCEPT !.status = report.outcome]
<1>6. new.number = report.number /\ new.status = report.outcome
  BY <1>2, <1>5
  DEF P!Revision
<1>7. revisions' = (revisions \ {r}) \cup {new}
  BY <1>5
<1> HIDE DEF new
<1>8. {q.number : q \in revisions'} = {q.number : q \in revisions}
  BY <1>5, <1>6, <1>7
<1>9. disk.active_config \in {0} \cup {q.number : q \in revisions}
      /\ (disk.active_config = 0 => Applied = {})
      /\ (disk.active_config \in Applied
            => nodes[Self].activeRevision = disk.active_config)
  BY DEF AgreeInv, ActiveAgreement
<1>10. CASE report.outcome = "applied"
  <2>1. disk.active_config = report.number
    BY <1>1, <1>10 DEF DeliveryInv, A!Truthful
  <2>2. report.number # 0
    BY <1>1, DeliveryAssumption DEF Genuine
  <2> QED BY <1>3, <1>4, <1>8, <1>9, <1>10, <2>1, <2>2 DEF ActiveAgreement
<1>11. CASE report.outcome # "applied"
  <2>1. Applied' = Applied
    BY <1>5, <1>6, <1>7, <1>11 DEF Applied
  <2> QED BY <1>3, <1>4, <1>8, <1>9, <1>11, <2>1 DEF ActiveAgreement
<1> QED BY <1>10, <1>11

\* The switch is to a revision nobody decided; else nothing moves alone.
LEMMA AgreementStep ==
  ASSUME DeliveryInv, AgreeInv, [Next]_vars
  PROVE  ActiveAgreement'
<1> SUFFICES ASSUME disturbed' = {} PROVE ActiveAgreement'
  BY DEF ActiveAgreement
<1>1. disturbed = {}
  BY DisturbedGrows
<1>2. disk.active_config \in {0} \cup {q.number : q \in revisions}
      /\ (disk.active_config = 0 => Applied = {})
      /\ (disk.active_config \in Applied
            => nodes[Self].activeRevision = disk.active_config)
  BY <1>1 DEF AgreeInv, ActiveAgreement
<1>3. CASE \E report \in reporting : CommitReport(report)
  BY <1>1, <1>3, AgreementOnTime
<1>4. CASE disk'.active_config # disk.active_config
  <2>1. /\ job.step = "active_config"
        /\ disk'.active_config = job.offer.number
    <3>1. A!AgentInv /\ [A!Next]_A!agentVars
      BY AgentTakesSteps DEF A!agentVars, DeliveryInv
    <3> QED BY <1>4, <3>1, PartsAssumed, A!ActiveMoves
  <2>2. awaiting = NoReport /\ job.step \notin NoPoll
    BY <2>1 DEF AgreeInv, AwaitsOwn, NoPoll
  <2>3. UNCHANGED panelVars
    BY <1>3, <1>4 DEF Next, AdminStep, Fetch, FetchFails, AgentStep, SendReport, EndPoll,
       Crash, ReceiveReport, DropReport, MissNode, AbortReport, CommitReport,
       agentVars, vars
  <2>4. \A r \in revisions : r.number = job.offer.number => r.status = "pending"
    BY <1>1, <2>2 DEF AgreeInv, OfferPending
  <2>5. PICK r \in revisions : r.number = job.offer.number
    BY <2>2 DEF DeliveryInv, OfferStored
  <2>6. job.offer.number # 0
    BY <2>5, Rows, DeliveryAssumption DEF DeliveryInv
  <2> QED BY <2>1, <2>3, <2>4, <2>5, <2>6 DEF ActiveAgreement, Applied, panelVars
<1>5. CASE /\ disk'.active_config = disk.active_config
           /\ ~\E report \in reporting : CommitReport(report)
  <2>1. nodes'[Self].activeRevision = nodes[Self].activeRevision
    BY <1>5, NewNode
  <2>2. \/ revisions' = revisions
        \/ \E row : row.status = "pending" /\ revisions' = revisions \cup {row}
    BY <1>5, NewRows
  <2>3. Applied' = Applied
    BY <2>2 DEF Applied
  <2>4. {q.number : q \in revisions} \subseteq {q.number : q \in revisions'}
    BY <2>2
  <2> QED BY <1>2, <1>5, <2>1, <2>3, <2>4 DEF ActiveAgreement
<1> QED BY <1>3, <1>4, <1>5

\* At every moment the config active on the node's disk, once applied is
\* recorded of it, is the panel's active revision, with the two exceptions
\* 'disturbed' remembers.
THEOREM SidesAgree == Spec => []ActiveAgreement
<1>1. Init => AgreeInv
  <2> SUFFICES ASSUME Init PROVE AgreeInv
    OBVIOUS
  <2>1. awaiting = NoReport /\ revisions = {}
    BY DEF Init
  <2>2. job.step = "idle" /\ disk.active_config = 0
    BY DEF Init, Agent!Init, Agent!Idle, Agent!EmptyDisk
  <2> QED BY <2>1, <2>2 DEF AgreeInv, AwaitsOwn, OfferPending, NoPoll, ActiveAgreement,
          Applied
<1>2. DeliveryInv /\ AgreeInv /\ [Next]_vars => AgreeInv'
  <2> SUFFICES ASSUME DeliveryInv, AgreeInv, [Next]_vars PROVE AgreeInv'
    OBVIOUS
  <2>1. disturbed' = {} => disturbed = {}
    BY DisturbedGrows
  <2> QED BY <2>1, AwaitsStep, OfferPendingStep, AgreementStep DEF AgreeInv
<1>3. AgreeInv => ActiveAgreement
  BY DEF AgreeInv
<1> QED BY <1>1, <1>2, <1>3, DeliveryCorrect, PTL DEF Spec

-----------------------------------------------------------------------------
(* The refinement *)

\* VerdictOf, of any table.
VerdictAmong(found) ==
  IF found = {} THEN "none" ELSE (CHOOSE r \in found : TRUE).status

VerdictIn(rows, k) == VerdictAmong({r \in rows : r.number = k})

Numbered(rows) == \A r, s \in rows : r.number = s.number => r = s

Verdicts == [k \in 1..MaxRevision |-> VerdictOf(k)]

\* A row has its own verdict, a number without a row has none.
LEMMA VerdictOfRow ==
  ASSUME NEW rows, Numbered(rows)
  PROVE  /\ \A r \in rows : VerdictIn(rows, r.number) = r.status
         /\ \A k : (\A r \in rows : r.number # k) => VerdictIn(rows, k) = "none"
<1>1. ASSUME NEW r \in rows PROVE VerdictIn(rows, r.number) = r.status
  <2>1. {s \in rows : s.number = r.number} = {r}
    BY DEF Numbered
  <2>2. (CHOOSE s \in {r} : TRUE) = r
    OBVIOUS
  <2> QED BY <2>1, <2>2 DEF VerdictIn, VerdictAmong
<1>2. ASSUME NEW k, \A r \in rows : r.number # k PROVE VerdictIn(rows, k) = "none"
  <2>1. {r \in rows : r.number = k} = {}
    BY <1>2
  <2> QED BY <2>1 DEF VerdictIn, VerdictAmong
<1> QED BY <1>1, <1>2

\* An insertion or a verdict changes the verdict of one number.
LEMMA VerdictOfNewRow ==
  ASSUME NEW rows, Numbered(rows), NEW old \in SUBSET rows, NEW new,
         \A r \in rows \ old : r.number # new.number,
         \A r \in old : r.number = new.number,
         NEW after, after = (rows \ old) \cup {new}
  PROVE  /\ VerdictIn(after, new.number) = new.status
         /\ \A k : k # new.number => VerdictIn(after, k) = VerdictIn(rows, k)
<1>1. Numbered(after)
  BY DEF Numbered
<1>2. VerdictIn(after, new.number) = new.status
  BY <1>1, VerdictOfRow
<1>3. ASSUME NEW k, k # new.number PROVE VerdictIn(after, k) = VerdictIn(rows, k)
  <2>1. {r \in after : r.number = k} = {r \in rows : r.number = k}
    BY <1>3
  <2> QED BY <2>1 DEF VerdictIn
<1> QED BY <1>2, <1>3

\* The same of Verdicts.
LEMMA VerdictsChange ==
  ASSUME DeliveryInv, NEW old \in SUBSET revisions, NEW new,
         new.number \in 1..MaxRevision,
         revisions' = (revisions \ old) \cup {new},
         \A r \in revisions \ old : r.number # new.number,
         \A r \in old : r.number = new.number
  PROVE  Verdicts' = [Verdicts EXCEPT ![new.number] = new.status]
<1>1. Numbered(revisions)
  BY Rows DEF DeliveryInv, Numbered
<1>2. /\ VerdictIn(revisions', new.number) = new.status
      /\ \A k : k # new.number => VerdictIn(revisions', k) = VerdictIn(revisions, k)
  BY <1>1, VerdictOfNewRow
<1>3. \A k : VerdictOf(k) = VerdictIn(revisions, k) /\ VerdictOf(k)' = VerdictIn(revisions', k)
  BY DEF VerdictOf, VerdictIn, VerdictAmong
<1>4. /\ Verdicts = [k \in 1..MaxRevision |-> VerdictIn(revisions, k)]
      /\ Verdicts' = [k \in 1..MaxRevision |-> VerdictIn(revisions', k)]
  BY <1>3 DEF Verdicts
<1> QED BY <1>2, <1>4

\* Every step creates, holds or decides a revision, or does not show.
LEMMA RolloutStep ==
  ASSUME DeliveryInv, [Next]_vars
  PROVE  \/ Rollout!Next
         \/ Verdicts' = Verdicts /\ A!Held' = A!Held
<1>1. /\ Numbered(revisions) /\ P!NumbersAreASequence
      /\ \A r \in revisions : r \in P!Revision /\ r.number \in 1..MaxRevision
      /\ P!RevisionsOf(Self) = revisions /\ MaxRevision \in Nat
  BY Rows, DeliveryAssumption DEF DeliveryInv, Numbered, P!Numbering
<1>2. \A k : VerdictOf(k) = VerdictIn(revisions, k)
  BY DEF VerdictOf, VerdictIn, VerdictAmong
<1>3. /\ \A r \in revisions : VerdictOf(r.number) = r.status /\ r.status # "none"
      /\ \A k : (\A r \in revisions : r.number # k) => VerdictOf(k) = "none"
  BY <1>1, <1>2, VerdictOfRow DEF P!Revision, P!Outcome
<1>4. \A k \in 1..MaxRevision : Verdicts[k] = VerdictOf(k)
  BY DEF Verdicts
<1>5. CASE revisions' = revisions
  <2>1. Verdicts' = Verdicts
    BY <1>5 DEF Verdicts, VerdictOf
  <2>2. A!AgentInv /\ [A!Next]_A!agentVars
    BY AgentTakesSteps DEF A!agentVars, DeliveryInv
  <2>3. \/ A!Held' = A!Held
        \/ A!Held' = A!Held \cup {job.offer.number} /\ job.step \in A!Files
    BY <2>2, PartsAssumed, A!HeldGrows
  <2>4. CASE A!Held' = A!Held \cup {job.offer.number} /\ job.step \in A!Files
    <3>1. job.step \notin NoPoll
      BY <2>4, PartsAssumed, A!Order DEF NoPoll
    <3>2. PICK r \in revisions : r.number = job.offer.number
      BY <3>1 DEF DeliveryInv, OfferStored
    <3>3. r.number \in 1..MaxRevision /\ Verdicts[r.number] # "none"
      BY <1>1, <1>3, <1>4
    <3>4. Rollout!Hold(r.number)
      BY <2>1, <2>4, <3>2, <3>3 DEF Rollout!Hold, Verdicts, A!Held
    <3> QED BY <3>3, <3>4 DEF Rollout!Next, Rollout!Number
  <2> QED BY <2>1, <2>3, <2>4
<1>6. ASSUME NEW row, P!InsertsRow(Self, row), row.status = "pending",
             row.number = P!NextNumber(Self), revisions' = revisions \cup {row},
             UNCHANGED disk
      PROVE  Rollout!Next
  <2>1. PICK k \in 0..MaxRevision : /\ P!Numbers(Self) = 1..k
                                    /\ P!NextNumber(Self) = k + 1
    BY <1>1, PartsAssumed, P!NextNumberFollows
  <2>2. row.number = k + 1 /\ k + 1 \in 1..MaxRevision
    BY <1>1, <1>6, <2>1 DEF P!InsertsRow, P!AcceptsRevisions
  <2>3. /\ \A r \in revisions : r.number # row.number
        /\ \A j \in 1..k : \E r \in revisions : r.number = j
    BY <1>1, <2>1, <2>2 DEF P!Numbers
  <2>4. Verdicts' = [Verdicts EXCEPT ![row.number] = "pending"]
    <3>1. {} \in SUBSET revisions /\ revisions' = (revisions \ {}) \cup {row}
      BY <1>6
    <3>2. \A r \in revisions \ {} : r.number # row.number
      BY <2>3
    <3>3. Verdicts' = [Verdicts EXCEPT ![row.number] = row.status]
      BY <2>2, <3>1, <3>2, VerdictsChange
    <3> QED BY <1>6, <3>3
  <2>5. /\ Verdicts[row.number] = "none"
        /\ \A j \in 1..(row.number - 1) : Verdicts[j] # "none"
    <3>1. \A m \in Nat : \A i \in 0..m : (i + 1) - 1 = i /\ 1..i \subseteq 1..m
      OBVIOUS
    <3>2. (k + 1) - 1 = k /\ 1..k \subseteq 1..MaxRevision
      BY <1>1, <3>1
    <3>3. row.number - 1 = k
      BY <2>2, <3>2
    <3> QED BY <1>3, <1>4, <2>2, <2>3, <3>2, <3>3
  <2>6. Rollout!Create(row.number)
    BY <1>6, <2>4, <2>5 DEF Rollout!Create, Verdicts
  <2> QED BY <2>2, <2>6 DEF Rollout!Next, Rollout!Number
<1>7. ASSUME NEW report \in reporting, NEW r \in revisions, CommitReport(report),
             r.number = report.number, r.status = "pending",
             revisions' = (revisions \ {r}) \cup {[r EXCEPT !.status = report.outcome]}
      PROVE  Rollout!Next
  <2> DEFINE new == [r EXCEPT !.status = report.outcome]
  <2>1. new.number = r.number /\ new.status = report.outcome /\ r.number \in 1..MaxRevision
    BY <1>1 DEF P!Revision
  <2>2. revisions' = (revisions \ {r}) \cup {new} /\ UNCHANGED disk
    BY <1>7 DEF CommitReport, agentVars
  <2> HIDE DEF new
  <2>3. Verdicts' = [Verdicts EXCEPT ![r.number] = report.outcome]
    <3>1. /\ {r} \in SUBSET revisions
          /\ \A s \in revisions \ {r} : s.number # new.number
      BY <1>1, <2>1 DEF Numbered
    <3>2. Verdicts' = [Verdicts EXCEPT ![new.number] = new.status]
      BY <2>1, <2>2, <3>1, VerdictsChange
    <3> QED BY <2>1, <3>2
  <2>4. Verdicts[r.number] = "pending"
    BY <1>3, <1>4, <1>7, <2>1
  <2>5. /\ report.outcome \in {"applied", "failed"}
        /\ report.outcome = "applied" => r.number \in A!Held
    BY <1>7 DEF DeliveryInv, Messages, Genuine, P!Report, P!Outcome
  <2>6. Rollout!Decide(r.number, report.outcome)
    BY <2>2, <2>3, <2>4, <2>5 DEF Rollout!Decide, Verdicts, A!Held
  <2> QED BY <2>1, <2>5, <2>6 DEF Rollout!Next, Rollout!Number
<1> QED BY <1>5, <1>6, <1>7, NewRows

\* The two processes and the network implement ConfigRollout: revisions are
\* created in order, decided once, and applied only when the node holds them.
THEOREM RolloutImplemented == Spec => ImplementsRollout
<1>1. Init => Rollout!Init
  <2> SUFFICES ASSUME Init PROVE Rollout!Init
    OBVIOUS
  <2>1. revisions = {}
    BY DEF Init
  <2>2. \A k : VerdictOf(k) = "none"
    BY <2>1 DEF VerdictOf
  <2>3. disk.revision_config = {} /\ disk.revision_metadata = {}
    BY DEF Init, Agent!Init, Agent!EmptyDisk
  <2> QED BY <2>2, <2>3 DEF Rollout!Init, Rollout!Number
<1>2. DeliveryInv /\ [Next]_vars =>
        [Rollout!Next]_<<[k \in 1..MaxRevision |-> VerdictOf(k)],
                         disk.revision_config \cap disk.revision_metadata>>
  BY RolloutStep DEF Verdicts, A!Held
<1> QED BY <1>1, <1>2, DeliveryCorrect, PTL DEF Spec, ImplementsRollout, Rollout!Spec
=============================================================================
