-------------------------- MODULE PanelNodesProofs --------------------------
(***************************************************************************)
(* Proofs about PanelNodes, for any nodes, configs and bounds.             *)
(*                                                                         *)
(* The argument: MAX + 1 is a fresh number as long as the numbers are a    *)
(* sequence, and they stay one because a verdict changes no number; so a   *)
(* (node, number) pair names one row for ever, which is what the claims    *)
(* about rollbacks and verdicts rest on.                                   *)
(***************************************************************************)
EXTENDS PanelNodes, TLAPS

-----------------------------------------------------------------------------
(* Numbers *)

\* MAX(revision_number) over 1, ..., k, with COALESCE to 0, is k.
LEMMA MaxOfSequence ==
  ASSUME NEW k \in Nat
  PROVE  Max({0} \cup 1..k) = k
<1> DEFINE S == {0} \cup 1..k
<1>1. k \in S /\ \A y \in S : k >= y
  OBVIOUS
<1>2. \A x \in S : (\A y \in S : x >= y) => x = k
  OBVIOUS
<1>3. (CHOOSE x \in S : \A y \in S : x >= y) = k
  BY <1>1, <1>2
<1> QED BY <1>3 DEF Max

\* The next number of a node is one more than the number of its revisions.
LEMMA NextNumberFollows ==
  ASSUME NumbersAreASequence, NEW n \in Node
  PROVE  \E k \in 0..MaxRevision : Numbers(n) = 1..k /\ NextNumber(n) = k + 1
<1>1. PICK k \in 0..MaxRevision : Numbers(n) = 1..k
  BY DEF NumbersAreASequence
<1>2. k \in Nat
  BY PanelAssumption
<1>3. NextNumber(n) = k + 1
  BY <1>1, <1>2, MaxOfSequence DEF NextNumber
<1> QED BY <1>1, <1>3

-----------------------------------------------------------------------------
(* The ways the table config_revisions changes *)

\* A deploy or a rollback is inserted, or a report decides one row.
LEMMA RevisionsChange ==
  ASSUME Next
  PROVE  \/ UNCHANGED revisions
         \/ \E n \in Node, config \in Config : CreateDummyConfigRevision(n, config)
         \/ \E n \in Node : \E r \in RevisionsOf(n) :
              CreateRollbackConfigRevision(n, r)
         \/ \E report \in reporting : ReportCommit(report)
<1>1. ASSUME NEW n \in Node, NodeStep(n)
      PROVE  \/ UNCHANGED revisions
             \/ \E config \in Config : CreateDummyConfigRevision(n, config)
             \/ \E r \in RevisionsOf(n) : CreateRollbackConfigRevision(n, r)
  BY <1>1 DEF NodeStep, CreateBootstrapToken, BootstrapTokenExpires, Register,
              Drain, Undrain, Disable, Enable
<1>2. \A n \in Node : HeartbeatStep(n) => UNCHANGED revisions
  BY DEF HeartbeatStep, RecordHeartbeat
<1>3. ReportStep => \/ UNCHANGED revisions
                    \/ \E report \in reporting : ReportCommit(report)
  <2>1. \A report, holder : ReportBegin(report, holder) => UNCHANGED revisions
    BY DEF ReportBegin
  <2>2. \A report : ReportAbort(report) \/ ReportMisses(report) => UNCHANGED revisions
    BY DEF ReportAbort, ReportMisses
  <2> QED BY <2>1, <2>2 DEF ReportStep
<1>4. CASE ReportStep
  BY <1>3, <1>4
<1>5. ASSUME NEW n \in Node, NodeStep(n) \/ HeartbeatStep(n)
      PROVE  \/ UNCHANGED revisions
             \/ \E config \in Config : CreateDummyConfigRevision(n, config)
             \/ \E r \in RevisionsOf(n) : CreateRollbackConfigRevision(n, r)
  BY <1>1, <1>2, <1>5
<1> QED BY <1>4, <1>5, Zenon DEF Next

\* Both creations insert a row of a node that accepts revisions.
InsertsRow(n, row) ==
  /\ AcceptsRevisions(n)
  /\ row.node = n /\ row.number = NextNumber(n) /\ row.status = "pending"
  /\ row = [node |-> n, number |-> NextNumber(n), status |-> "pending",
            kind |-> row.kind, source |-> row.source, target |-> nodes[n].activeRevision,
            config |-> row.config]
  /\ revisions' = revisions \cup {row}

\* A report turns one pending row into the same row with a verdict.
DecidesRow(r, outcome) ==
  /\ r \in revisions /\ r.status = "pending" /\ outcome \in Outcome
  /\ revisions' = (revisions \ {r}) \cup {[r EXCEPT !.status = outcome]}

\* CreateDummyConfigRevision and CreateRollbackConfigRevision insert one pending row
\* with the next number; a rollback's carries its source's number and config.
LEMMA CreationInserts ==
  /\ \A n \in Node, config \in Config :
       CreateDummyConfigRevision(n, config) =>
         \E row : InsertsRow(n, row) /\ row.kind = "deploy" /\ row.source = 0
                  /\ row.config = config
  /\ \A n \in Node : \A r \in RevisionsOf(n) :
       CreateRollbackConfigRevision(n, r) =>
         \E row : InsertsRow(n, row) /\ row.kind = "rollback"
                  /\ row.source = r.number /\ row.config = r.config
<1>1. ASSUME NEW n \in Node, NEW config \in Config,
             CreateDummyConfigRevision(n, config)
      PROVE  \E row : InsertsRow(n, row) /\ row.kind = "deploy" /\ row.source = 0
                      /\ row.config = config
  <2> DEFINE row == [node |-> n, number |-> NextNumber(n), status |-> "pending",
                     kind |-> "deploy", source |-> 0,
                     target |-> nodes[n].activeRevision, config |-> config]
  <2>1. InsertsRow(n, row) /\ row.kind = "deploy" /\ row.source = 0
        /\ row.config = config
    BY <1>1 DEF CreateDummyConfigRevision, Insert, InsertsRow
  <2> QED BY <2>1
<1>2. ASSUME NEW n \in Node, NEW r \in RevisionsOf(n),
             CreateRollbackConfigRevision(n, r)
      PROVE  \E row : InsertsRow(n, row) /\ row.kind = "rollback"
                      /\ row.source = r.number /\ row.config = r.config
  <2> DEFINE row == [node |-> n, number |-> NextNumber(n), status |-> "pending",
                     kind |-> "rollback", source |-> r.number,
                     target |-> nodes[n].activeRevision, config |-> r.config]
  <2>1. InsertsRow(n, row) /\ row.kind = "rollback"
        /\ row.source = r.number /\ row.config = r.config
    BY <1>2 DEF CreateRollbackConfigRevision, Insert, InsertsRow
  <2> QED BY <2>1
<1> QED BY <1>1, <1>2

\* ReportConfigRevision's commit decides the one pending row the report names.
LEMMA CommitDecides ==
  ASSUME TypeOK, NEW report \in reporting, ReportCommit(report)
  PROVE  \E r \in Pending(report.node) :
           r.number = report.number /\ DecidesRow(r, report.outcome)
BY DEF ReportCommit, DecidesRow, Pending, RevisionsOf, TypeOK, Report

-----------------------------------------------------------------------------
(* Type correctness and numbering *)

Numbering == TypeOK /\ NumbersAreASequence

\* A new row with the next number leaves the numbers without a gap.
LEMMA InsertKeepsNumbering ==
  ASSUME Numbering, NEW n \in Node, NEW row, InsertsRow(n, row)
  PROVE  NumbersAreASequence'
<1>1. PICK k \in 0..MaxRevision : Numbers(n) = 1..k /\ NextNumber(n) = k + 1
  BY NextNumberFollows DEF Numbering
<1>2. k + 1 \in 0..MaxRevision
  BY <1>1, PanelAssumption DEF InsertsRow, AcceptsRevisions
<1>3. Numbers(n)' = 1..(k + 1)
  <2>1. Numbers(n)' = Numbers(n) \cup {k + 1}
    BY <1>1 DEF Numbers, RevisionsOf, InsertsRow
  <2>2. k \in Nat
    BY PanelAssumption
  <2> QED BY <1>1, <2>1, <2>2
<1>4. \A r \in RevisionsOf(n) : r.number # row.number
  BY <1>1, PanelAssumption DEF Numbers, InsertsRow
<1>5. \A m \in Node \ {n} : Numbers(m)' = Numbers(m) /\ RevisionsOf(m)' = RevisionsOf(m)
  BY DEF Numbers, RevisionsOf, InsertsRow
<1>6. RevisionsOf(n)' = RevisionsOf(n) \cup {row}
  BY DEF RevisionsOf, InsertsRow
<1>7. \A m \in Node : \E j \in 0..MaxRevision : Numbers(m)' = 1..j
  BY <1>2, <1>3, <1>5 DEF Numbering, NumbersAreASequence
<1>8. \A m \in Node : \A r, s \in RevisionsOf(m)' : r.number = s.number => r = s
  BY <1>4, <1>5, <1>6 DEF Numbering, NumbersAreASequence
<1> QED BY <1>7, <1>8 DEF NumbersAreASequence

\* What a verdict leaves of every row.
LEMMA DecisionKeepsRows ==
  ASSUME TypeOK, NEW r, NEW outcome, DecidesRow(r, outcome)
  PROVE  /\ [r EXCEPT !.status = outcome] \in Revision
         /\ \A n \in Node :
              /\ Numbers(n)' = Numbers(n)
              /\ n # r.node => RevisionsOf(n)' = RevisionsOf(n)
         /\ RevisionsOf(r.node)' =
              (RevisionsOf(r.node) \ {r}) \cup {[r EXCEPT !.status = outcome]}
<1> DEFINE q == [r EXCEPT !.status = outcome]
<1>1. r \in Revision
  BY DEF DecidesRow, TypeOK
<1>2. q \in Revision /\ q.node = r.node /\ q.number = r.number
  BY <1>1 DEF DecidesRow, Revision, Outcome
<1>3. revisions' = (revisions \ {r}) \cup {q} /\ r \in revisions
  BY DEF DecidesRow
<1> HIDE DEF q
<1>4. \A n \in Node : n # r.node => RevisionsOf(n)' = RevisionsOf(n)
  BY <1>2, <1>3 DEF RevisionsOf
<1>5. RevisionsOf(r.node)' = (RevisionsOf(r.node) \ {r}) \cup {q}
  BY <1>2, <1>3 DEF RevisionsOf
<1>6. \A n \in Node : Numbers(n)' = Numbers(n)
  BY <1>2, <1>3 DEF Numbers, RevisionsOf
<1> QED BY <1>2, <1>4, <1>5, <1>6 DEF q

\* A verdict changes no number.
LEMMA DecisionKeepsNumbering ==
  ASSUME Numbering, NEW r, NEW outcome, DecidesRow(r, outcome)
  PROVE  NumbersAreASequence'
<1> DEFINE q == [r EXCEPT !.status = outcome]
<1>1. q \in Revision /\ q.number = r.number /\ r \in RevisionsOf(r.node)
      /\ r.node \in Node
  BY DEF DecidesRow, Numbering, TypeOK, Revision, Outcome, RevisionsOf
<1>2. \A n \in Node :
        /\ Numbers(n)' = Numbers(n)
        /\ n # r.node => RevisionsOf(n)' = RevisionsOf(n)
  BY DecisionKeepsRows DEF Numbering
<1>3. RevisionsOf(r.node)' = (RevisionsOf(r.node) \ {r}) \cup {q}
  BY DecisionKeepsRows DEF Numbering
<1> HIDE DEF q
<1>4. \A n \in Node : \A s, t \in RevisionsOf(n)' : s.number = t.number => s = t
  BY <1>1, <1>2, <1>3 DEF Numbering, NumbersAreASequence
<1> QED BY <1>2, <1>4 DEF Numbering, NumbersAreASequence

\* The columns of one row change; the rest is as it was.
LEMMA LifecycleKeepsTypes ==
  ASSUME TypeOK, NEW n \in Node,
         \/ CreateBootstrapToken(n) \/ BootstrapTokenExpires(n) \/ Register(n)
         \/ Drain(n) \/ Undrain(n) \/ Disable(n) \/ Enable(n)
  PROVE  TypeOK'
<1>1. NoRow \in NodeRow
  BY DEF NoRow, NodeRow, NodeStatus, DrainState, RuntimeState
<1>2. \A row \in NodeRow :
        /\ \A st \in NodeStatus : [row EXCEPT !.status = st] \in NodeRow
        /\ \A d \in DrainState : [row EXCEPT !.drainState = d] \in NodeRow
        /\ [row EXCEPT !.expired = TRUE] \in NodeRow
        /\ [row EXCEPT !.status = "active", !.registered = TRUE,
                       !.bootstrap = "used"] \in NodeRow
        /\ [row EXCEPT !.status = "pending", !.bootstrap = "active"] \in NodeRow
  BY DEF NodeRow, NodeStatus
<1>3. CASE CreateBootstrapToken(n)
  BY <1>1, <1>2, <1>3 DEF CreateBootstrapToken, TypeOK
<1>4. CASE BootstrapTokenExpires(n)
  BY <1>2, <1>4 DEF BootstrapTokenExpires, TypeOK
<1>5. CASE Register(n)
  <2>1. nodes' = [nodes EXCEPT ![n] = [nodes[n] EXCEPT
                    !.status = "active", !.registered = TRUE, !.bootstrap = "used"]]
    BY <1>5 DEF Register, TypeOK
  <2>2. registrations' \in [Node -> Nat]
    BY <1>5 DEF Register, TypeOK
  <2>3. [nodes[n] EXCEPT !.status = "active", !.registered = TRUE,
                         !.bootstrap = "used"] \in NodeRow
    BY <1>2 DEF TypeOK
  <2>4. nodes' \in [Node -> NodeRow]
    BY <2>1, <2>3 DEF TypeOK
  <2> QED BY <1>5, <2>2, <2>4 DEF Register, TypeOK
<1>6. CASE Drain(n)
  BY <1>2, <1>6 DEF Drain, TypeOK, DrainState
<1>7. CASE Undrain(n)
  BY <1>2, <1>7 DEF Undrain, TypeOK, DrainState
<1>8. CASE Disable(n)
  BY <1>2, <1>8 DEF Disable, TypeOK, NodeStatus
<1>9. CASE Enable(n)
  BY <1>2, <1>9 DEF Enable, TypeOK, NodeStatus
<1> QED BY <1>3, <1>4, <1>5, <1>6, <1>7, <1>8, <1>9

\* The columns a heartbeat or a report writes keep a row a row.
LEMMA ColumnsKeepTypes ==
  ASSUME NEW row \in NodeRow, NEW st \in NodeStatus, NEW active \in Nat,
         NEW applied \in Nat, NEW state \in RuntimeState
  PROVE  /\ [row EXCEPT !.status = st, !.activeRevision = active,
                        !.lastApplied = applied, !.runtimeState = state] \in NodeRow
         /\ [row EXCEPT !.activeRevision = active, !.lastApplied = applied,
                        !.runtimeState = state] \in NodeRow
         /\ [row EXCEPT !.lastApplied = applied, !.runtimeState = state] \in NodeRow
BY DEF NodeRow

\* RecordHeartbeat keeps every table's types.
LEMMA HeartbeatKeepsTypes ==
  ASSUME TypeOK, NEW n \in Node, HeartbeatStep(n)
  PROVE  TypeOK'
<1>1. PICK holder \in Node, st \in ReportedStatus, active \in ReportedRevision,
           metadata \in BOOLEAN, applied \in ReportedRevision, state \in ReportedState :
        RecordHeartbeat(n, holder, st, active, metadata, applied, state)
  BY DEF HeartbeatStep
<1>2. nodes[n] \in NodeRow /\ active \in Nat
  BY PanelAssumption DEF TypeOK
<1> DEFINE newStatus  == IF nodes[n].drainState = "drained" THEN "drained" ELSE st
           newApplied == IF metadata THEN applied ELSE nodes[n].lastApplied
           newState   == IF metadata THEN state ELSE nodes[n].runtimeState
<1>3. newStatus \in NodeStatus
  BY PanelAssumption DEF NodeStatus
<1>4. newApplied \in Nat /\ newState \in RuntimeState
  BY <1>2, PanelAssumption DEF NodeRow
<1>5. nodes' = [nodes EXCEPT ![n] =
        [nodes[n] EXCEPT !.status = newStatus, !.activeRevision = active,
                         !.lastApplied = newApplied, !.runtimeState = newState]]
  BY <1>1 DEF RecordHeartbeat, TypeOK
<1> HIDE DEF newStatus, newApplied, newState
<1>6. [nodes[n] EXCEPT !.status = newStatus, !.activeRevision = active,
                       !.lastApplied = newApplied, !.runtimeState = newState] \in NodeRow
  BY <1>2, <1>3, <1>4, ColumnsKeepTypes
<1>7. nodes' \in [Node -> NodeRow]
  BY <1>5, <1>6 DEF TypeOK
<1> QED BY <1>1, <1>7 DEF RecordHeartbeat, TypeOK

\* The statements of ReportConfigRevision keep every table's types.
LEMMA ReportKeepsTypes ==
  ASSUME Numbering, ReportStep
  PROVE  TypeOK'
<1>1. ASSUME NEW n \in Node, NEW holder \in Node, NEW number \in 1..MaxRevision,
             NEW outcome \in Outcome, NEW applied \in ReportedRevision,
             NEW state \in ReportedState,
             ReportBegin([node |-> n, number |-> number, outcome |-> outcome,
                          lastApplied |-> applied, runtimeState |-> state,
                          missed |-> FALSE], holder)
      PROVE  TypeOK'
  <2>1. [node |-> n, number |-> number, outcome |-> outcome,
         lastApplied |-> applied, runtimeState |-> state, missed |-> FALSE] \in Report
    BY PanelAssumption DEF Report
  <2> QED BY <1>1, <2>1 DEF ReportBegin, TypeOK, Numbering
<1>2. ASSUME NEW report \in reporting, ReportCommit(report)
      PROVE  TypeOK'
  <2>1. report \in Report /\ nodes[report.node] \in NodeRow
    BY DEF Numbering, TypeOK, Report
  <2>2. ReportedRow(nodes[report.node], report) \in NodeRow
    <3>1. (IF report.lastApplied > 0 THEN report.lastApplied
                                     ELSE report.number) \in Nat
          /\ (IF report.lastApplied > 0 THEN report.lastApplied
                 ELSE nodes[report.node].lastApplied) \in Nat
          /\ report.number \in Nat /\ report.runtimeState \in RuntimeState
      BY <2>1 DEF Report, NodeRow
    <3> QED BY <2>1, <3>1, ColumnsKeepTypes DEF ReportedRow, NodeStatus
  <2>3. nodes' \in [Node -> NodeRow]
    BY <1>2, <2>2 DEF ReportCommit, Numbering, TypeOK
  <2>4. revisions' \subseteq Revision
    BY <1>2, CommitDecides, DecisionKeepsRows DEF Numbering, TypeOK, DecidesRow
  <2> QED BY <1>2, <2>3, <2>4 DEF ReportCommit, Numbering, TypeOK
<1>3. ASSUME NEW report \in reporting, ReportAbort(report)
      PROVE  TypeOK'
  BY <1>3 DEF ReportAbort, Numbering, TypeOK
<1>4. ASSUME NEW report \in reporting, ReportMisses(report)
      PROVE  TypeOK'
  <2>1. [report EXCEPT !.missed = TRUE] \in Report
    BY DEF Numbering, TypeOK, Report
  <2> QED BY <1>4, <2>1 DEF ReportMisses, Numbering, TypeOK
<1> QED BY <1>1, <1>2, <1>3, <1>4 DEF ReportStep

\* The two creations of revisions keep every table's types.
LEMMA CreationKeepsTypes ==
  ASSUME Numbering, NEW n \in Node,
         \/ \E config \in Config : CreateDummyConfigRevision(n, config)
         \/ \E r \in RevisionsOf(n) : CreateRollbackConfigRevision(n, r)
  PROVE  TypeOK'
<1>1. NextNumber(n) \in Nat /\ nodes[n].activeRevision \in Nat
  BY NextNumberFollows, PanelAssumption DEF Numbering, TypeOK, NodeRow
<1>2. ASSUME NEW config \in Config, CreateDummyConfigRevision(n, config)
      PROVE  TypeOK'
  <2>1. [node |-> n, number |-> NextNumber(n), status |-> "pending",
         kind |-> "deploy", source |-> 0, target |-> nodes[n].activeRevision,
         config |-> config] \in Revision
    BY <1>1 DEF Revision
  <2> QED BY <1>2, <2>1 DEF CreateDummyConfigRevision, Insert, Numbering, TypeOK
<1>3. ASSUME NEW r \in RevisionsOf(n), CreateRollbackConfigRevision(n, r)
      PROVE  TypeOK'
  <2>1. r.number \in Nat /\ r.config \in Config
    BY DEF RevisionsOf, Numbering, TypeOK, Revision
  <2>2. [node |-> n, number |-> NextNumber(n), status |-> "pending",
         kind |-> "rollback", source |-> r.number,
         target |-> nodes[n].activeRevision, config |-> r.config] \in Revision
    BY <1>1, <2>1 DEF Revision
  <2> QED BY <1>3, <2>2 DEF CreateRollbackConfigRevision, Insert, Numbering, TypeOK
<1> QED BY <1>2, <1>3

\* Empty tables are numbered correctly.
LEMMA NumberingInit == Init => Numbering
<1>1. Init => TypeOK
  BY DEF Init, TypeOK, NoRow, NodeRow, NodeStatus, DrainState, RuntimeState
<1>2. Init => \A n \in Node : Numbers(n) = 1..0 /\ RevisionsOf(n) = {}
  BY DEF Init, Numbers, RevisionsOf
<1> QED BY <1>1, <1>2, PanelAssumption DEF Numbering, NumbersAreASequence

\* Every operation keeps types and numbering.
LEMMA NumberingStep == Numbering /\ [Next]_vars => Numbering'
<1> SUFFICES ASSUME Numbering, [Next]_vars
             PROVE  Numbering'
  OBVIOUS
<1>1. CASE UNCHANGED vars
  BY <1>1 DEF vars, Numbering, TypeOK, NumbersAreASequence, Numbers, RevisionsOf
<1>2. CASE Next
  <2>1. TypeOK'
    BY <1>2, LifecycleKeepsTypes, HeartbeatKeepsTypes, ReportKeepsTypes,
       CreationKeepsTypes DEF Next, NodeStep, Numbering
  <2>2. NumbersAreASequence'
    <3>1. CASE UNCHANGED revisions
      BY <3>1 DEF Numbering, NumbersAreASequence, Numbers, RevisionsOf
    <3>2. ASSUME NEW n \in Node, NEW config \in Config,
                 CreateDummyConfigRevision(n, config)
          PROVE  NumbersAreASequence'
      BY <3>2, CreationInserts, InsertKeepsNumbering
    <3>3. ASSUME NEW n \in Node, NEW r \in RevisionsOf(n),
                 CreateRollbackConfigRevision(n, r)
          PROVE  NumbersAreASequence'
      BY <3>3, CreationInserts, InsertKeepsNumbering
    <3>4. ASSUME NEW report \in reporting, ReportCommit(report)
          PROVE  NumbersAreASequence'
      BY <3>4, CommitDecides, DecisionKeepsNumbering DEF Numbering
    <3> QED BY <1>2, <3>1, <3>2, <3>3, <3>4, RevisionsChange
  <2> QED BY <2>1, <2>2 DEF Numbering
<1> QED BY <1>1, <1>2

\* The four tables keep their types, and every node's revisions are numbered
\* 1, 2, 3, ... without gap or duplicate: MAX + 1 is always fresh.
THEOREM NumberingCorrect == Spec => [](TypeOK /\ NumbersAreASequence)
BY NumberingInit, NumberingStep, PTL DEF Spec, Numbering

-----------------------------------------------------------------------------
(* Verdicts and rollbacks *)

\* No step touches anything of a row but a pending status.
LEMMA StepKeepsRevisions ==
  ASSUME TypeOK, [Next]_vars, NEW r \in revisions
  PROVE  \E s \in revisions' : Continues(r, s)
<1>1. Continues(r, r)
  BY DEF TypeOK, Revision, Continues
<1>2. CASE r \in revisions'
  BY <1>1, <1>2
<1>3. ASSUME NEW q, NEW outcome, DecidesRow(q, outcome)
      PROVE  \E s \in revisions' : Continues(r, s)
  <2>1. CASE q # r
    BY <1>2, <1>3, <2>1 DEF DecidesRow
  <2>2. CASE q = r
    <3> DEFINE s == [r EXCEPT !.status = outcome]
    <3>1. s \in revisions' /\ r.status = "pending"
      BY <1>3, <2>2 DEF DecidesRow
    <3>2. Continues(r, s)
      BY <3>1 DEF TypeOK, Revision, Continues
    <3> QED BY <3>1, <3>2
  <2> QED BY <2>1, <2>2
<1>4. CASE UNCHANGED vars
  BY <1>2, <1>4 DEF vars
<1>5. CASE Next
  <2>1. \A n, row : InsertsRow(n, row) => r \in revisions'
    BY DEF InsertsRow
  <2>2. UNCHANGED revisions => r \in revisions'
    OBVIOUS
  <2> QED BY <1>2, <1>3, <1>5, <2>1, <2>2, RevisionsChange, CreationInserts,
             CommitDecides
<1> QED BY <1>4, <1>5

\* VerdictIsFinal holds of every step: a late or repeated report finds no
\* pending row to decide.
THEOREM VerdictsAreFinal == Spec => VerdictIsFinal
<1>1. TypeOK /\ [Next]_vars =>
        [\A r \in revisions : \E s \in revisions' : Continues(r, s)]_revisions
  BY StepKeepsRevisions
<1> QED BY <1>1, NumberingCorrect, PTL DEF Spec, VerdictIsFinal

\* The two rows RollbackRestoresAppliedDeploy promises for a rollback r.
SourceOf(r, s) ==
  s.node = r.node /\ s.number = r.source /\ s.number < r.number
  /\ s.status = "applied"
DeployOf(r, d) ==
  d.node = r.node /\ d.kind = "deploy" /\ d.status = "applied"
  /\ d.number <= r.source /\ d.config = r.config

\* The claim on rollbacks, said of the rows of the table instead of a node's.
LEMMA RollbackRows ==
  RollbackRestoresAppliedDeploy <=>
    \A r \in revisions : r.kind = "rollback" =>
      (\E s \in revisions : SourceOf(r, s)) /\ (\E d \in revisions : DeployOf(r, d))
BY DEF RollbackRestoresAppliedDeploy, RevisionsOf, SourceOf, DeployOf

\* An applied row is in the table for good.
LEMMA AppliedStays ==
  ASSUME TypeOK, [Next]_vars, NEW r \in revisions, r.status = "applied"
  PROVE  r \in revisions'
<1>1. PICK s \in revisions' : Continues(r, s)
  BY StepKeepsRevisions
<1>2. s = r
  BY <1>1 DEF Continues
<1> QED BY <1>2

\* A rollback keeps its source and its deploy through every step.
LEMMA WitnessesStay ==
  ASSUME TypeOK, [Next]_vars, RollbackRestoresAppliedDeploy,
         NEW r \in revisions, r.kind = "rollback"
  PROVE  (\E s \in revisions' : SourceOf(r, s)) /\ (\E d \in revisions' : DeployOf(r, d))
BY AppliedStays, RollbackRows DEF SourceOf, DeployOf

\* A new rollback has its source for a witness, or its source's deploy.
LEMMA NewRollback ==
  ASSUME Numbering, RollbackRestoresAppliedDeploy, NEW n \in Node,
         NEW r \in RevisionsOf(n), r.status = "applied",
         NEW row, InsertsRow(n, row), row.source = r.number, row.config = r.config
  PROVE  (\E s \in revisions : SourceOf(row, s)) /\ (\E d \in revisions : DeployOf(row, d))
<1>1. PICK k \in 0..MaxRevision : Numbers(n) = 1..k /\ NextNumber(n) = k + 1
  BY NextNumberFollows DEF Numbering
<1>2. r.number \in 1..k /\ r \in Revision /\ r \in revisions /\ r.node = n
  BY <1>1 DEF Numbers, RevisionsOf, Numbering, TypeOK
<1>3. r.number < row.number /\ row.node = n
  BY <1>1, <1>2, PanelAssumption DEF InsertsRow
<1>4. SourceOf(row, r)
  BY <1>2, <1>3 DEF SourceOf
<1>5. CASE r.kind = "deploy"
  <2>1. DeployOf(row, r)
    BY <1>2, <1>3, <1>5 DEF DeployOf
  <2> QED BY <1>2, <1>4, <2>1
<1>6. CASE r.kind = "rollback"
  <2>1. PICK s \in revisions, d \in revisions : SourceOf(r, s) /\ DeployOf(r, d)
    BY <1>2, <1>6, RollbackRows
  <2>2. r.source \in Nat /\ d.number \in Nat /\ r.number \in Nat
    BY <1>2 DEF Revision, Numbering, TypeOK
  <2>3. DeployOf(row, d)
    BY <1>2, <1>3, <2>1, <2>2 DEF SourceOf, DeployOf
  <2> QED BY <1>2, <1>4, <2>3
<1> QED BY <1>2, <1>5, <1>6 DEF Revision

\* Every operation keeps the claim on rollbacks.
LEMMA RollbackStep ==
  Numbering /\ RollbackRestoresAppliedDeploy /\ [Next]_vars
    => RollbackRestoresAppliedDeploy'
<1> SUFFICES ASSUME Numbering, RollbackRestoresAppliedDeploy, [Next]_vars,
                    NEW q \in revisions', q.kind = "rollback"
             PROVE  (\E s \in revisions' : SourceOf(q, s))
                    /\ (\E d \in revisions' : DeployOf(q, d))
  BY DEF RollbackRestoresAppliedDeploy, RevisionsOf, SourceOf, DeployOf
<1>1. CASE q \in revisions
  BY <1>1, WitnessesStay DEF Numbering
<1>2. ASSUME NEW n \in Node, NEW config \in Config,
             CreateDummyConfigRevision(n, config), q \notin revisions
      PROVE  FALSE
  BY <1>2, CreationInserts DEF InsertsRow
<1>3. ASSUME NEW n \in Node, NEW r \in RevisionsOf(n),
             CreateRollbackConfigRevision(n, r), q \notin revisions
      PROVE  (\E s \in revisions' : SourceOf(q, s))
             /\ (\E d \in revisions' : DeployOf(q, d))
  <2>1. InsertsRow(n, q) /\ q.source = r.number /\ q.config = r.config
    BY <1>3, CreationInserts DEF InsertsRow
  <2>2. r.status = "applied"
    BY <1>3 DEF CreateRollbackConfigRevision
  <2>3. (\E s \in revisions : SourceOf(q, s)) /\ (\E d \in revisions : DeployOf(q, d))
    BY <2>1, <2>2, NewRollback
  <2> QED BY <2>1, <2>3 DEF InsertsRow
<1>4. ASSUME NEW report \in reporting, ReportCommit(report), q \notin revisions
      PROVE  (\E s \in revisions' : SourceOf(q, s))
             /\ (\E d \in revisions' : DeployOf(q, d))
  <2>1. PICK r : DecidesRow(r, report.outcome)
    BY <1>4, CommitDecides DEF Numbering
  <2>2. q = [r EXCEPT !.status = report.outcome] /\ r \in Revision /\ r \in revisions
    BY <1>4, <2>1 DEF DecidesRow, Numbering, TypeOK
  <2>3. /\ r.kind = q.kind /\ r.node = q.node /\ r.source = q.source
        /\ r.number = q.number /\ r.config = q.config
    BY <2>2 DEF Revision
  <2>4. (\E s \in revisions' : SourceOf(r, s)) /\ (\E d \in revisions' : DeployOf(r, d))
    BY <2>2, <2>3, WitnessesStay DEF Numbering
  <2> QED BY <2>3, <2>4 DEF SourceOf, DeployOf
<1>5. CASE UNCHANGED vars
  BY <1>1, <1>5 DEF vars
<1>6. CASE Next
  BY <1>1, <1>2, <1>3, <1>4, <1>6, RevisionsChange
<1> QED BY <1>5, <1>6

\* However long the chain of rollbacks, a rollback carries the config of a
\* deploy of its node that was applied.
THEOREM RollbacksRestore == Spec => []RollbackRestoresAppliedDeploy
<1>1. Init => RollbackRestoresAppliedDeploy
  BY DEF Init, RollbackRestoresAppliedDeploy
<1> QED BY <1>1, NumberingInit, NumberingStep, RollbackStep, PTL DEF Spec

-----------------------------------------------------------------------------
(* Registration *)

\* What the two registration invariants need besides themselves: a node whose
\* row does not exist yet has not registered.
AbsentIsUnregistered == \A n \in Node : ~Exists(n) => ~nodes[n].registered

Registration ==
  TypeOK /\ TokenRegistersOnce /\ UnregisteredIsInert /\ AbsentIsUnregistered

\* What every invariant about registration says of one node.
Registered(row, count) ==
  /\ row.registered <=> row.bootstrap = "used"
  /\ count = IF row.registered THEN 1 ELSE 0
  /\ row.status = "absent" => ~row.registered
  /\ ~row.registered => row.activeRevision = 0 /\ row.lastApplied = 0

\* Registration, said row by row.
LEMMA RegistrationRows ==
  Registration <=>
    /\ TypeOK
    /\ \A n \in Node : Registered(nodes[n], registrations[n])
    /\ \A r \in revisions : r.node \in Node /\ ~nodes[r.node].registered => r.status = "pending"
    /\ \A report \in reporting : nodes[report.node].registered
<1>1. ASSUME TypeOK
      PROVE  UnregisteredIsInert <=>
               /\ \A n \in Node : ~nodes[n].registered =>
                    nodes[n].activeRevision = 0 /\ nodes[n].lastApplied = 0
               /\ \A r \in revisions : r.node \in Node /\ ~nodes[r.node].registered => r.status = "pending"
               /\ \A report \in reporting : nodes[report.node].registered
  BY <1>1 DEF TypeOK, UnregisteredIsInert, Pending, RevisionsOf, Report
<1> QED BY <1>1 DEF Registration, TokenRegistersOnce, AbsentIsUnregistered,
                    Registered, Exists

\* No step of a node undoes its registration or anticipates it.
LEMMA LifecycleKeepsRows ==
  ASSUME Registration, NEW n \in Node,
         NodeStep(n) \/ HeartbeatStep(n), NEW m \in Node
  PROVE  /\ Registered(nodes'[m], registrations'[m])
         /\ nodes[m].registered => nodes'[m].registered
<1> USE RegistrationRows DEF Registered, TypeOK, NodeRow
<1>1. CASE CreateBootstrapToken(n)
  BY <1>1 DEF CreateBootstrapToken, NoRow, Exists
<1>2. CASE BootstrapTokenExpires(n)
  BY <1>2 DEF BootstrapTokenExpires
<1>3. CASE Register(n)
  BY <1>3 DEF Register
<1>4. CASE Drain(n)
  BY <1>4 DEF Drain
<1>5. CASE Undrain(n)
  BY <1>5 DEF Undrain
<1>6. CASE Disable(n)
  BY <1>6 DEF Disable, Exists
<1>7. CASE Enable(n)
  BY <1>7 DEF Enable
<1>8. CASE \/ \E config \in Config : CreateDummyConfigRevision(n, config)
           \/ \E r \in RevisionsOf(n) : CreateRollbackConfigRevision(n, r)
  BY <1>8 DEF CreateDummyConfigRevision, CreateRollbackConfigRevision
<1>9. CASE HeartbeatStep(n)
  <2>1. PICK holder \in Node, st \in ReportedStatus, active \in ReportedRevision,
             metadata \in BOOLEAN, applied \in ReportedRevision, state \in ReportedState :
          RecordHeartbeat(n, holder, st, active, metadata, applied, state)
    BY <1>9 DEF HeartbeatStep
  <2> DEFINE newStatus  == IF nodes[n].drainState = "drained" THEN "drained" ELSE st
             newApplied == IF metadata THEN applied ELSE nodes[n].lastApplied
             newState   == IF metadata THEN state ELSE nodes[n].runtimeState
             row == [nodes[n] EXCEPT !.status = newStatus, !.activeRevision = active,
                       !.lastApplied = newApplied, !.runtimeState = newState]
  <2>2. newStatus # "absent"
    BY PanelAssumption DEF NodeStatus
  <2>3. nodes' = [nodes EXCEPT ![n] = row] /\ nodes[n].registered
        /\ registrations' = registrations
    BY <2>1 DEF RecordHeartbeat, Authorised
  <2> HIDE DEF newStatus, newApplied, newState
  <2>4. row.registered = nodes[n].registered /\ row.bootstrap = nodes[n].bootstrap
        /\ row.status # "absent"
    BY <2>2
  <2> HIDE DEF row
  <2> QED BY <2>3, <2>4
<1> QED BY <1>1, <1>2, <1>3, <1>4, <1>5, <1>6, <1>7, <1>8, <1>9 DEF NodeStep

\* A report neither registers a node nor takes its registration away.
LEMMA ReportKeepsRows ==
  ASSUME Registration, ReportStep, NEW m \in Node
  PROVE  /\ Registered(nodes'[m], registrations'[m])
         /\ nodes[m].registered => nodes'[m].registered
<1>1. CASE UNCHANGED <<nodes, registrations>>
  BY <1>1, RegistrationRows
<1>2. ASSUME NEW report \in reporting, ReportCommit(report)
      PROVE  /\ Registered(nodes'[m], registrations'[m])
             /\ nodes[m].registered => nodes'[m].registered
  <2>1. report \in Report /\ nodes[report.node].registered /\ report.node \in Node
    BY RegistrationRows DEF TypeOK, Report
  <2>2. /\ ReportedRow(nodes[report.node], report).registered
           = nodes[report.node].registered
        /\ ReportedRow(nodes[report.node], report).bootstrap
           = nodes[report.node].bootstrap
        /\ ReportedRow(nodes[report.node], report).status
           = nodes[report.node].status
    BY <2>1, RegistrationRows DEF TypeOK, NodeRow, ReportedRow
  <2>3. nodes' = nodes
        \/ nodes' = [nodes EXCEPT ![report.node] = ReportedRow(nodes[report.node], report)]
    BY <1>2 DEF ReportCommit
  <2>4. registrations' = registrations
    BY <1>2 DEF ReportCommit
  <2> QED BY <2>1, <2>2, <2>3, <2>4, RegistrationRows DEF Registered, TypeOK
<1>3. \A report, holder : ReportBegin(report, holder) => UNCHANGED <<nodes, registrations>>
  BY DEF ReportBegin
<1>4. \A report : ReportAbort(report) \/ ReportMisses(report)
                    => UNCHANGED <<nodes, registrations>>
  BY DEF ReportAbort, ReportMisses
<1> QED BY <1>1, <1>2, <1>3, <1>4 DEF ReportStep

\* A report under way was authorised when it began.
LEMMA NewReports ==
  ASSUME Registration, Next, NEW report \in reporting', report \notin reporting
  PROVE  nodes[report.node].registered
<1>1. \A n \in Node : NodeStep(n) => UNCHANGED reporting
  BY DEF NodeStep, CreateBootstrapToken, BootstrapTokenExpires, Register, Drain,
         Undrain, Disable, Enable, CreateDummyConfigRevision,
         CreateRollbackConfigRevision
<1>2. \A n \in Node : HeartbeatStep(n) => UNCHANGED reporting
  BY DEF HeartbeatStep, RecordHeartbeat
<1>3. \A q, holder : ReportBegin(q, holder) =>
        reporting' = reporting \cup {q} /\ nodes[q.node].registered
  BY DEF ReportBegin, Authorised
<1>4. \A q : ReportCommit(q) \/ ReportAbort(q) => report \notin reporting'
  BY DEF ReportCommit, ReportAbort
<1>5. CASE ReportStep
  <2>1. \/ \E q, holder : ReportBegin(q, holder)
        \/ \E q \in reporting : ReportMisses(q)
        \/ \E q : ReportCommit(q) \/ ReportAbort(q)
    BY <1>5, Zenon DEF ReportStep
  <2>2. ASSUME NEW q, NEW holder, ReportBegin(q, holder)
        PROVE  nodes[report.node].registered
    BY <1>3, <2>2
  <2>3. ASSUME NEW q \in reporting, ReportMisses(q)
        PROVE  nodes[report.node].registered
    <3>1. q \in Report /\ nodes[q.node].registered
      BY RegistrationRows DEF TypeOK
    <3>2. report = [q EXCEPT !.missed = TRUE]
      BY <2>3 DEF ReportMisses
    <3>3. report.node = q.node
      BY <3>1, <3>2 DEF Report
    <3> QED BY <3>1, <3>3
  <2> QED BY <1>4, <2>1, <2>2, <2>3
<1> QED BY <1>1, <1>2, <1>5 DEF Next

\* Nobody is registered in the empty tables.
LEMMA RegistrationInit == Init => Registration
<1> SUFFICES ASSUME Init PROVE Registration
  OBVIOUS
<1>1. TypeOK
  BY NumberingInit DEF Numbering
<1> QED BY <1>1, RegistrationRows DEF Init, NoRow, Registered

\* Every operation keeps the claim on registrations.
LEMMA RegistrationStep == Numbering /\ Registration /\ [Next]_vars => Registration'
<1> SUFFICES ASSUME Numbering, Registration, Next
             PROVE  Registration'
  <2>1. UNCHANGED vars /\ Registration => Registration'
    BY DEF vars, Registration, TypeOK, TokenRegistersOnce, UnregisteredIsInert,
           AbsentIsUnregistered, Exists, Pending, RevisionsOf
  <2> QED BY <2>1
<1>1. TypeOK'
  BY NumberingStep DEF Numbering
<1>2. \A n \in Node : /\ Registered(nodes'[n], registrations'[n])
                      /\ nodes[n].registered => nodes'[n].registered
  BY LifecycleKeepsRows, ReportKeepsRows DEF Next
<1>3. ASSUME NEW r \in revisions', r.node \in Node, ~nodes'[r.node].registered
      PROVE  r.status = "pending"
  <2>1. ~nodes[r.node].registered
    BY <1>2, <1>3
  <2>2. CASE r \in revisions
    BY <1>3, <2>1, <2>2, RegistrationRows
  <2>3. ASSUME NEW n, NEW row, InsertsRow(n, row), r \notin revisions
        PROVE  r.status = "pending"
    BY <2>3 DEF InsertsRow
  <2>4. ASSUME NEW report \in reporting, ReportCommit(report), r \notin revisions
        PROVE  FALSE
    <3>1. PICK q : q \in Pending(report.node) /\ DecidesRow(q, report.outcome)
      BY <2>4, CommitDecides DEF Numbering
    <3>2. r.node = report.node
      BY <2>4, <3>1 DEF DecidesRow, Pending, RevisionsOf, Numbering, TypeOK, Revision
    <3> QED BY <2>1, <3>2, RegistrationRows
  <2> QED BY <2>2, <2>3, <2>4, RevisionsChange, CreationInserts
<1>4. ASSUME NEW report \in reporting'
      PROVE  nodes'[report.node].registered
  <2>1. report.node \in Node
    BY <1>1 DEF TypeOK, Report
  <2>2. nodes[report.node].registered
    BY NewReports, RegistrationRows
  <2> QED BY <1>2, <2>1, <2>2
<1>5. UnregisteredIsInert'
  BY <1>1, <1>2, <1>3, <1>4 DEF TypeOK, UnregisteredIsInert, Pending, RevisionsOf,
     Report, Registered
<1> QED BY <1>1, <1>2, <1>5 DEF Registration, TokenRegistersOnce,
           AbsentIsUnregistered, Registered, Exists

\* A bootstrap token registers one node once, and nothing is recorded of a node
\* before.
THEOREM RegistrationCorrect == Spec => [](TokenRegistersOnce /\ UnregisteredIsInert)
<1>1. Registration => TokenRegistersOnce /\ UnregisteredIsInert
  BY DEF Registration
<1> QED BY <1>1, NumberingInit, NumberingStep, RegistrationInit, RegistrationStep,
           PTL DEF Spec

\* Of these, what an unregistered node cannot have: a verdict, a report under
\* way, an active or applied revision.
THEOREM InertBefore == Spec => []UnregisteredIsInert
BY RegistrationCorrect, PTL

-----------------------------------------------------------------------------
(* Disabled nodes *)

\* The three things that may happen to a disabled row: nothing, its token expires,
\* Enable.
LEMMA FrozenRowsAre ==
  ASSUME NEW row \in NodeRow, row.status = "disabled"
  PROVE  /\ row \in FrozenRows(row)
         /\ [row EXCEPT !.expired = TRUE] \in FrozenRows(row)
         /\ [row EXCEPT !.status = "unhealthy"] \in FrozenRows(row)
<1> DEFINE F(e, st) == [row EXCEPT !.expired = e, !.status = st]
<1>1. row = F(row.expired, "disabled") /\ row.expired \in BOOLEAN
  BY DEF NodeRow
<1>2. [row EXCEPT !.expired = TRUE] = F(TRUE, "disabled")
  BY DEF NodeRow
<1>3. [row EXCEPT !.status = "unhealthy"] = F(row.expired, "unhealthy")
  BY DEF NodeRow
<1>4. FrozenRows(row) = {F(e, st) : e \in BOOLEAN, st \in {"disabled", "unhealthy"}}
  BY DEF FrozenRows
<1> HIDE DEF F
<1>5. \A e \in BOOLEAN : F(e, "disabled") \in FrozenRows(row)
                         /\ F(e, "unhealthy") \in FrozenRows(row)
  BY <1>4
<1> QED BY <1>1, <1>2, <1>3, <1>5

\* What any operation does to the row of a disabled node.
LEMMA DisabledRow ==
  ASSUME TypeOK, Next, NEW n \in Node, nodes[n].status = "disabled"
  PROVE  nodes'[n] \in FrozenRows(nodes[n]) /\ registrations'[n] = registrations[n]
<1>1. /\ nodes[n] \in FrozenRows(nodes[n])
      /\ [nodes[n] EXCEPT !.expired = TRUE] \in FrozenRows(nodes[n])
      /\ [nodes[n] EXCEPT !.status = "unhealthy"] \in FrozenRows(nodes[n])
  BY FrozenRowsAre DEF TypeOK
<1> SUFFICES /\ \/ nodes'[n] = nodes[n]
                \/ nodes'[n] = [nodes[n] EXCEPT !.expired = TRUE]
                \/ nodes'[n] = [nodes[n] EXCEPT !.status = "unhealthy"]
             /\ registrations'[n] = registrations[n]
  BY <1>1
<1>2. ASSUME NEW m \in Node, NodeStep(m)
      PROVE  /\ \/ nodes'[n] = nodes[n]
                \/ nodes'[n] = [nodes[n] EXCEPT !.expired = TRUE]
                \/ nodes'[n] = [nodes[n] EXCEPT !.status = "unhealthy"]
             /\ registrations'[n] = registrations[n]
  BY <1>2 DEF NodeStep, CreateBootstrapToken, BootstrapTokenExpires, Register,
     Drain, Undrain, Disable, Enable, CreateDummyConfigRevision,
     CreateRollbackConfigRevision, Exists, TypeOK
<1>3. ASSUME NEW m \in Node, HeartbeatStep(m)
      PROVE  nodes'[n] = nodes[n] /\ registrations'[n] = registrations[n]
  <2>1. PICK holder \in Node, st \in ReportedStatus, active \in ReportedRevision,
             metadata \in BOOLEAN, applied \in ReportedRevision, state \in ReportedState :
          RecordHeartbeat(m, holder, st, active, metadata, applied, state)
    BY <1>3 DEF HeartbeatStep
  <2>2. m # n /\ registrations' = registrations
    BY <2>1 DEF RecordHeartbeat, Authorised
  <2>3. PICK row : nodes' = [nodes EXCEPT ![m] = row]
    BY <2>1 DEF RecordHeartbeat
  <2> QED BY <2>2, <2>3 DEF TypeOK
<1>4. CASE ReportStep
  <2>1. \A q, holder : ReportBegin(q, holder) => UNCHANGED <<nodes, registrations>>
    BY DEF ReportBegin
  <2>2. \A q : ReportAbort(q) \/ ReportMisses(q) => UNCHANGED <<nodes, registrations>>
    BY DEF ReportAbort, ReportMisses
  <2>3. ASSUME NEW q, ReportCommit(q)
        PROVE  nodes'[n] = nodes[n] /\ registrations'[n] = registrations[n]
    BY <2>3 DEF ReportCommit, TypeOK
  <2> QED BY <1>4, <2>1, <2>2, <2>3 DEF ReportStep
<1> QED BY <1>2, <1>3, <1>4 DEF Next

\* No operation numbers a revision of a disabled node.
LEMMA DisabledNumbers ==
  ASSUME Numbering, Next, NEW n \in Node, nodes[n].status = "disabled"
  PROVE  Numbers(n)' = Numbers(n)
<1>1. ASSUME NEW m \in Node, NEW row, InsertsRow(m, row)
      PROVE  Numbers(n)' = Numbers(n)
  BY <1>1 DEF InsertsRow, AcceptsRevisions, Numbers, RevisionsOf
<1>2. ASSUME NEW report \in reporting, ReportCommit(report)
      PROVE  Numbers(n)' = Numbers(n)
  BY <1>2, CommitDecides, DecisionKeepsRows DEF Numbering
<1>3. UNCHANGED revisions => Numbers(n)' = Numbers(n)
  BY DEF Numbers, RevisionsOf
<1> QED BY <1>1, <1>2, <1>3, RevisionsChange, CreationInserts

\* Disabling a node freezes its row and its revisions until it is enabled; a
\* report that was between its two statements changes neither.
THEOREM DisabledIsFrozen == Spec => DisabledNodeIsFrozen
<1>1. Numbering /\ [Next]_vars =>
        [\A n \in Node : nodes[n].status = "disabled" =>
           /\ nodes'[n] \in FrozenRows(nodes[n])
           /\ Numbers(n)' = Numbers(n)
           /\ registrations'[n] = registrations[n]]_vars
  BY DisabledRow, DisabledNumbers DEF Numbering
<1> QED BY <1>1, NumberingInit, NumberingStep, PTL DEF Spec, DisabledNodeIsFrozen
=============================================================================
