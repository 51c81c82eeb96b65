# Lenker in TLA+

Specifications, model checking and proofs for Lenker: the control plane
(`services/panel-api`) and the agent on every node (`services/node-agent`).
Paths below are relative to the repository; `storage/`, `nodes/`,
`subscriptions/`, `configrender/`, ... are packages of
`services/panel-api/internal`, `agent/` and `app/` of
`services/node-agent/internal`.

## 1. The system

| Component | State it keeps | Operations | What makes it correct |
|---|---|---|---|
| panel-api: nodes (`storage/nodes.go`, `nodes/handler.go`) | tables `nodes`, `node_bootstrap_tokens`, `node_registrations`, `config_revisions` | bootstrap token, register, heartbeat, drain, undrain, disable, enable, create a revision, roll back, hand out the pending one, take a report | revisions numbered without gap or duplicate; one verdict each; a rollback restores something the node ran; a token registers one node once; a disabled node is left alone |
| node-agent: apply path (`agent/service.go`, `agent/runtime.go`, `app/app.go`) | `Status` in memory, `configRevisions`, the state directory | poll, verify, dry run, stage, activate, prepare, persist, report; restart | what is active was verified and archived; verdict, files and status agree; the switch comes last |
| config delivery (`agent/client.go` against `nodes/handler.go`) | requests on the wire | fetch, report, timeouts, retries | both sides agree once nothing is on its way; "applied" is never invented; pending does not stay pending |
| panel-api: subscriptions (`storage/subscriptions.go`, `subscriptions/handler.go`) | `subscriptions`, `subscription_access_tokens`, `subscription_handoff_invites` | create, update, renew, issue and rotate tokens, revoke, invite, claim, export access | one token and one invite at a time; an invite is exchanged once; nothing outlives the subscription |
| config content (`configrender/xray.go`, `configbundle/bundle.go`, `agent/service.go` verification, `Access`) | the payload inside a revision | select subscriptions, render, hash, sign, clone, re-read, verify | what was signed is accepted; the access link names a node that serves the client |
| users and plans (`storage/users.go`, `storage/plans.go`) | two tables | create, PATCH, suspend, activate, archive | a subscription's terms are one version of its plan that was on offer; a PATCH does not undo a suspension; a value is lost only to a PATCH that overlapped; an archived plan is not sold |
| admin sessions (`auth/`, `storage/admins.go`) | `admins`, `admin_sessions` | bootstrap, login, bearer check | whoever is admitted is active and logged in less than a session's length before |
| config validation (`configrender/validate.go`, `agent/xray_validator.go`) | none | one list of checks, written twice | the two copies give the same answer, and what panel-api renders passes both |
| HTTP plumbing, CORS, `audit`, `rbac`, configuration, `panel-web`, `client-app`, `deploy`, `scripts`, `migrations` | no protocol state of their own | | |

How they interact. The admin (panel-web) calls panel-api over HTTP; every
handler is a goroutine and the only shared state is PostgreSQL, at READ
COMMITTED. A node-agent runs one polling goroutine: every tick it fetches the
latest pending revision, applies it to its state directory and reports. A claim
of an invite calls `Access` in the middle of its transaction on a second
connection, and `Access` reads the rows the config renderer reads.

What is hard about it:

- transactions of several statements that lock in different orders (report
  against rollback, claim against invite), or do not lock at all what they test
  (the node in a report);
- a report that is lost, late, repeated, or overlaps with the retry's report;
- a process that dies, or a write that fails, between two of seven file writes;
- checks made statements before the write they justify;
- rows that are read in one statement and written back whole in another (PATCH);
- numbers that are hashed as int64 and verified as float64;
- one list of checks kept by hand in two services.

`PROJECT.json` lists each of these at its line under `hazards`, with the
properties that would catch it going wrong.

## 2. The modules

```
ConfigRollout  <---implements---  ConfigDelivery               AccessHandoff     (abstract)
                                   |          |                      ^ implements
                              INSTANCE    INSTANCE                   |
                                   v          v              SubscriptionAccess
NodeTransactions -implements-> PanelNodes  NodeAgent
                                                     AdminConsole    ClientConfigs
                 MCNodeAgent = ConfigValidation, then NodeAgent
```

`MC<module>` instantiates a module for TLC, `<module>Proofs` proves theorems about
it. `NodeTransactionsProofs` rests on `PanelNodesProofs`, `ConfigDeliveryProofs` uses
the theorems about panel and agent through instances, and `SubscriptionAccessProofs`
ends with the refinement of `AccessHandoff`.

**PanelNodes** models `storage/nodes.go`. `nodes[n]` is the node row joined
with its bootstrap token, `revisions` the table `config_revisions`,
`registrations` counts the rows of `node_registrations`. Every repository
operation that first locks its node row, or is one SQL statement, is one action
with the operation's name. `ReportConfigRevision` is two: it updates the
revision, testing the node without locking it, and then updates the node,
testing it again and ignoring whether a row changed; `reporting` holds the
transactions between the two statements. That the second statement changed no row
(`ReportMisses`, recorded in `missed`) and the commit may lie apart: an Enable that
comes between does not bring the lost update back. `ReportAbort` stands for every reason
such a transaction rolls back, the deadlock with a rollback of the same revision
included. Names, addresses, versions, timestamps and error texts are left out.
The config is opaque: `kind`, `source` and `target` are the three fields of a
payload that matter.

**NodeTransactions** models the same file statement by statement. A request of
several statements is a session; `tx[s].at` is the statement it executes next,
and the rows it has locked follow from that (`HoldsNode`, `HoldsToken`,
`HoldsRevision`). `WaitsFor` says for which row a statement waits: an UPDATE whose
WHERE clause does not match the committed row does not wait; any other waits for
the holder and then looks at the row again, as READ COMMITTED does
(`LockRevision`, `UpdateReported`). Writes become visible at the commit.
`DeadlockDetected` ends one of two transactions that wait for each other, `Abort`
stands for cancelled requests, failed statements and the death of the process.
Requests of one statement (heartbeats, bootstrap tokens) are PanelNodes' actions,
waiting for the row's lock. `PanelRows` is the refinement mapping: the tables as
they are, except that a token that expires while it is being exchanged expires
after the exchange, because `Register` reads its clock before its transaction.

**NodeAgent** models one poll after the other. `job.step` is where
`PollPendingConfigRevision` is; the seven writes of an apply (`WriteOrder` and
`state.json`) are one step each, and `disk` knows a file by the revision it was
written for. Each write may fail, as may the verification, the dry run and
`PersistRuntimeState`; `Crash` may happen between any two steps and `NewService`
reads nothing back. Not modelled: losing a renamed file to a power failure
(`writeFileAtomic` does not sync), and the process supervisor, which the
repository does not implement beyond recording an intent.

**ConfigDelivery** composes the two with a network. A fetch is one action of
both sides. A report is a message: `SendReport` puts it on the wire, it is
received, refused or lost, its transaction commits or aborts (its second UPDATE
may miss the node, `MissNode`), and the agent ends
its poll with or without the answer. `awaiting` is what the agent waits for, so
a commit of something else is late. `disturbed` is a history variable for the
two exceptions of `ActiveAgreement`. It starts with a registered node whose
operator configured the agent; heartbeats are absent because the agent's
application never sends one (`BuildHeartbeatPayload` has no caller in `app.go`).

**ConfigRollout** is what that composition promises: revisions appear in order,
get one verdict, and "applied" is said only of a revision whose artifacts the
node holds.

**SubscriptionAccess** models one subscription. A request of several statements
is a session that goes through its statements one by one; `WaitsFor` derives the
row locks from where the sessions are. PostgreSQL is modelled as far as the code
leans on it: a statement waits for a locked row and then looks at it again, but at
a joined row that it does not lock as its snapshot had it before the wait
(`AwaitSubscription`); writes become visible at the commit, `now()` is the start of the transaction,
and a cycle of two waiting transactions is broken. `Access` reads on another
connection by the wall clock. Left out: traffic, device limits and region, which
no guard of these operations reads. `Abort` covers a cancelled request, a failed
statement, and `Access` finding no node.

**AccessHandoff** is what it promises: each request as a single step.

**ClientConfigs** opens the config that the others take as opaque: which
subscriptions become clients (`listConfigSubscriptionInputs`), which nodes their
access link may name (`Access`), and what becomes of `traffic_limit_bytes`
between the int64 column, the hashed text, jsonb, float64 and the agent's
recomputed hash. A hash is modelled by the text it is taken over. `Float` and
`Written` are the float64 rounding and the shortest decimal encoding of Go's
`encoding/json`, for any number of significand bits. Eligibility is one bit
here (status, user and expiry are SubscriptionAccess's matter), and a node's
lifecycle is cut down to what the two queries ask. A revision that verifies may
still fail for the agent's own reasons; "refused" is a failure with an invalid
bundle hash. Other numbers of the payload
(ports, device limits, revision numbers) fit an int32 and always survive.

**AdminConsole** models the admins' side. A login is two statements (find the
admin, insert the session) and does not look at the admin's status again; an
admission joins the session with its admin. An admitted request creates a row,
changes a status, PATCHes (`FindByID`, then an UPDATE of every column but the
status), or creates a subscription: `INSERT ... SELECT` reads the plan in the
snapshot the statement began with and commits later. Nothing is locked in
between. Columns are opaque names with values. Three histories say what the
properties compare with: `offered`, the terms a plan ever had while it was active;
`closed`, the users suspended and not activated since and the plans ever archived,
recorded from the requests and not from the rows; and `overtaken`, a field of a PATCH,
the columns other requests changed since it read its row.

**ConfigValidation** models the two gates as tables of checks in source order, each
a field, the kinds of value it accepts and the reason it gives; the outbounds and
the routing rules, which refer to each other, are checked item by item. Each service
has its own tables of fields, outbounds and rules (`Panel...`, `Agent...`), as each has
its own copy in the code. An item that is no object has a reason of its own. A document
gives each field the kind of value it has: an integer is `int` where it was
rendered and `float` after JSON. `document` is what panel-api renders, with clients
or without, what it re-reads from jsonb or clones for a rollback, or such a
document with fields and lists damaged. It has no step in common with the agent,
so `MCNodeAgent` lets it run first and then the agent, which adds their states
instead of multiplying them.

In every module a definition commented "Mutation" is a plausible slip of the
definition that follows; nothing uses it. `PROJECT.json` pairs each property with
one that violates it.

## 3. What the runs check

| Run | Instance | What it shows |
|---|---|---|
| `panel_statements` | one node, 2 configs, 2 revisions, 2 sessions | every interleaving, statement by statement, of registrations, transitions, creations and reports, with heartbeats, expiries, aborts and deadlocks in between, keeps `TxTypeOK`, `NumbersAreASequence`, `RollbackRestoresAppliedDeploy`, `TokenRegistersOnce`, `UnregisteredIsInert`, `ReadsStayCurrent`, `OnlyReportAndRollbackDeadlock`, `VerdictIsFinal`, `DisabledNodeIsFrozen`, and implements PanelNodes (`ImplementsPanelNodes`) |
| `panel_applied_moves_active` | two revisions | *violated*: a Disable between the two statements of an applied report leaves the active revision behind, against `docs/api.md` |
| `agent` | 3 offers (deploy, rollback, one that does not verify), trail of 2; before that documents with 2 damages | the two gates answer alike (`SameConfigVerdict`) and let through what is rendered (`RenderedPassesBoth`); failures of every write and crashes anywhere keep `ActiveIsVerifiedAndArchived`, `VerdictMatchesDisk`, `ReadyMeansConsistent`, `SwitchComesLast` |
| `agent_failure_keeps_active` | same | *violated*: an activation failing after the switch is reported failed with the new config active, which the test of failed activations rules out |
| `delivery_overlap` | one config, 2 revisions, 2 reports in flight, no crash | `PanelActiveIsApplied` and `ActiveAgreement` with reports that overlap |
| `delivery_crash` | a config that verifies and one that does not, 2 revisions, 1 report in flight, 1 crash | `AppliedIsHeld`, `ActiveAgreement` and `ImplementsRollout` with a report that outlives its sender |
| `delivery_live` | 2 revisions, fairness | `PendingIsDecided`, for a revision that newer ones overtook too |
| `access` | 2 concurrent requests, 2 tokens, 2 invites, clock 0..1 | `TypeOK`, `OneActiveEach`, `InviteClaimedOnce`, `NeverOutlivesSubscription`, `IssuedWhileActive`, `NothingComesBack`, and `ImplementsHandoff` |
| `access_live` | 2 concurrent requests, fairness | `RequestsEnd`, the deadlock of a claim and a new invite included |
| `clients` | 2 subscriptions, 2 nodes in 2 regions, 2 revisions, 3-bit floats | `RefusedOnlyByRounding`, `ActiveLimitsAreExact`, `LinkWorksAfterDeploy` |
| `clients_signed_is_accepted` | one subscription | *violated*: a limit above 2^53 whose digits do not survive makes the agent refuse what panel-api signed |
| `console` | one admin, user and plan, 2 requests, 2 columns of 2 values, clock 0..1 | overlapping logins, admissions, PATCHes, status changes and new subscriptions keep `TypeOK`, `TermsWereOffered`, `ClosedStaysClosed`, `NothingSoldOnceArchived`, `LostOnlyToOverlap`, `AdmittedByLogin` |

The three violated ones are the `findings` of `PROJECT.json`, each with the line of
the document or test it contradicts.

### Bounds, and why they are enough

- One node in `panel_statements` and in the delivery runs: no operation reads or writes rows
  of two nodes, and a credential of another node authorises nothing. The proofs
  (section 5) are for any set of nodes.
- Two sessions in `panel_statements` are what it takes for one transaction to
  wait for another, to overlap with it, and to deadlock with it (any deadlock is one of a
  report and a rollback, which is proved for any number of sessions). Two revisions
  give a rollback of an applied deploy beside an older verdict, and in the delivery runs an older pending one overtaken
  by a newer one; longer chains, a rollback of a rollback among them, are the
  proofs' matter. `delivery_overlap` has 2.1 million distinct states, `console` 2.2
  million, `access` 1.2 million, `delivery_crash` 0.7
  million, `panel_statements` 0.4 million.
- Two damages in `agent`: a field with a value of any kind, and another one taken
  away, so that the order of the checks matters; lists of at most two outbounds or
  rules, since every check is on one item or on whether some item has a tag.
- `console`: an overlap needs two requests; one column named and one not, two
  values to tell what was written from what was lost. A plan has two versions
  while active, a clock of two instants lets a session expire.
- One config in `delivery_overlap`: a config that does not verify fails a poll before
  anything is written, as a failed dry run does; the `delivery_crash` run has both.
- Two crashes do not differ from one for the agent: a crash resets everything
  but `disk`, and the `agent` run, where crashes are not bounded, covers all disks.
- Two sessions in `access`: any deadlock is one of two requests, which is proved
  for any number of sessions (`OnlyPairsDeadlock`). Two tokens and invites are what it takes to see one replaced. A
  plan of one unit of time and a renewal of two let a subscription end before and after
  an invite's day, so both sides of `InviteExpiry` decide.
- `Mantissa = 3`, `Limit = {8, 64}` in `clients`: 8 = 2^3 is the last number below
  which none is missing; 64 is a float but its shortest digits are those of 60, as
  happens above 2^53 with 53 bits. The violated run adds 9, which is rounded.
- Symmetry is used for configs, sessions, requests, columns, values and subscriptions, in safety runs only.

### Fairness

`ConfigDelivery!FairSpec`: the polling loop never stops and each of its steps
ends by a timeout (weak fairness of the agent's steps, of the end of a poll, of
the wire and of a handler's end). Strong fairness of a fetch, of a report's
sending, receipt and commit says that an attempt repeated at every tick does
succeed at last; without it the code promises nothing either. No fairness is
assumed of the admin, of crashes or of failing writes. The property excuses a
disabled node.

`SubscriptionAccess!FairSpec`: PostgreSQL grants row locks in the order they are
asked for, hence strong fairness of a session's next statement, and detects
deadlocks. Clients are not assumed to cancel.

## 4. What the properties mean to a reader of the code

- `DisabledNodeIsFrozen` and `AppliedMovesActiveRevision` are two sides of one
  gap: the second statement of a report protects a disabled node at the price of
  a verdict the node row never shows.
- `ActiveAgreement` is the strongest statement about both processes: at every
  moment, if the config active on disk has the verdict applied, it is the panel's
  active revision. It ends with the first of two disturbances: the gap above, and
  a report recorded after its sender gave up, since the retry may meanwhile have
  activated something else. Of what follows a torn or late commit it says nothing:
  `AppliedMovesActiveRevision` and `PanelActiveIsApplied` are about that. It also allows
  that a repeated or half-failed apply is reported failed with its config active.
- `PendingIsDecided` holds although nothing supersedes older pending revisions:
  they are handed out, and applied, after the newer ones.
- `OnlyReportAndRollbackDeadlock`: transactions lock in the order token, revision,
  node, source, except a rollback, which holds its node when it asks for the
  revision a report of that node may hold while asking for the node. PostgreSQL
  ends one of them; the admin or the agent's next poll tries again.
- `ReadsStayCurrent` is why a transition may write back both status columns though
  it changes one, and why `MAX + 1` is still free at the INSERT: the lock of the
  node row, not the statement itself, makes it so.
- `LostOnlyToOverlap` states how much a PATCH may lose: nothing another request
  wrote before it began. `ClosedStaysClosed` states what it may never lose: a
  suspension that no Activate ended, or an archiving, which nothing ends, since the
  status is not among the columns written. `NothingSoldOnceArchived` is what an
  archiving is for: no statement that begins after it sells the plan, though one that
  began before it may commit after it.
- `AdmittedByLogin` says nothing of the admin between login and admission: sessions
  survive a suspension and work again when it ends.
- `SameConfigVerdict` is about drift, a check of a field, an outbound or a rule edited in
  one service only, and about numbers, which the panel checks as integers or floats and
  the agent as floats. It says nothing of the payload around the config, for which the
  agent has one reason and checks more.
- `NothingComesBack` is about `Update`, which reads, edits in memory and writes
  back: the paid days survive because `expires_at` is not among the columns
  written; the status does not, and a renewal's reactivation may be undone.

## 5. What is proved

Everything below holds for any values of the constants that the named assumptions
allow (`PanelAssumption`, `SessionAssumption`, `AgentAssumption`, `DeliveryAssumption`,
`ConsoleAssumption`, `ConfigsAssumption`, `DamageAssumption`, ...), which TLC evaluates
on its instances; nothing else is assumed.

| Module | Theorem | Statement |
|---|---|---|
| PanelNodesProofs | `NumberingCorrect` | `Spec => [](TypeOK /\ NumbersAreASequence)` |
| | `VerdictsAreFinal` | `Spec => VerdictIsFinal` |
| | `RollbacksRestore` | `Spec => []RollbackRestoresAppliedDeploy` |
| | `RegistrationCorrect` | `Spec => [](TokenRegistersOnce /\ ...)` |
| | `InertBefore` | `Spec => []UnregisteredIsInert` |
| | `DisabledIsFrozen` | `Spec => DisabledNodeIsFrozen` |
| NodeTransactionsProofs | `StatementsImplement` | `TxSpec => ImplementsPanelNodes` |
| | `StatementTypes` | `TxSpec => []TxTypeOK` |
| | `ReadsCurrent` | `TxSpec => []ReadsStayCurrent` |
| | `DeadlocksAre` | `TxSpec => []OnlyReportAndRollbackDeadlock` |
| | `OnlyPairsDeadlock` | `TxSpec => [](DeadlocksArePairs /\ SomebodyGoesOn)` |
| | `TransactionsKeepTables` | `TxSpec => [](NumbersAreASequence /\ TokenRegistersOnce /\ UnregisteredIsInert)` |
| | `TransactionsRestore` | `TxSpec => []RollbackRestoresAppliedDeploy` |
| | `TransactionsKeepVerdicts` | `TxSpec => VerdictIsFinal` |
| | `TransactionsFreeze` | `TxSpec => DisabledNodeIsFrozen` |
| NodeAgentProofs | `AgentTypes` | `Spec => []TypeOK` |
| | `ActiveVerified` | `Spec => []ActiveIsVerifiedAndArchived` |
| | `ReadyConsistent` | `Spec => []ReadyMeansConsistent` |
| | `VerdictTrue` | `Spec => [](TrailLimit > 0 => VerdictMatchesDisk)` |
| | `SwitchLast` | `Spec => SwitchComesLast` |
| ConfigDeliveryProofs | `RolloutImplemented` | `Spec => ImplementsRollout` |
| | `AppliedHeld` | `Spec => []AppliedIsHeld` |
| | `ActiveApplied` | `Spec => []PanelActiveIsApplied` |
| | `SidesAgree` | `Spec => []ActiveAgreement` |
| SubscriptionAccessProofs | `AccessTypes` | `Spec => []TypeOK` |
| | `AtMostOne` | `Spec => []OneActiveEach` |
| | `ClaimedOnce` | `Spec => []InviteClaimedOnce` |
| | `NeverOutlives` | `Spec => []NeverOutlivesSubscription` |
| | `IssuedActive` | `Spec => IssuedWhileActive` |
| | `NoneComesBack` | `Spec => NothingComesBack` |
| | `OnlyPairsDeadlock` | `Spec => [](DeadlocksArePairs /\ SomebodyGoesOn)` |
| | `HandoffImplemented` | `Spec => ImplementsHandoff` |
| AdminConsoleProofs | `ConsoleTypes` | `Spec => []TypeOK` |
| | `TermsOffered` | `Spec => []TermsWereOffered` |
| | `ClosedStays` | `Spec => []ClosedStaysClosed` |
| | `ArchivedIsNotSold` | `Spec => NothingSoldOnceArchived` |
| | `OverlapOnly` | `Spec => LostOnlyToOverlap` |
| | `AdmittedLoggedIn` | `Spec => AdmittedByLogin` |
| ClientConfigsProofs | `LinksWork` | `Spec => []LinkWorksAfterDeploy` |
| | `ActiveExact` | `Spec => []ActiveLimitsAreExact` |
| | `RefusedRounded` | `Spec => []RefusedOnlyByRounding` |
| ConfigValidationProofs | `SameVerdict` | `Renders /\ [][Changes]_document => []SameConfigVerdict` |
| | `RenderedPass` | `Renders /\ [][Changes]_document => []RenderedPassesBoth` |

**PanelNodes.** `RevisionsChange` says that the table of revisions changes by an
insert (`InsertsRow`) or a verdict (`DecidesRow`) only. `NumbersAreASequence`
makes `MAX + 1` a fresh number (`MaxOfSequence`, `NextNumberFollows`), and a
verdict changes no number, so `Numbering == TypeOK /\ NumbersAreASequence` is
inductive. Numbers therefore name rows: a revision can be followed through its
verdict (`StepKeepsRevisions`), which is what finality is. For rollbacks the
witnesses of the invariant, source and original deploy, are followed the same way
(`WitnessesStay`), and a new rollback takes its source's witnesses
(`NewRollback`). The registration claims are not inductive by themselves: that a
report under way implies a registered node, and that an unregistered node is
either absent or has an unused token, must be carried along (`Registration`,
split into a statement per row by `RegistrationRows`). `DisabledNodeIsFrozen` is an
action property: `DisabledRow` goes through the actions, `DisabledNumbers` uses
that creations refuse a disabled node.

**NodeTransactions.** The inductive invariant `TxInv` joins the tables' types with
three statements about sessions: no two hold the same row (`Apart`), each has the
statements of its operation and carries what they read (`Shaped`), and what it read
or tested under a lock is so now (`Grounded`). It is not enough to say that reads
are current: that they stay so rests on who may commit meanwhile, and
`Undisturbed` says that they do as long as the locked rows are kept (`Kept`), which
is then shown of every commit of another session. The refinement goes statement by statement (`StepsAre`,
`StepSeen`): a commit is the PanelNodes operation it belongs to, the first UPDATE
of a report its first step, every other statement a stutter; a registration is
never late in PanelNodes' sense since `PanelRows` hides the token's clock from it.
The properties of the tables hold of the statements too (`TransactionsKeepTables` and the
three after it): every step is one of PanelNodes, or a registration whose token was
good when it began (`LateRegister`), or changes no table.

That every deadlock is one of two transactions is not assumed by `DeadlockDetected` but
proved: among transactions that all wait for each other there must be a rollback at its
source (`StuckHaveRollback`); it waits for a report, the report for the holder of
the node, and that is the rollback (`StuckRollback`). If every request under way
waits, they are such a set, so somebody always goes on or is ended by the server.

**NodeAgent.** `AgentInv` says how far an apply is by what it has written
(`Progress`): at step k all files before k in `WriteOrder` are those of the job's
revision, and only a config that passed every check gets to the first write. A crash
forgets the job and with it the claim, never the disk. `VerdictMatchesDisk` reads
the newest event of the trail, hence `TrailLimit > 0`.

**ConfigDelivery.** Compositional: the invariants proved of panel and agent are used
through `INSTANCE`s of their proof modules, with a node client that sends whatever its
types allow. What is added is about messages (`DeliveryInv`: `OfferStored`,
`Targets`, `Messages`, `Truthful`): what a report says was true when it was sent
and cannot become false, since artifacts are never deleted and rows change by
verdicts only. From that every step of the composition is a step of
ConfigRollout or a stutter. `ActiveAgreement` needs one fact more: until the agent has
sent its report nobody decides the revision it works on (`OfferPending`), or the
verdict would be a late one. So the switch of the active config is always to a
pending revision, and an undisturbed verdict finds the agent waiting for it
(`AwaitsOwn`, `OnTime`), with the config it speaks of active.

**SubscriptionAccess.** `AccessInv` has a part for each request (what it has locked and
read) and one for the rows. One request at a time holds the subscription; a claim
owns its invite from the lock to the commit; what was found active when a revocation
began is what is active when it commits. In the refinement the commit of
an INSERT is the abstract issue, invite or claim. Deadlocks are pairs here as well
(`OnlyPairsDeadlock`): the stuck include a request for an invite that waits for a claim,
which waits for the one holder of the subscription.

**AdminConsole.** What a request carries from the statement that reads to the one that
writes is a version of that row, and whatever changed in between is in `overtaken`
(`Carried`); a plan's current columns are among those offered while it is active
(`ActiveOffered`); sessions last exactly their duration (`SessionsLast`).

**ClientConfigs.** `LinkWorksAfterDeploy` speaks of active configs only and is not
inductive; `FreshIsCurrent` is: the clients of the newest deploy since which no
subscription changed, active or not, are those `listConfigSubscriptionInputs`
selects now. What `Access` may export then lies inside it. For the limits
(`LimitsInv`) it is enough that a revision's hash is the one of its text when it was
signed: verification compares texts, so an active config is one whose text survived.
`RefusedOnlyByRounding` needs more: that the text of a deploy with small limits survives, which is arithmetic of floats of any
width. `Smallest` and `Induction` (over a set of numbers, from the library's `WFMin`;
its induction theorems over a predicate cannot be used here) give that `Power` is what its
recursion says (`PowersExist`, `PowersUnique`, `PowerDef`) and grows. A number below
2^Mantissa has exponent 0, so it is its own float (`FloatSmall`); from there on floats
never fall below 2^Mantissa (`FloatLarge`), so nothing else reads back as a small
float (`OnlyCandidate`) and its shortest digits are its own (`SmallIsExact`).
2^Mantissa itself is one more case (`FloatBound`).

**ConfigValidation.** The two copies are equal line by line, in their fields
(`SameChecks`), outbounds (`SameOutbounds`) and rules (`SameRouting`), hence the gates
(`SameGates`), and JSON changes no verdict (`WireVerdict`): a check takes an integer if
and only if it takes the float (`TakesFloats`, `TakesIntegers`), and an inbound whose tag
became a number is no rule's either way. The invariant says that damage leaves a
document its fields and its rules tags (`Typed`).
`RenderedPass` has an invariant of its own: an undamaged document is `Sound`, i.e.
passes every check of every table. It stays so through JSON for the same reason, and
through a rollback because the checks on the three fields it writes take what it writes
(`TakesRollback`).

Model-checked only: liveness, `PendingIsDecided` and `RequestsEnd`, since fairness and
ENABLED are beyond the prover used. `SomebodyGoesOn` is the part of them that is safety.

## 6. What is not modelled

- Routing, decoding and encoding of requests, CORS, logging and the reading of
  configuration: they keep no state between requests.
- `rbac` and `audit` record nothing, `panel-web` holds copies of answers,
  `client-app` is a placeholder, `deploy`, `scripts` and `migrations` are run by an
  operator. The schema's CHECK constraints appear in the type invariants.
- Cryptography: a signature is taken to be what the holder of the key made, a
  token to be known to whom it was issued; passwords and token hashes are left out.
- The fixed texts of a rendered config, and which Xray the agent runs with
  `-test`: the dry run succeeds or fails.
- Power failures (no file is synced), and PostgreSQL's own recovery.
- The data race between `/status` and the polling goroutine: the copy it makes feeds
  an answer for monitoring only.

## 7. Plan

Done: every component with state of its own is modelled, the two statement-level
modules are shown to implement the one-step ones, and the safety properties of
the runs are all proved.

Left, in the order of what they would add:

1. A second subscription in SubscriptionAccess, with `Access` choosing a node that
   ClientConfigs says serves it: the composition of the two modules.
2. For liveness, the safety half of a ranking argument: that no step of another request
   moves a request backwards. What remains then is fairness, which TLC checks.
