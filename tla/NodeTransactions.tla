--------------------------- MODULE NodeTransactions ---------------------------
(***************************************************************************)
(* The transactions of storage/nodes.go statement by statement, on the     *)
(* tables of PanelNodes, with the row locks they take.  PanelNodes has one *)
(* action per transaction (two for a report); this module shows that the   *)
(* statements, interleaved as PostgreSQL does under READ COMMITTED,        *)
(* implement those actions.                                                *)
(*                                                                         *)
(* A request of several statements is a session; tx[s].at is the statement *)
(* it executes next, and the rows it has locked follow from that.  Other   *)
(* transactions see its writes when it commits.  An UPDATE whose WHERE     *)
(* clause does not match the committed row does not wait for that row;     *)
(* otherwise it waits for the holder and then looks at the row again.      *)
(* Requests of one statement are PanelNodes' own actions.                  *)
(***************************************************************************)
EXTENDS PanelNodes

CONSTANT Session     \* requests that may be under way at the same time

\* The bound of PanelNodes on open reports does not bite.
ASSUME SessionAssumption ==
  IsFiniteSet(Session) /\ Cardinality(Session) <= MaxReports

VARIABLE tx

txVars == <<vars, tx>>

-----------------------------------------------------------------------------
(* Sessions *)

Transition == {"drain", "undrain", "disable", "enable"}
Creation   == {"deploy", "rollback"}
Operation  == Transition \cup Creation \cup {"register", "report"}

\* The columns SELECT ... FOR UPDATE returns that the code goes on with.
Columns ==
  [status : NodeStatus, drainState : DrainState, activeRevision : Nat]

ColumnsOf(row) ==
  [status |-> row.status, drainState |-> row.drainState,
   activeRevision |-> row.activeRevision]

Tx ==
  [op : Operation,
   at : {"token", "node", "source", "number", "revision", "write"},
   node    : Node,
   number  : Nat,               \* rollback: the target, report: its revision
   fresh   : BOOLEAN,           \* register: not expired at its time.Now()
   read    : Columns \cup {<<>>},
   next    : Nat,               \* creation: MAX + 1
   report  : Report \cup {<<>>}]

NoTx == [at |-> "idle"]

\* The second UPDATE of a report changed no row.
Missed(s) == tx[s].op = "report" /\ tx[s].report.missed

\* Mutation: FOR UPDATE is missing in transition.
TransitionsDoNotLock(s) ==
  \/ tx[s].at \in {"source", "number"}
  \/ tx[s].at = "write" /\ tx[s].op \notin Transition /\ ~Missed(s)

\* Mutation: the join of a report's first UPDATE locks the node row too.
ReportsLockNode(s) ==
  \/ tx[s].at \in {"revision", "source", "number"}
  \/ tx[s].at = "write" /\ ~Missed(s)

HoldsNode(s) ==
  \/ tx[s].at \in {"source", "number"}
  \/ tx[s].at = "write" /\ ~Missed(s)

\* Mutation: FOR UPDATE is missing on the token row.
TokenNotLocked(s) == FALSE

HoldsToken(s) == tx[s].at \in {"node", "write"} /\ tx[s].op = "register"

HoldsRevision(s, r) ==
  /\ r.node = tx[s].node
  /\ r.number = tx[s].number
  /\ \/ tx[s].at \in {"node", "write"} /\ tx[s].op = "report"
     \/ tx[s].at \in {"number", "write"} /\ tx[s].op = "rollback"

\* Mutation: the second UPDATE of a report does not test the status.
MatchesDisabled(s) ==
  tx[s].op = "register" => nodes[tx[s].node].status # "disabled"

\* The UPDATE of nodes in a report and in Register finds its row.
Matches(s) ==
  LET row == nodes[tx[s].node]
  IN  /\ tx[s].op \in {"report", "register"} => row.status # "disabled"
      /\ tx[s].op = "report" => row.registered

\* The next statement of s waits for a row t has locked.
WaitsFor(s, t) ==
  /\ s # t
  /\ tx[s].at # "idle" /\ tx[t].at # "idle"
  /\ tx[s].node = tx[t].node
  /\ \/ tx[s].at = "token" /\ HoldsToken(t)
     \/ tx[s].at = "node" /\ HoldsNode(t) /\ Matches(s)
     \/ /\ tx[s].at \in {"source", "revision"}
        /\ \E r \in RevisionsOf(tx[s].node) :
             r.number = tx[s].number /\ HoldsRevision(t, r)

CanRun(s)   == \A t \in Session : ~WaitsFor(s, t)
NodeFree(n) == \A t \in Session : HoldsNode(t) => tx[t].node # n

Goto(s, step) == tx' = [tx EXCEPT ![s].at = step]

\* The end of a transaction; PanelNodes counts a report from its first
\* statement to here.
End(s) ==
  /\ tx' = [tx EXCEPT ![s] = NoTx]
  /\ reporting' = reporting \ {tx[s].report}

-----------------------------------------------------------------------------
(* The statements *)

TxInit == Init /\ tx = [s \in Session |-> NoTx]

Open(s, op, at, n, number, fresh, report) ==
  /\ tx[s] = NoTx
  /\ tx' = [tx EXCEPT ![s] =
              [op |-> op, at |-> at, node |-> n, number |-> number,
               fresh |-> fresh, read |-> <<>>, next |-> 0,
               report |-> report]]
  /\ UNCHANGED <<nodes, revisions, registrations>>

\* Register reads the clock before its first statement.
BeginRegister(s, n) ==
  /\ nodes[n].bootstrap # "none"
  /\ Open(s, "register", "token", n, 0, ~nodes[n].expired, <<>>)
  /\ UNCHANGED reporting

BeginTransition(s, n) ==
  /\ Exists(n)
  /\ \E op \in Transition : Open(s, op, "node", n, 0, TRUE, <<>>)
  /\ UNCHANGED reporting

BeginCreation(s, n) ==
  /\ Exists(n)
  /\ \/ Open(s, "deploy", "node", n, 0, TRUE, <<>>)
     \/ \E r \in RevisionsOf(n) : Open(s, "rollback", "node", n, r.number, TRUE, <<>>)
  /\ UNCHANGED reporting

\* The first UPDATE of a report begins: its join finds the node authorised and
\* the revision pending.  Bound: reports under way differ in what they carry.
BeginReport(s, report, holder) ==
  /\ report \notin reporting
  /\ Authorised(report.node, holder)
  /\ report.number \in {r.number : r \in Pending(report.node)}
  /\ Open(s, "report", "revision", report.node, report.number, TRUE, report)
  /\ reporting' = reporting \cup {report}

\* SELECT ... FROM node_bootstrap_tokens ... FOR UPDATE.
LockToken(s) ==
  /\ tx[s].at = "token"
  /\ CanRun(s)
  /\ IF nodes[tx[s].node].bootstrap = "active" /\ tx[s].fresh
       THEN Goto(s, "node") /\ UNCHANGED reporting
       ELSE End(s)
  /\ UNCHANGED <<nodes, revisions, registrations>>

\* Mutation: status = 'pending' is missing in the WHERE clause.
LockAnyRevision(s) ==
  /\ tx[s].at = "revision"
  /\ CanRun(s)
  /\ Goto(s, "node")
  /\ UNCHANGED vars

\* UPDATE config_revisions, once the row is free: the revision may have been
\* decided meanwhile, the node is not looked at again.
LockRevision(s) ==
  /\ tx[s].at = "revision"
  /\ CanRun(s)
  /\ IF tx[s].number \in {r.number : r \in Pending(tx[s].node)}
       THEN Goto(s, "node") /\ UNCHANGED reporting
       ELSE End(s)
  /\ UNCHANGED <<nodes, revisions, registrations>>

Refuses(op, row) ==
  \/ (op = "enable") # (row.status = "disabled")
  \/ op = "drain" /\ row.drainState = "draining"
  \/ op = "undrain" /\ row.drainState = "active"
  \/ op \in Creation /\ row.drainState # "active"

AfterNode(op) ==
  IF op \in Transition THEN "write" ELSE IF op = "deploy" THEN "number" ELSE "source"

\* SELECT ... FROM nodes ... FOR UPDATE of a transition or a creation.
LockNode(s) ==
  LET row == nodes[tx[s].node]
  IN  /\ tx[s].at = "node" /\ tx[s].op \in Transition \cup Creation
      /\ CanRun(s)
      /\ IF Refuses(tx[s].op, row) THEN End(s)
         ELSE /\ tx' = [tx EXCEPT
                   ![s].at = AfterNode(tx[s].op), ![s].read = ColumnsOf(row)]
              /\ UNCHANGED reporting
      /\ UNCHANGED <<nodes, revisions, registrations>>

\* The UPDATE of nodes in Register: no row is an error.
UpdateRegistered(s) ==
  /\ tx[s].at = "node" /\ tx[s].op = "register"
  /\ CanRun(s)
  /\ IF Matches(s) THEN Goto(s, "write") /\ UNCHANGED reporting ELSE End(s)
  /\ UNCHANGED <<nodes, revisions, registrations>>

\* The UPDATE of nodes in a report: no row is no error.
UpdateReported(s) ==
  /\ tx[s].at = "node" /\ tx[s].op = "report"
  /\ CanRun(s)
  /\ IF Matches(s) THEN Goto(s, "write") /\ UNCHANGED reporting
     ELSE LET missed == [tx[s].report EXCEPT !.missed = TRUE]
          IN  /\ tx' = [tx EXCEPT ![s].at = "write", ![s].report = missed]
              /\ reporting' = (reporting \ {tx[s].report}) \cup {missed}
  /\ UNCHANGED <<nodes, revisions, registrations>>

\* Mutation: the source may still be pending.
LockAnySource(s) ==
  /\ tx[s].at = "source"
  /\ CanRun(s)
  /\ Goto(s, "number")
  /\ UNCHANGED vars

\* SELECT ... FROM config_revisions ... FOR UPDATE of a rollback.
LockSource(s) ==
  /\ tx[s].at = "source"
  /\ CanRun(s)
  /\ IF \E r \in RevisionsOf(tx[s].node) :
          r.number = tx[s].number /\ r.status = "applied"
       THEN Goto(s, "number") /\ UNCHANGED reporting
       ELSE End(s)
  /\ UNCHANGED <<nodes, revisions, registrations>>

\* Mutation: counts on from the active revision, not from MAX.
ReadActiveNumber(s) ==
  /\ tx[s].at = "number"
  /\ tx' = [tx EXCEPT ![s].at = "write", ![s].next = tx[s].read.activeRevision + 1]
  /\ UNCHANGED vars

\* Mutation: COALESCE is missing, MAX over no rows is NULL, here -1.
ReadNullNumber(s) ==
  /\ tx[s].at = "number"
  /\ NextNumber(tx[s].node) <= MaxRevision
  /\ tx' = [tx EXCEPT ![s].at = "write",
                      ![s].next = IF Numbers(tx[s].node) = {} THEN -1
                                  ELSE NextNumber(tx[s].node)]
  /\ UNCHANGED vars

\* SELECT COALESCE(MAX(revision_number), 0) + 1.
ReadNumber(s) ==
  /\ tx[s].at = "number"
  /\ NextNumber(tx[s].node) <= MaxRevision      \* bound
  /\ tx' = [tx EXCEPT ![s].at = "write", ![s].next = NextNumber(tx[s].node)]
  /\ UNCHANGED vars

-----------------------------------------------------------------------------
(* The last statement, and the commit *)

CommitRegister(s) ==
  LET n == tx[s].node
  IN  /\ tx[s].op = "register"
      /\ nodes' = [nodes EXCEPT ![n].status = "active", ![n].registered = TRUE,
                                ![n].bootstrap = "used"]
      /\ registrations' = [registrations EXCEPT ![n] = @ + 1]
      /\ UNCHANGED revisions

\* Both columns are written, one of them as it was read.
CommitTransition(s) ==
  /\ tx[s].op \in Transition
  /\ nodes' = [nodes EXCEPT
       ![tx[s].node].status = IF tx[s].op = "disable" THEN "disabled"
                              ELSE IF tx[s].op = "enable" THEN "unhealthy"
                              ELSE tx[s].read.status,
       ![tx[s].node].drainState = IF tx[s].op = "drain" THEN "draining"
                                  ELSE IF tx[s].op = "undrain" THEN "active"
                                  ELSE tx[s].read.drainState]
  /\ UNCHANGED <<revisions, registrations>>

\* The UNIQUE constraint fails the INSERT of a number that exists.
CommitCreation(s) ==
  LET n == tx[s].node
      created(source, config) ==
        [node |-> n, number |-> tx[s].next, status |-> "pending",
         kind |-> tx[s].op, source |-> source,
         target |-> tx[s].read.activeRevision, config |-> config]
  IN  /\ tx[s].op \in Creation
      /\ IF tx[s].next \in Numbers(n) THEN UNCHANGED revisions
         ELSE \/ /\ tx[s].op = "deploy"
                 /\ \E config \in Config :
                      revisions' = revisions \cup {created(0, config)}
              \/ /\ tx[s].op = "rollback"
                 /\ \E r \in RevisionsOf(n) :
                      /\ r.number = tx[s].number
                      /\ revisions' = revisions \cup {created(r.number, r.config)}
      /\ UNCHANGED <<nodes, registrations>>

CommitReport(s) ==
  LET report == tx[s].report
  IN  /\ tx[s].op = "report"
      /\ \E r \in RevisionsOf(report.node) :
           /\ r.number = report.number
           /\ revisions' = (revisions \ {r}) \cup
                             {[r EXCEPT !.status = report.outcome]}
      /\ nodes' = IF Missed(s) THEN nodes
                  ELSE [nodes EXCEPT ![report.node] = ReportedRow(@, report)]
      /\ UNCHANGED registrations

Commit(s) ==
  /\ tx[s].at = "write"
  /\ \/ CommitRegister(s)
     \/ CommitTransition(s)
     \/ CommitCreation(s)
     \/ CommitReport(s)
  /\ End(s)

-----------------------------------------------------------------------------
(* The system *)

\* Requests of one statement, and the clock of a bootstrap token.
SingleStatement(n) ==
  /\ \/ CreateBootstrapToken(n)
     \/ BootstrapTokenExpires(n)
     \/ NodeFree(n) /\ HeartbeatStep(n)
  /\ UNCHANGED tx

Begin(s) ==
  \/ \E n \in Node : BeginRegister(s, n) \/ BeginTransition(s, n) \/ BeginCreation(s, n)
  \/ \E n, holder \in Node, number \in 1..MaxRevision, outcome \in Outcome,
        applied \in ReportedRevision, state \in ReportedState :
       BeginReport(s, [node |-> n, number |-> number, outcome |-> outcome,
                       lastApplied |-> applied, runtimeState |-> state,
                       missed |-> FALSE], holder)

Statement(s) ==
  \/ LockToken(s)
  \/ LockRevision(s)
  \/ LockNode(s)
  \/ UpdateRegistered(s)
  \/ UpdateReported(s)
  \/ LockSource(s)
  \/ ReadNumber(s)
  \/ Commit(s)

\* PostgreSQL ends one of two transactions that wait for each other.
DeadlockDetected(s) ==
  /\ \E t \in Session : WaitsFor(s, t) /\ WaitsFor(t, s)
  /\ End(s)
  /\ UNCHANGED <<nodes, revisions, registrations>>

\* A cancelled request, a failed statement, the end of the process: a rollback.
Abort(s) ==
  /\ tx[s] # NoTx
  /\ End(s)
  /\ UNCHANGED <<nodes, revisions, registrations>>

TxNext ==
  \/ \E n \in Node : SingleStatement(n)
  \/ \E s \in Session : Begin(s) \/ Statement(s) \/ DeadlockDetected(s) \/ Abort(s)

TxSpec == TxInit /\ [][TxNext]_txVars

-----------------------------------------------------------------------------
(* Properties *)

\* Type invariant: the tables, and the sessions.
TxTypeOK ==
  /\ TypeOK
  /\ tx \in [Session -> Tx \cup {NoTx}]
  /\ reporting = {tx[s].report : s \in {t \in Session :
                    tx[t] # NoTx /\ tx[t].op = "report"}}

\* A registration under way decided by the clock it read when it began.
Registering(n) ==
  \E s \in Session :
    tx[s] # NoTx /\ tx[s].op = "register" /\ tx[s].node = n /\ tx[s].fresh

\* A token that expires while it is being exchanged does so after the exchange.
PanelRows ==
  [n \in Node |-> [nodes[n] EXCEPT !.expired =
     @ /\ nodes[n].bootstrap = "active" /\ ~Registering(n)]]

Panel == INSTANCE PanelNodes WITH nodes <- PanelRows

\* The interleaved statements do what PanelNodes' one-step operations do: what
\* a transaction read under its lock (both status columns, the active revision,
\* MAX + 1, that the source is applied) is still so when it commits.
ImplementsPanelNodes == Panel!Spec

\* What a transaction read under the lock of its node is so until it commits:
\* the status columns it writes back, the active revision it copies into the
\* rollback target, and the number it counted.
ReadsStayCurrent ==
  \A s \in Session : tx[s] # NoTx =>
    /\ tx[s].read # <<>> => tx[s].read = ColumnsOf(nodes[tx[s].node])
    /\ tx[s].next # 0 => tx[s].next = NextNumber(tx[s].node)

\* How far a transaction is in the order in which rows are locked.
Rank == [token |-> 0, revision |-> 1, node |-> 2, source |-> 3, number |-> 4,
         write |-> 5]

\* Transactions wait for transactions that are further in that order, so they
\* cannot wait in a circle.  The one exception is a rollback that waits for the
\* report of its target: every deadlock has such a pair.
OnlyReportAndRollbackDeadlock ==
  \A s, t \in Session : WaitsFor(s, t) =>
    \/ Rank[tx[s].at] < Rank[tx[t].at]
    \/ /\ tx[s].op = "rollback" /\ tx[t].op = "report"
       /\ tx[s].number = tx[t].number
=============================================================================
