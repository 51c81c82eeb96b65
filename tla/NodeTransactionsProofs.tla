----------------------- MODULE NodeTransactionsProofs -----------------------
(***************************************************************************)
(* Proofs about NodeTransactions: for any number of sessions, nodes and    *)
(* revisions the statements of storage/nodes.go, interleaved under row     *)
(* locks, implement the one-step operations of PanelNodes.                 *)
(*                                                                         *)
(* The argument: two transactions never hold the same row (Apart), so what *)
(* one of them read or tested under a lock (Grounded) stays true until it  *)
(* commits, whatever others commit meanwhile (Undisturbed).                *)
(***************************************************************************)
EXTENDS NodeTransactions, PanelNodesProofs, FiniteSetTheorems

-----------------------------------------------------------------------------
(* The invariant *)

\* The rows a transaction q has locked.
NodeHeld(q)  == \/ q.at \in {"source", "number"}
                \/ q.at = "write" /\ ~(q.op = "report" /\ q.report.missed)
TokenHeld(q) == q.at \in {"node", "write"} /\ q.op = "register"
TargetHeld(q) == \/ q.at \in {"node", "write"} /\ q.op = "report"
                 \/ q.at \in {"number", "write"} /\ q.op = "rollback"

Apart(p, q) ==
  /\ p.node = q.node =>
       /\ ~(NodeHeld(p) /\ NodeHeld(q))
       /\ ~(TokenHeld(p) /\ TokenHeld(q))
       /\ p.number = q.number => ~(TargetHeld(p) /\ TargetHeld(q))
  /\ p.op = "report" /\ q.op = "report" => p.report # q.report

\* Which statements a transaction has, and what it carries between them.
Shaped(q) ==
  /\ q.op = "register" =>
       /\ q.at \in {"token", "node", "write"}
       /\ q.at # "token" => q.fresh
       /\ q.read = <<>> /\ q.next = 0
  /\ q.op \in Transition =>
       /\ q.at \in {"node", "write"}
       /\ q.at = "write" <=> q.read # <<>>
       /\ q.next = 0
  /\ q.op \in Creation =>
       /\ q.at \in {"node", "source", "number", "write"}
       /\ q.at = "source" => q.op = "rollback"
       /\ q.at # "node" <=> q.read # <<>>
       /\ q.at = "write" <=> q.next # 0
  /\ q.op = "report" =>
       /\ q.at \in {"revision", "node", "write"}
       /\ q.read = <<>> /\ q.next = 0
       /\ q.report \in Report /\ q.report.node = q.node /\ q.report.number = q.number
       /\ q.at # "write" => ~q.report.missed
  /\ q.op # "report" => q.report = <<>>

\* What a transaction found is still so.
Grounded(q) ==
  /\ Exists(q.node)
  /\ TokenHeld(q) => nodes[q.node].bootstrap = "active"
  /\ q.op \in {"register", "report"} /\ NodeHeld(q) => nodes[q.node].status # "disabled"
  /\ q.op = "report" => nodes[q.node].registered
  /\ q.read # <<>> => q.read = ColumnsOf(nodes[q.node]) /\ ~Refuses(q.op, nodes[q.node])
  /\ q.next # 0 => q.next = NextNumber(q.node) /\ q.next <= MaxRevision
  /\ q.op \in {"report", "rollback"} => q.number \in Numbers(q.node)
  /\ TargetHeld(q) => \E r \in RevisionsOf(q.node) :
       r.number = q.number /\ r.status = (IF q.op = "report" THEN "pending" ELSE "applied")

Live(s) == tx[s] # NoTx

ReportsOf(x) == {x[s].report : s \in {t \in Session : x[t] # NoTx /\ x[t].op = "report"}}

TablesInv == Numbering /\ Registration

Sessions ==
  /\ tx \in [Session -> Tx \cup {NoTx}]
  /\ \A n \in Node : nodes[n].bootstrap # "none" => Exists(n)
  /\ \A s \in Session : Live(s) => Shaped(tx[s]) /\ Grounded(tx[s])
  /\ \A s, t \in Session : s # t /\ Live(s) /\ Live(t) => Apart(tx[s], tx[t])
  /\ reporting = ReportsOf(tx)

TxInv == TablesInv /\ Sessions

-----------------------------------------------------------------------------
(* Transactions as values *)

\* Only an idle session is idle.
LEMMA IdleOrTx ==
  /\ NoTx \notin Tx
  /\ NoTx.at = "idle"
  /\ \A q \in Tx : q.at # "idle" /\ q # NoTx
BY DEF Tx, NoTx

\* The empty tuple stands for no report.
LEMMA EmptyIsNoReport == <<>> \notin Report
<1>1. DOMAIN <<>> = {}
  OBVIOUS
<1>2. \A r \in Report : "node" \in DOMAIN r
  BY DEF Report
<1> QED BY <1>1, <1>2

\* The empty tuple stands for nothing read.
LEMMA EmptyIsNoRow == <<>> \notin Columns
<1>1. DOMAIN <<>> = {}
  OBVIOUS
<1>2. \A c \in Columns : "status" \in DOMAIN c
  BY DEF Columns
<1> QED BY <1>1, <1>2

\* The statements that only one kind of transaction has.
LEMMA Kinds ==
  ASSUME NEW q \in Tx, Shaped(q)
  PROVE  /\ q.at = "token" => q.op = "register"
         /\ q.at = "revision" => q.op = "report"
         /\ q.at = "source" => q.op = "rollback"
         /\ q.at = "number" => q.op \in Creation
<1>1. q.op \in Transition \cup Creation \cup {"register", "report"}
  BY DEF Tx, Operation
<1> QED BY <1>1 DEF Shaped

\* Locks, said of the transaction rather than of its session.
LEMMA LocksAre ==
  ASSUME NEW s \in Session, Live(s), tx \in [Session -> Tx \cup {NoTx}]
  PROVE  /\ HoldsNode(s) <=> NodeHeld(tx[s])
         /\ HoldsToken(s) <=> TokenHeld(tx[s])
         /\ \A r : HoldsRevision(s, r) <=>
              r.node = tx[s].node /\ r.number = tx[s].number /\ TargetHeld(tx[s])
BY DEF HoldsNode, NodeHeld, Missed, HoldsToken, TokenHeld, HoldsRevision, TargetHeld

\* A transaction whose next statement can run waits for no row.
LEMMA RunsAlone ==
  ASSUME Sessions, NEW s \in Session, NEW t \in Session, Live(s), Live(t), s # t,
         CanRun(s), tx[s].node = tx[t].node
  PROVE  /\ tx[s].at = "token" => ~TokenHeld(tx[t])
         /\ tx[s].at = "node" /\ Matches(s) => ~NodeHeld(tx[t])
         /\ tx[s].at \in {"source", "revision"} /\ tx[s].number = tx[t].number
              => ~TargetHeld(tx[t])
<1>1. tx[s] \in Tx /\ tx[t] \in Tx
  BY DEF Sessions, Live
<1>2. tx[s].at # "idle" /\ tx[t].at # "idle"
  BY <1>1, IdleOrTx
<1>3. ~WaitsFor(s, t)
  BY DEF CanRun
<1>4. HoldsNode(t) <=> NodeHeld(tx[t])
  BY LocksAre DEF Sessions
<1>5. HoldsToken(t) <=> TokenHeld(tx[t])
  BY LocksAre DEF Sessions
<1>6. ASSUME tx[s].at \in {"source", "revision"}, tx[s].number = tx[t].number,
             TargetHeld(tx[t])
      PROVE  FALSE
  <2>1. PICK r \in RevisionsOf(tx[t].node) : r.number = tx[t].number
    BY <1>6 DEF Sessions, Grounded
  <2>2. HoldsRevision(t, r)
    BY <1>6, <2>1, LocksAre DEF Sessions, RevisionsOf
  <2>3. r \in RevisionsOf(tx[s].node) /\ r.number = tx[s].number
    BY <1>6, <2>1
  <2> QED BY <1>2, <1>3, <1>6, <2>2, <2>3 DEF WaitsFor
<1> QED BY <1>2, <1>3, <1>4, <1>5, <1>6 DEF WaitsFor

\* Being apart is symmetric.
LEMMA ApartSymmetric == \A p, q : Apart(p, q) => Apart(q, p)
BY DEF Apart

-----------------------------------------------------------------------------
(* A step of one session *)

IsReport(q) == q # NoTx /\ q.op = "report"

\* The reports under way, after one session has changed.
LEMMA ReportsChange ==
  ASSUME Sessions, NEW s \in Session, NEW q, tx' = [tx EXCEPT ![s] = q]
  PROVE  /\ ~IsReport(tx[s]) /\ ~IsReport(q) => ReportsOf(tx)' = reporting
         /\ ~IsReport(tx[s]) /\ IsReport(q)
              => ReportsOf(tx)' = reporting \cup {q.report}
         /\ IsReport(tx[s]) /\ ~IsReport(q)
              => ReportsOf(tx)' = reporting \ {tx[s].report}
         /\ IsReport(tx[s]) /\ IsReport(q)
              => ReportsOf(tx)' = (reporting \ {tx[s].report}) \cup {q.report}
<1> DEFINE Old == {u \in Session : IsReport(tx[u])}
           New == {u \in Session : IsReport(tx[u])'}
<1>1. reporting = {tx[t].report : t \in Old}
  BY DEF Sessions, ReportsOf, IsReport
<1>2. \A t \in Session : tx'[t] = IF t = s THEN q ELSE tx[t]
  BY DEF Sessions
<1>3. ReportsOf(tx)' = {tx'[t].report : t \in New}
  BY DEF ReportsOf, IsReport
<1>4. \A t \in Old \ {s} : IsReport(tx[s]) => tx[t].report # tx[s].report
  BY DEF Sessions, Apart, IsReport, Live
<1>5. \A t \in Session \ {s} : (t \in New <=> t \in Old) /\ tx'[t].report = tx[t].report
  BY <1>2 DEF IsReport
<1>6. /\ s \in New <=> IsReport(q)
      /\ s \in Old <=> IsReport(tx[s])
      /\ tx'[s].report = q.report
  BY <1>2 DEF IsReport
<1>7. Old \subseteq Session /\ New \subseteq Session
  OBVIOUS
<1> HIDE DEF Old, New
<1>8. {tx[t].report : t \in Old \ {s}} = {tx'[t].report : t \in New \ {s}}
  BY <1>5, <1>7
<1>9. /\ s \notin New => ReportsOf(tx)' = {tx'[t].report : t \in New \ {s}}
      /\ s \in New => ReportsOf(tx)' = {tx'[t].report : t \in New \ {s}} \cup {q.report}
  BY <1>3, <1>6
<1>10. /\ s \notin Old => reporting = {tx[t].report : t \in Old \ {s}}
       /\ s \in Old => reporting \ {tx[s].report} = {tx[t].report : t \in Old \ {s}}
  BY <1>1, <1>4, <1>6, <1>7
<1> QED BY <1>6, <1>8, <1>9, <1>10

\* One session goes on and the tables stay: what it carries must be true, and it
\* must hold no row another one holds.
LEMMA SessionMoves ==
  ASSUME Sessions, NEW s \in Session, NEW q \in Tx \cup {NoTx},
         tx' = [tx EXCEPT ![s] = q], UNCHANGED <<nodes, revisions>>,
         q # NoTx => Shaped(q) /\ Grounded(q),
         q # NoTx => \A t \in Session \ {s} : Live(t) => Apart(q, tx[t]),
         reporting' = ReportsOf(tx)'
  PROVE  Sessions'
<1>1. tx' \in [Session -> Tx \cup {NoTx}]
  BY DEF Sessions
<1>2. \A t \in Session : tx'[t] = IF t = s THEN q ELSE tx[t]
  BY DEF Sessions
<1>3. \A p : Grounded(p)' <=> Grounded(p)
  BY DEF Grounded, Exists, Numbers, NextNumber, RevisionsOf
<1>4. \A t \in Session : Live(t)' => Shaped(tx'[t]) /\ Grounded(tx'[t])
  BY <1>2 DEF Sessions, Live
<1>5. \A t \in Session : Live(t)' => (Shaped(tx[t]) /\ Grounded(tx[t]))'
  <2> SUFFICES ASSUME NEW t \in Session, Live(t)' PROVE (Shaped(tx[t]) /\ Grounded(tx[t]))'
    OBVIOUS
  <2>1. Shaped(tx'[t]) /\ Grounded(tx'[t])
    BY <1>4
  <2>2. Grounded(tx[t])'
    BY <2>1 DEF Grounded, Exists, Numbers, NextNumber, RevisionsOf, Refuses, ColumnsOf
  <2> QED BY <2>1, <2>2 DEF Shaped
<1>6. \A t, u \in Session : t # u /\ Live(t)' /\ Live(u)' => Apart(tx'[t], tx'[u])
  BY <1>2, ApartSymmetric DEF Sessions, Live
<1>7. \A n \in Node : nodes'[n].bootstrap # "none" => Exists(n)'
  BY DEF Sessions, Exists
<1> QED BY <1>1, <1>5, <1>6, <1>7 DEF Sessions

\* A transaction ends without a trace.
LEMMA EndMoves ==
  ASSUME TypeOK, Sessions, NEW s \in Session, Live(s), End(s),
         UNCHANGED <<nodes, revisions>>
  PROVE  Sessions'
<1>1. tx' = [tx EXCEPT ![s] = NoTx] /\ reporting' = reporting \ {tx[s].report}
  BY DEF End
<1>2. IsReport(tx[s]) => reporting' = ReportsOf(tx)'
  BY <1>1, ReportsChange DEF IsReport
<1>3. ~IsReport(tx[s]) => reporting' = ReportsOf(tx)'
  <2>1. ~IsReport(tx[s]) => tx[s].report = <<>>
    BY DEF Sessions, Shaped, IsReport, Live
  <2>2. ~IsReport(tx[s]) => reporting' = reporting
    BY <1>1, <2>1, EmptyIsNoReport DEF TypeOK
  <2> QED BY <1>1, <2>2, ReportsChange DEF IsReport
<1> QED BY <1>1, <1>2, <1>3, SessionMoves

\* A transaction goes on to its next statement.
LEMMA Advances ==
  ASSUME Sessions, NEW s \in Session, Live(s), NEW q \in Tx,
         tx' = [tx EXCEPT ![s] = q], UNCHANGED vars,
         q.op = tx[s].op, q.node = tx[s].node, q.number = tx[s].number,
         q.report = tx[s].report, Shaped(q), Grounded(q),
         \A t \in Session \ {s} : Live(t) /\ tx[t].node = tx[s].node =>
           /\ NodeHeld(q) => NodeHeld(tx[s]) \/ ~NodeHeld(tx[t])
           /\ TokenHeld(q) => TokenHeld(tx[s]) \/ ~TokenHeld(tx[t])
           /\ tx[t].number = tx[s].number /\ TargetHeld(q)
                => TargetHeld(tx[s]) \/ ~TargetHeld(tx[t])
  PROVE  Sessions'
<1>1. q # NoTx
  BY IdleOrTx
<1>2. \A t \in Session \ {s} : Live(t) => Apart(tx[s], tx[t])
  BY DEF Sessions
<1>3. \A t \in Session \ {s} : Live(t) => Apart(q, tx[t])
  BY <1>2 DEF Apart
<1>4. reporting' = ReportsOf(tx)'
  <2>1. IsReport(q) <=> IsReport(tx[s])
    BY <1>1 DEF IsReport, Live
  <2>2. IsReport(tx[s]) => tx[s].report \in reporting
    BY DEF IsReport, Sessions, ReportsOf
  <2>3. reporting' = reporting
    BY DEF vars
  <2>4. ~IsReport(tx[s]) => ReportsOf(tx)' = reporting
    BY <2>1, ReportsChange
  <2>5. IsReport(tx[s]) => ReportsOf(tx)' = (reporting \ {tx[s].report}) \cup {q.report}
    BY <2>1, ReportsChange
  <2>6. q.report = tx[s].report
    OBVIOUS
  <2> QED BY <2>2, <2>3, <2>4, <2>5, <2>6
<1> QED BY <1>1, <1>3, <1>4, SessionMoves DEF vars

\* The next statement of a transaction, everything else as it was.
LEMMA Relocated ==
  ASSUME NEW q \in Tx, NEW at \in {"token", "node", "source", "number", "revision", "write"}
  PROVE  LET p == [q EXCEPT !.at = at]
         IN  /\ p \in Tx /\ p.at = at
             /\ p.op = q.op /\ p.node = q.node /\ p.number = q.number
             /\ p.fresh = q.fresh /\ p.read = q.read /\ p.next = q.next
             /\ p.report = q.report
BY DEF Tx

\* Goto moves one session to its next statement.
LEMMA GotoMoves ==
  ASSUME Sessions, NEW s \in Session, NEW at, Goto(s, at)
  PROVE  tx' = [tx EXCEPT ![s] = [tx[s] EXCEPT !.at = at]]
BY DEF Goto, Sessions

\* The token row is free when SELECT ... FOR UPDATE returns it.
LEMMA LockTokenMoves ==
  ASSUME TypeOK, Sessions, NEW s \in Session, LockToken(s)
  PROVE  Sessions'
<1> DEFINE q == [tx[s] EXCEPT !.at = "node"]
<1>1. Live(s) /\ tx[s] \in Tx /\ tx[s].at = "token"
  BY IdleOrTx DEF LockToken, Sessions, Live, NoTx
<1>2. CASE End(s)
  BY <1>1, <1>2, EndMoves DEF LockToken
<1>3. CASE ~End(s)
  <2>1. nodes[tx[s].node].bootstrap = "active" /\ tx[s].fresh /\ Goto(s, "node")
        /\ UNCHANGED vars
    BY <1>3 DEF LockToken, vars
  <2>2. q \in Tx /\ q.at = "node" /\ q.op = tx[s].op /\ q.node = tx[s].node
        /\ q.number = tx[s].number /\ q.fresh = tx[s].fresh /\ q.read = tx[s].read
        /\ q.next = tx[s].next /\ q.report = tx[s].report
    BY <1>1, Relocated
  <2>3. tx' = [tx EXCEPT ![s] = q]
    BY <2>1, GotoMoves
  <2> HIDE DEF q
  <2>4. Shaped(tx[s]) /\ Grounded(tx[s])
    BY <1>1 DEF Sessions
  <2>5. tx[s].op = "register"
    BY <1>1, <2>4, Kinds
  <2>6. Shaped(q)
    BY <2>1, <2>2, <2>4, <2>5, <1>1 DEF Shaped, Transition, Creation
  <2>7. Grounded(q)
    BY <2>1, <2>2, <2>4, <2>5 DEF Grounded, TokenHeld, NodeHeld, TargetHeld, Shaped
  <2>8. \A t \in Session \ {s} : Live(t) /\ tx[t].node = tx[s].node => ~TokenHeld(tx[t])
    BY <1>1, RunsAlone DEF LockToken
  <2>9. ~NodeHeld(q) /\ ~TargetHeld(q)
    BY <2>2, <2>5 DEF NodeHeld, TargetHeld
  <2> QED BY <1>1, <2>1, <2>2, <2>3, <2>6, <2>7, <2>8, <2>9, Advances
<1> QED BY <1>2, <1>3

\* The row of the revision is free when the first UPDATE of a report gets it, and
\* it is pending still.
LEMMA LockRevisionMoves ==
  ASSUME TypeOK, Sessions, NEW s \in Session, LockRevision(s)
  PROVE  Sessions'
<1> DEFINE q == [tx[s] EXCEPT !.at = "node"]
<1>1. Live(s) /\ tx[s] \in Tx /\ tx[s].at = "revision"
  BY IdleOrTx DEF LockRevision, Sessions, Live, NoTx
<1>2. CASE End(s)
  BY <1>1, <1>2, EndMoves DEF LockRevision
<1>3. CASE ~End(s)
  <2>1. tx[s].number \in {r.number : r \in Pending(tx[s].node)} /\ Goto(s, "node")
        /\ UNCHANGED vars
    BY <1>3 DEF LockRevision, vars
  <2>2. q \in Tx /\ q.at = "node" /\ q.op = tx[s].op /\ q.node = tx[s].node
        /\ q.number = tx[s].number /\ q.fresh = tx[s].fresh /\ q.read = tx[s].read
        /\ q.next = tx[s].next /\ q.report = tx[s].report
    BY <1>1, Relocated
  <2>3. tx' = [tx EXCEPT ![s] = q]
    BY <2>1, GotoMoves
  <2> HIDE DEF q
  <2>4. Shaped(tx[s]) /\ Grounded(tx[s])
    BY <1>1 DEF Sessions
  <2>5. tx[s].op = "report"
    BY <1>1, <2>4, Kinds
  <2>6. Shaped(q)
    BY <2>2, <2>4, <2>5, <1>1 DEF Shaped, Transition, Creation
  <2>7. \E r \in RevisionsOf(q.node) : r.number = q.number /\ r.status = "pending"
    BY <2>1, <2>2 DEF Pending
  <2>8. Grounded(q)
    BY <2>2, <2>4, <2>5, <2>7 DEF Grounded, TokenHeld, NodeHeld, Shaped
  <2>9. \A t \in Session \ {s} : Live(t) /\ tx[t].node = tx[s].node
          /\ tx[t].number = tx[s].number => ~TargetHeld(tx[t])
    BY <1>1, RunsAlone DEF LockRevision
  <2>10. ~NodeHeld(q) /\ ~TokenHeld(q)
    BY <2>2, <2>5 DEF NodeHeld, TokenHeld
  <2> QED BY <1>1, <2>1, <2>2, <2>3, <2>6, <2>8, <2>9, <2>10, Advances
<1> QED BY <1>2, <1>3

\* The row of the source is free when the rollback gets it, and it is applied.
LEMMA LockSourceMoves ==
  ASSUME TypeOK, Sessions, NEW s \in Session, LockSource(s)
  PROVE  Sessions'
<1> DEFINE q == [tx[s] EXCEPT !.at = "number"]
<1>1. Live(s) /\ tx[s] \in Tx /\ tx[s].at = "source"
  BY IdleOrTx DEF LockSource, Sessions, Live, NoTx
<1>2. CASE End(s)
  BY <1>1, <1>2, EndMoves DEF LockSource
<1>3. CASE ~End(s)
  <2>1. /\ \E r \in RevisionsOf(tx[s].node) : r.number = tx[s].number /\ r.status = "applied"
        /\ Goto(s, "number") /\ UNCHANGED vars
    BY <1>3 DEF LockSource, vars
  <2>2. q \in Tx /\ q.at = "number" /\ q.op = tx[s].op /\ q.node = tx[s].node
        /\ q.number = tx[s].number /\ q.fresh = tx[s].fresh /\ q.read = tx[s].read
        /\ q.next = tx[s].next /\ q.report = tx[s].report
    BY <1>1, Relocated
  <2>3. tx' = [tx EXCEPT ![s] = q]
    BY <2>1, GotoMoves
  <2> HIDE DEF q
  <2>4. Shaped(tx[s]) /\ Grounded(tx[s])
    BY <1>1 DEF Sessions
  <2>5. tx[s].op = "rollback"
    BY <1>1, <2>4, Kinds
  <2>6. Shaped(q)
    BY <2>2, <2>4, <2>5, <1>1 DEF Shaped, Transition, Creation
  <2>7. NodeHeld(tx[s]) /\ ~TokenHeld(q)
    BY <1>1, <2>2 DEF NodeHeld, TokenHeld
  <2>8. Grounded(q)
    BY <2>1, <2>2, <2>4, <2>5, <2>7 DEF Grounded, Shaped
  <2>9. \A t \in Session \ {s} : Live(t) /\ tx[t].node = tx[s].node
          /\ tx[t].number = tx[s].number => ~TargetHeld(tx[t])
    BY <1>1, RunsAlone DEF LockSource
  <2> QED BY <1>1, <2>1, <2>2, <2>3, <2>6, <2>7, <2>8, <2>9, Advances
<1> QED BY <1>2, <1>3

\* SELECT ... FOR UPDATE of the node: what it returns is so, and nothing in it
\* refuses the operation.
LEMMA LockNodeMoves ==
  ASSUME TypeOK, Sessions, NEW s \in Session, LockNode(s)
  PROVE  Sessions'
<1> DEFINE row == nodes[tx[s].node]
           at == AfterNode(tx[s].op)
           columns == ColumnsOf(row)
           q == [tx[s] EXCEPT !.at = at, !.read = columns]
<1>1. Live(s) /\ tx[s] \in Tx /\ tx[s].at = "node" /\ tx[s].op \in Transition \cup Creation
  BY IdleOrTx DEF LockNode, Sessions, Live, NoTx
<1>2. CASE End(s)
  BY <1>1, <1>2, EndMoves DEF LockNode
<1>3. CASE ~End(s)
  <2>1. ~Refuses(tx[s].op, row) /\ UNCHANGED vars
        /\ tx' = [tx EXCEPT ![s].at = at, ![s].read = ColumnsOf(row)]
    BY <1>3 DEF LockNode, vars
  <2>2. Shaped(tx[s]) /\ Grounded(tx[s])
    BY <1>1 DEF Sessions
  <2>3. row \in NodeRow /\ row.status # "absent"
    BY <1>1, <2>2 DEF TypeOK, Tx, Grounded, Exists
  <2>4. ColumnsOf(row) \in Columns
    BY <2>3 DEF ColumnsOf, Columns, NodeRow
  <2>5. at \in {"write", "number", "source"}
    BY DEF AfterNode
  <2>6. tx' = [tx EXCEPT ![s] = q]
    BY <2>1 DEF Sessions
  <2>7. q \in Tx /\ q.at = at /\ q.op = tx[s].op /\ q.node = tx[s].node
        /\ q.number = tx[s].number /\ q.fresh = tx[s].fresh /\ q.read = columns
        /\ q.next = tx[s].next /\ q.report = tx[s].report
    <3> HIDE DEF columns, at
    <3>1. columns \in Columns
      BY <2>4 DEF columns
    <3> QED BY <1>1, <2>5, <3>1 DEF Tx
  <2>8. q.read # <<>>
    BY <2>4, <2>7, EmptyIsNoRow
  <2>9. q.read = ColumnsOf(nodes[q.node]) /\ ~Refuses(q.op, nodes[q.node])
    BY <2>1, <2>7
  <2> HIDE DEF q, columns, row
  <2>10. Shaped(q)
    BY <1>1, <2>2, <2>7, <2>8 DEF Shaped, AfterNode, Transition, Creation
  <2>11. ~TokenHeld(q) /\ ~TargetHeld(q)
    BY <1>1, <2>7 DEF TokenHeld, TargetHeld, AfterNode, Transition, Creation
  <2>12. Grounded(q)
    BY <1>1, <2>2, <2>7, <2>9, <2>11 DEF Grounded, Shaped, Transition, Creation
  <2>13. Matches(s)
    BY <1>1 DEF Matches, Transition, Creation
  <2>14. \A t \in Session \ {s} : Live(t) /\ tx[t].node = tx[s].node => ~NodeHeld(tx[t])
    BY <1>1, <2>13, RunsAlone DEF LockNode
  <2> QED BY <1>1, <2>1, <2>6, <2>7, <2>10, <2>11, <2>12, <2>14, Advances
<1> QED BY <1>2, <1>3

\* The UPDATE of nodes in Register gets a row that is not disabled.
LEMMA UpdateRegisteredMoves ==
  ASSUME TypeOK, Sessions, NEW s \in Session, UpdateRegistered(s)
  PROVE  Sessions'
<1> DEFINE q == [tx[s] EXCEPT !.at = "write"]
<1>1. Live(s) /\ tx[s] \in Tx /\ tx[s].at = "node" /\ tx[s].op = "register"
  BY IdleOrTx DEF UpdateRegistered, Sessions, Live, NoTx
<1>2. CASE End(s)
  BY <1>1, <1>2, EndMoves DEF UpdateRegistered
<1>3. CASE ~End(s)
  <2>1. Matches(s) /\ Goto(s, "write") /\ UNCHANGED vars
    BY <1>3 DEF UpdateRegistered, vars
  <2>2. q \in Tx /\ q.at = "write" /\ q.op = tx[s].op /\ q.node = tx[s].node
        /\ q.number = tx[s].number /\ q.fresh = tx[s].fresh /\ q.read = tx[s].read
        /\ q.next = tx[s].next /\ q.report = tx[s].report
    BY <1>1, Relocated
  <2>3. tx' = [tx EXCEPT ![s] = q]
    BY <2>1, GotoMoves
  <2> HIDE DEF q
  <2>4. Shaped(tx[s]) /\ Grounded(tx[s])
    BY <1>1 DEF Sessions
  <2>5. Shaped(q)
    BY <1>1, <2>2, <2>4 DEF Shaped, Transition, Creation
  <2>6. TokenHeld(tx[s]) /\ ~TargetHeld(q)
    BY <1>1, <2>2 DEF TokenHeld, TargetHeld
  <2>7. Grounded(q)
    BY <1>1, <2>1, <2>2, <2>4, <2>6 DEF Grounded, Matches, Shaped
  <2>8. \A t \in Session \ {s} : Live(t) /\ tx[t].node = tx[s].node => ~NodeHeld(tx[t])
    BY <1>1, <2>1, RunsAlone DEF UpdateRegistered
  <2> QED BY <1>1, <2>1, <2>2, <2>3, <2>5, <2>6, <2>7, <2>8, Advances
<1> QED BY <1>2, <1>3

\* The second UPDATE of a report gets a row that is not disabled, or none at all.
LEMMA UpdateReportedMoves ==
  ASSUME TypeOK, Sessions, NEW s \in Session, UpdateReported(s)
  PROVE  Sessions'
<1>1. Live(s) /\ tx[s] \in Tx /\ tx[s].at = "node" /\ tx[s].op = "report"
  BY IdleOrTx DEF UpdateReported, Sessions, Live, NoTx
<1>2. Shaped(tx[s]) /\ Grounded(tx[s])
  BY <1>1 DEF Sessions
<1>3. CASE Matches(s)
  <2> DEFINE q == [tx[s] EXCEPT !.at = "write"]
  <2>1. Goto(s, "write") /\ UNCHANGED vars
    BY <1>3 DEF UpdateReported, vars
  <2>2. q \in Tx /\ q.at = "write" /\ q.op = tx[s].op /\ q.node = tx[s].node
        /\ q.number = tx[s].number /\ q.fresh = tx[s].fresh /\ q.read = tx[s].read
        /\ q.next = tx[s].next /\ q.report = tx[s].report
    BY <1>1, Relocated
  <2>3. tx' = [tx EXCEPT ![s] = q]
    BY <2>1, GotoMoves
  <2> HIDE DEF q
  <2>4. Shaped(q)
    BY <1>1, <1>2, <2>2 DEF Shaped, Transition, Creation
  <2>5. TargetHeld(tx[s]) /\ ~TokenHeld(q)
    BY <1>1, <2>2 DEF TokenHeld, TargetHeld
  <2>6. Grounded(q)
    BY <1>1, <1>2, <1>3, <2>2, <2>5 DEF Grounded, Matches, Shaped
  <2>7. \A t \in Session \ {s} : Live(t) /\ tx[t].node = tx[s].node => ~NodeHeld(tx[t])
    BY <1>1, <1>3, RunsAlone DEF UpdateReported
  <2> QED BY <1>1, <2>1, <2>2, <2>3, <2>4, <2>5, <2>6, <2>7, Advances
<1>4. CASE ~Matches(s)
  <2> DEFINE missed == [tx[s].report EXCEPT !.missed = TRUE]
             q == [tx[s] EXCEPT !.at = "write", !.report = missed]
  <2>1. /\ tx' = [tx EXCEPT ![s].at = "write", ![s].report = missed]
        /\ reporting' = (reporting \ {tx[s].report}) \cup {missed}
        /\ UNCHANGED <<nodes, revisions>>
    BY <1>4 DEF UpdateReported
  <2>2. missed \in Report /\ missed.missed /\ missed.node = tx[s].node
        /\ missed.number = tx[s].number
    BY <1>1, <1>2 DEF Shaped, Report
  <2>3. tx' = [tx EXCEPT ![s] = q]
    BY <2>1 DEF Sessions
  <2> HIDE DEF missed
  <2>4. q \in Tx /\ q.at = "write" /\ q.op = tx[s].op /\ q.node = tx[s].node
        /\ q.number = tx[s].number /\ q.fresh = tx[s].fresh /\ q.read = tx[s].read
        /\ q.next = tx[s].next /\ q.report = missed
    BY <1>1, <2>2 DEF Tx
  <2> HIDE DEF q
  <2>5. Shaped(q)
    BY <1>1, <1>2, <2>2, <2>4 DEF Shaped, Transition, Creation
  <2>6. ~NodeHeld(q) /\ ~TokenHeld(q) /\ TargetHeld(tx[s])
    BY <1>1, <2>2, <2>4 DEF NodeHeld, TokenHeld, TargetHeld
  <2>7. Grounded(q)
    BY <1>1, <1>2, <2>4, <2>6 DEF Grounded, Shaped
  <2>8. ASSUME NEW t \in Session \ {s}, Live(t)
        PROVE  Apart(q, tx[t])
    <3>1. Apart(tx[s], tx[t]) /\ Shaped(tx[t]) /\ tx[t] \in Tx
      BY <1>1, <2>8 DEF Sessions, Live
    <3>2. tx[t].op = "report" => tx[t].report # missed
      BY <2>2, <2>6, <3>1 DEF Apart, Shaped, TargetHeld
    <3> QED BY <2>4, <2>6, <3>1, <3>2 DEF Apart
  <2>9. q # NoTx /\ IsReport(q) /\ IsReport(tx[s])
    BY <1>1, <2>4, IdleOrTx DEF IsReport
  <2>10. reporting' = ReportsOf(tx)'
    BY <2>1, <2>3, <2>4, <2>9, ReportsChange
  <2> QED BY <2>1, <2>3, <2>4, <2>5, <2>7, <2>8, <2>10, SessionMoves
<1> QED BY <1>3, <1>4

\* MAX + 1 is counted under the lock of the node.
LEMMA ReadNumberMoves ==
  ASSUME Numbering, Sessions, NEW s \in Session, ReadNumber(s)
  PROVE  Sessions'
<1> DEFINE next == NextNumber(tx[s].node)
           q == [tx[s] EXCEPT !.at = "write", !.next = next]
<1>1. Live(s) /\ tx[s] \in Tx /\ tx[s].at = "number"
  BY IdleOrTx DEF ReadNumber, Sessions, Live, NoTx
<1>2. Shaped(tx[s]) /\ Grounded(tx[s]) /\ tx[s].op \in Creation
  BY <1>1, Kinds DEF Sessions
<1>3. tx' = [tx EXCEPT ![s].at = "write", ![s].next = next] /\ UNCHANGED vars
      /\ next <= MaxRevision
  BY DEF ReadNumber
<1>4. next \in Nat /\ next # 0
  BY <1>1, NextNumberFollows, PanelAssumption DEF Numbering, Tx
<1>5. tx' = [tx EXCEPT ![s] = q]
  BY <1>3 DEF Sessions
<1> HIDE DEF next
<1>6. q \in Tx /\ q.at = "write" /\ q.op = tx[s].op /\ q.node = tx[s].node
      /\ q.number = tx[s].number /\ q.fresh = tx[s].fresh /\ q.read = tx[s].read
      /\ q.next = next /\ q.report = tx[s].report
  BY <1>1, <1>4 DEF Tx
<1> HIDE DEF q
<1>7. Shaped(q)
  BY <1>1, <1>2, <1>4, <1>6 DEF Shaped, Transition, Creation
<1>8. NodeHeld(tx[s]) /\ ~TokenHeld(q) /\ (TargetHeld(q) => TargetHeld(tx[s]))
  BY <1>1, <1>2, <1>6 DEF NodeHeld, TokenHeld, TargetHeld, Creation
<1>9. q.next = NextNumber(q.node) /\ q.next <= MaxRevision
  BY <1>3, <1>6 DEF next
<1>10. Grounded(q)
  BY <1>2, <1>6, <1>8, <1>9 DEF Grounded, Creation
<1> QED BY <1>1, <1>3, <1>5, <1>6, <1>7, <1>8, <1>10, Advances

\* A request begins: it holds no row yet.
LEMMA BeginMoves ==
  ASSUME TablesInv, Sessions, NEW s \in Session, Begin(s)
  PROVE  Sessions'
<1>1. ASSUME NEW op \in Operation, NEW at \in {"token", "node", "revision"},
             NEW n \in Node, NEW number \in Nat, NEW fresh \in BOOLEAN,
             NEW report \in Report \cup {<<>>}, Open(s, op, at, n, number, fresh, report),
             Exists(n),
             \/ op = "register" /\ at = "token" /\ report = <<>> /\ UNCHANGED reporting
             \/ op \in Transition \cup Creation /\ at = "node" /\ report = <<>>
                /\ UNCHANGED reporting /\ (op = "rollback" => number \in Numbers(n))
             \/ /\ op = "report" /\ at = "revision" /\ report \in Report
                /\ report.node = n /\ report.number = number /\ ~report.missed
                /\ nodes[n].registered /\ number \in Numbers(n)
                /\ report \notin reporting /\ reporting' = reporting \cup {report}
      PROVE  Sessions'
  <2> DEFINE q == [op |-> op, at |-> at, node |-> n, number |-> number,
                   fresh |-> fresh, read |-> <<>>, next |-> 0, report |-> report]
  <2>1. tx[s] = NoTx /\ tx' = [tx EXCEPT ![s] = q] /\ UNCHANGED <<nodes, revisions>>
    BY <1>1 DEF Open
  <2>2. q \in Tx /\ q.op = op /\ q.at = at /\ q.node = n /\ q.number = number
        /\ q.read = <<>> /\ q.next = 0 /\ q.report = report
    BY DEF Tx
  <2> HIDE DEF q
  <2>3. ~NodeHeld(q) /\ ~TokenHeld(q) /\ ~TargetHeld(q)
    BY <1>1, <2>2 DEF NodeHeld, TokenHeld, TargetHeld, Transition, Creation
  <2>4. Shaped(q)
    BY <1>1, <2>2 DEF Shaped, Transition, Creation
  <2>5. Grounded(q)
    BY <1>1, <2>2, <2>3 DEF Grounded, Transition, Creation
  <2>6. \A t \in Session \ {s} : Live(t) /\ tx[t].op = "report" => tx[t].report \in reporting
    BY DEF Sessions, ReportsOf, Live
  <2>7. \A t \in Session \ {s} : Live(t) => Apart(q, tx[t])
    BY <1>1, <2>2, <2>3, <2>6 DEF Apart, Transition, Creation
  <2>8. ~IsReport(tx[s]) /\ (IsReport(q) <=> op = "report")
    BY <2>1, <2>2, IdleOrTx DEF IsReport
  <2>9. reporting' = ReportsOf(tx)'
    BY <1>1, <2>1, <2>2, <2>8, ReportsChange DEF Transition, Creation
  <2> QED BY <2>1, <2>2, <2>4, <2>5, <2>7, <2>9, SessionMoves
<1>2. ASSUME NEW n \in Node, BeginRegister(s, n)
      PROVE  Sessions'
  <2>1. Exists(n)
    BY <1>2 DEF BeginRegister, Sessions
  <2>2. (~nodes[n].expired) \in BOOLEAN
    OBVIOUS
  <2> QED BY <1>1, <1>2, <2>1, <2>2 DEF BeginRegister, Operation
<1>3. ASSUME NEW n \in Node, BeginTransition(s, n)
      PROVE  Sessions'
  BY <1>1, <1>3 DEF BeginTransition, Operation, Transition
<1>4. ASSUME NEW n \in Node, BeginCreation(s, n)
      PROVE  Sessions'
  <2>1. Exists(n) /\ UNCHANGED reporting
    BY <1>4 DEF BeginCreation
  <2>2. CASE Open(s, "deploy", "node", n, 0, TRUE, <<>>)
    BY <1>1, <2>1, <2>2 DEF Operation, Creation
  <2>3. ASSUME NEW r \in RevisionsOf(n),
               Open(s, "rollback", "node", n, r.number, TRUE, <<>>)
        PROVE  Sessions'
    <3>1. r.number \in Numbers(n) /\ r.number \in Nat
      BY DEF Numbers, RevisionsOf, TablesInv, Numbering, TypeOK, Revision
    <3> QED BY <1>1, <2>1, <2>3, <3>1 DEF Operation, Creation
  <2> QED BY <1>4, <2>2, <2>3 DEF BeginCreation
<1>5. ASSUME NEW report \in Report, NEW holder \in Node, BeginReport(s, report, holder),
             ~report.missed
      PROVE  Sessions'
  <2>1. report.node \in Node /\ report.number \in Nat
    BY DEF Report
  <2>2. Exists(report.node) /\ nodes[report.node].registered
    <3>1. nodes[report.node].registered
      BY <1>5 DEF BeginReport, Authorised
    <3> QED BY <2>1, <3>1 DEF TablesInv, Registration, AbsentIsUnregistered
  <2>3. report.number \in Numbers(report.node)
    BY <1>5 DEF BeginReport, Numbers, Pending
  <2> QED BY <1>1, <1>5, <2>1, <2>2, <2>3 DEF BeginReport, Operation
<1>6. ASSUME NEW n \in Node, NEW holder \in Node, NEW number \in 1..MaxRevision,
             NEW outcome \in Outcome, NEW applied \in ReportedRevision,
             NEW state \in ReportedState,
             BeginReport(s, [node |-> n, number |-> number, outcome |-> outcome,
                             lastApplied |-> applied, runtimeState |-> state,
                             missed |-> FALSE], holder)
      PROVE  Sessions'
  <2> DEFINE report == [node |-> n, number |-> number, outcome |-> outcome,
                        lastApplied |-> applied, runtimeState |-> state,
                        missed |-> FALSE]
  <2>1. report \in Report /\ ~report.missed
    BY PanelAssumption DEF Report
  <2>2. BeginReport(s, report, holder)
    BY <1>6
  <2> HIDE DEF report
  <2> QED BY <1>5, <2>1, <2>2
<1> QED BY <1>2, <1>3, <1>4, <1>6 DEF Begin

-----------------------------------------------------------------------------
(* Changes of the tables *)

\* What must not change under a transaction q: what it has locked, and what
\* nothing takes back.
NumbersIn(table, n) == {r.number : r \in {x \in table : x.node = n}}

Kept(q) ==
  /\ nodes'[q.node].status # "absent"
  /\ nodes[q.node].registered => nodes'[q.node].registered
  /\ TokenHeld(q) => nodes'[q.node].bootstrap = nodes[q.node].bootstrap
  /\ NodeHeld(q) => /\ ColumnsOf(nodes'[q.node]) = ColumnsOf(nodes[q.node])
                    /\ NumbersIn(revisions', q.node) = Numbers(q.node)
  /\ Numbers(q.node) \subseteq NumbersIn(revisions', q.node)
  /\ TargetHeld(q) => \A r \in RevisionsOf(q.node) :
       r.number = q.number => r \in revisions'

\* What a transaction found stays so if what it holds is kept.
LEMMA Undisturbed ==
  ASSUME NEW q \in Tx, Shaped(q), Grounded(q), Kept(q)
  PROVE  Grounded(q)'
<1> USE DEF NumbersIn, Exists, Numbers, RevisionsOf
<1>1. q.op \in Transition \cup Creation \cup {"register", "report"}
  BY DEF Tx, Operation
<1>2. q.read # <<>> => NodeHeld(q)
  BY <1>1 DEF Shaped, NodeHeld, Transition, Creation
<1>3. q.next # 0 => NodeHeld(q)
  BY <1>1 DEF Shaped, NodeHeld, Transition, Creation
<1>4. NodeHeld(q) => /\ nodes'[q.node].status = nodes[q.node].status
                     /\ nodes'[q.node].drainState = nodes[q.node].drainState
                     /\ nodes'[q.node].activeRevision = nodes[q.node].activeRevision
  BY DEF Kept, ColumnsOf
<1>5. q.read # <<>> => q.read = ColumnsOf(nodes'[q.node]) /\ ~Refuses(q.op, nodes'[q.node])
  BY <1>2, <1>4 DEF Grounded, Kept, Refuses
<1>6. q.next # 0 => q.next = NextNumber(q.node)' /\ q.next <= MaxRevision
  BY <1>3 DEF Grounded, Kept, NextNumber
<1>7. TargetHeld(q) => \E r \in RevisionsOf(q.node)' :
        r.number = q.number /\ r.status = (IF q.op = "report" THEN "pending" ELSE "applied")
  BY DEF Grounded, Kept, RevisionsOf
<1>8. q.op \in {"report", "rollback"} => q.number \in Numbers(q.node)'
  BY DEF Grounded, Kept
<1>9. (TokenHeld(q) => nodes[q.node].bootstrap = "active")'
  BY DEF Grounded, Kept
<1>10. (q.op \in {"register", "report"} /\ NodeHeld(q) => nodes[q.node].status # "disabled")'
  BY <1>4 DEF Grounded
<1>11. (Exists(q.node) /\ (q.op = "report" => nodes[q.node].registered))'
  BY DEF Grounded, Kept
<1>12. (q.read # <<>> => q.read = ColumnsOf(nodes[q.node]) /\ ~Refuses(q.op, nodes[q.node]))'
  BY <1>5 DEF ColumnsOf, Refuses
<1> QED BY <1>6, <1>7, <1>8, <1>9, <1>10, <1>11, <1>12 DEF Grounded

\* A statement outside the sessions changes the tables.
LEMMA TablesMove ==
  ASSUME Sessions, UNCHANGED <<tx, reporting>>,
         \A t \in Session : Live(t) => Kept(tx[t]),
         \A n \in Node : nodes'[n].bootstrap # "none" => Exists(n)'
  PROVE  Sessions'
<1>1. ASSUME NEW t \in Session, Live(t)'
      PROVE  (Shaped(tx[t]) /\ Grounded(tx[t]))'
  <2>1. Live(t) /\ tx[t] \in Tx /\ tx'[t] = tx[t]
    BY <1>1 DEF Live, Sessions
  <2> DEFINE q == tx[t]
  <2>2. Shaped(q) /\ Grounded(q) /\ Kept(q)
    BY <2>1 DEF Sessions
  <2>3. Shaped(tx[t])'
    BY <2>1, <2>2 DEF Shaped
  <2>4. ASSUME NEW p \in Tx, p = tx[t] PROVE Grounded(p)'
    BY <2>2, <2>4, Undisturbed
  <2>5. Grounded(tx[t])'
    BY <2>1, <2>4 DEF Grounded, Exists, Numbers, NextNumber, RevisionsOf, TokenHeld,
       NodeHeld, TargetHeld, ColumnsOf, Refuses
  <2> QED BY <2>3, <2>5
<1>2. \A s, t \in Session : s # t /\ Live(s)' /\ Live(t)' => Apart(tx[s], tx[t])'
  BY DEF Sessions, Live, Apart, NodeHeld, TokenHeld, TargetHeld
<1>3. reporting' = ReportsOf(tx)'
  BY DEF Sessions, ReportsOf
<1>4. tx' \in [Session -> Tx \cup {NoTx}]
  BY DEF Sessions
<1> QED BY <1>1, <1>2, <1>3, <1>4 DEF Sessions

\* A transaction commits its changes of the tables.
LEMMA CommitMoves ==
  ASSUME TypeOK, Sessions, NEW s \in Session, Live(s), End(s),
         \A t \in Session \ {s} : Live(t) => Kept(tx[t]),
         \A n \in Node : nodes'[n].bootstrap # "none" => Exists(n)'
  PROVE  Sessions'
<1>1. tx' = [tx EXCEPT ![s] = NoTx] /\ reporting' = reporting \ {tx[s].report}
  BY DEF End
<1>2. \A t \in Session : tx'[t] = IF t = s THEN NoTx ELSE tx[t]
  BY <1>1 DEF Sessions
<1>3. ASSUME NEW t \in Session, Live(t)'
      PROVE  (Shaped(tx[t]) /\ Grounded(tx[t]))'
  <2>1. t # s /\ Live(t) /\ tx[t] \in Tx /\ tx'[t] = tx[t]
    BY <1>2, <1>3 DEF Live, Sessions
  <2> DEFINE q == tx[t]
  <2>2. Shaped(q) /\ Grounded(q) /\ Kept(q)
    BY <2>1 DEF Sessions
  <2>3. Shaped(tx[t])'
    BY <2>1, <2>2 DEF Shaped
  <2>4. ASSUME NEW p \in Tx, p = tx[t] PROVE Grounded(p)'
    BY <2>2, <2>4, Undisturbed
  <2>5. Grounded(tx[t])'
    BY <2>1, <2>4 DEF Grounded, Exists, Numbers, NextNumber, RevisionsOf, TokenHeld,
       NodeHeld, TargetHeld, ColumnsOf, Refuses
  <2> QED BY <2>3, <2>5
<1>4. ASSUME NEW t \in Session, NEW u \in Session, t # u, Live(t)', Live(u)'
      PROVE  Apart(tx[t], tx[u])'
  <2>1. tx'[t] = tx[t] /\ tx'[u] = tx[u] /\ Live(t) /\ Live(u)
    BY <1>2, <1>4 DEF Live
  <2>2. Apart(tx[t], tx[u])
    BY <1>4, <2>1 DEF Sessions
  <2> QED BY <2>1, <2>2 DEF Apart, NodeHeld, TokenHeld, TargetHeld
<1>5. reporting' = ReportsOf(tx)'
  <2>1. IsReport(tx[s]) => reporting' = ReportsOf(tx)'
    BY <1>1, ReportsChange DEF IsReport
  <2>2. ~IsReport(tx[s]) => tx[s].report = <<>>
    BY DEF Sessions, Shaped, IsReport, Live
  <2>3. ~IsReport(tx[s]) => reporting' = reporting
    BY <1>1, <2>2, EmptyIsNoReport DEF TypeOK
  <2> QED BY <1>1, <2>1, <2>3, ReportsChange DEF IsReport
<1>6. tx' \in [Session -> Tx \cup {NoTx}]
  BY <1>1 DEF Sessions
<1> QED BY <1>3, <1>4, <1>5, <1>6 DEF Sessions

\* What a transaction keeps when only one row of nodes changes.
LEMMA RowChanges ==
  ASSUME TypeOK, NEW q \in Tx, Exists(q.node), NEW n \in Node, NEW row,
         nodes' = [nodes EXCEPT ![n] = row], UNCHANGED revisions,
         q.node = n => /\ row.status # "absent"
                       /\ nodes[n].registered => row.registered
                       /\ TokenHeld(q) => row.bootstrap = nodes[n].bootstrap
                       /\ NodeHeld(q) => ColumnsOf(row) = ColumnsOf(nodes[n])
  PROVE  Kept(q)
<1>1. q.node \in Node
  BY DEF Tx
<1>2. nodes'[q.node] = IF q.node = n THEN row ELSE nodes[q.node]
  BY <1>1 DEF TypeOK
<1>3. nodes'[q.node].status # "absent"
  BY <1>2 DEF Exists
<1>4. NumbersIn(revisions', q.node) = Numbers(q.node)
  BY DEF Numbers, RevisionsOf, NumbersIn
<1> QED BY <1>2, <1>3, <1>4 DEF Kept, RevisionsOf

\* Register commits.
LEMMA CommitRegisterMoves ==
  ASSUME TypeOK, Sessions, NEW s \in Session, tx[s].at = "write", CommitRegister(s), End(s)
  PROVE  Sessions'
<1>1. Live(s) /\ tx[s] \in Tx
  BY IdleOrTx DEF Sessions, Live
<1> DEFINE n == tx[s].node
           row == [nodes[n] EXCEPT !.status = "active", !.registered = TRUE,
                                   !.bootstrap = "used"]
<1>2. n \in Node /\ nodes[n] \in NodeRow
  BY <1>1 DEF TypeOK, Tx
<1>3. nodes' = [nodes EXCEPT ![n] = row] /\ UNCHANGED revisions
  BY DEF CommitRegister, TypeOK
<1>4. row.status = "active" /\ row.registered
  BY <1>2 DEF NodeRow
<1> HIDE DEF row
<1>5. NodeHeld(tx[s]) /\ TokenHeld(tx[s])
  BY DEF CommitRegister, NodeHeld, TokenHeld
<1>6. ASSUME NEW t \in Session \ {s}, Live(t)
      PROVE  Kept(tx[t])
  <2>1. tx[t] \in Tx /\ Exists(tx[t].node)
    BY <1>6 DEF Sessions, Live, Grounded
  <2>2. tx[t].node = n => ~NodeHeld(tx[t]) /\ ~TokenHeld(tx[t])
    BY <1>1, <1>5, <1>6 DEF Sessions, Apart
  <2> QED BY <1>2, <1>3, <1>4, <2>1, <2>2, RowChanges
<1>7. \A m \in Node : nodes'[m].bootstrap # "none" => Exists(m)'
  BY <1>2, <1>3, <1>4 DEF Sessions, Exists, TypeOK
<1> QED BY <1>1, <1>6, <1>7, CommitMoves

\* A transition commits.
LEMMA CommitTransitionMoves ==
  ASSUME TypeOK, Sessions, NEW s \in Session, tx[s].at = "write", CommitTransition(s), End(s)
  PROVE  Sessions'
<1>1. Live(s) /\ tx[s] \in Tx
  BY IdleOrTx DEF Sessions, Live
<1>2. tx[s].op \in Transition /\ Shaped(tx[s]) /\ Grounded(tx[s])
  BY <1>1 DEF CommitTransition, Sessions
<1> DEFINE n == tx[s].node
           status == IF tx[s].op = "disable" THEN "disabled"
                     ELSE IF tx[s].op = "enable" THEN "unhealthy"
                     ELSE tx[s].read.status
           drainState == IF tx[s].op = "drain" THEN "draining"
                         ELSE IF tx[s].op = "undrain" THEN "active"
                         ELSE tx[s].read.drainState
           row == [nodes[n] EXCEPT !.status = status, !.drainState = drainState]
<1>3. n \in Node /\ nodes[n] \in NodeRow /\ nodes[n].status # "absent"
  BY <1>1, <1>2 DEF TypeOK, Tx, Grounded, Exists
<1>4. tx[s].read = ColumnsOf(nodes[n])
  BY <1>2 DEF Shaped, Grounded
<1>5. nodes' = [nodes EXCEPT ![n] = row] /\ UNCHANGED revisions
  BY DEF CommitTransition, TypeOK
<1>6. status # "absent"
  BY <1>3, <1>4 DEF ColumnsOf
<1> HIDE DEF status, drainState
<1>7. row.status = status /\ row.registered = nodes[n].registered
      /\ row.bootstrap = nodes[n].bootstrap
  BY <1>3 DEF NodeRow
<1> HIDE DEF row
<1>8. NodeHeld(tx[s])
  BY <1>2 DEF NodeHeld, Transition
<1>9. ASSUME NEW t \in Session \ {s}, Live(t)
      PROVE  Kept(tx[t])
  <2>1. tx[t] \in Tx /\ Exists(tx[t].node)
    BY <1>9 DEF Sessions, Live, Grounded
  <2>2. tx[t].node = n => ~NodeHeld(tx[t])
    BY <1>1, <1>8, <1>9 DEF Sessions, Apart
  <2> QED BY <1>3, <1>5, <1>6, <1>7, <2>1, <2>2, RowChanges
<1>10. \A m \in Node : nodes'[m].bootstrap # "none" => Exists(m)'
  BY <1>3, <1>5, <1>6, <1>7 DEF Sessions, Exists, TypeOK
<1> QED BY <1>1, <1>9, <1>10, CommitMoves

\* A creation commits.
LEMMA CommitCreationMoves ==
  ASSUME TypeOK, Sessions, NEW s \in Session, tx[s].at = "write", CommitCreation(s), End(s)
  PROVE  Sessions'
<1>1. Live(s) /\ tx[s] \in Tx /\ tx[s].op \in Creation
  BY IdleOrTx DEF CommitCreation, Sessions, Live
<1>2. PICK row : /\ row.node = tx[s].node
                 /\ revisions' = revisions \/ revisions' = revisions \cup {row}
  <2> DEFINE created(source, config) ==
        [node |-> tx[s].node, number |-> tx[s].next, status |-> "pending",
         kind |-> tx[s].op, source |-> source,
         target |-> tx[s].read.activeRevision, config |-> config]
  <2>1. \/ revisions' = revisions
        \/ \E config : revisions' = revisions \cup {created(0, config)}
        \/ \E r : revisions' = revisions \cup {created(r.number, r.config)}
    BY DEF CommitCreation
  <2>2. \A source, config : created(source, config).node = tx[s].node
    OBVIOUS
  <2> HIDE DEF created
  <2> QED BY <2>1, <2>2
<1>3. NodeHeld(tx[s])
  BY <1>1 DEF NodeHeld, Creation
<1>4. ASSUME NEW t \in Session \ {s}, Live(t)
      PROVE  Kept(tx[t])
  <2>1. UNCHANGED nodes
    BY DEF CommitCreation
  <2>2. tx[t] \in Tx /\ Exists(tx[t].node)
    BY <1>4 DEF Sessions, Live, Grounded
  <2>3. tx[t].node = tx[s].node => ~NodeHeld(tx[t])
    BY <1>1, <1>3, <1>4 DEF Sessions, Apart
  <2>4. Numbers(tx[t].node) \subseteq NumbersIn(revisions', tx[t].node)
    BY <1>2 DEF Numbers, RevisionsOf, NumbersIn
  <2>5. NodeHeld(tx[t]) => NumbersIn(revisions', tx[t].node) = Numbers(tx[t].node)
    BY <1>2, <2>3 DEF Numbers, RevisionsOf, NumbersIn
  <2>6. \A r \in revisions : r \in revisions'
    BY <1>2
  <2> QED BY <2>1, <2>2, <2>4, <2>5, <2>6 DEF Kept, Exists, RevisionsOf
<1>5. \A m \in Node : nodes'[m].bootstrap # "none" => Exists(m)'
  BY DEF CommitCreation, Sessions, Exists
<1> QED BY <1>1, <1>4, <1>5, CommitMoves

\* The revision a report decides was pending when it was locked, so it is now.
LEMMA CommitReportDecides ==
  ASSUME Numbering, Sessions, NEW s \in Session, tx[s].at = "write", CommitReport(s)
  PROVE  \E r \in Pending(tx[s].report.node) :
           /\ r.number = tx[s].report.number
           /\ DecidesRow(r, tx[s].report.outcome)
<1>1. tx[s] \in Tx /\ tx[s].op = "report" /\ Shaped(tx[s]) /\ Grounded(tx[s])
  BY IdleOrTx DEF CommitReport, Sessions, Live
<1>2. tx[s].report \in Report /\ tx[s].report.node = tx[s].node
      /\ tx[s].report.number = tx[s].number
  BY <1>1 DEF Shaped
<1>3. PICK r \in RevisionsOf(tx[s].node) : r.number = tx[s].number /\ r.status = "pending"
  BY <1>1 DEF Grounded, TargetHeld
<1>4. PICK q \in RevisionsOf(tx[s].node) :
        /\ q.number = tx[s].number
        /\ revisions' = (revisions \ {q}) \cup
                          {[q EXCEPT !.status = tx[s].report.outcome]}
  BY <1>2 DEF CommitReport
<1>5. q = r
  BY <1>1, <1>3, <1>4 DEF Numbering, NumbersAreASequence, Tx
<1>6. DecidesRow(q, tx[s].report.outcome)
  BY <1>2, <1>3, <1>4, <1>5 DEF DecidesRow, RevisionsOf, Report
<1> QED BY <1>2, <1>3, <1>4, <1>5, <1>6 DEF Pending

\* A report's columns leave the row a row of the same node.
LEMMA ReportedRowKeeps ==
  ASSUME NEW row \in NodeRow, NEW report
  PROVE  /\ ReportedRow(row, report).status = row.status
         /\ ReportedRow(row, report).registered = row.registered
         /\ ReportedRow(row, report).bootstrap = row.bootstrap
BY DEF ReportedRow, NodeRow

\* A report commits.
LEMMA CommitReportMoves ==
  ASSUME Numbering, Sessions, NEW s \in Session, tx[s].at = "write", CommitReport(s), End(s)
  PROVE  Sessions'
<1> DEFINE report == tx[s].report
<1>1. Live(s) /\ tx[s] \in Tx /\ tx[s].op = "report" /\ Shaped(tx[s])
  BY IdleOrTx DEF CommitReport, Sessions, Live
<1>2. report.node = tx[s].node /\ report.node \in Node /\ nodes[report.node] \in NodeRow
      /\ report.number = tx[s].number
  BY <1>1 DEF Shaped, Tx, Numbering, TypeOK
<1>3. PICK r \in Pending(report.node) : r.number = report.number
                                        /\ DecidesRow(r, report.outcome)
  BY CommitReportDecides
<1>4. \A n \in Node : NumbersIn(revisions', n) = Numbers(n)
  BY <1>3, DecisionKeepsRows DEF Numbering, Numbers, RevisionsOf, NumbersIn
<1>5. \/ UNCHANGED nodes
      \/ /\ NodeHeld(tx[s])
         /\ nodes' = [nodes EXCEPT ![report.node] = ReportedRow(nodes[report.node], report)]
  BY <1>1 DEF CommitReport, Missed, NodeHeld
<1>6. TargetHeld(tx[s])
  BY <1>1 DEF TargetHeld
<1>7. ASSUME NEW t \in Session \ {s}, Live(t)
      PROVE  Kept(tx[t])
  <2>1. tx[t] \in Tx /\ Exists(tx[t].node) /\ tx[t].node \in Node
    BY <1>7 DEF Sessions, Live, Grounded, Tx
  <2>2. tx[t].node = tx[s].node =>
          /\ NodeHeld(tx[s]) => ~NodeHeld(tx[t])
          /\ tx[t].number = tx[s].number => ~TargetHeld(tx[t])
    BY <1>1, <1>6, <1>7 DEF Sessions, Apart
  <2>3. nodes'[tx[t].node].status = nodes[tx[t].node].status
        /\ nodes'[tx[t].node].registered = nodes[tx[t].node].registered
        /\ nodes'[tx[t].node].bootstrap = nodes[tx[t].node].bootstrap
    BY <1>2, <1>5, <2>1, ReportedRowKeeps DEF Numbering, TypeOK
  <2>4. NodeHeld(tx[t]) => nodes'[tx[t].node] = nodes[tx[t].node]
    BY <1>2, <1>5, <2>1, <2>2 DEF Numbering, TypeOK
  <2>5. ASSUME TargetHeld(tx[t]), NEW q \in RevisionsOf(tx[t].node), q.number = tx[t].number
        PROVE  q \in revisions'
    <3>1. q # r
      BY <1>2, <1>3, <2>2, <2>5 DEF Pending, RevisionsOf
    <3> QED BY <1>3, <3>1 DEF DecidesRow, RevisionsOf
  <2> QED BY <1>4, <2>1, <2>3, <2>4, <2>5 DEF Kept, Exists
<1>8. \A m \in Node : nodes'[m].bootstrap # "none" => Exists(m)'
  <2>1. \A m \in Node : nodes'[m].bootstrap = nodes[m].bootstrap
                       /\ nodes'[m].status = nodes[m].status
    BY <1>2, <1>5, ReportedRowKeeps DEF Numbering, TypeOK
  <2> QED BY <2>1 DEF Sessions, Exists
<1> QED BY <1>1, <1>7, <1>8, CommitMoves DEF Numbering

\* A request of one statement.
LEMMA SingleStatementMoves ==
  ASSUME TypeOK, Sessions, NEW n \in Node, SingleStatement(n)
  PROVE  Sessions'
<1>1. nodes[n] \in NodeRow
  BY DEF TypeOK
<1>2. ASSUME NEW row, nodes' = [nodes EXCEPT ![n] = row], UNCHANGED <<tx, revisions, reporting>>,
             row.status # "absent",
             \A t \in Session : Live(t) /\ tx[t].node = n =>
               /\ row.registered = nodes[n].registered
               /\ row.bootstrap = nodes[n].bootstrap
               /\ NodeHeld(tx[t]) => ColumnsOf(row) = ColumnsOf(nodes[n])
      PROVE  Sessions'
  <2>1. ASSUME NEW t \in Session, Live(t) PROVE Kept(tx[t])
    <3>1. tx[t] \in Tx /\ Exists(tx[t].node)
      BY <2>1 DEF Sessions, Live, Grounded
    <3> QED BY <1>2, <2>1, <3>1, RowChanges
  <2>2. \A m \in Node : nodes'[m].bootstrap # "none" => Exists(m)'
    BY <1>2 DEF Sessions, Exists, TypeOK
  <2> QED BY <1>2, <2>1, <2>2, TablesMove
<1>3. CASE CreateBootstrapToken(n)
  <2> DEFINE row == [NoRow EXCEPT !.status = "pending", !.bootstrap = "active"]
  <2>1. row.status = "pending"
    BY DEF NoRow
  <2>2. nodes' = [nodes EXCEPT ![n] = row] /\ UNCHANGED <<tx, revisions, reporting>>
        /\ ~Exists(n)
    BY <1>3 DEF CreateBootstrapToken, SingleStatement
  <2>3. \A t \in Session : Live(t) => tx[t].node # n
    BY <2>2 DEF Sessions, Grounded
  <2> HIDE DEF row
  <2> QED BY <1>2, <2>1, <2>2, <2>3
<1>4. CASE BootstrapTokenExpires(n)
  <2> DEFINE row == [nodes[n] EXCEPT !.expired = TRUE]
  <2>1. nodes' = [nodes EXCEPT ![n] = row] /\ UNCHANGED <<tx, revisions, reporting>>
        /\ nodes[n].bootstrap = "active"
    BY <1>4 DEF BootstrapTokenExpires, SingleStatement
  <2>2. row.status = nodes[n].status /\ row.registered = nodes[n].registered
        /\ row.bootstrap = nodes[n].bootstrap /\ ColumnsOf(row) = ColumnsOf(nodes[n])
    BY <1>1 DEF NodeRow, ColumnsOf
  <2>3. nodes[n].status # "absent"
    BY <2>1 DEF Sessions, Exists
  <2> HIDE DEF row
  <2> QED BY <1>2, <2>1, <2>2, <2>3
<1>5. CASE NodeFree(n) /\ HeartbeatStep(n)
  <2>1. PICK holder \in Node, st \in ReportedStatus, active \in ReportedRevision,
             metadata \in BOOLEAN, applied \in ReportedRevision, state \in ReportedState :
          RecordHeartbeat(n, holder, st, active, metadata, applied, state)
    BY <1>5 DEF HeartbeatStep
  <2> DEFINE newStatus  == IF nodes[n].drainState = "drained" THEN "drained" ELSE st
             newApplied == IF metadata THEN applied ELSE nodes[n].lastApplied
             newState   == IF metadata THEN state ELSE nodes[n].runtimeState
             row == [nodes[n] EXCEPT !.status = newStatus, !.activeRevision = active,
                       !.lastApplied = newApplied, !.runtimeState = newState]
  <2>2. newStatus # "absent"
    BY PanelAssumption DEF NodeStatus
  <2>3. nodes' = [nodes EXCEPT ![n] = row] /\ UNCHANGED <<tx, revisions, reporting>>
    BY <2>1 DEF RecordHeartbeat, SingleStatement
  <2> HIDE DEF newStatus, newApplied, newState
  <2>4. row.registered = nodes[n].registered /\ row.bootstrap = nodes[n].bootstrap
        /\ row.status # "absent"
    BY <1>1, <2>2 DEF NodeRow
  <2>5. \A t \in Session : Live(t) /\ tx[t].node = n => ~NodeHeld(tx[t])
    BY <1>5, LocksAre DEF NodeFree, Sessions
  <2> HIDE DEF row
  <2> QED BY <1>2, <2>3, <2>4, <2>5
<1> QED BY <1>3, <1>4, <1>5 DEF SingleStatement

-----------------------------------------------------------------------------
(* What the statements do to the tables *)

\* Register, for a token that was good when the request began.
LateRegister(n) ==
  /\ nodes[n].bootstrap = "active"
  /\ nodes[n].status \in {"pending", "active", "unhealthy", "drained"}
  /\ nodes' = [nodes EXCEPT ![n].status = "active",
                            ![n].registered = TRUE,
                            ![n].bootstrap = "used"]
  /\ registrations' = [registrations EXCEPT ![n] = @ + 1]
  /\ UNCHANGED <<revisions, reporting>>

\* PanelNodes' bound on open reports leaves room for every session's.
LEMMA RoomForReport ==
  ASSUME Sessions, NEW s \in Session, tx[s] = NoTx
  PROVE  Cardinality(reporting) < MaxReports
<1> DEFINE T == {t \in Session : tx[t] # NoTx /\ tx[t].op = "report"}
           f == [t \in T |-> tx[t].report]
<1>1. IsFiniteSet(Session \ {s}) /\ Cardinality(Session \ {s}) = Cardinality(Session) - 1
      /\ Cardinality(Session) \in Nat
  BY SessionAssumption, FS_RemoveElement, FS_CardinalityType
<1>2. T \in SUBSET (Session \ {s})
  OBVIOUS
<1>3. IsFiniteSet(T) /\ Cardinality(T) <= Cardinality(Session) - 1 /\ Cardinality(T) \in Nat
  BY <1>1, <1>2, FS_Subset, FS_CardinalityType
<1>4. f \in Surjection(T, reporting)
  BY DEF Surjection, Sessions, ReportsOf
<1>5. Cardinality(reporting) <= Cardinality(T) /\ Cardinality(reporting) \in Nat
  BY <1>3, <1>4, FS_Surjection, FS_CardinalityType
<1> QED BY <1>1, <1>3, <1>5, SessionAssumption, PanelAssumption

\* The end of a transaction that changed nothing is the end of a report, or nothing.
LEMMA EndIsAbort ==
  ASSUME TypeOK, Sessions, NEW s \in Session, Live(s), End(s),
         UNCHANGED <<nodes, revisions, registrations>>
  PROVE  \/ UNCHANGED vars
         \/ /\ tx[s].op = "report" /\ tx[s].report \in reporting
            /\ ReportAbort(tx[s].report)
<1>1. reporting' = reporting \ {tx[s].report}
  BY DEF End
<1>2. CASE tx[s].op = "report"
  <2>1. tx[s].report \in reporting
    BY <1>2 DEF Sessions, ReportsOf, Live
  <2> QED BY <1>1, <1>2, <2>1 DEF ReportAbort
<1>3. CASE tx[s].op # "report"
  <2>1. tx[s].report = <<>>
    BY <1>3 DEF Sessions, Shaped
  <2>2. reporting' = reporting
    BY <1>1, <2>1, EmptyIsNoReport DEF TypeOK
  <2> QED BY <2>2 DEF vars
<1> QED BY <1>2, <1>3

\* The end of a transaction other than a report leaves the reports alone.
LEMMA EndKeepsReports ==
  ASSUME TypeOK, Sessions, NEW s \in Session, Live(s), End(s), tx[s].op # "report"
  PROVE  UNCHANGED reporting
<1>1. reporting' = reporting \ {tx[s].report}
  BY DEF End
<1>2. tx[s].report = <<>>
  BY DEF Sessions, Shaped
<1> QED BY <1>1, <1>2, EmptyIsNoReport DEF TypeOK

\* The beginning of a request is the beginning of a report, or nothing.
LEMMA BeginIs ==
  ASSUME Sessions, NEW s \in Session, Begin(s)
  PROVE  UNCHANGED vars \/ ReportStep
<1>1. \A n \in Node : BeginRegister(s, n) \/ BeginTransition(s, n) \/ BeginCreation(s, n)
        => UNCHANGED vars
  BY DEF BeginRegister, BeginTransition, BeginCreation, Open, vars
<1>2. ASSUME NEW report, NEW holder, BeginReport(s, report, holder)
      PROVE  ReportBegin(report, holder)
  <2>1. tx[s] = NoTx
    BY <1>2 DEF BeginReport, Open
  <2> QED BY <1>2, <2>1, RoomForReport DEF BeginReport, ReportBegin, Open
<1>3. ASSUME NEW n \in Node, NEW holder \in Node, NEW number \in 1..MaxRevision,
             NEW outcome \in Outcome, NEW applied \in ReportedRevision,
             NEW state \in ReportedState,
             BeginReport(s, [node |-> n, number |-> number, outcome |-> outcome,
                             lastApplied |-> applied, runtimeState |-> state,
                             missed |-> FALSE], holder)
      PROVE  ReportStep
  BY <1>2, <1>3 DEF ReportStep
<1> QED BY <1>1, <1>3, Zenon DEF Begin

\* A statement that is not the last one changes no table: the second UPDATE of a
\* report that finds no row is seen.
LEMMA StatementIs ==
  ASSUME TablesInv, Sessions, NEW s \in Session,
         \/ LockToken(s) \/ LockRevision(s) \/ LockNode(s) \/ UpdateRegistered(s)
         \/ UpdateReported(s) \/ LockSource(s) \/ ReadNumber(s)
  PROVE  \/ UNCHANGED vars
         \/ End(s) /\ UNCHANGED <<nodes, revisions, registrations>>
         \/ ReportStep /\ tx[s].op = "report" /\ UNCHANGED <<nodes, revisions, registrations>>
<1>1. CASE LockToken(s)
  BY <1>1 DEF LockToken, vars
<1>2. CASE LockRevision(s)
  BY <1>2 DEF LockRevision, vars
<1>3. CASE LockNode(s)
  BY <1>3 DEF LockNode, vars
<1>4. CASE UpdateRegistered(s)
  BY <1>4 DEF UpdateRegistered, vars
<1>5. CASE LockSource(s)
  BY <1>5 DEF LockSource, vars
<1>6. CASE ReadNumber(s)
  BY <1>6 DEF ReadNumber, vars
<1>7. CASE UpdateReported(s) /\ Matches(s)
  BY <1>7 DEF UpdateReported, vars
<1>8. CASE UpdateReported(s) /\ ~Matches(s)
  <2> DEFINE report == tx[s].report
  <2>1. Live(s) /\ tx[s].at = "node" /\ tx[s].op = "report" /\ Shaped(tx[s]) /\ Grounded(tx[s])
    BY <1>8, IdleOrTx DEF UpdateReported, Sessions, Live, NoTx
  <2>2. report \in reporting /\ ~report.missed /\ report.node = tx[s].node
    BY <2>1 DEF Sessions, ReportsOf, Live, Shaped
  <2>3. nodes[report.node].status = "disabled"
    BY <1>8, <2>1, <2>2 DEF Matches, Grounded
  <2>4. ReportMisses(report)
    BY <1>8, <2>2, <2>3 DEF UpdateReported, ReportMisses
  <2> QED BY <1>8, <2>1, <2>2, <2>4 DEF ReportStep, UpdateReported
<1> QED BY <1>1, <1>2, <1>3, <1>4, <1>5, <1>6, <1>7, <1>8

\* What commits: each operation as PanelNodes has it.
LEMMA CommitIs ==
  ASSUME TablesInv, Sessions, NEW s \in Session, Commit(s)
  PROVE  LET n == tx[s].node
         IN  \/ UNCHANGED vars /\ tx[s].op \in Creation
             \/ tx[s].op = "register" /\ LateRegister(n)
             \/ /\ tx[s].op \in Transition \cup Creation
                /\ \/ Drain(n) \/ Undrain(n) \/ Disable(n) \/ Enable(n)
                   \/ \E config \in Config : CreateDummyConfigRevision(n, config)
                   \/ \E r \in RevisionsOf(n) : CreateRollbackConfigRevision(n, r)
             \/ /\ tx[s].op = "report" /\ tx[s].report \in reporting
                /\ ReportCommit(tx[s].report)
<1> DEFINE n == tx[s].node
<1>1. Live(s) /\ tx[s] \in Tx /\ tx[s].at = "write" /\ Shaped(tx[s]) /\ Grounded(tx[s])
      /\ End(s)
  BY IdleOrTx DEF Commit, Sessions, Live
<1>2. n \in Node /\ nodes[n] \in NodeRow /\ nodes[n].status # "absent" /\ TypeOK
  BY <1>1 DEF TablesInv, Numbering, TypeOK, Tx, Grounded, Exists
<1>3. CASE CommitRegister(s)
  <2>1. tx[s].op = "register" /\ UNCHANGED reporting
    BY <1>1, <1>2, <1>3, EndKeepsReports DEF CommitRegister
  <2>2. nodes[n].bootstrap = "active" /\ nodes[n].status # "disabled"
    BY <1>1, <2>1 DEF Grounded, TokenHeld, NodeHeld
  <2>3. nodes[n].status \in {"pending", "active", "unhealthy", "drained"}
    BY <1>2, <2>2 DEF NodeRow, NodeStatus
  <2> QED BY <1>3, <2>1, <2>2, <2>3 DEF CommitRegister, LateRegister
<1>4. CASE CommitTransition(s)
  <2>1. tx[s].op \in Transition /\ UNCHANGED <<revisions, registrations, reporting>>
    BY <1>1, <1>2, <1>4, EndKeepsReports DEF CommitTransition, Transition
  <2>2. tx[s].read = ColumnsOf(nodes[n]) /\ ~Refuses(tx[s].op, nodes[n])
    BY <1>1, <2>1 DEF Shaped, Grounded
  <2>3. tx[s].read.status = nodes[n].status /\ tx[s].read.drainState = nodes[n].drainState
    BY <2>2 DEF ColumnsOf
  <2>4. nodes' = [nodes EXCEPT ![n] = [nodes[n] EXCEPT
                   !.status = IF tx[s].op = "disable" THEN "disabled"
                              ELSE IF tx[s].op = "enable" THEN "unhealthy"
                              ELSE nodes[n].status,
                   !.drainState = IF tx[s].op = "drain" THEN "draining"
                                  ELSE IF tx[s].op = "undrain" THEN "active"
                                  ELSE nodes[n].drainState]]
    BY <1>4, <2>3 DEF CommitTransition, TablesInv, Numbering, TypeOK
  <2>5. CASE tx[s].op = "drain"
    <3>1. nodes' = [nodes EXCEPT ![n] = [nodes[n] EXCEPT !.drainState = "draining"]]
      BY <1>2, <2>4, <2>5 DEF NodeRow
    <3> QED BY <1>2, <2>1, <2>2, <2>5, <3>1 DEF Drain, Refuses, Exists
  <2>6. CASE tx[s].op = "undrain"
    <3>1. nodes' = [nodes EXCEPT ![n] = [nodes[n] EXCEPT !.drainState = "active"]]
      BY <1>2, <2>4, <2>6 DEF NodeRow
    <3> QED BY <1>2, <2>1, <2>2, <2>6, <3>1 DEF Undrain, Refuses, Exists
  <2>7. CASE tx[s].op = "disable"
    <3>1. nodes' = [nodes EXCEPT ![n] = [nodes[n] EXCEPT !.status = "disabled"]]
      BY <1>2, <2>4, <2>7 DEF NodeRow
    <3> QED BY <1>2, <2>1, <2>2, <2>7, <3>1 DEF Disable, Refuses, Exists
  <2>8. CASE tx[s].op = "enable"
    <3>1. nodes' = [nodes EXCEPT ![n] = [nodes[n] EXCEPT !.status = "unhealthy"]]
      BY <1>2, <2>4, <2>8 DEF NodeRow
    <3> QED BY <1>2, <2>1, <2>2, <2>8, <3>1 DEF Enable, Refuses
  <2> QED BY <2>1, <2>5, <2>6, <2>7, <2>8 DEF Transition
<1>5. CASE CommitCreation(s)
  <2>1. tx[s].op \in Creation /\ UNCHANGED <<nodes, registrations, reporting>>
    BY <1>1, <1>2, <1>5, EndKeepsReports DEF CommitCreation, Creation
  <2>2. tx[s].read = ColumnsOf(nodes[n]) /\ ~Refuses(tx[s].op, nodes[n])
        /\ tx[s].next = NextNumber(n) /\ tx[s].next <= MaxRevision
    BY <1>1, <2>1 DEF Shaped, Grounded
  <2>3. tx[s].read.activeRevision = nodes[n].activeRevision
    BY <2>2 DEF ColumnsOf
  <2>4. AcceptsRevisions(n)
    BY <1>2, <2>1, <2>2 DEF AcceptsRevisions, Refuses, Exists, Creation
  <2>5. CASE UNCHANGED revisions
    BY <2>1, <2>5 DEF vars
  <2>6. ASSUME tx[s].op = "deploy", NEW config \in Config,
               revisions' = revisions \cup
                 {[node |-> n, number |-> tx[s].next, status |-> "pending",
                   kind |-> tx[s].op, source |-> 0,
                   target |-> tx[s].read.activeRevision, config |-> config]}
        PROVE  CreateDummyConfigRevision(n, config)
    BY <2>1, <2>2, <2>3, <2>4, <2>6 DEF CreateDummyConfigRevision, Insert
  <2>7. ASSUME tx[s].op = "rollback", NEW r \in RevisionsOf(n), r.number = tx[s].number,
               revisions' = revisions \cup
                 {[node |-> n, number |-> tx[s].next, status |-> "pending",
                   kind |-> tx[s].op, source |-> r.number,
                   target |-> tx[s].read.activeRevision, config |-> r.config]}
        PROVE  CreateRollbackConfigRevision(n, r)
    <3>1. TargetHeld(tx[s])
      BY <1>1, <2>7 DEF TargetHeld
    <3>2. PICK q \in RevisionsOf(n) : q.number = tx[s].number /\ q.status = "applied"
      BY <1>1, <2>7, <3>1 DEF Grounded
    <3>3. q = r
      BY <1>2, <2>7, <3>2 DEF TablesInv, Numbering, NumbersAreASequence
    <3> QED BY <2>1, <2>2, <2>3, <2>4, <2>7, <3>2, <3>3
         DEF CreateRollbackConfigRevision, Insert
  <2> QED BY <1>5, <2>1, <2>5, <2>6, <2>7 DEF CommitCreation
<1>6. CASE CommitReport(s)
  <2> DEFINE report == tx[s].report
  <2>1. tx[s].op = "report" /\ reporting' = reporting \ {report} /\ UNCHANGED registrations
    BY <1>1, <1>6 DEF CommitReport, End
  <2>2. report \in reporting /\ report.node = n
    BY <1>1, <2>1 DEF Sessions, ReportsOf, Live, Shaped
  <2>3. \E r \in Pending(report.node) :
          /\ r.number = report.number
          /\ revisions' = (revisions \ {r}) \cup {[r EXCEPT !.status = report.outcome]}
    BY <1>1, <1>6, CommitReportDecides DEF TablesInv, DecidesRow
  <2>4. nodes' = IF nodes[report.node].status = "disabled" \/ report.missed THEN nodes
                 ELSE [nodes EXCEPT ![report.node] = ReportedRow(@, report)]
    BY <1>1, <1>6, <2>1, <2>2 DEF CommitReport, Missed, Grounded, NodeHeld
  <2> QED BY <2>1, <2>2, <2>3, <2>4 DEF ReportCommit
<1> QED BY <1>3, <1>4, <1>5, <1>6 DEF Commit

\* Whatever runs next, the tables change by a step of PanelNodes, by a Register
\* whose token was good when it began, or not at all.
LEMMA StepsAre ==
  ASSUME TablesInv, Sessions, TxNext
  PROVE  UNCHANGED vars \/ Next \/ \E n \in Node : LateRegister(n)
<1>1. TypeOK
  BY DEF TablesInv, Numbering
<1>2. ASSUME NEW n \in Node, SingleStatement(n)
      PROVE  Next
  BY <1>2 DEF SingleStatement, Next, NodeStep
<1>3. ASSUME NEW s \in Session, Live(s), End(s),
             UNCHANGED <<nodes, revisions, registrations>>
      PROVE  UNCHANGED vars \/ Next
  BY <1>1, <1>3, EndIsAbort DEF Next, ReportStep
<1>4. ASSUME NEW s \in Session, Begin(s)
      PROVE  UNCHANGED vars \/ Next
  BY <1>4, BeginIs DEF Next
<1>5. ASSUME NEW s \in Session, Commit(s)
      PROVE  UNCHANGED vars \/ Next \/ \E n \in Node : LateRegister(n)
  <2>1. tx[s].node \in Node
    BY <1>5 DEF Commit, Sessions, Tx, NoTx
  <2> QED BY <1>5, <2>1, CommitIs DEF Next, NodeStep, ReportStep
<1>6. ASSUME NEW s \in Session, Statement(s)
      PROVE  UNCHANGED vars \/ Next \/ \E n \in Node : LateRegister(n)
  <2>1. CASE Commit(s)
    BY <1>5, <2>1
  <2>2. CASE ~Commit(s)
    <3>1. Live(s)
      BY <1>6, <2>2, IdleOrTx DEF Statement, LockToken, LockRevision, LockNode,
         UpdateRegistered, UpdateReported, LockSource, ReadNumber, Live
    <3>2. \/ UNCHANGED vars
          \/ End(s) /\ UNCHANGED <<nodes, revisions, registrations>>
          \/ ReportStep
      BY <1>6, <2>2, StatementIs DEF Statement
    <3> QED BY <1>3, <3>1, <3>2 DEF Next
  <2> QED BY <2>1, <2>2
<1>7. ASSUME NEW s \in Session, DeadlockDetected(s) \/ Abort(s)
      PROVE  UNCHANGED vars \/ Next
  <2>1. Live(s)
    BY <1>7, IdleOrTx DEF DeadlockDetected, Abort, WaitsFor, Live
  <2> QED BY <1>3, <1>7, <2>1 DEF DeadlockDetected, Abort
<1> QED BY <1>2, <1>4, <1>6, <1>7 DEF TxNext

\* Every statement keeps what the transactions rest on.
LEMMA SessionsStep ==
  ASSUME TablesInv, Sessions, TxNext
  PROVE  Sessions'
<1>1. TypeOK /\ Numbering
  BY DEF TablesInv, Numbering
<1>2. ASSUME NEW n \in Node, SingleStatement(n)
      PROVE  Sessions'
  BY <1>1, <1>2, SingleStatementMoves
<1>3. ASSUME NEW s \in Session, Begin(s)
      PROVE  Sessions'
  BY <1>3, BeginMoves
<1>4. ASSUME NEW s \in Session, Statement(s)
      PROVE  Sessions'
  <2>1. CASE Commit(s)
    BY <1>1, <2>1, CommitRegisterMoves, CommitTransitionMoves, CommitCreationMoves,
       CommitReportMoves DEF Commit
  <2> QED BY <1>1, <1>4, <2>1, LockTokenMoves, LockRevisionMoves, LockNodeMoves,
             UpdateRegisteredMoves, UpdateReportedMoves, LockSourceMoves,
             ReadNumberMoves DEF Statement
<1>5. ASSUME NEW s \in Session, DeadlockDetected(s) \/ Abort(s)
      PROVE  Sessions'
  <2>1. Live(s)
    BY <1>5, IdleOrTx DEF DeadlockDetected, Abort, WaitsFor, Live
  <2> QED BY <1>1, <1>5, <2>1, EndMoves DEF DeadlockDetected, Abort
<1> QED BY <1>2, <1>3, <1>4, <1>5 DEF TxNext

\* A late registration keeps the tables right.
LEMMA LateRegisterKeeps ==
  ASSUME TablesInv, NEW n \in Node, LateRegister(n)
  PROVE  TablesInv'
<1> DEFINE row == [nodes[n] EXCEPT !.status = "active", !.registered = TRUE,
                                   !.bootstrap = "used"]
<1>1. nodes[n] \in NodeRow /\ TypeOK /\ Registered(nodes[n], registrations[n])
      /\ nodes[n].bootstrap = "active"
  BY RegistrationRows DEF TablesInv, Registration, TypeOK, LateRegister
<1>2. nodes' = [nodes EXCEPT ![n] = row]
      /\ registrations' = [registrations EXCEPT ![n] = registrations[n] + 1]
      /\ UNCHANGED <<revisions, reporting>>
  BY DEF LateRegister, TablesInv, Numbering, TypeOK
<1>3. row \in NodeRow /\ row.registered /\ row.bootstrap = "used" /\ row.status = "active"
  BY <1>1 DEF NodeRow, NodeStatus
<1> HIDE DEF row
<1>4. registrations[n] = 0
  BY <1>1 DEF Registered
<1>5. TypeOK'
  BY <1>1, <1>2, <1>3 DEF TypeOK
<1>6. NumbersAreASequence'
  BY <1>2 DEF TablesInv, Numbering, NumbersAreASequence, Numbers, RevisionsOf
<1>7. \A m \in Node : Registered(nodes'[m], registrations'[m])
                     /\ (nodes[m].registered => nodes'[m].registered)
                     /\ (m # n => nodes'[m] = nodes[m])
  BY <1>1, <1>2, <1>3, <1>4, RegistrationRows DEF TablesInv, Registered, TypeOK
<1>8. UnregisteredIsInert'
  BY <1>2, <1>3, <1>5, <1>7, RegistrationRows DEF TablesInv, TypeOK,
     UnregisteredIsInert, Pending, RevisionsOf, Report, Registered
<1> QED BY <1>5, <1>6, <1>7, <1>8 DEF TablesInv, Numbering, Registration,
           TokenRegistersOnce, AbsentIsUnregistered, Registered, Exists

\* The invariant holds of the empty tables.
LEMMA TxInvInit == TxInit => TxInv
<1> SUFFICES ASSUME TxInit PROVE TxInv
  OBVIOUS
<1>1. TablesInv
  BY NumberingInit, RegistrationInit DEF TablesInv, TxInit
<1>2. \A s \in Session : tx[s] = NoTx
  BY DEF TxInit
<1>3. reporting = ReportsOf(tx)
  BY <1>2 DEF TxInit, Init, ReportsOf
<1>4. \A n \in Node : nodes[n].bootstrap = "none"
  BY DEF TxInit, Init, NoRow
<1>5. tx \in [Session -> Tx \cup {NoTx}]
  BY DEF TxInit
<1> QED BY <1>1, <1>2, <1>3, <1>4, <1>5 DEF TxInv, Sessions, Live

\* Every step keeps the invariant.
LEMMA TxInvStep == TxInv /\ [TxNext]_txVars => TxInv'
<1> SUFFICES ASSUME TxInv, [TxNext]_txVars PROVE TxInv'
  OBVIOUS
<1>1. CASE TxNext
  <2>1. Sessions'
    BY <1>1, SessionsStep DEF TxInv
  <2>2. TablesInv'
    <3>1. [Next]_vars => TablesInv'
      BY NumberingStep, RegistrationStep DEF TxInv, TablesInv
    <3> QED BY <1>1, <3>1, StepsAre, LateRegisterKeeps DEF TxInv
  <2> QED BY <2>1, <2>2 DEF TxInv
<1>2. CASE UNCHANGED txVars
  <2>1. TablesInv'
    BY <1>2, NumberingStep, RegistrationStep DEF TxInv, TablesInv, txVars
  <2>2. UNCHANGED <<tx, reporting, nodes, revisions>>
    BY <1>2 DEF txVars, vars
  <2>3. ASSUME NEW t \in Session, Live(t) PROVE Kept(tx[t])
    <3>1. tx[t] \in Tx /\ Exists(tx[t].node)
      BY <2>3 DEF TxInv, Sessions, Live, Grounded
    <3> QED BY <2>2, <3>1 DEF Kept, Exists, NumbersIn, Numbers, RevisionsOf
  <2>4. Sessions'
    BY <2>2, <2>3, TablesMove DEF TxInv, Sessions, Exists
  <2> QED BY <2>1, <2>4 DEF TxInv
<1> QED BY <1>1, <1>2

\* The transactions are apart and grounded at all times.
LEMMA TxCorrect == TxSpec => []TxInv
BY TxInvInit, TxInvStep, PTL DEF TxSpec

-----------------------------------------------------------------------------
(* What follows *)

\* Tables and sessions keep their types, and a report is under way for as long as
\* its transaction is.
THEOREM StatementTypes == TxSpec => []TxTypeOK
<1>1. TxInv => TxTypeOK
  <2> SUFFICES ASSUME TxInv PROVE TxTypeOK
    OBVIOUS
  <2>1. TypeOK
    BY DEF TxInv, TablesInv, Numbering
  <2> QED BY <2>1 DEF TxInv, Sessions, ReportsOf, TxTypeOK
<1> QED BY <1>1, TxCorrect, PTL

\* What a transaction read under the lock of its node is what it would read at
\* its commit: its row is not written by anybody else.
THEOREM ReadsCurrent == TxSpec => []ReadsStayCurrent
<1>1. TxInv => ReadsStayCurrent
  BY DEF TxInv, Sessions, Grounded, Live, ReadsStayCurrent
<1> QED BY <1>1, TxCorrect, PTL

\* A transaction waits only for one that is further in the order in which rows
\* are locked, but for a rollback and the report of its target.
THEOREM DeadlocksAre == TxSpec => []OnlyReportAndRollbackDeadlock
<1>1. ASSUME TxInv, NEW s \in Session, NEW t \in Session, WaitsFor(s, t)
      PROVE  \/ Rank[tx[s].at] < Rank[tx[t].at]
             \/ /\ tx[s].op = "rollback" /\ tx[t].op = "report"
                /\ tx[s].number = tx[t].number
  <2>1. Live(s) /\ Live(t) /\ tx[s] \in Tx /\ tx[t] \in Tx
    BY <1>1, IdleOrTx DEF WaitsFor, TxInv, Sessions, Live
  <2>2. Shaped(tx[s]) /\ Shaped(tx[t])
    BY <2>1, <1>1 DEF TxInv, Sessions
  <2>3. tx[s].at = "source" => tx[s].op = "rollback"
    BY <2>1, <2>2, Kinds
  <2>4. CASE tx[s].at = "token" /\ HoldsToken(t)
    BY <2>4 DEF HoldsToken, Rank
  <2>5. CASE tx[s].at = "node" /\ HoldsNode(t)
    BY <2>5 DEF HoldsNode, Rank
  <2>6. ASSUME tx[s].at \in {"source", "revision"}, NEW r, r.number = tx[s].number,
               HoldsRevision(t, r)
        PROVE  \/ Rank[tx[s].at] < Rank[tx[t].at]
               \/ /\ tx[s].op = "rollback" /\ tx[t].op = "report"
                  /\ tx[s].number = tx[t].number
    BY <2>3, <2>6 DEF HoldsRevision, Rank
  <2> QED BY <1>1, <2>4, <2>5, <2>6 DEF WaitsFor
<1>2. TxInv => OnlyReportAndRollbackDeadlock
  BY <1>1 DEF OnlyReportAndRollbackDeadlock
<1> QED BY <1>2, TxCorrect, PTL

-----------------------------------------------------------------------------
(* Deadlocks *)

\* Transactions each of which waits for another of them.
Stuck(C) == C # {} /\ \A s \in C : \E t \in C : WaitsFor(s, t)

\* Any deadlock, of however many transactions, is one of two that wait for each
\* other: DeadlockDetected, which looks for two, looks for all there are.
DeadlocksArePairs ==
  \A C \in SUBSET Session : Stuck(C) => \E s, t \in C : WaitsFor(s, t) /\ WaitsFor(t, s)

\* While requests are under way the next statement of one of them waits for nobody,
\* or two wait for each other and the server ends one.
SomebodyGoesOn ==
  (\E s \in Session : tx[s] # NoTx) =>
    \/ \E s \in Session : tx[s] # NoTx /\ CanRun(s)
    \/ \E s, t \in Session : WaitsFor(s, t) /\ WaitsFor(t, s)

\* Whoever waits is at one of four statements, and for whom it waits.
LEMMA WhoWaits ==
  ASSUME TxInv, NEW s \in Session, NEW t \in Session, WaitsFor(s, t)
  PROVE  /\ s # t /\ Live(s) /\ Live(t) /\ tx[s].node = tx[t].node
         /\ \/ tx[s].at = "token" /\ tx[t].at \in {"node", "write"}
            \/ tx[s].at = "node" /\ NodeHeld(tx[t])
            \/ /\ tx[s].at \in {"source", "revision"}
               /\ \/ tx[t].at \in {"node", "write"} /\ tx[t].op = "report"
                  \/ tx[t].at \in {"number", "write"}
<1>1. Live(s) /\ Live(t) /\ s # t /\ tx[s].node = tx[t].node
  BY IdleOrTx DEF WaitsFor, TxInv, Sessions, Live
<1>2. HoldsNode(t) <=> NodeHeld(tx[t])
  BY <1>1, LocksAre DEF TxInv, Sessions
<1>3. \A r : HoldsRevision(t, r) =>
        \/ tx[t].at \in {"node", "write"} /\ tx[t].op = "report"
        \/ tx[t].at \in {"number", "write"}
  BY DEF HoldsRevision
<1> QED BY <1>1, <1>2, <1>3 DEF WaitsFor, HoldsToken

\* A rollback among the stuck waits for a report, and that one for the node the
\* rollback holds.
LEMMA StuckRollback ==
  ASSUME TxInv, NEW C \in SUBSET Session, Stuck(C), NEW s \in C, tx[s].at = "source"
  PROVE  \E t \in C : WaitsFor(s, t) /\ WaitsFor(t, s)
<1>1. PICK t \in C : WaitsFor(s, t)
  BY DEF Stuck
<1>2. PICK u \in C : WaitsFor(t, u)
  BY DEF Stuck
<1>3. tx[t].at = "node" /\ NodeHeld(tx[u])
  BY <1>1, <1>2, WhoWaits DEF NodeHeld
<1>4. tx[u].node = tx[s].node /\ Live(u) /\ Live(s)
  BY <1>1, <1>2, WhoWaits
<1>5. NodeHeld(tx[s])
  BY DEF NodeHeld
<1>6. u = s
  BY <1>3, <1>4, <1>5 DEF TxInv, Sessions, Apart
<1> QED BY <1>1, <1>2, <1>6

\* And there is a rollback among the stuck: a transaction that waits for a token or
\* a revision waits for one at its node row, that one for a holder of the node, and
\* of these only a rollback at its source waits.
LEMMA StuckHaveRollback ==
  ASSUME TxInv, NEW C \in SUBSET Session, Stuck(C)
  PROVE  \E s \in C : tx[s].at = "source"
<1>1. ASSUME NEW s \in C, tx[s].at = "node"
      PROVE  \E t \in C : tx[t].at = "source"
  <2>1. PICK t \in C : WaitsFor(s, t)
    BY DEF Stuck
  <2>2. PICK u \in C : WaitsFor(t, u)
    BY DEF Stuck
  <2>3. NodeHeld(tx[t])
    BY <1>1, <2>1, WhoWaits
  <2>4. tx[t].at = "source"
    BY <2>2, <2>3, WhoWaits DEF NodeHeld
  <2> QED BY <2>4
<1>2. ASSUME NEW s \in C, tx[s].at \in {"token", "revision"}
      PROVE  \E t \in C : tx[t].at = "source"
  <2>1. PICK t \in C : WaitsFor(s, t)
    BY DEF Stuck
  <2>2. PICK u \in C : WaitsFor(t, u)
    BY DEF Stuck
  <2>3. tx[t].at = "node"
    BY <1>2, <2>1, <2>2, WhoWaits
  <2> QED BY <1>1, <2>3
<1>3. PICK s \in C, t \in C : WaitsFor(s, t)
  BY DEF Stuck
<1>4. tx[s].at \in {"token", "node", "source", "revision"}
  BY <1>3, WhoWaits
<1> QED BY <1>1, <1>2, <1>4

\* PostgreSQL's deadlock detector ends cycles of any length; this says that there are
\* none longer than two, and so that DeadlockDetected leaves nobody waiting in a
\* cycle.
THEOREM OnlyPairsDeadlock == TxSpec => [](DeadlocksArePairs /\ SomebodyGoesOn)
<1>1. TxInv => DeadlocksArePairs
  BY StuckRollback, StuckHaveRollback DEF DeadlocksArePairs
<1>2. ASSUME TxInv, NEW r \in Session, tx[r] # NoTx
      PROVE  \/ \E s \in Session : tx[s] # NoTx /\ CanRun(s)
             \/ \E s, t \in Session : WaitsFor(s, t) /\ WaitsFor(t, s)
  <2> SUFFICES ASSUME \A s \in Session : tx[s] # NoTx => ~CanRun(s)
               PROVE  \E s, t \in Session : WaitsFor(s, t) /\ WaitsFor(t, s)
    OBVIOUS
  <2> DEFINE C == {s \in Session : Live(s)}
  <2>1. ASSUME NEW s \in C
        PROVE  \E t \in C : WaitsFor(s, t)
    <3>1. PICK t \in Session : WaitsFor(s, t)
      BY DEF CanRun, Live
    <3>2. Live(t)
      BY <1>2, <3>1, WhoWaits
    <3> QED BY <3>1, <3>2
  <2>2. Stuck(C)
    BY <1>2, <2>1 DEF Stuck, Live
  <2>3. C \in SUBSET Session
    OBVIOUS
  <2> HIDE DEF C
  <2> QED BY <1>1, <1>2, <2>2, <2>3 DEF DeadlocksArePairs
<1>3. TxInv => SomebodyGoesOn
  BY <1>2 DEF SomebodyGoesOn
<1> QED BY <1>1, <1>3, TxCorrect, PTL

-----------------------------------------------------------------------------
(* The one-step operations on the rows as PanelNodes sees them *)

\* A token is expired once nothing that began before uses it.
Expired(n) == nodes[n].expired /\ nodes[n].bootstrap = "active" /\ ~Registering(n)

WithExpiry(row, e) == [row EXCEPT !.expired = e]

\* A row with another clock.
LEMMA WithExpiryIs ==
  ASSUME NEW row \in NodeRow, NEW e \in BOOLEAN
  PROVE  LET new == WithExpiry(row, e)
         IN  /\ new \in NodeRow
             /\ new.status = row.status /\ new.drainState = row.drainState
             /\ new.bootstrap = row.bootstrap /\ new.expired = e
             /\ new.registered = row.registered /\ new.activeRevision = row.activeRevision
             /\ new.lastApplied = row.lastApplied /\ new.runtimeState = row.runtimeState
BY DEF NodeRow, WithExpiry

\* PanelNodes sees the rows as they are but for that column.
LEMMA PanelRowsAre ==
  TypeOK => /\ PanelRows = [k \in Node |-> WithExpiry(nodes[k], Expired(k))]
            /\ \A k \in Node : Expired(k) \in BOOLEAN
            /\ PanelRows \in [Node -> NodeRow]
<1> SUFFICES ASSUME TypeOK
             PROVE  /\ PanelRows = [k \in Node |-> WithExpiry(nodes[k], Expired(k))]
                    /\ \A k \in Node : Expired(k) \in BOOLEAN
                    /\ PanelRows \in [Node -> NodeRow]
  OBVIOUS
<1>1. \A n \in Node : nodes[n] \in NodeRow /\ Expired(n) \in BOOLEAN
  BY DEF Expired, TypeOK, Registering
<1>2. ASSUME NEW n \in Node
      PROVE  [nodes[n] EXCEPT !.expired = @ /\ nodes[n].bootstrap = "active" /\ ~Registering(n)]
               = WithExpiry(nodes[n], Expired(n))
  BY <1>1 DEF WithExpiry, Expired
<1>3. PanelRows = [n \in Node |-> WithExpiry(nodes[n], Expired(n))]
  BY <1>2 DEF PanelRows
<1>4. \A n \in Node : WithExpiry(nodes[n], Expired(n)) \in NodeRow
  BY <1>1, WithExpiryIs
<1> QED BY <1>1, <1>3, <1>4

\* The rows as PanelNodes sees them after a step.
LEMMA PanelRowsNext ==
  TypeOK' => PanelRows' = [n \in Node |-> WithExpiry(nodes'[n], Expired(n)')]
<1>1. (TypeOK => /\ PanelRows = [k \in Node |-> WithExpiry(nodes[k], Expired(k))]
                 /\ \A k \in Node : Expired(k) \in BOOLEAN
                 /\ PanelRows \in [Node -> NodeRow])'
  BY PanelRowsAre, PTL
<1>2. ([k \in Node |-> WithExpiry(nodes[k], Expired(k))])'
        = [n \in Node |-> WithExpiry(nodes'[n], Expired(n)')]
  BY DEF WithExpiry
<1> QED BY <1>1, <1>2

\* Column by column.
LEMMA PanelRow ==
  ASSUME TypeOK, NEW n \in Node
  PROVE  /\ PanelRows[n] = WithExpiry(nodes[n], Expired(n))
         /\ PanelRows[n] \in NodeRow
         /\ PanelRows[n].status = nodes[n].status
         /\ PanelRows[n].drainState = nodes[n].drainState
         /\ PanelRows[n].bootstrap = nodes[n].bootstrap
         /\ PanelRows[n].expired = Expired(n)
         /\ PanelRows[n].registered = nodes[n].registered
         /\ PanelRows[n].activeRevision = nodes[n].activeRevision
         /\ PanelRows[n].lastApplied = nodes[n].lastApplied
         /\ PanelRows[n].runtimeState = nodes[n].runtimeState
<1>1. PanelRows[n] = WithExpiry(nodes[n], Expired(n)) /\ Expired(n) \in BOOLEAN
      /\ PanelRows[n] \in NodeRow
  BY PanelRowsAre
<1>2. nodes[n] \in NodeRow
  BY DEF TypeOK
<1> QED BY <1>1, <1>2, WithExpiryIs

\* One row changes; how depends on its token's clock.
LEMMA PanelRowMoves ==
  ASSUME TypeOK, TypeOK', NEW n \in Node, NEW row \in NodeRow, NEW e,
         nodes' = [nodes EXCEPT ![n] = row],
         Expired(n)' = e, \A m \in Node \ {n} : Expired(m)' = Expired(m)
  PROVE  PanelRows' = [PanelRows EXCEPT ![n] = WithExpiry(row, e)]
<1>1. \A m \in Node : nodes'[m] = IF m = n THEN row ELSE nodes[m]
  BY DEF TypeOK
<1>2. PanelRows = [m \in Node |-> WithExpiry(nodes[m], Expired(m))]
  BY PanelRowsAre
<1>3. PanelRows' = [m \in Node |-> WithExpiry(nodes'[m], Expired(m)')]
  BY PanelRowsNext
<1> QED BY <1>1, <1>2, <1>3

\* Registrations under way as before: the clock of a row that keeps its token stays.
LEMMA ExpiredStays ==
  ASSUME NEW n \in Node, Registering(n)' <=> Registering(n),
         nodes'[n].expired = nodes[n].expired, nodes'[n].bootstrap = nodes[n].bootstrap
  PROVE  Expired(n)' = Expired(n)
BY DEF Expired, Registering

\* The clock column and the others do not meet.
LEMMA WithExpirySwaps ==
  ASSUME NEW row \in NodeRow, NEW e \in BOOLEAN
  PROVE  /\ \A x \in NodeStatus : [WithExpiry(row, e) EXCEPT !.status = x]
                                    = WithExpiry([row EXCEPT !.status = x], e)
         /\ \A x \in DrainState : [WithExpiry(row, e) EXCEPT !.drainState = x]
                                    = WithExpiry([row EXCEPT !.drainState = x], e)
         /\ \A x : [WithExpiry(row, e) EXCEPT !.expired = x] = WithExpiry(row, x)
BY DEF NodeRow, WithExpiry

\* Register on a row, with its clock.
LEMMA WithExpiryRegister ==
  ASSUME NEW row \in NodeRow, NEW e \in BOOLEAN, NEW f \in BOOLEAN
  PROVE  [WithExpiry(row, f) EXCEPT !.status = "active", !.registered = TRUE,
                                    !.bootstrap = "used"]
           = WithExpiry([row EXCEPT !.status = "active", !.registered = TRUE,
                                    !.bootstrap = "used"], f)
BY DEF NodeRow, WithExpiry

\* The same registrations are under way.
SameRegistering == \A n \in Node : Registering(n)' <=> Registering(n)

\* A row changes, but for its token.
LEMMA PlainMove ==
  ASSUME TypeOK, TypeOK', SameRegistering, NEW n \in Node, NEW row \in NodeRow,
         nodes' = [nodes EXCEPT ![n] = row],
         row.bootstrap = nodes[n].bootstrap, row.expired = nodes[n].expired
  PROVE  PanelRows' = [PanelRows EXCEPT ![n] = WithExpiry(row, PanelRows[n].expired)]
<1>1. \A m \in Node : nodes'[m] = IF m = n THEN row ELSE nodes[m]
  BY DEF TypeOK
<1>2. \A m \in Node : Expired(m)' = Expired(m)
  BY <1>1, ExpiredStays DEF SameRegistering
<1>3. PanelRows[n].expired = Expired(n)
  BY PanelRow
<1>4. PICK e : e = Expired(n)
  OBVIOUS
<1>5. Expired(n)' = e /\ \A m \in Node \ {n} : Expired(m)' = Expired(m)
  BY <1>2, <1>4
<1>6. PanelRows' = [PanelRows EXCEPT ![n] = WithExpiry(row, e)]
  BY <1>5, PanelRowMoves
<1> QED BY <1>3, <1>4, <1>6

\* No row changes.
LEMMA NoMove ==
  ASSUME TypeOK, TypeOK', SameRegistering, UNCHANGED nodes
  PROVE  PanelRows' = PanelRows
<1>1. \A m \in Node : Expired(m)' = Expired(m)
  BY ExpiredStays DEF SameRegistering
<1>2. PanelRows = [m \in Node |-> WithExpiry(nodes[m], Expired(m))]
  BY PanelRowsAre
<1>3. PanelRows' = [m \in Node |-> WithExpiry(nodes'[m], Expired(m)')]
  BY PanelRowsNext
<1> QED BY <1>1, <1>2, <1>3

\* The transitions of a node.
LEMMA TransitionSeen ==
  ASSUME TypeOK, TypeOK', SameRegistering, NEW n \in Node,
         Drain(n) \/ Undrain(n) \/ Disable(n) \/ Enable(n)
  PROVE  Panel!Drain(n) \/ Panel!Undrain(n) \/ Panel!Disable(n) \/ Panel!Enable(n)
<1>1. nodes[n] \in NodeRow /\ PanelRows[n] \in NodeRow
  BY PanelRow DEF TypeOK
<1>2. PanelRows \in [Node -> NodeRow] /\ Expired(n) \in BOOLEAN
      /\ PanelRows[n] = WithExpiry(nodes[n], Expired(n)) /\ PanelRows[n].expired = Expired(n)
      /\ PanelRows[n].status = nodes[n].status
      /\ PanelRows[n].drainState = nodes[n].drainState
  BY PanelRowsAre, PanelRow
<1>3. ASSUME NEW d \in DrainState, nodes' = [nodes EXCEPT ![n].drainState = d]
      PROVE  PanelRows' = [PanelRows EXCEPT ![n].drainState = d]
  <2> DEFINE row == [nodes[n] EXCEPT !.drainState = d]
  <2>1. row \in NodeRow /\ row.bootstrap = nodes[n].bootstrap /\ row.expired = nodes[n].expired
    BY <1>1 DEF NodeRow
  <2>2. nodes' = [nodes EXCEPT ![n] = row]
    BY <1>3
  <2>3. WithExpiry(row, Expired(n)) = [PanelRows[n] EXCEPT !.drainState = d]
    BY <1>1, <1>2, WithExpirySwaps
  <2> HIDE DEF row
  <2>4. PanelRows' = [PanelRows EXCEPT ![n] = WithExpiry(row, PanelRows[n].expired)]
    BY <2>1, <2>2, PlainMove
  <2> QED BY <1>2, <2>3, <2>4
<1>4. ASSUME NEW st \in NodeStatus, nodes' = [nodes EXCEPT ![n].status = st]
      PROVE  PanelRows' = [PanelRows EXCEPT ![n].status = st]
  <2> DEFINE row == [nodes[n] EXCEPT !.status = st]
  <2>1. row \in NodeRow /\ row.bootstrap = nodes[n].bootstrap /\ row.expired = nodes[n].expired
    BY <1>1 DEF NodeRow
  <2>2. nodes' = [nodes EXCEPT ![n] = row]
    BY <1>4
  <2>3. WithExpiry(row, Expired(n)) = [PanelRows[n] EXCEPT !.status = st]
    BY <1>1, <1>2, WithExpirySwaps
  <2> HIDE DEF row
  <2>4. PanelRows' = [PanelRows EXCEPT ![n] = WithExpiry(row, PanelRows[n].expired)]
    BY <2>1, <2>2, PlainMove
  <2> QED BY <1>2, <2>3, <2>4
<1>5. {"draining", "active"} \subseteq DrainState /\ {"disabled", "unhealthy"} \subseteq NodeStatus
  BY DEF DrainState, NodeStatus
<1>6. CASE Drain(n)
  BY <1>2, <1>3, <1>5, <1>6 DEF Drain, Panel!Drain, Exists, Panel!Exists
<1>7. CASE Undrain(n)
  BY <1>2, <1>3, <1>5, <1>7 DEF Undrain, Panel!Undrain, Exists, Panel!Exists
<1>8. CASE Disable(n)
  BY <1>2, <1>4, <1>5, <1>8 DEF Disable, Panel!Disable, Exists, Panel!Exists
<1>9. CASE Enable(n)
  BY <1>2, <1>4, <1>5, <1>9 DEF Enable, Panel!Enable
<1> QED BY <1>6, <1>7, <1>8, <1>9

\* The revisions are the same tables.
LEMMA SameRevisions ==
  /\ \A n : Panel!RevisionsOf(n) = RevisionsOf(n)
  /\ \A n : Panel!Numbers(n) = Numbers(n)
  /\ \A n : Panel!NextNumber(n) = NextNumber(n)
  /\ \A n : Panel!Pending(n) = Pending(n)
<1>1. \A n : Panel!RevisionsOf(n) = RevisionsOf(n)
  BY DEF Panel!RevisionsOf, RevisionsOf
<1>2. \A n : Panel!Numbers(n) = Numbers(n) /\ Panel!Pending(n) = Pending(n)
  BY <1>1 DEF Panel!Numbers, Numbers, Panel!Pending, Pending
<1>3. \A x : Panel!Max(x) = Max(x)
  BY DEF Panel!Max, Max
<1>4. \A n : Panel!NextNumber(n) = NextNumber(n)
  BY <1>2, <1>3 DEF Panel!NextNumber, NextNumber
<1> QED BY <1>1, <1>2, <1>4

\* The creations of revisions.
LEMMA CreationSeen ==
  ASSUME TypeOK, TypeOK', SameRegistering, NEW n \in Node
  PROVE  /\ \A config \in Config :
              CreateDummyConfigRevision(n, config) => Panel!CreateDummyConfigRevision(n, config)
         /\ \A r \in RevisionsOf(n) :
              CreateRollbackConfigRevision(n, r) => Panel!CreateRollbackConfigRevision(n, r)
<1>1. PanelRows[n].status = nodes[n].status /\ PanelRows[n].drainState = nodes[n].drainState
      /\ PanelRows[n].activeRevision = nodes[n].activeRevision
  BY PanelRow
<1>2. AcceptsRevisions(n) => Panel!AcceptsRevisions(n)
  BY <1>1, SameRevisions DEF AcceptsRevisions, Panel!AcceptsRevisions, Exists, Panel!Exists
<1>3. \A kind, source, config :
        Insert(n, kind, source, config) => Panel!Insert(n, kind, source, config)
  BY <1>1, SameRevisions DEF Insert, Panel!Insert
<1>4. UNCHANGED nodes => UNCHANGED PanelRows
  BY NoMove
<1> QED BY <1>2, <1>3, <1>4, SameRevisions
     DEF CreateDummyConfigRevision, Panel!CreateDummyConfigRevision,
         CreateRollbackConfigRevision, Panel!CreateRollbackConfigRevision

\* What a heartbeat and a report write of a row.
Written(row, st, active, applied, state) ==
  [row EXCEPT !.status = st, !.activeRevision = active,
              !.lastApplied = applied, !.runtimeState = state]

\* Those columns do not meet the token's.
LEMMA WrittenKeeps ==
  ASSUME NEW row \in NodeRow, NEW st \in NodeStatus \cup {"absent"},
         NEW active \in Nat, NEW applied \in Nat, NEW state \in RuntimeState
  PROVE  /\ Written(row, st, active, applied, state) \in NodeRow
         /\ Written(row, st, active, applied, state).bootstrap = row.bootstrap
         /\ Written(row, st, active, applied, state).expired = row.expired
BY DEF NodeRow, Written

\* Written on the row with another clock.
LEMMA WrittenSwaps ==
  ASSUME NEW row \in NodeRow, NEW st \in NodeStatus \cup {"absent"},
         NEW active \in Nat, NEW applied \in Nat, NEW state \in RuntimeState,
         NEW e \in BOOLEAN
  PROVE  Written(WithExpiry(row, e), st, active, applied, state)
           = WithExpiry(Written(row, st, active, applied, state), e)
BY DEF NodeRow, Written, WithExpiry

\* The columns of a node are written, whatever its clock says.
LEMMA WrittenSeen ==
  ASSUME TypeOK, TypeOK', SameRegistering, NEW n \in Node,
         NEW st \in NodeStatus \cup {"absent"},
         NEW active \in Nat, NEW applied \in Nat, NEW state \in RuntimeState,
         nodes' = [nodes EXCEPT ![n] = Written(nodes[n], st, active, applied, state)]
  PROVE  PanelRows' = [PanelRows EXCEPT
                         ![n] = Written(PanelRows[n], st, active, applied, state)]
<1>1. PICK row : row = Written(nodes[n], st, active, applied, state)
  OBVIOUS
<1>2. nodes[n] \in NodeRow
  BY DEF TypeOK
<1>3. row \in NodeRow /\ row.bootstrap = nodes[n].bootstrap
      /\ row.expired = nodes[n].expired
  <2>1. PICK old \in NodeRow : old = nodes[n]
    BY <1>2
  <2>2. /\ Written(old, st, active, applied, state) \in NodeRow
        /\ Written(old, st, active, applied, state).bootstrap = old.bootstrap
        /\ Written(old, st, active, applied, state).expired = old.expired
    BY WrittenKeeps
  <2> QED BY <1>1, <2>1, <2>2
<1>4. PanelRows' = [PanelRows EXCEPT ![n] = WithExpiry(row, PanelRows[n].expired)]
  <2>1. nodes' = [nodes EXCEPT ![n] = row]
    BY <1>1
  <2> QED BY <1>3, <2>1, PlainMove
<1>5. PICK e : e = PanelRows[n].expired
  OBVIOUS
<1>6. e \in BOOLEAN /\ PanelRows[n] = WithExpiry(nodes[n], e)
  BY <1>5, PanelRow, PanelRowsAre
<1>7. Written(WithExpiry(nodes[n], e), st, active, applied, state)
        = WithExpiry(Written(nodes[n], st, active, applied, state), e)
  BY <1>2, <1>6, WrittenSwaps
<1> QED BY <1>1, <1>4, <1>5, <1>6, <1>7

\* A heartbeat writes the columns it writes, whatever the clock says.
LEMMA HeartbeatSeen ==
  ASSUME TypeOK, TypeOK', SameRegistering, NEW n \in Node, HeartbeatStep(n)
  PROVE  Panel!HeartbeatStep(n)
<1>1. nodes[n] \in NodeRow /\ PanelRows[n] \in NodeRow /\ PanelRows \in [Node -> NodeRow]
      /\ nodes \in [Node -> NodeRow]
  BY PanelRow, PanelRowsAre DEF TypeOK
<1>2. PICK holder \in Node, status \in ReportedStatus, active \in ReportedRevision,
           metadata \in BOOLEAN, applied \in ReportedRevision, state \in ReportedState :
        RecordHeartbeat(n, holder, status, active, metadata, applied, state)
  BY Zenon DEF HeartbeatStep
<1>3. status \in NodeStatus /\ active \in Nat /\ applied \in Nat /\ state \in RuntimeState
  BY PanelAssumption
<1>4. PICK st, app, rs : /\ st = IF nodes[n].drainState = "drained" THEN "drained" ELSE status
                         /\ app = IF metadata THEN applied ELSE nodes[n].lastApplied
                         /\ rs = IF metadata THEN state ELSE nodes[n].runtimeState
  OBVIOUS
<1>5. st \in NodeStatus \cup {"absent"} /\ app \in Nat /\ rs \in RuntimeState
  BY <1>1, <1>3, <1>4 DEF NodeRow, NodeStatus
<1>6. nodes' = [nodes EXCEPT ![n] = Written(nodes[n], st, active, app, rs)]
  BY <1>1, <1>2, <1>4 DEF RecordHeartbeat, NodeRow, Written
<1>7. PanelRows' = [PanelRows EXCEPT ![n] = Written(PanelRows[n], st, active, app, rs)]
  BY <1>3, <1>5, <1>6, WrittenSeen
<1>8. PanelRows' = [PanelRows EXCEPT
       ![n].status = IF PanelRows[n].drainState = "drained" THEN "drained" ELSE status,
       ![n].activeRevision = active,
       ![n].lastApplied = IF metadata THEN applied ELSE @,
       ![n].runtimeState = IF metadata THEN state ELSE @]
  BY <1>1, <1>4, <1>7, PanelRow DEF NodeRow, Written
<1>9. Authorised(n, holder) => Panel!Authorised(n, holder)
  BY PanelRow DEF Authorised, Panel!Authorised
<1>10. Panel!RecordHeartbeat(n, holder, status, active, metadata, applied, state)
  BY <1>2, <1>8, <1>9 DEF RecordHeartbeat, Panel!RecordHeartbeat
<1> QED BY <1>10, Zenon DEF Panel!HeartbeatStep

\* What a report leaves in the columns it may write.
ReportedActive(row, report) ==
  IF report.outcome = "applied" THEN report.number ELSE row.activeRevision
ReportedApplied(row, report) ==
  IF report.lastApplied > 0 THEN report.lastApplied
  ELSE IF report.outcome = "applied" THEN report.number ELSE row.lastApplied

\* A report writes those columns.
LEMMA ReportedIsWritten ==
  ASSUME NEW row \in NodeRow, NEW report \in Report
  PROVE  /\ ReportedActive(row, report) \in Nat /\ ReportedApplied(row, report) \in Nat
         /\ report.runtimeState \in RuntimeState
         /\ ReportedRow(row, report)
              = Written(row, row.status, ReportedActive(row, report),
                        ReportedApplied(row, report), report.runtimeState)
         /\ Panel!ReportedRow(row, report) = ReportedRow(row, report)
<1>1. /\ row.activeRevision \in Nat /\ row.lastApplied \in Nat /\ report.number \in Nat
      /\ report.lastApplied \in Nat /\ report.runtimeState \in RuntimeState
  BY DEF NodeRow, Report
<1>2. Panel!ReportedRow(row, report) = ReportedRow(row, report)
  BY DEF ReportedRow, Panel!ReportedRow
<1>3. CASE report.outcome = "applied"
  <2>1. ReportedRow(row, report)
          = [row EXCEPT !.activeRevision = ReportedActive(row, report),
                        !.lastApplied = ReportedApplied(row, report),
                        !.runtimeState = report.runtimeState]
    BY <1>3 DEF ReportedRow, ReportedActive, ReportedApplied
  <2>2. ReportedRow(row, report)
          = Written(row, row.status, ReportedActive(row, report),
                    ReportedApplied(row, report), report.runtimeState)
    BY <2>1 DEF NodeRow, Written
  <2> QED BY <1>1, <1>2, <2>2 DEF ReportedActive, ReportedApplied
<1>4. CASE report.outcome # "applied"
  <2>1. ReportedRow(row, report)
          = [row EXCEPT !.lastApplied = ReportedApplied(row, report),
                        !.runtimeState = report.runtimeState]
    BY <1>4 DEF ReportedRow, ReportedApplied
  <2>2. ReportedRow(row, report)
          = Written(row, row.status, row.activeRevision,
                    ReportedApplied(row, report), report.runtimeState)
    BY <2>1 DEF NodeRow, Written
  <2> QED BY <1>1, <1>2, <1>4, <2>2 DEF ReportedActive, ReportedApplied
<1> QED BY <1>3, <1>4

\* What becomes of a report.
LEMMA ReportSeen ==
  ASSUME TypeOK, TypeOK', SameRegistering, ReportStep
  PROVE  Panel!ReportStep
<1>1. UNCHANGED nodes => UNCHANGED PanelRows
  BY NoMove
<1>2. ASSUME NEW n \in Node, NEW holder \in Node, NEW number \in 1..MaxRevision,
             NEW outcome \in Outcome, NEW applied \in ReportedRevision,
             NEW state \in ReportedState,
             ReportBegin([node |-> n, number |-> number, outcome |-> outcome,
                          lastApplied |-> applied, runtimeState |-> state,
                          missed |-> FALSE], holder)
      PROVE  Panel!ReportStep
  <2> DEFINE report == [node |-> n, number |-> number, outcome |-> outcome,
                        lastApplied |-> applied, runtimeState |-> state, missed |-> FALSE]
  <2>1. report.node = n
    OBVIOUS
  <2>2. ReportBegin(report, holder)
    BY <1>2
  <2>3. Panel!Cardinality(reporting) = Cardinality(reporting)
    BY Zenon DEF Panel!Cardinality, Cardinality
  <2>4. Authorised(n, holder) => Panel!Authorised(n, holder)
    BY PanelRow DEF Authorised, Panel!Authorised
  <2> HIDE DEF report
  <2>5. Panel!ReportBegin(report, holder)
    BY <1>1, <2>1, <2>2, <2>3, <2>4, SameRevisions DEF ReportBegin, Panel!ReportBegin
  <2> USE DEF report
  <2> QED BY <2>5, Zenon DEF Panel!ReportStep, Panel!Outcome, Outcome
<1>3. ASSUME NEW report \in reporting, ReportMisses(report)
      PROVE  Panel!ReportStep
  <2>1. PanelRows[report.node].status = nodes[report.node].status
    BY PanelRow DEF TypeOK, Report
  <2>2. Panel!ReportMisses(report)
    BY <1>1, <1>3, <2>1 DEF ReportMisses, Panel!ReportMisses
  <2> QED BY <2>2 DEF Panel!ReportStep
<1>4. ASSUME NEW report \in reporting, ReportAbort(report)
      PROVE  Panel!ReportStep
  BY <1>1, <1>4 DEF ReportAbort, Panel!ReportAbort, Panel!ReportStep
<1>5. ASSUME NEW report \in reporting, ReportCommit(report)
      PROVE  Panel!ReportStep
  <2> DEFINE n == report.node
  <2>1. report \in Report /\ n \in Node /\ nodes[n] \in NodeRow /\ PanelRows[n] \in NodeRow
    BY PanelRow DEF TypeOK, Report
  <2>2. PanelRows[n].status = nodes[n].status
        /\ PanelRows[n] = WithExpiry(nodes[n], PanelRows[n].expired)
        /\ PanelRows[n].expired \in BOOLEAN
    BY <2>1, PanelRow, PanelRowsAre
  <2>3. ASSUME nodes' = [nodes EXCEPT ![n] = ReportedRow(@, report)]
        PROVE  PanelRows' = [PanelRows EXCEPT ![n] = Panel!ReportedRow(@, report)]
    <3>1. PICK st, active, applied : /\ st = nodes[n].status
                                     /\ active = ReportedActive(nodes[n], report)
                                     /\ applied = ReportedApplied(nodes[n], report)
      OBVIOUS
    <3>2. /\ st \in NodeStatus \cup {"absent"} /\ active \in Nat /\ applied \in Nat
          /\ report.runtimeState \in RuntimeState
          /\ ReportedRow(nodes[n], report)
               = Written(nodes[n], st, active, applied, report.runtimeState)
      BY <2>1, <3>1, ReportedIsWritten DEF NodeRow
    <3>3. PanelRows' = [PanelRows EXCEPT
                  ![n] = Written(PanelRows[n], st, active, applied, report.runtimeState)]
      <4>1. nodes' = [nodes EXCEPT
                  ![n] = Written(nodes[n], st, active, applied, report.runtimeState)]
        BY <2>3, <3>2
      <4>2. PICK m, state : m = n /\ state = report.runtimeState
        OBVIOUS
      <4>3. m \in Node /\ state \in RuntimeState
            /\ nodes' = [nodes EXCEPT ![m] = Written(nodes[m], st, active, applied, state)]
        BY <2>1, <3>2, <4>1, <4>2
      <4>4. PanelRows' = [PanelRows EXCEPT
                  ![m] = Written(PanelRows[m], st, active, applied, state)]
        BY <3>2, <4>3, WrittenSeen
      <4> QED BY <4>2, <4>4
    <3>4. /\ st = PanelRows[n].status
          /\ active = ReportedActive(PanelRows[n], report)
          /\ applied = ReportedApplied(PanelRows[n], report)
      BY <2>1, <3>1, PanelRow DEF ReportedActive, ReportedApplied
    <3>5. Panel!ReportedRow(PanelRows[n], report)
            = Written(PanelRows[n], st, active, applied, report.runtimeState)
      BY <2>1, <3>4, ReportedIsWritten
    <3> QED BY <3>3, <3>5
  <2>4. Panel!ReportCommit(report)
    BY <1>1, <1>5, <2>2, <2>3, SameRevisions DEF ReportCommit, Panel!ReportCommit
  <2> QED BY <2>4 DEF Panel!ReportStep
<1> QED BY <1>2, <1>3, <1>4, <1>5, Zenon DEF ReportStep

\* The clock of one token is seen to pass, or nothing is.
LEMMA ClockSeen ==
  ASSUME TypeOK, TypeOK', NEW n \in Node, nodes[n].bootstrap = "active",
         UNCHANGED <<revisions, registrations, reporting>>, NEW e \in BOOLEAN,
         nodes' = [nodes EXCEPT ![n] = WithExpiry(nodes[n], e)],
         Expired(n) => Expired(n)', \A m \in Node \ {n} : Expired(m)' = Expired(m)
  PROVE  Panel!BootstrapTokenExpires(n) \/ UNCHANGED Panel!vars
<1>2. nodes[n] \in NodeRow /\ nodes \in [Node -> NodeRow]
  BY DEF TypeOK
<1>3. PICK f, g : f = Expired(n) /\ g = Expired(n)'
  OBVIOUS
<1>4. f \in BOOLEAN /\ g \in BOOLEAN /\ PanelRows[n] = WithExpiry(nodes[n], f)
      /\ PanelRows \in [Node -> NodeRow]
  BY <1>2, <1>3, PanelRow, PanelRowsAre DEF Expired, Registering, TypeOK
<1>5. \A x : WithExpiry(WithExpiry(nodes[n], e), x) = WithExpiry(nodes[n], x)
             /\ [WithExpiry(nodes[n], f) EXCEPT !.expired = x] = WithExpiry(nodes[n], x)
  BY <1>2, <1>4 DEF WithExpiry, NodeRow
<1>6. PanelRows' = [PanelRows EXCEPT ![n] = WithExpiry(nodes[n], g)]
  <2>1. PICK row \in NodeRow : row = WithExpiry(nodes[n], e)
    BY <1>2, WithExpiryIs
  <2>2. nodes' = [nodes EXCEPT ![n] = row]
    BY <2>1
  <2>3. PanelRows' = [PanelRows EXCEPT ![n] = WithExpiry(row, g)]
    <3>1. \A m \in Node : nodes'[m] = IF m = n THEN row ELSE nodes[m]
      BY <1>2, <2>2
    <3>2. PanelRows = [m \in Node |-> WithExpiry(nodes[m], Expired(m))]
          /\ PanelRows' = [m \in Node |-> WithExpiry(nodes'[m], Expired(m)')]
      BY PanelRowsAre, PanelRowsNext
    <3> QED BY <1>3, <3>1, <3>2
  <2> QED BY <1>5, <2>1, <2>3
<1>7. CASE f = g
  BY <1>4, <1>6, <1>7 DEF Panel!vars
<1>8. CASE f # g
  <2>1. f = FALSE /\ g = TRUE
    BY <1>3, <1>4, <1>8
  <2>2. PanelRows[n].bootstrap = "active" /\ PanelRows[n].expired = FALSE
    BY <1>3, <2>1, PanelRow
  <2>3. PanelRows' = [PanelRows EXCEPT ![n].expired = TRUE]
    BY <1>4, <1>5, <1>6, <2>1
  <2> QED BY <2>2, <2>3 DEF Panel!BootstrapTokenExpires
<1> QED BY <1>7, <1>8

\* A token is created for a node, or its clock passes.
LEMMA TokenSeen ==
  ASSUME TypeOK, TypeOK', SameRegistering, NEW n \in Node
  PROVE  /\ CreateBootstrapToken(n) => Panel!CreateBootstrapToken(n)
         /\ BootstrapTokenExpires(n)
              => Panel!BootstrapTokenExpires(n) \/ UNCHANGED Panel!vars
<1>1. nodes[n] \in NodeRow /\ nodes \in [Node -> NodeRow]
  BY DEF TypeOK
<1>2. ASSUME CreateBootstrapToken(n)
      PROVE  Panel!CreateBootstrapToken(n)
  <2> DEFINE row == [NoRow EXCEPT !.status = "pending", !.bootstrap = "active"]
  <2>1. row \in NodeRow /\ row.expired = FALSE
    BY DEF NoRow, NodeRow, NodeStatus, DrainState, RuntimeState
  <2>2. WithExpiry(row, FALSE)
          = [Panel!NoRow EXCEPT !.status = "pending", !.bootstrap = "active"]
    <3>1. Panel!NoRow = NoRow
      BY DEF NoRow, Panel!NoRow
    <3>2. row = [Panel!NoRow EXCEPT !.status = "pending", !.bootstrap = "active"]
      BY <3>1
    <3> HIDE DEF row
    <3>3. WithExpiry(row, FALSE) = row
      BY <2>1 DEF NodeRow, WithExpiry
    <3> QED BY <3>2, <3>3
  <2>3. nodes' = [nodes EXCEPT ![n] = row]
    BY <1>2 DEF CreateBootstrapToken
  <2> HIDE DEF row
  <2>4. \A m \in Node : nodes'[m] = IF m = n THEN row ELSE nodes[m]
    BY <1>1, <2>3
  <2>5. Expired(n)' = FALSE
    BY <2>1, <2>4 DEF Expired
  <2>6. \A m \in Node \ {n} : Expired(m)' = Expired(m)
    BY <2>4, ExpiredStays DEF SameRegistering
  <2>7. PanelRows' = [PanelRows EXCEPT ![n] = WithExpiry(row, FALSE)]
    BY <2>1, <2>3, <2>5, <2>6, PanelRowMoves
  <2> QED BY <1>2, <2>2, <2>7, PanelRow
       DEF CreateBootstrapToken, Panel!CreateBootstrapToken, Exists, Panel!Exists
<1>3. ASSUME BootstrapTokenExpires(n)
      PROVE  Panel!BootstrapTokenExpires(n) \/ UNCHANGED Panel!vars
  <2>1. nodes' = [nodes EXCEPT ![n] = WithExpiry(nodes[n], TRUE)]
    BY <1>1, <1>3 DEF BootstrapTokenExpires, WithExpiry
  <2>2. \A m \in Node : nodes'[m] = IF m = n THEN WithExpiry(nodes[n], TRUE) ELSE nodes[m]
    BY <1>1, <2>1
  <2>3. \A m \in Node \ {n} : Expired(m)' = Expired(m)
    BY <2>2, ExpiredStays DEF SameRegistering
  <2>4. ~Expired(n)
    BY <1>3 DEF Expired, BootstrapTokenExpires
  <2> QED BY <1>3, <2>1, <2>3, <2>4, ClockSeen DEF BootstrapTokenExpires
<1> QED BY <1>2, <1>3

\* A registration under way is seen not to be late.
LEMMA RegisterSeen ==
  ASSUME TypeOK, TypeOK', NEW n \in Node, LateRegister(n), Registering(n),
         \A m \in Node \ {n} : Registering(m)' <=> Registering(m)
  PROVE  Panel!Register(n)
<1> DEFINE row == [nodes[n] EXCEPT !.status = "active", !.registered = TRUE,
                                   !.bootstrap = "used"]
<1>1. nodes[n] \in NodeRow /\ nodes \in [Node -> NodeRow]
      /\ registrations \in [Node -> Nat]
  BY DEF TypeOK
<1>2. row \in NodeRow /\ row.bootstrap = "used"
  BY <1>1 DEF NodeRow, NodeStatus
<1>3. nodes' = [nodes EXCEPT ![n] = row]
  BY <1>1 DEF LateRegister
<1>4. WithExpiry(row, FALSE) = [WithExpiry(nodes[n], FALSE) EXCEPT
        !.status = "active", !.registered = TRUE, !.bootstrap = "used"]
  BY <1>1, WithExpiryRegister
<1> HIDE DEF row
<1>5. \A m \in Node : nodes'[m] = IF m = n THEN row ELSE nodes[m]
  BY <1>1, <1>3
<1>6. Expired(n)' = FALSE /\ Expired(n) = FALSE
  BY <1>2, <1>5 DEF Expired
<1>7. \A m \in Node \ {n} : Expired(m)' = Expired(m)
  BY <1>5, ExpiredStays
<1>8. PanelRows' = [PanelRows EXCEPT ![n] = WithExpiry(row, FALSE)]
  BY <1>2, <1>3, <1>6, <1>7, PanelRowMoves
<1>9. PanelRows[n] = WithExpiry(nodes[n], FALSE) /\ PanelRows \in [Node -> NodeRow]
      /\ PanelRows[n].expired = FALSE /\ PanelRows[n].bootstrap = nodes[n].bootstrap
      /\ PanelRows[n].status = nodes[n].status
  BY <1>6, PanelRow, PanelRowsAre
<1>10. PanelRows' = [PanelRows EXCEPT ![n].status = "active", ![n].registered = TRUE,
                                      ![n].bootstrap = "used"]
  BY <1>4, <1>8, <1>9
<1> QED BY <1>9, <1>10 DEF LateRegister, Panel!Register

\* q is a registration of node n that began with a good token.
RegistersInTime(q, n) == q # NoTx /\ q.op = "register" /\ q.node = n /\ q.fresh

\* Which registrations are under way, after one session has changed.
LEMMA RegisteringChange ==
  ASSUME Sessions, NEW s \in Session, NEW q, tx' = [tx EXCEPT ![s] = q],
         NEW n \in Node
  PROVE  /\ (RegistersInTime(tx[s], n) <=> RegistersInTime(q, n))
              => (Registering(n)' <=> Registering(n))
         /\ RegistersInTime(q, n) => Registering(n)'
         /\ RegistersInTime(tx[s], n) => Registering(n)
<1>1. \A t \in Session : tx'[t] = IF t = s THEN q ELSE tx[t]
  BY DEF Sessions
<1>2. Registering(n) <=> \E t \in Session : RegistersInTime(tx[t], n)
  BY DEF Registering, RegistersInTime
<1>3. Registering(n)' <=> \E t \in Session : RegistersInTime(tx'[t], n)
  BY DEF Registering, RegistersInTime
<1> QED BY <1>1, <1>2, <1>3

\* A request that is not a registration goes on, begins or ends.
LEMMA OthersRegister ==
  ASSUME Sessions, NEW s \in Session, NEW q, tx' = [tx EXCEPT ![s] = q],
         tx[s] # NoTx => tx[s].op # "register", q # NoTx => q.op # "register"
  PROVE  SameRegistering
BY RegisteringChange DEF RegistersInTime, SameRegistering

\* A step of PanelNodes but Register, whose transactions are seen as they are.
PlainStep ==
  \/ \E n \in Node :
       \/ CreateBootstrapToken(n)
       \/ BootstrapTokenExpires(n)
       \/ HeartbeatStep(n)
       \/ Drain(n) \/ Undrain(n) \/ Disable(n) \/ Enable(n)
       \/ \E config \in Config : CreateDummyConfigRevision(n, config)
       \/ \E r \in RevisionsOf(n) : CreateRollbackConfigRevision(n, r)
  \/ ReportStep

\* It is seen as such a step.
LEMMA PlainStepSeen ==
  ASSUME TypeOK, TypeOK', SameRegistering, PlainStep \/ UNCHANGED vars
  PROVE  Panel!Next \/ UNCHANGED Panel!vars
<1>1. CASE UNCHANGED vars
  BY <1>1, NoMove DEF vars, Panel!vars
<1>2. CASE ReportStep
  BY <1>2, ReportSeen DEF Panel!Next
<1>3. ASSUME NEW n \in Node, HeartbeatStep(n)
      PROVE  Panel!Next
  BY <1>3, HeartbeatSeen DEF Panel!Next
<1>4. ASSUME NEW n \in Node, CreateBootstrapToken(n) \/ BootstrapTokenExpires(n)
      PROVE  Panel!Next \/ UNCHANGED Panel!vars
  BY <1>4, TokenSeen DEF Panel!Next, Panel!NodeStep
<1>5. ASSUME NEW n \in Node, Drain(n) \/ Undrain(n) \/ Disable(n) \/ Enable(n)
      PROVE  Panel!Next
  BY <1>5, TransitionSeen DEF Panel!Next, Panel!NodeStep
<1>6. ASSUME NEW n \in Node, NEW config \in Config, CreateDummyConfigRevision(n, config)
      PROVE  Panel!Next
  BY <1>6, CreationSeen DEF Panel!Next, Panel!NodeStep
<1>7. ASSUME NEW n \in Node, NEW r \in RevisionsOf(n), CreateRollbackConfigRevision(n, r)
      PROVE  Panel!Next
  <2>1. r \in Panel!RevisionsOf(n)
    BY SameRevisions
  <2> QED BY <1>7, <2>1, CreationSeen DEF Panel!Next, Panel!NodeStep
<1> QED BY <1>1, <1>2, <1>3, <1>4, <1>5, <1>6, <1>7 DEF PlainStep

\* A request begins: a registration reads the clock now.
LEMMA BeginSeen ==
  ASSUME TypeOK, TypeOK', Sessions, NEW s \in Session, Begin(s)
  PROVE  Panel!Next \/ UNCHANGED Panel!vars
<1>1. UNCHANGED vars \/ ReportStep
  BY BeginIs
<1>2. ASSUME NEW n \in Node, BeginRegister(s, n)
      PROVE  UNCHANGED Panel!vars
  <2>1. PICK q : /\ tx' = [tx EXCEPT ![s] = q] /\ tx[s] = NoTx
                 /\ q = [op |-> "register", at |-> "token", node |-> n, number |-> 0,
                         fresh |-> ~nodes[n].expired, read |-> <<>>, next |-> 0,
                         report |-> <<>>]
    BY <1>2 DEF BeginRegister, Open
  <2>2. UNCHANGED vars
    BY <1>2 DEF BeginRegister, Open, vars
  <2>3. nodes[n].expired \in BOOLEAN
    BY DEF TypeOK, NodeRow
  <2>4. \A m \in Node : Expired(m)' = Expired(m)
    <3> SUFFICES ASSUME NEW m \in Node PROVE Expired(m)' = Expired(m)
      OBVIOUS
    <3>1. CASE RegistersInTime(q, m)
      <4>1. nodes[m].expired = FALSE
        BY <2>1, <2>3, <3>1 DEF RegistersInTime
      <4> QED BY <2>2, <4>1 DEF Expired, vars
    <3>2. CASE ~RegistersInTime(q, m)
      <4>1. Registering(m)' <=> Registering(m)
        BY <2>1, <3>2, RegisteringChange DEF RegistersInTime
      <4> QED BY <2>2, <4>1, ExpiredStays DEF vars
    <3> QED BY <3>1, <3>2
  <2>5. PanelRows' = PanelRows
    BY <2>2, <2>4, PanelRowsAre, PanelRowsNext DEF vars
  <2> QED BY <2>2, <2>5 DEF vars, Panel!vars
<1>3. ASSUME NEW op, NEW at, NEW n, NEW number, NEW fresh, NEW report,
             Open(s, op, at, n, number, fresh, report), op # "register"
      PROVE  SameRegistering
  <2> DEFINE q == [op |-> op, at |-> at, node |-> n, number |-> number,
                   fresh |-> fresh, read |-> <<>>, next |-> 0, report |-> report]
  <2>1. tx' = [tx EXCEPT ![s] = q] /\ tx[s] = NoTx /\ q.op = op
    BY <1>3 DEF Open
  <2> HIDE DEF q
  <2> QED BY <1>3, <2>1, OthersRegister
<1>4. ASSUME NEW n \in Node, BeginTransition(s, n) \/ BeginCreation(s, n)
      PROVE  SameRegistering
  BY <1>3, <1>4 DEF BeginTransition, BeginCreation, Transition
<1>5. ASSUME NEW report, NEW holder, BeginReport(s, report, holder)
      PROVE  SameRegistering
  BY <1>3, <1>5 DEF BeginReport
<1>6. SameRegistering => Panel!Next \/ UNCHANGED Panel!vars
  BY <1>1, PlainStepSeen DEF PlainStep
<1> QED BY <1>2, <1>4, <1>5, <1>6, Zenon DEF Begin

\* A request ends without a trace: a token may be seen to have expired.
LEMMA EndSeen ==
  ASSUME TypeOK, TypeOK', Sessions, NEW s \in Session, Live(s), End(s),
         UNCHANGED <<nodes, revisions, registrations>>
  PROVE  Panel!Next \/ UNCHANGED Panel!vars
<1>1. tx' = [tx EXCEPT ![s] = NoTx]
  BY DEF End
<1>2. CASE tx[s].op # "register"
  <2>1. SameRegistering
    BY <1>1, <1>2, OthersRegister
  <2>2. UNCHANGED vars \/ ReportStep
    BY EndIsAbort DEF ReportStep
  <2> QED BY <2>1, <2>2, PlainStepSeen DEF PlainStep
<1>3. CASE tx[s].op = "register"
  <2> DEFINE n == tx[s].node
  <2>1. UNCHANGED vars
    BY <1>3, EndIsAbort DEF vars
  <2>2. tx[s] \in Tx /\ n \in Node
    BY DEF Sessions, Live, Tx
  <2>3. PICK m \in Node : m = n
    BY <2>2
  <2>4. \A k \in Node \ {m} : Expired(k)' = Expired(k)
    BY <1>1, <2>1, <2>3, RegisteringChange, ExpiredStays DEF RegistersInTime, vars
  <2>5. Expired(m) => Expired(m)'
    <3>1. ~RegistersInTime(tx[s], m) => (Registering(m)' <=> Registering(m))
      BY <1>1, RegisteringChange DEF RegistersInTime
    <3>2. RegistersInTime(tx[s], m) => ~Expired(m)
      BY <1>1, RegisteringChange DEF Expired
    <3> QED BY <2>1, <3>1, <3>2, ExpiredStays DEF vars
  <2>6. CASE nodes[m].bootstrap = "active"
    <3>1. nodes[m] \in NodeRow /\ nodes \in [Node -> NodeRow]
      BY DEF TypeOK
    <3>2. PICK e \in BOOLEAN : e = nodes[m].expired
      BY <3>1 DEF NodeRow
    <3>3. nodes' = [nodes EXCEPT ![m] = WithExpiry(nodes[m], e)]
      BY <2>1, <3>1, <3>2 DEF vars, WithExpiry, NodeRow
    <3> QED BY <2>1, <2>4, <2>5, <2>6, <3>3, ClockSeen DEF vars, Panel!Next, Panel!NodeStep
  <2>7. CASE nodes[m].bootstrap # "active"
    <3>1. Expired(m)' = Expired(m)
      BY <2>1, <2>7 DEF Expired, vars
    <3>2. PanelRows' = PanelRows
      BY <2>1, <2>4, <3>1, PanelRowsAre, PanelRowsNext DEF vars
    <3> QED BY <2>1, <3>2 DEF vars, Panel!vars
  <2> QED BY <2>6, <2>7
<1> QED BY <1>2, <1>3

\* Between its first and its last statement a request stays what it is.
LEMMA StatementKeepsKind ==
  ASSUME Sessions, NEW s \in Session, tx[s] \in Tx,
         \/ LockToken(s) \/ LockRevision(s) \/ LockNode(s) \/ UpdateRegistered(s)
         \/ UpdateReported(s) \/ LockSource(s) \/ ReadNumber(s),
         ~End(s)
  PROVE  SameRegistering
<1>1. ASSUME NEW q, tx' = [tx EXCEPT ![s] = q],
             q.op = tx[s].op, q.node = tx[s].node, q.fresh = tx[s].fresh, q # NoTx
      PROVE  SameRegistering
  BY <1>1, RegisteringChange, IdleOrTx DEF RegistersInTime, SameRegistering
<1>2. \A at \in {"node", "write", "number"} : Goto(s, at) => SameRegistering
  <2> SUFFICES ASSUME NEW at \in {"node", "write", "number"}, Goto(s, at)
               PROVE  SameRegistering
    OBVIOUS
  <2> DEFINE q == [tx[s] EXCEPT !.at = at]
  <2>1. q \in Tx /\ q.op = tx[s].op /\ q.node = tx[s].node /\ q.fresh = tx[s].fresh
    BY DEF Tx
  <2>2. tx' = [tx EXCEPT ![s] = q]
    BY GotoMoves
  <2> HIDE DEF q
  <2> QED BY <1>1, <2>1, <2>2, IdleOrTx
<1>3. CASE LockToken(s) \/ LockRevision(s) \/ LockSource(s) \/ UpdateRegistered(s)
  BY <1>2, <1>3 DEF LockToken, LockRevision, LockSource, UpdateRegistered
<1>4. CASE LockNode(s)
  <2> DEFINE q == [tx[s] EXCEPT !.at = AfterNode(tx[s].op),
                                !.read = ColumnsOf(nodes[tx[s].node])]
  <2>1. tx' = [tx EXCEPT ![s] = q]
    BY <1>4 DEF LockNode, Sessions
  <2>2. q.op = tx[s].op /\ q.node = tx[s].node /\ q.fresh = tx[s].fresh
        /\ q.at = AfterNode(tx[s].op)
    BY DEF Tx
  <2>3. AfterNode(tx[s].op) # "idle"
    BY DEF AfterNode
  <2> HIDE DEF q
  <2> QED BY <1>1, <2>1, <2>2, <2>3, IdleOrTx
<1>5. CASE UpdateReported(s)
  <2>1. CASE Matches(s)
    BY <1>2, <1>5, <2>1 DEF UpdateReported
  <2>2. CASE ~Matches(s)
    <3> DEFINE q == [tx[s] EXCEPT !.at = "write",
                                  !.report = [tx[s].report EXCEPT !.missed = TRUE]]
    <3>1. tx' = [tx EXCEPT ![s] = q]
      BY <1>5, <2>2 DEF UpdateReported, Sessions
    <3>2. q.op = tx[s].op /\ q.node = tx[s].node /\ q.fresh = tx[s].fresh /\ q.at = "write"
      BY DEF Tx
    <3> HIDE DEF q
    <3> QED BY <1>1, <3>1, <3>2, IdleOrTx
  <2> QED BY <2>1, <2>2
<1>6. CASE ReadNumber(s)
  <2> DEFINE q == [tx[s] EXCEPT !.at = "write", !.next = NextNumber(tx[s].node)]
  <2>1. tx' = [tx EXCEPT ![s] = q]
    BY <1>6 DEF ReadNumber, Sessions
  <2>2. q.op = tx[s].op /\ q.node = tx[s].node /\ q.fresh = tx[s].fresh /\ q.at = "write"
    BY DEF Tx
  <2> HIDE DEF q
  <2> QED BY <1>1, <2>1, <2>2, IdleOrTx
<1> QED BY <1>3, <1>4, <1>5, <1>6

\* A request commits.
LEMMA CommitSeen ==
  ASSUME TablesInv, TypeOK', Sessions, NEW s \in Session, Commit(s)
  PROVE  Panel!Next \/ UNCHANGED Panel!vars
<1>1. Live(s) /\ tx[s] \in Tx /\ tx[s].at = "write" /\ Shaped(tx[s]) /\ tx[s].node \in Node
      /\ tx' = [tx EXCEPT ![s] = NoTx] /\ TypeOK
  BY IdleOrTx DEF Commit, End, Sessions, Live, Tx, TablesInv, Numbering
<1>2. CASE tx[s].op = "register"
  <2>1. PICK n \in Node : n = tx[s].node
    BY <1>1
  <2>2. LateRegister(n)
    BY <1>2, <2>1, CommitIs DEF Creation, Transition
  <2>3. RegistersInTime(tx[s], n)
    BY <1>1, <1>2, <2>1 DEF RegistersInTime, Live, Shaped
  <2>4. Registering(n)
    BY <1>1, <2>3, RegisteringChange
  <2>5. \A m \in Node \ {n} : Registering(m)' <=> Registering(m)
    BY <1>1, <2>1, RegisteringChange DEF RegistersInTime
  <2>6. Panel!Register(n)
    BY <1>1, <2>2, <2>4, <2>5, RegisterSeen
  <2> QED BY <2>6 DEF Panel!Next, Panel!NodeStep
<1>3. CASE tx[s].op # "register"
  <2>1. SameRegistering
    BY <1>1, <1>3, OthersRegister
  <2>2. UNCHANGED vars \/ PlainStep
    BY <1>1, <1>3, CommitIs DEF PlainStep, ReportStep
  <2> QED BY <1>1, <2>1, <2>2, PlainStepSeen
<1> QED BY <1>2, <1>3

\* Every statement is seen as a step of PanelNodes or not at all.
LEMMA StepSeen ==
  TxInv /\ TxInv' /\ [TxNext]_txVars => [Panel!Next]_(Panel!vars)
<1> SUFFICES ASSUME TxInv, TxInv', [TxNext]_txVars
             PROVE  Panel!Next \/ UNCHANGED Panel!vars
  OBVIOUS
<1>1. TablesInv /\ Sessions /\ TypeOK /\ TypeOK'
  BY DEF TxInv, TablesInv, Numbering
<1>2. ASSUME UNCHANGED tx
      PROVE  SameRegistering
  BY <1>2 DEF SameRegistering, Registering
<1>3. CASE UNCHANGED txVars
  BY <1>1, <1>2, <1>3, PlainStepSeen DEF txVars
<1>4. ASSUME NEW n \in Node, SingleStatement(n)
      PROVE  Panel!Next \/ UNCHANGED Panel!vars
  BY <1>1, <1>2, <1>4, PlainStepSeen DEF SingleStatement, PlainStep
<1>5. ASSUME NEW s \in Session, Begin(s)
      PROVE  Panel!Next \/ UNCHANGED Panel!vars
  BY <1>1, <1>5, BeginSeen
<1>6. ASSUME NEW s \in Session, DeadlockDetected(s) \/ Abort(s)
      PROVE  Panel!Next \/ UNCHANGED Panel!vars
  <2>1. Live(s)
    BY <1>1, <1>6, IdleOrTx DEF DeadlockDetected, Abort, WaitsFor, Live
  <2> QED BY <1>1, <1>6, <2>1, EndSeen DEF DeadlockDetected, Abort
<1>7. ASSUME NEW s \in Session, Statement(s)
      PROVE  Panel!Next \/ UNCHANGED Panel!vars
  <2>1. CASE Commit(s)
    BY <1>1, <2>1, CommitSeen
  <2>2. CASE ~Commit(s)
    <3>1. \/ LockToken(s) \/ LockRevision(s) \/ LockNode(s) \/ UpdateRegistered(s)
          \/ UpdateReported(s) \/ LockSource(s) \/ ReadNumber(s)
      BY <1>7, <2>2 DEF Statement
    <3>2. Live(s) /\ tx[s] \in Tx
      BY <1>1, <3>1, IdleOrTx DEF LockToken, LockRevision, LockNode,
         UpdateRegistered, UpdateReported, LockSource, ReadNumber, Live, Sessions
    <3>3. \/ UNCHANGED vars \/ ReportStep
          \/ End(s) /\ UNCHANGED <<nodes, revisions, registrations>>
      BY <1>1, <3>1, StatementIs
    <3>4. UNCHANGED <<nodes, revisions, registrations>>
      BY <3>1 DEF LockToken, LockRevision, LockNode, UpdateRegistered,
         UpdateReported, LockSource, ReadNumber, vars
    <3>5. CASE End(s)
      BY <1>1, <3>2, <3>4, <3>5, EndSeen
    <3>6. CASE ~End(s)
      <4>1. SameRegistering
        BY <1>1, <3>1, <3>2, <3>6, StatementKeepsKind
      <4> QED BY <1>1, <3>3, <3>6, <4>1, PlainStepSeen DEF PlainStep
    <3> QED BY <3>5, <3>6
  <2> QED BY <2>1, <2>2
<1> QED BY <1>3, <1>4, <1>5, <1>6, <1>7 DEF TxNext

\* The empty tables are seen as empty tables.
LEMMA InitSeen == TxInit => Panel!Init
<1> SUFFICES ASSUME TxInit PROVE Panel!Init
  OBVIOUS
<1>1. TypeOK
  BY TxInvInit DEF TxInv, TablesInv, Numbering
<1>2. \A n \in Node : nodes[n] = NoRow
  BY DEF TxInit, Init
<1>3. NoRow \in NodeRow /\ NoRow.expired = FALSE
  BY DEF NoRow, NodeRow, NodeStatus, DrainState, RuntimeState
<1>4. WithExpiry(NoRow, FALSE) = NoRow
  <2>1. PICK row \in NodeRow : row = NoRow /\ row.expired = FALSE
    BY <1>3
  <2>2. WithExpiry(row, FALSE) = row
    BY <2>1 DEF WithExpiry, NodeRow
  <2> QED BY <2>1, <2>2
<1>5. \A n \in Node : Expired(n) = FALSE
  BY <1>2, <1>3 DEF Expired
<1>6. PanelRows = [n \in Node |-> Panel!NoRow]
  <2>1. Panel!NoRow = NoRow
    BY DEF Panel!NoRow, NoRow
  <2> QED BY <1>1, <1>2, <1>4, <1>5, <2>1, PanelRowsAre
<1> QED BY <1>6 DEF TxInit, Init, Panel!Init

\* The statements of the transactions, interleaved under their row locks, do what
\* the one-step operations of PanelNodes do, as seen by PanelRows.
THEOREM StatementsImplement == TxSpec => ImplementsPanelNodes
<1>1. TxSpec => []TxInv
  BY TxCorrect
<1> QED BY <1>1, InitSeen, StepSeen, PTL DEF TxSpec, ImplementsPanelNodes, Panel!Spec

-----------------------------------------------------------------------------
(* The properties of PanelNodes, of the interleaved statements *)

\* MAX + 1, counted under the node's lock and inserted two statements later, is
\* still fresh; a registration whose token expired or whose node was disabled
\* meanwhile leaves credential, token and registration row in agreement.
THEOREM TransactionsKeepTables ==
  TxSpec => [](NumbersAreASequence /\ TokenRegistersOnce /\ UnregisteredIsInert)
<1>1. TxInv => NumbersAreASequence /\ TokenRegistersOnce /\ UnregisteredIsInert
  BY DEF TxInv, TablesInv, Numbering, Registration
<1> QED BY <1>1, TxCorrect, PTL

\* What a step of the interleaved transactions may do to the revisions.
LEMMA RevisionsMove ==
  ASSUME TxInv, [TxNext]_txVars
  PROVE  [Next]_vars \/ UNCHANGED revisions
<1>1. \A n \in Node : LateRegister(n) => UNCHANGED revisions
  BY DEF LateRegister
<1>2. CASE TxNext
  BY <1>1, <1>2, StepsAre DEF TxInv
<1>3. CASE UNCHANGED txVars
  BY <1>3 DEF txVars
<1> QED BY <1>2, <1>3

\* A source that was applied when the rollback locked it still is when the copy of
\* its config is inserted.
THEOREM TransactionsRestore == TxSpec => []RollbackRestoresAppliedDeploy
<1>1. TxInit => RollbackRestoresAppliedDeploy
  BY DEF TxInit, Init, RollbackRestoresAppliedDeploy
<1>2. TxInv /\ RollbackRestoresAppliedDeploy /\ [TxNext]_txVars
        => RollbackRestoresAppliedDeploy'
  <2> SUFFICES ASSUME TxInv, RollbackRestoresAppliedDeploy, [TxNext]_txVars
               PROVE  RollbackRestoresAppliedDeploy'
    OBVIOUS
  <2>1. CASE [Next]_vars
    BY <2>1, RollbackStep DEF TxInv, TablesInv
  <2>2. CASE UNCHANGED revisions
    BY <2>2 DEF RollbackRestoresAppliedDeploy, RevisionsOf
  <2> QED BY <2>1, <2>2, RevisionsMove
<1> QED BY <1>1, <1>2, TxCorrect, PTL DEF TxSpec

\* Of two reports of one revision the second to get its row finds it decided, and
\* a rollback reads its source under the same lock: no verdict is overwritten.
THEOREM TransactionsKeepVerdicts == TxSpec => VerdictIsFinal
<1>1. TxInv /\ [TxNext]_txVars =>
        [\A r \in revisions : \E s \in revisions' : Continues(r, s)]_revisions
  BY RevisionsMove, StepKeepsRevisions DEF TxInv, TablesInv, Numbering
<1> QED BY <1>1, TxCorrect, PTL DEF TxSpec, VerdictIsFinal

\* A node disabled between two statements of a registration, a report, a deploy or
\* a rollback stays as it was disabled: none of them writes its row or numbers a
\* revision of it afterwards.
THEOREM TransactionsFreeze == TxSpec => DisabledNodeIsFrozen
<1> DEFINE Frozen(n) == /\ nodes'[n] \in FrozenRows(nodes[n])
                        /\ Numbers(n)' = Numbers(n)
                        /\ registrations'[n] = registrations[n]
<1>1. ASSUME TxInv, TxNext, NEW n \in Node, nodes[n].status = "disabled"
      PROVE  Frozen(n) \/ UNCHANGED vars
  <2>1. TypeOK /\ Numbering
    BY <1>1 DEF TxInv, TablesInv, Numbering
  <2>2. CASE Next
    BY <1>1, <2>1, <2>2, DisabledRow, DisabledNumbers
  <2>3. ASSUME NEW m \in Node, LateRegister(m)
        PROVE  Frozen(n)
    <3>1. m # n /\ nodes'[n] = nodes[n] /\ registrations'[n] = registrations[n]
      BY <1>1, <2>1, <2>3 DEF LateRegister, TypeOK
    <3>2. Numbers(n)' = Numbers(n)
      BY <2>3 DEF LateRegister, Numbers, RevisionsOf
    <3>3. nodes[n] \in FrozenRows(nodes[n])
      BY <1>1, <2>1, FrozenRowsAre DEF TypeOK
    <3> QED BY <3>1, <3>2, <3>3
  <2> QED BY <1>1, <2>2, <2>3, StepsAre DEF TxInv
<1>2. TxInv /\ [TxNext]_txVars =>
        [\A n \in Node : nodes[n].status = "disabled" => Frozen(n)]_vars
  BY <1>1 DEF txVars
<1> QED BY <1>2, TxCorrect, PTL DEF TxSpec, DisabledNodeIsFrozen
=============================================================================
