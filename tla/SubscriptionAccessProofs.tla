---------------------- MODULE SubscriptionAccessProofs ----------------------
(***************************************************************************)
(* Proofs about SubscriptionAccess, for any number of concurrent requests, *)
(* any plan, renewal and length of a day.                                  *)
(*                                                                         *)
(* The argument: one request at a time holds the subscription (Apart), a   *)
(* claim owns its invite from the lock to the commit, and what a request   *)
(* found active when it began to revoke is what is active when it commits  *)
(* (Good).                                                                 *)
(***************************************************************************)
EXTENDS SubscriptionAccess, FiniteSetTheorems, SequenceTheorems, TLAPS

-----------------------------------------------------------------------------
(* Rows *)

\* UPDATE ... SET status of some tokens.
LEMMA MarkedTokens ==
  ASSUME NEW rows \in Seq(Token), NEW ids
  PROVE  LET new == Marked(rows, ids, "revoked")
         IN  /\ new \in Seq(Token) /\ Len(new) = Len(rows)
             /\ \A i \in 1..Len(rows) :
                  /\ new[i] \in Token
                  /\ new[i].status = IF i \in ids THEN "revoked" ELSE rows[i].status
                  /\ new[i].expiresAt = rows[i].expiresAt
                  /\ new[i].origin = rows[i].origin
<1> DEFINE new == Marked(rows, ids, "revoked")
           row(i) == IF i \in ids THEN [rows[i] EXCEPT !.status = "revoked"] ELSE rows[i]
<1>1. Len(rows) \in Nat /\ \A i \in 1..Len(rows) : rows[i] \in Token
  BY ElementOfSeq, LenProperties
<1>2. ASSUME NEW i \in 1..Len(rows)
      PROVE  /\ row(i) \in Token
             /\ row(i).status = IF i \in ids THEN "revoked" ELSE rows[i].status
             /\ row(i).expiresAt = rows[i].expiresAt
             /\ row(i).origin = rows[i].origin
  BY <1>1 DEF Token
<1>3. new = [i \in 1..Len(rows) |-> row(i)]
  BY DEF Marked
<1> HIDE DEF row
<1>4. \A i \in 1..Len(rows) : new[i] = row(i)
  BY <1>3
<1>5. new \in Seq(Token) /\ Len(new) = Len(rows)
  <2>1. DOMAIN new = 1..Len(rows)
    BY <1>3
  <2>2. new \in [1..Len(rows) -> Token]
    BY <1>2, <1>3
  <2>3. new \in Seq(Token)
    BY <1>1, <2>2
  <2> QED BY <1>1, <2>1, <2>3, LenProperties
<1> QED BY <1>2, <1>4, <1>5 DEF row

\* The same for invites, which may also be claimed.
LEMMA MarkedInvites ==
  ASSUME NEW rows \in Seq(Invite), NEW ids, NEW status \in {"revoked", "claimed"}
  PROVE  LET new == Marked(rows, ids, status)
         IN  /\ new \in Seq(Invite) /\ Len(new) = Len(rows)
             /\ \A i \in 1..Len(rows) :
                  /\ new[i] \in Invite
                  /\ new[i].status = IF i \in ids THEN status ELSE rows[i].status
                  /\ new[i].expiresAt = rows[i].expiresAt
<1> DEFINE new == Marked(rows, ids, status)
           row(i) == IF i \in ids THEN [rows[i] EXCEPT !.status = status] ELSE rows[i]
<1>1. Len(rows) \in Nat /\ \A i \in 1..Len(rows) : rows[i] \in Invite
  BY ElementOfSeq, LenProperties
<1>2. ASSUME NEW i \in 1..Len(rows)
      PROVE  /\ row(i) \in Invite
             /\ row(i).status = IF i \in ids THEN status ELSE rows[i].status
             /\ row(i).expiresAt = rows[i].expiresAt
  BY <1>1 DEF Invite
<1>3. new = [i \in 1..Len(rows) |-> row(i)]
  BY DEF Marked
<1> HIDE DEF row
<1>4. \A i \in 1..Len(rows) : new[i] = row(i)
  BY <1>3
<1>5. new \in Seq(Invite) /\ Len(new) = Len(rows)
  <2>1. DOMAIN new = 1..Len(rows)
    BY <1>3
  <2>2. new \in [1..Len(rows) -> Invite]
    BY <1>2, <1>3
  <2>3. new \in Seq(Invite)
    BY <1>1, <2>2
  <2> QED BY <1>1, <2>1, <2>3, LenProperties
<1> QED BY <1>2, <1>4, <1>5 DEF row

\* A set of which no two members differ has one at most.
LEMMA OneIsOne ==
  ASSUME NEW S, \A i, j \in S : i = j
  PROVE  Cardinality(S) <= 1
<1>1. CASE S = {}
  BY <1>1, FS_EmptySet
<1>2. CASE S # {}
  <2>1. PICK x : S = {x}
    BY <1>2
  <2> QED BY <2>1, FS_Singleton
<1> QED BY <1>1, <1>2

-----------------------------------------------------------------------------
(* The invariant *)

Holding(q)  == q.at \in {"access", "revoke", "insert"}
Claiming(q) == q.op = "claim" /\ q.at # "lock_invite"
Inviting(q) == q.op = "invite" /\ q.at = "insert"
Issuing(q)  == q.op \in {"issue", "claim"} /\ q.at = "insert"

\* What a request under way may rely on.
Good(q) ==
  /\ q.op = "none" <=> q.at = "idle"
  /\ q.op = "update" <=> q.at = "write"
  /\ q.op = "update" => q.row.status # "absent"
  /\ q.at = "lock_invite" => q.op = "claim"
  /\ IF q.op = "claim" THEN q.invite \in 1..Len(invites) ELSE q.invite = 0
  /\ q.start <= now
  /\ Holding(q) => sub.status = "active"
  /\ Claiming(q) => invites[q.invite].status = "active"
  /\ Inviting(q) => q.revokes = Active(invites)
  /\ Issuing(q) => q.revokes = Active(tokens)

\* What two requests never do at the same time.
Apart(q, p) ==
  /\ ~(Holding(q) /\ Holding(p))
  /\ Claiming(q) /\ Claiming(p) => q.invite # p.invite
  /\ Claiming(q) /\ Inviting(p) => q.invite \notin p.revokes

Requests ==
  /\ \A s \in Session : Good(sessions[s])
  /\ \A s, t \in Session : s # t => Apart(sessions[s], sessions[t])

Rows ==
  /\ sub.status = "absent" => sub.expiresAt = 0
  /\ \A i, j \in Active(tokens) : i = j
  /\ \A i, j \in Active(invites) : i = j
  /\ \A k \in 1..Len(tokens) : tokens[k].origin \in 0..Len(invites)

AccessInv ==
  /\ TypeOK
  /\ Requests
  /\ Rows
  /\ InviteClaimedOnce
  /\ NeverOutlivesSubscription

-----------------------------------------------------------------------------
(* Statements that change no row *)

\* A request that moves on, when what it relies on holds and nobody is in its way.
LEMMA SessionStep ==
  ASSUME AccessInv, NEW s \in Session, NEW q \in Request,
         sessions' = [sessions EXCEPT ![s] = q],
         UNCHANGED <<sub, userStatus, tokens, invites, now>>,
         Good(q),
         \A t \in Session : t # s => Apart(q, sessions[t]) /\ Apart(sessions[t], q)
  PROVE  AccessInv'
<1>1. /\ sessions \in [Session -> Request] /\ Requests
  BY DEF AccessInv, TypeOK
<1>2. /\ sessions' \in [Session -> Request] /\ sessions'[s] = q
      /\ \A t \in Session : t # s => sessions'[t] = sessions[t]
  BY <1>1
<1>3. \A t \in Session : Good(sessions'[t])
  BY <1>1, <1>2 DEF Requests
<1>4. \A t \in Session : Good(sessions[t])'
  BY <1>3 DEF Good, Active
<1>5. \A t, u \in Session : t # u => Apart(sessions'[t], sessions'[u])
  BY <1>1, <1>2 DEF Requests
<1>6. Requests'
  BY <1>4, <1>5 DEF Requests, Apart, Holding, Claiming, Inviting
<1>7. TypeOK'
  BY <1>2 DEF AccessInv, TypeOK
<1>8. Rows' /\ InviteClaimedOnce' /\ NeverOutlivesSubscription'
  BY DEF AccessInv, Rows, Active, InviteClaimedOnce, NeverOutlivesSubscription
<1> QED BY <1>6, <1>7, <1>8 DEF AccessInv

\* The end of a request is in nobody's way.
LEMMA EndStep ==
  ASSUME AccessInv, NEW s \in Session, End(s),
         UNCHANGED <<sub, userStatus, tokens, invites, now>>
  PROVE  AccessInv'
<1>1. NoRequest \in Request /\ NoRequest.op = "none" /\ NoRequest.at = "idle"
      /\ NoRequest.invite = 0 /\ NoRequest.start = 0
  BY DEF NoRequest, Request, NoSubscription, SubscriptionRow, SubscriptionStatus,
         Operation
<1>2. now \in Nat
  BY DEF AccessInv, TypeOK
<1>3. Good(NoRequest)
  BY <1>1, <1>2 DEF Good, Holding, Claiming, Inviting, Issuing
<1>4. \A p : Apart(NoRequest, p) /\ Apart(p, NoRequest)
  BY <1>1 DEF Apart, Holding, Claiming, Inviting
<1> QED BY <1>1, <1>3, <1>4, SessionStep DEF End

\* A request that begins.
LEMMA OpenStep ==
  ASSUME AccessInv, NEW s \in Session, Begin(s)
  PROVE  AccessInv'
<1>1. /\ NoRequest.op = "none" /\ NoRequest.invite = 0 /\ NoRequest \in Request
      /\ sub \in SubscriptionRow /\ now \in Nat /\ Len(invites) \in Nat
  BY LenProperties
  DEF NoRequest, Request, NoSubscription, SubscriptionRow, SubscriptionStatus,
      Operation, AccessInv, TypeOK
<1>2. ASSUME NEW q \in Request, Open(s, q), Good(q),
             q.at \notin {"access", "revoke", "insert"},
             q.op = "claim" => q.at = "lock_invite"
      PROVE  AccessInv'
  <2>1. \A p : Apart(q, p) /\ Apart(p, q)
    BY <1>2 DEF Apart, Holding, Claiming, Inviting
  <2> QED BY <1>2, <2>1, SessionStep DEF Open
<1>3. ASSUME NEW op \in {"issue", "invite"},
             Open(s, [NoRequest EXCEPT !.op = op, !.at = "eligible", !.start = now])
      PROVE  AccessInv'
  <2> DEFINE q == [NoRequest EXCEPT !.op = op, !.at = "eligible", !.start = now]
  <2>1. /\ q \in Request /\ q.op = op /\ q.at = "eligible" /\ q.start = now
        /\ q.invite = 0
    BY <1>1, <1>3 DEF Request, Operation
  <2> HIDE DEF q
  <2>2. Good(q)
    BY <1>1, <1>3, <2>1 DEF Good, Holding, Claiming, Inviting, Issuing
  <2>3. Open(s, q)
    BY <1>3 DEF q
  <2> QED BY <1>2, <1>3, <2>1, <2>2, <2>3
<1>4. ASSUME NEW i \in 1..Len(invites), BeginClaim(s, i) PROVE AccessInv'
  <2> DEFINE q == [NoRequest EXCEPT !.op = "claim", !.at = "lock_invite",
                                    !.start = now, !.invite = i]
  <2>1. i \in Nat
    BY <1>1, <1>4
  <2>2. /\ q \in Request /\ q.op = "claim" /\ q.at = "lock_invite" /\ q.start = now
        /\ q.invite = i
    BY <1>1, <2>1 DEF Request, Operation
  <2> HIDE DEF q
  <2>3. Good(q)
    BY <1>1, <1>4, <2>2 DEF Good, Holding, Claiming, Inviting, Issuing
  <2>4. Open(s, q)
    BY <1>4 DEF q, BeginClaim
  <2> QED BY <1>2, <2>2, <2>3, <2>4
<1>5. ASSUME BeginUpdate(s) PROVE AccessInv'
  <2>1. PICK status \in SubscriptionStatus :
          Open(s, [NoRequest EXCEPT !.op = "update", !.at = "write",
                                    !.row = [sub EXCEPT !.status = status]])
    BY <1>5 DEF BeginUpdate
  <2> DEFINE row == [sub EXCEPT !.status = status]
             q == [NoRequest EXCEPT !.op = "update", !.at = "write", !.row = row]
  <2>2. row \in SubscriptionRow /\ row.status # "absent"
    BY <1>1 DEF SubscriptionRow, SubscriptionStatus
  <2> HIDE DEF row
  <2>3. /\ q \in Request /\ q.op = "update" /\ q.at = "write" /\ q.invite = 0
        /\ q.start = NoRequest.start /\ q.row = row
    BY <1>1, <2>2 DEF Request, Operation
  <2>4. NoRequest.start = 0
    BY DEF NoRequest
  <2> HIDE DEF q
  <2>5. Good(q)
    BY <1>1, <2>1, <2>2, <2>3, <2>4 DEF Good, Holding, Claiming, Inviting, Issuing
  <2>6. Open(s, q)
    BY <2>1 DEF q, row
  <2> QED BY <1>2, <2>3, <2>5, <2>6
<1> QED BY <1>3, <1>4, <1>5 DEF Begin, BeginIssue, BeginInvite

\* A claim that locks its invite, a request that locks the subscription, a claim
\* that reads what the client is given, and an UPDATE ... 'revoked': each waits
\* for whoever is in its way.
LEMMA LockStep ==
  ASSUME AccessInv, NEW s \in Session,
         \/ LockInvite(s) \/ AwaitSubscription(s) \/ EnsureEligible(s)
         \/ ReadAccess(s) \/ RevokePrevious(s)
  PROVE  AccessInv'
<1> DEFINE q == sessions[s]
<1>1. /\ q \in Request /\ Good(q) /\ sessions \in [Session -> Request]
      /\ \A t \in Session : t # s => Apart(q, sessions[t]) /\ Apart(sessions[t], q)
      /\ \A t \in Session : Good(sessions[t])
  BY DEF AccessInv, TypeOK, Requests
<1>2. UNCHANGED <<sub, userStatus, tokens, invites, now>>
  BY DEF LockInvite, AwaitSubscription, EnsureEligible, ReadAccess, RevokePrevious
<1>3. CASE End(s)
  BY <1>2, <1>3, EndStep
<1>4. ASSUME NEW step \in {"eligible", "access", "revoke"}, Goto(s, step)
      PROVE  \E p \in Request :
               /\ sessions' = [sessions EXCEPT ![s] = p]
               /\ p.at = step /\ p.op = q.op /\ p.invite = q.invite
               /\ p.start = q.start
  <2> DEFINE p == [q EXCEPT !.at = step, !.waits = FALSE]
  <2>1. /\ p \in Request /\ p.at = step /\ p.op = q.op /\ p.invite = q.invite
        /\ p.start = q.start
    BY <1>1, <1>4 DEF Request
  <2>2. sessions' = [sessions EXCEPT ![s] = p]
    BY <1>1, <1>4 DEF Goto
  <2> QED BY <2>1, <2>2
<1>5. CASE LockInvite(s) /\ ~End(s)
  <2>1. /\ q.at = "lock_invite" /\ CanRun(s) /\ Goto(s, "eligible")
        /\ invites[q.invite].status = "active"
    BY <1>5 DEF LockInvite
  <2>2. PICK p \in Request :
          /\ sessions' = [sessions EXCEPT ![s] = p]
          /\ p.at = "eligible" /\ p.op = q.op /\ p.invite = q.invite
          /\ p.start = q.start
    BY <1>4, <2>1
  <2>3. Good(p)
    BY <1>1, <2>1, <2>2 DEF Good, Holding, Claiming, Inviting, Issuing
  <2>4. ASSUME NEW t \in Session, t # s
        PROVE  Apart(p, sessions[t]) /\ Apart(sessions[t], p)
    <3>1. q.invite \notin HeldInvites(t)
      BY <2>1, <2>4 DEF CanRun, WaitsFor
    <3>2. Claiming(sessions[t]) => sessions[t].invite # q.invite
      BY <3>1 DEF Claiming, HeldInvites
    <3>3. Inviting(sessions[t]) => q.invite \notin sessions[t].revokes
      BY <3>1 DEF Inviting, HeldInvites
    <3> QED BY <2>2, <3>2, <3>3 DEF Apart, Holding, Inviting
  <2> QED BY <1>2, <2>2, <2>3, <2>4, SessionStep
<1>6. CASE EnsureEligible(s) /\ ~End(s)
  <2>1. /\ q.at = "eligible" /\ CanRun(s) /\ sub.status = "active"
        /\ Goto(s, IF q.op = "claim" THEN "access" ELSE "revoke")
    BY <1>6 DEF EnsureEligible, Valid
  <2>2. PICK p \in Request :
          /\ sessions' = [sessions EXCEPT ![s] = p]
          /\ p.at \in {"access", "revoke"} /\ p.op = q.op /\ p.invite = q.invite
          /\ p.start = q.start
    BY <1>4, <2>1
  <2>3. Good(p)
    BY <1>1, <2>1, <2>2 DEF Good, Holding, Claiming, Inviting, Issuing
  <2>4. ASSUME NEW t \in Session, t # s
        PROVE  Apart(p, sessions[t]) /\ Apart(sessions[t], p)
    <3>1. ~Holding(sessions[t])
      BY <2>1, <2>4 DEF CanRun, WaitsFor, HoldsSubscription, Holding
    <3> QED
      BY <1>1, <2>1, <2>2, <2>4, <3>1 DEF Apart, Claiming, Inviting
  <2> QED BY <1>2, <2>2, <2>3, <2>4, SessionStep
<1>7. CASE ReadAccess(s) /\ ~End(s)
  <2>1. q.at = "access" /\ Goto(s, "revoke")
    BY <1>7 DEF ReadAccess
  <2>2. PICK p \in Request :
          /\ sessions' = [sessions EXCEPT ![s] = p]
          /\ p.at = "revoke" /\ p.op = q.op /\ p.invite = q.invite
          /\ p.start = q.start
    BY <1>4, <2>1
  <2>3. Good(p)
    BY <1>1, <2>1, <2>2 DEF Good, Holding, Claiming, Inviting, Issuing
  <2>4. \A t \in Session : t # s => Apart(p, sessions[t]) /\ Apart(sessions[t], p)
    BY <1>1, <2>1, <2>2 DEF Apart, Holding, Claiming, Inviting
  <2> QED BY <1>2, <2>2, <2>3, <2>4, SessionStep
<1>8. CASE RevokePrevious(s)
  <2> DEFINE p == [q EXCEPT !.at = "insert", !.revokes = ToRevoke(s)]
  <2>1. q.at = "revoke" /\ CanRun(s) /\ sessions' = [sessions EXCEPT ![s] = p]
    BY <1>1, <1>8 DEF RevokePrevious
  <2>2. ToRevoke(s) \in SUBSET Nat
    BY LenProperties DEF ToRevoke, Active, AccessInv, TypeOK
  <2>3. /\ p \in Request /\ p.at = "insert" /\ p.op = q.op /\ p.invite = q.invite
        /\ p.start = q.start /\ p.revokes = ToRevoke(s)
    BY <1>1, <2>2 DEF Request
  <2> HIDE DEF p
  <2>4. Good(p)
    BY <1>1, <2>1, <2>3 DEF Good, Holding, Claiming, Inviting, Issuing, ToRevoke
  <2>5. ASSUME NEW t \in Session, t # s
        PROVE  Apart(p, sessions[t]) /\ Apart(sessions[t], p)
    <3>1. ~Holding(sessions[t])
      BY <1>1, <2>1, <2>5 DEF Apart, Holding
    <3>2. ASSUME q.op = "invite", Claiming(sessions[t])
          PROVE  sessions[t].invite \notin p.revokes
      <4>1. ToRevoke(s) \cap Held(s, t) = {}
        BY <2>1, <2>5 DEF CanRun, WaitsFor
      <4>2. Held(s, t) = {sessions[t].invite}
        BY <3>2 DEF Held, HeldInvites, Claiming
      <4> QED BY <2>3, <4>1, <4>2
    <3> QED
      BY <1>1, <2>1, <2>3, <2>5, <3>1, <3>2 DEF Apart, Claiming, Inviting, Holding
  <2> QED BY <1>2, <2>1, <2>3, <2>4, <2>5, SessionStep
<1>9. CASE AwaitSubscription(s)
  <2> DEFINE p == [q EXCEPT !.waits = TRUE]
  <2>1. q.at = "eligible" /\ sessions' = [sessions EXCEPT ![s] = p]
    BY <1>1, <1>9 DEF AwaitSubscription
  <2>2. /\ p \in Request /\ p.at = q.at /\ p.op = q.op /\ p.invite = q.invite
        /\ p.start = q.start /\ p.row = q.row /\ p.revokes = q.revokes
    BY <1>1 DEF Request
  <2> HIDE DEF p
  <2>3. Good(p)
    BY <1>1, <2>1, <2>2 DEF Good, Holding, Claiming, Inviting, Issuing
  <2>4. \A t \in Session : t # s => Apart(p, sessions[t]) /\ Apart(sessions[t], p)
    BY <1>1, <2>1, <2>2 DEF Apart, Holding, Claiming, Inviting
  <2> QED BY <1>2, <2>1, <2>2, <2>3, <2>4, SessionStep
<1> QED BY <1>3, <1>5, <1>6, <1>7, <1>8, <1>9

-----------------------------------------------------------------------------
(* Statements that change rows *)

\* The clock, a user's status, and the statements on the subscriptions row.
LEMMA SubscriptionStep ==
  ASSUME AccessInv,
         Tick \/ SetStatus \/ Create \/ Renew
  PROVE  AccessInv'
<1>1. /\ sub \in SubscriptionRow /\ now \in Nat
      /\ Requests /\ Rows /\ NeverOutlivesSubscription
      /\ PlanDays \in Nat /\ ExtendDays \in Nat /\ Day \in Nat
      /\ tokens \in Seq(Token) /\ invites \in Seq(Invite)
  BY AccessAssumption DEF AccessInv, TypeOK
<1>2. /\ UNCHANGED <<tokens, invites, sessions>>
      /\ userStatus' \in {"active", "suspended"}
      /\ now' \in Nat /\ now <= now'
  BY <1>1 DEF Tick, SetStatus, Create, Renew, AccessInv, TypeOK
<1>3. /\ sub' \in SubscriptionRow /\ sub.expiresAt <= sub'.expiresAt
      /\ sub' = sub \/ sub'.status = "active"
  <2>1. CASE Tick \/ SetStatus
    BY <1>1, <2>1 DEF Tick, SetStatus, SubscriptionRow
  <2>2. CASE Create
    BY <1>1, <2>2 DEF Create, SubscriptionRow, SubscriptionStatus, Rows
  <2>3. CASE Renew
    <3>1. Later(sub.expiresAt, now) \in Nat /\ sub.expiresAt <= Later(sub.expiresAt, now)
      BY <1>1 DEF Later, SubscriptionRow
    <3>2. sub' = [status |-> "active", expiresAt |-> Later(sub.expiresAt, now) + ExtendDays]
      BY <2>3 DEF Renew
    <3> HIDE DEF Later
    <3>3. sub' \in SubscriptionRow /\ sub'.status = "active"
          /\ sub'.expiresAt = Later(sub.expiresAt, now) + ExtendDays
      BY <1>1, <3>1, <3>2 DEF SubscriptionRow, SubscriptionStatus
    <3> QED BY <1>1, <3>1, <3>3 DEF SubscriptionRow
  <2> QED BY <2>1, <2>2, <2>3
<1>4. TypeOK'
  BY <1>2, <1>3 DEF AccessInv, TypeOK
<1>5. \A s \in Session : sessions[s].start \in Nat
  BY DEF AccessInv, TypeOK, Request
<1>6. Requests'
  BY <1>1, <1>2, <1>3, <1>5
  DEF Requests, Good, Apart, Holding, Claiming, Inviting, Issuing, Active
<1>7. Rows' /\ InviteClaimedOnce'
  <2>1. Rows'
    BY <1>1, <1>2, <1>3 DEF AccessInv, Rows, Active
  <2>2. InviteClaimedOnce'
    BY <1>2 DEF AccessInv, InviteClaimedOnce
  <2> QED BY <2>1, <2>2
<1>8. NeverOutlivesSubscription'
  <2>1. ASSUME NEW k \in 1..Len(tokens) PROVE tokens[k].expiresAt \in Nat
    <3>1. tokens[k] \in Token
      BY <1>1, ElementOfSeq
    <3> QED BY <3>1 DEF Token
  <2>2. ASSUME NEW i \in 1..Len(invites) PROVE invites[i].expiresAt \in Nat
    <3>1. invites[i] \in Invite
      BY <1>1, ElementOfSeq
    <3> QED BY <3>1 DEF Invite
  <2>3. sub.expiresAt \in Nat /\ sub'.expiresAt \in Nat
    BY <1>1, <1>3 DEF SubscriptionRow
  <2>4. ASSUME NEW k \in 1..Len(tokens) PROVE tokens[k].expiresAt <= sub'.expiresAt
    BY <1>1, <1>3, <2>1, <2>3 DEF NeverOutlivesSubscription
  <2>5. ASSUME NEW i \in 1..Len(invites)
        PROVE  invites[i].expiresAt <= Sooner(sub'.expiresAt, now' + Day)
    <3>1. invites[i].expiresAt <= Sooner(sub.expiresAt, now + Day)
      BY <1>1, <2>5 DEF NeverOutlivesSubscription
    <3>2. \A a, b, c, d \in Nat : a <= c /\ b <= d =>
            Sooner(a, b) \in Nat /\ Sooner(c, d) \in Nat /\ Sooner(a, b) <= Sooner(c, d)
      BY DEF Sooner
    <3> HIDE DEF Sooner
    <3>3. now \in Nat /\ now' \in Nat /\ Day \in Nat /\ now <= now'
      BY <1>1, <1>2
    <3>4. now + Day \in Nat /\ now' + Day \in Nat /\ now + Day <= now' + Day
      <4>1. \A a, b, c \in Nat :
              a <= b => a + c \in Nat /\ b + c \in Nat /\ a + c <= b + c
        OBVIOUS
      <4> QED BY <3>3, <4>1
    <3>5. /\ Sooner(sub.expiresAt, now + Day) \in Nat
          /\ Sooner(sub'.expiresAt, now' + Day) \in Nat
          /\ Sooner(sub.expiresAt, now + Day) <= Sooner(sub'.expiresAt, now' + Day)
      BY <1>3, <2>3, <3>2, <3>4
    <3>6. invites[i].expiresAt \in Nat
      BY <2>2
    <3> QED BY <3>1, <3>5, <3>6
  <2> QED BY <1>2, <2>4, <2>5 DEF NeverOutlivesSubscription
<1> QED BY <1>4, <1>6, <1>7, <1>8 DEF AccessInv

\* DELETE of the access token: nobody is between revoking tokens and the commit,
\* unless there was none to revoke.
LEMMA RevokeTokenStep ==
  ASSUME AccessInv, RevokeAccessToken
  PROVE  AccessInv'
<1>1. /\ tokens \in Seq(Token) /\ Requests /\ Rows
      /\ InviteClaimedOnce /\ NeverOutlivesSubscription
  BY DEF AccessInv, TypeOK
<1>2. /\ tokens' = Marked(tokens, Active(tokens), "revoked")
      /\ UNCHANGED <<sub, userStatus, invites, now, sessions>>
      /\ \A t \in Session : Active(tokens) \cap HeldTokens(t) = {}
  BY DEF RevokeAccessToken
<1>3. /\ tokens' \in Seq(Token) /\ Len(tokens') = Len(tokens)
      /\ \A i \in 1..Len(tokens) :
           /\ tokens'[i].status # "active"
           /\ tokens'[i].expiresAt = tokens[i].expiresAt
           /\ tokens'[i].origin = tokens[i].origin
  <2>1. /\ tokens' \in Seq(Token) /\ Len(tokens') = Len(tokens)
        /\ \A i \in 1..Len(tokens) :
             /\ tokens'[i].status = IF i \in Active(tokens) THEN "revoked"
                                                            ELSE tokens[i].status
             /\ tokens'[i].expiresAt = tokens[i].expiresAt
             /\ tokens'[i].origin = tokens[i].origin
    BY <1>1, <1>2, MarkedTokens
  <2>2. \A i \in 1..Len(tokens) : i \notin Active(tokens) => tokens[i].status # "active"
    BY DEF Active
  <2> QED BY <2>1, <2>2
<1>4. Active(tokens)' = {}
  <2>1. \A i \in 1..Len(tokens') : tokens'[i].status # "active"
    BY <1>3
  <2> QED BY <2>1 DEF Active
<1>5. ASSUME NEW s \in Session, Issuing(sessions[s]) PROVE Active(tokens) = {}
  BY <1>1, <1>2, <1>5 DEF Requests, Good, Issuing, HeldTokens
<1>6. \A s \in Session : Good(sessions[s])'
  BY <1>1, <1>2, <1>4, <1>5
  DEF Requests, Good, Holding, Claiming, Inviting, Issuing, Active
<1>7. Requests'
  BY <1>1, <1>2, <1>6 DEF Requests, Apart, Holding, Claiming, Inviting
<1>8. Rows'
  <2>1. \A i, j \in Active(tokens)' : i = j
    BY <1>4
  <2>2. \A i, j \in Active(invites)' : i = j
    BY <1>1, <1>2 DEF Rows, Active
  <2>3. \A k \in 1..Len(tokens') : tokens'[k].origin \in 0..Len(invites')
    BY <1>1, <1>2, <1>3 DEF Rows
  <2> QED BY <1>1, <1>2, <2>1, <2>2, <2>3 DEF Rows
<1>9. InviteClaimedOnce' /\ NeverOutlivesSubscription'
  <2>1. InviteClaimedOnce'
    BY <1>1, <1>2, <1>3 DEF InviteClaimedOnce
  <2>2. NeverOutlivesSubscription'
    BY <1>1, <1>2, <1>3 DEF NeverOutlivesSubscription
  <2> QED BY <2>1, <2>2
<1>10. TypeOK'
  BY <1>2, <1>3 DEF AccessInv, TypeOK
<1> QED BY <1>7, <1>8, <1>9, <1>10 DEF AccessInv

\* DELETE of the invite: no claim has locked it.
LEMMA RevokeInviteStep ==
  ASSUME AccessInv, RevokeHandoffInvite
  PROVE  AccessInv'
<1>1. /\ invites \in Seq(Invite) /\ Requests /\ Rows
      /\ InviteClaimedOnce /\ NeverOutlivesSubscription
  BY DEF AccessInv, TypeOK
<1>2. /\ invites' = Marked(invites, Active(invites), "revoked")
      /\ UNCHANGED <<sub, userStatus, tokens, now, sessions>>
      /\ \A t \in Session : Active(invites) \cap HeldInvites(t) = {}
  BY DEF RevokeHandoffInvite
<1>3. /\ invites' \in Seq(Invite) /\ Len(invites') = Len(invites)
      /\ \A i \in 1..Len(invites) :
           /\ invites'[i].status # "active"
           /\ invites'[i].status = "claimed" <=> invites[i].status = "claimed"
           /\ invites'[i].expiresAt = invites[i].expiresAt
  <2>1. /\ invites' \in Seq(Invite) /\ Len(invites') = Len(invites)
        /\ \A i \in 1..Len(invites) :
             /\ invites'[i].status = IF i \in Active(invites) THEN "revoked"
                                                              ELSE invites[i].status
             /\ invites'[i].expiresAt = invites[i].expiresAt
    BY <1>1, <1>2, MarkedInvites
  <2>2. \A i \in 1..Len(invites) : i \in Active(invites) <=> invites[i].status = "active"
    BY DEF Active
  <2> QED BY <2>1, <2>2
<1>4. Active(invites)' = {}
  <2>1. \A i \in 1..Len(invites') : invites'[i].status # "active"
    BY <1>3
  <2> QED BY <2>1 DEF Active
<1>5. ASSUME NEW s \in Session, Inviting(sessions[s]) PROVE Active(invites) = {}
  BY <1>1, <1>2, <1>5 DEF Requests, Good, Inviting, HeldInvites
<1>6. ASSUME NEW s \in Session, Claiming(sessions[s]) PROVE FALSE
  <2>1. sessions[s].invite \in Active(invites)
    BY <1>1, <1>6 DEF Requests, Good, Claiming, Active
  <2>2. sessions[s].invite \in HeldInvites(s)
    BY <1>6 DEF Claiming, HeldInvites
  <2> QED BY <1>2, <2>1, <2>2
<1>7. \A s \in Session : Good(sessions[s])'
  BY <1>1, <1>2, <1>3, <1>4, <1>5, <1>6
  DEF Requests, Good, Holding, Claiming, Inviting, Issuing, Active
<1>8. Requests'
  BY <1>1, <1>2, <1>7 DEF Requests, Apart, Holding, Claiming, Inviting
<1>9. Rows'
  <2>1. \A i, j \in Active(invites)' : i = j
    BY <1>4
  <2>2. \A i, j \in Active(tokens)' : i = j
    BY <1>1, <1>2 DEF Rows, Active
  <2>3. \A k \in 1..Len(tokens') : tokens'[k].origin \in 0..Len(invites')
    BY <1>1, <1>2, <1>3 DEF Rows
  <2> QED BY <1>1, <1>2, <2>1, <2>2, <2>3 DEF Rows
<1>10. InviteClaimedOnce' /\ NeverOutlivesSubscription'
  BY <1>1, <1>2, <1>3 DEF InviteClaimedOnce, NeverOutlivesSubscription, Sooner
<1>11. TypeOK'
  BY <1>2, <1>3 DEF AccessInv, TypeOK
<1> QED BY <1>8, <1>9, <1>10, <1>11 DEF AccessInv

\* A request that ends while the others do not hold the subscription, whose
\* claims keep their invites.
LEMMA LastStep ==
  ASSUME AccessInv, NEW s \in Session, End(s), UNCHANGED now,
         \A t \in Session : t # s => ~Holding(sessions[t]),
         Len(invites') \in Nat, Len(invites) <= Len(invites'),
         \A t \in Session : t # s /\ Claiming(sessions[t]) =>
           invites'[sessions[t].invite].status = "active"
  PROVE  Requests' /\ sessions' \in [Session -> Request]
<1>1. NoRequest \in Request /\ NoRequest.op = "none" /\ NoRequest.at = "idle"
      /\ NoRequest.invite = 0 /\ NoRequest.start = 0
  BY DEF NoRequest, Request, NoSubscription, SubscriptionRow, SubscriptionStatus,
         Operation
<1>2. /\ sessions \in [Session -> Request] /\ Requests /\ now \in Nat
      /\ Len(invites) \in Nat
  BY LenProperties DEF AccessInv, TypeOK
<1>3. /\ sessions' \in [Session -> Request] /\ sessions'[s] = NoRequest
      /\ \A t \in Session : t # s => sessions'[t] = sessions[t]
  BY <1>1, <1>2 DEF End
<1>4. Good(sessions[s])'
  BY <1>1, <1>2, <1>3 DEF Good, Holding, Claiming, Inviting, Issuing
<1>5. ASSUME NEW t \in Session, t # s PROVE Good(sessions[t])'
  <2>1. Good(sessions[t]) /\ ~Holding(sessions[t]) /\ sessions'[t] = sessions[t]
    BY <1>2, <1>3, <1>5 DEF Requests
  <2>2. \A i \in 1..Len(invites) : i \in 1..Len(invites')
    BY <1>2
  <2> QED BY <1>5, <2>1, <2>2 DEF Good, Holding, Claiming, Inviting, Issuing
<1>6. ASSUME NEW t \in Session, NEW u \in Session, t # u
      PROVE  Apart(sessions[t], sessions[u])'
  <2>1. CASE t = s \/ u = s
    BY <1>1, <1>3, <1>6, <2>1 DEF Apart, Holding, Claiming, Inviting
  <2>2. CASE t # s /\ u # s
    BY <1>2, <1>3, <1>6, <2>2 DEF Requests, Apart, Holding, Claiming, Inviting
  <2> QED BY <2>1, <2>2
<1> QED BY <1>3, <1>4, <1>5, <1>6 DEF Requests

\* The UPDATE of a PATCH: nobody holds the subscription.
LEMMA UpdateStep ==
  ASSUME AccessInv, NEW s \in Session, WriteUpdate(s)
  PROVE  AccessInv'
<1>1. /\ sub \in SubscriptionRow /\ sessions \in [Session -> Request] /\ Requests
      /\ Len(invites) \in Nat
  BY LenProperties DEF AccessInv, TypeOK
<1>2. /\ sessions[s].at = "write" /\ CanRun(s) /\ End(s)
      /\ sub' = [sub EXCEPT !.status = sessions[s].row.status]
      /\ UNCHANGED <<userStatus, tokens, invites, now>>
  BY DEF WriteUpdate
<1>3. ASSUME NEW t \in Session, t # s PROVE ~Holding(sessions[t])
  BY <1>2, <1>3 DEF CanRun, WaitsFor, HoldsSubscription, Holding
<1>4. ASSUME NEW t \in Session, Claiming(sessions[t])
      PROVE  invites'[sessions[t].invite].status = "active"
  BY <1>1, <1>2, <1>4 DEF Requests, Good
<1>5. Requests' /\ sessions' \in [Session -> Request]
  BY <1>1, <1>2, <1>3, <1>4, LastStep
<1>6. sessions[s].row \in SubscriptionRow /\ sessions[s].row.status # "absent"
  BY <1>1, <1>2 DEF Request, Requests, Good
<1>7. /\ sub' \in SubscriptionRow /\ sub'.expiresAt = sub.expiresAt
      /\ sub'.status # "absent"
  BY <1>1, <1>2, <1>6 DEF SubscriptionRow
<1>8. TypeOK'
  BY <1>2, <1>5, <1>7 DEF AccessInv, TypeOK
<1>9. Rows' /\ InviteClaimedOnce' /\ NeverOutlivesSubscription'
  BY <1>2, <1>7
  DEF AccessInv, Rows, Active, InviteClaimedOnce, NeverOutlivesSubscription
<1> QED BY <1>5, <1>8, <1>9 DEF AccessInv

\* What a token that is issued leaves: it is the only active one.
LEMMA TokensIssued ==
  ASSUME tokens \in Seq(Token), NEW x \in Nat, NEW o \in Nat,
         tokens' = Append(Marked(tokens, Active(tokens), "revoked"),
                     [status |-> "active", expiresAt |-> x, origin |-> o])
  PROVE  /\ tokens' \in Seq(Token) /\ Len(tokens') = Len(tokens) + 1
         /\ \A k \in 1..Len(tokens) :
              /\ tokens'[k].status = "revoked" \/ tokens'[k].status = tokens[k].status
              /\ tokens'[k].expiresAt = tokens[k].expiresAt
              /\ tokens'[k].origin = tokens[k].origin
         /\ tokens'[Len(tokens) + 1].expiresAt = x
         /\ tokens'[Len(tokens) + 1].origin = o
         /\ Active(tokens)' = {Len(tokens) + 1}
         /\ \A i, j \in Active(tokens)' : i = j
<1> DEFINE old == Marked(tokens, Active(tokens), "revoked")
           new == [status |-> "active", expiresAt |-> x, origin |-> o]
<1>1. /\ old \in Seq(Token) /\ Len(old) = Len(tokens)
      /\ \A i \in 1..Len(tokens) :
           /\ old[i].status = IF i \in Active(tokens) THEN "revoked" ELSE tokens[i].status
           /\ old[i].expiresAt = tokens[i].expiresAt
           /\ old[i].origin = tokens[i].origin
  BY MarkedTokens
<1>2. new \in Token /\ new.status = "active" /\ new.expiresAt = x /\ new.origin = o
  BY DEF Token
<1>3. tokens' = Append(old, new)
  OBVIOUS
<1> HIDE DEF old, new
<1>4. /\ tokens' \in Seq(Token) /\ Len(tokens') = Len(tokens) + 1
      /\ \A k \in 1..Len(tokens) : tokens'[k] = old[k]
      /\ tokens'[Len(tokens) + 1] = new
  <2>1. old \in Seq(Token) /\ new \in Token /\ Len(old) = Len(tokens)
    BY <1>1, <1>2
  <2>2. /\ Append(old, new) \in Seq(Token) /\ Len(Append(old, new)) = Len(old) + 1
        /\ \A k \in 1..Len(old) : Append(old, new)[k] = old[k]
        /\ Append(old, new)[Len(old) + 1] = new
    BY <2>1, AppendProperties, SMTT(30)
  <2> QED BY <1>3, <2>1, <2>2
<1>5. \A i \in 1..Len(tokens) : i \notin Active(tokens) => tokens[i].status # "active"
  BY DEF Active
<1>6. \A i \in 1..Len(tokens) : tokens'[i].status # "active"
  BY <1>1, <1>4, <1>5
<1>7. Active(tokens)' = {Len(tokens) + 1}
  <2>1. Len(tokens) \in Nat
    BY LenProperties
  <2>2. \A i \in Active(tokens)' : i = Len(tokens) + 1
    BY <1>4, <1>6, <2>1 DEF Active
  <2>3. Len(tokens) + 1 \in Active(tokens)'
    BY <1>2, <1>4, <2>1 DEF Active
  <2> QED BY <2>2, <2>3
<1> QED BY <1>1, <1>2, <1>4, <1>7

\* The same of an invite.
LEMMA InvitesIssued ==
  ASSUME invites \in Seq(Invite), NEW x \in Nat,
         invites' = Append(Marked(invites, Active(invites), "revoked"),
                      [status |-> "active", expiresAt |-> x])
  PROVE  /\ invites' \in Seq(Invite) /\ Len(invites') = Len(invites) + 1
         /\ \A k \in 1..Len(invites) :
              /\ invites'[k].status
                   = IF k \in Active(invites) THEN "revoked" ELSE invites[k].status
              /\ invites'[k].expiresAt = invites[k].expiresAt
         /\ invites'[Len(invites) + 1] = [status |-> "active", expiresAt |-> x]
         /\ Active(invites)' = {Len(invites) + 1}
         /\ \A i, j \in Active(invites)' : i = j
<1> DEFINE old == Marked(invites, Active(invites), "revoked")
           new == [status |-> "active", expiresAt |-> x]
<1>1. /\ old \in Seq(Invite) /\ Len(old) = Len(invites)
      /\ \A i \in 1..Len(invites) :
           /\ old[i].status = IF i \in Active(invites) THEN "revoked" ELSE invites[i].status
           /\ old[i].expiresAt = invites[i].expiresAt
  BY MarkedInvites
<1>2. new \in Invite /\ new.status = "active"
  BY DEF Invite
<1>3. invites' = Append(old, new)
  OBVIOUS
<1> HIDE DEF old
<1> HIDE DEF new
<1>4. /\ invites' \in Seq(Invite) /\ Len(invites') = Len(invites) + 1
      /\ \A k \in 1..Len(invites) : invites'[k] = old[k]
      /\ invites'[Len(invites) + 1] = new
  <2>1. old \in Seq(Invite) /\ new \in Invite /\ Len(old) = Len(invites)
    BY <1>1, <1>2
  <2>2. /\ Append(old, new) \in Seq(Invite) /\ Len(Append(old, new)) = Len(old) + 1
        /\ \A k \in 1..Len(old) : Append(old, new)[k] = old[k]
        /\ Append(old, new)[Len(old) + 1] = new
    BY <2>1, AppendProperties, SMTT(30)
  <2> QED BY <1>3, <2>1, <2>2
<1>5. \A i \in 1..Len(invites) : i \notin Active(invites) => invites[i].status # "active"
  BY DEF Active
<1>6. \A i \in 1..Len(invites) : invites'[i].status # "active"
  BY <1>1, <1>4, <1>5
<1>7. Active(invites)' = {Len(invites) + 1}
  <2>1. Len(invites) \in Nat
    BY LenProperties
  <2>2. \A i \in Active(invites)' : i = Len(invites) + 1
    BY <1>4, <1>6, <2>1 DEF Active
  <2>3. Len(invites) + 1 \in Active(invites)'
    BY <1>2, <1>4, <2>1 DEF Active
  <2> QED BY <2>2, <2>3
<1> QED BY <1>1, <1>4, <1>7 DEF new

\* The INSERT and the commit.
LEMMA InsertStep ==
  ASSUME AccessInv, NEW s \in Session, InsertAndCommit(s)
  PROVE  /\ AccessInv' /\ sub.status = "active"
         /\ UNCHANGED sub
         /\ \A k \in 1..Len(tokens) :
              tokens'[k].status \in {tokens[k].status, "revoked"}
<1> DEFINE q == sessions[s]
<1>1. /\ q \in Request /\ Good(q) /\ sessions \in [Session -> Request]
      /\ \A t \in Session : t # s => Apart(q, sessions[t]) /\ Apart(sessions[t], q)
      /\ \A t \in Session : Good(sessions[t])
      /\ sub \in SubscriptionRow /\ now \in Nat
      /\ tokens \in Seq(Token) /\ invites \in Seq(Invite)
      /\ Rows /\ InviteClaimedOnce /\ NeverOutlivesSubscription
  BY DEF AccessInv, TypeOK, Requests
<1>2. /\ q.at = "insert" /\ End(s) /\ UNCHANGED <<sub, userStatus, now>>
      /\ IF q.op = "invite"
           THEN /\ invites' = Append(Marked(invites, q.revokes, "revoked"),
                                [status |-> "active", expiresAt |-> InviteExpiry(s)])
                /\ UNCHANGED tokens
           ELSE /\ tokens' = Append(Marked(tokens, q.revokes, "revoked"),
                               [status |-> "active", expiresAt |-> sub.expiresAt,
                                origin |-> q.invite])
                /\ invites' = InvitesClaimed(s)
  BY DEF InsertAndCommit
<1>3. /\ q.op \in {"issue", "claim", "invite"} /\ sub.status = "active"
      /\ q.op = "invite" => q.revokes = Active(invites)
      /\ q.op # "invite" => q.revokes = Active(tokens)
      /\ q.op # "claim" => q.invite = 0
  BY <1>1, <1>2 DEF Good, Holding, Inviting, Issuing, Request, Operation
<1>4. \A t \in Session : t # s => ~Holding(sessions[t])
  BY <1>1, <1>2 DEF Apart, Holding
<1>5. /\ sub.expiresAt \in Nat /\ Len(tokens) \in Nat /\ Len(invites) \in Nat
      /\ q.invite \in Nat /\ q.start \in Nat /\ q.start <= now /\ Day \in Nat
  BY <1>1, LenProperties, AccessAssumption DEF SubscriptionRow, Request, Good
<1>6. CASE q.op = "invite"
  <2> DEFINE x == InviteExpiry(s)
  <2>1. x \in Nat /\ x <= Sooner(sub.expiresAt, now + Day)
    <3>1. x = Sooner(sub.expiresAt, q.start + Day)
      BY DEF InviteExpiry
    <3>2. \A a, b, c \in Nat : b <= c => Sooner(a, b) \in Nat /\ Sooner(a, b) <= Sooner(a, c)
      BY DEF Sooner
    <3>3. q.start + Day \in Nat /\ now + Day \in Nat /\ q.start + Day <= now + Day
      <4>1. \A a, b, c \in Nat :
              a <= b => a + c \in Nat /\ b + c \in Nat /\ a + c <= b + c
        OBVIOUS
      <4> QED BY <1>1, <1>5, <4>1
    <3>4. sub.expiresAt \in Nat
      BY <1>5
    <3>5. /\ Sooner(sub.expiresAt, q.start + Day) \in Nat
          /\ Sooner(sub.expiresAt, q.start + Day) <= Sooner(sub.expiresAt, now + Day)
      BY <3>2, <3>3, <3>4
    <3> QED BY <3>1, <3>5
  <2>2. /\ tokens' = tokens
        /\ invites' = Append(Marked(invites, Active(invites), "revoked"),
                        [status |-> "active", expiresAt |-> x])
    BY <1>2, <1>3, <1>6
  <2> HIDE DEF x
  <2>3. /\ invites' \in Seq(Invite) /\ Len(invites') = Len(invites) + 1
        /\ \A k \in 1..Len(invites) :
             /\ invites'[k].status
                  = IF k \in Active(invites) THEN "revoked" ELSE invites[k].status
             /\ invites'[k].expiresAt = invites[k].expiresAt
        /\ invites'[Len(invites) + 1] = [status |-> "active", expiresAt |-> x]
        /\ \A i, j \in Active(invites)' : i = j
    BY <1>1, <2>1, <2>2, InvitesIssued
  <2>4. ASSUME NEW t \in Session, t # s, Claiming(sessions[t])
        PROVE  invites'[sessions[t].invite].status = "active"
    <3>1. sessions[t].invite \notin Active(invites)
      BY <1>1, <1>2, <1>3, <1>6, <2>4 DEF Apart, Inviting
    <3>2. sessions[t].invite \in 1..Len(invites)
          /\ invites[sessions[t].invite].status = "active"
      BY <1>1, <2>4 DEF Good, Claiming
    <3> QED BY <3>1, <3>2 DEF Active
  <2>5. Requests' /\ sessions' \in [Session -> Request]
    BY <1>2, <1>4, <1>5, <2>3, <2>4, LastStep
  <2>6. TypeOK'
    BY <1>2, <2>2, <2>3, <2>5 DEF AccessInv, TypeOK
  <2>7. Rows'
    <3>1. \A i \in 0..Len(invites) : i \in 0..Len(invites')
      BY <1>5, <2>3
    <3>2. sub'.status = "absent" => sub'.expiresAt = 0
      BY <1>1, <1>2 DEF Rows
    <3>3. \A i, j \in Active(tokens)' : i = j
      BY <1>1, <2>2 DEF Rows, Active
    <3>4. \A k \in 1..Len(tokens') : tokens'[k].origin \in 0..Len(invites')
      BY <1>1, <2>2, <3>1 DEF Rows
    <3> QED BY <2>3, <3>2, <3>3, <3>4 DEF Rows
  <2>8. InviteClaimedOnce'
    <3>1. ASSUME NEW i \in 1..Len(invites')
          PROVE  invites'[i].status = "claimed"
                   <=> \E k \in 1..Len(tokens) : tokens[k].origin = i
      <4>1. CASE i = Len(invites) + 1
        <5>1. invites'[i].status = "active"
          BY <2>3, <4>1
        <5>2. ASSUME NEW k \in 1..Len(tokens), tokens[k].origin = i PROVE FALSE
          BY <1>1, <1>5, <4>1, <5>2 DEF Rows
        <5> QED BY <5>1, <5>2
      <4>2. CASE i # Len(invites) + 1
        <5>1. i \in 1..Len(invites)
          BY <1>5, <2>3, <3>1, <4>2
        <5>2. invites'[i].status = "claimed" <=> invites[i].status = "claimed"
          BY <2>3, <5>1 DEF Active
        <5> QED BY <1>1, <5>1, <5>2 DEF InviteClaimedOnce
      <4> QED BY <4>1, <4>2
    <3> QED BY <1>1, <2>2, <3>1 DEF InviteClaimedOnce
  <2>9. NeverOutlivesSubscription'
    <3>1. ASSUME NEW i \in 1..Len(invites')
          PROVE  invites'[i].expiresAt <= Sooner(sub.expiresAt, now + Day)
      <4>1. CASE i = Len(invites) + 1
        BY <2>1, <2>3, <4>1
      <4>2. CASE i # Len(invites) + 1
        <5>1. i \in 1..Len(invites)
          BY <1>5, <2>3, <3>1, <4>2
        <5> QED BY <1>1, <2>3, <5>1 DEF NeverOutlivesSubscription
      <4> QED BY <4>1, <4>2
    <3> QED BY <1>1, <1>2, <2>2, <3>1 DEF NeverOutlivesSubscription
  <2> QED BY <1>2, <1>3, <2>2, <2>5, <2>6, <2>7, <2>8, <2>9 DEF AccessInv
<1>7. CASE q.op \in {"issue", "claim"}
  <2>1. /\ tokens' = Append(Marked(tokens, Active(tokens), "revoked"),
                       [status |-> "active", expiresAt |-> sub.expiresAt,
                        origin |-> q.invite])
        /\ invites' = InvitesClaimed(s)
    BY <1>2, <1>3, <1>7
  <2>2. /\ tokens' \in Seq(Token) /\ Len(tokens') = Len(tokens) + 1
        /\ \A k \in 1..Len(tokens) :
             /\ tokens'[k].status = "revoked" \/ tokens'[k].status = tokens[k].status
             /\ tokens'[k].expiresAt = tokens[k].expiresAt
             /\ tokens'[k].origin = tokens[k].origin
        /\ tokens'[Len(tokens) + 1].expiresAt = sub.expiresAt
        /\ tokens'[Len(tokens) + 1].origin = q.invite
        /\ \A i, j \in Active(tokens)' : i = j
    BY <1>1, <1>5, <2>1, TokensIssued
  <2>3. /\ invites' \in Seq(Invite) /\ Len(invites') = Len(invites)
        /\ \A i \in 1..Len(invites) :
             /\ invites'[i].status
                  = IF q.op = "claim" /\ i = q.invite THEN "claimed"
                                                      ELSE invites[i].status
             /\ invites'[i].expiresAt = invites[i].expiresAt
    <3>1. CASE q.op = "claim"
      <4>1. invites' = Marked(invites, {q.invite}, "claimed")
        BY <2>1, <3>1 DEF InvitesClaimed
      <4> QED BY <1>1, <3>1, <4>1, MarkedInvites
    <3>2. CASE q.op # "claim"
      BY <1>1, <2>1, <3>2 DEF InvitesClaimed
    <3> QED BY <3>1, <3>2
  <2>4. q.op = "claim" => q.invite \in 1..Len(invites) /\ invites[q.invite].status = "active"
    BY <1>1, <1>2 DEF Good, Claiming
  <2>5. ASSUME NEW t \in Session, t # s, Claiming(sessions[t])
        PROVE  invites'[sessions[t].invite].status = "active"
    <3>1. q.op = "claim" => sessions[t].invite # q.invite
      BY <1>1, <1>2, <2>5 DEF Apart, Claiming
    <3>2. sessions[t].invite \in 1..Len(invites)
          /\ invites[sessions[t].invite].status = "active"
      BY <1>1, <2>5 DEF Good, Claiming
    <3> QED BY <2>3, <3>1, <3>2
  <2>6. Requests' /\ sessions' \in [Session -> Request]
    BY <1>2, <1>4, <1>5, <2>3, <2>5, LastStep
  <2>7. TypeOK'
    BY <1>2, <2>2, <2>3, <2>6 DEF AccessInv, TypeOK
  <2>8. \A k \in 1..Len(tokens') : k \in 1..Len(tokens) \/ k = Len(tokens) + 1
    BY <1>5, <2>2
  <2>9. q.invite \in 0..Len(invites)
    BY <1>3, <1>5, <2>4
  <2>10. Rows'
    <3>1. Active(invites)' \subseteq Active(invites)
      BY <2>3 DEF Active
    <3>2. \A k \in 1..Len(tokens') : tokens'[k].origin \in 0..Len(invites')
      BY <1>1, <2>2, <2>3, <2>8, <2>9 DEF Rows
    <3> QED BY <1>1, <1>2, <2>2, <3>1, <3>2 DEF Rows
  <2>11. InviteClaimedOnce'
    <3>1. q.invite # 0 => q.op = "claim"
      BY <1>3
    <3>2. ASSUME NEW k \in 1..Len(tokens), q.op = "claim" PROVE tokens[k].origin # q.invite
      BY <1>1, <2>4, <3>2 DEF InviteClaimedOnce
    <3>3. ASSUME NEW i \in 1..Len(invites')
          PROVE  invites'[i].status = "claimed"
                   <=> \E k \in 1..Len(tokens') : tokens'[k].origin = i
      <4>1. i \in 1..Len(invites) /\ i # 0
        BY <1>5, <2>3, <3>3
      <4>2. CASE q.op = "claim" /\ i = q.invite
        <5>1. Len(tokens) + 1 \in 1..Len(tokens')
          BY <1>5, <2>2
        <5> QED BY <2>2, <2>3, <4>1, <4>2, <5>1
      <4>3. CASE ~(q.op = "claim" /\ i = q.invite)
        <5>1. q.invite # i
          BY <1>3, <4>1, <4>3
        <5>2. \A k \in 1..Len(tokens) : k \in 1..Len(tokens')
          BY <1>5, <2>2
        <5>3. (\E k \in 1..Len(tokens') : tokens'[k].origin = i)
                <=> \E k \in 1..Len(tokens) : tokens[k].origin = i
          BY <2>2, <2>8, <5>1, <5>2
        <5> QED BY <1>1, <2>3, <4>1, <4>3, <5>3 DEF InviteClaimedOnce
      <4> QED BY <4>2, <4>3
    <3>4. ASSUME NEW j \in 1..Len(tokens'), NEW k \in 1..Len(tokens'),
                 tokens'[j].origin = tokens'[k].origin, tokens'[k].origin # 0
          PROVE  j = k
      <4>1. CASE j \in 1..Len(tokens) /\ k \in 1..Len(tokens)
        BY <1>1, <2>2, <3>4, <4>1 DEF InviteClaimedOnce
      <4>2. CASE j = Len(tokens) + 1 /\ k \in 1..Len(tokens)
        BY <2>2, <3>1, <3>2, <3>4, <4>2
      <4>3. CASE k = Len(tokens) + 1 /\ j \in 1..Len(tokens)
        BY <2>2, <3>1, <3>2, <3>4, <4>3
      <4> QED BY <2>8, <4>1, <4>2, <4>3
    <3> QED BY <3>3, <3>4 DEF InviteClaimedOnce
  <2>12. NeverOutlivesSubscription'
    <3>1. ASSUME NEW k \in 1..Len(tokens') PROVE tokens'[k].expiresAt <= sub.expiresAt
      BY <1>1, <1>5, <2>2, <2>8, <3>1 DEF NeverOutlivesSubscription
    <3>2. ASSUME NEW i \in 1..Len(invites')
          PROVE  invites'[i].expiresAt <= Sooner(sub.expiresAt, now + Day)
      BY <1>1, <2>3, <3>2 DEF NeverOutlivesSubscription
    <3> QED BY <1>2, <3>1, <3>2 DEF NeverOutlivesSubscription
  <2> QED BY <1>2, <1>3, <2>2, <2>6, <2>7, <2>10, <2>11, <2>12 DEF AccessInv
<1> QED BY <1>3, <1>6, <1>7

-----------------------------------------------------------------------------
(* The theorems *)

\* Nothing exists and nobody asks.
LEMMA AccessInit == Init => AccessInv
<1> SUFFICES ASSUME Init PROVE AccessInv
  OBVIOUS
<1>1. /\ sub = NoSubscription /\ userStatus = "active" /\ tokens = <<>>
      /\ invites = <<>> /\ now = 0 /\ sessions = [s \in Session |-> NoRequest]
  BY DEF Init
<1>2. NoRequest \in Request /\ NoRequest.op = "none" /\ NoRequest.at = "idle"
      /\ NoRequest.invite = 0 /\ NoRequest.start = 0
  BY DEF NoRequest, Request, NoSubscription, SubscriptionRow, SubscriptionStatus,
         Operation
<1>3. /\ sub \in SubscriptionRow /\ sub.expiresAt = 0
      /\ tokens \in Seq(Token) /\ invites \in Seq(Invite)
      /\ Len(tokens) = 0 /\ Len(invites) = 0
  BY <1>1, EmptySeq DEF NoSubscription, SubscriptionRow, SubscriptionStatus
<1>4. TypeOK
  BY <1>1, <1>2, <1>3 DEF TypeOK
<1>5. \A s \in Session : Good(sessions[s])
  BY <1>1, <1>2 DEF Good, Holding, Claiming, Inviting, Issuing
<1>6. \A s, t \in Session : Apart(sessions[s], sessions[t])
  BY <1>1, <1>2 DEF Apart, Holding, Claiming, Inviting
<1>7. Rows
  BY <1>3 DEF Rows, Active
<1>8. InviteClaimedOnce /\ NeverOutlivesSubscription
  BY <1>3 DEF InviteClaimedOnce, NeverOutlivesSubscription
<1> QED BY <1>4, <1>5, <1>6, <1>7, <1>8 DEF AccessInv, Requests

\* Every statement keeps the invariant.
LEMMA AccessStep == AccessInv /\ [Next]_vars => AccessInv'
<1> SUFFICES ASSUME AccessInv, [Next]_vars PROVE AccessInv'
  OBVIOUS
<1>1. CASE UNCHANGED vars
  BY <1>1 DEF vars, AccessInv, TypeOK, Requests, Good, Apart, Holding, Claiming,
              Inviting, Issuing, Rows, Active, InviteClaimedOnce,
              NeverOutlivesSubscription
<1>2. CASE Tick \/ SetStatus \/ Create \/ Renew
  BY <1>2, SubscriptionStep
<1>3. CASE RevokeAccessToken \/ RevokeHandoffInvite
  BY <1>3, RevokeTokenStep, RevokeInviteStep
<1>4. ASSUME NEW s \in Session, Begin(s) \/ Step(s) \/ DeadlockDetected(s) \/ Abort(s)
      PROVE  AccessInv'
  <2>1. CASE Begin(s)
    BY <2>1, OpenStep
  <2>2. CASE Step(s)
    BY <2>2, LockStep, InsertStep, UpdateStep DEF Step
  <2>3. CASE DeadlockDetected(s) \/ Abort(s)
    BY <2>3, EndStep DEF DeadlockDetected, Abort
  <2> QED BY <1>4, <2>1, <2>2, <2>3
<1> QED BY <1>1, <1>2, <1>3, <1>4 DEF Next

\* The inductive invariant holds of every run.
THEOREM AccessCorrect == Spec => []AccessInv
BY AccessInit, AccessStep, PTL DEF Spec

\* Types hold.
THEOREM AccessTypes == Spec => []TypeOK
<1>1. AccessInv => TypeOK
  BY DEF AccessInv
<1> QED BY <1>1, AccessCorrect, PTL

\* At most one token and one invite of a subscription are active.
THEOREM AtMostOne == Spec => []OneActiveEach
<1>1. AccessInv => OneActiveEach
  BY OneIsOne DEF AccessInv, Rows, OneActiveEach
<1> QED BY <1>1, AccessCorrect, PTL

\* No invite gives two tokens, none is claimed without giving one.
THEOREM ClaimedOnce == Spec => []InviteClaimedOnce
<1>1. AccessInv => InviteClaimedOnce
  BY DEF AccessInv
<1> QED BY <1>1, AccessCorrect, PTL

\* What was issued ends with the subscription.
THEOREM NeverOutlives == Spec => []NeverOutlivesSubscription
<1>1. AccessInv => NeverOutlivesSubscription
  BY DEF AccessInv
<1> QED BY <1>1, AccessCorrect, PTL

\* Only the commit of an INSERT adds a token or an invite.
LEMMA LengthStep ==
  ASSUME AccessInv, [Next]_vars
  PROVE  \/ Len(tokens') = Len(tokens) /\ Len(invites') = Len(invites)
         \/ \E s \in Session : InsertAndCommit(s)
<1>1. tokens \in Seq(Token) /\ invites \in Seq(Invite)
  BY DEF AccessInv, TypeOK
<1>2. CASE RevokeAccessToken
  BY <1>1, <1>2, MarkedTokens DEF RevokeAccessToken
<1>3. CASE RevokeHandoffInvite
  BY <1>1, <1>3, MarkedInvites DEF RevokeHandoffInvite
<1>4. CASE UNCHANGED <<tokens, invites>>
  BY <1>4
<1>5. \/ UNCHANGED <<tokens, invites>> \/ RevokeAccessToken \/ RevokeHandoffInvite
      \/ \E s \in Session : InsertAndCommit(s)
  BY DEF Next, vars, Tick, SetStatus, Create, Renew, Begin, Open, BeginIssue,
         BeginInvite, BeginClaim, BeginUpdate, Step, LockInvite, AwaitSubscription,
         EnsureEligible, ReadAccess, RevokePrevious, WriteUpdate, DeadlockDetected, Abort
<1> QED BY <1>2, <1>3, <1>4, <1>5

\* Nothing is issued for a subscription that is not active at the commit.
THEOREM IssuedActive == Spec => IssuedWhileActive
<1>1. ASSUME AccessInv, [Next]_vars,
             Len(tokens') > Len(tokens) \/ Len(invites') > Len(invites)
      PROVE  sub.status = "active"
  <2>1. Len(tokens) \in Nat /\ Len(invites) \in Nat
    BY <1>1, LenProperties DEF AccessInv, TypeOK
  <2>2. \E s \in Session : InsertAndCommit(s)
    BY <1>1, <2>1, LengthStep
  <2> QED BY <1>1, <2>2, InsertStep
<1>2. AccessInv /\ [Next]_vars =>
        [Len(tokens') > Len(tokens) \/ Len(invites') > Len(invites)
           => sub.status = "active"]_vars
  BY <1>1
<1> QED BY <1>2, AccessCorrect, PTL DEF Spec, IssuedWhileActive

-----------------------------------------------------------------------------
(* Deadlocks *)

\* Requests each of which waits for another of them.
Stuck(C) == C # {} /\ \A s \in C : \E t \in C : WaitsFor(s, t)

\* Any deadlock, of however many requests, is one of two that wait for each other,
\* a claim and a new invite: DeadlockDetected, which looks for two, misses none.
DeadlocksArePairs ==
  \A C \in SUBSET Session : Stuck(C) =>
    \E s, t \in C : /\ WaitsFor(s, t) /\ WaitsFor(t, s)
                    /\ sessions[s].op = "claim" /\ sessions[t].op = "invite"

\* While requests are under way the next statement of one of them waits for nobody,
\* or two wait for each other and the server ends one.
SomebodyGoesOn ==
  (\E s \in Session : sessions[s].at # "idle") =>
    \/ \E s \in Session : sessions[s].at # "idle" /\ CanRun(s)
    \/ \E s, t \in Session : WaitsFor(s, t) /\ WaitsFor(t, s)

\* Whoever waits is at one of four statements, and for whom it waits: a request that
\* holds the subscription and revokes waits for a claim's invite only, since the
\* tokens another request revoked would have been revoked under the same lock.
LEMMA WhoWaits ==
  ASSUME AccessInv, NEW s \in Session, NEW t \in Session, WaitsFor(s, t)
  PROVE  /\ s # t /\ sessions[t].at # "idle"
         /\ \/ /\ sessions[s].at = "lock_invite"
               /\ sessions[t].at # "lock_invite" /\ sessions[t].op \in {"claim", "invite"}
               /\ sessions[t].op = "invite" => sessions[t].at = "insert"
            \/ sessions[s].at \in {"eligible", "write"} /\ Holding(sessions[t])
            \/ /\ sessions[s].at = "revoke" /\ sessions[s].op = "invite"
               /\ sessions[t].op = "claim" /\ sessions[t].at \notin {"lock_invite", "write"}
               /\ ~Holding(sessions[t])
<1>1. Good(sessions[s]) /\ Good(sessions[t])
  BY DEF AccessInv, Requests
<1>2. Holding(sessions[s]) => ~Holding(sessions[t])
  BY DEF AccessInv, Requests, Apart, WaitsFor
<1>3. CASE sessions[s].at = "lock_invite" /\ sessions[s].invite \in HeldInvites(t)
  BY <1>1, <1>3 DEF WaitsFor, HeldInvites, Good
<1>4. CASE sessions[s].at \in {"eligible", "write"} /\ HoldsSubscription(t)
  BY <1>4 DEF WaitsFor, HoldsSubscription, Holding
<1>5. CASE sessions[s].at = "revoke" /\ ToRevoke(s) \cap Held(s, t) # {}
  <2>1. ~Holding(sessions[t])
    BY <1>2, <1>5 DEF Holding
  <2>2. Held(s, t) # {}
    BY <1>5
  <2>3. sessions[s].op = "invite"
    BY <2>1, <2>2 DEF Held, HeldTokens, Holding
  <2>4. sessions[t].op = "claim" /\ sessions[t].at # "lock_invite"
    BY <2>1, <2>2, <2>3 DEF Held, HeldInvites, Holding
  <2> QED BY <1>1, <1>5, <2>1, <2>3, <2>4 DEF WaitsFor, Good
<1> QED BY <1>3, <1>4, <1>5 DEF WaitsFor

\* A request for a new invite among the stuck waits for a claim, and that one for the
\* subscription it holds.
LEMMA StuckInvite ==
  ASSUME AccessInv, NEW C \in SUBSET Session, Stuck(C),
         NEW t \in C, sessions[t].at = "revoke"
  PROVE  \E s \in C : /\ WaitsFor(s, t) /\ WaitsFor(t, s)
                      /\ sessions[s].op = "claim" /\ sessions[t].op = "invite"
<1>1. PICK s \in C : WaitsFor(t, s)
  BY DEF Stuck
<1>2. PICK u \in C : WaitsFor(s, u)
  BY DEF Stuck
<1>3. sessions[t].op = "invite" /\ sessions[s].op = "claim"
      /\ sessions[s].at \notin {"lock_invite", "write", "revoke"}
  BY <1>1, WhoWaits DEF Holding
<1>4. Holding(sessions[u]) /\ Holding(sessions[t])
  BY <1>2, <1>3, WhoWaits DEF Holding
<1>5. u = t
  BY <1>4 DEF AccessInv, Requests, Apart
<1> QED BY <1>1, <1>2, <1>3, <1>5

\* And there is one among the stuck.
LEMMA StuckHaveInvite ==
  ASSUME AccessInv, NEW C \in SUBSET Session, Stuck(C)
  PROVE  \E t \in C : sessions[t].at = "revoke"
<1>1. ASSUME NEW s \in C, sessions[s].at \in {"eligible", "write"}
      PROVE  \E t \in C : sessions[t].at = "revoke"
  <2>1. PICK t \in C : WaitsFor(s, t)
    BY DEF Stuck
  <2>2. PICK u \in C : WaitsFor(t, u)
    BY DEF Stuck
  <2>3. Holding(sessions[t])
    BY <1>1, <2>1, WhoWaits
  <2>4. sessions[t].at = "revoke"
    BY <2>2, <2>3, WhoWaits DEF Holding
  <2> QED BY <2>4
<1>2. ASSUME NEW s \in C, sessions[s].at = "lock_invite"
      PROVE  \E t \in C : sessions[t].at \in {"eligible", "write", "revoke"}
  <2>1. PICK t \in C : WaitsFor(s, t)
    BY DEF Stuck
  <2>2. PICK u \in C : WaitsFor(t, u)
    BY DEF Stuck
  <2>3. sessions[t].at # "lock_invite"
    BY <1>2, <2>1, WhoWaits
  <2>4. sessions[t].at \in {"eligible", "write", "revoke"}
    BY <2>2, <2>3, WhoWaits
  <2> QED BY <2>4
<1>3. PICK s \in C, t \in C : WaitsFor(s, t)
  BY DEF Stuck
<1>4. sessions[s].at \in {"lock_invite", "eligible", "write", "revoke"}
  BY <1>3, WhoWaits
<1> QED BY <1>1, <1>2, <1>4

\* PostgreSQL's deadlock detector ends cycles of any length; this says that there are
\* none longer than two, and that no claim, issue, invite or update is left waiting
\* for one that waits itself.
THEOREM OnlyPairsDeadlock == Spec => [](DeadlocksArePairs /\ SomebodyGoesOn)
<1>1. AccessInv => DeadlocksArePairs
  <2> SUFFICES ASSUME AccessInv, NEW C \in SUBSET Session, Stuck(C)
               PROVE  \E s, t \in C : /\ WaitsFor(s, t) /\ WaitsFor(t, s)
                                      /\ sessions[s].op = "claim"
                                      /\ sessions[t].op = "invite"
    BY DEF DeadlocksArePairs
  <2> QED BY StuckInvite, StuckHaveInvite
<1>2. ASSUME AccessInv, NEW r \in Session, sessions[r].at # "idle"
      PROVE  \/ \E s \in Session : sessions[s].at # "idle" /\ CanRun(s)
             \/ \E s, t \in Session : WaitsFor(s, t) /\ WaitsFor(t, s)
  <2> SUFFICES ASSUME \A s \in Session : sessions[s].at # "idle" => ~CanRun(s)
               PROVE  \E s, t \in Session : WaitsFor(s, t) /\ WaitsFor(t, s)
    OBVIOUS
  <2> DEFINE C == {s \in Session : sessions[s].at # "idle"}
  <2>1. ASSUME NEW s \in C
        PROVE  \E t \in C : WaitsFor(s, t)
    <3>1. PICK t \in Session : WaitsFor(s, t)
      BY DEF CanRun
    <3>2. sessions[t].at # "idle"
      BY <1>2, <3>1, WhoWaits
    <3> QED BY <3>1, <3>2
  <2>2. Stuck(C)
    BY <1>2, <2>1 DEF Stuck
  <2>3. C \in SUBSET Session
    OBVIOUS
  <2> HIDE DEF C
  <2> QED BY <1>1, <1>2, <2>2, <2>3 DEF DeadlocksArePairs
<1>3. AccessInv => SomebodyGoesOn
  BY <1>2 DEF SomebodyGoesOn
<1> QED BY <1>1, <1>3, AccessCorrect, PTL

-----------------------------------------------------------------------------
(* Nothing comes back *)

\* What may become of a token, and of an invite.
TokenKept(new, old) == new \in {old, [old EXCEPT !.status = "revoked"]}

InviteKept(new, old) ==
  /\ new = [old EXCEPT !.status = new.status]
  /\ old.status # "active" => new = old

\* An UPDATE of the status changes nothing else of a token.
LEMMA TokenRow ==
  ASSUME NEW rows \in Seq(Token), NEW ids, NEW k \in 1..Len(rows)
  PROVE  TokenKept(Marked(rows, ids, "revoked")[k], rows[k])
<1>1. Marked(rows, ids, "revoked")[k]
        = IF k \in ids THEN [rows[k] EXCEPT !.status = "revoked"] ELSE rows[k]
  BY Zenon DEF Marked
<1> QED BY <1>1, Zenon DEF TokenKept

\* The same of an invite, whose status may become another one.
LEMMA InviteRow ==
  ASSUME NEW rows \in Seq(Invite), NEW ids, NEW k \in 1..Len(rows),
         NEW status \in {"revoked", "claimed"},
         \A i \in 1..Len(rows) : i \in ids => rows[i].status = "active"
  PROVE  InviteKept(Marked(rows, ids, status)[k], rows[k])
<1> DEFINE row == Marked(rows, ids, status)[k]
<1>1. row = IF k \in ids THEN [rows[k] EXCEPT !.status = status] ELSE rows[k]
  BY Zenon DEF Marked
<1> HIDE DEF row
<1>2. rows[k] \in Invite
  BY ElementOfSeq
<1>3. row = [rows[k] EXCEPT !.status = row.status]
  BY <1>1, <1>2 DEF Invite
<1>4. rows[k].status # "active" => row = rows[k]
  BY <1>1
<1>5. InviteKept(row, rows[k])
  BY <1>3, <1>4, Zenon DEF InviteKept
<1> QED BY <1>5 DEF row

\* A subscription is never shortened, a row never reopened.
LEMMA KeepStep ==
  ASSUME AccessInv, [Next]_vars
  PROVE  /\ sub'.expiresAt >= sub.expiresAt
         /\ \A k \in 1..Len(tokens) : TokenKept(tokens'[k], tokens[k])
         /\ \A i \in 1..Len(invites) : InviteKept(invites'[i], invites[i])
<1>1. /\ tokens \in Seq(Token) /\ invites \in Seq(Invite)
      /\ sub \in SubscriptionRow /\ now \in Nat /\ sessions \in [Session -> Request]
      /\ Len(tokens) \in Nat /\ Len(invites) \in Nat
  BY LenProperties DEF AccessInv, TypeOK
<1>2. sub'.expiresAt >= sub.expiresAt
  <2>1. CASE sub' = sub
    BY <1>1, <2>1 DEF SubscriptionRow
  <2>2. CASE Create
    <3>1. sub.expiresAt = 0
      BY <2>2 DEF Create, AccessInv, Rows
    <3>2. sub'.expiresAt = now + PlanDays /\ PlanDays \in Nat
      BY <2>2, AccessAssumption DEF Create
    <3>3. \A a, b \in Nat : a + b >= 0
      OBVIOUS
    <3> QED BY <1>1, <3>1, <3>2, <3>3
  <2>3. CASE Renew
    <3>1. \A a, b \in Nat : Later(a, b) \in Nat /\ Later(a, b) >= a
      BY DEF Later
    <3>2. sub'.expiresAt = Later(sub.expiresAt, now) + ExtendDays /\ ExtendDays \in Nat
      BY <2>3, AccessAssumption DEF Renew
    <3>3. sub.expiresAt \in Nat
      BY <1>1 DEF SubscriptionRow
    <3>4. \A a, b, c \in Nat : b >= a => b + c >= a
      OBVIOUS
    <3>5. Later(sub.expiresAt, now) \in Nat /\ Later(sub.expiresAt, now) >= sub.expiresAt
      BY <1>1, <3>1, <3>3
    <3> QED BY <3>2, <3>3, <3>4, <3>5
  <2>4. CASE \E s \in Session : WriteUpdate(s)
    BY <1>1, <2>4 DEF WriteUpdate, SubscriptionRow
  <2> QED
    BY <2>1, <2>2, <2>3, <2>4
    DEF Next, vars, Tick, SetStatus, RevokeAccessToken, RevokeHandoffInvite, Begin,
        Open, BeginIssue, BeginInvite, BeginClaim, BeginUpdate, Step, LockInvite,
        AwaitSubscription, EnsureEligible, ReadAccess, RevokePrevious, InsertAndCommit,
        DeadlockDetected, Abort
<1>3. tokens' = tokens => \A k \in 1..Len(tokens) : TokenKept(tokens'[k], tokens[k])
  BY Zenon DEF TokenKept
<1>4. invites' = invites => \A i \in 1..Len(invites) : InviteKept(invites'[i], invites[i])
  <2>1. ASSUME NEW r \in Invite PROVE r = [r EXCEPT !.status = r.status]
    BY DEF Invite
  <2>2. ASSUME NEW r \in Invite PROVE InviteKept(r, r)
    BY <2>1, Zenon DEF InviteKept
  <2>3. \A i \in 1..Len(invites) : invites[i] \in Invite
    BY <1>1, ElementOfSeq
  <2> QED BY <2>2, <2>3
<1>5. \A k \in Active(invites) : invites[k].status = "active"
  BY DEF Active
<1>6. CASE RevokeAccessToken
  BY <1>1, <1>2, <1>4, <1>6, TokenRow DEF RevokeAccessToken
<1>7. CASE RevokeHandoffInvite
  BY <1>1, <1>2, <1>3, <1>5, <1>7, InviteRow DEF RevokeHandoffInvite
<1>8. ASSUME NEW s \in Session, InsertAndCommit(s), sessions[s].op = "invite"
      PROVE  \A i \in 1..Len(invites) : InviteKept(invites'[i], invites[i])
  <2> DEFINE old == Marked(invites, Active(invites), "revoked")
             new == [status |-> "active", expiresAt |-> InviteExpiry(s)]
  <2>1. sessions[s].revokes = Active(invites)
    BY <1>8 DEF InsertAndCommit, AccessInv, Requests, Good, Inviting
  <2>2. invites' = Append(old, new)
    BY <1>8, <2>1 DEF InsertAndCommit
  <2>3. old \in Seq(Invite) /\ Len(old) = Len(invites)
    BY <1>1, MarkedInvites
  <2>4. InviteExpiry(s) \in Nat
    <3>1. sub.expiresAt \in Nat /\ sessions[s].start \in Nat /\ Day \in Nat
      BY <1>1, AccessAssumption DEF SubscriptionRow, Request
    <3>2. \A a, b \in Nat : a + b \in Nat /\ Sooner(a, b) \in Nat
      BY DEF Sooner
    <3> QED BY <3>1, <3>2 DEF InviteExpiry
  <2>5. new \in Invite
    BY <2>4 DEF Invite
  <2> HIDE DEF new
  <2> HIDE DEF old
  <2>6. ASSUME NEW i \in 1..Len(invites) PROVE invites'[i] = old[i]
    BY <2>2, <2>3, <2>5, AppendProperties, SMTT(30)
  <2> QED BY <1>1, <1>5, <2>6, InviteRow DEF old
<1>9. ASSUME NEW s \in Session, InsertAndCommit(s), sessions[s].op # "invite"
      PROVE  /\ \A k \in 1..Len(tokens) : TokenKept(tokens'[k], tokens[k])
             /\ \A i \in 1..Len(invites) : InviteKept(invites'[i], invites[i])
  <2> DEFINE old == Marked(tokens, sessions[s].revokes, "revoked")
             new == [status |-> "active", expiresAt |-> sub.expiresAt,
                     origin |-> sessions[s].invite]
  <2>1. tokens' = Append(old, new) /\ invites' = InvitesClaimed(s)
    BY <1>9 DEF InsertAndCommit
  <2>2. old \in Seq(Token) /\ Len(old) = Len(tokens)
    BY <1>1, MarkedTokens
  <2>3. new \in Token
    BY <1>1 DEF Token, SubscriptionRow, Request
  <2> HIDE DEF new
  <2> HIDE DEF old
  <2>4. ASSUME NEW k \in 1..Len(tokens) PROVE tokens'[k] = old[k]
    BY <2>1, <2>2, <2>3, AppendProperties, SMTT(30)
  <2>5. \A k \in 1..Len(tokens) : TokenKept(tokens'[k], tokens[k])
    BY <1>1, <2>4, TokenRow DEF old
  <2>6. CASE sessions[s].op = "claim"
    <3>1. invites' = Marked(invites, {sessions[s].invite}, "claimed")
      BY <2>1, <2>6 DEF InvitesClaimed
    <3>2. invites[sessions[s].invite].status = "active"
      BY <1>9, <2>6 DEF InsertAndCommit, AccessInv, Requests, Good, Claiming
    <3> QED BY <1>1, <2>5, <3>1, <3>2, InviteRow
  <2>7. CASE sessions[s].op # "claim"
    BY <1>4, <2>1, <2>5, <2>7 DEF InvitesClaimed
  <2> QED BY <2>6, <2>7
<1>10. ASSUME NEW s \in Session, InsertAndCommit(s), sessions[s].op = "invite"
       PROVE  tokens' = tokens
  BY <1>10 DEF InsertAndCommit
<1>11. \/ UNCHANGED <<tokens, invites>> \/ RevokeAccessToken \/ RevokeHandoffInvite
       \/ \E s \in Session : InsertAndCommit(s)
  BY DEF Next, vars, Tick, SetStatus, Create, Renew, Begin, Open, BeginIssue,
         BeginInvite, BeginClaim, BeginUpdate, Step, LockInvite, AwaitSubscription,
         EnsureEligible, ReadAccess, RevokePrevious, WriteUpdate, DeadlockDetected, Abort
<1>12. CASE \E s \in Session : InsertAndCommit(s)
  <2>1. PICK s \in Session : InsertAndCommit(s)
    BY <1>12
  <2>2. CASE sessions[s].op = "invite"
    <3>1. tokens' = tokens
      BY <1>10, <2>1, <2>2
    <3> QED BY <1>2, <1>3, <1>8, <2>1, <2>2, <3>1
  <2>3. CASE sessions[s].op # "invite"
    BY <1>2, <1>9, <2>1, <2>3
  <2> QED BY <2>2, <2>3
<1>13. CASE UNCHANGED <<tokens, invites>>
  BY <1>2, <1>3, <1>4, <1>13
<1> QED BY <1>6, <1>7, <1>11, <1>12, <1>13

\* No race brings a revoked token or a used invite back, or takes paid days.
THEOREM NoneComesBack == Spec => NothingComesBack
<1>1. AccessInv /\ [Next]_vars =>
        [/\ sub'.expiresAt >= sub.expiresAt
         /\ \A k \in 1..Len(tokens) :
              tokens'[k] \in {tokens[k], [tokens[k] EXCEPT !.status = "revoked"]}
         /\ \A i \in 1..Len(invites) :
              /\ invites'[i] = [invites[i] EXCEPT !.status = invites'[i].status]
              /\ invites[i].status # "active" => invites'[i] = invites[i]]_vars
  BY KeepStep, Zenon DEF TokenKept, InviteKept
<1> QED BY <1>1, AccessCorrect, PTL DEF Spec, NothingComesBack

-----------------------------------------------------------------------------
(* The interleaved statements implement the single-step requests of         *)
(* AccessHandoff: the commit of an INSERT is the step of an issue, an invite *)
(* or a claim, an UPDATE ... 'revoked' of its own is a revocation, and       *)
(* nothing else shows.                                                       *)

Claimed(rows) ==
  {<<rows[k].origin, k>> : k \in {j \in 1..Len(rows) : rows[j].origin # 0}}

\* The variables of AccessHandoff, as SubscriptionAccess implements them.
TokensShown  == <<Len(tokens), TheActive(tokens), Claimed(tokens)>>
InvitesShown == <<Len(invites), TheActive(invites)>>

\* TheActive is the only active row.
LEMMA TheOnlyActive ==
  ASSUME NEW rows
  PROVE  /\ Active(rows) = {} => TheActive(rows) = 0
         /\ \A i : Active(rows) = {i} => TheActive(rows) = i
<1>1. ASSUME NEW i, Active(rows) = {i} PROVE TheActive(rows) = i
  <2>1. \E j \in Active(rows) : TRUE
    BY <1>1
  <2>2. (CHOOSE j \in Active(rows) : TRUE) \in Active(rows)
    BY <2>1, Zenon
  <2> QED BY <1>1, <2>2 DEF TheActive
<1> QED BY <1>1 DEF TheActive

\* It does not depend on the other rows.
LEMMA SameActive ==
  ASSUME NEW a, NEW b, Active(a) = Active(b)
  PROVE  TheActive(a) = TheActive(b)
BY DEF TheActive

\* Rows of the same length and origins show the same claims.
LEMMA SameClaims ==
  ASSUME NEW a \in Seq(Token), NEW b \in Seq(Token), Len(a) = Len(b),
         \A k \in 1..Len(a) : a[k].origin = b[k].origin
  PROVE  Claimed(a) = Claimed(b)
BY DEF Claimed

\* RevokeAccessToken.
LEMMA TokenRevoked ==
  ASSUME AccessInv, RevokeAccessToken
  PROVE  /\ TheActive(tokens)' = 0
         /\ Len(tokens') = Len(tokens) /\ Claimed(tokens') = Claimed(tokens)
         /\ InvitesShown' = InvitesShown
<1>1. tokens \in Seq(Token) /\ Len(tokens) \in Nat
  BY LenProperties DEF AccessInv, TypeOK
<1>2. tokens' = Marked(tokens, Active(tokens), "revoked") /\ invites' = invites
  BY DEF RevokeAccessToken
<1>3. /\ tokens' \in Seq(Token) /\ Len(tokens') = Len(tokens)
      /\ \A i \in 1..Len(tokens) :
           /\ tokens'[i].status = IF i \in Active(tokens) THEN "revoked" ELSE tokens[i].status
           /\ tokens'[i].origin = tokens[i].origin
  BY <1>1, <1>2, MarkedTokens
<1>4. Active(tokens') = {}
  BY <1>3 DEF Active
<1>5. TheActive(tokens') = 0
  BY <1>4, TheOnlyActive
<1>6. Claimed(tokens') = Claimed(tokens)
  BY <1>1, <1>3, SameClaims
<1> QED BY <1>2, <1>3, <1>5, <1>6 DEF InvitesShown

\* RevokeHandoffInvite.
LEMMA InviteRevoked ==
  ASSUME AccessInv, RevokeHandoffInvite
  PROVE  /\ TheActive(invites)' = 0 /\ Len(invites') = Len(invites)
         /\ TokensShown' = TokensShown
<1>1. invites \in Seq(Invite) /\ Len(invites) \in Nat
  BY LenProperties DEF AccessInv, TypeOK
<1>2. invites' = Marked(invites, Active(invites), "revoked") /\ tokens' = tokens
  BY DEF RevokeHandoffInvite
<1>3. /\ Len(invites') = Len(invites)
      /\ \A i \in 1..Len(invites) :
           invites'[i].status = IF i \in Active(invites) THEN "revoked" ELSE invites[i].status
  BY <1>1, <1>2, MarkedInvites
<1>4. Active(invites') = {}
  BY <1>3 DEF Active
<1>5. TheActive(invites') = 0
  BY <1>4, TheOnlyActive
<1> QED BY <1>2, <1>3, <1>5 DEF TokensShown

\* The commit of a new invite.
LEMMA InviteCommitted ==
  ASSUME AccessInv, NEW s \in Session, InsertAndCommit(s), sessions[s].op = "invite"
  PROVE  /\ Len(invites') = Len(invites) + 1 /\ TheActive(invites)' = Len(invites) + 1
         /\ TokensShown' = TokensShown
<1>1. /\ invites \in Seq(Invite) /\ sub \in SubscriptionRow
      /\ sessions[s] \in Request
  BY DEF AccessInv, TypeOK
<1>2. sessions[s].revokes = Active(invites)
  BY DEF InsertAndCommit, AccessInv, Requests, Good, Inviting
<1>3. InviteExpiry(s) \in Nat
  <2>1. sub.expiresAt \in Nat /\ sessions[s].start \in Nat /\ Day \in Nat
    BY <1>1, AccessAssumption DEF SubscriptionRow, Request
  <2>2. \A a, b \in Nat : a + b \in Nat /\ Sooner(a, b) \in Nat
    BY DEF Sooner
  <2> QED BY <2>1, <2>2 DEF InviteExpiry
<1>4. /\ tokens' = tokens
      /\ invites' = Append(Marked(invites, Active(invites), "revoked"),
                      [status |-> "active", expiresAt |-> InviteExpiry(s)])
  BY <1>2 DEF InsertAndCommit
<1>5. Len(invites') = Len(invites) + 1 /\ Active(invites') = {Len(invites) + 1}
  BY <1>1, <1>3, <1>4, InvitesIssued
<1>6. TheActive(invites') = Len(invites) + 1
  BY <1>5, TheOnlyActive
<1> QED BY <1>4, <1>5, <1>6 DEF TokensShown

\* The commit of a new token: what an issue and a claim have in common.
LEMMA TokenCommitted ==
  ASSUME AccessInv, NEW s \in Session, InsertAndCommit(s), sessions[s].op # "invite"
  PROVE  /\ Len(tokens) \in Nat
         /\ Len(tokens') = Len(tokens) + 1 /\ TheActive(tokens)' = Len(tokens) + 1
         /\ Claimed(tokens')
              = IF sessions[s].invite = 0 THEN Claimed(tokens)
                ELSE Claimed(tokens) \cup {<<sessions[s].invite, Len(tokens) + 1>>}
         /\ invites' = InvitesClaimed(s)
<1> DEFINE q == sessions[s]
           n == Len(tokens)
<1>1. /\ tokens \in Seq(Token) /\ sub \in SubscriptionRow /\ q \in Request
      /\ n \in Nat
  BY LenProperties DEF AccessInv, TypeOK
<1>2. q.revokes = Active(tokens)
  BY <1>1 DEF InsertAndCommit, AccessInv, Requests, Good, Issuing, Request, Operation
<1>3. /\ tokens' = Append(Marked(tokens, Active(tokens), "revoked"),
                     [status |-> "active", expiresAt |-> sub.expiresAt,
                      origin |-> q.invite])
      /\ invites' = InvitesClaimed(s)
  BY <1>2 DEF InsertAndCommit
<1>4. sub.expiresAt \in Nat /\ q.invite \in Nat
  BY <1>1 DEF SubscriptionRow, Request
<1>5. /\ Len(tokens') = n + 1 /\ Active(tokens') = {n + 1}
      /\ \A k \in 1..n : tokens'[k].origin = tokens[k].origin
      /\ tokens'[n + 1].origin = q.invite
  BY <1>1, <1>3, <1>4, TokensIssued
<1>6. TheActive(tokens') = n + 1
  BY <1>5, TheOnlyActive
<1> HIDE DEF q
<1>7. Claimed(tokens')
        = IF q.invite = 0 THEN Claimed(tokens)
          ELSE Claimed(tokens) \cup {<<q.invite, n + 1>>}
  <2> DEFINE old == {j \in 1..n : tokens[j].origin # 0}
             all == {j \in 1..Len(tokens') : tokens'[j].origin # 0}
  <2>1. 1..Len(tokens') = 1..n \cup {n + 1} /\ n + 1 \notin 1..n
    BY <1>1, <1>5
  <2>2. all = IF q.invite = 0 THEN old ELSE old \cup {n + 1}
    BY <1>5, <2>1
  <2>3. \A k \in old : <<tokens'[k].origin, k>> = <<tokens[k].origin, k>>
    BY <1>5
  <2> HIDE DEF old, all, n
  <2>4. Claimed(tokens') = {<<tokens'[k].origin, k>> : k \in all}
    BY DEF Claimed, all
  <2>5. Claimed(tokens) = {<<tokens[k].origin, k>> : k \in old}
    BY DEF Claimed, old, n
  <2>6. CASE q.invite = 0
    BY <2>2, <2>3, <2>4, <2>5, <2>6
  <2>7. CASE q.invite # 0
    BY <1>5, <2>2, <2>3, <2>4, <2>5, <2>7
  <2> QED BY <2>6, <2>7
<1> QED BY <1>1, <1>3, <1>5, <1>6, <1>7 DEF q

\* What a claim does to the invites: the one it names was the active one.
LEMMA InviteExchanged ==
  ASSUME AccessInv, NEW s \in Session, InsertAndCommit(s), sessions[s].op = "claim"
  PROVE  /\ TheActive(invites) = sessions[s].invite /\ sessions[s].invite # 0
         /\ Len(invites') = Len(invites) /\ TheActive(invites') = 0
<1> DEFINE i == sessions[s].invite
<1>1. invites \in Seq(Invite) /\ Len(invites) \in Nat
  BY LenProperties DEF AccessInv, TypeOK
<1>2. i \in 1..Len(invites) /\ invites[i].status = "active"
  BY DEF InsertAndCommit, AccessInv, Requests, Good, Claiming
<1>3. Active(invites) = {i}
  <2>1. i \in Active(invites)
    BY <1>2 DEF Active
  <2>2. \A k, j \in Active(invites) : k = j
    BY DEF AccessInv, Rows
  <2> QED BY <2>1, <2>2
<1>4. invites' = Marked(invites, {i}, "claimed")
  BY DEF InsertAndCommit, InvitesClaimed
<1>5. /\ Len(invites') = Len(invites)
      /\ \A k \in 1..Len(invites) :
           invites'[k].status = IF k \in {i} THEN "claimed" ELSE invites[k].status
  BY <1>1, <1>4, MarkedInvites
<1>6. Active(invites') = {}
  BY <1>3, <1>5 DEF Active
<1>7. TheActive(invites') = 0
  BY <1>6, TheOnlyActive
<1>8. TheActive(invites) = i
  BY <1>3, TheOnlyActive
<1>9. i # 0
  BY <1>1, <1>2
<1> QED BY <1>5, <1>7, <1>8, <1>9

\* Every statement is a step of AccessHandoff or does not show.
LEMMA HandoffStep ==
  ASSUME AccessInv, [Next]_vars
  PROVE  \/ Handoff!Next
         \/ TokensShown' = TokensShown /\ InvitesShown' = InvitesShown
<1>1. CASE UNCHANGED <<tokens, invites>>
  BY <1>1 DEF TokensShown, InvitesShown, Claimed, TheActive, Active
<1>2. CASE RevokeAccessToken
  <2>1. Handoff!RevokeToken
    BY <1>2, TokenRevoked DEF Handoff!RevokeToken, InvitesShown, Claimed
  <2> QED BY <2>1 DEF Handoff!Next
<1>3. CASE RevokeHandoffInvite
  <2>1. Handoff!RevokeInvite
    BY <1>3, InviteRevoked DEF Handoff!RevokeInvite, TokensShown, Claimed
  <2> QED BY <2>1 DEF Handoff!Next
<1>4. ASSUME NEW s \in Session, InsertAndCommit(s) PROVE Handoff!Next
  <2>1. CASE sessions[s].op = "invite"
    <3>1. Handoff!Invite
      BY <1>4, <2>1, InviteCommitted DEF Handoff!Invite, TokensShown, Claimed
    <3> QED BY <3>1 DEF Handoff!Next
  <2>2. CASE sessions[s].op = "claim"
    <3>1. Handoff!Claim
      BY <1>4, <2>2, TokenCommitted, InviteExchanged
      DEF Handoff!Claim, Handoff!Replace, Claimed
    <3> QED BY <3>1 DEF Handoff!Next
  <2>3. CASE sessions[s].op \notin {"invite", "claim"}
    <3>1. sessions[s].invite = 0 /\ invites' = invites
      BY <1>4, <2>3, TokenCommitted DEF AccessInv, Requests, Good, InvitesClaimed
    <3>2. Handoff!Issue
      BY <1>4, <2>3, <3>1, TokenCommitted
      DEF Handoff!Issue, Handoff!Replace, Claimed, TheActive, Active
    <3> QED BY <3>2 DEF Handoff!Next
  <2> QED BY <2>1, <2>2, <2>3
<1>5. \/ UNCHANGED <<tokens, invites>> \/ RevokeAccessToken \/ RevokeHandoffInvite
      \/ \E s \in Session : InsertAndCommit(s)
  BY DEF Next, vars, Tick, SetStatus, Create, Renew, Begin, Open, BeginIssue,
         BeginInvite, BeginClaim, BeginUpdate, Step, LockInvite, AwaitSubscription,
         EnsureEligible, ReadAccess, RevokePrevious, WriteUpdate, DeadlockDetected, Abort
<1> QED BY <1>1, <1>2, <1>3, <1>4, <1>5

\* The requests of a subscription, however their statements interleave, behave
\* as if each were one step: one token and one invite at a time, and a claim
\* exchanges the invite that is valid at that instant.
THEOREM HandoffImplemented == Spec => ImplementsHandoff
<1>1. Init => Handoff!Init
  <2>1. Init => tokens = <<>> /\ invites = <<>>
    BY DEF Init
  <2>2. Len(<<>>) = 0
    OBVIOUS
  <2>3. Active(<<>>) = {}
    BY <2>2 DEF Active
  <2>4. Claimed(<<>>) = {}
    BY <2>2 DEF Claimed
  <2> QED BY <2>1, <2>2, <2>3, <2>4, TheOnlyActive DEF Handoff!Init, Claimed
<1>2. AccessInv /\ [Next]_vars =>
        [Handoff!Next]_<<Len(tokens), TheActive(tokens), Len(invites),
                         TheActive(invites), Claimed(tokens)>>
  BY HandoffStep DEF TokensShown, InvitesShown
<1>3. AccessInv /\ [Next]_vars =>
        [Handoff!Next]_<<Len(tokens), TheActive(tokens), Len(invites),
           TheActive(invites),
           {<<tokens[k].origin, k>> : k \in {j \in 1..Len(tokens) : tokens[j].origin # 0}}>>
  BY <1>2 DEF Claimed
<1> QED BY <1>1, <1>3, AccessCorrect, PTL DEF Spec, ImplementsHandoff, Handoff!Spec
=============================================================================
