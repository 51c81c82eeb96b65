------------------------- MODULE SubscriptionAccess -------------------------
(***************************************************************************)
(* One subscription with its access tokens and handoff invites, and the    *)
(* requests of storage/subscriptions.go on them, interleaved statement by  *)
(* statement as PostgreSQL does under READ COMMITTED: a statement sees     *)
(* what was committed before it, an UPDATE or a FOR UPDATE waits for the   *)
(* transaction that holds the row and then looks at the row again, and the *)
(* writes of a transaction become visible together when it commits.        *)
(*                                                                         *)
(* A request of several statements is a session; its locks follow from the *)
(* step it is at.  A request of one statement is one action, which is      *)
(* enabled once nobody holds its rows.  (Had it waited, it would not see   *)
(* rows inserted meanwhile and would do nothing: a stuttering step.)       *)
(* now() is the time a transaction began.                                  *)
(***************************************************************************)
EXTENDS Integers, Sequences, FiniteSets

CONSTANTS Session,     \* concurrent requests
          PlanDays,    \* plans.duration_days
          ExtendDays,  \* extend_days of a renewal
          Day,         \* the 24 hours an invite lives
          MaxTime,     \* bound: the clock
          MaxExpiry,   \* bound: expires_at, by renewals
          MaxTokens,   \* bound: tokens issued
          MaxInvites   \* bound: invites issued

ASSUME AccessAssumption ==
  /\ {PlanDays, ExtendDays, Day} \subseteq Nat \ {0}
  /\ {MaxTime, MaxExpiry, MaxTokens, MaxInvites} \subseteq Nat

VARIABLES sub,         \* the subscriptions row
          userStatus,  \* users.status of its user
          tokens,      \* subscription_access_tokens, in order of creation
          invites,     \* subscription_handoff_invites, in order of creation
          now,         \* the clock
          sessions     \* requests under way

vars == <<sub, userStatus, tokens, invites, now, sessions>>

-----------------------------------------------------------------------------
(* Rows and sessions *)

SubscriptionStatus == {"active", "expired", "suspended"}

SubscriptionRow ==
  [status : SubscriptionStatus \cup {"absent"}, expiresAt : Nat]

NoSubscription == [status |-> "absent", expiresAt |-> 0]

\* origin is history: the invite whose claim issued the token, 0 if none did.
Token  == [status : {"active", "revoked"}, expiresAt : Nat, origin : Nat]
Invite == [status : {"active", "revoked", "claimed"}, expiresAt : Nat]

Operation == {"issue", "invite", "claim", "update"}

Request ==
  [op : {"none"} \cup Operation,
   at : {"idle", "lock_invite", "eligible", "access", "revoke", "insert", "write"},
   start   : Nat,             \* now() of its transaction
   waits   : BOOLEAN,         \* its check, which waits for the row, saw an active user
   invite  : Nat,             \* claim: the invite its token names
   revokes : SUBSET Nat,      \* rows its UPDATE ... 'revoked' matched
   row     : SubscriptionRow]   \* update: what it read, with its changes

NoRequest ==
  [op |-> "none", at |-> "idle", start |-> 0, waits |-> FALSE, invite |-> 0,
   revokes |-> {}, row |-> NoSubscription]

Active(rows) == {i \in 1..Len(rows) : rows[i].status = "active"}

Marked(rows, ids, status) ==
  [i \in 1..Len(rows) |->
     IF i \in ids THEN [rows[i] EXCEPT !.status = status] ELSE rows[i]]

\* Mutation: FOR UPDATE OF s is missing.
NoForUpdate(s) == FALSE

\* ensureSubscriptionEligibleForAccessToken locked the subscription.
HoldsSubscription(s) == sessions[s].at \in {"access", "revoke", "insert"}

HeldTokens(s) ==
  IF sessions[s].at = "insert" /\ sessions[s].op \in {"issue", "claim"}
    THEN sessions[s].revokes ELSE {}

\* Mutation: FOR UPDATE is missing where the claim looks the invite up.
OnlyRevokedInvites(s) ==
  IF sessions[s].op = "invite" /\ sessions[s].at = "insert"
    THEN sessions[s].revokes ELSE {}

HeldInvites(s) ==
  IF sessions[s].op = "claim" /\ sessions[s].at # "lock_invite"
    THEN {sessions[s].invite}
  ELSE IF sessions[s].op = "invite" /\ sessions[s].at = "insert"
    THEN sessions[s].revokes
  ELSE {}

\* The rows the UPDATE ... SET status = 'revoked' of s is about to change.
ToRevoke(s) ==
  IF sessions[s].op = "invite" THEN Active(invites) ELSE Active(tokens)

Held(s, t) ==
  IF sessions[s].op = "invite" THEN HeldInvites(t) ELSE HeldTokens(t)

\* The next statement of s waits for a row t holds.
WaitsFor(s, t) ==
  /\ s # t
  /\ \/ sessions[s].at = "lock_invite" /\ sessions[s].invite \in HeldInvites(t)
     \/ sessions[s].at \in {"eligible", "write"} /\ HoldsSubscription(t)
     \/ sessions[s].at = "revoke" /\ ToRevoke(s) \cap Held(s, t) # {}

CanRun(s) == \A t \in Session : ~WaitsFor(s, t)

\* What a single-statement request must find unlocked.
SubscriptionFree == \A t \in Session : ~HoldsSubscription(t)

Goto(s, step) == sessions' = [sessions EXCEPT ![s].at = step, ![s].waits = FALSE]
End(s)        == sessions' = [sessions EXCEPT ![s] = NoRequest]

-----------------------------------------------------------------------------
(* The environment, and requests of one statement *)

Init ==
  /\ sub = NoSubscription
  /\ userStatus = "active"
  /\ tokens = <<>>
  /\ invites = <<>>
  /\ now = 0
  /\ sessions = [s \in Session |-> NoRequest]

Tick ==
  /\ now < MaxTime      \* bound
  /\ now' = now + 1
  /\ UNCHANGED <<sub, userStatus, tokens, invites, sessions>>

SetStatus ==
  /\ userStatus' \in {"active", "suspended"} \ {userStatus}
  /\ UNCHANGED <<sub, tokens, invites, now, sessions>>

\* The user's status is not asked.
Create ==
  /\ sub.status = "absent"
  /\ sub' = [status |-> "active", expiresAt |-> now + PlanDays]
  /\ UNCHANGED <<userStatus, tokens, invites, now, sessions>>

Later(a, b) == IF a > b THEN a ELSE b

Renew ==
  /\ sub.status # "absent"
  /\ SubscriptionFree
  /\ sub' = [status |-> "active",
             expiresAt |-> Later(sub.expiresAt, now) + ExtendDays]
  /\ sub'.expiresAt <= MaxExpiry      \* bound
  /\ UNCHANGED <<userStatus, tokens, invites, now, sessions>>

RevokeAccessToken ==
  /\ \A t \in Session : Active(tokens) \cap HeldTokens(t) = {}
  /\ tokens' = Marked(tokens, Active(tokens), "revoked")
  /\ UNCHANGED <<sub, userStatus, invites, now, sessions>>

RevokeHandoffInvite ==
  /\ \A t \in Session : Active(invites) \cap HeldInvites(t) = {}
  /\ invites' = Marked(invites, Active(invites), "revoked")
  /\ UNCHANGED <<sub, userStatus, tokens, now, sessions>>

-----------------------------------------------------------------------------
(* Requests of several statements *)

Open(s, request) ==
  /\ sessions[s].at = "idle"
  /\ sessions' = [sessions EXCEPT ![s] = request]
  /\ UNCHANGED <<sub, userStatus, tokens, invites, now>>

\* CreateAccessToken and RotateAccessToken are the same transaction.
BeginIssue(s) ==
  /\ Len(tokens) < MaxTokens      \* bound
  /\ Open(s, [NoRequest EXCEPT !.op = "issue", !.at = "eligible", !.start = now])

BeginInvite(s) ==
  /\ Len(invites) < MaxInvites    \* bound
  /\ Open(s, [NoRequest EXCEPT !.op = "invite", !.at = "eligible", !.start = now])

BeginClaim(s, i) ==
  /\ Len(tokens) < MaxTokens      \* bound
  /\ Open(s, [NoRequest EXCEPT !.op = "claim", !.at = "lock_invite",
                               !.start = now, !.invite = i])

\* Update reads the row and sets the fields of the request in what it read; a
\* request without a status keeps the one it read.
BeginUpdate(s) ==
  /\ sub.status # "absent"
  /\ \E status \in SubscriptionStatus :
       Open(s, [NoRequest EXCEPT !.op = "update", !.at = "write",
                                 !.row = [sub EXCEPT !.status = status]])

\* SELECT ... FOR UPDATE of the invite the token names.
LockInvite(s) ==
  /\ sessions[s].at = "lock_invite"
  /\ CanRun(s)
  /\ LET invite == invites[sessions[s].invite]
     IN  IF invite.status = "active" /\ invite.expiresAt > sessions[s].start
           THEN Goto(s, "eligible")
           ELSE End(s)
  /\ UNCHANGED <<sub, userStatus, tokens, invites, now>>

Valid(time) == sub.status = "active" /\ sub.expiresAt > time

Eligible(time) == Valid(time) /\ userStatus = "active"

\* A SELECT ... FOR UPDATE OF s that had to wait looks at the subscription again, but
\* at the user as it was when it began to wait.
AwaitSubscription(s) ==
  /\ sessions[s].at = "eligible"
  /\ ~CanRun(s)
  /\ ~sessions[s].waits
  /\ Eligible(sessions[s].start)
  /\ sessions' = [sessions EXCEPT ![s].waits = TRUE]
  /\ UNCHANGED <<sub, userStatus, tokens, invites, now>>

EnsureEligible(s) ==
  /\ sessions[s].at = "eligible"
  /\ CanRun(s)
  /\ IF Valid(sessions[s].start) /\ (userStatus = "active" \/ sessions[s].waits)
       THEN Goto(s, IF sessions[s].op = "claim" THEN "access" ELSE "revoke")
       ELSE End(s)
  /\ UNCHANGED <<sub, userStatus, tokens, invites, now>>

\* Mutation: Access, on a connection of its own, locks the subscription too.
LockingAccess(s) ==
  /\ sessions[s].at = "access"
  /\ SubscriptionFree
  /\ Goto(s, "revoke")
  /\ UNCHANGED <<sub, userStatus, tokens, invites, now>>

\* Access reads on another connection, by the wall clock.  That no node is
\* available for the subscription is one of the reasons of Abort.
ReadAccess(s) ==
  /\ sessions[s].at = "access"
  /\ IF Eligible(now) THEN Goto(s, "revoke") ELSE End(s)
  /\ UNCHANGED <<sub, userStatus, tokens, invites, now>>

RevokePrevious(s) ==
  /\ sessions[s].at = "revoke"
  /\ CanRun(s)
  /\ sessions' = [sessions EXCEPT ![s].at = "insert", ![s].revokes = ToRevoke(s)]
  /\ UNCHANGED <<sub, userStatus, tokens, invites, now>>

Sooner(a, b) == IF a < b THEN a ELSE b

\* Mutation: LEAST is missing.
AlwaysADay(s) == sessions[s].start + Day

InviteExpiry(s) == Sooner(sub.expiresAt, sessions[s].start + Day)

\* Mutation: the status bootstrap tokens have.
InvitesUsed(s) ==
  IF sessions[s].op = "claim"
    THEN Marked(invites, {sessions[s].invite}, "used") ELSE invites

\* UPDATE ... SET status = 'claimed' is part of a claim's transaction.
InvitesClaimed(s) ==
  IF sessions[s].op = "claim"
    THEN Marked(invites, {sessions[s].invite}, "claimed") ELSE invites

InsertAndCommit(s) ==
  /\ sessions[s].at = "insert"
  /\ LET revokes == sessions[s].revokes
     IN  IF sessions[s].op = "invite"
           THEN /\ invites' = Append(Marked(invites, revokes, "revoked"),
                                [status |-> "active", expiresAt |-> InviteExpiry(s)])
                /\ UNCHANGED tokens
           ELSE /\ tokens' = Append(Marked(tokens, revokes, "revoked"),
                               [status |-> "active", expiresAt |-> sub.expiresAt,
                                origin |-> sessions[s].invite])
                /\ invites' = InvitesClaimed(s)
  /\ End(s)
  /\ UNCHANGED <<sub, userStatus, now>>

\* Mutation: the whole row is written back, expires_at included.
WriteWholeRow(s) ==
  /\ sessions[s].at = "write"
  /\ CanRun(s)
  /\ sub' = sessions[s].row
  /\ End(s)
  /\ UNCHANGED <<userStatus, tokens, invites, now>>

\* The status of what it read goes back, whatever was committed in between.
WriteUpdate(s) ==
  /\ sessions[s].at = "write"
  /\ CanRun(s)
  /\ sub' = [sub EXCEPT !.status = sessions[s].row.status]
  /\ End(s)
  /\ UNCHANGED <<userStatus, tokens, invites, now>>

Step(s) ==
  \/ LockInvite(s)
  \/ AwaitSubscription(s)
  \/ EnsureEligible(s)
  \/ ReadAccess(s)
  \/ RevokePrevious(s)
  \/ InsertAndCommit(s)
  \/ WriteUpdate(s)

\* A claim holds its invite and wants the subscription; a new invite's request
\* holds the subscription and wants the invite.  The server ends one of them.
DeadlockDetected(s) ==
  /\ \E t \in Session : WaitsFor(s, t) /\ WaitsFor(t, s)
  /\ End(s)
  /\ UNCHANGED <<sub, userStatus, tokens, invites, now>>

\* The client goes away, a statement fails, panel-api stops: a rollback.
Abort(s) ==
  /\ sessions[s].at # "idle"
  /\ End(s)
  /\ UNCHANGED <<sub, userStatus, tokens, invites, now>>

Begin(s) ==
  \/ BeginIssue(s)
  \/ BeginInvite(s)
  \/ \E i \in 1..Len(invites) : BeginClaim(s, i)
  \/ BeginUpdate(s)

Next ==
  \/ Tick
  \/ SetStatus
  \/ Create
  \/ Renew
  \/ RevokeAccessToken
  \/ RevokeHandoffInvite
  \/ \E s \in Session : Begin(s) \/ Step(s) \/ DeadlockDetected(s) \/ Abort(s)

Spec == Init /\ [][Next]_vars

\* A handler goes on; row locks are granted in the order they are asked for, so
\* nobody waits for a row that becomes free again and again; the server looks
\* for deadlocks.  No client is assumed to go away.
FairSpec ==
  Spec /\ \A s \in Session : SF_vars(Step(s)) /\ WF_vars(DeadlockDetected(s))

-----------------------------------------------------------------------------
(* Properties *)

\* Type invariant: the statuses the schema's CHECK constraints allow.
TypeOK ==
  /\ sub \in SubscriptionRow
  /\ userStatus \in {"active", "suspended"}
  /\ tokens \in Seq(Token)
  /\ invites \in Seq(Invite)
  /\ now \in Nat
  /\ sessions \in [Session -> Request]

\* However issues, rotations, claims and revocations interleave, a subscription
\* has at most one active access token and at most one active invite.
OneActiveEach ==
  /\ Cardinality(Active(tokens)) <= 1
  /\ Cardinality(Active(invites)) <= 1

\* An invite is exchanged once: it is claimed if and only if a claim of it
\* issued a token, and no two tokens come from the same invite.
InviteClaimedOnce ==
  /\ \A i \in 1..Len(invites) :
       invites[i].status = "claimed"
         <=> \E k \in 1..Len(tokens) : tokens[k].origin = i
  /\ \A j, k \in 1..Len(tokens) :
       tokens[j].origin = tokens[k].origin /\ tokens[k].origin # 0 => j = k

\* No token and no invite outlives the subscription, nor an invite its day,
\* though the insert reads expires_at statements after the check.
NeverOutlivesSubscription ==
  /\ \A k \in 1..Len(tokens) : tokens[k].expiresAt <= sub.expiresAt
  /\ \A i \in 1..Len(invites) :
       invites[i].expiresAt <= Sooner(sub.expiresAt, now + Day)

\* A new token or invite appears only while the subscription is active: between
\* the check and the commit nobody suspends it.
IssuedWhileActive ==
  [][Len(tokens') > Len(tokens) \/ Len(invites') > Len(invites)
       => sub.status = "active"]_vars

\* What was revoked or claimed stays so, expires_at of a token or invite never
\* changes, and an update that lost a race with a renewal does not take the
\* paid days back.
NothingComesBack ==
  [][/\ sub'.expiresAt >= sub.expiresAt
     /\ \A k \in 1..Len(tokens) :
          tokens'[k] \in {tokens[k], [tokens[k] EXCEPT !.status = "revoked"]}
     /\ \A i \in 1..Len(invites) :
          /\ invites'[i] = [invites[i] EXCEPT !.status = invites'[i].status]
          /\ invites[i].status # "active" => invites'[i] = invites[i]]_vars

\* Every request is answered, the deadlock between a claim and a new invite of
\* the same subscription included: nobody waits for ever.
RequestsEnd ==
  \A s \in Session : sessions[s].at # "idle" ~> sessions[s].at = "idle"

TheActive(rows) == IF Active(rows) = {} THEN 0 ELSE CHOOSE i \in Active(rows) : TRUE

Handoff ==
  INSTANCE AccessHandoff WITH
    issued  <- Len(tokens),
    token   <- TheActive(tokens),
    invited <- Len(invites),
    invite  <- TheActive(invites),
    claims  <- {<<tokens[k].origin, k>> :
                  k \in {j \in 1..Len(tokens) : tokens[j].origin # 0}}

\* The interleaved statements implement the requests of AccessHandoff, each of
\* which is one step.
ImplementsHandoff == Handoff!Spec
=============================================================================
