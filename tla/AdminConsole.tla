---------------------------- MODULE AdminConsole ----------------------------
(***************************************************************************)
(* The admins' side of panel-api: logins and sessions (auth, storage/      *)
(* admins.go), and what an admitted request does to users and plans        *)
(* (storage/users.go, storage/plans.go) and to the subscriptions it        *)
(* creates from a plan (storage/subscriptions.go).                         *)
(*                                                                         *)
(* No request opens a transaction of several statements here, and no       *)
(* statement but the login's locks what it read.  A request is a login     *)
(* (find the admin, insert the session), or an admission (the session      *)
(* joined with its admin) followed by its operation: an Update reads a     *)
(* row, then writes all its columns but the status; a new subscription     *)
(* reads the plan as its INSERT ... SELECT began, and commits later.       *)
(***************************************************************************)
EXTENDS Integers, FiniteSets

CONSTANTS Admin, User, Plan,   \* ids that rows can have
          Request,      \* requests that may be under way at the same time
          Column,       \* columns a PATCH may name: prices, limits, names
          Value,        \* their values; some columns may be NULL
          Duration,     \* how long a session lasts
          MaxTime,      \* bound: the clock
          MaxVersions,  \* bound: different terms of a plan while active
          MaxTerms      \* bound: subscriptions with different terms

ASSUME ConsoleAssumption ==
  /\ User \cap Plan = {}
  /\ Duration \in Nat \ {0}
  /\ MaxTime \in Nat

VARIABLES now,
          admins,         \* status of every admin
          sessions,       \* rows of admin_sessions, which are never deleted
          rows,           \* of users and plans
          subscriptions,  \* the terms subscriptions were created with
          requests,
          offered,        \* history: the terms every plan had while active
          closed          \* history: users a request suspended and none activated
                          \* since, plans a request archived

history == <<offered, closed>>

vars == <<now, admins, sessions, rows, subscriptions, requests, offered, closed>>

tables == <<admins, sessions, rows, subscriptions>>

-----------------------------------------------------------------------------

Columns   == [Column -> Value]
Patch     == UNION {[named -> Value] : named \in SUBSET Column}
Terms     == [plan : Plan, columns : Columns]

\* Mutation: one status for both tables.
ClosedAlike(i) == "suspended"

Closed(i) == IF i \in User THEN "suspended" ELSE "archived"

Row ==
  [status : {"absent", "active", "suspended", "archived"},
   columns : Columns \cup {<<>>}]

Idle == [at |-> "idle"]
AtLogin(a)    == [at |-> "login", admin |-> a]
Admitted(a)   == [at |-> "admitted", admin |-> a]
AtWrite(i, named, columns) ==
  [at |-> "write", id |-> i, named |-> named, columns |-> columns, overtaken |-> {}]
AtInsert(p, row) == [at |-> "insert", plan |-> p, read |-> row.columns]

RequestState ==
  {Idle} \cup {AtLogin(a) : a \in Admin} \cup {Admitted(a) : a \in Admin}
    \cup [at : {"write"}, id : User \cup Plan, named : SUBSET Column,
          columns : Columns, overtaken : SUBSET Column]
    \cup [at : {"insert"}, plan : Plan, read : Columns]

Init ==
  /\ now = 0
  /\ admins = [a \in Admin |-> "absent"]
  /\ sessions = {}
  /\ rows = [i \in User \cup Plan |-> [status |-> "absent", columns |-> <<>>]]
  /\ subscriptions = {}
  /\ requests = [r \in Request |-> Idle]
  /\ offered = [p \in Plan |-> {}]
  /\ closed = {}

Goto(r, state) == requests' = [requests EXCEPT ![r] = state]

\* The row becomes 'row'; who has read it and not written it is overtaken in the
\* columns that changed and that it does not name.
Write(r, i, row) ==
  LET changed == {c \in Column : row.columns[c] # rows[i].columns[c]}
      Overtaken(q) == IF requests[q].at = "write" /\ requests[q].id = i
                        THEN [requests[q] EXCEPT !.overtaken =
                                @ \cup (changed \ requests[q].named)]
                        ELSE requests[q]
  IN  /\ rows' = [rows EXCEPT ![i] = row]
      /\ requests' = [q \in Request |-> IF q = r THEN Idle ELSE Overtaken(q)]
      /\ offered' = IF i \in Plan /\ row.status = "active"
                      THEN [offered EXCEPT ![i] = @ \cup {row.columns}]
                      ELSE offered
      /\ \A p \in Plan : Cardinality(offered'[p]) <= MaxVersions     \* bound

-----------------------------------------------------------------------------
(* Admins and their sessions *)

\* The bootstrap command: an existing admin, also a suspended one, stays.
BootstrapAdmin(a) ==
  /\ admins[a] = "absent"
  /\ admins' = [admins EXCEPT ![a] = "active"]
  /\ UNCHANGED <<now, sessions, rows, subscriptions, requests, history>>

\* An operator's SQL; no request suspends an admin or brings one back.
SetAdminStatus(a) ==
  /\ admins[a] # "absent"
  /\ \E status \in {"active", "suspended"} \ {admins[a]} :
       admins' = [admins EXCEPT ![a] = status]
  /\ UNCHANGED <<now, sessions, rows, subscriptions, requests, history>>

\* FindByEmail, the status and the password.
Login(r, a) ==
  /\ requests[r] = Idle
  /\ admins[a] = "active"
  /\ Goto(r, AtLogin(a))
  /\ UNCHANGED <<now, tables, history>>

\* The admin's status is not looked at again.
CreateSession(r) ==
  /\ requests[r].at = "login"
  /\ sessions' = sessions \cup
       {[admin |-> requests[r].admin, created |-> now, expires |-> now + Duration]}
  /\ Goto(r, Idle)
  /\ UNCHANGED <<now, admins, rows, subscriptions, history>>

\* Mutation: expires_at >= now, which admits at the instant of the expiry too.
AdmitAtExpiry(r) ==
  /\ requests[r] = Idle
  /\ \E session \in sessions :
       /\ session.expires >= now
       /\ admins[session.admin] = "active"
       /\ Goto(r, Admitted(session.admin))
  /\ UNCHANGED <<now, tables, history>>

\* FindByActiveSessionTokenHash; that last_seen_at is written is not seen again.
RequireAdmin(r) ==
  /\ requests[r] = Idle
  /\ \E session \in sessions :
       /\ session.expires > now
       /\ admins[session.admin] = "active"
       /\ Goto(r, Admitted(session.admin))
  /\ UNCHANGED <<now, tables, history>>

-----------------------------------------------------------------------------
(* Users and plans *)

\* What a request decided of i is remembered; nothing opens a plan again.
Recorded(i, status) ==
  IF status = Closed(i) THEN closed \cup {i} ELSE closed \ ({i} \cap User)

Create(r, i) ==
  /\ requests[r].at = "admitted"
  /\ rows[i].status = "absent"
  /\ \E columns \in Columns :
       Write(r, i, [status |-> "active", columns |-> columns])
  /\ UNCHANGED <<now, admins, sessions, subscriptions, closed>>

\* Mutation: plans have Activate too.
SetStatusOfAny(r, i) ==
  /\ requests[r].at = "admitted"
  /\ rows[i].status # "absent"
  /\ \E status \in {Closed(i), "active"} :
       /\ Write(r, i, [rows[i] EXCEPT !.status = status])
       /\ closed' = Recorded(i, status)
  /\ UNCHANGED <<now, admins, sessions, subscriptions>>

\* SetStatus of a user, Archive of a plan.
SetStatus(r, i) ==
  /\ requests[r].at = "admitted"
  /\ rows[i].status # "absent"
  /\ \E status \in {Closed(i)} \cup {s \in {"active"} : i \in User} :
       /\ Write(r, i, [rows[i] EXCEPT !.status = status])
       /\ closed' = Recorded(i, status)
  /\ UNCHANGED <<now, admins, sessions, subscriptions>>

\* Mutation: a column the body does not name becomes the zero value.
ZeroAbsent(patch, read) ==
  [c \in Column |-> IF c \in DOMAIN patch THEN patch[c] ELSE CHOOSE v \in Value : TRUE]

Patched(patch, read) ==
  [c \in Column |-> IF c \in DOMAIN patch THEN patch[c] ELSE read[c]]

\* FindByID, and the columns in the body.
BeginUpdate(r, i, patch) ==
  /\ requests[r].at = "admitted"
  /\ rows[i].status # "absent"
  /\ Goto(r, AtWrite(i, DOMAIN patch, Patched(patch, rows[i].columns)))
  /\ UNCHANGED <<now, tables, history>>

\* Mutation: the status is among the columns written, active when it was read.
UpdateStatusToo(r) ==
  /\ requests[r].at = "write"
  /\ Write(r, requests[r].id,
           [status |-> "active", columns |-> requests[r].columns])
  /\ UNCHANGED <<now, admins, sessions, subscriptions, closed>>

\* All columns but the status are written.
Update(r) ==
  /\ requests[r].at = "write"
  /\ Write(r, requests[r].id,
           [rows[requests[r].id] EXCEPT !.columns = requests[r].columns])
  /\ UNCHANGED <<now, admins, sessions, subscriptions, closed>>

\* Mutation: the plan is joined without its status.
FromAnyPlan(r, p, u) ==
  /\ requests[r].at = "admitted"
  /\ rows[u].status # "absent"
  /\ rows[p].status # "absent"
  /\ Goto(r, AtInsert(p, rows[p]))
  /\ UNCHANGED <<now, tables, history>>

\* The snapshot of INSERT ... SELECT: the plan is active, the user exists,
\* suspended or not.
BeginSubscription(r, p, u) ==
  /\ requests[r].at = "admitted"
  /\ rows[u].status # "absent"
  /\ rows[p].status = "active"
  /\ Goto(r, AtInsert(p, rows[p]))
  /\ UNCHANGED <<now, tables, history>>

InsertSubscription(r) ==
  /\ requests[r].at = "insert"
  /\ LET new == subscriptions \cup
                  {[plan |-> requests[r].plan, columns |-> requests[r].read]}
     IN  Cardinality(new) <= MaxTerms /\ subscriptions' = new     \* bound
  /\ Goto(r, Idle)
  /\ UNCHANGED <<now, admins, sessions, rows, history>>

\* A bad body, a missing row, a failed statement, a cancelled request.
Abort(r) ==
  /\ requests[r] # Idle
  /\ Goto(r, Idle)
  /\ UNCHANGED <<now, tables, history>>

Tick ==
  /\ now < MaxTime      \* bound
  /\ now' = now + 1
  /\ UNCHANGED <<tables, requests, history>>

-----------------------------------------------------------------------------

AdminStep(a) == BootstrapAdmin(a) \/ SetAdminStatus(a)

RequestStep(r) ==
  \/ \E a \in Admin : Login(r, a)
  \/ CreateSession(r)
  \/ RequireAdmin(r)
  \/ \E i \in User \cup Plan :
       \/ Create(r, i)
       \/ SetStatus(r, i)
       \/ \E patch \in Patch : BeginUpdate(r, i, patch)
  \/ Update(r)
  \/ \E p \in Plan, u \in User : BeginSubscription(r, p, u)
  \/ InsertSubscription(r)
  \/ Abort(r)

Next ==
  \/ Tick
  \/ \E a \in Admin : AdminStep(a)
  \/ \E r \in Request : RequestStep(r)

Spec == Init /\ [][Next]_vars

-----------------------------------------------------------------------------
(* Properties *)

\* Type invariant.
TypeOK ==
  /\ now \in 0..MaxTime
  /\ admins \in [Admin -> {"absent", "active", "suspended"}]
  /\ sessions \subseteq [admin : Admin, created : 0..MaxTime,
                         expires : 0..(MaxTime + Duration)]
  /\ rows \in [User \cup Plan -> Row]
  /\ \A u \in User : rows[u].status # "archived"
  /\ \A p \in Plan : rows[p].status # "suspended"
  /\ subscriptions \subseteq Terms
  /\ requests \in [Request -> RequestState]
  /\ offered \in [Plan -> SUBSET Columns]
  /\ closed \subseteq User \cup Plan

\* A subscription has terms that were on offer, which its plan had while it was
\* active: not those of a PATCH that came after Archive, though the insert may commit
\* after both.
TermsWereOffered ==
  \A s \in subscriptions : s.columns \in offered[s.plan]

\* A user whom a request suspended is suspended until a request activates him, and
\* an archived plan is archived for good, whatever PATCHes read the row before and
\* write it afterwards.
ClosedStaysClosed == \A i \in closed : rows[i].status = Closed(i)

\* Once a plan was archived no statement that creates a subscription from it begins,
\* by whichever requests; one that began earlier may still commit.
NothingSoldOnceArchived ==
  [][\A r \in Request, p \in closed \cap Plan :
       requests'[r].at = "insert" /\ requests'[r].plan = p
         => requests[r] = requests'[r]]_vars

\* Of two overlapping PATCHes one may be lost, but only so: a column that a PATCH
\* does not name changes only if another request changed it after this one read
\* the row.
LostOnlyToOverlap ==
  [][\A r \in Request : requests[r].at = "write" /\ requests'[r] = Idle =>
       LET q == requests[r]
       IN  \A c \in Column \ q.named :
             rows'[q.id].columns[c] # rows[q.id].columns[c] => c \in q.overtaken]_vars

\* A request is admitted when its admin is active, and ended a login less than
\* a session's length before, however often it was suspended and reactivated in
\* between and whatever happened while the login was under way.
AdmittedByLogin ==
  [][\A r \in Request : \A a \in Admin :
       requests[r] = Idle /\ requests'[r] = Admitted(a) =>
         /\ admins[a] = "active"
         /\ \E session \in sessions :
              session.admin = a /\ now < session.created + Duration]_vars
=============================================================================
