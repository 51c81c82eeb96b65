------------------------- MODULE AdminConsoleProofs -------------------------
(***************************************************************************)
(* Proofs about AdminConsole, for any admins, users, plans, columns,       *)
(* values and number of requests under way.                                *)
(*                                                                         *)
(* The argument: what a request carries from the statement that read a row *)
(* to the one that writes is a version of that row (Carried), and whatever *)
(* changed in between is recorded in 'overtaken' by the request that       *)
(* changed it.                                                             *)
(***************************************************************************)
EXTENDS AdminConsole, TLAPS

-----------------------------------------------------------------------------
(* The states of a request *)

\* What a request under way carries.
LEMMA StateFacts ==
  ASSUME NEW s \in RequestState
  PROVE  /\ s.at = "login" => s.admin \in Admin
         /\ s.at = "write" =>
              /\ s.id \in User \cup Plan
              /\ s.named \subseteq Column
              /\ s.columns \in Columns
              /\ s.overtaken \subseteq Column
         /\ s.at = "insert" => s.plan \in Plan /\ s.read \in Columns
<1>1. CASE s = Idle
  BY <1>1 DEF Idle
<1>2. ASSUME NEW a \in Admin, s = AtLogin(a) \/ s = Admitted(a)
      PROVE  s.at \in {"login", "admitted"} /\ s.admin = a
  BY <1>2 DEF AtLogin, Admitted
<1>3. CASE s \in [at : {"write"}, id : User \cup Plan, named : SUBSET Column,
                  columns : Columns, overtaken : SUBSET Column]
  BY <1>3
<1>4. CASE s \in [at : {"insert"}, plan : Plan, read : Columns]
  BY <1>4
<1>5. \/ s = Idle
      \/ \E a \in Admin : s = AtLogin(a) \/ s = Admitted(a)
      \/ s \in [at : {"write"}, id : User \cup Plan, named : SUBSET Column,
                columns : Columns, overtaken : SUBSET Column]
      \/ s \in [at : {"insert"}, plan : Plan, read : Columns]
  BY DEF RequestState
<1> QED BY <1>1, <1>2, <1>3, <1>4, <1>5

\* The states a request goes to.
LEMMA StatesMade ==
  /\ Idle \in RequestState /\ Idle.at = "idle"
  /\ \A a \in Admin :
       /\ AtLogin(a) \in RequestState /\ AtLogin(a).at = "login"
       /\ Admitted(a) \in RequestState /\ Admitted(a).at = "admitted"
       /\ AtLogin(a).admin = a /\ Admitted(a).admin = a
  /\ \A i \in User \cup Plan, named \in SUBSET Column, columns \in Columns :
       /\ AtWrite(i, named, columns) \in RequestState
       /\ AtWrite(i, named, columns).at = "write"
       /\ AtWrite(i, named, columns).id = i
       /\ AtWrite(i, named, columns).named = named
       /\ AtWrite(i, named, columns).columns = columns
       /\ AtWrite(i, named, columns).overtaken = {}
  /\ \A p \in Plan, row \in [status : {"active"}, columns : Columns] :
       /\ AtInsert(p, row) \in RequestState
       /\ AtInsert(p, row).at = "insert"
       /\ AtInsert(p, row).plan = p
       /\ AtInsert(p, row).read = row.columns
BY DEF Idle, AtLogin, Admitted, AtWrite, AtInsert, RequestState

\* A request that is overtaken stays where it is.
LEMMA OvertakenFacts ==
  ASSUME NEW s \in RequestState, s.at = "write", NEW more \in SUBSET Column
  PROVE  LET t == [s EXCEPT !.overtaken = @ \cup more]
         IN  /\ t \in RequestState /\ t.at = "write"
             /\ t.id = s.id /\ t.named = s.named /\ t.columns = s.columns
             /\ t.overtaken = s.overtaken \cup more
<1>1. s \in [at : {"write"}, id : User \cup Plan, named : SUBSET Column,
             columns : Columns, overtaken : SUBSET Column]
  BY DEF RequestState, Idle, AtLogin, Admitted
<1> DEFINE t == [s EXCEPT !.overtaken = @ \cup more]
<1>2. /\ t \in [at : {"write"}, id : User \cup Plan, named : SUBSET Column,
               columns : Columns, overtaken : SUBSET Column]
      /\ t.id = s.id /\ t.named = s.named /\ t.columns = s.columns
      /\ t.overtaken = s.overtaken \cup more
  BY <1>1
<1> QED BY <1>2 DEF RequestState

-----------------------------------------------------------------------------
(* The invariant *)

\* Only a row that does not exist has no columns.
RowsFilled ==
  \A i \in User \cup Plan : rows[i].status # "absent" => rows[i].columns \in Columns

\* The terms of an active plan are on offer.
ActiveOffered ==
  \A p \in Plan : rows[p].status = "active" => rows[p].columns \in offered[p]

\* A request that creates a subscription holds terms that were on offer; one
\* that updates a row, which exists, holds its columns but for those it names
\* and those it was overtaken in.
Carried ==
  \A r \in Request :
    /\ requests[r].at = "insert" => requests[r].read \in offered[requests[r].plan]
    /\ requests[r].at = "write" =>
         /\ rows[requests[r].id].status # "absent"
         /\ \A c \in Column \ requests[r].named :
              rows[requests[r].id].columns[c] # requests[r].columns[c]
                => c \in requests[r].overtaken

SessionsLast ==
  \A session \in sessions : session.expires = session.created + Duration

ConsoleInv ==
  /\ TypeOK
  /\ RowsFilled
  /\ ActiveOffered
  /\ Carried
  /\ SessionsLast
  /\ TermsWereOffered
  /\ ClosedStaysClosed

-----------------------------------------------------------------------------
(* Statements *)

\* A statement that moves one request only.
LEMMA GotoStep ==
  ASSUME ConsoleInv, NEW r \in Request, NEW s \in RequestState, Goto(r, s)
  PROVE  /\ requests' \in [Request -> RequestState]
         /\ requests'[r] = s
         /\ \A q \in Request : q # r => requests'[q] = requests[q]
BY DEF ConsoleInv, TypeOK, Goto

\* The statements that write a row: types hold, what is on offer stays so, the
\* others keep what they carry and are overtaken in what changed.
LEMMA WriteStep ==
  ASSUME ConsoleInv, NEW r \in Request, NEW i \in User \cup Plan,
         NEW row \in [status : {"active", "suspended", "archived"},
                      columns : Columns],
         i \in User => row.status # "archived",
         i \in Plan => row.status # "suspended",
         Write(r, i, row)
  PROVE  /\ requests' \in [Request -> RequestState]
         /\ requests'[r] = Idle
         /\ \A q \in Request : q # r => requests'[q].at = requests[q].at
         /\ rows' = [rows EXCEPT ![i] = row]
         /\ rows' \in [User \cup Plan -> Row]
         /\ \A u \in User : rows'[u].status # "archived"
         /\ \A p \in Plan : rows'[p].status # "suspended"
         /\ offered' \in [Plan -> SUBSET Columns]
         /\ \A p \in Plan : offered[p] \subseteq offered'[p]
         /\ RowsFilled' /\ ActiveOffered' /\ Carried'
<1> DEFINE changed == {c \in Column : row.columns[c] # rows[i].columns[c]}
           Overtaken(q) == IF requests[q].at = "write" /\ requests[q].id = i
                             THEN [requests[q] EXCEPT !.overtaken =
                                     @ \cup (changed \ requests[q].named)]
                             ELSE requests[q]
<1>1. /\ rows \in [User \cup Plan -> Row] /\ requests \in [Request -> RequestState]
      /\ offered \in [Plan -> SUBSET Columns]
      /\ RowsFilled /\ ActiveOffered /\ Carried
  BY DEF ConsoleInv, TypeOK
<1>2. /\ rows' = [rows EXCEPT ![i] = row]
      /\ requests' = [q \in Request |-> IF q = r THEN Idle ELSE Overtaken(q)]
      /\ offered' = IF i \in Plan /\ row.status = "active"
                      THEN [offered EXCEPT ![i] = @ \cup {row.columns}]
                      ELSE offered
  BY DEF Write
<1>3. row \in Row /\ row.columns \in Columns /\ row.status # "absent"
  BY DEF Row
<1>4. /\ rows' \in [User \cup Plan -> Row] /\ rows'[i] = row
      /\ \A k \in User \cup Plan : k # i => rows'[k] = rows[k]
  BY <1>1, <1>2, <1>3
<1>5. /\ \A u \in User : rows'[u].status # "archived"
      /\ \A p \in Plan : rows'[p].status # "suspended"
  BY <1>4 DEF ConsoleInv, TypeOK
<1>6. /\ offered' \in [Plan -> SUBSET Columns]
      /\ \A p \in Plan : offered[p] \subseteq offered'[p]
      /\ i \in Plan /\ row.status = "active" => row.columns \in offered'[i]
  BY <1>1, <1>2, <1>3
<1>7. RowsFilled' /\ ActiveOffered'
  BY <1>1, <1>3, <1>4, <1>6 DEF RowsFilled, ActiveOffered
<1> HIDE DEF changed
<1>8. ASSUME NEW q \in Request, requests[q].at = "write", requests[q].id = i
      PROVE  /\ Overtaken(q) \in RequestState /\ Overtaken(q).at = "write"
             /\ Overtaken(q).id = i /\ Overtaken(q).named = requests[q].named
             /\ Overtaken(q).columns = requests[q].columns
             /\ Overtaken(q).overtaken
                  = requests[q].overtaken \cup (changed \ requests[q].named)
  <2>1. changed \ requests[q].named \in SUBSET Column
    BY DEF changed
  <2>2. requests[q] \in RequestState
    BY <1>1
  <2> QED BY <1>8, <2>1, <2>2, OvertakenFacts
<1>9. ASSUME NEW q \in Request, ~(requests[q].at = "write" /\ requests[q].id = i)
      PROVE  Overtaken(q) = requests[q]
  BY <1>9
<1> HIDE DEF Overtaken
<1>10. /\ requests' \in [Request -> RequestState] /\ requests'[r] = Idle
       /\ \A q \in Request : q # r => requests'[q] = Overtaken(q)
  BY <1>1, <1>2, <1>8, <1>9, StatesMade
<1>11. \A q \in Request : q # r => requests'[q].at = requests[q].at
  BY <1>8, <1>9, <1>10
<1>12. ASSUME NEW q \in Request, requests'[q].at = "insert"
       PROVE  requests'[q].read \in offered'[requests'[q].plan]
  <2>1. q # r /\ requests[q].at = "insert" /\ requests'[q] = requests[q]
    BY <1>9, <1>10, <1>11, <1>12, StatesMade
  <2>2. requests[q].plan \in Plan
    BY <1>1, <2>1, StateFacts
  <2> QED BY <1>1, <1>6, <2>1, <2>2 DEF Carried
<1>13. ASSUME NEW q \in Request, requests'[q].at = "write",
              NEW c \in Column \ requests'[q].named,
              rows'[requests'[q].id].columns[c] # requests'[q].columns[c]
       PROVE  c \in requests'[q].overtaken
  <2>1. q # r /\ requests[q].at = "write" /\ requests'[q] = Overtaken(q)
    BY <1>10, <1>11, <1>13, StatesMade
  <2>2. CASE requests[q].id = i
    <3>1. c \notin requests[q].named /\ row.columns[c] # requests[q].columns[c]
      BY <1>4, <1>8, <1>13, <2>1, <2>2
    <3>2. CASE rows[i].columns[c] # requests[q].columns[c]
      BY <1>1, <1>8, <2>1, <2>2, <3>1, <3>2 DEF Carried
    <3>3. CASE rows[i].columns[c] = requests[q].columns[c]
      <4>1. c \in changed
        BY <3>1, <3>3 DEF changed
      <4> QED BY <1>8, <2>1, <2>2, <3>1, <4>1
    <3> QED BY <3>2, <3>3
  <2>3. CASE requests[q].id # i
    <3>1. requests'[q] = requests[q] /\ requests[q].id \in User \cup Plan
      BY <1>1, <1>9, <2>1, <2>3, StateFacts
    <3>2. rows'[requests[q].id] = rows[requests[q].id]
      BY <1>4, <2>3, <3>1
    <3> QED BY <1>1, <1>13, <2>1, <3>1, <3>2 DEF Carried
  <2> QED BY <2>2, <2>3
<1>14. ASSUME NEW q \in Request, requests'[q].at = "write"
       PROVE  rows'[requests'[q].id].status # "absent"
  <2>1. q # r /\ requests[q].at = "write" /\ requests'[q] = Overtaken(q)
    BY <1>10, <1>11, <1>14, StatesMade
  <2>2. requests'[q].id = requests[q].id /\ requests[q].id \in User \cup Plan
    BY <1>1, <1>8, <1>9, <2>1, StateFacts
  <2> QED BY <1>1, <1>3, <1>4, <2>1, <2>2 DEF Carried
<1>15. Carried'
  BY <1>12, <1>13, <1>14 DEF Carried
<1> QED BY <1>2, <1>4, <1>5, <1>6, <1>7, <1>10, <1>11, <1>15

\* A statement that writes neither users nor plans keeps what is carried, if what
\* its request takes on is as it should be.
LEMMA ReadStep ==
  ASSUME ConsoleInv, NEW r \in Request, NEW s \in RequestState, Goto(r, s),
         UNCHANGED <<rows, offered>>,
         s.at = "insert" => s.read \in offered[s.plan],
         s.at = "write" =>
           /\ rows[s.id].status # "absent"
           /\ \A c \in Column \ s.named : rows[s.id].columns[c] = s.columns[c]
  PROVE  /\ requests' \in [Request -> RequestState]
         /\ RowsFilled' /\ ActiveOffered' /\ Carried'
<1>1. /\ requests' \in [Request -> RequestState] /\ requests'[r] = s
      /\ \A q \in Request : q # r => requests'[q] = requests[q]
  BY GotoStep
<1>2. RowsFilled' /\ ActiveOffered'
  BY DEF ConsoleInv, RowsFilled, ActiveOffered
<1>3. Carried'
  BY <1>1 DEF ConsoleInv, Carried
<1> QED BY <1>1, <1>2, <1>3

\* Nothing is there at first.
LEMMA ConsoleInit == Init => ConsoleInv
<1> SUFFICES ASSUME Init PROVE ConsoleInv
  OBVIOUS
<1>1. /\ now = 0 /\ sessions = {} /\ subscriptions = {}
      /\ admins = [a \in Admin |-> "absent"]
      /\ rows = [i \in User \cup Plan |-> [status |-> "absent", columns |-> <<>>]]
      /\ requests = [r \in Request |-> Idle]
      /\ offered = [p \in Plan |-> {}] /\ closed = {}
  BY DEF Init
<1>2. rows \in [User \cup Plan -> Row]
      /\ \A i \in User \cup Plan : rows[i].status = "absent"
  BY <1>1 DEF Row
<1>3. requests \in [Request -> RequestState]
      /\ \A r \in Request : requests[r].at = "idle"
  BY <1>1, StatesMade
<1>4. now \in 0..MaxTime
  BY <1>1, ConsoleAssumption
<1>5. TypeOK
  BY <1>1, <1>2, <1>3, <1>4 DEF TypeOK
<1>6. RowsFilled /\ ActiveOffered /\ Carried
  BY <1>2, <1>3 DEF RowsFilled, ActiveOffered, Carried
<1>7. SessionsLast /\ TermsWereOffered /\ ClosedStaysClosed
  BY <1>1 DEF SessionsLast, TermsWereOffered, ClosedStaysClosed
<1> QED BY <1>5, <1>6, <1>7 DEF ConsoleInv

\* What remains to be shown of a step whose request is typed.
LEMMA SameTables ==
  ASSUME ConsoleInv, UNCHANGED <<now, admins, sessions, subscriptions>>,
         requests' \in [Request -> RequestState],
         UNCHANGED <<rows, offered, closed>>,
         RowsFilled' /\ ActiveOffered' /\ Carried'
  PROVE  ConsoleInv'
BY DEF ConsoleInv, TypeOK, SessionsLast, TermsWereOffered, ClosedStaysClosed

\* The same of a step that wrote a row.
LEMMA WrittenTables ==
  ASSUME ConsoleInv, NEW r \in Request, NEW i \in User \cup Plan,
         NEW row \in [status : {"active", "suspended", "archived"},
                      columns : Columns],
         i \in User => row.status # "archived",
         i \in Plan => row.status # "suspended",
         Write(r, i, row),
         closed' \subseteq User \cup Plan,
         i \in closed' => row.status = Closed(i),
         \A k \in closed' : k # i => k \in closed,
         UNCHANGED <<now, admins, sessions, subscriptions>>
  PROVE  ConsoleInv'
<1>1. TypeOK'
  BY WriteStep DEF ConsoleInv, TypeOK
<1>3. ClosedStaysClosed'
  <2>1. /\ rows \in [User \cup Plan -> Row] /\ rows' = [rows EXCEPT ![i] = row]
        /\ ClosedStaysClosed
    BY WriteStep DEF ConsoleInv, TypeOK
  <2>2. ASSUME NEW k \in closed' PROVE rows'[k].status = Closed(k)
    <3>1. CASE k = i
      BY <2>1, <3>1
    <3>2. CASE k # i
      BY <2>1, <2>2, <3>2 DEF ClosedStaysClosed
    <3> QED BY <3>1, <3>2
  <2> QED BY <2>2 DEF ClosedStaysClosed, Closed
<1>2. SessionsLast' /\ TermsWereOffered'
  <2>1. \A p \in Plan : offered[p] \subseteq offered'[p]
    BY WriteStep
  <2>2. \A s \in subscriptions : s.plan \in Plan
    BY DEF ConsoleInv, TypeOK, Terms
  <2> QED BY <2>1, <2>2 DEF ConsoleInv, SessionsLast, TermsWereOffered
<1> QED BY <1>1, <1>2, <1>3, WriteStep DEF ConsoleInv

\* Every step of the console keeps the invariant.
LEMMA ConsoleStep == ConsoleInv /\ [Next]_vars => ConsoleInv'
<1> SUFFICES ASSUME ConsoleInv, [Next]_vars PROVE ConsoleInv'
  OBVIOUS
<1>1. /\ rows \in [User \cup Plan -> Row]
      /\ requests \in [Request -> RequestState]
      /\ RowsFilled /\ ActiveOffered /\ Carried
  BY DEF ConsoleInv, TypeOK
<1>2. CASE UNCHANGED vars
  BY <1>2 DEF vars, history, ConsoleInv, TypeOK, RowsFilled, ActiveOffered, Carried,
              SessionsLast, TermsWereOffered, ClosedStaysClosed
<1>3. CASE Tick
  <2>1. now' \in 0..MaxTime
    BY <1>3, ConsoleAssumption DEF Tick, ConsoleInv, TypeOK
  <2> QED BY <1>3, <2>1 DEF Tick, tables, history, ConsoleInv, TypeOK, RowsFilled,
                            ActiveOffered, Carried, SessionsLast, TermsWereOffered, ClosedStaysClosed
<1>4. ASSUME NEW a \in Admin, AdminStep(a) PROVE ConsoleInv'
  <2>1. /\ admins' \in [Admin -> {"absent", "active", "suspended"}]
        /\ UNCHANGED <<now, sessions, rows, subscriptions, requests, history>>
    BY <1>4 DEF AdminStep, BootstrapAdmin, SetAdminStatus, ConsoleInv, TypeOK
  <2> QED BY <2>1 DEF history, ConsoleInv, TypeOK, RowsFilled, ActiveOffered, Carried,
                      SessionsLast, TermsWereOffered, ClosedStaysClosed
<1>5. ASSUME NEW r \in Request, NEW a \in Admin, Login(r, a) PROVE ConsoleInv'
  <2>1. /\ Goto(r, AtLogin(a)) /\ UNCHANGED <<now, tables, history>>
        /\ AtLogin(a) \in RequestState /\ AtLogin(a).at = "login"
    BY <1>5, StatesMade DEF Login
  <2> QED BY <2>1, ReadStep, SameTables DEF tables, history
<1>6. ASSUME NEW r \in Request, CreateSession(r) PROVE ConsoleInv'
  <2> DEFINE session == [admin |-> requests[r].admin, created |-> now,
                         expires |-> now + Duration]
  <2>1. /\ Goto(r, Idle) /\ UNCHANGED <<now, admins, rows, subscriptions, history>>
        /\ sessions' = sessions \cup {session}
    BY <1>6 DEF CreateSession
  <2>2. requests[r].admin \in Admin
    BY <1>1, <1>6, StateFacts DEF CreateSession
  <2>3. session \in [admin : Admin, created : 0..MaxTime,
                     expires : 0..(MaxTime + Duration)]
    BY <2>2, ConsoleAssumption DEF ConsoleInv, TypeOK
  <2>4. /\ requests' \in [Request -> RequestState]
        /\ RowsFilled' /\ ActiveOffered' /\ Carried'
    BY <2>1, ReadStep, StatesMade DEF history
  <2>5. SessionsLast'
    BY <2>1 DEF ConsoleInv, SessionsLast
  <2> QED BY <2>1, <2>3, <2>4, <2>5
          DEF history, ConsoleInv, TypeOK, TermsWereOffered, ClosedStaysClosed
<1>7. ASSUME NEW r \in Request, RequireAdmin(r) PROVE ConsoleInv'
  <2>1. PICK session \in sessions : Goto(r, Admitted(session.admin))
    BY <1>7 DEF RequireAdmin
  <2>2. session.admin \in Admin
    BY DEF ConsoleInv, TypeOK
  <2>3. /\ Admitted(session.admin) \in RequestState
        /\ Admitted(session.admin).at = "admitted"
    BY <2>2, StatesMade
  <2>4. UNCHANGED <<now, tables, history>>
    BY <1>7 DEF RequireAdmin
  <2> QED BY <2>1, <2>3, <2>4, ReadStep, SameTables DEF tables, history
<1>8. ASSUME NEW r \in Request, NEW i \in User \cup Plan, Create(r, i)
      PROVE  ConsoleInv'
  <2>1. PICK columns \in Columns :
          Write(r, i, [status |-> "active", columns |-> columns])
    BY <1>8 DEF Create
  <2>2. i \notin closed /\ UNCHANGED closed
    BY <1>1, <1>8 DEF Create, ConsoleInv, ClosedStaysClosed, Closed
  <2> QED BY <1>8, <2>1, <2>2, WrittenTables DEF Create, ConsoleInv, TypeOK
<1>9. ASSUME NEW r \in Request, NEW i \in User \cup Plan, SetStatus(r, i)
      PROVE  ConsoleInv'
  <2>1. PICK status \in {Closed(i)} \cup {s \in {"active"} : i \in User} :
          /\ Write(r, i, [rows[i] EXCEPT !.status = status])
          /\ closed' = Recorded(i, status)
    BY <1>9 DEF SetStatus
  <2>2. rows[i] \in Row /\ rows[i].columns \in Columns
    BY <1>1, <1>9 DEF RowsFilled, SetStatus
  <2>3. /\ status \in {"active", "suspended", "archived"}
        /\ i \in User => status # "archived"
        /\ i \in Plan => status # "suspended"
    BY <2>1, ConsoleAssumption DEF Closed
  <2> DEFINE row == [rows[i] EXCEPT !.status = status]
  <2>4. /\ row \in [status : {"active", "suspended", "archived"}, columns : Columns]
        /\ row.status = status
    BY <2>2, <2>3 DEF Row
  <2> HIDE DEF row
  <2>5. Write(r, i, row)
    BY <2>1 DEF row
  <2>6. /\ closed' \subseteq User \cup Plan
        /\ i \in closed' => status = Closed(i)
        /\ \A k \in closed' : k # i => k \in closed
    <3>1. i \in Plan => status = Closed(i)
      BY <2>1, ConsoleAssumption
    <3> QED BY <2>1, <3>1 DEF Recorded, ConsoleInv, TypeOK
  <2> QED BY <1>9, <2>3, <2>4, <2>5, <2>6, WrittenTables DEF SetStatus
<1>10. ASSUME NEW r \in Request, NEW i \in User \cup Plan, NEW patch \in Patch,
              BeginUpdate(r, i, patch)
       PROVE  ConsoleInv'
  <2> DEFINE columns == Patched(patch, rows[i].columns)
             s == AtWrite(i, DOMAIN patch, columns)
  <2>1. rows[i].columns \in Columns
    BY <1>1, <1>10 DEF RowsFilled, BeginUpdate
  <2>2. DOMAIN patch \in SUBSET Column /\ patch \in [DOMAIN patch -> Value]
    BY DEF Patch
  <2>3. /\ columns \in Columns
        /\ \A c \in Column \ DOMAIN patch : columns[c] = rows[i].columns[c]
    BY <2>1, <2>2 DEF Patched, Columns
  <2> HIDE DEF columns
  <2>4. /\ s \in RequestState /\ s.at = "write" /\ s.id = i
        /\ s.named = DOMAIN patch /\ s.columns = columns
    BY <2>2, <2>3, StatesMade
  <2>5. Goto(r, s) /\ UNCHANGED <<now, tables, history>>
    BY <1>10 DEF BeginUpdate, columns
  <2>6. rows[i].status # "absent"
    BY <1>10 DEF BeginUpdate
  <2> HIDE DEF s
  <2> QED BY <2>3, <2>4, <2>5, <2>6, ReadStep, SameTables DEF tables, history
<1>11. ASSUME NEW r \in Request, Update(r) PROVE ConsoleInv'
  <2> DEFINE i == requests[r].id
             row == [rows[i] EXCEPT !.columns = requests[r].columns]
  <2>1. i \in User \cup Plan /\ requests[r].columns \in Columns
    BY <1>1, <1>11, StateFacts DEF Update
  <2>2. rows[i] \in Row /\ rows[i].status # "absent"
    BY <1>1, <1>11, <2>1 DEF Carried, Update
  <2>3. /\ row \in [status : {"active", "suspended", "archived"}, columns : Columns]
        /\ row.status = rows[i].status
    BY <2>1, <2>2 DEF Row
  <2>4. /\ i \in User => row.status # "archived"
        /\ i \in Plan => row.status # "suspended"
    BY <2>3 DEF ConsoleInv, TypeOK
  <2>5. Write(r, i, row) /\ UNCHANGED <<now, admins, sessions, subscriptions, closed>>
    BY <1>11 DEF Update
  <2>6. closed \subseteq User \cup Plan /\ (i \in closed => rows[i].status = Closed(i))
    BY DEF ConsoleInv, TypeOK, ClosedStaysClosed
  <2> HIDE DEF row, i
  <2> QED BY <2>1, <2>3, <2>4, <2>5, <2>6, WrittenTables
<1>12. ASSUME NEW r \in Request, NEW p \in Plan, NEW u \in User,
              BeginSubscription(r, p, u)
       PROVE  ConsoleInv'
  <2>1. /\ rows[p] \in Row /\ rows[p].status = "active"
        /\ rows[p].columns \in Columns /\ rows[p].columns \in offered[p]
    BY <1>1, <1>12 DEF RowsFilled, ActiveOffered, BeginSubscription
  <2>2. rows[p] \in [status : {"active"}, columns : Columns]
    BY <2>1 DEF Row
  <2>3. Goto(r, AtInsert(p, rows[p])) /\ UNCHANGED <<now, tables, history>>
    BY <1>12 DEF BeginSubscription
  <2>4. /\ AtInsert(p, rows[p]) \in RequestState
        /\ AtInsert(p, rows[p]).at = "insert"
        /\ AtInsert(p, rows[p]).plan = p
        /\ AtInsert(p, rows[p]).read = rows[p].columns
    BY <2>2, StatesMade
  <2> QED BY <2>1, <2>3, <2>4, ReadStep, SameTables DEF tables, history
<1>13. ASSUME NEW r \in Request, InsertSubscription(r) PROVE ConsoleInv'
  <2> DEFINE new == [plan |-> requests[r].plan, columns |-> requests[r].read]
  <2>1. /\ requests[r].plan \in Plan /\ requests[r].read \in Columns
        /\ requests[r].read \in offered[requests[r].plan]
    BY <1>1, <1>13, StateFacts DEF Carried, InsertSubscription
  <2>2. /\ new \in Terms /\ new.plan = requests[r].plan
        /\ new.columns = requests[r].read
    BY <2>1 DEF Terms
  <2>3. /\ subscriptions' = subscriptions \cup {new} /\ Goto(r, Idle)
        /\ UNCHANGED <<now, admins, sessions, rows, history>>
    BY <1>13 DEF InsertSubscription
  <2> HIDE DEF new
  <2>4. TermsWereOffered'
    BY <2>1, <2>2, <2>3 DEF history, ConsoleInv, TermsWereOffered
  <2>5. /\ requests' \in [Request -> RequestState]
        /\ RowsFilled' /\ ActiveOffered' /\ Carried'
    BY <2>3, ReadStep, StatesMade DEF history
  <2> QED BY <2>2, <2>3, <2>4, <2>5
          DEF history, ConsoleInv, TypeOK, SessionsLast, ClosedStaysClosed
<1>14. ASSUME NEW r \in Request, Abort(r) PROVE ConsoleInv'
  BY <1>14, ReadStep, SameTables, StatesMade DEF Abort, tables, history
<1> QED
  BY <1>2, <1>3, <1>4, <1>5, <1>6, <1>7, <1>8, <1>9, <1>10, <1>11, <1>12,
     <1>13, <1>14 DEF Next, RequestStep

-----------------------------------------------------------------------------
(* The theorems *)

\* The inductive invariant holds of every run.
THEOREM ConsoleCorrect == Spec => []ConsoleInv
BY ConsoleInit, ConsoleStep, PTL DEF Spec

\* Types hold.
THEOREM ConsoleTypes == Spec => []TypeOK
<1>1. ConsoleInv => TypeOK
  BY DEF ConsoleInv
<1> QED BY <1>1, ConsoleCorrect, PTL

\* No subscription is sold on terms its plan never had while it was active.
THEOREM TermsOffered == Spec => []TermsWereOffered
<1>1. ConsoleInv => TermsWereOffered
  BY DEF ConsoleInv
<1> QED BY <1>1, ConsoleCorrect, PTL

\* A request leaves its write by an Update or without a trace.
LEMMA WriteEnds ==
  ASSUME ConsoleInv, Next, NEW r \in Request, requests[r].at = "write",
         requests'[r] = Idle
  PROVE  \/ Update(r)
         \/ UNCHANGED <<rows, offered>>
<1>1. requests'[r].at = "idle" /\ requests \in [Request -> RequestState]
  BY StatesMade DEF ConsoleInv, TypeOK
<1>2. ASSUME NEW q \in Request, NEW i \in User \cup Plan, NEW row,
             Write(q, i, row), q # r
      PROVE  FALSE
  <2>1. requests'[r] = requests[r] \/
          \E more \in SUBSET Column :
            requests'[r] = [requests[r] EXCEPT !.overtaken = @ \cup more]
    <3> DEFINE more == {c \in Column : row.columns[c] # rows[i].columns[c]}
                         \ requests[r].named
    <3>1. more \in SUBSET Column
      OBVIOUS
    <3>2. requests'[r] = IF requests[r].at = "write" /\ requests[r].id = i
                           THEN [requests[r] EXCEPT !.overtaken = @ \cup more]
                           ELSE requests[r]
      BY <1>2 DEF Write
    <3> HIDE DEF more
    <3> QED BY <3>1, <3>2
  <2>2. requests'[r].at = "write"
    BY <1>1, <2>1, OvertakenFacts
  <2> QED BY <1>1, <2>2
<1>3. ASSUME NEW q \in Request, RequestStep(q)
      PROVE  Update(r) \/ UNCHANGED <<rows, offered>>
  <2>1. CASE \E i \in User \cup Plan : Create(q, i) \/ SetStatus(q, i)
    <3>1. requests[q].at = "admitted"
      BY <2>1 DEF Create, SetStatus
    <3>2. q # r
      BY <3>1
    <3> QED BY <1>2, <2>1, <3>2 DEF Create, SetStatus
  <2>2. CASE Update(q)
    <3>1. requests[q].id \in User \cup Plan
      BY <1>1, <2>2, StateFacts DEF Update
    <3> QED BY <1>2, <2>2, <3>1 DEF Update
  <2> QED
    BY <1>3, <2>1, <2>2
    DEF RequestStep, Login, CreateSession, RequireAdmin, BeginUpdate,
        BeginSubscription, InsertSubscription, Abort, tables, history
<1>4. CASE ~(\E q \in Request : RequestStep(q))
  BY <1>4 DEF Next, Tick, AdminStep, BootstrapAdmin, SetAdminStatus, tables, history
<1> QED BY <1>3, <1>4

\* No PATCH, however long it was under way, undoes a suspension or an archiving.
THEOREM ClosedStays == Spec => []ClosedStaysClosed
<1>1. ConsoleInv => ClosedStaysClosed
  BY DEF ConsoleInv
<1> QED BY <1>1, ConsoleCorrect, PTL

\* Only a statement that finds its plan active begins to create a subscription.
LEMMA SaleStep ==
  ASSUME ConsoleInv, Next, NEW r \in Request, requests'[r].at = "insert",
         requests[r] # requests'[r]
  PROVE  rows[requests'[r].plan].status = "active"
<1>1. /\ requests \in [Request -> RequestState] /\ rows \in [User \cup Plan -> Row]
      /\ RowsFilled
  BY DEF ConsoleInv, TypeOK
<1>2. PICK q \in Request : RequestStep(q)
  BY DEF Next, Tick, AdminStep, BootstrapAdmin, SetAdminStatus, tables
<1>3. ASSUME NEW s \in RequestState, Goto(q, s), s.at # "insert" PROVE FALSE
  BY <1>1, <1>3 DEF Goto
<1>4. ASSUME NEW i \in User \cup Plan, NEW row, Write(q, i, row) PROVE FALSE
  <2> DEFINE more == {c \in Column : row.columns[c] # rows[i].columns[c]}
                       \ requests[r].named
  <2>1. more \in SUBSET Column
    OBVIOUS
  <2>2. requests'[r] \in {Idle, requests[r]} \/
          /\ requests[r].at = "write"
          /\ requests'[r] = [requests[r] EXCEPT !.overtaken = @ \cup more]
    BY <1>4 DEF Write
  <2> HIDE DEF more
  <2>3. requests'[r] # Idle /\ requests'[r] # requests[r]
    BY StatesMade
  <2>4. /\ requests[r].at = "write"
        /\ requests'[r] = [requests[r] EXCEPT !.overtaken = @ \cup more]
    BY <2>2, <2>3
  <2>5. requests[r] \in RequestState
    BY <1>1
  <2>6. requests'[r].at = "write"
    BY <2>1, <2>4, <2>5, OvertakenFacts
  <2> QED BY <2>6
<1>5. CASE \E a \in Admin : Login(q, a)
  BY <1>3, <1>5, StatesMade DEF Login
<1>6. CASE RequireAdmin(q)
  <2>1. \A session \in sessions : session.admin \in Admin
    BY DEF ConsoleInv, TypeOK
  <2> QED BY <1>3, <1>6, <2>1, StatesMade DEF RequireAdmin
<1>7. CASE CreateSession(q) \/ InsertSubscription(q) \/ Abort(q)
  BY <1>3, <1>7, StatesMade DEF CreateSession, InsertSubscription, Abort
<1>8. CASE \E i \in User \cup Plan : Create(q, i) \/ SetStatus(q, i)
  BY <1>4, <1>8 DEF Create, SetStatus
<1>9. CASE \E i \in User \cup Plan, patch \in Patch : BeginUpdate(q, i, patch)
  <2>1. PICK i \in User \cup Plan, patch \in Patch : BeginUpdate(q, i, patch)
    BY <1>9
  <2> DEFINE s == AtWrite(i, DOMAIN patch, Patched(patch, rows[i].columns))
  <2>2. s.at = "write"
    BY DEF AtWrite
  <2>3. requests' = [requests EXCEPT ![q] = s]
    BY <2>1 DEF BeginUpdate, Goto
  <2> HIDE DEF s
  <2> QED BY <1>1, <2>2, <2>3
<1>10. CASE Update(q)
  <2>1. requests[q].id \in User \cup Plan
    BY <1>1, <1>10, StateFacts DEF Update
  <2> QED BY <1>4, <1>10, <2>1 DEF Update
<1>11. CASE \E p \in Plan, u \in User : BeginSubscription(q, p, u)
  <2>1. PICK p \in Plan : rows[p].status = "active" /\ Goto(q, AtInsert(p, rows[p]))
    BY <1>11 DEF BeginSubscription
  <2>2. AtInsert(p, rows[p]).plan = p
    BY DEF AtInsert
  <2>3. requests'[r] = AtInsert(p, rows[p])
    BY <1>1, <2>1 DEF Goto
  <2> QED BY <2>1, <2>2, <2>3
<1> QED
  BY <1>2, <1>5, <1>6, <1>7, <1>8, <1>9, <1>10, <1>11 DEF RequestStep

\* An archived plan is never sold again.
THEOREM ArchivedIsNotSold == Spec => NothingSoldOnceArchived
<1>1. ASSUME ConsoleInv, Next, NEW r \in Request, NEW p \in closed \cap Plan,
             requests'[r].at = "insert", requests'[r].plan = p
      PROVE  requests[r] = requests'[r]
  <2>1. rows[p].status = "archived"
    BY <1>1, ConsoleAssumption DEF ConsoleInv, ClosedStaysClosed, Closed
  <2> QED BY <1>1, <2>1, SaleStep
<1>2. ConsoleInv /\ [Next]_vars =>
        [\A r \in Request, p \in closed \cap Plan :
           requests'[r].at = "insert" /\ requests'[r].plan = p
             => requests[r] = requests'[r]]_vars
  BY <1>1
<1> QED BY <1>2, ConsoleCorrect, PTL DEF Spec, NothingSoldOnceArchived

\* A PATCH loses a column it does not name to a PATCH it overlapped with only.
THEOREM OverlapOnly == Spec => LostOnlyToOverlap
<1>1. ASSUME ConsoleInv, Next, NEW r \in Request, requests[r].at = "write",
             requests'[r] = Idle, NEW c \in Column \ requests[r].named,
             rows'[requests[r].id].columns[c] # rows[requests[r].id].columns[c]
      PROVE  c \in requests[r].overtaken
  <2> DEFINE k == requests[r].id
  <2>1. /\ rows \in [User \cup Plan -> Row] /\ k \in User \cup Plan
        /\ requests \in [Request -> RequestState]
    BY <1>1, StateFacts DEF ConsoleInv, TypeOK
  <2>2. Update(r)
    BY <1>1, WriteEnds
  <2>3. rows' = [rows EXCEPT ![k] = [rows[k] EXCEPT !.columns = requests[r].columns]]
    BY <2>2 DEF Update, Write
  <2>4. rows'[k].columns = requests[r].columns
    BY <2>1, <2>3 DEF Row
  <2> QED BY <1>1, <2>4 DEF ConsoleInv, Carried
<1>2. ConsoleInv /\ [Next]_vars =>
        [\A r \in Request : requests[r].at = "write" /\ requests'[r] = Idle =>
           LET q == requests[r]
           IN  \A c \in Column \ q.named :
                 rows'[q.id].columns[c] # rows[q.id].columns[c]
                   => c \in q.overtaken]_vars
  BY <1>1
<1> QED BY <1>2, ConsoleCorrect, PTL DEF Spec, LostOnlyToOverlap

\* Only RequireAdmin admits a request.
LEMMA AdmissionStep ==
  ASSUME ConsoleInv, Next, NEW r \in Request, NEW a \in Admin,
         requests[r] = Idle, requests'[r] = Admitted(a)
  PROVE  \E session \in sessions :
           session.expires > now /\ admins[a] = "active" /\ session.admin = a
<1>1. requests[r].at = "idle" /\ requests'[r].at = "admitted" /\ requests'[r].admin = a
      /\ requests \in [Request -> RequestState]
  BY StatesMade DEF ConsoleInv, TypeOK
<1>2. PICK q \in Request : RequestStep(q)
  BY <1>1 DEF Next, Tick, AdminStep, BootstrapAdmin, SetAdminStatus, tables, history
<1>3. CASE RequireAdmin(q)
  <2>1. PICK session \in sessions :
          /\ session.expires > now /\ admins[session.admin] = "active"
          /\ Goto(q, Admitted(session.admin))
    BY <1>3 DEF RequireAdmin
  <2>2. session.admin \in Admin
    BY DEF ConsoleInv, TypeOK
  <2>3. q = r
    BY <1>1, <2>1 DEF Goto
  <2>4. requests'[r] = Admitted(session.admin)
    BY <1>1, <2>1, <2>3 DEF Goto
  <2>5. session.admin = a
    BY <1>1, <2>2, <2>4, StatesMade
  <2> QED BY <2>1, <2>5
<1>4. ASSUME NEW s, Goto(q, s), s.at # "admitted" PROVE FALSE
  BY <1>1, <1>4 DEF Goto
<1>5. ASSUME NEW i \in User \cup Plan, NEW row, Write(q, i, row) PROVE FALSE
  <2>1. requests'[r] \in {Idle, requests[r]}
    BY <1>1, <1>5 DEF Write
  <2> QED BY <1>1, <2>1, StatesMade
<1>6. CASE \E x \in Admin : Login(q, x)
  BY <1>4, <1>6, StatesMade DEF Login
<1>7. CASE CreateSession(q) \/ InsertSubscription(q) \/ Abort(q)
  BY <1>4, <1>7, StatesMade DEF CreateSession, InsertSubscription, Abort
<1>8. CASE \E i \in User \cup Plan : Create(q, i) \/ SetStatus(q, i)
  BY <1>5, <1>8 DEF Create, SetStatus
<1>9. CASE \E i \in User \cup Plan, patch \in Patch : BeginUpdate(q, i, patch)
  <2>1. PICK i \in User \cup Plan, patch \in Patch : BeginUpdate(q, i, patch)
    BY <1>9
  <2>2. AtWrite(i, DOMAIN patch, Patched(patch, rows[i].columns)).at = "write"
    BY DEF AtWrite
  <2> QED BY <1>4, <2>1, <2>2 DEF BeginUpdate
<1>10. CASE Update(q)
  <2>1. requests[q].id \in User \cup Plan
    BY <1>1, <1>10, StateFacts DEF Update
  <2> QED BY <1>5, <1>10, <2>1 DEF Update
<1>11. CASE \E p \in Plan, u \in User : BeginSubscription(q, p, u)
  <2>1. PICK p \in Plan : Goto(q, AtInsert(p, rows[p]))
    BY <1>11 DEF BeginSubscription
  <2>2. AtInsert(p, rows[p]).at = "insert"
    BY DEF AtInsert
  <2> QED BY <1>4, <2>1, <2>2
<1> QED
  BY <1>2, <1>3, <1>6, <1>7, <1>8, <1>9, <1>10, <1>11 DEF RequestStep

\* Nobody is admitted by a session that expired or for an admin suspended by then.
THEOREM AdmittedLoggedIn == Spec => AdmittedByLogin
<1>1. ASSUME ConsoleInv, Next, NEW r \in Request, NEW a \in Admin,
             requests[r] = Idle, requests'[r] = Admitted(a)
      PROVE  /\ admins[a] = "active"
             /\ \E session \in sessions :
                  session.admin = a /\ now < session.created + Duration
  <2>1. PICK session \in sessions :
          session.expires > now /\ admins[a] = "active" /\ session.admin = a
    BY <1>1, AdmissionStep
  <2>2. /\ session.expires = session.created + Duration
        /\ session.created \in Nat /\ now \in Nat /\ session.expires \in Nat
    BY <1>1, ConsoleAssumption DEF ConsoleInv, SessionsLast, TypeOK
  <2>3. now < session.created + Duration
    BY <2>1, <2>2, ConsoleAssumption
  <2> QED BY <2>1, <2>3
<1>2. ConsoleInv /\ [Next]_vars =>
        [\A r \in Request : \A a \in Admin :
           requests[r] = Idle /\ requests'[r] = Admitted(a) =>
             /\ admins[a] = "active"
             /\ \E session \in sessions :
                  session.admin = a /\ now < session.created + Duration]_vars
  BY <1>1
<1> QED BY <1>2, ConsoleCorrect, PTL DEF Spec, AdmittedByLogin
=============================================================================
