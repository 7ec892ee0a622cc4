---------------------------- MODULE AccountsProofs ----------------------------
(* Proofs about Accounts: its inductive invariant, and that it implements  *)
(* Credentials.                                                            *)
EXTENDS Accounts, TLAPS

\* Passwords and owners are written once, and nothing is accepted again.
Grows ==
    /\ \A u \in User : password[u] # None => password'[u] = password[u]
    /\ \A c \in Cred : owner[c] # None => owner'[c] = owner[c]
    /\ \A c \in Cred : Accepted(c)' => Accepted(c) \/ owner[c] = None

\* What is true of a request stays true of it while the tables grow.
LEMMA OKStays ==
    ASSUME AccountsInv, Grows, NEW q \in Request, OK(q)
    PROVE  OK(q)'
<1> USE AccountsAssumption DEF Request, OK
<1>1. Issued(q)'
  BY DEF Issued, Grows, Cred
<1>2. StandingSeen(q)'
  BY DEF StandingSeen, Issued, Grows, Cred
<1>3. Shape(q)'
  BY DEF Shape, Grows
<1> QED BY <1>1, <1>2, <1>3

\* Replacing one request by one that fits the new tables.
LEMMA Replace ==
    ASSUME AccountsInv, Grows, NEW r \in Req, NEW q \in Request, Becomes(r, q), OK(q)'
    PROVE  RequestsOK'
<1> SUFFICES ASSUME NEW p \in Req PROVE OK(req[p])'
  BY DEF RequestsOK
<1>1. PICK x \in Request : x = req[p]
  BY DEF AccountsInv, TypeOK
<1>2. OK(x)
  BY <1>1 DEF AccountsInv, RequestsOK
<1>3. OK(x)'
  BY <1>2, OKStays
<1>4. req'[p] = IF p = r THEN q ELSE x
  BY <1>1 DEF Becomes, AccountsInv, TypeOK
<1>5. CASE p = r
  BY <1>4, <1>5 DEF OK, Issued, StandingSeen, Shape
<1>6. CASE p # r
  BY <1>3, <1>4, <1>6 DEF OK, Issued, StandingSeen, Shape
<1> QED BY <1>5, <1>6

\* A request that brings no new token disturbs none on its way.
LEMMA Travels ==
    ASSUME AccountsInv, NEW r \in Req, NEW q \in Request, Becomes(r, q),
           UNCHANGED <<jar, known>>, q.setNew \notin Token,
           q.new \in {None, req[r].new, jar.new},
           q.page \in {None, req[r].new, req[r].page}
    PROVE  TravelsOnce' /\ ShownThenForgotten'
<1> USE AccountsAssumption
<1>1. \A p \in Req : req'[p] = IF p = r THEN q ELSE req[p]
  BY DEF Becomes, AccountsInv, TypeOK
<1>2. None \notin Token
  BY DEF Cred
<1>3. TravelsOnce'
  BY <1>1, <1>2 DEF AccountsInv, TravelsOnce
<1>4. ShownThenForgotten'
  BY <1>1 DEF AccountsInv, ShownThenForgotten, TypeOK
<1> QED BY <1>3, <1>4

\* TravelsOnce, for one token on its way.
LEMMA OnItsWay ==
    ASSUME AccountsInv, NEW p \in Req, req[p].setNew \in Token, NEW q \in Req
    PROVE  /\ jar.new # req[p].setNew /\ req[p].setNew \notin known
           /\ req[q].new # req[p].setNew /\ req[q].page # req[p].setNew
           /\ req[q].setNew = req[p].setNew => q = p
<1>1. TravelsOnce
  BY DEF AccountsInv
<1> QED BY <1>1 DEF TravelsOnce

LEMMA InitInv == Init => AccountsInv
<1> SUFFICES ASSUME Init PROVE AccountsInv
  OBVIOUS
<1> USE AccountsAssumption DEF Init
<1>1. TypeOK
  BY DEF TypeOK, Idle, Request, Cred, Forever
<1>2. RequestsOK
  BY DEF RequestsOK, OK, Issued, StandingSeen, Shape, Idle, Cred, Behind
<1> QED BY <1>1, <1>2 DEF AccountsInv, RowsOwned, BrowserIssued, TravelsOnce,
          EarnedSessions, ShownThenForgotten, Row, Idle, Cred

-----------------------------------------------------------------------------
(* Steps that change nothing but a request                                 *)

LEMMA RequestOnly ==
    ASSUME AccountsInv, NEW r \in Req, NEW q \in Request, Becomes(r, q),
           UNCHANGED <<tables, jar, history>>, OK(q), q.setNew \notin Token,
           q.new \in {None, req[r].new, jar.new},
           q.page \in {None, req[r].new, req[r].page}
    PROVE  AccountsInv'
<1>1. Grows
  BY DEF Grows, tables, Accepted, Row
<1>2. RequestsOK'
  BY <1>1, OKStays, Replace
<1>3. TravelsOnce' /\ ShownThenForgotten'
  BY Travels DEF history
<1>4. TypeOK'
  BY DEF AccountsInv, TypeOK, Becomes, tables, history
<1> QED BY <1>2, <1>3, <1>4 DEF AccountsInv, RowsOwned, BrowserIssued,
          EarnedSessions, Row, tables, history

LEMMA IdleOK ==
    /\ Idle \in Request /\ OK(Idle)
    /\ Idle.setNew \notin Token /\ Idle.new = None /\ Idle.page = None
BY AccountsAssumption
   DEF Idle, Request, OK, Issued, StandingSeen, Shape, Cred, Behind

LEMMA DoneInv ==
    ASSUME AccountsInv, NEW r \in Req, Done(r), UNCHANGED <<tables, jar, history>>
    PROVE  AccountsInv'
BY IdleOK, RequestOnly DEF Done

LEMMA ArriveInv == ASSUME AccountsInv, NEW r \in Req, Send(r) PROVE AccountsInv'
<1> USE AccountsAssumption
<1>j. jar.session \in Session \cup {None} /\ jar.new \in Token \cup {None}
  BY DEF AccountsInv, TypeOK
<1>s. \A c \in Cred \cup {None} : Standing(c) \in User \cup {None, Gone}
  BY DEF Standing, AccountsInv, TypeOK
<1>1. ASSUME NEW op \in {"insertUser", "selectUser"}, NEW u \in User,
             NEW p \in Password, Submit(r, op, u, p)
      PROVE  AccountsInv'
  <2> DEFINE q == [[Idle EXCEPT !.step = op, !.name = u, !.pass = p]
                     EXCEPT !.was = Standing(None)]
  <2>1. q \in Request /\ OK(q) /\ q.setNew \notin Token /\ q.new = None /\ q.page = None
    BY DEF Idle, Request, OK, Issued, StandingSeen, Shape, Cred, Standing, Behind
  <2>2. Becomes(r, q) /\ UNCHANGED <<tables, jar, history>>
    BY <1>1 DEF Submit, Arrive, Idle
  <2> QED BY <2>1, <2>2, RequestOnly
<1>2. ASSUME Logout(r) PROVE AccountsInv'
  <2> DEFINE q == [[Idle EXCEPT !.step = "deleteSession", !.cred = jar.session]
                     EXCEPT !.was = Standing(jar.session)]
  <2>1. q \in Request /\ OK(q) /\ q.setNew \notin Token /\ q.new = None /\ q.page = None
    BY <1>j, <1>s DEF Idle, Request, OK, Issued, StandingSeen, Shape, Cred, Behind,
       AccountsInv, BrowserIssued
  <2>2. Becomes(r, q) /\ UNCHANGED <<tables, jar, history>>
    BY <1>2 DEF Logout, Arrive, Idle
  <2> QED BY <2>1, <2>2, RequestOnly
<1>3. ASSUME Visit(r) PROVE AccountsInv'
  <2> DEFINE q == [[Idle EXCEPT !.step = "requireAuth", !.cred = jar.session,
                                !.new = jar.new]
                     EXCEPT !.was = Standing(jar.session)]
  <2>1. q \in Request /\ q.setNew \notin Token /\ q.new = jar.new /\ q.page = None
    BY <1>j, <1>s DEF Idle, Request, Cred, Behind
  <2>3. OK(q)
    BY <1>j, <1>s DEF Idle, OK, Issued, StandingSeen, Shape, Cred, Behind, Standing,
       AccountsInv, BrowserIssued
  <2>2. Becomes(r, q) /\ UNCHANGED <<tables, jar, history>>
    BY <1>3 DEF Visit, Arrive, Idle
  <2> QED BY <2>1, <2>2, <2>3, RequestOnly
<1>4. ASSUME NEW t \in Token, CallApi(r, t) PROVE AccountsInv'
  <2> DEFINE q == [[Idle EXCEPT !.step = "validate", !.cred = t]
                     EXCEPT !.was = Standing(t)]
  <2>1. q \in Request /\ q.setNew \notin Token /\ q.new = None /\ q.page = None
    BY <1>s DEF Idle, Request, Cred, Behind
  <2>3. OK(q)
    BY <1>4, <1>s DEF CallApi, Idle, OK, Issued, StandingSeen, Shape, Cred, Behind,
       Standing, AccountsInv, BrowserIssued
  <2>2. Becomes(r, q) /\ UNCHANGED <<tables, jar, history>>
    BY <1>4 DEF CallApi, Arrive, Idle
  <2> QED BY <2>1, <2>2, <2>3, RequestOnly
<1> QED BY <1>1, <1>2, <1>3, <1>4 DEF Send

LEMMA ReadsInv ==
    ASSUME AccountsInv, NEW r \in Req,
           SelectUser(r) \/ RequireAuth(r) \/ Page(r) \/ Settings(r) \/ Validate(r)
             \/ Fails(r)
    PROVE  AccountsInv'
<1> USE AccountsAssumption
<1>r. req[r] \in Request /\ OK(req[r])
  BY DEF AccountsInv, TypeOK, RequestsOK
<1>o. owner \in [Cred -> User \cup {None}] /\ \A c \in Cred : Row(c) => owner[c] \in User
  BY DEF AccountsInv, TypeOK, RowsOwned
<1>1. CASE SelectUser(r)
  <2>1. CASE Done(r)
    BY <1>1, <2>1, DoneInv DEF SelectUser
  <2>2. CASE GoTo(r, "insertSession") /\ password[req[r].name] = req[r].pass
    <3> DEFINE q == [req[r] EXCEPT !.step = "insertSession"]
    <3>1. /\ q \in Request /\ OK(q) /\ q.setNew \notin Token
          /\ q.new = req[r].new /\ q.page = req[r].page
      BY <1>1, <1>r, <2>2 DEF SelectUser, At, Request, OK, Issued, StandingSeen, Shape,
         Behind, Cred
    <3>2. UNCHANGED <<tables, jar, history>> /\ Becomes(r, q)
      BY <1>1, <2>2 DEF SelectUser, GoTo
    <3> QED BY <3>1, <3>2, RequestOnly
  <2> QED BY <1>1, <2>1, <2>2 DEF SelectUser
<1>2. CASE RequireAuth(r)
  <2>1. CASE Done(r)
    BY <1>2, <2>1, DoneInv DEF RequireAuth
  <2>2. CASE Refuses(r)
    <3> DEFINE q == [Idle EXCEPT !.step = "refused", !.set = None]
    <3>1. q \in Request /\ OK(q) /\ q.setNew \notin Token /\ q.new = None /\ q.page = None
      BY DEF Idle, Request, OK, Issued, StandingSeen, Shape, Cred, Behind
    <3>2. UNCHANGED <<tables, jar, history>> /\ Becomes(r, q)
      BY <1>2, <2>2 DEF RequireAuth, Refuses
    <3> QED BY <3>1, <3>2, RequestOnly
  <2>3. CASE req[r].cred # None /\ Accepted(req[r].cred) /\ Serve(r)
    <3> PICK step \in Behind :
          Becomes(r, [Idle EXCEPT !.step = step, !.was = req[r].was,
                        !.user = owner[req[r].cred],
                        !.new = IF step = "settings" THEN req[r].new ELSE None])
      BY <2>3 DEF Serve
    <3> DEFINE q == [Idle EXCEPT !.step = step, !.was = req[r].was,
                        !.user = owner[req[r].cred],
                        !.new = IF step = "settings" THEN req[r].new ELSE None]
    <3>0. req[r].cred \in Cred
      BY <1>r, <2>3 DEF Request
    <3>1. owner[req[r].cred] \in User /\ req[r].was = owner[req[r].cred]
      BY <1>2, <1>r, <1>o, <2>3, <3>0 DEF RequireAuth, At, OK, StandingSeen, Accepted
    <3>n. req[r].new \in Token \cup {None} /\ req[r].was \in User
      BY <1>r, <3>1 DEF Request
    <3>c. (IF step = "settings" THEN req[r].new ELSE None) \in Token \cup {None}
      BY <3>n
    <3>a. q \in Request
      <4> DEFINE n == IF step = "settings" THEN req[r].new ELSE None
                 w == req[r].was
                 u == owner[req[r].cred]
      <4>1. n \in Token \cup {None} /\ w \in User /\ u \in User
        BY <3>c, <3>n, <3>1
      <4> HIDE DEF n, w, u
      <4>2. [Idle EXCEPT !.step = step, !.was = w, !.user = u, !.new = n] \in Request
        BY <4>1 DEF Idle, Request, Behind
      <4> QED BY <4>2 DEF n, w, u
    <3>2. q.setNew \notin Token /\ q.page = None /\ q.new \in {None, req[r].new}
      BY DEF Idle, Cred
    <3>3. OK(q)
      BY <1>r, <3>1 DEF Idle, Request, OK, Issued, StandingSeen, Shape, Cred, Behind
    <3>4. UNCHANGED <<tables, jar, history>> /\ Becomes(r, q)
      BY <1>2 DEF RequireAuth
    <3> QED BY <3>a, <3>2, <3>3, <3>4, RequestOnly
  <2> QED BY <1>2, <2>1, <2>2, <2>3 DEF RequireAuth
<1>3. CASE Page(r)
  BY <1>3, DoneInv DEF Page
<1>4. CASE Settings(r)
  <2>1. CASE Done(r)
    BY <1>4, <2>1, DoneInv DEF Settings
  <2>2. CASE req[r].new # None /\ Answers(r, Keep, None, req[r].new)
    <3> DEFINE q == [Idle EXCEPT !.step = "answered", !.set = Keep, !.setNew = None,
                                 !.page = req[r].new]
    <3>a. q \in Request
      BY <1>r DEF Idle, Request
    <3>b. OK(q)
      BY <1>r DEF Idle, Request, OK, Issued, StandingSeen, Shape, Cred, Behind
    <3>1. q.setNew \notin Token /\ q.new = None /\ q.page = req[r].new
      BY DEF Idle, Cred
    <3>2. UNCHANGED <<tables, jar, history>> /\ Becomes(r, q)
      BY <1>4, <2>2 DEF Settings, Answers
    <3> QED BY <3>a, <3>b, <3>1, <3>2, RequestOnly
  <2> QED BY <1>4, <2>1, <2>2 DEF Settings
<1>5. CASE Validate(r)
  <2>1. CASE Done(r)
    BY <1>5, <2>1, DoneInv DEF Validate
  <2>2. CASE Accepted(req[r].cred) /\
             Becomes(r, [req[r] EXCEPT !.step = "touch", !.user = owner[req[r].cred]])
    <3> DEFINE q == [req[r] EXCEPT !.step = "touch", !.user = owner[req[r].cred]]
    <3>0. req[r].cred \in Token /\ req[r].cred \in Cred /\ req[r].cred # None
      BY <1>5, <1>r DEF Validate, At, OK, Shape, Cred
    <3>1. owner[req[r].cred] \in User /\ req[r].was = owner[req[r].cred]
      BY <1>5, <1>r, <1>o, <2>2, <3>0 DEF Validate, At, OK, StandingSeen, Accepted
    <3>a. q \in Request
      BY <1>r, <3>1 DEF Request
    <3>b. q.setNew = req[r].setNew /\ q.new = req[r].new /\ q.page = req[r].page
      BY <1>r DEF Request
    <3>2. q.setNew \notin Token
      BY <1>5, <1>r, <3>b DEF Validate, At, OK, Shape, Cred
    <3>3. OK(q)
      BY <1>5, <1>r, <3>0, <3>1 DEF Validate, At, Request, OK, Issued, StandingSeen,
         Shape, Cred, Behind
    <3>4. UNCHANGED <<tables, jar, history>> /\ Becomes(r, q)
      BY <1>5, <2>2 DEF Validate
    <3> QED BY <3>a, <3>b, <3>2, <3>3, <3>4, RequestOnly
  <2> QED BY <1>5, <2>1, <2>2 DEF Validate
<1>6. CASE Fails(r)
  BY <1>6, DoneInv DEF Fails, Done
<1> QED BY <1>1, <1>2, <1>3, <1>4, <1>5, <1>6

-----------------------------------------------------------------------------
(* Steps that write the tables                                             *)

LEMMA UsersInv ==
    ASSUME AccountsInv, NEW r \in Req, InsertUser(r)
    PROVE  AccountsInv'
<1> USE AccountsAssumption
<1>r. req[r] \in Request /\ OK(req[r])
  BY DEF AccountsInv, TypeOK, RequestsOK
<1>1. CASE Done(r) /\ UNCHANGED password
  BY <1>1, DoneInv DEF InsertUser, tables
<1>2. CASE ~Taken(r) /\ password' = [password EXCEPT ![req[r].name] = req[r].pass]
             /\ GoTo(r, "insertSession")
  <2>1. req[r].name \in User /\ req[r].pass \in Password
    BY <1>r DEF InsertUser, At, OK, Shape
  <2>2. [req[r] EXCEPT !.step = "insertSession"] \in Request
    BY <1>r DEF Request
  <2> PICK q \in Request : q = [req[r] EXCEPT !.step = "insertSession"]
    BY <2>2
  <2>3. Becomes(r, q)
    BY <1>2 DEF GoTo
  <2>4. TypeOK'
    BY <1>2, <2>1, <2>2, <2>3 DEF InsertUser, AccountsInv, TypeOK, Becomes, history
  <2>5. Grows
    BY <1>2, <2>1 DEF Grows, InsertUser, Taken, Accepted, Row, AccountsInv, TypeOK
  <2>a. /\ q.step = "insertSession" /\ q.name = req[r].name /\ q.pass = req[r].pass
        /\ q.cred = req[r].cred /\ q.new = req[r].new /\ q.page = req[r].page
        /\ q.set = req[r].set /\ q.setNew = req[r].setNew
        /\ q.was = req[r].was /\ q.user = req[r].user
    BY <1>r DEF Request
  <2>b. password'[req[r].name] = req[r].pass /\ owner' = owner
    BY <1>2, <2>1 DEF InsertUser, AccountsInv, TypeOK
  <2>6. OK(q)'
    BY <1>r, <2>1, <2>a, <2>b DEF InsertUser, At, OK, Issued, StandingSeen, Shape, Behind
  <2>7. RequestsOK'
    BY <2>3, <2>5, <2>6, Replace
  <2>8. q.setNew \notin Token /\ q.new = req[r].new /\ q.page = req[r].page
    BY <1>r, <2>a DEF InsertUser, At, OK, Shape, Cred
  <2>9. TravelsOnce' /\ ShownThenForgotten'
    BY <2>2, <2>3, <2>8, Travels DEF InsertUser, history
  <2>10. EarnedSessions'
    BY <1>2, <2>1, <2>5 DEF InsertUser, Grows, AccountsInv, EarnedSessions,
       TypeOK, Cred, history
  <2> QED BY <2>4, <2>7, <2>9, <2>10 DEF InsertUser, AccountsInv, RowsOwned,
          BrowserIssued, Row, history
<1> QED BY <1>1, <1>2 DEF InsertUser

\* What a new row does to everything but its request.
LEMMA IssueGrows ==
    ASSUME AccountsInv, NEW c \in Cred, NEW u \in User, NEW life \in 1..Forever,
           Issue(c, u, life), UNCHANGED <<password, used, jar, known>>
    PROVE  /\ Grows /\ RowsOwned' /\ BrowserIssued'
           /\ owner' \in [Cred -> User \cup {None}]
           /\ left' \in [Cred -> {None} \cup (-1..Forever)]
           /\ owner'[c] = u
<1> USE AccountsAssumption
<1>1. /\ owner \in [Cred -> User \cup {None}]
      /\ left \in [Cred -> {None} \cup (-1..Forever)]
      /\ life \in -1..Forever
  BY DEF AccountsInv, TypeOK, Forever
<1>2. /\ owner' = [owner EXCEPT ![c] = u]
      /\ left' = [left EXCEPT ![c] = life]
      /\ owner[c] = None
  BY DEF Issue
<1>3. Grows
  BY <1>1, <1>2 DEF Grows, Accepted, Row
<1>4. RowsOwned'
  <2>1. \A d \in Cred : Row(d)' => owner'[d] \in User
    BY <1>1, <1>2 DEF AccountsInv, RowsOwned, Row
  <2>2. \A t \in used : Row(t)'
    BY <1>1, <1>2 DEF AccountsInv, RowsOwned, Row, TypeOK, Cred
  <2> QED BY <2>1, <2>2 DEF RowsOwned
<1>5. BrowserIssued'
  BY <1>1, <1>2 DEF AccountsInv, BrowserIssued, TypeOK, Cred
<1> QED BY <1>1, <1>2, <1>3, <1>4, <1>5

LEMMA InsertSessionInv ==
    ASSUME AccountsInv, NEW r \in Req, InsertSession(r)
    PROVE  AccountsInv'
<1> USE AccountsAssumption
<1>r. req[r] \in Request /\ OK(req[r])
  BY DEF AccountsInv, TypeOK, RequestsOK
<1>0. PICK s \in Session :
        /\ Issue(s, req[r].name, Life)
        /\ typed' = [typed EXCEPT ![s] = req[r].pass]
        /\ Answers(r, s, Keep, None)
  BY DEF InsertSession
<1>1. /\ req[r].name \in User /\ req[r].pass \in Password
      /\ password[req[r].name] = req[r].pass
  BY <1>r DEF InsertSession, At, OK, Shape
<1>2. s \in Cred /\ Life \in 1..Forever
  BY DEF Cred, Forever
<1>3. /\ Grows /\ RowsOwned' /\ BrowserIssued'
      /\ owner' \in [Cred -> User \cup {None}]
      /\ left' \in [Cred -> {None} \cup (-1..Forever)]
      /\ owner'[s] = req[r].name
  BY <1>0, <1>1, <1>2, IssueGrows DEF InsertSession
<1> DEFINE q == [Idle EXCEPT !.step = "answered", !.set = s, !.setNew = Keep, !.page = None]
<1>4. q \in Request /\ q.setNew \notin Token /\ q.new = None /\ q.page = None
  BY DEF Idle, Request, Cred
<1>5. Becomes(r, q)
  BY <1>0 DEF Answers
<1>6. OK(q)'
  BY <1>1, <1>3 DEF Idle, OK, Issued, StandingSeen, Shape, Cred, Behind
<1>7. RequestsOK'
  BY <1>3, <1>4, <1>5, <1>6, Replace
<1>8. TravelsOnce' /\ ShownThenForgotten'
  BY <1>4, <1>5, Travels DEF InsertSession
<1>9. TypeOK'
  BY <1>0, <1>1, <1>3, <1>4, <1>5 DEF InsertSession, AccountsInv, TypeOK, Becomes
<1>10. EarnedSessions'
  BY <1>0, <1>1, <1>2 DEF InsertSession, Issue, AccountsInv, EarnedSessions, TypeOK, Cred
<1> QED BY <1>3, <1>7, <1>8, <1>9, <1>10 DEF AccountsInv

LEMMA CreateTokenInv ==
    ASSUME AccountsInv, NEW r \in Req, CreateToken(r)
    PROVE  AccountsInv'
<1> USE AccountsAssumption
<1>r. req[r] \in Request /\ OK(req[r])
  BY DEF AccountsInv, TypeOK, RequestsOK
<1>1. CASE Done(r) /\ UNCHANGED <<owner, left>>
  BY <1>1, DoneInv DEF CreateToken, tables
<1>2. ASSUME NEW t \in Token, NEW life \in 1..Forever,
             Issue(t, req[r].user, life), Answers(r, Keep, t, None)
      PROVE  AccountsInv'
  <2>1. req[r].user \in User /\ t \in Cred
    BY <1>r DEF CreateToken, At, OK, Shape, Behind, Cred
  <2>2. /\ Grows /\ RowsOwned' /\ BrowserIssued'
        /\ owner' \in [Cred -> User \cup {None}]
        /\ left' \in [Cred -> {None} \cup (-1..Forever)]
        /\ owner'[t] = req[r].user
    BY <1>2, <2>1, IssueGrows DEF CreateToken, history
  <2> DEFINE q == [Idle EXCEPT !.step = "answered", !.set = Keep, !.setNew = t, !.page = None]
  <2>3. q \in Request /\ q.setNew = t /\ q.new = None /\ q.page = None
    BY DEF Idle, Request
  <2>4. Becomes(r, q)
    BY <1>2 DEF Answers
  <2>5. OK(q)'
    BY <2>1, <2>2 DEF Idle, OK, Issued, StandingSeen, Shape, Cred, Behind
  <2>6. RequestsOK'
    BY <2>2, <2>3, <2>4, <2>5, Replace
  <2>7. TypeOK'
    BY <2>2, <2>3, <2>4 DEF CreateToken, AccountsInv, TypeOK, Becomes, history
  \* Nothing carries a token that was not issued.
  <2>8. /\ owner[t] = None /\ t # None
        /\ jar.new # t /\ t \notin known
        /\ \A p \in Req : req[p].new # t /\ req[p].page # t /\ req[p].setNew # t
    <3>1. owner[t] = None /\ t # None
      BY <1>2, <2>1 DEF Issue
    <3>2. jar.new # t /\ t \notin known
      BY <3>1 DEF AccountsInv, BrowserIssued
    <3>3. \A p \in Req : req[p].new # t /\ req[p].page # t /\ req[p].setNew # t
      BY <3>1, <2>1 DEF AccountsInv, RequestsOK, OK, Issued
    <3> QED BY <3>1, <3>2, <3>3
  <2>9. \A p \in Req : req'[p] = IF p = r THEN q ELSE req[p]
    BY <2>4 DEF Becomes, AccountsInv, TypeOK
  <2>10. TravelsOnce'
    <3> SUFFICES ASSUME NEW p \in Req, NEW v \in Token, req'[p].setNew = v
                 PROVE  /\ jar.new # v /\ v \notin known
                        /\ \A x \in Req : req'[x].new # v /\ req'[x].page # v
                        /\ \A x \in Req : req'[x].setNew = v => x = p
      BY DEF CreateToken, TravelsOnce, history
    <3> HIDE DEF q
    <3>n. v # None
      BY DEF Cred
    <3>1. CASE p = r
      BY <2>3, <2>8, <2>9, <3>1, <3>n
    <3>2. CASE p # r
      <4>1. req[p].setNew = v /\ v # t
        BY <2>8, <2>9, <3>2
      <4>2. /\ jar.new # v /\ v \notin known
            /\ \A x \in Req : req[x].new # v /\ req[x].page # v
            /\ \A x \in Req : req[x].setNew = v => x = p
        BY <4>1, OnItsWay
      <4> QED BY <2>3, <2>9, <3>n, <4>1, <4>2
    <3> QED BY <3>1, <3>2
  <2>11. ShownThenForgotten'
    BY <2>3, <2>8, <2>9 DEF CreateToken, AccountsInv, ShownThenForgotten, history
  <2>12. EarnedSessions'
    BY <1>2, <2>1 DEF CreateToken, Issue, AccountsInv, EarnedSessions, TypeOK, Cred, history
  <2> QED BY <2>2, <2>6, <2>7, <2>10, <2>11, <2>12 DEF AccountsInv
<1> QED BY <1>1, <1>2 DEF CreateToken

\* A step after which fewer rows are accepted, by the same owners.
LEMMA ShrinkGrows ==
    ASSUME AccountsInv, UNCHANGED <<password, owner>>,
           \A c \in Cred : Accepted(c)' => Accepted(c)
    PROVE  Grows
BY DEF Grows

LEMMA DeletedShrinks ==
    ASSUME AccountsInv, NEW D, left' = Deleted(D)
    PROVE  /\ left' \in [Cred -> {None} \cup (-1..Forever)]
           /\ \A c \in Cred : Row(c)' <=> Row(c) /\ c \notin D
           /\ \A c \in Cred : Accepted(c)' <=> Accepted(c) /\ c \notin D
BY DEF Deleted, Accepted, Row, AccountsInv, TypeOK

\* A request is answered with no token while rows go away.
LEMMA ShrinkInv ==
    ASSUME AccountsInv, NEW r \in Req, NEW q \in {Idle, [Idle EXCEPT !.step = "answered",
             !.set = None, !.setNew = Keep, !.page = None]},
           Becomes(r, q), UNCHANGED <<password, owner, jar, history>>,
           left' \in [Cred -> {None} \cup (-1..Forever)],
           \A c \in Cred : Row(c)' => Row(c),
           \A c \in Cred : Accepted(c)' => Accepted(c),
           used' \subseteq Token, \A t \in used' : Row(t)'
    PROVE  AccountsInv'
<1> USE AccountsAssumption
<1>1. Grows
  BY ShrinkGrows
<1>2. /\ q \in Request /\ q.setNew \notin Token /\ q.new = None /\ q.page = None
      /\ OK(q)'
  <2>1. CASE q = Idle
    BY <2>1, IdleOK, <1>1, OKStays
  <2>2. CASE q = [Idle EXCEPT !.step = "answered", !.set = None, !.setNew = Keep,
                              !.page = None]
    BY <2>2 DEF Idle, Request, OK, Issued, StandingSeen, Shape, Cred, Behind
  <2> QED BY <2>1, <2>2
<1>4. RequestsOK'
  BY <1>1, <1>2, Replace
<1>5. TravelsOnce' /\ ShownThenForgotten'
  BY <1>2, Travels DEF history
<1>6. TypeOK'
  BY <1>2 DEF AccountsInv, TypeOK, Becomes, history
<1>7. RowsOwned'
  BY DEF AccountsInv, RowsOwned
<1> QED BY <1>4, <1>5, <1>6, <1>7 DEF AccountsInv, BrowserIssued, EarnedSessions, history

LEMMA DeletesInv ==
    ASSUME AccountsInv, NEW r \in Req, DeleteSession(r) \/ Revoke(r) \/ Touch(r)
    PROVE  AccountsInv'
<1> USE AccountsAssumption
<1>u. used \subseteq Token /\ \A t \in used : Row(t) /\ t \in Cred
  BY DEF AccountsInv, TypeOK, RowsOwned, Cred
<1>r. req[r] \in Request /\ OK(req[r])
  BY DEF AccountsInv, TypeOK, RequestsOK
<1>1. CASE DeleteSession(r)
  <2> DEFINE q == [Idle EXCEPT !.step = "answered", !.set = None, !.setNew = Keep,
                               !.page = None]
  <2>1. Becomes(r, q) /\ UNCHANGED <<password, owner, used, jar, history>>
    BY <1>1 DEF DeleteSession, Answers
  <2>2. CASE left' = left
    BY <2>1, <2>2, <1>u, ShrinkInv DEF Row, Accepted, AccountsInv, TypeOK
  <2>3. CASE left' = Deleted({req[r].cred})
    <3>1. req[r].cred \notin Token
      BY <1>1, <1>r DEF DeleteSession, At, OK, Shape, Cred
    <3>2. \A t \in used : Row(t)'
      BY <1>u, <2>3, <3>1, DeletedShrinks
    <3> QED BY <1>u, <2>1, <2>3, <3>2, DeletedShrinks, ShrinkInv
  <2> QED BY <1>1, <2>2, <2>3 DEF DeleteSession
<1>2. CASE Revoke(r)
  <2>1. PICK t \in Token :
          LET hit == {c \in {t} : owner[c] = req[r].user}
          IN  left' = Deleted(hit) /\ used' = used \ hit
    BY <1>2 DEF Revoke
  <2> DEFINE hit == {c \in {t} : owner[c] = req[r].user}
  <2>2. Becomes(r, Idle) /\ UNCHANGED <<password, owner, jar, history>>
    BY <1>2 DEF Revoke, Done
  <2>3. used' \subseteq Token /\ \A c \in used' : Row(c)'
    BY <1>u, <2>1, DeletedShrinks
  <2> QED BY <2>1, <2>2, <2>3, DeletedShrinks, ShrinkInv
<1>3. CASE Touch(r)
  <2>1. Becomes(r, Idle) /\ UNCHANGED <<password, owner, left, jar, history>>
    BY <1>3 DEF Touch, Done
  <2>2. req[r].cred \in Token
    BY <1>3, <1>r DEF Touch, At, OK, Shape
  <2>3. used' \subseteq Token /\ \A t \in used' : Row(t)'
    BY <1>3, <1>u, <2>1, <2>2 DEF Touch, Row
  <2> QED BY <2>1, <2>3, ShrinkInv DEF Row, Accepted, AccountsInv, TypeOK
<1> QED BY <1>1, <1>2, <1>3

\* A step of the clock or of the poll cycle.
LEMMA AgeInv ==
    ASSUME AccountsInv, Tick \/ CleanExpiredSessions
    PROVE  AccountsInv'
<1> USE AccountsAssumption
<1>0. UNCHANGED <<password, owner, used, jar, req, history>>
  BY DEF Tick, CleanExpiredSessions
<1>1. /\ left' \in [Cred -> {None} \cup (-1..Forever)]
      /\ \A c \in Cred : Row(c)' => Row(c)
      /\ \A c \in Cred : Accepted(c)' => Accepted(c)
      /\ \A t \in Token : Row(t) => Row(t)'
  <2>1. CASE Tick
    <3>1. \A c \in Cred : left'[c] = Aged(c)
      BY <2>1 DEF Tick
    <3>2. \A c \in Cred : Aged(c) \in {None} \cup (-1..Forever) /\ (Row(c) <=> Aged(c) # None)
      BY DEF Aged, Row, AccountsInv, TypeOK, Forever
    <3>3. left' \in [Cred -> {None} \cup (-1..Forever)]
      BY <2>1, <3>2 DEF Tick
    <3>4. \A c \in Cred : Row(c)' <=> Row(c)
      BY <3>1, <3>2 DEF Row
    <3>5. \A c \in Cred : Accepted(c)' => Accepted(c)
      BY <3>1, <3>4 DEF Accepted, Aged, AccountsInv, TypeOK, Row, Forever
    <3> QED BY <3>3, <3>4, <3>5 DEF Cred
  <2>2. CASE CleanExpiredSessions
    <3>1. left' = Deleted({s \in Session : Expired(s)})
      BY <2>2 DEF CleanExpiredSessions
    <3> QED BY <3>1, DeletedShrinks DEF Cred
  <2> QED BY <2>1, <2>2
<1>2. Grows
  BY <1>0, <1>1, ShrinkGrows
<1>3. RequestsOK'
  <2> SUFFICES ASSUME NEW p \in Req PROVE OK(req[p])'
    BY DEF RequestsOK
  <2>1. PICK x \in Request : x = req[p] /\ OK(x)
    BY DEF AccountsInv, TypeOK, RequestsOK
  <2>2. OK(x)' /\ req'[p] = x
    BY <1>0, <1>2, <2>1, OKStays
  <2> QED BY <2>2 DEF OK, Issued, StandingSeen, Shape
<1>4. RowsOwned'
  BY <1>0, <1>1 DEF AccountsInv, RowsOwned, TypeOK
<1> QED BY <1>0, <1>1, <1>3, <1>4 DEF AccountsInv, TypeOK, BrowserIssued, TravelsOnce,
        EarnedSessions, ShownThenForgotten, history

-----------------------------------------------------------------------------
(* The browser                                                             *)

LEMMA BrowserInv ==
    ASSUME AccountsInv, Forget \/ \E r \in Req : Deliver(r)
    PROVE  AccountsInv'
<1> USE AccountsAssumption
<1>g. Grows
  BY DEF Grows, Forget, Deliver, tables, Accepted, Row
<1>1. CASE Forget
  <2>1. /\ UNCHANGED <<tables, req, history>>
        /\ jar' \in [session: {None, jar.session}, new: {None, jar.new}]
    BY <1>1 DEF Forget, AccountsInv, TypeOK
  <2>2. RequestsOK'
    BY <2>1 DEF tables, AccountsInv, RequestsOK, OK, Issued, StandingSeen, Shape, Accepted,
       Row
  <2>3. TypeOK' /\ TravelsOnce' /\ ShownThenForgotten'
    BY <2>1 DEF tables, history, AccountsInv, TypeOK, TravelsOnce, ShownThenForgotten, Cred
  <2> QED BY <2>1, <2>2, <2>3 DEF tables, history, AccountsInv, RowsOwned, Row,
          BrowserIssued, EarnedSessions
<1>2. ASSUME NEW r \in Req, Deliver(r) PROVE AccountsInv'
  <2>r. req[r] \in Request /\ OK(req[r])
    BY DEF AccountsInv, TypeOK, RequestsOK
  <2>1. /\ UNCHANGED <<tables, typed>> /\ Becomes(r, Idle)
        /\ jar' = [session |-> After(jar.session, req[r].set),
                    new |-> After(jar.new, req[r].setNew)]
        /\ known' = known \cup ({req[r].page} \cap Token)
    BY <1>2 DEF Deliver
  <2>2. RequestsOK'
    BY <1>g, <2>1, IdleOK, OKStays, Replace
  <2>3. /\ jar'.session \in {None, jar.session, req[r].set}
        /\ jar'.new \in {None, jar.new, req[r].setNew}
        /\ jar'.session # Keep /\ jar'.new # Keep
    BY <2>1, <2>r DEF After, Request, AccountsInv, TypeOK, Cred
  <2>4. TypeOK'
    BY <2>1, <2>r, IdleOK DEF After, Request, AccountsInv, TypeOK, Becomes, tables
  <2>5. BrowserIssued'
    BY <2>1, <2>3, <2>4, <2>r DEF OK, Issued, AccountsInv, BrowserIssued, tables, Cred,
       TypeOK
  <2>6. \A p \in Req : req'[p] = IF p = r THEN Idle ELSE req[p]
    BY <2>1 DEF Becomes, AccountsInv, TypeOK
  <2>7. \A p \in Req : p # r /\ req[p].setNew \in Token =>
          /\ req[p].setNew # req[r].setNew /\ req[p].setNew # req[r].page
          /\ req[p].setNew # jar.new
    BY OnItsWay
  <2>8. TravelsOnce'
    <3> SUFFICES ASSUME NEW p \in Req, NEW v \in Token, req'[p].setNew = v
                 PROVE  /\ jar'.new # v /\ v \notin known'
                        /\ \A x \in Req : req'[x].new # v /\ req'[x].page # v
                        /\ \A x \in Req : req'[x].setNew = v => x = p
      BY DEF TravelsOnce
    <3>1. p # r /\ req[p].setNew = v /\ v # None
      BY <2>6, IdleOK DEF Cred
    <3>2. jar'.new # v /\ v \notin known'
      BY <2>1, <2>3, <2>7, <3>1, OnItsWay
    <3>3. /\ \A x \in Req : req'[x].new # v /\ req'[x].page # v
          /\ \A x \in Req : req'[x].setNew = v => x = p
      BY <2>6, <3>1, IdleOK, OnItsWay DEF Idle
    <3> QED BY <3>2, <3>3
  <2>9. ShownThenForgotten'
    <3> SUFFICES ASSUME NEW t \in known'
                 PROVE  jar'.new # t /\ \A p \in Req : req'[p].setNew # t
      BY DEF ShownThenForgotten
    <3>t. t \in Token /\ t # None /\ t # Keep
      BY <2>4 DEF TypeOK, Cred
    <3>1. CASE t \in known
      BY <2>3, <2>6, <3>1, <3>t, IdleOK DEF AccountsInv, ShownThenForgotten
    <3>2. CASE t = req[r].page
      <4>1. req[r].setNew = None
        BY <2>r, <3>2, <3>t DEF OK, Shape
      <4>2. jar'.new = None
        BY <2>1, <4>1 DEF After
      <4>3. \A p \in Req : req[p].setNew # t
        BY <3>2, <3>t, OnItsWay
      <4> QED BY <2>6, <3>t, <4>2, <4>3, IdleOK
    <3> QED BY <2>1, <3>1, <3>2
  <2> QED BY <2>1, <2>2, <2>4, <2>5, <2>8, <2>9 DEF tables, AccountsInv, RowsOwned, Row,
          EarnedSessions
<1> QED BY <1>1, <1>2

LEMMA NextInv == AccountsInv /\ [Next]_vars => AccountsInv'
<1> SUFFICES ASSUME AccountsInv, [Next]_vars PROVE AccountsInv'
  OBVIOUS
<1>1. ASSUME NEW r \in Req, Send(r) \/ Handle(r) \/ Deliver(r) \/ Fails(r)
      PROVE  AccountsInv'
  BY <1>1, ArriveInv, ReadsInv, UsersInv, InsertSessionInv, CreateTokenInv, DeletesInv,
     BrowserInv DEF Handle
<1>2. CASE UNCHANGED vars
  BY <1>2 DEF vars, tables, history, AccountsInv, TypeOK, RowsOwned, Row, BrowserIssued,
     RequestsOK, OK, Issued, StandingSeen, Shape, Accepted, TravelsOnce, EarnedSessions,
     ShownThenForgotten
<1> QED BY <1>1, <1>2, AgeInv, BrowserInv DEF Next

\* The inductive invariant holds in every reachable state: what carries a
\* credential carries one that was issued, to whom it was issued then.
THEOREM AccountsInvariant == Spec => []AccountsInv
<1>1. Init => AccountsInv
  BY InitInv
<1>2. AccountsInv /\ [Next]_vars => AccountsInv'
  BY NextInv
<1> QED BY <1>1, <1>2, PTL DEF Spec

\* Whoever has a session typed the password of its user: two registrations of
\* one name, a wrong login or a retry never give one.
THEOREM SessionsEarned == Spec => []EarnedSessions
<1>1. AccountsInv => EarnedSessions
  BY DEF AccountsInv
<1> QED BY <1>1, AccountsInvariant, PTL

\* A token that was displayed never comes back to the browser.
THEOREM TokensForgotten == Spec => []ShownThenForgotten
<1>1. AccountsInv => ShownThenForgotten
  BY DEF AccountsInv
<1> QED BY <1>1, AccountsInvariant, PTL

-----------------------------------------------------------------------------
(* How credentials end                                                     *)

EndsStep ==
    \A c \in Cred :
      Accepted(c) /\ ~Accepted(c)' =>
        \/ left'[c] = 0
        \/ \E r \in Req : At(r, "deleteSession") /\ req[r].cred = c
        \/ \E r \in Req : At(r, "revoke") /\ req[r].user = owner[c]

LEMMA EndsLemma == AccountsInv /\ [Next]_vars => EndsStep
<1> SUFFICES ASSUME AccountsInv, [Next]_vars, NEW c \in Cred, Accepted(c), ~Accepted(c)'
             PROVE  \/ left'[c] = 0
                    \/ \E r \in Req : At(r, "deleteSession") /\ req[r].cred = c
                    \/ \E r \in Req : At(r, "revoke") /\ req[r].user = owner[c]
  BY DEF EndsStep
<1> USE AccountsAssumption
<1>0. left' # left /\ left \in [Cred -> {None} \cup (-1..Forever)]
  BY DEF Accepted, Row, AccountsInv, TypeOK
<1>1. CASE Tick
  BY <1>0, <1>1 DEF Tick, Aged, Accepted, Row, Forever
<1>2. CASE CleanExpiredSessions
  <2>1. left' = Deleted({s \in Session : Expired(s)})
    BY <1>2 DEF CleanExpiredSessions
  <2>2. ~Expired(c)
    BY <1>0 DEF Expired, Accepted, Row
  <2> QED BY <2>1, <2>2, DeletedShrinks
<1>3. ASSUME NEW r \in Req, DeleteSession(r) PROVE At(r, "deleteSession") /\ req[r].cred = c
  BY <1>0, <1>3, DeletedShrinks DEF DeleteSession
<1>4. ASSUME NEW r \in Req, Revoke(r) PROVE At(r, "revoke") /\ req[r].user = owner[c]
  <2>1. PICK t \in Token :
          LET hit == {d \in {t} : owner[d] = req[r].user}
          IN  left' = Deleted(hit)
    BY <1>4 DEF Revoke
  <2> QED BY <1>4, <2>1, DeletedShrinks DEF Revoke
<1>5. ASSUME NEW d \in Cred, NEW u, NEW life \in 1..Forever, Issue(d, u, life) PROVE FALSE
  <2>1. d # c
    BY <1>5 DEF Issue, AccountsInv, RowsOwned, Accepted
  <2> QED BY <1>0, <1>5, <2>1 DEF Issue, Accepted, Row
<1>6. ASSUME NEW r \in Req, InsertSession(r) PROVE FALSE
  BY <1>5, <1>6 DEF InsertSession, Cred, Forever
<1>7. ASSUME NEW r \in Req, CreateToken(r) PROVE FALSE
  BY <1>0, <1>5, <1>7 DEF CreateToken, Cred
<1>8. ASSUME NEW r \in Req,
             \/ Send(r) \/ InsertUser(r) \/ SelectUser(r) \/ RequireAuth(r) \/ Page(r)
             \/ Settings(r) \/ Validate(r) \/ Touch(r) \/ Deliver(r) \/ Fails(r)
      PROVE  FALSE
  BY <1>0, <1>8 DEF Send, Submit, Logout, Visit, CallApi, Arrive, InsertUser, SelectUser,
     RequireAuth, Page, Settings, Validate, Touch, Deliver, Fails, tables
<1>9. CASE Forget \/ UNCHANGED vars
  BY <1>0, <1>9 DEF Forget, vars, tables
<1> QED BY <1>1, <1>2, <1>3, <1>4, <1>6, <1>7, <1>8, <1>9 DEF Next, Handle

\* Only its time, its bearer's logout or its owner's revocation end a session
\* or a token, whatever else the requests and the poll cycle do.
THEOREM EndsForAReasonAlways == Spec => EndsForAReason
<1>1. AccountsInv /\ [Next]_vars => [EndsStep]_vars
  BY EndsLemma
<1> QED BY <1>1, AccountsInvariant, PTL DEF Spec, EndsForAReason, EndsStep

-----------------------------------------------------------------------------
(* Accounts implements Credentials                                         *)

standing == [c \in Cred |-> Standing(c)]
asked == [r \in Req |-> req[r].was]
acting == [r \in Req |-> req[r].user]

LEMMA InitRefines == Init => C!Init
BY AccountsAssumption DEF Init, C!Init, Standing, Idle, Cred

\* Rows that go away, or time that passes, withdraw credentials.
LEMMA StandingShrinks ==
    ASSUME AccountsInv, UNCHANGED owner, \A c \in Cred : Accepted(c)' => Accepted(c)
    PROVE  C!Credential \/ UNCHANGED standing
<1> DEFINE W == {c \in Cred : Accepted(c) /\ ~Accepted(c)'}
<1>1. \A c \in W : standing[c] \in User
  BY AccountsAssumption DEF standing, Standing, AccountsInv, RowsOwned, Accepted, Cred
<1>2. standing' = [c \in Cred |-> IF c \in W THEN Gone ELSE standing[c]]
  BY AccountsAssumption DEF standing, Standing, AccountsInv, RowsOwned, Accepted, Cred
<1>3. C!Withdraw(W)
  BY <1>1, <1>2 DEF C!Withdraw, standing
<1> QED BY <1>3 DEF C!Credential

\* A new row issues a credential.
LEMMA StandingIssued ==
    ASSUME AccountsInv, NEW c \in Cred, NEW u \in User, NEW life \in 1..Forever,
           Issue(c, u, life)
    PROVE  C!Credential
<1>1. standing[c] = None
  BY DEF Issue, standing, Standing
<1>2. \A d \in Cred : Standing(d)' = IF d = c THEN u ELSE Standing(d)
  BY AccountsAssumption DEF Issue, Standing, Accepted, Row, AccountsInv, TypeOK, Cred, Forever
<1>3. standing' = [standing EXCEPT ![c] = u]
  BY <1>2 DEF standing
<1> QED BY <1>1, <1>3 DEF C!Issue, C!Credential, standing

\* What replacing a request does to asked and acting.
LEMMA Served ==
    ASSUME AccountsInv, NEW r \in Req, NEW q \in Request, Becomes(r, q)
    PROVE  /\ q.was = req[r].was /\ q.user = req[r].user => UNCHANGED <<asked, acting>>
           /\ q.was = Closed /\ q.user = None => C!Request(r)
           /\ /\ req[r].was = Closed /\ q.user = req[r].user
              /\ q.was \in {standing[c] : c \in Cred} \cup {None}
              => C!Request(r)
           /\ q.was = req[r].was /\ q.was \in User /\ q.user = q.was => C!Request(r)
<1>1. /\ asked' = [asked EXCEPT ![r] = q.was]
      /\ acting' = [acting EXCEPT ![r] = q.user]
  BY DEF Becomes, asked, acting, AccountsInv, TypeOK
<1>2. asked[r] = req[r].was /\ acting[r] = req[r].user
  BY DEF asked, acting
<1>3. q.was = req[r].was => asked' = asked
  BY <1>1, <1>2 DEF asked
<1>4. q.user = req[r].user => acting' = acting
  BY <1>1, <1>2 DEF acting
<1>5. q.was = Closed /\ q.user = None => C!Request(r)
  BY <1>1 DEF C!Request, C!Answer, asked, acting
<1>6. req[r].was = Closed /\ q.user = req[r].user
        /\ q.was \in {standing[c] : c \in Cred} \cup {None} => C!Request(r)
  BY <1>1, <1>2, <1>4 DEF C!Request, C!Arrive, asked, acting, standing
<1>7. q.was = req[r].was /\ q.was \in User /\ q.user = q.was => C!Request(r)
  BY <1>1, <1>2, <1>3 DEF C!Request, C!Authenticate, asked, acting
<1> QED BY <1>3, <1>4, <1>5, <1>6, <1>7

\* The two halves of an abstract step.
Halves ==
    /\ C!Credential \/ UNCHANGED standing
    /\ (\E r \in Req : C!Request(r)) \/ UNCHANGED <<asked, acting>>

LEMMA SameStanding ==
    ASSUME UNCHANGED <<owner, left>>
    PROVE  UNCHANGED standing
BY DEF standing, Standing, Accepted, Row

LEMMA DoneRefines ==
    ASSUME AccountsInv, NEW r \in Req, Done(r)
    PROVE  C!Request(r)
BY IdleOK, Served DEF Done, Idle

\* Answers with cookies end the service too.
LEMMA AnswersRefines ==
    ASSUME AccountsInv, NEW r \in Req,
           NEW set \in Session \cup {None, Keep}, NEW setNew \in Token \cup {None, Keep},
           NEW page \in Token \cup {None}, Answers(r, set, setNew, page)
    PROVE  C!Request(r)
<1> DEFINE q == [Idle EXCEPT !.step = "answered", !.set = set, !.setNew = setNew,
                             !.page = page]
<1>1. q \in Request /\ q.was = Closed /\ q.user = None
  BY DEF Idle, Request
<1> QED BY <1>1, Served DEF Answers

Begins(r, q) ==
    LET a == [q EXCEPT !.was = Standing(q.cred)]
    IN  /\ Arrive(r, q) /\ a \in Request
        /\ a.was = Standing(q.cred) /\ a.user = None
        /\ q.cred \in Cred \cup {None}

LEMMA ArriveRefines ==
    ASSUME AccountsInv, NEW r \in Req, Send(r)
    PROVE  Halves
<1> USE AccountsAssumption
<1>1. PICK q : Begins(r, q)
  <2>j. jar.session \in Session \cup {None} /\ jar.new \in Token \cup {None}
    BY DEF AccountsInv, TypeOK
  <2>s. \A c \in Cred \cup {None} : Standing(c) \in User \cup {None, Gone}
    BY DEF Standing, AccountsInv, TypeOK
  <2>1. ASSUME NEW op \in {"insertUser", "selectUser"}, NEW u \in User,
               NEW p \in Password, Submit(r, op, u, p)
        PROVE  \E q : Begins(r, q)
    <3> WITNESS [Idle EXCEPT !.step = op, !.name = u, !.pass = p]
    <3> QED BY <2>1, <2>s DEF Begins, Submit, Idle, Request, Cred
  <2>2. ASSUME Logout(r)
        PROVE  \E q : Begins(r, q)
    <3> WITNESS [Idle EXCEPT !.step = "deleteSession", !.cred = jar.session]
    <3> QED BY <2>2, <2>s, <2>j DEF Begins, Logout, Idle, Request, Cred
  <2>3. ASSUME Visit(r)
        PROVE  \E q : Begins(r, q)
    <3> WITNESS [Idle EXCEPT !.step = "requireAuth", !.cred = jar.session, !.new = jar.new]
    <3> QED BY <2>3, <2>s, <2>j DEF Begins, Visit, Idle, Request, Cred
  <2>4. ASSUME NEW t \in Token, CallApi(r, t)
        PROVE  \E q : Begins(r, q)
    <3> WITNESS [Idle EXCEPT !.step = "validate", !.cred = t]
    <3> QED BY <2>4, <2>s DEF Begins, CallApi, Idle, Request, Cred
  <2> QED BY <2>1, <2>2, <2>3, <2>4 DEF Send
<1> DEFINE a == [q EXCEPT !.was = Standing(q.cred)]
<1>2. Becomes(r, a) /\ req[r] = Idle /\ UNCHANGED <<owner, left>>
  BY <1>1 DEF Begins, Arrive, tables
<1>3. a \in Request /\ a.was = Standing(q.cred) /\ a.user = None
  BY <1>1 DEF Begins
<1>4. Standing(q.cred) \in {standing[c] : c \in Cred} \cup {None}
  BY <1>1 DEF Begins, standing, Standing
<1>5. req[r].was = Closed /\ req[r].user = None
  BY <1>2 DEF Idle
<1> HIDE DEF a
<1>6. C!Request(r)
  BY <1>2, <1>3, <1>4, <1>5, Served
<1> QED BY <1>2, <1>6, SameStanding DEF Halves

LEMMA HandleRefines ==
    ASSUME AccountsInv, NEW r \in Req, Handle(r)
    PROVE  Halves
<1> USE AccountsAssumption
<1>r. req[r] \in Request /\ OK(req[r])
  BY DEF AccountsInv, TypeOK, RequestsOK
<1>l. left \in [Cred -> {None} \cup (-1..Forever)] /\ owner \in [Cred -> User \cup {None}]
  BY DEF AccountsInv, TypeOK
<1>1. CASE InsertUser(r) \/ SelectUser(r)
  <2>1. UNCHANGED <<owner, left>> /\ (Done(r) \/ GoTo(r, "insertSession"))
    BY <1>1 DEF InsertUser, SelectUser, tables
  <2>2. CASE GoTo(r, "insertSession")
    <3> DEFINE q == [req[r] EXCEPT !.step = "insertSession"]
    <3>1. q \in Request /\ q.was = req[r].was /\ q.user = req[r].user
      BY <1>r DEF Request
    <3>2. Becomes(r, q)
      BY <2>2 DEF GoTo
    <3> HIDE DEF q
    <3> QED BY <2>1, <3>1, <3>2, Served, SameStanding DEF Halves
  <2> QED BY <2>1, <2>2, DoneRefines, SameStanding DEF Halves
<1>2. CASE InsertSession(r)
  <2>1. PICK s \in Session : Issue(s, req[r].name, Life) /\ Answers(r, s, Keep, None)
    BY <1>2 DEF InsertSession
  <2>2. req[r].name \in User /\ s \in Cred /\ Life \in 1..Forever
    BY <1>2, <1>r DEF InsertSession, At, OK, Shape, Cred, Forever
  <2> QED BY <2>1, <2>2, StandingIssued, AnswersRefines DEF Halves
<1>3. CASE CreateToken(r)
  <2>1. CASE Done(r) /\ UNCHANGED <<owner, left>>
    BY <2>1, DoneRefines, SameStanding DEF Halves
  <2>2. ASSUME NEW t \in Token, NEW life \in 1..Forever,
               Issue(t, req[r].user, life), Answers(r, Keep, t, None)
        PROVE  Halves
    <3>1. req[r].user \in User /\ t \in Cred
      BY <1>3, <1>r DEF CreateToken, At, OK, Shape, Behind, Cred
    <3> QED BY <2>2, <3>1, StandingIssued, AnswersRefines DEF Halves
  <2> QED BY <1>3, <2>1, <2>2 DEF CreateToken
<1>4. CASE DeleteSession(r) \/ Revoke(r)
  <2>1. /\ owner' = owner
        /\ \A c \in Cred : Accepted(c)' => Accepted(c)
        /\ Done(r) \/ Answers(r, None, Keep, None)
    <3>1. CASE DeleteSession(r)
      BY <3>1, DeletedShrinks DEF DeleteSession, Accepted, Row
    <3>2. CASE Revoke(r)
      BY <3>2, DeletedShrinks DEF Revoke
    <3> QED BY <1>4, <3>1, <3>2
  <2> QED BY <2>1, StandingShrinks, DoneRefines, AnswersRefines DEF Halves
<1>5. CASE RequireAuth(r)
  <2>1. UNCHANGED <<owner, left>>
    BY <1>5 DEF RequireAuth, tables
  <2>2. CASE Refuses(r)
    <3> DEFINE q == [Idle EXCEPT !.step = "refused", !.set = None]
    <3>1. q \in Request /\ q.was = Closed /\ q.user = None /\ Becomes(r, q)
      BY <2>2 DEF Idle, Request, Refuses
    <3> QED BY <2>1, <3>1, Served, SameStanding DEF Halves
  <2>3. CASE req[r].cred # None /\ Accepted(req[r].cred) /\ Serve(r)
    <3>0. req[r].cred \in Cred
      BY <1>r, <2>3 DEF Request
    <3>1. owner[req[r].cred] \in User /\ req[r].was = owner[req[r].cred]
      BY <1>5, <1>r, <2>3, <3>0 DEF RequireAuth, At, OK, StandingSeen, Accepted,
         AccountsInv, RowsOwned
    <3>2. PICK step \in Behind, n \in Token \cup {None} :
            Becomes(r, [Idle EXCEPT !.step = step, !.was = req[r].was,
                          !.user = owner[req[r].cred], !.new = n])
      <4>1. req[r].new \in Token \cup {None}
        BY <1>r DEF Request
      <4> QED BY <2>3, <4>1 DEF Serve
    <3> DEFINE w == req[r].was
               u == owner[req[r].cred]
               q == [Idle EXCEPT !.step = step, !.was = w, !.user = u, !.new = n]
    <3>3. w \in User /\ u = w
      BY <3>1
    <3>4. Becomes(r, q)
      BY <3>2
    <3> HIDE DEF w, u
    <3>5. q \in Request /\ q.was = w /\ q.user = u
      BY <3>3 DEF Idle, Request, Behind
    <3> QED BY <2>1, <3>3, <3>4, <3>5, Served, SameStanding DEF Halves, w
  <2> QED BY <1>5, <2>1, <2>2, <2>3, DoneRefines, SameStanding DEF RequireAuth, Halves
<1>6. CASE Page(r) \/ Settings(r) \/ Touch(r)
  <2>1. UNCHANGED <<owner, left>>
    BY <1>6 DEF Page, Settings, Touch, tables
  <2>2. Done(r) \/ Answers(r, Keep, None, req[r].new)
    BY <1>6 DEF Page, Settings, Touch
  <2>3. req[r].new \in Token \cup {None}
    BY <1>r DEF Request
  <2> QED BY <2>1, <2>2, <2>3, DoneRefines, AnswersRefines, SameStanding DEF Halves
<1>7. CASE Validate(r)
  <2>1. UNCHANGED <<owner, left>>
    BY <1>7 DEF Validate, tables
  <2>2. CASE Accepted(req[r].cred) /\
             Becomes(r, [req[r] EXCEPT !.step = "touch", !.user = owner[req[r].cred]])
    <3>0. req[r].cred \in Cred /\ req[r].cred # None
      BY <1>7, <1>r DEF Validate, At, OK, Shape, Cred
    <3>1. owner[req[r].cred] \in User /\ req[r].was = owner[req[r].cred]
      BY <1>7, <1>r, <2>2, <3>0 DEF Validate, At, OK, StandingSeen, Accepted,
         AccountsInv, RowsOwned
    <3> DEFINE q == [req[r] EXCEPT !.step = "touch", !.user = owner[req[r].cred]]
    <3>a. q \in Request
      BY <1>r, <3>1 DEF Request
    <3>2. q.was = req[r].was /\ q.user = owner[req[r].cred]
      BY <1>r DEF Request
    <3>3. Becomes(r, q)
      BY <2>2
    <3> HIDE DEF q
    <3> QED BY <2>1, <3>1, <3>a, <3>2, <3>3, Served, SameStanding DEF Halves
  <2> QED BY <1>7, <2>1, <2>2, DoneRefines, SameStanding DEF Validate, Halves
<1> QED BY <1>1, <1>2, <1>3, <1>4, <1>5, <1>6, <1>7 DEF Handle

LEMMA StepRefines == AccountsInv /\ [Next]_vars => [C!Next]_(C!vars)
<1> SUFFICES ASSUME AccountsInv, [Next]_vars PROVE Halves
  BY DEF Halves, C!Next, standing, asked, acting
<1>1. ASSUME NEW r \in Req, Deliver(r) \/ Fails(r) PROVE Halves
  <2>1. UNCHANGED <<owner, left>> /\ Done(r)
    BY <1>1 DEF Deliver, Fails, Done, tables
  <2> QED BY <2>1, DoneRefines, SameStanding DEF Halves
<1>2. CASE Tick \/ CleanExpiredSessions
  <2>1. owner' = owner /\ req' = req
    BY <1>2 DEF Tick, CleanExpiredSessions
  <2>2. \A c \in Cred : Accepted(c)' => Accepted(c)
    <3>1. CASE Tick
      BY <3>1, AccountsAssumption
         DEF Tick, Aged, Accepted, Row, Forever, AccountsInv, TypeOK
    <3>2. CASE CleanExpiredSessions
      BY <3>2, DeletedShrinks DEF CleanExpiredSessions
    <3> QED BY <1>2, <3>1, <3>2
  <2> QED BY <2>1, <2>2, StandingShrinks DEF Halves, asked, acting
<1>3. CASE Forget \/ UNCHANGED vars
  <2>1. UNCHANGED <<owner, left, req>>
    BY <1>3 DEF Forget, vars, tables
  <2> QED BY <2>1, SameStanding DEF Halves, asked, acting
<1> QED BY <1>1, <1>2, <1>3, ArriveRefines, HandleRefines DEF Next

\* Accounts implements Credentials: an authenticated request belongs to a
\* credential that was valid, and its user's, when the request arrived.
THEOREM AccountsImplementCredentials == Spec => CredentialsSpec
<1>1. Init => C!Init
  BY InitRefines
<1>2. AccountsInv /\ [Next]_vars => [C!Next]_(C!vars)
  BY StepRefines
<1> QED BY <1>1, <1>2, AccountsInvariant, PTL DEF Spec, CredentialsSpec, C!Spec
=============================================================================
