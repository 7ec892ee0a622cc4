------------------------------ MODULE Accounts ------------------------------
(***************************************************************************)
(* Users, sessions, API tokens and the cookies of one browser:             *)
(* handler/auth.go, handler/settings.go, middleware/auth.go, token,        *)
(* api/middleware.go, and the cleaning of sessions in retention.go.  The   *)
(* browser has several tabs and there are API clients: requests overlap,   *)
(* answers come in any order or are lost, any statement may fail and the   *)
(* process may die.  Ids of sessions and tokens are random: used once.     *)
(***************************************************************************)
EXTENDS Integers

CONSTANTS
    User,      \* usernames; at most one row each
    Password,
    Session, Token,
    Req,       \* requests under way: tabs of the browser and API clients
    None,
    Gone, Closed,   \* see Credentials
    Keep,      \* an answer without Set-Cookie
    Life       \* sessionDuration; a token's expiry is at most as far

Cred == Session \cup Token
Forever == Life + 1

\* What may be behind RequireAuth: /settings, POST /settings/tokens,
\* POST /settings/tokens/{id}/revoke, and any page without credentials in it.
Behind == {"settings", "create", "revoke", "page"}

ASSUME AccountsAssumption ==
    /\ Session \cap Token = {}
    /\ {None, Gone, Closed, Keep} \cap (User \cup Password \cup Cred) = {}
    /\ None # Gone /\ None # Closed /\ None # Keep /\ Gone # Closed
    /\ None \notin -1..Forever
    /\ Life \in Nat \ {0}

VARIABLES
    password,  \* users: the password (its hash) of each username
    owner,     \* user_id of every row of sessions and api_tokens there ever was
    left,      \* time to expires_at, negative once it has passed; None: no row
    used,      \* tokens with a last_used_at
    jar,       \* the browser's rdr_session and rdr_new_token
    req,
    typed,     \* history: the password typed for each session
    known      \* history: the tokens that were displayed

tables == <<password, owner, left, used>>
history == <<typed, known>>
vars == <<tables, jar, req, history>>

\* A request: the next statement, the form and the cookies it came with, the
\* standing its credential had then, the user it is served as, the token its
\* page displays, and the Set-Cookie headers of its answer.
Idle == [step |-> "idle", name |-> None, pass |-> None,
         cred |-> None, new |-> None, was |-> Closed, user |-> None,
         page |-> None, set |-> Keep, setNew |-> Keep]

Request ==
    [step: Behind \cup {"idle", "insertUser", "selectUser", "insertSession",
                        "deleteSession", "requireAuth", "validate",
                        "touch", "answered", "refused"},
     name: User \cup {None}, pass: Password \cup {None},
     cred: Cred \cup {None}, new: Token \cup {None},
     was: User \cup {None, Gone, Closed}, user: User \cup {None},
     page: Token \cup {None},
     set: Session \cup {None, Keep}, setNew: Token \cup {None, Keep}]

TypeOK ==
    /\ password \in [User -> Password \cup {None}]
    /\ owner \in [Cred -> User \cup {None}]
    /\ left \in [Cred -> {None} \cup (-1..Forever)]
    /\ used \subseteq Token
    /\ jar \in [session: Session \cup {None}, new: Token \cup {None}]
    /\ req \in [Req -> Request]
    /\ typed \in [Session -> Password \cup {None}]
    /\ known \subseteq Token

Init ==
    /\ password = [u \in User |-> None]
    /\ owner = [c \in Cred |-> None]
    /\ left = [c \in Cred |-> None]
    /\ used = {}
    /\ jar = [session |-> None, new |-> None]
    /\ req = [r \in Req |-> Idle]
    /\ typed = [s \in Session |-> None]
    /\ known = {}

Row(c) == left[c] # None
Deleted(C) == [c \in Cred |-> IF c \in C THEN None ELSE left[c]]

\* expires_at > now, in RequireAuth and in Validate.
Accepted(c) == Row(c) /\ left[c] > 0

Standing(c) ==
    IF c = None \/ owner[c] = None THEN None
    ELSE IF Accepted(c) THEN owner[c] ELSE Gone

-----------------------------------------------------------------------------
(* A request arrives, with the cookies the browser has then                *)

At(r, step) == req[r].step = step
Becomes(r, q) == req' = [req EXCEPT ![r] = q]
GoTo(r, step) == Becomes(r, [req[r] EXCEPT !.step = step])

\* The answer is written: served, and on its way if it has cookies to set or a
\* token to show.
Answers(r, set, setNew, page) ==
    Becomes(r, [Idle EXCEPT !.step = "answered", !.set = set, !.setNew = setNew,
                            !.page = page])
Done(r) == Becomes(r, Idle)

\* RequireAuth redirects to /login and clears the cookie.
Refuses(r) == Becomes(r, [Idle EXCEPT !.step = "refused", !.set = None])

Arrive(r, q) ==
    /\ req[r] = Idle
    /\ Becomes(r, [q EXCEPT !.was = Standing(q.cred)])
    /\ UNCHANGED <<tables, jar, history>>

\* POST /register and POST /login, with a form that passes validation.
Submit(r, op, u, p) ==
    Arrive(r, [Idle EXCEPT !.step = op, !.name = u, !.pass = p])

Logout(r) ==
    Arrive(r, [Idle EXCEPT !.step = "deleteSession", !.cred = jar.session])

\* Anything behind RequireAuth: what, does not matter before RequireAuth lets
\* it through, nor does rdr_new_token where it is not read.
Visit(r) ==
    Arrive(r, [Idle EXCEPT !.step = "requireAuth", !.cred = jar.session,
                           !.new = jar.new])

\* A client of the REST API uses a token that somebody was shown.
CallApi(r, t) ==
    /\ t \in known
    /\ Arrive(r, [Idle EXCEPT !.step = "validate", !.cred = t])

-----------------------------------------------------------------------------
(* Register, log in, log out                                               *)

Taken(r) == password[req[r].name] # None

\* Mutant: INSERT OR IGNORE.
InsertUserOrIgnore(r) ==
    /\ At(r, "insertUser")
    /\ password' = [password EXCEPT ![req[r].name] = IF Taken(r) THEN @ ELSE req[r].pass]
    /\ GoTo(r, "insertSession")
    /\ UNCHANGED <<owner, left, used, jar, history>>

\* handleRegister: UNIQUE(username) decides between two registrations.
InsertUser(r) ==
    /\ At(r, "insertUser")
    /\ IF Taken(r)
         THEN Done(r) /\ UNCHANGED password
         ELSE /\ password' = [password EXCEPT ![req[r].name] = req[r].pass]
              /\ GoTo(r, "insertSession")
    /\ UNCHANGED <<owner, left, used, jar, history>>

\* handleLogin: an unknown username has no password that matches.
SelectUser(r) ==
    /\ At(r, "selectUser")
    /\ IF password[req[r].name] = req[r].pass
         THEN GoTo(r, "insertSession")
         ELSE Done(r)
    /\ UNCHANGED <<tables, jar, history>>

\* A row of sessions or api_tokens.
Issue(c, u, life) ==
    /\ owner[c] = None
    /\ owner' = [owner EXCEPT ![c] = u]
    /\ left' = [left EXCEPT ![c] = life]

\* createSession.
InsertSession(r) ==
    /\ At(r, "insertSession")
    /\ \E s \in Session :
         /\ Issue(s, req[r].name, Life)
         /\ typed' = [typed EXCEPT ![s] = req[r].pass]
         /\ Answers(r, s, Keep, None)
    /\ UNCHANGED <<password, used, jar, known>>

\* handleLogout clears the cookie whether there was a row or not, and also
\* when the DELETE fails.
DeleteSession(r) ==
    /\ At(r, "deleteSession")
    /\ left' \in {left, Deleted({req[r].cred})}
    /\ Answers(r, None, Keep, None)
    /\ UNCHANGED <<password, owner, used, jar, history>>

-----------------------------------------------------------------------------
(* RequireAuth and what is behind it                                       *)

\* The user goes into the context; only handleSettingsForm reads a cookie again.
Serve(r) ==
    \E step \in Behind :
      Becomes(r, [Idle EXCEPT !.step = step, !.was = req[r].was,
                    !.user = owner[req[r].cred],
                    !.new = IF step = "settings" THEN req[r].new ELSE None])

\* Mutant: the row alone, as if cleaning were immediate.
RequireAuthAnyRow(r) ==
    /\ At(r, "requireAuth")
    /\ IF req[r].cred = None THEN Done(r)
       ELSE IF Row(req[r].cred) THEN Serve(r) ELSE Refuses(r)
    /\ UNCHANGED <<tables, jar, history>>

\* Without a cookie the browser is sent to /login.  A cookie is cleared when
\* no row answers: not accepted, or any error of the statement.
RequireAuth(r) ==
    /\ At(r, "requireAuth")
    /\ IF req[r].cred = None
         THEN Done(r)
         ELSE \/ Accepted(req[r].cred) /\ Serve(r)
              \/ Refuses(r)
    /\ UNCHANGED <<tables, jar, history>>

\* Any handler that leaves users, sessions, tokens and cookies alone.
Page(r) ==
    /\ At(r, "page")
    /\ Done(r)
    /\ UNCHANGED <<tables, jar, history>>

\* Mutant: the cookie read and not cleared.
SettingsKeeping(r) ==
    /\ At(r, "settings")
    /\ IF req[r].new = None THEN Done(r) ELSE Answers(r, Keep, Keep, req[r].new)
    /\ UNCHANGED <<tables, jar, history>>

\* handleSettingsForm; popNewTokenCookie clears the cookie that it finds.
Settings(r) ==
    /\ At(r, "settings")
    /\ IF req[r].new = None THEN Done(r) ELSE Answers(r, Keep, None, req[r].new)
    /\ UNCHANGED <<tables, jar, history>>

\* handleCreateToken; a name or an expiry that is refused changes nothing.
CreateToken(r) ==
    /\ At(r, "create")
    /\ \/ Done(r) /\ UNCHANGED <<owner, left>>
       \/ \E t \in Token, life \in 1..Forever :
            Issue(t, req[r].user, life) /\ Answers(r, Keep, t, None)
    /\ UNCHANGED <<password, used, jar, history>>

\* handleRevokeToken, for any id in the path.
Revoke(r) ==
    /\ At(r, "revoke")
    /\ \E t \in Token :
         LET hit == {c \in {t} : owner[c] = req[r].user}
         IN  left' = Deleted(hit) /\ used' = used \ hit
    /\ Done(r)
    /\ UNCHANGED <<password, owner, jar, history>>

-----------------------------------------------------------------------------
(* bearerAuth: Validate is a SELECT with a look at the clock, and an UPDATE *)

Validate(r) ==
    /\ At(r, "validate")
    /\ IF Accepted(req[r].cred)
         THEN Becomes(r, [req[r] EXCEPT !.step = "touch", !.user = owner[req[r].cred]])
         ELSE Done(r)
    /\ UNCHANGED <<tables, jar, history>>

\* Mutant: an upsert by id.
TouchAlways(r) ==
    /\ At(r, "touch")
    /\ used' = used \cup {req[r].cred}
    /\ Done(r)
    /\ UNCHANGED <<password, owner, left, jar, history>>

\* The row may be gone by now, the error is ignored, the request is served by
\* a handler that leaves credentials alone.
Touch(r) ==
    /\ At(r, "touch")
    /\ used' \in {used, used \cup {t \in {req[r].cred} : Row(t)}}
    /\ Done(r)
    /\ UNCHANGED <<password, owner, left, jar, history>>

-----------------------------------------------------------------------------
(* The browser, the clock and the poll cycle                               *)

After(old, set) == IF set = Keep THEN old ELSE set

\* The answer reaches its tab: cookies are set and cleared by name, whatever
\* the browser has by now.
Deliver(r) ==
    LET q == req[r]
    IN  /\ At(r, "answered") \/ At(r, "refused")
        /\ jar' = [session |-> After(jar.session, q.set),
                   new |-> After(jar.new, q.setNew)]
        /\ known' = known \cup ({q.page} \cap Token)
        /\ Becomes(r, Idle)
        /\ UNCHANGED <<tables, typed>>

\* A statement fails, the process dies, or the answer is lost.
Fails(r) ==
    /\ req[r] # Idle
    /\ Becomes(r, Idle)
    /\ UNCHANGED <<tables, jar, history>>

\* MaxAge has passed, or somebody clears the cookies.
Forget ==
    /\ \E name \in {"session", "new"} : jar[name] # None /\ jar' = [jar EXCEPT ![name] = None]
    /\ UNCHANGED <<tables, req, history>>

Aged(c) == IF Row(c) /\ left[c] \in 0..Life THEN left[c] - 1 ELSE left[c]

Tick ==
    /\ \E c \in Cred : Aged(c) # left[c]
    /\ left' = [c \in Cred |-> Aged(c)]
    /\ UNCHANGED <<password, owner, used, jar, req, history>>

\* Mutant: one tick early, as if cleaning were by expires_at - 1.
ExpiredEarly(s) == Row(s) /\ left[s] < 2

Expired(s) == Row(s) /\ left[s] < 0

CleanExpiredSessions ==
    /\ \E s \in Session : Expired(s)
    /\ left' = Deleted({s \in Session : Expired(s)})
    /\ UNCHANGED <<password, owner, used, jar, req, history>>

Send(r) ==
    \/ \E op \in {"insertUser", "selectUser"}, u \in User, p \in Password :
         Submit(r, op, u, p)
    \/ Logout(r) \/ Visit(r)
    \/ \E t \in Token : CallApi(r, t)

Handle(r) ==
    \/ InsertUser(r) \/ SelectUser(r) \/ InsertSession(r) \/ DeleteSession(r)
    \/ RequireAuth(r) \/ Page(r) \/ Settings(r) \/ CreateToken(r) \/ Revoke(r)
    \/ Validate(r) \/ Touch(r)

Next ==
    \/ \E r \in Req : Send(r) \/ Handle(r) \/ Deliver(r) \/ Fails(r)
    \/ Forget \/ Tick \/ CleanExpiredSessions

Spec == Init /\ [][Next]_vars

-----------------------------------------------------------------------------
(* Properties                                                              *)

C == INSTANCE Credentials
       WITH standing <- [c \in Cred |-> Standing(c)],
            asked <- [r \in Req |-> req[r].was],
            acting <- [r \in Req |-> req[r].user]

\* Whatever expires, is revoked or logs out while requests are under way, a
\* request is served only as the user whose credential it had when it arrived,
\* and a credential never speaks for anybody else.
CredentialsSpec == C!Spec

\* Nobody has a session without the password of its user having been typed:
\* in particular not after losing a race for a username.
EarnedSessions ==
    \A s \in Session : owner[s] # None =>
      typed[s] \in Password /\ password[owner[s]] = typed[s]

\* A session or token that is accepted stops being so because its time is over,
\* its bearer logs out, or its owner revokes it: never by a cleaning that comes
\* too early, by somebody else or by another request of the same user.
EndsForAReason ==
    [][\A c \in Cred :
         Accepted(c) /\ ~Accepted(c)' =>
           \/ left'[c] = 0
           \/ \E r \in Req : At(r, "deleteSession") /\ req[r].cred = c
           \/ \E r \in Req : At(r, "revoke") /\ req[r].user = owner[c]]_vars

\* A token that was displayed is not in the browser any more and no answer
\* brings it back: only a page asked for before that can display it again
\* ("shown to the user exactly once", settings.go:82-83).
ShownThenForgotten ==
    \A t \in known : jar.new # t /\ \A r \in Req : req[r].setNew # t

\* Rows, once issued, have an owner, and only rows have a last_used_at.
RowsOwned ==
    /\ \A c \in Cred : Row(c) => owner[c] \in User
    /\ \A t \in used : Row(t)

\* What the browser holds or was shown has been issued.
BrowserIssued ==
    \A c \in {jar.session, jar.new} \cup known : c # None => owner[c] \in User

\* What a request carries has been issued.
Issued(q) ==
    \A c \in {q.cred, q.new, q.page, q.set, q.setNew} : c \in Cred => owner[c] \in User

\* A credential that a request may still be let in by had its standing when
\* the request arrived, and who was let in is who it was then.
StandingSeen(q) ==
    /\ q.user # None => q.was = q.user
    /\ q.step \in {"requireAuth", "validate"} /\ q.cred # None =>
         (Accepted(q.cred) => q.was = owner[q.cred])

\* The shape of a request at each statement.
Shape(q) ==
    /\ q.step = "idle" => q = Idle
    /\ q.step \in {"idle", "answered", "refused"} <=> q.was = Closed
    /\ q.step \in {"answered", "refused"} => q.user = None
    /\ q.step \in {"insertUser", "selectUser", "insertSession"} =>
         q.name \in User /\ q.pass \in Password
    /\ q.step = "insertSession" => password[q.name] = q.pass
    /\ q.step \in {"requireAuth", "validate", "insertSession", "insertUser", "selectUser"} =>
         q.user = None
    /\ q.step \in {"validate", "touch"} => q.cred \in Token
    /\ q.step = "deleteSession" => q.cred \notin Token
    /\ q.step \in Behind => q.user \in User
    /\ q.page # None => q.setNew = None
    /\ q.setNew # Keep => q.step = "answered"

OK(q) == Issued(q) /\ StandingSeen(q) /\ Shape(q)
RequestsOK == \A r \in Req : OK(req[r])

\* A new token travels to the browser once, before anything else carries it.
TravelsOnce ==
    \A r \in Req, t \in Token :
      req[r].setNew = t =>
        /\ jar.new # t /\ t \notin known
        /\ \A q \in Req : req[q].new # t /\ req[q].page # t
        /\ \A q \in Req : req[q].setNew = t => q = r

AccountsInv ==
    /\ TypeOK
    /\ RowsOwned
    /\ BrowserIssued
    /\ RequestsOK
    /\ TravelsOnce
    /\ EarnedSessions
    /\ ShownThenForgotten
=============================================================================
