---------------------------- MODULE Credentials ----------------------------
(***************************************************************************)
(* What sessions and API tokens promise.  A credential is issued to one    *)
(* user, once; it is withdrawn, for good, when it expires, is revoked or   *)
(* its bearer logs out.  A request is served as a user only if the         *)
(* credential it arrived with was that user's when it arrived.             *)
(***************************************************************************)

CONSTANTS
    User, Cred, Req,
    None,      \* nobody
    Gone,      \* the standing of a credential that was withdrawn
    Closed     \* no request under way

VARIABLES
    standing,  \* whom each credential speaks for
    asked,     \* the standing of each request's credential when it arrived
    acting     \* the user each request is served as

vars == <<standing, asked, acting>>

Init ==
    /\ standing = [c \in Cred |-> None]
    /\ asked = [r \in Req |-> Closed]
    /\ acting = [r \in Req |-> None]

Issue(c, u) ==
    /\ standing[c] = None
    /\ standing' = [standing EXCEPT ![c] = u]

\* Several at once: the clock ends whatever was to end at that instant.
Withdraw(C) ==
    /\ \A c \in C : standing[c] \in User
    /\ standing' = [c \in Cred |-> IF c \in C THEN Gone ELSE standing[c]]

Credential ==
    \/ \E c \in Cred, u \in User : Issue(c, u)
    \/ \E C \in SUBSET Cred : Withdraw(C)

Arrive(r, s) ==
    /\ asked[r] = Closed
    /\ asked' = [asked EXCEPT ![r] = s]
    /\ UNCHANGED acting

Authenticate(r) ==
    /\ asked[r] \in User
    /\ acting' = [acting EXCEPT ![r] = asked[r]]
    /\ UNCHANGED asked

\* With or without having been authenticated.
Answer(r) ==
    /\ asked' = [asked EXCEPT ![r] = Closed]
    /\ acting' = [acting EXCEPT ![r] = None]

Request(r) ==
    \/ \E s \in {standing[c] : c \in Cred} \cup {None} : Arrive(r, s)
    \/ Authenticate(r)
    \/ Answer(r)

\* A request may issue or withdraw a credential as it is answered.
Next ==
    /\ Credential \/ UNCHANGED standing
    /\ (\E r \in Req : Request(r)) \/ UNCHANGED <<asked, acting>>

Spec == Init /\ [][Next]_vars
=============================================================================
