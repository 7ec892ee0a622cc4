\* Two users, two overlapping requests, one session and one token.  Ids are
\* used up, so the browser may have nothing left to do.
SPECIFICATION Spec
CONSTANTS
    User = {u1, u2}
    Password = {p1, p2}
    Session = {s1}
    Token = {t1}
    Req = {r1, r2}
    None = None
    Gone = Gone
    Closed = Closed
    Keep = Keep
    Life = 1
SYMMETRY Symmetry
INVARIANTS AccountsInv EarnedSessions ShownThenForgotten
PROPERTIES CredentialsSpec EndsForAReason
CHECK_DEADLOCK FALSE
