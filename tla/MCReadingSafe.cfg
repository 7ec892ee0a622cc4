\* Two item ids, an entry with a date and one without, retention of one day.
\* Ids are finite here: once all are used and deleted nothing is left to do.
SPECIFICATION Spec
CONSTANTS
    u1 = u1
    u2 = u2
    f1 = f1
    f2 = f2
    l1 = l1
    User = {u1, u2}
    List = {l1}
    Feed = {f1, f2}
    Guid = {g1, g2}
    Item = {i1, i2}
    Request = {p1}
    None = None
    Owner <- OwnerOf
    ListOwner <- ListOwnerOf
    Dateless = {g2}
    RetentionDays = 1
    MaxDay = 2
SYMMETRY ItemSymmetry
INVARIANTS ReadingInv UnseenKept StarredKept SearchMatchesRows
CHECK_DEADLOCK FALSE
