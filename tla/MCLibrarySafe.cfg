\* Two users, two ids of each table, two names; two requests at a time.
\* Ids are finite here: a request that needs another one waits for ever.
SPECIFICATION Spec
CONSTANTS
    User = {u1, u2}
    List = {l1, l2}
    Feed = {f1, f2}
    Name = {n1, n2}
    Url = {x1}
    Request = {p1, p2}
    None = None
    MaxEntries = 2
    MoreUrls = {x2, x3}
    XmlUrl <- MCXmlUrl
    Text = {n1, n2}
    MaxDepth = 4
    MaxFeeds = 2
    Files <- MCFiles
SYMMETRY LibrarySymmetry
INVARIANTS LibraryInv ExportRestores InnermostFolder
PROPERTIES OwnRowsOnly ReimportChangesNothing
CHECK_DEADLOCK FALSE
