------------------------------- MODULE Export -------------------------------
(***************************************************************************)
(* The query of handleExportOPML over the tables of Library: one row for   *)
(* each of the user's feeds, with the name of the list it is joined with.  *)
(* Module Opml makes a file of the rows, and entries of the file again;    *)
(* here is what an import does to the tables when it meets those entries.  *)
(***************************************************************************)
EXTENDS Library

OwnFeeds(u) == {f \in Feed : feedOwner[f] = u}

\* The name of the list that the row f is joined with.
FolderOf(f) ==
    IF feedList[f] = None \/ listOwner[feedList[f]] = None THEN None
    ELSE listName[feedList[f]]

Row(f) == [url |-> feedUrl[f], folder |-> FolderOf(f)]

\* Mutant: JOIN, for LEFT JOIN.
ExportRowsInnerJoin(u) == {Row(f) : f \in {g \in OwnFeeds(u) : FolderOf(g) # None}}

\* SELECT ... FROM feeds LEFT JOIN lists ... WHERE f.user_id = ?.
ExportRows(u) == {Row(f) : f \in OwnFeeds(u)}

-----------------------------------------------------------------------------

\* The rows say of every feed of the user where it is, and a name is enough to
\* say it: each feed has one row, with a folder if it is in a list, which is a
\* list of the same user and shares the folder with the feeds of that list only.
ExportSound ==
    \A u \in User : \A f \in OwnFeeds(u) :
      /\ \E r \in ExportRows(u) : r = Row(f) /\ \A g \in OwnFeeds(u) : r = Row(g) => f = g
      /\ feedList[f] # None => /\ OwnsList(u, feedList[f])
                               /\ FolderOf(f) = listName[feedList[f]]
      /\ \A g \in OwnFeeds(u) : FolderOf(f) = FolderOf(g) <=> feedList[f] = feedList[g]

-----------------------------------------------------------------------------
(* Importing an export again                                               *)

\* What an import remembers of the user's lists is still so.
CacheCurrent(p) ==
    \A n \in Name : cache[p][n] # None =>
      listOwner[cache[p][n]] = req[p].user /\ listName[cache[p][n]] = n

\* The outline that an import is at is the row of a feed that the user has.
AtRow(p) ==
    \E f \in OwnFeeds(req[p].user) :
      /\ Row(f) = [url |-> req[p].url, folder |-> req[p].name]
      /\ At(p, "assignList") => req[p].list = feedList[f]

\* An import that is at a row of an export of the user, or between two of them,
\* and whose memory no other request has outdated.
Again(p) ==
    /\ req[p].step \in ImportStep
    /\ CacheCurrent(p)
    /\ ~At(p, "nextEntry") => AtRow(p)

\* Its next statement, where the file has rows of the export and no statement fails.
AgainStep(p) ==
    \/ \E x \in Url, folder \in Name \cup {None} :
         /\ [url |-> x, folder |-> folder] \in ExportRows(req[p].user)
         /\ NextEntry(p, x, folder)
    \/ ImportEnds(p) \/ ImportFeed(p) \/ EnsureList(p) \/ ReadList(p) \/ ImportAssign(p)

\* To import a file again that says what the tables already do, outline by
\* outline, adds no feed, makes no list and moves no feed (opml.go:205-278): every
\* import starts as one of Again, and each of its statements writes what is there
\* and leaves it one of Again.  Another request in between can end that: a list
\* that is renamed after it was cached, or a feed that is moved.
ReimportChangesNothing ==
    [][\A p \in Request :
         /\ (\E u \in User : ImportOPML(p, u)) => Again(p)'
         /\ Again(p) /\ AgainStep(p) =>
              /\ UNCHANGED <<listVars, feedVars, feedList>>
              /\ Again(p)' \/ req'[p] = Idle]_vars
=============================================================================
