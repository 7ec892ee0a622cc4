------------------------------ MODULE Library ------------------------------
(***************************************************************************)
(* Who owns what: the lists and feeds tables under the HTML handlers       *)
(* (internal/handler), the REST handlers (internal/api) and the OPML       *)
(* import, for several users and several requests at a time.  A request is *)
(* a sequence of autocommitted SQL statements: what one statement read or  *)
(* verified may be gone when the next one writes.                          *)
(*                                                                         *)
(* A row exists when its owner is a user.  Foreign keys are on, ids come   *)
(* from AUTOINCREMENT (never handed out twice), users are never deleted.   *)
(***************************************************************************)
EXTENDS Naturals, FiniteSets

CONSTANTS
    User, List, Feed, Name, Url,
    Request,      \* requests being served at the same time
    None,         \* NULL, no row, no value
    MaxEntries    \* bound: feed outlines in one imported file

ASSUME LibraryAssumption ==
    /\ None \notin User \cup List \cup Feed \cup Name \cup Url
    /\ MaxEntries \in Nat

VARIABLES
    usedLists, usedFeeds,    \* ids handed out so far
    listOwner, listName,     \* lists.user_id, lists.name
    feedOwner, feedUrl,      \* feeds.user_id, feeds.url
    feedList,                \* feeds.list_id
    req,                     \* the request each goroutine serves
    cache,                   \* handleImportOPML's listCache
    left                     \* outlines the import has still to handle

listVars == <<usedLists, listOwner, listName>>
feedVars == <<usedFeeds, feedOwner, feedUrl>>
importVars == <<cache, left>>
vars == <<listVars, feedVars, feedList, req, importVars>>

-----------------------------------------------------------------------------
(* Requests                                                                *)

\* The next statement a request executes.
Step == {"createList", "deleteList", "renameList", "setList", "apiSetList",
         "clearList", "apiClearList", "addFeed", "deleteFeed",
         "verifyList", "verifyFeed",
         "nextEntry", "insertFeed", "ensureList", "readList", "assignList"}

\* The statements of handleImportOPML.
ImportStep == {"nextEntry", "insertFeed", "ensureList", "readList", "assignList"}

\* For each handler that verifies first, the statement it verifies for.
Goal == {"deleteList", "renameList", "setList", "clearList", "apiClearList",
         "deleteFeed"}

Idle == [step |-> "idle", goal |-> None, user |-> None, list |-> None,
         feed |-> None, name |-> None, url |-> None]
Req == [step: Step, goal: Goal \cup {None}, user: User, list: List \cup {None},
        feed: Feed \cup {None}, name: Name \cup {None}, url: Url \cup {None}]

Cache == [Name -> List \cup {None}]
EmptyCache == [n \in Name |-> None]

TablesTypeOK ==
    /\ usedLists \subseteq List
    /\ usedFeeds \subseteq Feed
    /\ listOwner \in [List -> User \cup {None}]
    /\ listName \in [List -> Name \cup {None}]
    /\ feedOwner \in [Feed -> User \cup {None}]
    /\ feedUrl \in [Feed -> Url \cup {None}]
    /\ feedList \in [Feed -> List \cup {None}]

RequestsTypeOK ==
    /\ req \in [Request -> Req \cup {Idle}]
    /\ cache \in [Request -> Cache]
    /\ left \in [Request -> 0..MaxEntries]

TypeOK == TablesTypeOK /\ RequestsTypeOK

Init ==
    /\ usedLists = {}
    /\ usedFeeds = {}
    /\ listOwner = [l \in List |-> None]
    /\ listName = [l \in List |-> None]
    /\ feedOwner = [f \in Feed |-> None]
    /\ feedUrl = [f \in Feed |-> None]
    /\ feedList = [f \in Feed |-> None]
    /\ req = [p \in Request |-> Idle]
    /\ cache = [p \in Request |-> EmptyCache]
    /\ left = [p \in Request |-> 0]

Done(p) == req' = [req EXCEPT ![p] = Idle]

\* A request arrives, with the ids of a page the user saw at some time.
Arrive(p, r) ==
    /\ req[p] = Idle
    /\ req' = [req EXCEPT ![p] = r]
    /\ UNCHANGED <<listVars, feedVars, feedList, importVars>>

Make(step, goal, u, l, f, n, x) ==
    [step |-> step, goal |-> goal, user |-> u, list |-> l, feed |-> f,
     name |-> n, url |-> x]

\* The request goes on with the statement step, about these values.
Continue(p, step, l, n, x) ==
    req' = [req EXCEPT ![p] = Make(step, @.goal, @.user, l, @.feed, n, x)]

Goto(p, step) == Continue(p, step, req[p].list, req[p].name, req[p].url)

\* Handlers whose first statement is their only one.
CreateList(p, u, n) == Arrive(p, Make("createList", None, u, None, None, n, None))
DeleteListByID(p, u, l) == Arrive(p, Make("deleteList", None, u, l, None, None, None))
ApiRenameList(p, u, l, n) == Arrive(p, Make("renameList", None, u, l, None, n, None))
ApiAddFeedToList(p, u, l, f) == Arrive(p, Make("apiSetList", None, u, l, f, None, None))
AddFeed(p, u, x) == Arrive(p, Make("addFeed", None, u, None, None, None, x))
DeleteFeedByID(p, u, f) == Arrive(p, Make("deleteFeed", None, u, None, f, None, None))

\* Handlers that verify the ownership of a list, or of a feed, first.
HtmxDeleteList(p, u, l) ==
    Arrive(p, Make("verifyList", "deleteList", u, l, None, None, None))
RenameList(p, u, l, n) ==
    Arrive(p, Make("verifyList", "renameList", u, l, None, n, None))
AddFeedToList(p, u, l, f) ==
    Arrive(p, Make("verifyList", "setList", u, l, f, None, None))
RemoveFeedFromList(p, u, l, f) ==
    Arrive(p, Make("verifyList", "clearList", u, l, f, None, None))
ApiRemoveFeedFromList(p, u, l, f) ==
    Arrive(p, Make("verifyList", "apiClearList", u, l, f, None, None))
HtmxDeleteFeed(p, u, f) ==
    Arrive(p, Make("verifyFeed", "deleteFeed", u, None, f, None, None))

\* An OPML file arrives; its outlines come one by one (NextEntry).
ImportOPML(p, u) ==
    /\ req[p] = Idle
    /\ req' = [req EXCEPT ![p] = Make("nextEntry", None, u, None, None, None, None)]
    /\ cache' = [cache EXCEPT ![p] = EmptyCache]
    /\ left' = [left EXCEPT ![p] = MaxEntries]
    /\ UNCHANGED <<listVars, feedVars, feedList>>

-----------------------------------------------------------------------------
(* The statements                                                          *)

At(p, step) == req[p].step = step
OwnsList(u, l) == l \in List /\ listOwner[l] = u
OwnsFeed(u, f) == f \in Feed /\ feedOwner[f] = u
NameTaken(u, n) == \E l \in List : listOwner[l] = u /\ listName[l] = n
UrlTaken(u, x) == \E f \in Feed : feedOwner[f] = u /\ feedUrl[f] = x

\* Mutant: a plain INTEGER PRIMARY KEY, whose ids come back after a delete.
InsertListReusingId(u, n) ==
    /\ ~NameTaken(u, n)
    /\ \E l \in List :
        /\ listOwner[l] = None
        /\ usedLists' = usedLists \cup {l}
        /\ listOwner' = [listOwner EXCEPT ![l] = u]
        /\ listName' = [listName EXCEPT ![l] = n]

\* INSERT INTO lists: a fresh id, unless UNIQUE(user_id, name) objects.
InsertList(u, n) ==
    /\ ~NameTaken(u, n)
    /\ \E l \in List \ usedLists :
        /\ usedLists' = usedLists \cup {l}
        /\ listOwner' = [listOwner EXCEPT ![l] = u]
        /\ listName' = [listName EXCEPT ![l] = n]

\* INSERT INTO feeds, with UNIQUE(user_id, url).
InsertFeed(u, x) ==
    /\ ~UrlTaken(u, x)
    /\ \E f \in Feed \ usedFeeds :
        /\ usedFeeds' = usedFeeds \cup {f}
        /\ feedOwner' = [feedOwner EXCEPT ![f] = u]
        /\ feedUrl' = [feedUrl EXCEPT ![f] = x]

\* handleCreateList and api CreateList: insert or conflict.
DoCreateList(p) ==
    LET r == req[p]
    IN  /\ At(p, "createList")
        /\ \/ InsertList(r.user, r.name)
           \/ NameTaken(r.user, r.name) /\ UNCHANGED listVars
        /\ Done(p)
        /\ UNCHANGED <<feedVars, feedList, importVars>>

\* Both AddFeed handlers: insert or conflict (the fetch is module Fetch's).
DoAddFeed(p) ==
    LET r == req[p]
    IN  /\ At(p, "addFeed")
        /\ \/ InsertFeed(r.user, r.url)
           \/ UrlTaken(r.user, r.url) /\ UNCHANGED feedVars
        /\ Done(p)
        /\ UNCHANGED <<listVars, feedList, importVars>>

\* verifyOwnership of the list, then of the feed where the handler asks for
\* it; a row that is not the user's ends the request with a 404.
VerifyList(p) ==
    LET r == req[p]
    IN  /\ At(p, "verifyList")
        /\ IF OwnsList(r.user, r.list)
             THEN Goto(p, IF r.goal = "setList" THEN "verifyFeed" ELSE r.goal)
             ELSE Done(p)
        /\ UNCHANGED <<listVars, feedVars, feedList, importVars>>

VerifyFeed(p) ==
    LET r == req[p]
    IN  /\ At(p, "verifyFeed")
        /\ IF OwnsFeed(r.user, r.feed) THEN Goto(p, r.goal) ELSE Done(p)
        /\ UNCHANGED <<listVars, feedVars, feedList, importVars>>

\* DELETE FROM lists WHERE id = ? AND user_id = ?; ON DELETE SET NULL.
DoDeleteList(p) ==
    LET r == req[p]
    IN  /\ At(p, "deleteList")
        /\ IF OwnsList(r.user, r.list)
             THEN /\ listOwner' = [listOwner EXCEPT ![r.list] = None]
                  /\ listName' = [listName EXCEPT ![r.list] = None]
                  /\ feedList' = [f \in Feed |->
                        IF feedList[f] = r.list THEN None ELSE feedList[f]]
             ELSE UNCHANGED <<listOwner, listName, feedList>>
        /\ Done(p)
        /\ UNCHANGED <<usedLists, feedVars, importVars>>

\* UPDATE lists SET name = ? WHERE id = ? AND user_id = ?; another list of
\* the user with that name is a conflict.
DoRenameList(p) ==
    LET r == req[p]
        taken == \E l \in List \ {r.list} :
                    listOwner[l] = r.user /\ listName[l] = r.name
    IN  /\ At(p, "renameList")
        /\ IF OwnsList(r.user, r.list) /\ ~taken
             THEN listName' = [listName EXCEPT ![r.list] = r.name]
             ELSE UNCHANGED listName
        /\ Done(p)
        /\ UNCHANGED <<usedLists, listOwner, feedVars, feedList, importVars>>

\* DELETE FROM feeds WHERE id = ? AND user_id = ?.
DoDeleteFeed(p) ==
    LET r == req[p]
    IN  /\ At(p, "deleteFeed")
        /\ IF OwnsFeed(r.user, r.feed)
             THEN /\ feedOwner' = [feedOwner EXCEPT ![r.feed] = None]
                  /\ feedUrl' = [feedUrl EXCEPT ![r.feed] = None]
                  /\ feedList' = [feedList EXCEPT ![r.feed] = None]
             ELSE UNCHANGED <<feedOwner, feedUrl, feedList>>
        /\ Done(p)
        /\ UNCHANGED <<usedFeeds, listVars, importVars>>

\* A statement that sets list_id on the rows rows; the foreign key refuses
\* an id without a list when there is a row to write.
AssignList(rows, l) ==
    feedList' = IF l = None \/ listOwner[l] # None
                   THEN [f \in Feed |-> IF f \in rows THEN l ELSE feedList[f]]
                   ELSE feedList

\* handleAddFeedToList: UPDATE feeds SET list_id = ? WHERE id = ? AND
\* user_id = ?, after the two checks.
DoSetList(p) ==
    LET r == req[p]
    IN  /\ At(p, "setList")
        /\ AssignList({f \in {r.feed} : OwnsFeed(r.user, f)}, r.list)
        /\ Done(p)
        /\ UNCHANGED <<listVars, feedVars, importVars>>

\* Mutant: the API's statement without its subquery.
DoApiSetListUnchecked(p) ==
    LET r == req[p]
    IN  /\ At(p, "apiSetList")
        /\ AssignList({f \in {r.feed} : OwnsFeed(r.user, f)}, r.list)
        /\ Done(p)
        /\ UNCHANGED <<listVars, feedVars, importVars>>

\* api AddFeedToList: both ownerships in the one statement.
DoApiSetList(p) ==
    LET r == req[p]
    IN  /\ At(p, "apiSetList")
        /\ AssignList({f \in {r.feed} : OwnsFeed(r.user, f) /\ OwnsList(r.user, r.list)},
                      r.list)
        /\ Done(p)
        /\ UNCHANGED <<listVars, feedVars, importVars>>

\* handleRemoveFeedFromList: whatever list the feed is in.
DoClearList(p) ==
    LET r == req[p]
    IN  /\ At(p, "clearList")
        /\ AssignList({f \in {r.feed} : OwnsFeed(r.user, f)}, None)
        /\ Done(p)
        /\ UNCHANGED <<listVars, feedVars, importVars>>

\* api RemoveFeedFromList: only if the feed is in that list.
DoApiClearList(p) ==
    LET r == req[p]
    IN  /\ At(p, "apiClearList")
        /\ AssignList({f \in {r.feed} : OwnsFeed(r.user, f) /\ feedList[f] = r.list},
                      None)
        /\ Done(p)
        /\ UNCHANGED <<listVars, feedVars, importVars>>

-----------------------------------------------------------------------------
(* handleImportOPML, outline by outline                                    *)

\* The next outline: an http(s) URL, in a folder or not.
NextEntry(p, x, folder) ==
    /\ At(p, "nextEntry")
    /\ left[p] > 0
    /\ left' = [left EXCEPT ![p] = @ - 1]
    /\ Continue(p, "insertFeed", None, folder, x)
    /\ UNCHANGED <<listVars, feedVars, feedList, cache>>

\* The file has no more outlines; the import's memory is garbage.
ImportEnds(p) ==
    /\ At(p, "nextEntry")
    /\ Done(p)
    /\ cache' = [cache EXCEPT ![p] = EmptyCache]
    /\ left' = [left EXCEPT ![p] = 0]
    /\ UNCHANGED <<listVars, feedVars, feedList>>

\* INSERT OR IGNORE INTO feeds, then resolveListID's look into its cache.
ImportFeed(p) ==
    LET r == req[p]
        known == IF r.name = None THEN None ELSE cache[p][r.name]
    IN  /\ At(p, "insertFeed")
        /\ \/ InsertFeed(r.user, r.url)
           \/ UrlTaken(r.user, r.url) /\ UNCHANGED feedVars
        /\ Continue(p, IF r.name = None \/ known # None THEN "assignList" ELSE "ensureList",
                    known, r.name, r.url)
        /\ UNCHANGED <<listVars, feedList, importVars>>

\* INSERT OR IGNORE INTO lists.
EnsureList(p) ==
    LET r == req[p]
    IN  /\ At(p, "ensureList")
        /\ \/ InsertList(r.user, r.name)
           \/ NameTaken(r.user, r.name) /\ UNCHANGED listVars
        /\ Goto(p, "readList")
        /\ UNCHANGED <<feedVars, feedList, importVars>>

\* Mutant: SELECT id FROM lists WHERE user_id = ?.
ReadAnyList(p) ==
    LET r == req[p]
    IN  /\ At(p, "readList")
        /\ \/ \E l \in List :
                /\ listOwner[l] = r.user
                /\ cache' = [cache EXCEPT ![p][r.name] = l]
                /\ Continue(p, "assignList", l, r.name, r.url)
           \/ /\ ~NameTaken(r.user, r.name)
              /\ Goto(p, "assignList")
              /\ UNCHANGED cache
        /\ UNCHANGED <<listVars, feedVars, feedList, left>>

\* SELECT id FROM lists WHERE user_id = ? AND name = ?: cached; when the list
\* is gone again the import goes on with no list.
ReadList(p) ==
    LET r == req[p]
    IN  /\ At(p, "readList")
        /\ \/ \E l \in List :
                /\ listOwner[l] = r.user
                /\ listName[l] = r.name
                /\ cache' = [cache EXCEPT ![p][r.name] = l]
                /\ Continue(p, "assignList", l, r.name, r.url)
           \/ /\ ~NameTaken(r.user, r.name)
              /\ Goto(p, "assignList")
              /\ UNCHANGED cache
        /\ UNCHANGED <<listVars, feedVars, feedList, left>>

\* A statement of the import fails, and is only logged: the outline is
\* skipped, resolveListID finds no list, or the assignment is not made.
ImportStatementFails(p) ==
    /\ \/ At(p, "insertFeed") /\ Goto(p, "nextEntry")
       \/ At(p, "ensureList") /\ Goto(p, "assignList")
       \/ At(p, "readList") /\ Goto(p, "assignList")
       \/ At(p, "assignList") /\ Goto(p, "nextEntry")
    /\ UNCHANGED <<listVars, feedVars, feedList, importVars>>

\* A statement of any other handler fails: the request is answered with a 500.
StatementFails(p) ==
    /\ req[p].step \in Step \ ImportStep
    /\ Done(p)
    /\ UNCHANGED <<listVars, feedVars, feedList, importVars>>

\* Mutant: UPDATE feeds SET list_id = ? WHERE url = ?.
ImportAssignUnscoped(p) ==
    LET r == req[p]
    IN  /\ At(p, "assignList")
        /\ AssignList({f \in Feed : feedOwner[f] # None /\ feedUrl[f] = r.url}, r.list)
        /\ Goto(p, "nextEntry")
        /\ UNCHANGED <<listVars, feedVars, importVars>>

\* UPDATE feeds SET list_id = ? WHERE user_id = ? AND url = ?, for new and
\* existing feeds, with NULL when there is no list.
ImportAssign(p) ==
    LET r == req[p]
    IN  /\ At(p, "assignList")
        /\ AssignList({f \in Feed : feedOwner[f] = r.user /\ feedUrl[f] = r.url}, r.list)
        /\ Goto(p, "nextEntry")
        /\ UNCHANGED <<listVars, feedVars, importVars>>

-----------------------------------------------------------------------------

Arrival(p) ==
    \E u \in User :
        \/ \E n \in Name : CreateList(p, u, n)
        \/ \E x \in Url : AddFeed(p, u, x)
        \/ \E l \in List :
            \/ DeleteListByID(p, u, l)
            \/ HtmxDeleteList(p, u, l)
            \/ \E n \in Name : ApiRenameList(p, u, l, n) \/ RenameList(p, u, l, n)
            \/ \E f \in Feed :
                \/ ApiAddFeedToList(p, u, l, f)
                \/ AddFeedToList(p, u, l, f)
                \/ RemoveFeedFromList(p, u, l, f)
                \/ ApiRemoveFeedFromList(p, u, l, f)
        \/ \E f \in Feed : DeleteFeedByID(p, u, f) \/ HtmxDeleteFeed(p, u, f)
        \/ ImportOPML(p, u)

Statement(p) ==
    \/ DoCreateList(p)
    \/ DoAddFeed(p)
    \/ VerifyList(p)
    \/ VerifyFeed(p)
    \/ DoDeleteList(p)
    \/ DoRenameList(p)
    \/ DoDeleteFeed(p)
    \/ DoSetList(p)
    \/ DoApiSetList(p)
    \/ DoClearList(p)
    \/ DoApiClearList(p)
    \/ \E x \in Url, folder \in Name \cup {None} : NextEntry(p, x, folder)
    \/ ImportEnds(p)
    \/ ImportFeed(p)
    \/ EnsureList(p)
    \/ ReadList(p)
    \/ ImportStatementFails(p)
    \/ ImportAssign(p)
    \/ StatementFails(p)

Next == \E p \in Request : Arrival(p) \/ Statement(p)

Spec == Init /\ [][Next]_vars

-----------------------------------------------------------------------------
(* Properties                                                              *)

\* A feed's list exists and belongs to the feed's owner, although the HTML
\* handler and the import check or look up the list in one statement and
\* use its id in a later one (list_detail.go:116-129, opml.go:208-278).
ListOwnerMatches ==
    \A f \in Feed :
        feedList[f] # None => /\ feedOwner[f] # None
                              /\ listOwner[feedList[f]] = feedOwner[f]

\* The request has verified, or looked up, the list it is about to write.
Checked(p, l) ==
    /\ req[p].list = l
    /\ \/ req[p].step \in {"setList", "assignList"}
       \/ At(p, "verifyFeed") /\ req[p].goal = "setList"

\* An id that a request has verified, or cached, still names a list of the
\* request's user or no list at all: never another user's.  This is why the
\* checks may be stale, and it needs AUTOINCREMENT.
VerifiedStaysOwn ==
    \A p \in Request :
        LET u == req[p].user
            verified == {l \in List : Checked(p, l) \/ \E n \in Name : cache[p][n] = l}
        IN  \A l \in verified : l \in usedLists /\ listOwner[l] \in {u, None}

\* Two lists of a user never share a name, two feeds never share a URL,
\* whichever handlers insert, rename and import at the same time.
UniquePerUser ==
    /\ \A l, m \in List :
        /\ listOwner[l] # None
        /\ listOwner[l] = listOwner[m]
        /\ listName[l] = listName[m]
        => l = m
    /\ \A f, g \in Feed :
        /\ feedOwner[f] # None
        /\ feedOwner[f] = feedOwner[g]
        /\ feedUrl[f] = feedUrl[g]
        => f = g

\* What else makes the three properties above inductive: a row's id was
\* handed out, a request verifies for a handler that asks for it, and only an
\* import has a cache.
LiveIdsUsed ==
    /\ \A l \in List : listOwner[l] # None => l \in usedLists
    /\ \A f \in Feed : feedOwner[f] # None => f \in usedFeeds

RequestShape ==
    \A p \in Request :
        /\ At(p, "verifyList") => req[p].goal \in Goal \ {"deleteFeed"}
        /\ At(p, "verifyFeed") => req[p].goal \in {"setList", "deleteFeed"}
        /\ req[p].step \in {"ensureList", "readList"} => req[p].list = None
        /\ req[p].step \notin ImportStep => cache[p] = EmptyCache

\* A list has a name, and a request that is about to give one has it at hand.
ListsNamed ==
    /\ \A l \in List : listOwner[l] # None => listName[l] # None
    /\ \A p \in Request :
        \/ req[p].step \in {"createList", "renameList", "ensureList"}
        \/ At(p, "verifyList") /\ req[p].goal = "renameList"
        => req[p].name # None

\* The same for the URLs of feeds; and only so many feeds were ever made.
FeedsHaveUrls ==
    /\ \A f \in Feed : feedOwner[f] # None => feedUrl[f] # None
    /\ \A p \in Request : req[p].step \in {"addFeed", "insertFeed"} => req[p].url # None
    /\ IsFiniteSet(usedFeeds)

\* The invariant the proofs use.
LibraryInv ==
    /\ TypeOK
    /\ ListOwnerMatches
    /\ VerifiedStaysOwn
    /\ UniquePerUser
    /\ LiveIdsUsed
    /\ RequestShape
    /\ ListsNamed
    /\ FeedsHaveUrls

\* A request writes the rows of its own user and no others, whatever ids it
\* carries and whatever happened since they were read.
OwnRowsOnly ==
    [][\A p \in Request :
          req'[p] # req[p] /\ req[p] # Idle =>
            /\ \A l \in List :
                <<listOwner[l], listName[l]>>' # <<listOwner[l], listName[l]>> =>
                    {listOwner[l], listOwner'[l]} \subseteq {req[p].user, None}
            /\ \A f \in Feed :
                <<feedOwner[f], feedUrl[f], feedList[f]>>'
                    # <<feedOwner[f], feedUrl[f], feedList[f]>> =>
                    {feedOwner[f], feedOwner'[f]} \subseteq {req[p].user, None}
      ]_vars
=============================================================================
