------------------------------- MODULE Reading -------------------------------
(***************************************************************************)
(* What readers do to items, and what retention does to them: opening,     *)
(* starring and bulk-marking (internal/handler item_detail.go, item_star.go *)
(* and items.go, internal/api/items.go), the fetches that store and store  *)
(* again (each one atomic: Fetch implements FeedStore), the pruning at the *)
(* end of a poll cycle, and the search index that triggers keep.           *)
(*                                                                         *)
(* Requests of several statements interleave with everything else.  A list *)
(* that is deleted is, for the filter, a list that no feed is in.          *)
(***************************************************************************)
EXTENDS Naturals

CONSTANTS
    User, List, Feed, Guid,
    Item,            \* item ids; AUTOINCREMENT hands each one out once
    Request,         \* requests of more than one statement in flight
    None,            \* NULL, no filter, an id not handed out
    Owner,           \* feeds.user_id of each feed
    ListOwner,       \* lists.user_id of each list
    Dateless,        \* guids whose entries carry no date
    RetentionDays,   \* RDR_RETENTION_DAYS; 0 disables pruning
    MaxDay           \* bound: the last day of a behaviour

ASSUME ReadingAssumption ==
    /\ None \notin List \cup Feed \cup Guid \cup User
    /\ Owner \in [Feed -> User]
    /\ ListOwner \in [List -> User]
    /\ Dateless \subseteq Guid
    /\ RetentionDays \in Nat
    /\ MaxDay \in Nat

VARIABLES
    feeds,     \* feeds with a row
    member,    \* feeds.list_id
    items,     \* ids of the item rows
    entry,     \* feed_id, guid and published_at stored under each id
    read,      \* ids of the rows with read = 1
    starred,   \* ids of the rows with starred = 1
    index,     \* rowids of items_fts
    today,     \* days since the process began
    req,       \* the request each goroutine serves
    noticed,   \* history: ids whose owner opened or bulk-marked them
    wanted     \* history: ids whose owner starred them last

rows == <<items, entry, read, starred, index>>
history == <<noticed, wanted>>
vars == <<feeds, member, rows, today, req, history>>

Entry == [feed: Feed, guid: Guid, published: Nat]
NoEntry == [feed |-> None, guid |-> None, published |-> 0]

\* The form or the query of a page, or the body of an API request.
Filter == [feed: Feed \cup {None}, list: List \cup {None}, starred: BOOLEAN]
NoFilter == [feed |-> None, list |-> None, starred |-> FALSE]

Idle == [step |-> "idle", user |-> None, item |-> None, filter |-> NoFilter]
Req == [step: {"verifyList", "mark", "markOpened"}, user: User,
        item: Item \cup {None}, filter: Filter]

TypeOK ==
    /\ feeds \subseteq Feed
    /\ member \in [Feed -> List \cup {None}]
    /\ items \subseteq Item
    /\ entry \in [Item -> Entry \cup {NoEntry}]
    /\ read \subseteq items
    /\ starred \subseteq items
    /\ index \subseteq Item
    /\ today \in Nat
    /\ req \in [Request -> Req \cup {Idle}]
    /\ noticed \subseteq Item
    /\ wanted \subseteq Item

\* Every feed is subscribed and none was fetched yet.
Init ==
    /\ feeds = Feed
    /\ member = [f \in Feed |-> None]
    /\ items = {}
    /\ entry = [i \in Item |-> NoEntry]
    /\ read = {}
    /\ starred = {}
    /\ index = {}
    /\ today = 0
    /\ req = [p \in Request |-> Idle]
    /\ noticed = {}
    /\ wanted = {}

Owns(u, i) == i \in items /\ Owner[entry[i].feed] = u
Stored(f, g) == \E i \in items : entry[i].feed = f /\ entry[i].guid = g

-----------------------------------------------------------------------------
(* The rest of the program                                                 *)

NextDay ==
    /\ today < MaxDay
    /\ today' = today + 1
    /\ UNCHANGED <<feeds, member, rows, req, history>>

\* A feed is put into a list of its owner, or taken out of its list.
MoveFeed(f, l) ==
    /\ f \in feeds
    /\ l # None => ListOwner[l] = Owner[f]
    /\ member' = [member EXCEPT ![f] = l]
    /\ UNCHANGED <<feeds, rows, today, req, history>>

\* itemPublishedAt: an entry without a date is dated when it is stored.
Published(g) == IF g \in Dateless THEN today ELSE 0

Added(batch) == {i \in Item : batch[i] # None}

\* Ids for the guids new: one each, none of them used before.
FreshIds(new, batch) ==
    /\ batch \in [Item -> new \cup {None}]
    /\ \A i \in Added(batch) : entry[i] = NoEntry
    /\ \A g \in new : \E i \in Item : batch[i] = g
    /\ \A i, j \in Added(batch) : batch[i] = batch[j] => i = j

\* Rows under those ids, with their triggers.
InsertRows(f, batch) ==
    /\ items' = items \cup Added(batch)
    /\ entry' = [i \in Item |->
                    IF batch[i] = None
                      THEN entry[i]
                      ELSE [feed |-> f, guid |-> batch[i],
                            published |-> Published(batch[i])]]
    /\ index' = index \cup Added(batch)

\* Mutant: no UNIQUE(feed_id, guid).
StoreDocumentAgain(f, doc) ==
    /\ f \in feeds
    /\ \E batch \in [Item -> doc \cup {None}] :
        FreshIds(doc, batch) /\ InsertRows(f, batch)
    /\ UNCHANGED <<feeds, member, read, starred, today, req, history>>

\* Mutant: INSERT OR REPLACE, which does not fire the delete trigger.
StoreDocumentReplacing(f, doc) ==
    LET old == {i \in items : entry[i].feed = f /\ entry[i].guid \in doc}
    IN  /\ f \in feeds
        /\ \E batch \in [Item -> doc \cup {None}] :
            /\ FreshIds(doc, batch)
            /\ items' = (items \ old) \cup Added(batch)
            /\ entry' = [i \in Item |->
                            IF batch[i] = None
                              THEN entry[i]
                              ELSE [feed |-> f, guid |-> batch[i],
                                    published |-> Published(batch[i])]]
            /\ index' = index \cup Added(batch)
        /\ read' = read \ old
        /\ starred' = starred \ old
        /\ UNCHANGED <<feeds, member, today, req, history>>

\* A fetch commits: INSERT OR IGNORE for every entry of the document.
StoreDocument(f, doc) ==
    LET new == {g \in doc : ~Stored(f, g)}
    IN  /\ f \in feeds
        /\ \E batch \in [Item -> new \cup {None}] :
            FreshIds(new, batch) /\ InsertRows(f, batch)
        /\ UNCHANGED <<feeds, member, read, starred, today, req, history>>

\* Rows go, with their triggers.
DeleteRows(gone) ==
    /\ items' = items \ gone
    /\ read' = read \ gone
    /\ starred' = starred \ gone
    /\ index' = index \ gone
    /\ UNCHANGED entry

\* DELETE FROM feeds, with its cascade.
DeleteFeed(f) ==
    /\ f \in feeds
    /\ feeds' = feeds \ {f}
    /\ DeleteRows({i \in items : entry[i].feed = f})
    /\ UNCHANGED <<member, today, req, history>>

\* Mutant: the star not looked at.
ExpiredStarredToo(i) ==
    /\ entry[i].published + RetentionDays < today
    /\ i \in read

\* The WHERE of PruneOldItems.
Expired(i) ==
    /\ entry[i].published + RetentionDays < today
    /\ i \in read
    /\ i \notin starred

PruneOldItems ==
    /\ RetentionDays > 0
    /\ DeleteRows({i \in items : Expired(i)})
    /\ UNCHANGED <<feeds, member, today, req, history>>

-----------------------------------------------------------------------------
(* Readers                                                                 *)

\* What the filter selects, whoever asks.
Scope(F) ==
    {i \in items :
        /\ F.feed # None => entry[i].feed = F.feed
        /\ F.list # None => member[entry[i].feed] = F.list
        /\ F.starred => i \in starred}

\* Mutant: the condition on the user left out.
MatchesAnyUser(u, F, i) == i \in Scope(F)

\* BuildItemFilter.  Its condition on unread is the UPDATE's own.
Matches(u, F, i) ==
    /\ i \in Scope(F)
    /\ Owns(u, i)
    /\ F.list # None => ListOwner[F.list] = u

\* UPDATE items SET read = 1 WHERE read = 0 AND id IN (...)
MarkMatching(u, F) ==
    /\ read' = read \cup {i \in items : Matches(u, F, i)}
    /\ noticed' = noticed \cup {i \in Scope(F) : Owns(u, i)}
    /\ UNCHANGED <<feeds, member, items, entry, starred, index, today, wanted>>

\* POST /api/v1/items/mark-read: one statement.
MarkItemsRead(u, F) ==
    /\ F.feed = None \/ F.list = None
    /\ MarkMatching(u, F)
    /\ UNCHANGED req

\* POST /items/mark-read: the feed is verified, then the list, then the
\* statement runs.  A feed or list of somebody else is answered with a 404.
MarkRead(p, u, F) ==
    /\ req[p] = Idle
    /\ F.feed # None => F.feed \in feeds /\ Owner[F.feed] = u
    /\ req' = [req EXCEPT ![p] =
                 [step |-> "verifyList", user |-> u, item |-> None, filter |-> F]]
    /\ UNCHANGED <<feeds, member, rows, today, history>>

VerifyList(p) ==
    LET r == req[p]
        mine == r.filter.list # None => ListOwner[r.filter.list] = r.user
    IN  /\ r.step = "verifyList"
        /\ req' = [req EXCEPT ![p] =
                     IF mine THEN [step |-> "mark", user |-> r.user,
                                   item |-> None, filter |-> r.filter]
                             ELSE Idle]
        /\ UNCHANGED <<feeds, member, rows, today, history>>

MarkVerified(p) ==
    /\ req[p].step = "mark"
    /\ MarkMatching(req[p].user, req[p].filter)
    /\ req' = [req EXCEPT ![p] = Idle]

\* GET /items/{id}: the SELECT, scoped to the user; an item that is read
\* already needs no second statement.
OpenItem(p, u, i) ==
    /\ req[p] = Idle
    /\ Owns(u, i)
    /\ noticed' = noticed \cup {i}
    /\ req' = [req EXCEPT ![p] =
                 IF i \in read
                   THEN Idle
                   ELSE [step |-> "markOpened", user |-> u, item |-> i,
                         filter |-> NoFilter]]
    /\ UNCHANGED <<feeds, member, rows, today, wanted>>

\* UPDATE items SET read = 1 WHERE id = ? AND read = 0: by the id alone.
MarkOpened(p) ==
    /\ req[p].step = "markOpened"
    /\ read' = read \cup ({req[p].item} \cap items)
    /\ req' = [req EXCEPT ![p] = Idle]
    /\ UNCHANGED <<feeds, member, items, entry, starred, index, today, history>>

\* A statement fails: a 500, or only a log line for markOpened.
StatementFails(p) ==
    /\ req[p] # Idle
    /\ req' = [req EXCEPT ![p] = Idle]
    /\ UNCHANGED <<feeds, member, rows, today, history>>

\* What a star statement writes, and what the reader asked for.
SetStar(i, on) ==
    /\ starred' = IF on THEN starred \cup {i} ELSE starred \ {i}
    /\ wanted' = IF on THEN wanted \cup {i} ELSE wanted \ {i}
    /\ UNCHANGED <<feeds, member, items, entry, read, index, today, req, noticed>>

\* POST /items/{id}/star: starred = 1 - starred.
ToggleStar(u, i) == Owns(u, i) /\ SetStar(i, i \notin starred)

\* PUT and DELETE /api/v1/items/{id}/star: the value of the request.
StarItem(u, i) == Owns(u, i) /\ SetStar(i, TRUE)
UnstarItem(u, i) == Owns(u, i) /\ SetStar(i, FALSE)

-----------------------------------------------------------------------------

Reader(u) ==
    \/ \E F \in Filter :
        \/ MarkItemsRead(u, F)
        \/ \E p \in Request : MarkRead(p, u, F)
    \/ \E i \in Item :
        \/ \E p \in Request : OpenItem(p, u, i)
        \/ ToggleStar(u, i)
        \/ StarItem(u, i)
        \/ UnstarItem(u, i)

Statement(p) == VerifyList(p) \/ MarkVerified(p) \/ MarkOpened(p) \/ StatementFails(p)

Program ==
    \/ NextDay
    \/ \E f \in Feed, l \in List \cup {None} : MoveFeed(f, l)
    \/ \E f \in Feed, doc \in SUBSET Guid : StoreDocument(f, doc)
    \/ \E f \in Feed : DeleteFeed(f)
    \/ PruneOldItems

Next ==
    \/ Program
    \/ \E u \in User : Reader(u)
    \/ \E p \in Request : Statement(p)

Spec == Init /\ [][Next]_vars

-----------------------------------------------------------------------------
(* Properties                                                              *)

\* The row of an entry that its reader never opened or marked is there, and
\* unread, as long as the feed is: no other user's request, stale id, fetch
\* or pruning takes it away ("Unread items are kept regardless of age",
\* INSTALLING.md:67-68).
UnseenKept ==
    \A i \in Item \ noticed :
        entry[i].feed \in feeds => i \in items \ read

\* The row of an entry that its reader starred, and did not unstar since, is
\* there and starred as long as the feed is, and no other row is starred.
StarredKept ==
    /\ \A i \in wanted : entry[i].feed \in feeds => i \in starred
    /\ starred \subseteq wanted

\* Search finds exactly the rows there are, whichever way they go.
SearchMatchesRows == index = items

\* An entry has one row, however often and by whomever it is fetched, and a
\* row has its feed.
OneRowPerEntry ==
    /\ \A i, j \in items :
        entry[i].feed = entry[j].feed /\ entry[i].guid = entry[j].guid => i = j
    /\ \A i \in items : entry[i].feed \in feeds

\* A request about to mark an item by its id alone was made by somebody who
\* has noticed that id, which can never come to name another item.
OpenedIsNoticed ==
    \A p \in Request : req[p].step = "markOpened" => req[p].item \in noticed

\* Only ids that were handed out are in the histories.
HistoryOfEntries ==
    /\ \A i \in noticed \cup wanted : entry[i] # NoEntry
    /\ \A i \in items : entry[i] # NoEntry

\* The invariant the proofs use.
ReadingInv ==
    /\ TypeOK
    /\ UnseenKept
    /\ StarredKept
    /\ SearchMatchesRows
    /\ OneRowPerEntry
    /\ OpenedIsNoticed
    /\ HistoryOfEntries
=============================================================================
