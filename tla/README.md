# rdr: verification project

TLA+ modules, TLC runs and TLAPS proofs about **rdr**, a self-hosted feed
reader: one Go process, one SQLite database, a background poller, an HTML
interface and a REST API.  Every definition is translated from the Go and SQL
source; `PROJECT.json` ("map") names the lines each definition stands for.

Contents: [the system](#1-the-system), [the plan](#2-the-plan),
[the modules](#3-the-modules), [the runs](#4-the-runs),
[the proofs](#5-the-proofs), [findings](#6-findings),
[what is not modelled](#7-what-is-not-modelled).

## 1. The system

### Parts, state and operations

| Part | State it keeps | Operations |
|---|---|---|
| **Database** (`internal/database`, migrations) | tables users, sessions, lists, feeds, items, items_fts, user_settings, api_tokens; one connection (`SetMaxOpenConns(1)`), WAL | statements, one transaction per feed fetch, cascades, FTS triggers |
| **Feed fetching** (`poller/feed.go`) | none of its own; writes feeds and items | `FetchAndStoreFeed`, `recordFetchFailure` |
| **Poll cycle** (`poller/poller.go`) | `syncing`, `lastVacuum`, `consecutiveVacuumFailures` | `Start`, `TriggerSync`, `IsSyncing`, `poll`, `maybeVacuum` |
| **Retention** (`poller/retention.go`) | none; deletes items and sessions | `PruneOldItems`, `CleanExpiredSessions`, `runMaintenance` |
| **Shutdown** (`cmd/rdr/main.go`, `background/group.go`) | `Group.closed`, its WaitGroup, the signal context | `Go`, `Close`, `Wait`, the sequence at the end of `main` |
| **Lists and feeds** (`handler/{lists,list_detail,feeds}.go`, `api/{lists,feeds}.go`) | lists, feeds | create, rename, delete, membership, subscribe, unsubscribe |
| **OPML** (`handler/opml.go`) | the import's list cache | import, export |
| **Reading** (`handler/{items,item_detail,item_star}.go`, `api/items.go`, `dbutil`) | `read`, `starred` of items | open, star, mark read, page through |
| **Accounts** (`handler/{auth,settings}.go`, `middleware`, `token`, `api/middleware.go`) | users, sessions, api_tokens, the browser's cookies | register, log in, log out, create and revoke tokens, authenticate |
| **Favicons** (`favicon`, `handler/favicons.go`) | files `{slug}.{ext}`, feeds.favicon_url, the singleflight group | `Fetch`, serve |
| **Search** (`search`, `handler/search.go`, `api/search.go`) | reads items_fts | search, snippets, paging |
| **Content** (`sanitize`, `poller/media.go`, `discover`) | none | sanitise, synthesise, discover |

### How they interact

`main` opens the database, builds the HTTP server and starts the poller's loop.
Handlers run one goroutine per request and talk to the database statement by
statement; none of them opens a transaction.  Background work (the first fetch
of a feed, the fetches of an import, a triggered sync) is started through
`background.Group`, which `main` closes and waits for before it closes the
database.  The poll cycle calls `FetchAndStoreFeed` from up to `maxPollWorkers`
goroutines, waits for them, prunes, and sometimes runs VACUUM.  Everything
shares **one** database connection: a transaction keeps it, everybody else
waits in `database/sql`'s queue.

### What is hard here

* **Interleaving**: requests are sequences of autocommitted statements, so a
  check (`verifyOwnership`, a list id in the import's cache, a page the user
  saw) can be stale when the next statement writes.
* **One connection**: `FetchAndStoreFeed` must give its connection back before
  `recordFetchFailure` asks for one; the order of two `defer`s decides.
* **Atomicity**: a crash or a failed statement between the UPDATE of a feed and
  its last INSERT; a `Load` followed by a `CompareAndSwap` in another goroutine;
  a `Load` followed by a `WaitGroup` registration.
* **Shutdown**: a ten-second deadline after which handlers still run.
* **Schedules**: VACUUM's backoff, the retention window, expiring sessions.
* **Late answers**: a browser has several tabs, answers set and clear cookies by
  name in the order they arrive, and some never do.
* **Lists that move under their reader**: a page is a COUNT and a later SELECT
  with an offset, a walk is many pages, and items come and go all the time.

`PROJECT.json` ("hazards") lists each of these at its line with the properties
that cover it, or says why none does.

### What makes each part correct

* Fetching: a document is stored whole or not at all; a deleted feed leaves
  nothing behind; a failure is recorded and never blocks.
* Poll cycle: one cycle at a time, each feed of its snapshot fetched once,
  nothing of a cycle outlives it, the flag always comes down again.
* Shutdown: nobody uses the database after it is closed; the process ends.
* Lists and feeds: a request writes its own user's rows only, a feed is never
  in another user's list, names and URLs are unique, whatever is stale.
* Reading: nothing becomes read, or disappears, that its owner did not mark;
  the search index agrees with the table.
* Accounts: a request is served as the user whose credential it arrived with
  and nobody else; a credential, once gone, stays gone, and goes for a reason; a
  new token is shown and then forgotten.
* Paging and search: no page is empty without need, a reader who follows `next`
  gets to the end and misses nothing that stayed, both routes highlight alike
  whatever both of them show.
* OPML: an export that an import accepts restores what it exports, an import finds
  each feed's folder, and importing an export again changes nothing.
* Favicons: one writer per host, two files only where the old one could not be
  removed, and a lost file comes back.

## 2. The plan

Order of work, the most important behaviour first:

1. `FeedStore`, `Fetch`: the store's promise and the concurrent, crashing
   implementation. **Done.**
2. `Poller` (EXTENDS `Fetch`): the cycle over the fetches; `PollerProofs` has the
   proofs of both, with two refinements, and those of `Vacuum`.  **Done.**
3. `Shutdown` + `ShutdownProofs`. **Done.**
4. `Library` + `LibraryProofs`: ownership under interleaved requests and
   imports. **Done.**
5. `Vacuum`, with its proofs in `PollerProofs`: the schedule of VACUUM.  **Done.**
6. `Reading` + `ReadingProofs`: what readers, fetches and retention do to items
   and to the search index.  **Done.**
7. `Favicon` + `FaviconProofs`: flights, files and rows.  **Done.**
8. `Credentials`, `Accounts` + `AccountsProofs`: users, sessions, tokens and a
   browser's cookies, and the abstract credentials they implement; the
   refinement is proved.  **Done.**
9. `Snippets`, `Paging` + `PagingProofs`: pages, links and neighbours while the
   list changes; the snippet of a search result on both routes; all of its safety
   proved.  **Done.**
10. `Export` (EXTENDS `Library`): the rows of an export, and what it does to import
    them again.  `Opml` (EXTENDS `Export`): the file, and the walk of the outline
    tree as a recursive function over the depth of a file.  `LibraryProofs` proves
    that every feed is found in its folder and that export and import are a round
    trip.  **Done.**
11. What could come next: two sessions of one browser in the instance of
    `Accounts`, which the proofs already cover; the sanitiser's attributes and
    media, and discovery.

Which module uses which: `Fetch` EXTENDS `FeedStore` (and refines it), `Poller`
EXTENDS `Fetch`; `Shutdown` takes from `Poller` that the loop ends
(`ShutdownReached`), `Vacuum` that one cycle runs at a time (`OneCycle`),
`Reading` from `Fetch` that a fetch is one atomic step (`StoreRefined`),
`Favicon` from `Poller` that every feed is polled again and again.  `Accounts`
refines `Credentials` (INSTANCE ... WITH), `Opml` EXTENDS `Export`, which EXTENDS
`Library`, and both are checked in its states; `Paging` EXTENDS `Snippets`.
`SequenceLemmas` has no variables: it is what the proofs about texts
(`PagingProofs`) and about outlines (`LibraryProofs`) share.  Runs are few, and
each asks several questions of one module.

## 3. The modules

A row exists in the model when its feed is in a set (`live`, `feeds`) or its
owner is not `None`.  A statement outside a transaction is one action.  Where
a module names a *Mutant*, that operator is a wrong version of the one below it
and is not part of the specification; it is what the properties are tested with.

### `FeedStore` and `Fetch` (feed.go)

`FeedStore` is the promise: rows `meta` (what the last successful document was,
the failure counter, whether an error text is there) and `items`, changed by
subscribing, unsubscribing, storing a document and recording a failure, each in
one step.  `Fetch` is the code: each goroutine has a program counter `pc`
(request, begin, update, insert, rollback, record, favicon), the feed struct of
its caller (`target`), the parsed `doc` and what is left of it (`todo`).  `conn`
is the one connection: `Begin` waits for it, `Commit`, `CommitFails` and
`Rollback` give it back, `RecordFailure` needs it free.  `pending` is what the
open transaction has inserted, invisible until `Commit`.  `Crash` clears
everything but the tables.  Any statement may fail; the foreign key makes
`InsertItem` impossible once the feed is gone.  A document is a set of guids:
dates, titles and sanitising do not reach these properties.

### `Poller` (poller.go)

`cycle[c]` is where a caller of `poll` is, the `Loop` of `Start` or a goroutine
of `TriggerSync`; `syncing` is the atomic flag, `batch` the part of the
snapshot not yet dispatched, `stopping` the cancelled context.  `TriggerSync`
is the `Load`, `CompareAndSwap` the first statement of `poll` in the other
goroutine.  `QueryFeeds` takes any of the live feeds as the snapshot, because a
row that cannot be scanned is left out.  `CheckCtx` is the top of the dispatch loop and `Dispatch` the
acquired slot: cancellation can come between the two.  The semaphore is the
number of running workers.  `Retain` removes any items (which ones is
`Reading`'s subject).  Fetches by other goroutines, subscriptions and deletions
go on meanwhile (`Elsewhere`).

### `Shutdown` (main.go, background/group.go)

`main` walks through the numbered steps of main.go; `Drained` and `DrainTimeout`
are the two ways `httpServer.Shutdown` returns.  `GoLoad` and `GoRegister` are
the two halves of `Group.Go`.  A handler may stay for ever; it starts at most
one goroutine.  `ServeFails` is the `os.Exit(1)`.

### `Library` (handler/lists, list_detail, feeds, opml; api/lists, feeds)

`req[p]` is the request a goroutine serves: its user, the ids and names it
carries and the statement it executes next.  HTML handlers that call
`verifyOwnership` get a `verifyList` or `verifyFeed` statement before the one
they write with; REST handlers have the test in the statement itself.  An
import walks outline by outline: `insertFeed`, then `ensureList`, `readList`
and `assignList`, with `cache[p]` as its `listCache`.  `usedLists` and
`usedFeeds` are what AUTOINCREMENT has handed out.

### `Vacuum` (poller.go, maybeVacuum)

Its variables, `VacuumInit`, `VacuumNext` and `VacuumSpec` have names of their own,
because the module that proves things about it is also one about `Poller`.
Time is `Hour` ticks to the hour; ages stop at a day.  `since` is the age of
`lastVacuum`, `attempts` and `sinceSuccess` are history variables that the
properties read and the code does not have.

### `Reading` (items.go, item_detail.go, item_star.go, api/items.go, dbutil, retention.go, 001_initial.sql)

A row of `items` is an id in `items` with its `entry` (feed, guid, day of
publication), `read` and `starred`; `index` are the rowids the three triggers
keep in `items_fts`.  `StoreDocument` is a whole fetch, with INSERT OR IGNORE
on (feed, guid).  Opening an item is a SELECT and a later UPDATE by id
(`OpenItem`, `MarkOpened`); marking a list read is a verification and a later
UPDATE with `BuildItemFilter`'s conditions (`VerifyList`, `MarkVerified`).
`PruneOldItems` removes the read, unstarred rows older than the window.
`noticed` and `wanted` are histories of what readers did.

### `Favicon` (favicon.go, handler/favicons.go)

`flight[h]` is the leader of the singleflight group's key h; `call[p]` goes
through row, check, join or wait, download, removeOld, open, write, update.
`files[h]` are the extensions on disk; `RemoveOld` removes those of other types,
or fails to, file by file, and goes on either way, as the code does; `stuck[h]`
is the history of what could not be removed the last time, `Kept(h)` the files
that this does not explain.  `os.WriteFile` is `OpenFile` (the file exists) and
`Written`.  `Land` is the end of a flight: its waiters share the
result, and a caller that comes later starts another one.  `site` and `icon`
are the two columns `Slug` and `Unchanged` read from a possibly old row.

### `Credentials` and `Accounts` (handler/auth, handler/settings, middleware/auth, token, api/middleware, retention)

`Credentials` is the promise: `standing` says for whom each credential speaks
(`None` before it is issued, `Gone` for good afterwards), `asked` is the standing
a request's credential had when it arrived, `acting` the user it is served as.
`Accounts` is the code.  `owner` and `left` are the rows of sessions and
api_tokens (`left` counts down to `expires_at`; a row that has expired exists
until it is cleaned), `jar` the two cookies of the browser, `req[r]` the
statement a request executes next with the cookies it came with.  A registration
is `InsertUser`, `InsertSession`; RequireAuth is one statement and whatever
handler follows it another (`Behind`); `Validate` is the SELECT with its look at
the clock and `Touch` the UPDATE after it.  An answer is on its way until
`Deliver`: cookies are set and cleared by name, in the order the answers arrive.
`Fails` is a statement that fails, a process that dies, or an answer that is
lost.  `typed` and `known` are histories: the password each session was opened
with, and the tokens somebody has been shown.

### `Snippets` and `Paging` (api/pagination, api/items, api/search, handler/items, item_detail, search, sanitize.Snippet)

A list is the items of `row` "in", ordered by `pub` and id, or by `rank` in a
search; `Count` and `ReadRows` are the two statements of one page, `Follow` the
next link.  `Arrives`, `Leaves`, `Returns` and `Deleted` change the list in
between; `Reranks` is a row that is no result and comes or goes all the same,
which can give a search another order: `rank` is FTS5's bm25, of the whole
table.  `walk.shown` is the length of the last answer, `during` the history of
what happened to the list.  `EffectivePage`, `Paginate` and `HasNext` are the arithmetic of the
two routes, `AdjacentItemID` the neighbours on an item's own page.  A snippet is
a sequence of words, markers, and the two ends of what the sanitiser leaves out
(a tag, a comment, a script); `Parse` is the loop of the API's parser, a
recursive function of what is left of the text, `Sanitize` removes those parts
with whatever is in them, and `Snippet` makes tags of the markers that are left;
`Shown` defines position by position what the segments should be, `Untagged` takes
the tags out of them, and `Rendered` is what a browser makes of the page.

### `Export` and `Opml` (handler/opml)

`ExportRows` is the query's result (`Export`).  In `Opml`, `Export` is the file, a
sequence of nested outlines, and `CollectFeedsWithFolder` the import's walk, whose
entries `Library`'s `NextEntry` handles one by one.  Go recurses over a tree; the
model recurses over the number of levels: `Outlines[d]` are the outlines nested no
deeper than d, and `CollectFeedsWithFolder[d]` is the walk of them.  `encoding/xml`
refuses files nested deeper than a limit (`MaxDepth`), so `File`, all outlines up to
that depth, is every file there is.  `Paths` and `Placed` say independently of the
walk what it should do.  `Accepted` is what the import takes of a file: nothing, if
it has more feeds than `maxOPMLFeedCount`.  In `Export`, `Again` is an import whose outlines say
what the tables already do.

## 4. The runs

Each run is one instance of one module, its properties all at once.  For each
property PROJECT.json names a mutant: a plausible mistake in one definition
that makes TLC find the property violated under the same configuration.

| Run | Instance | Shows |
|---|---|---|
| `fetch_safe` | 2 goroutines, 2 feeds, 2 guids, `MaxFailures` 1 | a document is stored whole, error columns agree, nothing is left of a deleted feed, the connection is held by the open transaction only, and `Fetch` implements `FeedStore` |
| `poller_safe` | 3 feeds, 2 workers and slots, 1 triggered sync, `MaxPolls` 2 | one cycle, no double fetch, workers end inside the cycle, nobody is skipped |
| `poller_live` | 1 feed, 1 worker, 1 other fetch of it, 1 triggered sync | every fetch returns, every cycle ends, a signal stops everything |
| `poller_trigger` | 2 feeds, 2 workers | finding, see below |
| `shutdown_safe` | 3 requests | what main waits for before it closes the database; that the process ends |
| `shutdown_race` | 1 request | finding |
| `library_safe` | 2 users, 2 ids of each table, 2 names, 1 URL, 2 requests, 2 outlines; OPML files of up to three feeds in two lists (`XmlUrl`, `Text`), and outlines nested four deep (`MaxDepth`, `Files`) | ownership, uniqueness and harmless staleness; exports of up to `MaxFeeds` (2) feeds restore and larger ones are refused whole, folders are found, importing an export again changes nothing |
| `vacuum` | hourly clock | the schedule of VACUUM, and that it goes on |
| `reading` | 2 users with a feed each, 1 list, 2 guids (one undated), 2 item ids, 1 request of two statements, retention of 1 day, 3 days | unseen and starred items stay, the index agrees |
| `favicon` | 2 goroutines, 2 feeds of one site, 2 hosts, 2 types, 1 restart | one writer, a second file only where a removal failed, a lost file comes back |
| `accounts` | 2 users, 2 passwords, 1 session, 1 token, 2 requests, `Life` 1 | who is served as whom, how credentials end, the new token; `Accounts` implements `Credentials` |
| `paging` | 5 items, 2 times, pages of 2, searches of 3, 2 changes, snippets of 4 words, markers and ends of tags | what a reader who follows `next` sees, neighbours, highlights |

`Inv`, `LibraryInv`, `ReadingInv`, `FaviconInv` and `AccountsInv` are the
inductive invariants of the proofs, checked here as they stand: each has its
module's type invariant as a part, and the named parts that section 5 lists
(uniqueness and stale ids in `LibraryInv`, orphans, error columns and the
connection in `Inv`).  Where a part matters on its own it is a property as well.

**Bounds and why they are enough.**  The properties relate two actors (two
goroutines of one connection, two callers of `poll`, a request and the request
that makes it stale, two callers of one flight), so two of each reach every
conflict; two users tell "own" from "another's"; two ids tell a reused id from
a fresh one; three feeds exceed two slots, so the semaphore blocks.
`MaxFailures` stops fetches of a feed that keeps failing: one failure is enough
for the counter and the text to differ.  `MaxPolls` 2 is one cycle and one
competitor.  `MaxEntries` 2 lets the second outline use what the first cached.
`MaxDay` 2 with a window of one day leaves an entry of the first day outside the
window and one of the second day inside it.
In `accounts` one session and one token are enough for a credential to expire,
be cleaned or be revoked under another request, and two requests for each race;
`Life` 1 has the moment at which a session is neither accepted nor cleaned.  The
session id is not reused, so after the first one is gone logins end; the proofs
are for any number.  In `paging` five items make three pages, the last one not
full (`MaxPage` 3 is also a bookmark past the end of a shorter list); two
changes are what it takes to tear one page and shift the next (`MaxChanges`);
`MaxRanked` 3 is a search of two pages; `MaxText` 4 is a marker pair inside of
another, a pair around a tag, or a pair inside of one.  `MaxFeeds` 2 is less than the
three feeds of the largest export, which is refused.  One walk, and one result with a snippet: snippets depend on nothing
else.  `MaxCrashes` 1 leaves a restart in the middle of a flight.  In `Vacuum` every
interval is a whole number of hours, so an hourly clock meets every boundary;
the counter stops at 4, where the schedule is constant.  The proofs remove all
of these bounds for the safety properties.

**Deadlock.**  Ids are finite in the instances (AUTOINCREMENT never reuses
one), a finished shutdown has nothing left to do, and polls are bounded: those
configurations say CHECK_DEADLOCK FALSE.  `MCVacuumSafe`, `MCFaviconSafe` check
deadlock.  Where a run without deadlock check must not get stuck, a liveness
property of the same module says so (`FetchReturns`, `CycleEnds`,
`ShutdownCompletes`).

**Symmetry** only in runs without liveness properties.

**Fairness, and why the code justifies it.**

* `Fetch`: weak fairness of a goroutine's next statement (the HTTP client has a
  timeout, statements return); strong fairness of getting the connection,
  because `database/sql` serves waiters in order.  No failure and no success
  is assumed beyond that.
* `Poller`: the same for callers of `poll`; the ticker and the signal are free.
* `Shutdown`: main, the loop's return (shown in `poller_live`) and background
  goroutines (bounded by the client's timeout and the cancelled context).
  *Nothing* makes a handler answer.
* `Vacuum`: time passes, cycles come, a statement ends.  Not that it succeeds.
* `Paging`: a handler's statements follow each other and the reader goes on
  clicking; nothing makes the list change or stop changing.
* `Favicon`: every feed is polled again and again, a call goes on, and among the
  downloads and the file creations that are tried for ever some succeed: the
  property cannot hold on a disk that is always full.

## 5. The proofs

TLAPS proves the safety properties for every value of the constants that
satisfies the named assumptions (`NoDocAssumption`, `FetchAssumption`,
`PollerAssumption`, `LibraryAssumption`, `HourAssumption`, `ReadingAssumption`,
`FaviconAssumption`, `AccountsAssumption`, `PagingAssumption`, `OpmlAssumption`,
`FilesAssumption`: None is not an id, sets are included in each other,
numbers are natural; `PagingAssumption`: ids are handed out from 1, publication
times and the page size are not zero; `OpmlAssumption`: URLs and names of the tables
can be attributes of a file, and a file may be two levels deep).  All proofs have the same shape: an inductive invariant,
one lemma per group of actions, temporal steps by PTL.

| Module | Inductive invariant, and what it adds to the properties | Theorems |
|---|---|---|
| `PollerProofs`, about `Fetch` | `Inv` = types, tables, processes.  `BatchIsWhole` alone is not preserved by `Commit`; one must know that the open transaction has exactly the document minus what is left (`PendingMatchesProgress`) and belongs to whom holds the connection (`ConnHeldByTx`) | types, `PendingMatchesProgress`, `BatchIsWhole`, `NoOrphans`, `ErrorMatchesCount`, `ConnHeldByTx`, and the refinement of `FeedStore` |
| `PollerProofs`, about `Poller` | `PollerInv`: a feed being fetched has left the batch (`NotAgain`), and a batch is given up only in a shutdown (`BatchLeft`).  `FetchOK` is `Inv` without `BatchIsWhole`: the part that survives retention, which takes items out of documents that were stored whole (`Whole`) | types, `OneCycle`, `WorkersInsideCycle`, `NoDoubleFetch`, `SnapshotServed`; fetches stay sound while cycles run (`FetchesSoundInCycles`); only retention makes a whole feed less than whole (`OnlyRetentionPrunes`); the process with its cycles implements `FeedStore` with a step that prunes (`PollerImplementsPrunedStore`) |
| `ShutdownProofs` | `ShutdownInv`: how far main is tells what has ended (`MainOrder`) | `LoopHasDb`, `DrainedShutdownIsClean`, `WaitIsFinal` |
| `LibraryProofs`, the tables | `LibraryInv`: rows have ids that were handed out, lists have names (`ListsNamed`), feeds have URLs and are finitely many (`FeedsHaveUrls`), and the shape of a request at each statement (`RequestShape`); with AUTOINCREMENT these make stale checks harmless | types, `ListOwnerMatches`, `VerifiedStaysOwn`, `UniquePerUser`, `OwnRowsOnly`; the rows of an export say of each feed where it is (`ExportSound`), which needs that lists are named, owned and unique; an import of rows that the tables already have writes nothing new (`ReimportChangesNothing`), which needs the same |
| `LibraryProofs`, the files | no state: the recursions have a solution (`LevelsExist`, `OutlinesIs`, `WalkIs`, `PathsIs`); an outline around a path is the folder that the path starts in (`PlacedBelow`), and by induction over the depth the walk makes of each path what its folders say (`WalkPlaces`); the walk of an exported folder is its rows (`FeedOutlinesBack`), folders share no row, so all of them are the rows, each once (`ExportBack`) | `InnermostFolder` for any files of any depth, `ExportRestores` in every reachable state and for every finite set of rows |
| `SequenceLemmas` | no state: induction over numbers, what `FlattenSeq` does to any sequence of sequences, a function of each element (`Each`), sequences without repetition (`Distinct`) | only lemmas |
| `PollerProofs`, about `Vacuum` | `VacuumInv`: with n failures in a row the attempt before the first of them is a day old | types, `SuccessesADayApart`, `AtMostFourADay` |
| `ReadingProofs` | `ReadingInv`: an item about to be marked by its id has been noticed (`OpenedIsNoticed`), histories hold ids that were handed out | `UnseenKept`, `StarredKept`, `SearchMatchesRows` |
| `FaviconProofs` | `FaviconInv`: leaders and flights correspond (`OneWriter`), and from the removal to the end of the flight no file of another type is there but those that could not be removed (`OldOnesRemoved`) | the invariant, `AtMostOneFile` |
| `AccountsProofs` | `AccountsInv`: what a request carries has been issued (`Issued`), a credential that may still be let in stood for the same user when the request arrived (`StandingSeen`), and a new token is in one place at a time (`TravelsOnce`) | the invariant, `EarnedSessions`, `ShownThenForgotten`, `EndsForAReason`, and the refinement `Spec => CredentialsSpec` |
| `PagingProofs`, the walk | `PagingInv`: a page that was counted begins inside of the count (`PageExists`); what a count still says of the list (`CountHolds`); a page without rows was counted as empty, or the list shrank after the count (`ShrunkLeft`); the reader is never sent past the end (`NextExists`); what stayed in the list and comes before the place where the reader goes on has been read (`NothingSkipped`), in an untouched list in order (`SameOrder`) | the invariant, `WalkSeesAll`, `NeverAnEmptyPage`, `NeighboursMatchList`, and that the two routes' different arithmetic pages alike (`RoutesPageAlike`) |
| `PagingProofs`, the snippets | no state: that the parser's recursion ends (`ParseIs`), what one turn of it adds (`ShownPlain`, `ShownCut`, `ShownPair`), and by induction over the length of the text all of it (`ParseShows`); that under well-marked text the count of open tags is one between the markers and zero elsewhere (`MarksOpen`); what is left of each cell without the tags (`UntagIs`) | `SegmentsMatchMarkers`, `RoutesHighlightAlike` |

Induction in these proofs is over sets: a set of numbers that holds zero and, with
each number, the next one, is all of them (`AllNumbers`, from the library's
`WFMin`); the induction theorems that take an operator cannot be used.  The
existence of the recursive functions (`Parse`, those of `Opml`, and the one inside of
`FlattenSeq`) is proved that way too, so nothing rests on a definition that might have no value.

**Only model-checked:** every liveness property (`FetchReturns`, `CycleEnds`,
`ShutdownReached`, `ShutdownCompletes`, `KeepsTrying`, `LostFileComesBack`,
`WalkEnds`): liveness under fairness and ENABLED are out of reach of this prover.
Every invariant and every action property that a run checks is a theorem.

## 6. Findings

Runs that expect a violation show where the code does not do what its comments
or documents say:

1. `poller_trigger` / `TriggerStartsSync`: `TriggerSync` returns true ("a sync
   was started", poller.go:81-82), but its goroutine may lose the
   CompareAndSwap to a tick or another trigger and do nothing.
2. `shutdown_race` / `NoTaskWithoutDb`: a handler past the drain deadline, caught
   between the two halves of `Group.Go`, starts a goroutine after the database
   was closed, although main.go:85-88 says its calls become no-ops.  `WaitIsFinal`
   (proved) says that this is the only way it happens.

Noted while modelling; no run is about them:

* After `POST /feeds/sync` was answered, `GET .../sync/status` can still say
  false, before the goroutine has run (poller.go:88-91); API.md:179-181 tells
  clients to poll it to learn when the sync is done.
* The HTML handler takes a feed out of whatever list it is in by now
  (list_detail.go:227); the REST handler of the same operation
  (api/lists.go:260-261) only out of the list the request names.
* opml.go:347-348 says that whitespace-only folder names "are treated as no
  folder (top-level)"; the code (361-371) leaves their feeds in the folder around
  them ("fall back to the current parent", 364-366).  The two agree about a blank
  folder at the top, the only one that the tests have.  `InnermostFolder` makes no
  claim about a blank folder inside of a named one (`BlankInside`), where they
  disagree.
* A user with more feeds than `maxOPMLFeedCount` gets an export that the import
  refuses as a whole (opml.go:198-201); `ExportRestores` has it as a case.
* removeOld drops the error of os.Remove (favicon.go:301), and the new file is
  written beside the old one (132): the slug then has two files, until a later
  removal succeeds.  handleFavicon serves whichever name comes first.
* A marker inside of a tag or a script goes with it on the page (sanitize.go:254),
  while the API's segments highlight the word there (api/search.go:142).
  `RoutesHighlightAlike` is about texts without such markers (`Bare`).
* The order of a search depends on every row of the table (api/search.go:67:
  `rank`), so the pages of one user's search can shift although nothing of that
  user's has changed; `WalkSeesAll` says of a search only what holds while no row
  comes or goes.
* A reader who follows `next` can miss an item when another one leaves the list
  between two pages, or when one enters between the COUNT and the SELECT of a page
  that then has a successor the count did not know; `WalkSeesAll` has both as
  provisos, and fails without either.
* A new token is to be shown "exactly once" (settings.go:82-83, token.go:12): two
  /settings pages that are under way together can both show it, and a second
  token that is created before the first was shown takes its place in the cookie.
  `ShownThenForgotten` is what remains true.
* RequireAuth clears the session cookie "Invalid or expired session"
  (middleware/auth.go:60) also when the statement failed for another reason, and
  an answer that is late clears the cookie of a login that came after it.
* Two flights of one slug one after the other, with rows read before the first
  ended, can leave a row's favicon_url naming a URL whose file the second flight
  replaced; favicon_test.go:727-739 knows of it.  The page still finds a file.
* The first fetch of a feed stores the icon under the host of the feed's URL;
  pages look under the site's host, where it appears with the next cycle.
* An entry that was read, pruned, and is still listed by its publisher comes
  back as a new unread row.

## 7. What is not modelled

* **Content** (sanitising, media synthesis, discovery), but for the snippet's
  markers and the parts of it that the sanitiser leaves out: functions on HTML text whose promises are about characters; fuzz and
  unit tests are the right tool.
* **Display preferences** (`handleUpdateSettings`): one upsert of one row, which
  only rendering reads.
* **FTS5**: which items match a query and in what order, and whether a change of
  the table gives them another one, is a free choice.
* **Rendering, routing, headers, configuration, the theme cookie, generated
  bindings**: no state that another step reads.
* **SQLite itself** is modelled by what it promises: statements are atomic,
  transactions isolated and durable, foreign keys and triggers run.  WAL
  recovery, disk full in mid-commit and corruption are not.
* **Abstractions** that could hide an error: `Validate`'s SELECT and its look at
  the clock are one step, and there is one browser (`Accounts`; API clients are
  separate requests); documents are sets of guids
  (`Fetch`) or of dated entries (`Reading`); a file is whole or absent (`Favicon`);
  the XML text between export and import, and the import's limit of 1 MB, are left
  out (`Opml`), and so is what the sanitiser does inside of a word (`Snippets`); hash collisions between hosts do not occur;
  a handler starts at most one background goroutine (`Shutdown`); `Reading`
  treats ownership of feeds and lists as fixed, which `Library` justifies
  (`OwnRowsOnly`).
