------------------------------- MODULE Paging -------------------------------
(***************************************************************************)
(* Reading a long list page by page, over the REST API (Link headers) or   *)
(* in the browser (Newer and Older): GET /items and the search, on both    *)
(* routes.  A page takes two statements, a COUNT and a SELECT with LIMIT   *)
(* and OFFSET, and a list takes several requests; meanwhile items arrive,  *)
(* are marked and starred, and are deleted.                                *)
(***************************************************************************)
EXTENDS Integers, FiniteSets, Snippets

CONSTANTS
    Item,         \* ids of items, 1..n, handed out in this order
    Time,         \* values of published_at, numbers
    PageSize,     \* pageSize and itemsPerPage, which are equal
    MaxRanked,    \* bound: results of a search
    MaxPage,      \* bound: the page a bookmark asks for
    MaxChanges,   \* bound: changes to the tables during a walk
    MaxText       \* bound: words, markers and tags in a snippet

ASSUME PagingAssumption ==
    /\ Time \subseteq Nat \ {0}
    /\ IsFiniteSet(Item) /\ Item = 1..Cardinality(Item)
    /\ PageSize \in Nat \ {0}
    /\ MaxPage \in Nat /\ MaxChanges \in Nat /\ MaxText \in Nat

VARIABLES
    route,     \* "api" or "html"
    query,     \* "items" (a filtered list) or "search"
    pub,       \* published_at
    row,       \* "new", in the list, out of it (the filter), or deleted
    rank,      \* the order of a search
    changes,
    walk,      \* the reader: the page asked for, the count, the number of
               \* rows of the last answer, the rows of all so far
    hit,       \* the snippet of a result, with what the routes make of it
    stayed,    \* history: items that were in the list since the walk began
    during     \* history: what happened to the list during the walk

tables == <<pub, row, rank, changes>>
vars == <<route, query, tables, walk, hit, stayed, during>>

Rows == {i \in Item : row[i] \in {"in", "out"}}
View == {i \in Item : row[i] = "in"}

\* ORDER BY published_at DESC, id DESC.
Newer(i, j) == pub[i] > pub[j] \/ (pub[i] = pub[j] /\ i > j)

\* How many items of S come before i, and S in that order.
Place(S, i) == Cardinality({j \in S : Newer(j, i)})
Ordered(S) == [k \in 1..Cardinality(S) |-> CHOOSE i \in S : Place(S, i) = k - 1]

\* The list at this moment; a search is ordered by rank.
Listing == IF query = "items" THEN Ordered(View) ELSE rank

\* A search does not look at published_at.
Times == IF query = "search" THEN {0} ELSE Time

Idle == [step |-> "idle", first |-> 0, page |-> 0, total |-> 0, shown |-> 0,
         got |-> <<>>]
NoHit == [text |-> <<>>, segments |-> <<>>, html |-> <<>>]

Init ==
    /\ route \in {"api", "html"}
    /\ query \in {"items", "search"}
    /\ \E n \in 0..Cardinality(Item), p \in [Item -> Times] :
         /\ row = [i \in Item |-> IF i <= n THEN "in" ELSE "new"]
         /\ pub = [i \in Item |-> IF i <= n THEN p[i] ELSE 0]
    /\ query = "search" => Cardinality(View) <= MaxRanked
    /\ rank \in IF query = "search" THEN SetToSeqs(View) ELSE {<<>>}
    /\ changes = 0
    /\ walk = Idle
    /\ hit = NoHit
    /\ stayed = {}
    /\ during = {}

-----------------------------------------------------------------------------
(* The pages                                                               *)

\* Mutant: the offset of any page that is asked for.
EffectivePageUnclamped(total, requested) ==
    [page |-> IF requested < 1 THEN 1 ELSE requested,
     pages |-> (total + PageSize - 1) \div PageSize]

\* api/pagination.go, with Go's integer division.
EffectivePage(total, requested) ==
    LET pages == (total + PageSize - 1) \div PageSize
        last == IF pages < 1 THEN 1 ELSE pages
        atLeast == IF requested < 1 THEN 1 ELSE requested
    IN  [page |-> IF atLeast > last THEN last ELSE atLeast, pages |-> last]

Bigger(a, b) == IF a > b THEN a ELSE b
Smaller(a, b) == IF a < b THEN a ELSE b

\* handler/request_helpers.go.
Paginate(total, perPage, requested) ==
    LET pages == Bigger((total + perPage - 1) \div perPage, 1)
    IN  [page |-> Bigger(Smaller(requested, pages), 1), pages |-> pages]

Paged(total, requested) ==
    IF route = "api" THEN EffectivePage(total, requested)
    ELSE Paginate(total, PageSize, requested)

Offset(page) == (page - 1) * PageSize

\* LIMIT PageSize OFFSET Offset(page), of the list as it is now.
Limit(page) ==
    SubSeq(Listing, Offset(page) + 1, Smaller(Offset(page) + PageSize, Cardinality(View)))

\* Mutant: the pages rounded down.
HasNextRoundedDown(total, page) == page < total \div PageSize

\* Mutant: {{if le .Page .TotalPages}}.
HasNextOnLast(total, page) == page <= Paginate(total, PageSize, page).pages

\* rel="next" of the Link header, computed a second time from the total; the
\* templates compare Page with TotalPages, which comes to the same.
HasNext(total, page) ==
    IF route = "api"
      THEN total > PageSize /\ page < (total + PageSize - 1) \div PageSize
      ELSE page < Paginate(total, PageSize, page).pages

-----------------------------------------------------------------------------
(* The neighbours of an item, on its own page                              *)

\* Mutant: published_at alone.
BeyondByDate(i, j, prev) == IF prev THEN pub[i] < pub[j] ELSE pub[i] > pub[j]

\* published_at < ? OR (published_at = ? AND id < ?), or the same with >.
Beyond(i, j, prev) ==
    IF prev THEN pub[i] < pub[j] \/ (pub[i] = pub[j] /\ i < j)
    ELSE pub[i] > pub[j] \/ (pub[i] = pub[j] /\ i > j)

\* ORDER BY the same two columns LIMIT 1; no filter but the user's feeds.
AdjacentItemID(i, prev) ==
    {j \in Rows : Beyond(j, i, prev) /\
        \A k \in Rows : Beyond(k, i, prev) => k = j \/ Beyond(k, j, prev)}

-----------------------------------------------------------------------------
(* A reader walks through the list                                         *)

Going == walk.step \in {"count", "rows", "answered"}

\* Without a page (0), or from a bookmark that may be past the end by now.
Start ==
    /\ walk = Idle
    /\ \E n \in {0, MaxPage} :
         walk' = [Idle EXCEPT !.step = "count", !.first = n, !.page = n]
    /\ stayed' = View
    /\ UNCHANGED <<route, query, tables, hit, during>>

\* SELECT COUNT(*), and the page that is possible.
Count ==
    /\ walk.step = "count"
    /\ walk' = [walk EXCEPT !.step = "rows", !.total = Cardinality(View),
                            !.page = Paged(Cardinality(View), @).page]
    /\ during' = during \ {"shrunk"}
    /\ UNCHANGED <<route, query, tables, hit, stayed>>

\* Any text that FTS5 may return, with what the two routes make of it.
AllHits ==
    {[text |-> t, segments |-> ParseSnippet(t), html |-> Snippet(t)] :
       t \in BoundedSeq(Token, MaxText)}

Hits(rows) ==
    IF query = "search" /\ rows # <<>> /\ walk.first = 0 /\ walk.got = <<>> /\ changes = 0
    THEN AllHits ELSE {NoHit}

\* What the reader has seen; a walk that ends sees no more than this (bound).
Noted(got) == SubSeq(got, 1, Smaller(Len(got), Cardinality(Item) + PageSize))

\* The SELECT and the answer.  A result has a snippet, which depends on
\* nothing else: it is looked at for one result (bound).
ReadRows ==
    /\ walk.step = "rows"
    /\ LET rows == Limit(walk.page)
       IN  /\ walk' = [walk EXCEPT !.step = "answered", !.shown = Len(rows),
                                   !.got = Noted(@ \o rows)]
           /\ hit' \in Hits(rows)
    /\ UNCHANGED <<route, query, tables, stayed, during>>

\* The reader follows next, with the filters of the page it is on.
Follow ==
    /\ walk.step = "answered"
    /\ HasNext(walk.total, walk.page)
    /\ walk' = [walk EXCEPT !.step = "count", !.page = @ + 1, !.shown = 0]
    /\ hit' = NoHit
    /\ UNCHANGED <<route, query, tables, stayed, during>>

End ==
    /\ walk.step = "answered"
    /\ ~HasNext(walk.total, walk.page)
    /\ walk' = [walk EXCEPT !.step = "done"]
    /\ hit' = NoHit
    /\ UNCHANGED <<route, query, tables, stayed, during>>

\* A statement fails, or the reader has had enough.
GiveUp ==
    /\ Going
    /\ walk' = [Idle EXCEPT !.step = "failed"]
    /\ hit' = NoHit
    /\ stayed' = {}
    /\ during' = {}
    /\ UNCHANGED <<route, query, tables>>

-----------------------------------------------------------------------------
(* The list changes meanwhile                                              *)

\* A walk begins with any list, so the changes that matter are during it.
Becomes(i, state) ==
    /\ Going /\ changes < MaxChanges
    /\ changes' = changes + 1
    /\ row' = [row EXCEPT ![i] = state]
    /\ rank' \in IF query = "search" THEN SetToSeqs(View') ELSE {<<>>}
    /\ stayed' = stayed \cap View'
    /\ during' = during \cup
         (IF state # "in"
            THEN IF walk.step = "rows" THEN {"left", "shrunk"} ELSE {"left"}
            ELSE IF walk.step = "rows" THEN {"entered", "torn"} ELSE {"entered"})
    /\ hit' = NoHit
    /\ UNCHANGED <<route, query, walk>>

\* A fetch stores an item, with the next id.
Arrives(i) ==
    /\ row[i] = "new" /\ \A j \in 1..(i - 1) : row[j] # "new"
    /\ query = "search" => Cardinality(View) < MaxRanked
    /\ \E t \in Times : pub' = [pub EXCEPT ![i] = t]
    /\ Becomes(i, "in")

\* It is marked, unstarred, or its feed is moved: the filter does not match.
Leaves(i) ==
    /\ query = "items" /\ row[i] = "in"
    /\ Becomes(i, "out")
    /\ UNCHANGED pub

Returns(i) ==
    /\ row[i] = "out"
    /\ Becomes(i, "in")
    /\ UNCHANGED pub

\* By pruning, or with its feed.
Deleted(i) ==
    /\ row[i] \in {"in", "out"}
    /\ Becomes(i, "gone")
    /\ UNCHANGED pub

\* Rows that do not match come or go, of any user: bm25 is computed from the
\* whole index, and ORDER BY rank has no second column.
Reranks ==
    /\ query = "search" /\ Going /\ changes < MaxChanges
    /\ changes' = changes + 1
    /\ rank' \in SetToSeqs(View)
    /\ during' = during \cup {"reranked"}
    /\ hit' = NoHit
    /\ UNCHANGED <<route, query, pub, row, walk, stayed>>

Reader == Start \/ Count \/ ReadRows \/ Follow \/ End \/ GiveUp

Next ==
    \/ Reader
    \/ \E i \in Item : Arrives(i) \/ Leaves(i) \/ Returns(i) \/ Deleted(i)
    \/ Reranks

\* A handler's statements come one after the other and the reader goes on.
Spec == Init /\ [][Next]_vars /\ WF_vars(Count \/ ReadRows \/ Follow \/ End)

-----------------------------------------------------------------------------
(* Properties                                                              *)

\* A walk along next from the first page sees every item that was in a list
\* of items all the time, provided none leaves it and none enters between the
\* two statements of one page.  Where nothing touches the list it sees every
\* item once, in order; so it does in a search while nothing comes into the
\* table of items or leaves it, whoever's it is: any row can change the order of
\* the others (api/search.go:67).  Without the provisos the offsets move under
\* the reader, and the count is older than the rows it goes with.
WalkSeesAll ==
    walk.step = "done" /\ walk.first = 0 =>
      /\ query = "items" /\ {"torn", "left"} \cap during = {} => stayed \subseteq Range(walk.got)
      /\ during = {} => walk.got = Listing

\* Whichever page is asked for, and on every page of a walk, one that has items
\* is shown: an answer has no rows only if its own count was zero, or if items
\* left the list between its own two statements.
NeverAnEmptyPage ==
    walk.step = "answered" /\ walk.shown = 0 => walk.total = 0 \/ "shrunk" \in during

\* The newer and the older neighbour on an item's page are its neighbours in
\* the list of all items, also among items published at the same second.
\* (The walk does not matter: its first request sees every state of the tables.)
NeighboursMatchList ==
    query = "items" /\ walk.step = "count" /\ walk.got = <<>> =>
      \A i \in Rows :
        /\ AdjacentItemID(i, TRUE) = {j \in Rows : Place(Rows, j) = Place(Rows, i) + 1}
        /\ AdjacentItemID(i, FALSE) = {j \in Rows : Place(Rows, j) = Place(Rows, i) - 1}

\* However the markers are nested or cut off, the segments show every token
\* but the markers of the pairs, highlighted inside of pairs only, and no two
\* segments could be one ("Misnested markers are tolerated", search.go:125).
SegmentsMatchMarkers ==
    LET segs == hit.segments
    IN  /\ Flat(segs) = Shown(hit.text)
        /\ \A n \in 1..Len(segs) : segs[n].text # <<>>
        /\ \A n \in 2..Len(segs) : segs[n].highlight # segs[n - 1].highlight

\* The page and the API show and highlight the same words, for every snippet
\* whose markers are in pairs, which is all that FTS5 writes of a text without
\* markers, and outside of what the page leaves out.  A word in an attribute or
\* in a script is shown by the API alone, highlighted if it matched: there the
\* sanitiser takes the markers away with the tag (sanitize.go:254).
RoutesHighlightAlike ==
    Pairs(hit.text) /\ Bare(hit.text) => Rendered(hit.html) = Untagged(Flat(hit.segments))

\* A walk ends: the last page has no next, also when the list has shrunk.
WalkEnds == Going ~> ~Going
=============================================================================
