---------------------------- MODULE PagingProofs ----------------------------
(***************************************************************************)
(* Proofs about Paging: the walk, for lists and pages of any length and    *)
(* any number of changes on the way, and the snippets, for texts of any    *)
(* length.                                                                 *)
(***************************************************************************)
EXTENDS Paging, SequenceLemmas

Step == {"idle", "count", "rows", "answered", "done", "failed"}

WalkState ==
    [step: Step, first: Nat, page: Nat, total: Nat, shown: Nat, got: Seq(Item)]

PagingTypeOK ==
    /\ route \in {"api", "html"}
    /\ query \in {"items", "search"}
    /\ pub \in [Item -> Nat]
    /\ row \in [Item -> {"new", "in", "out", "gone"}]
    /\ query = "search" => rank \in SetToSeqs(View)
    /\ changes \in 0..MaxChanges
    /\ walk \in WalkState
    /\ stayed \subseteq View
    /\ during \subseteq {"left", "shrunk", "entered", "torn", "reranked"}

\* No item left the list, and none entered it between a COUNT and its SELECT.
Calm == {"torn", "left"} \cap during = {}

\* How far into the list the reader has read, or is about to go on reading.
Frontier ==
    IF walk.step = "answered" THEN Offset(walk.page + 1)
    ELSE IF walk.page < 1 THEN 0 ELSE Offset(walk.page)

\* A page that was counted exists: it begins inside of the count.
PageExists ==
    walk.step \in {"rows", "answered"} =>
      /\ walk.page >= 1
      /\ walk.total <= Cardinality(Item)
      /\ IF walk.total = 0 THEN walk.page = 1 ELSE Offset(walk.page) < walk.total

\* What the count still says of the list.
CountHolds ==
    walk.step \in {"rows", "answered"} =>
      /\ "left" \notin during => walk.total <= Cardinality(View)
      /\ walk.step = "rows" /\ "shrunk" \notin during => walk.total <= Cardinality(View)
      /\ walk.step = "rows" /\ Calm => walk.total = Cardinality(View)
      /\ during = {} => walk.total = Cardinality(View)

\* What leaves between two statements leaves.
ShrunkLeft == "shrunk" \in during => "left" \in during

\* From the first page the reader never asks for one past the end, and has
\* not read more than the pages so far.
NextExists ==
    walk.first = 0 /\ Calm /\ Going =>
      /\ walk.step = "count" => Frontier = 0 \/ Frontier < Cardinality(View)
      /\ Len(walk.got) <= Frontier

\* Nothing that stayed is before the frontier and unread; after the last page
\* nothing is unread.
NothingSkipped ==
    walk.first = 0 /\ Calm /\ Going /\ query = "items" =>
      /\ \A i \in stayed : Place(View, i) < Frontier => i \in Range(walk.got)
      /\ walk.step = "answered" /\ walk.total <= Frontier => stayed \subseteq Range(walk.got)

\* In a list that nothing touches the pages so far are its beginning.
SameOrder ==
    walk.first = 0 /\ during = {} /\ Going =>
      walk.got = SubSeq(Listing, 1, Smaller(Frontier, Cardinality(View)))

PagingInv ==
    /\ PagingTypeOK
    /\ PageExists
    /\ CountHolds
    /\ ShrunkLeft
    /\ NextExists
    /\ NothingSkipped
    /\ SameOrder
    /\ NeverAnEmptyPage
    /\ WalkSeesAll

-----------------------------------------------------------------------------
(* The arithmetic of pages                                                 *)

\* The number of pages, rounded up: just enough for all rows, and one page
\* fewer is not.
LEMMA PageCount ==
    ASSUME NEW t \in Nat
    PROVE  LET n == (t + PageSize - 1) \div PageSize
           IN  /\ n \in Nat
               /\ \A p \in Nat : p < n <=> p * PageSize < t
<1> USE PagingAssumption
<1> DEFINE n == (t + PageSize - 1) \div PageSize
<1>1. n \in Nat /\ t <= PageSize * n /\ PageSize * n <= t + PageSize - 1
    OBVIOUS
<1>2. ASSUME NEW p \in Nat, p < n PROVE p * PageSize < t
    <2> HIDE DEF n
    <2>1. (p + 1) * PageSize <= n * PageSize /\ (p + 1) * PageSize = p * PageSize + PageSize
        BY <1>1, <1>2
    <2>2. QED
        BY <1>1, <2>1
<1>3. ASSUME NEW p \in Nat, n <= p PROVE t <= p * PageSize
    <2> HIDE DEF n
    <2>1. n * PageSize <= p * PageSize
        BY <1>1, <1>3
    <2>2. QED
        BY <1>1, <2>1
<1> HIDE DEF n
<1>4. \A p \in Nat : p < n <=> p * PageSize < t
    BY <1>1, <1>2, <1>3
<1>5. QED
    BY <1>1, <1>4 DEF n

\* Either route links to a next page when there are rows after this one.
LEMMA NextLink ==
    ASSUME NEW total \in Nat, NEW page \in Nat \ {0}
    PROVE  HasNext(total, page) <=> Offset(page + 1) < total
<1> USE PagingAssumption
<1> DEFINE n == (total + PageSize - 1) \div PageSize
<1>1. n \in Nat /\ \A p \in Nat : p < n <=> p * PageSize < total
    BY PageCount
<1>2. Offset(page + 1) = page * PageSize
    BY DEF Offset
<1>3. CASE route = "api"
    <2>1. HasNext(total, page) <=> total > PageSize /\ page < n
        BY <1>3 DEF HasNext, n
    <2>2. PageSize <= page * PageSize
        OBVIOUS
    <2>3. QED
        BY <1>1, <1>2, <2>1, <2>2
<1>4. CASE route # "api"
    <2>1. HasNext(total, page) <=> page < IF n < 1 THEN 1 ELSE n
        BY <1>1, <1>4 DEF HasNext, Paginate, Bigger, n
    <2>2. 1 * PageSize >= total <=> n <= 1
        BY <1>1
    <2>3. QED
        BY <1>1, <1>2, <2>1, <2>2
<1>5. QED
    BY <1>3, <1>4

\* Both routes compute the same page, number of pages and next link, from
\* different code (effectivePage and writePagination, paginate and a template):
\* the page asked for, or the last one that has rows.
THEOREM RoutesPageAlike ==
    ASSUME NEW total \in Nat, NEW requested \in Int
    PROVE  LET asked == EffectivePage(total, requested)
           IN  /\ asked = Paginate(total, PageSize, requested)
               /\ asked.page \in Nat \ {0}
               /\ IF total = 0 THEN asked.page = 1 ELSE Offset(asked.page) < total
               /\ requested >= 1 /\ Offset(requested) < total => asked.page = requested
               /\ requested <= 1 => asked.page = 1
               /\ HasNext(total, asked.page) <=> Offset(asked.page + 1) < total
<1> USE PagingAssumption
<1> DEFINE n == (total + PageSize - 1) \div PageSize
           last == IF n < 1 THEN 1 ELSE n
           page == IF requested < 1 THEN 1 ELSE IF requested > last THEN last ELSE requested
<1>1. n \in Nat /\ \A p \in Nat : p < n <=> p * PageSize < total
    BY PageCount
<1>2. EffectivePage(total, requested) = [page |-> page, pages |-> last]
    <2> HIDE DEF n
    <2> QED BY <1>1 DEF EffectivePage, n
<1>3. Paginate(total, PageSize, requested) = [page |-> page, pages |-> last]
    BY <1>1 DEF Paginate, Bigger, Smaller
<1> HIDE DEF n
<1>4. page \in Nat \ {0} /\ page - 1 \in Nat
    BY <1>1
<1>5. IF total = 0 THEN page = 1 ELSE (page - 1) * PageSize < total
    BY <1>1, <1>4
<1>6. requested >= 1 /\ (requested - 1) * PageSize < total => page = requested
    BY <1>1
<1>7. HasNext(total, page) <=> Offset(page + 1) < total
    BY <1>4, NextLink
<1>8. QED
    BY <1>2, <1>3, <1>4, <1>5, <1>6, <1>7 DEF Offset

-----------------------------------------------------------------------------
(* Places in a list                                                        *)

\* published_at and id order the items strictly: no two share a place.
LEMMA NewerOrders ==
    ASSUME pub \in [Item -> Nat]
    PROVE  /\ \A i, j \in Item : i # j => Newer(i, j) \/ Newer(j, i)
           /\ \A i, j \in Item : ~(Newer(i, j) /\ Newer(j, i))
           /\ \A i, j, k \in Item : Newer(i, j) /\ Newer(j, k) => Newer(i, k)
<1> Item \subseteq Nat
    BY PagingAssumption, FS_CardinalityType
<1> QED
    BY DEF Newer

LEMMA FiniteLists ==
    ASSUME NEW S, S \subseteq Item
    PROVE  IsFiniteSet(S) /\ Cardinality(S) \in Nat /\ Cardinality(S) <= Cardinality(Item)
    BY PagingAssumption, FS_Subset, FS_CardinalityType

\* A newer item comes first, and the places of S are 0 .. Cardinality(S) - 1.
LEMMA PlaceOrders ==
    ASSUME pub \in [Item -> Nat], NEW S, S \subseteq Item
    PROVE  /\ \A i \in S : Place(S, i) \in 0..(Cardinality(S) - 1)
           /\ \A i, j \in S : Newer(i, j) => Place(S, i) < Place(S, j)
<1> DEFINE Before(i) == {j \in S : Newer(j, i)}
<1>1. \A i \in Item : /\ IsFiniteSet(Before(i)) /\ Cardinality(Before(i)) \in Nat
                      /\ Place(S, i) = Cardinality(Before(i))
    BY FiniteLists DEF Place
<1>2. ASSUME NEW i \in S PROVE Place(S, i) < Cardinality(S)
    <2>1. i \notin Before(i)
        BY NewerOrders
    <2>2. Cardinality(Before(i)) <= Cardinality(S) /\ Cardinality(Before(i)) # Cardinality(S)
        BY <2>1, FiniteLists, FS_Subset
    <2>3. QED
        BY <1>1, <2>2, FiniteLists
<1>3. ASSUME NEW i \in S, NEW j \in S, Newer(i, j) PROVE Place(S, i) < Place(S, j)
    <2>1. Before(i) \subseteq Before(j) /\ i \in Before(j) /\ i \notin Before(i)
        BY <1>3, NewerOrders
    <2>2. /\ Cardinality(Before(i)) <= Cardinality(Before(j))
          /\ Cardinality(Before(i)) # Cardinality(Before(j))
        <3> HIDE DEF Before
        <3> QED BY <1>1, <2>1, FS_Subset
    <2>3. QED
        <3> HIDE DEF Before
        <3> QED BY <1>1, <2>2
<1> HIDE DEF Before
<1>4. \A i \in S : Place(S, i) \in 0..(Cardinality(S) - 1)
    BY <1>1, <1>2, FiniteLists
<1>5. QED
    BY <1>3, <1>4

\* There is an item at every place.
LEMMA PlaceTaken ==
    ASSUME pub \in [Item -> Nat], NEW S, S \subseteq Item, NEW n \in 0..(Cardinality(S) - 1)
    PROVE  \E i \in S : Place(S, i) = n
<1> DEFINE f == [i \in S |-> Place(S, i)]
           T == 0..(Cardinality(S) - 1)
<1>1. f \in Injection(S, T)
    <2>1. f \in [S -> T]
        BY PlaceOrders
    <2>2. \A i, j \in S : f[i] = f[j] => i = j
        BY PlaceOrders, NewerOrders
    <2>3. QED
        BY <2>1, <2>2 DEF Injection, IsInjective
<1>2. IsFiniteSet(T) /\ Cardinality(T) = Cardinality(S)
    <2>1. Cardinality(S) - 1 \in Int /\ 0 \in Int
        BY FiniteLists
    <2>2. /\ IsFiniteSet(T)
          /\ Cardinality(T) = IF 0 > Cardinality(S) - 1 THEN 0 ELSE Cardinality(S) - 1 - 0 + 1
        BY <2>1, FS_Interval
    <2>3. QED
        BY <2>2, FiniteLists
<1>3. f \in Surjection(S, T)
    <2> HIDE DEF f, T
    <2> QED BY <1>1, <1>2, FS_Injection
<1>4. QED
    BY <1>3 DEF Surjection

\* Ordered(S) has each item of S at its place, and only there.
LEMMA OrderedByPlace ==
    ASSUME pub \in [Item -> Nat], NEW S, S \subseteq Item
    PROVE  /\ Ordered(S) \in [1..Cardinality(S) -> S]
           /\ \A i \in S : Ordered(S)[Place(S, i) + 1] = i
<1>1. \A k \in 1..Cardinality(S) : \E i \in S : Place(S, i) = k - 1
    BY PlaceTaken, FiniteLists
<1>2. \A k \in 1..Cardinality(S) : Ordered(S)[k] \in S /\ Place(S, Ordered(S)[k]) = k - 1
    BY <1>1 DEF Ordered
<1>3. ASSUME NEW i \in S PROVE Ordered(S)[Place(S, i) + 1] = i
    BY <1>2, PlaceOrders, NewerOrders, FiniteLists
<1>4. QED
    BY <1>2, <1>3 DEF Ordered

\* The neighbours that the statement of adjacentItemID finds for an item are
\* the item's neighbours in the list of all items.
LEMMA NeighboursByPlace ==
    ASSUME pub \in [Item -> Nat], NEW i \in Rows
    PROVE  /\ AdjacentItemID(i, TRUE) = {j \in Rows : Place(Rows, j) = Place(Rows, i) + 1}
           /\ AdjacentItemID(i, FALSE) = {j \in Rows : Place(Rows, j) = Place(Rows, i) - 1}
<1> DEFINE At(j) == Place(Rows, j)
<1>1. Rows \subseteq Item
    BY DEF Rows
<1>2. /\ \A j \in Rows : At(j) \in 0..(Cardinality(Rows) - 1)
      /\ \A j, k \in Rows : Newer(j, k) => At(j) < At(k)
    BY <1>1, PlaceOrders
<1>3. \A j, k \in Rows : At(j) < At(k) <=> Newer(j, k)
    <2> HIDE DEF At
    <2> QED BY <1>1, <1>2, NewerOrders, FiniteLists
<1>4. \A n \in 0..(Cardinality(Rows) - 1) : \E j \in Rows : At(j) = n
    BY <1>1, PlaceTaken
<1>5. \A j, k \in Rows : At(j) = At(k) => j = k
    <2> HIDE DEF At
    <2> QED BY <1>1, <1>2, NewerOrders, FiniteLists
<1>6. \A j, k \in Item : /\ Beyond(j, k, TRUE) <=> Newer(k, j)
                         /\ Beyond(j, k, FALSE) <=> Newer(j, k)
    BY PagingAssumption, FS_CardinalityType DEF Beyond, Newer
<1>7. AdjacentItemID(i, TRUE) =
        {j \in Rows : At(i) < At(j) /\ \A k \in Rows : At(i) < At(k) => k = j \/ At(j) < At(k)}
    BY <1>1, <1>3, <1>6 DEF AdjacentItemID
<1>8. AdjacentItemID(i, FALSE) =
        {j \in Rows : At(j) < At(i) /\ \A k \in Rows : At(k) < At(i) => k = j \/ At(k) < At(j)}
    BY <1>1, <1>3, <1>6 DEF AdjacentItemID
<1> HIDE DEF At
<1>9. AdjacentItemID(i, TRUE) = {j \in Rows : At(j) = At(i) + 1}
    <2>1. ASSUME NEW j \in Rows, At(i) < At(j), \A k \in Rows : At(i) < At(k) => k = j \/ At(j) < At(k)
          PROVE  At(j) = At(i) + 1
        <3>1. PICK k \in Rows : At(k) = At(i) + 1
            BY <1>1, <1>2, <1>4, <2>1, FiniteLists
        <3>2. QED
            BY <1>2, <2>1, <3>1, <1>1, FiniteLists
    <2>2. ASSUME NEW j \in Rows, At(j) = At(i) + 1
          PROVE  At(i) < At(j) /\ \A k \in Rows : At(i) < At(k) => k = j \/ At(j) < At(k)
        BY <1>1, <1>2, <1>5, <2>2, FiniteLists
    <2>3. QED
        BY <1>7, <2>1, <2>2
<1>10. AdjacentItemID(i, FALSE) = {j \in Rows : At(j) = At(i) - 1}
    <2>1. ASSUME NEW j \in Rows, At(j) < At(i), \A k \in Rows : At(k) < At(i) => k = j \/ At(k) < At(j)
          PROVE  At(j) = At(i) - 1
        <3>1. PICK k \in Rows : At(k) = At(i) - 1
            BY <1>1, <1>2, <1>4, <2>1, FiniteLists
        <3>2. QED
            BY <1>2, <2>1, <3>1, <1>1, FiniteLists
    <2>2. ASSUME NEW j \in Rows, At(j) = At(i) - 1
          PROVE  At(j) < At(i) /\ \A k \in Rows : At(k) < At(i) => k = j \/ At(k) < At(j)
        BY <1>1, <1>2, <1>5, <2>2, FiniteLists
    <2>3. QED
        BY <1>8, <2>1, <2>2
<1>11. QED
    BY <1>9, <1>10 DEF At

-----------------------------------------------------------------------------
(* A page of the list                                                      *)

LEMMA OffsetFacts ==
    /\ Offset(1) = 0
    /\ \A p \in Nat \ {0} : Offset(p) \in Nat /\ Offset(p + 1) = Offset(p) + PageSize
    BY PagingAssumption DEF Offset

\* A list has the items of the view, each at its place if it is not a search.
LEMMA ListingIsView ==
    ASSUME PagingTypeOK
    PROVE  /\ Listing \in Seq(Item) /\ Len(Listing) = Cardinality(View)
           /\ query = "items" => \A i \in View : Listing[Place(View, i) + 1] = i
<1>1. View \subseteq Item /\ Cardinality(View) \in Nat /\ pub \in [Item -> Nat]
    BY FiniteLists DEF View, PagingTypeOK
<1>2. CASE query = "items"
    BY <1>1, <1>2, OrderedByPlace DEF Listing
<1>3. CASE query = "search"
    <2>1. Listing \in [1..Cardinality(View) -> View]
        BY <1>3 DEF Listing, PagingTypeOK, SetToSeqs
    <2>2. QED
        BY <1>1, <1>3, <2>1
<1>4. QED
    BY <1>2, <1>3 DEF PagingTypeOK

\* The rows of a page that begins inside of the list follow on what comes
\* before them, and are some unless the list is empty.
LEMMA LimitIsNext ==
    ASSUME PagingTypeOK, NEW page \in Nat \ {0}
    PROVE  LET from == Offset(page)
               n == Cardinality(View)
               upto == Smaller(from + PageSize, n)
           IN  /\ Limit(page) \in Seq(Item)
               /\ Len(Limit(page)) = IF from < upto THEN upto - from ELSE 0
               /\ Len(Limit(page)) <= PageSize
               /\ \A k \in 1..Len(Limit(page)) : Limit(page)[k] = Listing[from + k]
               /\ from <= n => SubSeq(Listing, 1, from) \o Limit(page) = SubSeq(Listing, 1, upto)
<1> DEFINE from == Offset(page)
           n == Cardinality(View)
           upto == Smaller(from + PageSize, n)
<1>1. from \in Nat /\ PageSize \in Nat \ {0} /\ n \in Nat
    BY OffsetFacts, PagingAssumption, FiniteLists DEF View
<1>2. upto \in Nat /\ upto <= n /\ upto <= from + PageSize
    BY <1>1 DEF Smaller
<1>3. Listing \in Seq(Item) /\ Len(Listing) = n
    BY ListingIsView
<1>4. Limit(page) = SubSeq(Listing, from + 1, upto)
    BY DEF Limit
<1> HIDE DEF from, n, upto
<1>5. \A k \in (from + 1)..upto : Listing[k] \in Item
    BY <1>1, <1>2, <1>3
<1>6. /\ SubSeq(Listing, from + 1, upto) \in Seq(Item)
      /\ Len(SubSeq(Listing, from + 1, upto)) =
           IF from + 1 <= upto THEN upto - (from + 1) + 1 ELSE 0
      /\ \A k \in 1..(upto - (from + 1) + 1) :
           SubSeq(Listing, from + 1, upto)[k] = Listing[from + 1 + k - 1]
    <2>1. from + 1 \in Int /\ upto \in Int
        BY <1>1, <1>2
    <2>2. QED
        BY <1>5, <2>1, SubSeqProperties
<1>7. ASSUME from <= n
      PROVE  SubSeq(Listing, 1, from) \o SubSeq(Listing, from + 1, upto) = SubSeq(Listing, 1, upto)
    <2>1. from <= upto
        BY <1>1, <1>7 DEF n, upto, Smaller
    <2>2. 1 \in 1..(Len(Listing) + 1) /\ from \in (1 - 1)..Len(Listing) /\ upto \in from..Len(Listing)
        BY <1>1, <1>2, <1>3, <1>7, <2>1
    <2>3. QED
        BY <1>3, <2>2, ConcatAdjacentSubSeq
<1>8. /\ Limit(page) \in Seq(Item)
      /\ Len(Limit(page)) = IF from < upto THEN upto - from ELSE 0
    BY <1>1, <1>2, <1>4, <1>6
<1>9. Len(Limit(page)) <= PageSize
    BY <1>1, <1>2, <1>8
<1>10. \A k \in 1..Len(Limit(page)) : Limit(page)[k] = Listing[from + k]
    <2> SUFFICES ASSUME NEW k \in 1..Len(Limit(page)) PROVE Limit(page)[k] = Listing[from + k]
        OBVIOUS
    <2>1. k \in 1..(upto - (from + 1) + 1) /\ from + 1 + k - 1 = from + k
        BY <1>1, <1>2, <1>8
    <2>2. QED
        BY <1>4, <1>6, <2>1
<1>11. QED
    BY <1>4, <1>7, <1>8, <1>9, <1>10 DEF from, n, upto

\* The bound on what a reader notes is never met by one who reads a page after
\* the other.
LEMMA AllNoted ==
    ASSUME NEW got \in Seq(Item)
    PROVE  /\ Noted(got) \in Seq(Item)
           /\ Noted(got) = <<>> => got = <<>>
           /\ Len(got) <= Cardinality(Item) + PageSize => Noted(got) = got
<1> DEFINE bound == Cardinality(Item) + PageSize
           m == Smaller(Len(got), bound)
<1>1. bound \in Nat \ {0}
    BY PagingAssumption, FiniteLists
<1>2. m \in 0..Len(got) /\ (Len(got) # 0 => m # 0)
    <2> HIDE DEF bound
    <2> QED BY <1>1 DEF Smaller
<1>3. \A k \in 1..m : got[k] \in Item
    BY <1>2
<1>4. SubSeq(got, 1, m) \in Seq(Item) /\ Len(SubSeq(got, 1, m)) = IF 1 <= m THEN m - 1 + 1 ELSE 0
    <2>1. 1 \in Int /\ m \in Int
        BY <1>2
    <2> HIDE DEF m
    <2>2. QED
        BY <1>3, <2>1, SubSeqProperties
<1>5. Len(got) <= bound => m = Len(got)
    BY <1>1 DEF Smaller
<1>6. SubSeq(got, 1, Len(got)) = got
    BY SubSeqFull
<1>7. Noted(got) = SubSeq(got, 1, m)
    BY DEF Noted
<1> HIDE DEF m
<1>8. Noted(got) = <<>> => got = <<>>
    BY <1>2, <1>4, <1>7
<1>9. QED
    BY <1>4, <1>5, <1>6, <1>7, <1>8

-----------------------------------------------------------------------------
(* Types                                                                   *)

LEMMA PagingInitInv == Init => PagingInv
<1> SUFFICES ASSUME Init PROVE PagingInv
    OBVIOUS
<1>1. /\ walk.step = "idle" /\ walk \in WalkState
      /\ walk.got = <<>>
    BY DEF Init, Idle, WalkState, Step
<1>2. PagingTypeOK
    <2>1. pub \in [Item -> Nat] /\ row \in [Item -> {"new", "in", "out", "gone"}]
        <3>1. Times \subseteq Nat
            BY PagingAssumption DEF Times
        <3>2. PICK n \in 0..Cardinality(Item), p \in [Item -> Times] :
                /\ row = [i \in Item |-> IF i <= n THEN "in" ELSE "new"]
                /\ pub = [i \in Item |-> IF i <= n THEN p[i] ELSE 0]
            BY DEF Init
        <3>3. \A i \in Item : p[i] \in Nat
            BY <3>1
        <3>4. QED
            BY <3>2, <3>3
    <2>2. QED
        BY <1>1, <2>1, PagingAssumption DEF Init, PagingTypeOK
<1>3. during = {}
    BY DEF Init
<1>4. QED
    BY <1>1, <1>2, <1>3 DEF PagingInv, PageExists, CountHolds, ShrunkLeft, NextExists,
                      NothingSkipped, SameOrder, NeverAnEmptyPage, WalkSeesAll, Going

\* A reader's step leaves the list as it is.
LEMMA SameTables ==
    ASSUME UNCHANGED <<query, tables>>
    PROVE  /\ View' = View /\ Listing' = Listing
           /\ \A i \in Item : Place(View, i)' = Place(View, i)
    BY DEF tables, View, Listing, Ordered, Place, Newer

\* What each step of the reader makes of the walk, field by field.
LEMMA WalkFields ==
    ASSUME walk \in WalkState
    PROVE  /\ Start => \E n \in {0, MaxPage} :
                walk' = [step |-> "count", first |-> n, page |-> n, total |-> 0, shown |-> 0,
                         got |-> <<>>]
           /\ Count =>
                walk' = [step |-> "rows", first |-> walk.first,
                         page |-> Paged(Cardinality(View), walk.page).page,
                         total |-> Cardinality(View), shown |-> walk.shown, got |-> walk.got]
           /\ ReadRows =>
                walk' = [step |-> "answered", first |-> walk.first, page |-> walk.page,
                         total |-> walk.total, shown |-> Len(Limit(walk.page)),
                         got |-> Noted(walk.got \o Limit(walk.page))]
           /\ Follow =>
                walk' = [step |-> "count", first |-> walk.first, page |-> walk.page + 1,
                         total |-> walk.total, shown |-> 0, got |-> walk.got]
           /\ End =>
                walk' = [step |-> "done", first |-> walk.first, page |-> walk.page,
                         total |-> walk.total, shown |-> walk.shown, got |-> walk.got]
           /\ GiveUp =>
                walk' = [step |-> "failed", first |-> 0, page |-> 0, total |-> 0, shown |-> 0,
                         got |-> <<>>]
<1>1. Start => \E n \in {0, MaxPage} :
                 walk' = [step |-> "count", first |-> n, page |-> n, total |-> 0, shown |-> 0,
                         got |-> <<>>]
    BY DEF Start, Idle
<1>2. Count => walk' = [step |-> "rows", first |-> walk.first,
                        page |-> Paged(Cardinality(View), walk.page).page,
                        total |-> Cardinality(View), shown |-> walk.shown, got |-> walk.got]
    BY DEF Count, WalkState
<1>3. ReadRows => walk' = [step |-> "answered", first |-> walk.first, page |-> walk.page,
                           total |-> walk.total, shown |-> Len(Limit(walk.page)),
                         got |-> Noted(walk.got \o Limit(walk.page))]
    BY DEF ReadRows, WalkState
<1>4. Follow => walk' = [step |-> "count", first |-> walk.first, page |-> walk.page + 1,
                         total |-> walk.total, shown |-> 0, got |-> walk.got]
    BY DEF Follow, WalkState
<1>5. End => walk' = [step |-> "done", first |-> walk.first, page |-> walk.page,
                      total |-> walk.total, shown |-> walk.shown, got |-> walk.got]
    BY DEF End, WalkState
<1>6. GiveUp => walk' = [step |-> "failed", first |-> 0, page |-> 0, total |-> 0, shown |-> 0,
                         got |-> <<>>]
    BY DEF GiveUp, Idle
<1>7. QED
    BY <1>1, <1>2, <1>3, <1>4, <1>5, <1>6

\* What a reader's step makes of the walk is a walk again.
LEMMA WalkStep ==
    ASSUME walk \in WalkState, Cardinality(View) \in Nat,
           ReadRows => Limit(walk.page) \in Seq(Item), Reader
    PROVE  walk' \in WalkState
<1>1. /\ walk.first \in Nat /\ walk.page \in Nat /\ walk.total \in Nat /\ walk.shown \in Nat
      /\ walk.got \in Seq(Item)
    BY DEF WalkState
<1>2. Paged(Cardinality(View), walk.page).page \in Nat
    BY <1>1, RoutesPageAlike DEF Paged
<1>3. ReadRows => /\ Noted(walk.got \o Limit(walk.page)) \in Seq(Item)
                  /\ Len(Limit(walk.page)) \in Nat
    <2>1. ReadRows => Noted(walk.got \o Limit(walk.page)) \in Seq(Item)
        BY <1>1, AllNoted, ConcatProperties
    <2>2. ReadRows => Len(Limit(walk.page)) \in Nat
        BY LenProperties
    <2> QED BY <2>1, <2>2
<1>4. <<>> \in Seq(Item) /\ MaxPage \in Nat
    BY PagingAssumption
<1>5. /\ {"count", "rows", "answered", "done", "failed"} \subseteq Step
      /\ \A t \in Step, m, n, p, q \in Nat, got \in Seq(Item) :
           [step |-> t, first |-> m, page |-> n, total |-> p, shown |-> q, got |-> got]
             \in WalkState
    BY DEF Step, WalkState
<1>6. CASE Start
    <2>1. PICK n \in {0, MaxPage} :
            walk' = [step |-> "count", first |-> n, page |-> n, total |-> 0, shown |-> 0,
                         got |-> <<>>]
        BY <1>6, WalkFields
    <2>2. n \in Nat /\ 0 \in Nat /\ "count" \in Step
        BY <1>4, <1>5
    <2>3. QED
        BY <1>4, <1>5, <2>1, <2>2, Zenon
<1>7. CASE Count
    <2>1. walk' = [step |-> "rows", first |-> walk.first,
                   page |-> Paged(Cardinality(View), walk.page).page,
                   total |-> Cardinality(View), shown |-> walk.shown, got |-> walk.got]
        BY <1>7, WalkFields
    <2>2. "rows" \in Step
        BY <1>5
    <2>3. QED
        BY <1>1, <1>2, <1>5, <2>1, <2>2, Zenon
<1>8. CASE ReadRows
    BY <1>1, <1>3, <1>5, <1>8, WalkFields
<1>9. CASE Follow
    <2>1. PICK p \in Nat : p = walk.page + 1
        BY <1>1
    <2>2. walk' = [step |-> "count", first |-> walk.first, page |-> p,
                   total |-> walk.total, shown |-> 0, got |-> walk.got] /\ "count" \in Step
        BY <1>5, <1>9, <2>1, WalkFields
    <2>3. QED
        BY <1>1, <1>5, <2>2, Zenon
<1>10. CASE End
    BY <1>1, <1>5, <1>10, WalkFields
<1>11. CASE GiveUp
    <2>1. walk' = [step |-> "failed", first |-> 0, page |-> 0, total |-> 0, shown |-> 0,
                         got |-> <<>>]
        BY <1>11, WalkFields
    <2>2. 0 \in Nat /\ "failed" \in Step
        BY <1>5
    <2>3. QED
        BY <1>4, <1>5, <2>1, <2>2, Zenon
<1>12. QED
    BY <1>6, <1>7, <1>8, <1>9, <1>10, <1>11 DEF Reader

LEMMA PagingTypeStep == PagingTypeOK /\ PageExists /\ [Next]_vars => PagingTypeOK'
<1> SUFFICES ASSUME PagingTypeOK, PageExists, [Next]_vars PROVE PagingTypeOK'
    OBVIOUS
<1> USE PagingAssumption DEF PagingTypeOK
<1>1. Cardinality(View) \in Nat /\ walk.page \in Nat /\ walk.got \in Seq(Item)
    BY FiniteLists DEF View, WalkState
<1>2. ASSUME UNCHANGED <<route, query, tables>>, walk' \in WalkState,
             stayed' \in {stayed, View, {}}, during' \subseteq during
      PROVE  PagingTypeOK'
    BY <1>2, SameTables DEF tables
<1>3. CASE Reader
    <2>1. ReadRows => Limit(walk.page) \in Seq(Item)
        BY <1>1, LimitIsNext DEF ReadRows, PageExists
    <2>2. walk' \in WalkState
        BY <1>1, <1>3, <2>1, WalkStep
    <2>3. /\ UNCHANGED <<route, query, tables>>
          /\ stayed' \in {stayed, View, {}} /\ during' \subseteq during
        BY <1>3 DEF Reader, Start, Count, ReadRows, Follow, End, GiveUp
    <2>4. QED
        BY <1>2, <2>2, <2>3
<1>4. ASSUME NEW i \in Item, NEW state \in {"in", "out", "gone"}, Becomes(i, state),
             pub' \in [Item -> Nat]
      PROVE  PagingTypeOK'
    <2>1. row' \in [Item -> {"new", "in", "out", "gone"}]
        BY <1>4 DEF Becomes
    <2>2. changes' \in 0..MaxChanges
        BY <1>4 DEF Becomes
    <2>3. (query = "search" => rank \in SetToSeqs(View))'
        BY <1>4 DEF Becomes
    <2>4. stayed' \subseteq View' /\ during' \subseteq {"left", "shrunk", "entered", "torn", "reranked"}
        BY <1>4 DEF Becomes
    <2>5. QED
        BY <1>4, <2>1, <2>2, <2>3, <2>4 DEF Becomes
<1>5. ASSUME NEW i \in Item, Arrives(i) \/ Leaves(i) \/ Returns(i) \/ Deleted(i)
       PROVE  PagingTypeOK'
    <2>1. Times \subseteq Nat
        BY DEF Times
    <2>2. pub' \in [Item -> Nat]
        BY <1>5, <2>1 DEF Arrives, Leaves, Returns, Deleted
    <2>3. QED
        BY <1>4, <1>5, <2>2 DEF Arrives, Leaves, Returns, Deleted
<1>6. CASE UNCHANGED vars
    BY <1>2, <1>6 DEF vars, tables
<1>7. CASE Reranks
    <2>1. View' = View /\ changes' \in 0..MaxChanges
        BY <1>7 DEF Reranks, View
    <2>2. QED
        BY <1>7, <2>1 DEF Reranks
<1>8. QED
    BY <1>3, <1>5, <1>6, <1>7 DEF Next

-----------------------------------------------------------------------------
(* The steps of the reader                                                 *)

LEMMA PagingFacts ==
    ASSUME PagingTypeOK
    PROVE  /\ View \subseteq Item /\ IsFiniteSet(View)
           /\ Cardinality(View) \in Nat /\ Cardinality(View) <= Cardinality(Item)
           /\ Cardinality(Item) \in Nat
           /\ walk.first \in Nat /\ walk.page \in Nat /\ walk.total \in Nat
           /\ walk.got \in Seq(Item) /\ Len(walk.got) \in Nat
           /\ PageSize \in Nat \ {0}
           /\ pub \in [Item -> Nat]
           /\ Frontier \in Nat
<1>1. View \subseteq Item
    BY DEF View
<1>2. walk.page \in Nat /\ walk.got \in Seq(Item)
    BY DEF PagingTypeOK, WalkState
<1>3. PageSize \in Nat \ {0}
    BY PagingAssumption
<1>4. Frontier \in Nat
    <2>1. walk.page >= 1 => Offset(walk.page) \in Nat
        <3>1. walk.page >= 1 => walk.page \in Nat \ {0}
            BY <1>2
        <3>2. QED
            BY <3>1, OffsetFacts
    <2>2. Offset(walk.page + 1) \in Nat
        <3>1. walk.page + 1 \in Nat \ {0}
            BY <1>2
        <3>2. QED
            BY <3>1, OffsetFacts
    <2>3. QED
        BY <1>2, <2>1, <2>2 DEF Frontier
<1>5. QED
    BY <1>1, <1>2, <1>3, <1>4, FiniteLists DEF PagingTypeOK, WalkState

LEMMA StartInv == PagingInv /\ Start => PagingInv'
<1> SUFFICES ASSUME PagingInv, Start PROVE PagingInv'
    OBVIOUS
<1>1. PagingTypeOK /\ PagingTypeOK'
    BY PagingTypeStep DEF PagingInv, Next, Reader
<1>2. PICK n \in {0, MaxPage} :
        walk' = [step |-> "count", first |-> n, page |-> n, total |-> 0, shown |-> 0,
                         got |-> <<>>]
    BY <1>1, WalkFields DEF PagingTypeOK
<1>3. /\ walk'.step = "count" /\ walk'.first = n /\ walk'.page = n /\ walk'.got = <<>>
      /\ n \in Nat
    BY <1>2, PagingAssumption
<1>4. walk'.first = 0 => Frontier' = 0
    BY <1>3 DEF Frontier
<1>5. /\ View' = View /\ stayed' = View
       /\ \A i \in Item : Place(View, i)' = Place(View, i)
    BY SameTables DEF Start
<1>6. \A i \in stayed' : ~(Place(View, i)' < 0)
    <2>1. \A i \in View : i \in Item /\ Place(View, i) \in 0..(Cardinality(View) - 1)
        BY <1>1, PagingFacts, PlaceOrders
    <2>2. QED
        BY <1>1, <1>5, <2>1, PagingFacts
<1>7. SubSeq(Listing', 1, 0) = <<>>
    BY SubSeqEmpty
<1>8. Smaller(0, Cardinality(View')) = 0
    <2>1. Cardinality(View') \in Nat
        BY <1>1, <1>5, PagingFacts
    <2>2. QED
        BY <2>1 DEF Smaller
<1>9. NothingSkipped'
    BY <1>3, <1>4, <1>6 DEF NothingSkipped
<1>10. SameOrder'
    BY <1>3, <1>4, <1>7, <1>8 DEF SameOrder
<1>11. NextExists'
    BY <1>3, <1>4 DEF NextExists
<1>12. QED
    BY <1>1, <1>3, <1>9, <1>10, <1>11
       DEF PagingInv, PageExists, CountHolds, ShrunkLeft, Start, NeverAnEmptyPage, WalkSeesAll

\* The page that the count allows is the page the reader is about to read.
LEMMA CountInv == PagingInv /\ Count => PagingInv'
<1> SUFFICES ASSUME PagingInv, Count PROVE PagingInv'
    OBVIOUS
<1> DEFINE n == Cardinality(View)
           page == Paged(n, walk.page).page
<1>1. PagingTypeOK /\ PagingTypeOK'
    BY PagingTypeStep DEF PagingInv, Next, Reader
<1>2. /\ UNCHANGED <<query, tables, stayed>> /\ walk.step = "count"
      /\ during' = during \ {"shrunk"} /\ Calm' = Calm
      /\ during' = {} <=> during = {}
    BY DEF Count, PagingInv, ShrunkLeft, Calm
<1>3. walk' = [step |-> "rows", first |-> walk.first, page |-> page, total |-> n, shown |-> walk.shown,
               got |-> walk.got]
    BY <1>1, WalkFields DEF PagingTypeOK
<1>4. /\ View' = View /\ Listing' = Listing
      /\ \A i \in Item : Place(View, i)' = Place(View, i)
    BY <1>2, SameTables
<1>5. n \in Nat /\ n <= Cardinality(Item) /\ walk.page \in Nat
    BY <1>1, PagingFacts
<1>6. /\ page \in Nat \ {0}
      /\ IF n = 0 THEN page = 1 ELSE Offset(page) < n
      /\ walk.page >= 1 /\ Offset(walk.page) < n => page = walk.page
      /\ walk.page <= 1 => page = 1
    <2> HIDE DEF n
    <2> QED BY <1>5, RoutesPageAlike DEF Paged
<1> HIDE DEF n, page
<1>7. Frontier' = Offset(page)
    BY <1>3, <1>6 DEF Frontier, Offset
<1>8. walk.first = 0 /\ Calm => Frontier' = Frontier
    <2> SUFFICES ASSUME walk.first = 0, Calm PROVE Frontier' = Frontier
        OBVIOUS
    <2>1. Frontier = 0 \/ Frontier < n
        BY <1>2 DEF PagingInv, NextExists, Going, n
    <2>2. CASE walk.page <= 1
        BY <1>2, <1>5, <1>6, <1>7, <2>2, OffsetFacts DEF Frontier
    <2>3. CASE walk.page > 1
        <3>1. Frontier = Offset(walk.page) /\ Frontier # 0
            BY <1>2, <1>5, <2>3, PagingAssumption DEF Frontier, Offset
        <3>2. QED
            BY <1>5, <1>6, <1>7, <2>1, <2>3, <3>1
    <2>4. QED
        BY <1>5, <2>2, <2>3
<1>9. Going
    BY <1>2 DEF Going
<1>10. NextExists'
    BY <1>2, <1>3, <1>8, <1>9 DEF PagingInv, NextExists
<1>11. NothingSkipped'
    <2>1. stayed \subseteq Item
        BY <1>1 DEF PagingTypeOK, View
    <2>2. QED
        BY <1>2, <1>3, <1>4, <1>8, <1>9, <2>1 DEF PagingInv, NothingSkipped
<1>12. SameOrder'
    BY <1>2, <1>3, <1>4, <1>8, <1>9 DEF PagingInv, SameOrder, Calm
<1>13. PageExists' /\ CountHolds' /\ ShrunkLeft'
    BY <1>2, <1>3, <1>4, <1>5, <1>6 DEF PageExists, CountHolds, ShrunkLeft, n, Offset
<1>14. QED
    BY <1>1, <1>3, <1>10, <1>11, <1>12, <1>13 DEF PagingInv, NeverAnEmptyPage, WalkSeesAll

\* The rows go on where the rows so far end.
LEMMA ReadRowsInv == PagingInv /\ ReadRows => PagingInv'
<1> SUFFICES ASSUME PagingInv, ReadRows PROVE PagingInv'
    OBVIOUS
<1> DEFINE n == Cardinality(View)
           from == Offset(walk.page)
           upto == Smaller(from + PageSize, n)
           rows == Limit(walk.page)
<1>1. PagingTypeOK /\ PagingTypeOK'
    BY PagingTypeStep DEF PagingInv, Next, Reader
<1>2. UNCHANGED <<query, tables, stayed, during>> /\ walk.step = "rows" /\ Going
    BY DEF ReadRows, Going
<1>3. walk' = [step |-> "answered", first |-> walk.first, page |-> walk.page,
               total |-> walk.total, shown |-> Len(rows), got |-> Noted(walk.got \o rows)]
    BY <1>1, <1>2, WalkFields DEF PagingTypeOK
<1>4. /\ View' = View /\ Listing' = Listing
      /\ \A i \in Item : Place(View, i)' = Place(View, i)
    BY <1>2, SameTables
<1>5. /\ n \in Nat /\ n <= Cardinality(Item) /\ Cardinality(Item) \in Nat
      /\ walk.total \in Nat /\ walk.got \in Seq(Item) /\ Len(walk.got) \in Nat
      /\ PageSize \in Nat \ {0}
    BY <1>1, PagingFacts
<1>6. /\ walk.page \in Nat \ {0} /\ walk.total <= Cardinality(Item)
      /\ IF walk.total = 0 THEN walk.page = 1 ELSE from < walk.total
    BY <1>1, <1>2, PagingFacts DEF PagingInv, PageExists
<1>7. from \in Nat /\ (walk.page = 1 => from = 0)
    BY <1>6, OffsetFacts
<1>8. Frontier = from /\ Frontier' = from + PageSize
    BY <1>2, <1>3, <1>6, OffsetFacts DEF Frontier, Offset
<1>9. /\ rows \in Seq(Item) /\ Len(rows) = IF from < upto THEN upto - from ELSE 0
      /\ Len(rows) <= PageSize
      /\ \A k \in 1..Len(rows) : rows[k] = Listing[from + k]
      /\ from <= n => SubSeq(Listing, 1, from) \o rows = SubSeq(Listing, 1, upto)
    BY <1>1, <1>6, LimitIsNext
<1> HIDE DEF n, from, rows
<1>10. /\ walk.got \o rows \in Seq(Item)
       /\ Len(walk.got \o rows) = Len(walk.got) + Len(rows)
       /\ \A k \in 1..Len(walk.got) : (walk.got \o rows)[k] = walk.got[k]
       /\ \A k \in 1..Len(rows) : (walk.got \o rows)[Len(walk.got) + k] = rows[k]
    <2> DEFINE got == walk.got
    <2>1. got \in Seq(Item) /\ rows \in Seq(Item) /\ Len(got) \in Nat /\ Len(rows) \in Nat
        BY <1>5, <1>9
    <2> HIDE DEF got
    <2>2. /\ got \o rows \in Seq(Item) /\ Len(got \o rows) = Len(got) + Len(rows)
          /\ \A k \in 1..(Len(got) + Len(rows)) :
               (got \o rows)[k] = IF k <= Len(got) THEN got[k] ELSE rows[k - Len(got)]
        BY <2>1, ConcatProperties
    <2>3. \A k \in 1..Len(rows) : (got \o rows)[Len(got) + k] = rows[k]
        <3> SUFFICES ASSUME NEW k \in 1..Len(rows) PROVE (got \o rows)[Len(got) + k] = rows[k]
            OBVIOUS
        <3>1. /\ Len(got) + k \in 1..(Len(got) + Len(rows)) /\ ~(Len(got) + k <= Len(got))
              /\ Len(got) + k - Len(got) = k
            BY <2>1
        <3>2. QED
            BY <2>2, <3>1
    <2>4. \A k \in 1..Len(got) : (got \o rows)[k] = got[k]
        BY <2>1, <2>2
    <2>5. QED
        BY <2>2, <2>3, <2>4 DEF got
<1>11. ASSUME walk.first = 0, Calm
       PROVE  /\ walk'.got = walk.got \o rows
              /\ Len(walk.got) <= from /\ Len(walk.got \o rows) <= from + PageSize
    <2>1. Len(walk.got) <= from
        BY <1>2, <1>8, <1>11 DEF PagingInv, NextExists
    <2>2. from <= Cardinality(Item)
        BY <1>5, <1>6, <1>7
    <2>3. Len(rows) \in Nat
        BY <1>9
    <2>4. Len(walk.got \o rows) <= from + PageSize
        BY <1>5, <1>7, <1>9, <1>10, <2>1, <2>3
    <2>5. Len(walk.got \o rows) <= Cardinality(Item) + PageSize
        BY <1>5, <1>7, <1>10, <2>2, <2>3, <2>4
    <2>6. QED
        BY <1>3, <1>10, <2>1, <2>4, <2>5, AllNoted
<1>12. NextExists'
    BY <1>2, <1>3, <1>8, <1>11 DEF NextExists, Calm
<1>13. NothingSkipped'
    <2> SUFFICES ASSUME walk.first = 0, Calm, query = "items"
                 PROVE  /\ \A i \in stayed : Place(View, i) < from + PageSize => i \in Range(walk'.got)
                        /\ walk.total <= from + PageSize => stayed \subseteq Range(walk'.got)
        <3>1. stayed \subseteq Item
            BY <1>1 DEF PagingTypeOK, View
        <3>2. QED
            BY <1>2, <1>3, <1>4, <1>8, <3>1 DEF NothingSkipped, Calm
    <2>1. ASSUME NEW i \in stayed, Place(View, i) < from + PageSize
          PROVE  i \in Range(walk.got \o rows)
        <3>1. i \in View /\ Place(View, i) \in 0..(n - 1) /\ Listing[Place(View, i) + 1] = i
            BY <1>1, PagingFacts, PlaceOrders, ListingIsView DEF PagingTypeOK, n
        <3>2. CASE Place(View, i) < from
            <4>1. i \in Range(walk.got)
                BY <1>2, <1>8, <3>2 DEF PagingInv, NothingSkipped
            <4>2. PICK k \in 1..Len(walk.got) : walk.got[k] = i
                BY <1>5, <4>1 DEF Range
            <4>3. k \in 1..Len(walk.got \o rows) /\ (walk.got \o rows)[k] = i
                BY <1>5, <1>9, <1>10, <4>2
            <4>4. QED
                BY <1>10, <4>3 DEF Range
        <3>3. CASE Place(View, i) >= from
            <4> DEFINE k == Place(View, i) - from + 1
            <4>1. k \in 1..Len(rows)
                BY <1>5, <1>7, <1>9, <2>1, <3>1, <3>3 DEF Smaller
            <4>2. rows[k] = i
                <5>1. from + k = Place(View, i) + 1
                    BY <1>7, <3>1
                <5> HIDE DEF k
                <5>2. QED
                    BY <1>9, <3>1, <4>1, <5>1
            <4> HIDE DEF k
            <4>3. /\ Len(walk.got) + k \in 1..Len(walk.got \o rows)
                  /\ (walk.got \o rows)[Len(walk.got) + k] = i
                BY <1>5, <1>9, <1>10, <4>1, <4>2
            <4>4. QED
                BY <1>10, <4>3 DEF Range
        <3>4. QED
            BY <1>5, <1>7, <3>1, <3>2, <3>3
    <2>2. walk.total = n
        BY <1>2 DEF PagingInv, CountHolds, n
    <2>3. ASSUME walk.total <= from + PageSize, NEW i \in stayed
          PROVE  i \in Range(walk.got \o rows)
        <3>1. Place(View, i) \in 0..(n - 1)
            BY <1>1, PagingFacts, PlaceOrders DEF PagingTypeOK, n
        <3>2. QED
            BY <1>5, <1>7, <2>1, <2>2, <2>3, <3>1
    <2>4. QED
        BY <1>11, <2>1, <2>3
<1>14. SameOrder'
    <2> SUFFICES ASSUME walk.first = 0, during = {}
                 PROVE  walk'.got = SubSeq(Listing, 1, upto)
        BY <1>2, <1>3, <1>4, <1>8 DEF SameOrder, n, upto
    <2>1. Calm /\ walk.total = n
        BY <1>2 DEF PagingInv, CountHolds, Calm, n
    <2>2. from <= n
        BY <1>5, <1>6, <1>7, <2>1
    <2>3. walk.got = SubSeq(Listing, 1, Smaller(from, n)) /\ Smaller(from, n) = from
        BY <1>2, <1>5, <1>7, <1>8, <2>2 DEF PagingInv, SameOrder, n, Smaller
    <2>4. QED
        BY <1>9, <1>11, <2>1, <2>2, <2>3
<1>15. NeverAnEmptyPage'
    <2> SUFFICES ASSUME Len(rows) = 0, walk.total # 0, "shrunk" \notin during PROVE FALSE
        BY <1>2, <1>3 DEF NeverAnEmptyPage
    <2>1. walk.total <= n
        BY <1>2 DEF PagingInv, CountHolds, n
    <2>2. from < upto
        BY <1>5, <1>6, <1>7, <2>1 DEF Smaller
    <2>3. QED
        BY <1>5, <1>7, <1>9, <2>2 DEF Smaller
<1>16. PageExists' /\ CountHolds' /\ ShrunkLeft'
    BY <1>2, <1>3, <1>4 DEF PagingInv, PageExists, CountHolds, ShrunkLeft, Calm, Offset
<1>17. QED
    BY <1>1, <1>3, <1>12, <1>13, <1>14, <1>15, <1>16 DEF PagingInv, WalkSeesAll

\* There is a next page only if the list goes on.
LEMMA FollowInv == PagingInv /\ Follow => PagingInv'
<1> SUFFICES ASSUME PagingInv, Follow PROVE PagingInv'
    OBVIOUS
<1>1. PagingTypeOK /\ PagingTypeOK'
    BY PagingTypeStep DEF PagingInv, Next, Reader
<1>2. UNCHANGED <<query, tables, stayed, during>> /\ walk.step = "answered" /\ Going
    BY DEF Follow, Going
<1>3. walk' = [step |-> "count", first |-> walk.first, page |-> walk.page + 1,
               total |-> walk.total, shown |-> 0, got |-> walk.got]
    BY <1>1, WalkFields DEF PagingTypeOK
<1>4. /\ View' = View /\ Listing' = Listing
      /\ \A i \in Item : Place(View, i)' = Place(View, i)
    BY <1>2, SameTables
<1>5. walk.page \in Nat \ {0} /\ walk.total \in Nat /\ Cardinality(View) \in Nat /\ Frontier \in Nat
    BY <1>1, <1>2, PagingFacts DEF PagingInv, PageExists
<1>6. Frontier = Offset(walk.page + 1) /\ Frontier' = Frontier
    BY <1>2, <1>3, <1>5 DEF Frontier, Offset
<1>7. Frontier < walk.total
    BY <1>5, <1>6, NextLink DEF Follow
<1>8. Calm => Frontier < Cardinality(View)
    BY <1>2, <1>5, <1>7 DEF PagingInv, CountHolds, Calm
<1>9. NextExists'
    BY <1>2, <1>3, <1>4, <1>6, <1>8 DEF PagingInv, NextExists, Calm
<1>10. NothingSkipped'
    <2>1. stayed \subseteq Item
        BY <1>1 DEF PagingTypeOK, View
    <2>2. QED
        BY <1>2, <1>3, <1>4, <1>6, <2>1 DEF PagingInv, NothingSkipped, Calm
<1>11. SameOrder'
    BY <1>2, <1>3, <1>4, <1>6 DEF PagingInv, SameOrder
<1>12. QED
    BY <1>1, <1>2, <1>3, <1>9, <1>10, <1>11
       DEF PagingInv, PageExists, CountHolds, ShrunkLeft, NeverAnEmptyPage, WalkSeesAll

\* There is no next page only if the count was read to its end.
LEMMA EndInv == PagingInv /\ End => PagingInv'
<1> SUFFICES ASSUME PagingInv, End PROVE PagingInv'
    OBVIOUS
<1>1. PagingTypeOK /\ PagingTypeOK'
    BY PagingTypeStep DEF PagingInv, Next, Reader
<1>2. UNCHANGED <<query, tables, stayed, during>> /\ walk.step = "answered" /\ Going
    BY DEF End, Going
<1>3. walk' = [step |-> "done", first |-> walk.first, page |-> walk.page,
               total |-> walk.total, shown |-> walk.shown, got |-> walk.got]
    BY <1>1, WalkFields DEF PagingTypeOK
<1>4. Listing' = Listing
    BY <1>2, SameTables
<1>5. walk.page \in Nat \ {0} /\ walk.total \in Nat /\ Cardinality(View) \in Nat /\ Frontier \in Nat
    BY <1>1, <1>2, PagingFacts DEF PagingInv, PageExists
<1>6. walk.total <= Frontier
    BY <1>2, <1>5, NextLink DEF End, Frontier
<1>7. WalkSeesAll'
    <2> SUFFICES ASSUME walk.first = 0
                 PROVE  /\ query = "items" /\ Calm => stayed \subseteq Range(walk.got)
                        /\ during = {} => walk.got = Listing
        BY <1>2, <1>3, <1>4 DEF WalkSeesAll, Calm
    <2>1. query = "items" /\ Calm => stayed \subseteq Range(walk.got)
        BY <1>2, <1>6 DEF PagingInv, NothingSkipped
    <2>2. ASSUME during = {} PROVE walk.got = Listing
        <3>1. walk.total = Cardinality(View)
            BY <1>2, <2>2 DEF PagingInv, CountHolds
        <3>2. Smaller(Frontier, Cardinality(View)) = Cardinality(View)
            BY <1>5, <1>6, <3>1 DEF Smaller
        <3>3. walk.got = SubSeq(Listing, 1, Cardinality(View))
            BY <1>2, <2>2, <3>2 DEF PagingInv, SameOrder
        <3>4. QED
            BY <1>1, <3>3, ListingIsView, SubSeqFull
    <2>3. QED
        BY <2>1, <2>2
<1>8. QED
    BY <1>1, <1>2, <1>3, <1>7 DEF PagingInv, PageExists, CountHolds, ShrunkLeft, NextExists, NothingSkipped,
                           SameOrder, NeverAnEmptyPage, Going

LEMMA GiveUpInv == PagingInv /\ GiveUp => PagingInv'
<1> SUFFICES ASSUME PagingInv, GiveUp PROVE PagingInv'
    OBVIOUS
<1>1. PagingTypeOK /\ PagingTypeOK'
    BY PagingTypeStep DEF PagingInv, Next, Reader
<1>2. walk'.step = "failed" /\ during' = {}
    BY <1>1, WalkFields DEF PagingTypeOK, GiveUp
<1>3. QED
    BY <1>1, <1>2 DEF PagingInv, PageExists, CountHolds, ShrunkLeft, NextExists, NothingSkipped,
                      SameOrder, NeverAnEmptyPage, WalkSeesAll, Going

-----------------------------------------------------------------------------
(* The list changes                                                        *)

\* An item that enters the list moves no other forward.
LEMMA PlacesGrow ==
    ASSUME PagingTypeOK, PagingTypeOK', View \subseteq View',
           \A j \in View : pub'[j] = pub[j]
    PROVE  /\ Cardinality(View) <= Cardinality(View')
           /\ \A j \in View : Place(View, j) <= Place(View, j)'
<1>1. /\ View \subseteq Item /\ IsFiniteSet(View) /\ pub \in [Item -> Nat]
    BY PagingFacts
<1>2. View' \subseteq Item /\ IsFiniteSet(View')
    <2>1. View' \subseteq Item
        BY DEF View
    <2>2. QED
        BY <2>1, FiniteLists
<1>3. ASSUME NEW j \in View PROVE Place(View, j) <= Place(View, j)'
    <2> DEFINE now == {k \in View : Newer(k, j)}
               then == {k \in View' : Newer(k, j)'}
    <2>1. \A k \in View : Newer(k, j)' <=> Newer(k, j)
        BY <1>1 DEF Newer
    <2>2. now \subseteq then /\ then \subseteq View'
        BY <2>1
    <2>3. IsFiniteSet(then)
        BY <1>2, <2>2, FS_Subset
    <2>4. Place(View, j) = Cardinality(now) /\ Place(View, j)' = Cardinality(then)
        BY DEF Place
    <2> HIDE DEF now, then
    <2>5. QED
        BY <2>2, <2>3, <2>4, FS_Subset
<1>4. QED
    BY <1>2, <1>3, FS_Subset

\* A change is noted in "during"; the reader's page moves only by an item that
\* leaves, or by one that enters after the count.
LEMMA BecomesInv ==
    ASSUME PagingInv, PagingTypeOK', NEW i \in Item, NEW state \in {"in", "out", "gone"},
           Becomes(i, state), state = "in" => row[i] # "in",
           \A j \in Item \ {i} : pub'[j] = pub[j]
    PROVE  PagingInv'
<1>1. PagingTypeOK /\ walk' = walk /\ query' = query /\ Going /\ during \subseteq during'
    BY DEF Becomes, PagingInv
<1>2. stayed' = stayed \cap View' /\ Frontier' = Frontier
    BY <1>1 DEF Becomes, Frontier, Offset
<1>3. during' # {} /\ walk.step # "done"
    BY DEF Becomes, Going
<1>4. "left" \notin during' => state = "in" /\ "left" \notin during
    BY DEF Becomes
<1>5. Calm' => Calm /\ state = "in" /\ walk.step # "rows"
    BY DEF Becomes, Calm
<1>6. ASSUME state = "in"
      PROVE  /\ Cardinality(View) <= Cardinality(View')
             /\ \A j \in View : Place(View, j) <= Place(View, j)'
    <2>1. row' = [row EXCEPT ![i] = "in"] /\ row \in [Item -> {"new", "in", "out", "gone"}]
        BY <1>1, <1>6 DEF Becomes, PagingTypeOK
    <2>2. View \subseteq View' /\ i \notin View
        BY <1>6, <2>1 DEF View
    <2>3. \A j \in View : pub'[j] = pub[j]
        BY <2>2 DEF View
    <2>4. QED
        BY <1>1, <2>2, <2>3, PlacesGrow
<1>7. /\ Cardinality(View) \in Nat /\ Frontier \in Nat /\ walk.total \in Nat
      /\ View \subseteq Item /\ pub \in [Item -> Nat]
    BY <1>1, PagingFacts
<1>8. Cardinality(View') \in Nat /\ View' \subseteq Item
    <2>1. View' \subseteq Item
        BY DEF View
    <2>2. QED
        BY <2>1, FiniteLists
<1>9. CountHolds'
    <2>1. walk.step = "rows" /\ "shrunk" \notin during' => state = "in" /\ "shrunk" \notin during
        BY DEF Becomes
    <2>2. QED
        BY <1>1, <1>3, <1>4, <1>5, <1>6, <1>7, <1>8, <2>1 DEF PagingInv, CountHolds, Calm
<1>10. NextExists'
    BY <1>1, <1>2, <1>5, <1>6, <1>7, <1>8 DEF PagingInv, NextExists
<1>11. NothingSkipped'
    <2> SUFFICES ASSUME walk.first = 0, Calm, Calm', query = "items"
                 PROVE  /\ \A j \in stayed' : Place(View, j)' < Frontier => j \in Range(walk.got)
                        /\ walk.step = "answered" /\ walk.total <= Frontier
                             => stayed' \subseteq Range(walk.got)
        BY <1>1, <1>2, <1>5 DEF NothingSkipped
    <2>1. stayed' \subseteq stayed /\ stayed \subseteq View
        BY <1>1, <1>2 DEF PagingTypeOK
    <2>2. ASSUME NEW j \in stayed', Place(View, j)' < Frontier PROVE j \in Range(walk.got)
        <3>1. Place(View, j) <= Place(View, j)'
            BY <1>5, <1>6, <2>1
        <3>2. Place(View, j) \in Int /\ Place(View, j)' \in Int
            <4>1. Place(View, j) \in Nat
                BY <1>7, <2>1, PlaceOrders
            <4>2. {k \in View' : Newer(k, j)'} \subseteq Item
                BY <1>8
            <4>3. Place(View, j)' \in Nat
                BY <4>2, FiniteLists DEF Place
            <4>4. QED
                BY <4>1, <4>3
        <3>3. Place(View, j) < Frontier
            BY <1>7, <2>2, <3>1, <3>2
        <3>4. QED
            BY <1>1, <2>1, <3>3 DEF PagingInv, NothingSkipped
    <2>3. walk.step = "answered" /\ walk.total <= Frontier => stayed' \subseteq Range(walk.got)
        BY <1>1, <2>1 DEF PagingInv, NothingSkipped
    <2>4. QED
        BY <2>2, <2>3
<1>12. ShrunkLeft'
    BY DEF Becomes, PagingInv, ShrunkLeft
<1>13. QED
    BY <1>1, <1>3, <1>4, <1>9, <1>10, <1>11, <1>12
       DEF PagingInv, PageExists, SameOrder, NeverAnEmptyPage, WalkSeesAll, Offset

LEMMA TablesInv ==
    ASSUME PagingInv, NEW i \in Item, Arrives(i) \/ Leaves(i) \/ Returns(i) \/ Deleted(i)
    PROVE  PagingInv'
<1>1. PagingTypeOK /\ PagingTypeOK'
    BY PagingTypeStep DEF PagingInv, Next
<1>2. \A j \in Item \ {i} : pub'[j] = pub[j]
    BY <1>1 DEF Arrives, Leaves, Returns, Deleted, PagingTypeOK
<1>3. CASE Arrives(i)
    BY <1>1, <1>2, <1>3, BecomesInv DEF Arrives
<1>4. CASE Leaves(i)
    BY <1>1, <1>2, <1>4, BecomesInv DEF Leaves
<1>5. CASE Returns(i)
    BY <1>1, <1>2, <1>5, BecomesInv DEF Returns
<1>6. CASE Deleted(i)
    BY <1>1, <1>2, <1>6, BecomesInv DEF Deleted
<1>7. QED
    BY <1>3, <1>4, <1>5, <1>6

\* Another order of a search is noted in "during" too, and moves no item of a list.
LEMMA ReranksInv == PagingInv /\ Reranks => PagingInv'
<1> SUFFICES ASSUME PagingInv, Reranks PROVE PagingInv'
    OBVIOUS
<1>1. PagingTypeOK /\ PagingTypeOK'
    BY PagingTypeStep DEF PagingInv, Next
<1>2. /\ UNCHANGED <<query, pub, row, walk, stayed>> /\ query = "search" /\ Going
      /\ during' = during \cup {"reranked"}
    BY DEF Reranks
<1>3. View' = View /\ Frontier' = Frontier /\ Going' = Going /\ Calm' = Calm
    BY <1>2 DEF View, Frontier, Offset, Going, Calm
<1>4. during' # {} /\ walk.step # "done"
    BY <1>2 DEF Going
<1>5. PageExists' /\ CountHolds' /\ ShrunkLeft' /\ NextExists' /\ NeverAnEmptyPage'
    BY <1>2, <1>3, <1>4
       DEF PagingInv, PageExists, CountHolds, ShrunkLeft, NextExists, NeverAnEmptyPage, Offset
<1>6. NothingSkipped' /\ SameOrder' /\ WalkSeesAll'
    BY <1>2, <1>4 DEF NothingSkipped, SameOrder, WalkSeesAll
<1>7. QED
    BY <1>1, <1>5, <1>6 DEF PagingInv

LEMMA PagingStutterInv == PagingInv /\ UNCHANGED vars => PagingInv'
<1> SUFFICES ASSUME PagingInv, UNCHANGED vars PROVE PagingInv'
    OBVIOUS
<1>1. PagingTypeOK /\ PagingTypeOK'
    BY PagingTypeStep DEF PagingInv
<1>2. UNCHANGED <<query, tables, walk, stayed, during>>
    BY DEF vars
<1>3. /\ View' = View /\ Listing' = Listing
      /\ \A i \in Item : Place(View, i)' = Place(View, i)
    BY <1>2, SameTables
<1>4. Frontier' = Frontier /\ Going' = Going /\ Calm' = Calm
    BY <1>2 DEF Frontier, Offset, Going, Calm
<1>5. PageExists' /\ CountHolds' /\ ShrunkLeft' /\ NextExists' /\ SameOrder'
    BY <1>2, <1>3, <1>4 DEF PagingInv, PageExists, CountHolds, ShrunkLeft, NextExists,
                           SameOrder, Offset
<1>6. NothingSkipped'
    <2>1. stayed \subseteq Item
        BY <1>1 DEF PagingTypeOK, View
    <2>2. QED
        BY <1>2, <1>3, <1>4, <2>1 DEF PagingInv, NothingSkipped
<1>7. NeverAnEmptyPage' /\ WalkSeesAll'
    BY <1>2, <1>3 DEF PagingInv, NeverAnEmptyPage, WalkSeesAll
<1>8. QED
    BY <1>1, <1>5, <1>6, <1>7 DEF PagingInv

-----------------------------------------------------------------------------
(* The parser of snippets ends, and its turns                              *)

\* A sequence is its front and its last element.
LEMMA FrontAndLast ==
    ASSUME NEW S, NEW s \in Seq(S), Len(s) > 0
    PROVE  /\ SubSeq(s, 1, Len(s) - 1) \in Seq(S)
           /\ Len(SubSeq(s, 1, Len(s) - 1)) = Len(s) - 1
           /\ s[Len(s)] \in S
           /\ s = Append(SubSeq(s, 1, Len(s) - 1), s[Len(s)])
           /\ \A y \in S : [s EXCEPT ![Len(s)] = y] = Append(SubSeq(s, 1, Len(s) - 1), y)
<1> DEFINE f == SubSeq(s, 1, Len(s) - 1)
<1>1. /\ f \in Seq(S) /\ Len(f) = Len(s) - 1 /\ s[Len(s)] \in S
      /\ \A i \in 1..(Len(s) - 1) : f[i] = s[i]
    <2>1. Len(s) \in Nat /\ Len(s) \in 1..Len(s)
        OBVIOUS
    <2>2. s[Len(s)] \in S
        BY <2>1, ElementOfSeq
    <2>3. f \in Seq(S) /\ Len(f) = Len(s) - 1
        <3> DEFINE m == Len(s) - 1
        <3>1. m \in Int /\ 1 \in Int /\ \A i \in 1..m : s[i] \in S
            BY <2>1
        <3> HIDE DEF m
        <3>2. SubSeq(s, 1, m) \in Seq(S) /\ Len(SubSeq(s, 1, m)) = IF 1 <= m THEN m - 1 + 1 ELSE 0
            BY <3>1, SubSeqProperties
        <3>3. m >= 0
            BY <2>1 DEF m
        <3>4. Len(SubSeq(s, 1, m)) = m
            BY <3>1, <3>2, <3>3
        <3> QED BY <3>2, <3>4 DEF m
    <2>4. \A i \in 1..(Len(s) - 1) : f[i] = s[i]
        BY <2>1
    <2> QED BY <2>2, <2>3, <2>4
<1>2. ASSUME NEW y \in S PROVE [s EXCEPT ![Len(s)] = y] = Append(f, y)
    <2> DEFINE e == [s EXCEPT ![Len(s)] = y]
               g == Append(f, y)
    <2>1. e \in Seq(S) /\ Len(e) = Len(s) /\ \A i \in 1..Len(s) : e[i] = IF i = Len(s) THEN y ELSE s[i]
        BY ExceptSeq
    <2> HIDE DEF f
    <2>2. g \in Seq(S) /\ Len(g) = Len(s) /\ \A i \in 1..Len(s) : g[i] = IF i = Len(s) THEN y ELSE f[i]
        BY <1>1
    <2> HIDE DEF e, g
    <2>3. \A i \in 1..Len(s) : e[i] = g[i]
        BY <2>1, <2>2, <1>1
    <2>4. e = g
        BY <2>1, <2>2, <2>3, SeqEqual
    <2> QED BY <2>4 DEF e, g
<1>3. s = Append(f, s[Len(s)])
    <2>1. [s EXCEPT ![Len(s)] = s[Len(s)]] = s
        OBVIOUS
    <2> HIDE DEF f
    <2> QED BY <2>1, <1>1, <1>2
<1> QED BY <1>1, <1>2, <1>3

\* strings.Index: zero where there is none, else the first.
LEMMA IndexIs ==
    ASSUME NEW s \in Seq(Token), NEW t
    PROVE  /\ Index(s, t) \in 0..Len(s)
           /\ Index(s, t) = 0 => \A i \in 1..Len(s) : s[i] # t
           /\ Index(s, t) # 0 => /\ s[Index(s, t)] = t
                                 /\ \A i \in 1..(Index(s, t) - 1) : s[i] # t
<1> DEFINE I == {i \in 1..Len(s) : s[i] = t}
<1>1. Index(s, t) = IF I # {} THEN Min(I) ELSE 0
    BY DEF Index, SelectInSeq
<1>2. CASE I = {}
    BY <1>1, <1>2
<1>3. CASE I # {}
    <2>1. \E x \in I : \A y \in I : x <= y
        <3>1. I \subseteq Nat
            OBVIOUS
        <3> HIDE DEF I
        <3> QED BY <1>3, <3>1, LeastNumber
    <2>2. Min(I) \in I /\ \A y \in I : Min(I) <= y
        <3> HIDE DEF I
        <3> QED BY <2>1 DEF Min
    <2>3. Index(s, t) \in I /\ \A y \in I : Index(s, t) <= y
        <3> HIDE DEF I
        <3> QED BY <2>2, <1>1, <1>3
    <2>4. Index(s, t) \in 1..Len(s) /\ s[Index(s, t)] = t
        BY <2>3
    <2>5. \A i \in 1..(Index(s, t) - 1) : s[i] # t
        BY <2>3, <2>4
    <2> QED BY <2>4, <2>5
<1> QED BY <1>2, <1>3

\* What is shown: a token with its kind.
Shows == Token \X BOOLEAN

\* Tags of a text: of its parts, and of nothing.
LEMMA TaggedIs ==
    ASSUME NEW a \in Seq(Token), NEW b \in Seq(Token), NEW h \in BOOLEAN
    PROVE  /\ Tagged(a, h) \in Seq(Shows)
           /\ Tagged(<<>>, h) = <<>>
           /\ Tagged(a \o b, h) = Tagged(a, h) \o Tagged(b, h)
<1>1. Tagged(a, h) \in Seq(Shows)
    BY DEF Tagged, Shows
<1>2. Tagged(<<>>, h) = <<>>
    BY DEF Tagged
<1>3. Tagged(a \o b, h) = Tagged(a, h) \o Tagged(b, h)
    <2> DEFINE x == Tagged(a, h)
               y == Tagged(b, h)
               z == Tagged(a \o b, h)
    <2>1. /\ x \in Seq(Shows) /\ Len(x) = Len(a) /\ \A i \in 1..Len(a) : x[i] = <<a[i], h>>
          /\ y \in Seq(Shows) /\ Len(y) = Len(b) /\ \A i \in 1..Len(b) : y[i] = <<b[i], h>>
        BY DEF Tagged, Shows
    <2>2. /\ a \o b \in Seq(Token) /\ Len(a \o b) = Len(a) + Len(b)
          /\ Len(a) \in Nat /\ Len(b) \in Nat
        OBVIOUS
    <2>3. /\ z \in Seq(Shows) /\ Len(z) = Len(a) + Len(b)
          /\ \A i \in 1..(Len(a) + Len(b)) : z[i] = <<(a \o b)[i], h>>
        BY <2>2 DEF Tagged, Shows
    <2> HIDE DEF x, y, z
    <2>4. x \o y \in Seq(Shows) /\ Len(x \o y) = Len(a) + Len(b)
        <3>1. x \in Seq(Shows) /\ y \in Seq(Shows) /\ Len(x) = Len(a) /\ Len(y) = Len(b)
            BY <2>1
        <3>2. x \o y \in Seq(Shows) /\ Len(x \o y) = Len(x) + Len(y)
            BY ONLY <3>1, ConcatProperties
        <3> QED BY <3>1, <3>2
    <2>5. \A i \in 1..(Len(a) + Len(b)) : z[i] = (x \o y)[i]
        <3> TAKE i \in 1..(Len(a) + Len(b))
        <3>1. CASE i <= Len(a)
            <4>1. i \in 1..Len(a)
                BY <3>1
            <4>2. (a \o b)[i] = a[i] /\ (x \o y)[i] = x[i]
                BY <4>1, <2>1
            <4> QED BY <4>1, <4>2, <2>1, <2>3
        <3>2. CASE i > Len(a)
            <4>1. i - Len(a) \in 1..Len(b)
                BY <3>2, <2>2
            <4>0. ~(i <= Len(a))
                BY <3>2, <2>2
            <4>2. (a \o b)[i] = b[i - Len(a)] /\ (x \o y)[i] = y[i - Len(a)]
                BY <4>0, <2>1, <2>2, ConcatProperties
            <4>3. y[i - Len(a)] = <<b[i - Len(a)], h>>
                BY <4>1, <2>1
            <4>4. z[i] = <<(a \o b)[i], h>>
                BY <2>3
            <4> QED BY <4>2, <4>3, <4>4, Zenon
        <3>3. i <= Len(a) \/ i > Len(a)
            BY <2>2
        <3> QED BY <3>1, <3>2, <3>3, Zenon
    <2>6. z = x \o y
        BY <2>3, <2>4, <2>5, SeqEqual
    <2> QED BY <2>6 DEF x, y, z
<1> QED BY <1>1, <1>2, <1>3

\* A segment more adds its tokens at the end.
LEMMA FlatAppend ==
    ASSUME NEW segs \in Seq(Segment), NEW g \in Segment
    PROVE  /\ Flat(segs) \in Seq(Shows)
           /\ Flat(Append(segs, g)) = Flat(segs) \o Tagged(g.text, g.highlight)
<1> DEFINE C(u) == [n \in 1..Len(u) |-> Tagged(u[n].text, u[n].highlight)]
<1>1. \A u \in Seq(Segment) : C(u) \in Seq(Seq(Shows))
    <2> TAKE u \in Seq(Segment)
    <2>1. \A n \in 1..Len(u) : u[n].text \in Seq(Token) /\ u[n].highlight \in BOOLEAN
        <3>1. \A n \in 1..Len(u) : u[n] \in Segment
            OBVIOUS
        <3> QED BY <3>1 DEF Segment
    <2>2. \A n \in 1..Len(u) : Tagged(u[n].text, u[n].highlight) \in Seq(Shows)
        BY <2>1, TaggedIs
    <2> QED BY <2>2
<1>2. g.text \in Seq(Token) /\ g.highlight \in BOOLEAN
    BY DEF Segment
<1>3. Tagged(g.text, g.highlight) \in Seq(Shows)
    BY <1>2, TaggedIs
<1>4. C(Append(segs, g)) = Append(C(segs), Tagged(g.text, g.highlight))
    OBVIOUS
<1>5. \A u \in Seq(Segment) : Flat(u) = FlattenSeq(C(u))
    BY DEF Flat
<1>6. C(segs) \in Seq(Seq(Shows)) /\ Append(segs, g) \in Seq(Segment)
    BY <1>1
<1> HIDE DEF C
<1>7. FlattenSeq(Append(C(segs), Tagged(g.text, g.highlight)))
        = FlattenSeq(C(segs)) \o Tagged(g.text, g.highlight)
    BY <1>3, <1>6, FlattenAppend
<1>8. FlattenSeq(C(segs)) \in Seq(Shows)
    BY <1>6, FlattenType
<1>9. Flat(segs) = FlattenSeq(C(segs)) /\ Flat(Append(segs, g)) = FlattenSeq(C(Append(segs, g)))
    BY <1>5, <1>6
<1> QED BY <1>4, <1>7, <1>8, <1>9, Zenon

\* No segment is empty, and no two could be one.
Apart(segs) ==
  /\ \A n \in 1..Len(segs) : segs[n].text # <<>>
  /\ \A n \in 2..Len(segs) : segs[n].highlight # segs[n - 1].highlight

\* appendSegment adds the text, whether it merges, skips or appends.
LEMMA AppendSegmentIs ==
    ASSUME NEW segs \in Seq(Segment), NEW text \in Seq(Token), NEW h \in BOOLEAN
    PROVE  /\ AppendSegment(segs, text, h) \in Seq(Segment)
           /\ Flat(AppendSegment(segs, text, h)) = Flat(segs) \o Tagged(text, h)
           /\ Apart(segs) => Apart(AppendSegment(segs, text, h))
<1> DEFINE n == Len(segs)
           new == [text |-> text, highlight |-> h]
<1>0. new \in Segment /\ n \in Nat /\ Flat(segs) \in Seq(Shows)
    <2>1. new \in Segment
        BY DEF Segment
    <2>2. Flat(segs) \in Seq(Shows)
        BY <2>1, FlatAppend
    <2> QED BY <2>1, <2>2
<1>1. CASE text = <<>>
    <2>1. AppendSegment(segs, text, h) = segs
        BY <1>1 DEF AppendSegment
    <2>2. Tagged(text, h) = <<>>
        BY <1>1, TaggedIs
    <2>3. Flat(segs) \o <<>> = Flat(segs)
        BY <1>0, ConcatEmptySeq
    <2> QED BY <2>1, <2>2, <2>3, Zenon
<1>2. CASE text # <<>> /\ n > 0 /\ segs[n].highlight = h
    <2> DEFINE front == SubSeq(segs, 1, n - 1)
               last == segs[n]
               more == [text |-> last.text \o text, highlight |-> h]
    <2>1. /\ front \in Seq(Segment) /\ last \in Segment /\ segs = Append(front, last)
          /\ Len(front) = n - 1
        BY <1>2, FrontAndLast
    <2>2. /\ last = [text |-> last.text, highlight |-> h]
          /\ last.text \in Seq(Token)
        <3> HIDE DEF front
        <3> QED BY <2>1, <1>2 DEF Segment
    <2>3. more \in Segment /\ more.text = last.text \o text /\ more.highlight = h
        BY <2>2 DEF Segment
    <2>4. AppendSegment(segs, text, h) = [segs EXCEPT ![n].text = @ \o text]
        BY <1>2 DEF AppendSegment
    <2>5. [segs EXCEPT ![n].text = @ \o text] = Append(front, more)
        <3>1. [last EXCEPT !.text = @ \o text] = more
            <4> DEFINE a == last.text
            <4>1. last = [text |-> a, highlight |-> h]
                BY <2>2
            <4> DEFINE b == a \o text
            <4>2. [last EXCEPT !.text = @ \o text] = [last EXCEPT !.text = b]
                OBVIOUS
            <4> HIDE DEF a, b, last
            <4>3. [last EXCEPT !.text = b] = [text |-> b, highlight |-> h]
                BY <4>1
            <4> QED BY <4>2, <4>3 DEF a, b
        <3>2. [segs EXCEPT ![n].text = @ \o text] = [segs EXCEPT ![n] = [last EXCEPT !.text = @ \o text]]
            OBVIOUS
        <3>3. [segs EXCEPT ![n] = more] = Append(front, more)
            <4> HIDE DEF more
            <4> QED BY <1>2, <2>3, FrontAndLast
        <3> HIDE DEF more, front
        <3> QED BY <3>1, <3>2, <3>3
    <2>6. AppendSegment(segs, text, h) = Append(front, more)
        BY <2>4, <2>5
    <2> HIDE DEF front, more, last
    <2>7. Flat(Append(front, more)) = Flat(front) \o Tagged(last.text \o text, h)
        BY <2>1, <2>3, FlatAppend
    <2>8. Flat(segs) = Flat(front) \o Tagged(last.text, h)
        <3>1. last.highlight = h
            BY <2>2
        <3> QED BY <2>1, <3>1, FlatAppend
    <2>9. Tagged(last.text \o text, h) = Tagged(last.text, h) \o Tagged(text, h)
        BY <2>2, TaggedIs
    <2>10. Flat(Append(front, more)) = Flat(segs) \o Tagged(text, h)
        <3>1. /\ Flat(front) \in Seq(Shows) /\ Tagged(last.text, h) \in Seq(Shows)
              /\ Tagged(text, h) \in Seq(Shows)
            BY <2>1, <2>2, FlatAppend, TaggedIs
        <3> DEFINE p == Flat(front)
                   q == Tagged(last.text, h)
                   r == Tagged(text, h)
        <3>2. p \in Seq(Shows) /\ q \in Seq(Shows) /\ r \in Seq(Shows)
            BY <3>1
        <3>3. p \o (q \o r) = (p \o q) \o r
            <4> HIDE DEF p, q, r
            <4> QED BY <3>2, ConcatAssociative
        <3> QED BY <2>7, <2>8, <2>9, <3>3, Zenon
    <2>11. Apart(segs) => Apart(Append(front, more))
        <3> SUFFICES ASSUME Apart(segs) PROVE Apart(Append(front, more))
            OBVIOUS
        <3> DEFINE res == Append(front, more)
        <3>1. /\ Len(res) = n /\ res[n] = more
              /\ \A i \in 1..(n - 1) : res[i] = segs[i]
            BY <2>1, <2>3
        <3>2. more.text # <<>>
            BY <2>2, <2>3, <1>2
        <3>3. segs[n].highlight = more.highlight
            BY <1>2, <2>3
        <3> HIDE DEF res
        <3>4. \A i \in 1..Len(res) : res[i].text # <<>>
            <4> TAKE i \in 1..Len(res)
            <4>1. i = n \/ i \in 1..(n - 1)
                BY <3>1, <1>0
            <4>2. segs[i].text # <<>>
                BY <3>1 DEF Apart
            <4> QED BY <3>1, <3>2, <4>1, <4>2
        <3>5. \A i \in 2..Len(res) : res[i].highlight # res[i - 1].highlight
            <4> TAKE i \in 2..Len(res)
            <4>1. segs[i].highlight # segs[i - 1].highlight
                BY <3>1 DEF Apart
            <4>2. res[i - 1] = segs[i - 1]
                BY <3>1, <1>0
            <4>3. res[i].highlight = segs[i].highlight
                BY <3>1, <3>3, <1>0
            <4> QED BY <4>1, <4>2, <4>3
        <3>6. Apart(res)
            BY <3>4, <3>5 DEF Apart
        <3> QED BY <3>6 DEF res
    <2>12. Append(front, more) \in Seq(Segment)
        BY <2>1, <2>3
    <2> QED BY <2>6, <2>10, <2>11, <2>12, Zenon
<1>3. CASE text # <<>> /\ ~(n > 0 /\ segs[n].highlight = h)
    <2>1. AppendSegment(segs, text, h) = Append(segs, new)
        BY <1>3 DEF AppendSegment
    <2>2. Flat(Append(segs, new)) = Flat(segs) \o Tagged(text, h)
        <3>1. new.text = text /\ new.highlight = h
            OBVIOUS
        <3> HIDE DEF new
        <3> QED BY <1>0, <3>1, FlatAppend
    <2>3. Apart(segs) => Apart(Append(segs, new))
        BY <1>3, <1>0 DEF Apart
    <2>4. Append(segs, new) \in Seq(Segment)
        BY <1>0
    <2> QED BY <2>1, <2>2, <2>3, <2>4, Zenon
<1> QED BY <1>1, <1>2, <1>3

\* One turn of Parse, with f for the turns that follow.
Turn(f, s) ==
    LET open == Index(s, Open)
        rest == From(s, open + 1)
        close == Index(rest, Close)
    IN  [out \in Seq(Segment) |->
          LET before == AppendSegment(out, SubSeq(s, 1, open - 1), FALSE)
          IN  IF open = 0 THEN AppendSegment(out, s, FALSE)
              ELSE IF close = 0 THEN AppendSegment(before, rest, FALSE)
              ELSE f[From(rest, close + 1)][
                     AppendSegment(before, SubSeq(rest, 1, close - 1), TRUE)]]

Turns(f) == f = [s \in Seq(Token) |-> Turn(f, s)]

\* The rest of a text.
LEMMA FromIs ==
    ASSUME NEW s \in Seq(Token), NEW i \in 0..Len(s)
    PROVE  /\ From(s, i + 1) \in Seq(Token)
           /\ Len(From(s, i + 1)) = Len(s) - i
           /\ \A k \in 1..(Len(s) - i) : From(s, i + 1)[k] = s[i + k]
<1>1. Len(s) \in Nat /\ i \in Nat /\ i <= Len(s)
    OBVIOUS
<1>2. /\ From(s, i + 1) \in Seq(Token)
      /\ Len(From(s, i + 1)) = IF i + 1 <= Len(s) THEN Len(s) - (i + 1) + 1 ELSE 0
    <2>1. \A k \in (i + 1)..Len(s) : s[k] \in Token
        BY <1>1, ElementOfSeq
    <2>2. i + 1 \in Int /\ Len(s) \in Int
        BY <1>1
    <2> QED BY <2>1, <2>2, SubSeqProperties DEF From
<1>3. Len(From(s, i + 1)) = Len(s) - i
    BY <1>1, <1>2
<1>4. \A k \in 1..(Len(s) - i) : From(s, i + 1)[k] = s[i + k]
    BY <1>1 DEF From
<1> QED BY <1>2, <1>3, <1>4

\* The text before a position.
LEMMA BeforeIs ==
    ASSUME NEW s \in Seq(Token), NEW i \in 1..Len(s)
    PROVE  /\ SubSeq(s, 1, i - 1) \in Seq(Token)
           /\ Len(SubSeq(s, 1, i - 1)) = i - 1
           /\ \A k \in 1..(i - 1) : SubSeq(s, 1, i - 1)[k] = s[k]
<1> DEFINE m == i - 1
<1>1. m \in Nat /\ 1 \in Int /\ m \in Int /\ m <= Len(s) /\ Len(s) \in Nat
    OBVIOUS
<1>2. \A k \in 1..m : s[k] \in Token
    BY <1>1, ElementOfSeq
<1> HIDE DEF m
<1>3. /\ SubSeq(s, 1, m) \in Seq(Token)
      /\ Len(SubSeq(s, 1, m)) = IF 1 <= m THEN m - 1 + 1 ELSE 0
    BY <1>1, <1>2, SubSeqProperties
<1>4. Len(SubSeq(s, 1, m)) = m
    BY <1>1, <1>3
<1>5. \A k \in 1..m : SubSeq(s, 1, m)[k] = s[k]
    BY <1>1
<1> QED BY <1>3, <1>4, <1>5 DEF m

\* What is left after a turn is shorter.
LEMMA TurnSplits ==
    ASSUME NEW s \in Seq(Token), Index(s, Open) # 0
    PROVE  LET open == Index(s, Open)
               rest == From(s, open + 1)
               close == Index(rest, Close)
           IN  /\ open \in 1..Len(s)
               /\ rest \in Seq(Token)
               /\ Len(rest) = Len(s) - open
               /\ close \in 0..Len(rest)
               /\ From(rest, close + 1) \in Seq(Token)
               /\ Len(From(rest, close + 1)) < Len(s)
<1> DEFINE open == Index(s, Open)
           rest == From(s, open + 1)
           close == Index(rest, Close)
<1>1. open \in 0..Len(s) /\ open # 0 /\ Len(s) \in Nat
    BY IndexIs
<1> HIDE DEF open
<1>2. rest \in Seq(Token) /\ Len(rest) = Len(s) - open
    BY <1>1, FromIs
<1> HIDE DEF rest
<1>3. close \in 0..Len(rest)
    BY <1>2, IndexIs
<1> HIDE DEF close
<1>4. From(rest, close + 1) \in Seq(Token) /\ Len(From(rest, close + 1)) = Len(rest) - close
    BY <1>2, <1>3, FromIs
<1>5. open \in 1..Len(s) /\ Len(From(rest, close + 1)) < Len(s)
    BY <1>1, <1>2, <1>3, <1>4
<1> QED BY <1>2, <1>3, <1>4, <1>5 DEF open, rest, close

\* A turn depends on the parse of shorter texts only.
LEMMA TurnAgrees ==
    ASSUME NEW s \in Seq(Token), NEW f, NEW g,
           \A t \in Seq(Token) : Len(t) < Len(s) => f[t] = g[t]
    PROVE  Turn(f, s) = Turn(g, s)
<1>1. CASE Index(s, Open) = 0
    BY <1>1 DEF Turn
<1>2. CASE Index(s, Open) # 0
    <2> DEFINE rest == From(s, Index(s, Open) + 1)
               left == From(rest, Index(rest, Close) + 1)
    <2>1. f[left] = g[left]
        BY <1>2, TurnSplits
    <2> QED BY <2>1 DEF Turn
<1> QED BY <1>1, <1>2

\* The recursion of Parse ends: there is such a function, and Parse is one.
LEMMA ParseIs == \A s \in Seq(Token) : Parse[s] = Turn(Parse, s)
<1> DEFINE P(n, f) == \A s \in Seq(Token) : Len(s) <= n => f[s] = Turn(f, s)
           S == {n \in Nat : \E f : P(n, f)}
<1>1. ASSUME NEW n \in Nat, NEW f, NEW g, P(n, f), P(n, g)
      PROVE  \A s \in Seq(Token) : Len(s) <= n => f[s] = g[s]
    <2> DEFINE A == {m \in Nat : \A s \in Seq(Token) : Len(s) < m /\ Len(s) <= n => f[s] = g[s]}
    <2>1. 0 \in A
        <3>1. \A s \in Seq(Token) : ~(Len(s) < 0)
            BY LenProperties
        <3> QED BY <3>1
    <2>2. ASSUME NEW m \in A PROVE m + 1 \in A
        <3>1. ASSUME NEW s \in Seq(Token), Len(s) < m + 1, Len(s) <= n PROVE f[s] = g[s]
            <4>1. \A t \in Seq(Token) : Len(t) < Len(s) => f[t] = g[t]
                <5> TAKE t \in Seq(Token)
                <5>1. Len(t) \in Nat /\ Len(s) \in Nat /\ m \in Nat
                    BY LenProperties
                <5>2. Len(t) < Len(s) => Len(t) < m /\ Len(t) <= n
                    BY <5>1, <3>1
                <5> QED BY <5>2
            <4>2. Turn(f, s) = Turn(g, s)
                BY <4>1, TurnAgrees
            <4> QED BY <1>1, <3>1, <4>2
        <3>2. m + 1 \in Nat
            OBVIOUS
        <3> QED BY <3>1, <3>2, Zenon
    <2>3. A = Nat
        <3> HIDE DEF A
        <3>1. A \subseteq Nat
            BY DEF A
        <3> QED BY <2>1, <2>2, <3>1, AllNumbers
    <2>4. n + 1 \in A
        <3> HIDE DEF A
        <3> QED BY <2>3
    <2>5. \A s \in Seq(Token) : Len(s) <= n => Len(s) < n + 1
        BY LenProperties
    <2> QED BY <2>4, <2>5
<1>2. ASSUME NEW n \in Nat, NEW f, \A s \in Seq(Token) : Len(s) < n => f[s] = Turn(f, s)
      PROVE  n \in S
    <2> DEFINE h == [s \in Seq(Token) |-> IF Len(s) < n THEN f[s] ELSE Turn(f, s)]
    <2>1. \A t \in Seq(Token) : Len(t) < n => h[t] = f[t]
        OBVIOUS
    <2>2. \A s \in Seq(Token) : h[s] = Turn(f, s)
        BY <1>2
    <2> HIDE DEF h
    <2>3. ASSUME NEW s \in Seq(Token), Len(s) <= n PROVE h[s] = Turn(h, s)
        <3>1. \A t \in Seq(Token) : Len(t) < Len(s) => f[t] = h[t]
            <4> TAKE t \in Seq(Token)
            <4>1. Len(t) \in Nat /\ Len(s) \in Nat
                BY LenProperties
            <4> QED BY <4>1, <2>1, <2>3
        <3>2. Turn(f, s) = Turn(h, s)
            BY <3>1, TurnAgrees
        <3> QED BY <2>2, <3>2
    <2>4. P(n, h)
        BY <2>3
    <2> QED BY <2>4, Zenon
<1>3. S = Nat
    <2>1. 0 \in S
        <3>1. \A s \in Seq(Token) : Len(s) < 0 => Parse[s] = Turn(Parse, s)
            BY LenProperties
        <3> HIDE DEF S
        <3> QED BY <3>1, <1>2
    <2>2. ASSUME NEW n \in S PROVE n + 1 \in S
        <3>1. PICK f : P(n, f)
            OBVIOUS
        <3>2. \A s \in Seq(Token) : Len(s) < n + 1 => f[s] = Turn(f, s)
            <4> TAKE s \in Seq(Token)
            <4>1. Len(s) \in Nat
                BY LenProperties
            <4>2. Len(s) < n + 1 => Len(s) <= n
                BY <4>1
            <4> QED BY <3>1, <4>2
        <3>3. n + 1 \in Nat
            OBVIOUS
        <3> HIDE DEF S
        <3> QED BY <3>2, <3>3, <1>2
    <2> HIDE DEF S
    <2>3. S \subseteq Nat
        BY DEF S
    <2> QED BY <2>1, <2>2, <2>3, AllNumbers
<1> DEFINE c(n) == CHOOSE f : P(n, f)
           h == [s \in Seq(Token) |-> c(Len(s))[s]]
<1>4. \A n \in Nat : P(n, c(n))
    <2> TAKE n \in Nat
    <2>1. \E f : P(n, f)
        <3>1. n \in S
            <4> HIDE DEF S
            <4> QED BY <1>3
        <3> QED BY <3>1, Zenon
    <2> HIDE DEF P
    <2> QED BY <2>1
<1>5. \A s \in Seq(Token) : h[s] = Turn(h, s)
    <2> TAKE s \in Seq(Token)
    <2> DEFINE n == Len(s)
    <2>1. n \in Nat
        BY LenProperties
    <2>2. h[s] = c(n)[s]
        OBVIOUS
    <2>3. c(n)[s] = Turn(c(n), s)
        <3>1. P(n, c(n))
            BY <2>1, <1>4
        <3> HIDE DEF c
        <3> QED BY <3>1, <2>1
    <2>4. \A t \in Seq(Token) : Len(t) < Len(s) => c(n)[t] = h[t]
        <3> SUFFICES ASSUME NEW t \in Seq(Token), Len(t) < n PROVE c(n)[t] = h[t]
            BY Zenon
        <3>1. Len(t) \in Nat
            BY LenProperties
        <3>2. P(Len(t), c(Len(t))) /\ P(n, c(n))
            BY <3>1, <2>1, <1>4
        <3>3. h[t] = c(Len(t))[t]
            OBVIOUS
        <3> HIDE DEF c, h
        <3>4. P(Len(t), c(n))
            <4> SUFFICES ASSUME NEW u \in Seq(Token), Len(u) <= Len(t)
                         PROVE  c(n)[u] = Turn(c(n), u)
                BY Zenon
            <4>1. Len(u) <= n
                BY <3>1, <2>1, LenProperties
            <4> QED BY <4>1, <3>2
        <3> HIDE DEF P
        <3>5. \A v \in Seq(Token) : Len(v) <= Len(t) => c(Len(t))[v] = c(n)[v]
            BY <3>1, <3>2, <3>4, <1>1
        <3> QED BY <3>1, <3>3, <3>5
    <2> HIDE DEF c, h
    <2>5. Turn(c(n), s) = Turn(h, s)
        BY <2>4, TurnAgrees
    <2> QED BY <2>2, <2>3, <2>5
<1>6. Turns(h)
    <2>1. h = [s \in Seq(Token) |-> h[s]]
        OBVIOUS
    <2> HIDE DEF h
    <2> QED BY <2>1, <1>5 DEF Turns
<1>7. Turns(Parse)
    <2>1. Parse = CHOOSE f : Turns(f)
        BY DEF Parse, Turns, Turn
    <2>2. \E f : Turns(f)
        BY <1>6, Zenon
    <2> QED BY <2>1, <2>2, Zenon
<1> QED BY <1>7 DEF Turns

-----------------------------------------------------------------------------
(* What a snippet shows, piece by piece                                    *)

\* A part of a sequence, which may be empty.
LEMMA PartIs ==
    ASSUME NEW S, NEW s \in Seq(S), NEW a \in 1..(Len(s) + 1), NEW b \in (a - 1)..Len(s)
    PROVE  /\ SubSeq(s, a, b) \in Seq(S)
           /\ Len(SubSeq(s, a, b)) = b - a + 1
           /\ \A k \in 1..(b - a + 1) : SubSeq(s, a, b)[k] = s[a + k - 1]
<1>1. Len(s) \in Nat /\ a \in Int /\ b \in Int /\ 1 <= a /\ a - 1 <= b /\ b <= Len(s)
    BY LenProperties
<1>2. \A k \in a..b : s[k] \in S
    BY <1>1, ElementOfSeq
<1>3. /\ SubSeq(s, a, b) \in Seq(S)
      /\ Len(SubSeq(s, a, b)) = IF a <= b THEN b - a + 1 ELSE 0
      /\ \A k \in 1..(b - a + 1) : SubSeq(s, a, b)[k] = s[a + k - 1]
    BY <1>1, <1>2, SubSeqProperties
<1>4. Len(SubSeq(s, a, b)) = b - a + 1
    BY <1>1, <1>3
<1> QED BY <1>3, <1>4

\* What is shown of the positions from a to b.
Piece(s, a, b) == FlattenSeq(SubSeq(Cells(s), a, b))

\* A cell for each position.
LEMMA CellsType ==
    ASSUME NEW s \in Seq(Token)
    PROVE  Cells(s) \in Seq(Seq(Shows)) /\ Len(Cells(s)) = Len(s)
<1>1. \A i \in 1..Len(s) :
        (IF Consumed(s, i) THEN <<>> ELSE << <<s[i], Highlighted(s, i)>> >>) \in Seq(Shows)
    <2> TAKE i \in 1..Len(s)
    <2>1. Highlighted(s, i) \in BOOLEAN
        BY Zenon DEF Highlighted
    <2>2. s[i] \in Token
        OBVIOUS
    <2>3. <<s[i], Highlighted(s, i)>> \in Shows
        BY <2>1, <2>2, Zenon DEF Shows
    <2>4. << <<s[i], Highlighted(s, i)>> >> \in Seq(Shows) /\ <<>> \in Seq(Shows)
        BY <2>3
    <2> QED BY <2>4, Zenon
<1> QED BY <1>1 DEF Cells

\* Neighbouring pieces make one.
LEMMA PieceJoin ==
    ASSUME NEW s \in Seq(Token), NEW a \in 1..(Len(s) + 1), NEW b \in (a - 1)..Len(s),
           NEW c \in b..Len(s)
    PROVE  /\ Piece(s, a, b) \in Seq(Shows)
           /\ Piece(s, a, c) = Piece(s, a, b) \o Piece(s, b + 1, c)
<1> DEFINE d == Cells(s)
<1>1. d \in Seq(Seq(Shows)) /\ Len(d) = Len(s) /\ Len(s) \in Nat
    BY CellsType
<1> HIDE DEF d
<1>2. b + 1 \in 1..(Len(d) + 1) /\ c \in ((b + 1) - 1)..Len(d)
    BY <1>1
<1>3. SubSeq(d, a, b) \in Seq(Seq(Shows)) /\ SubSeq(d, b + 1, c) \in Seq(Seq(Shows))
    BY <1>1, <1>2, PartIs
<1>4. SubSeq(d, a, b) \o SubSeq(d, b + 1, c) = SubSeq(d, a, c)
    BY <1>1, ConcatAdjacentSubSeq
<1>5. FlattenSeq(SubSeq(d, a, b)) \in Seq(Shows)
    BY <1>3, FlattenType
<1>6. FlattenSeq(SubSeq(d, a, b) \o SubSeq(d, b + 1, c))
        = FlattenSeq(SubSeq(d, a, b)) \o FlattenSeq(SubSeq(d, b + 1, c))
    BY <1>3, FlattenConcat
<1> QED BY <1>4, <1>5, <1>6 DEF Piece, d

\* Where every token is shown, with the same kind, and where none is.
LEMMA PieceTagged ==
    ASSUME NEW s \in Seq(Token), NEW a \in 1..(Len(s) + 1), NEW b \in (a - 1)..Len(s),
           NEW h \in BOOLEAN,
           \A i \in a..b : ~Consumed(s, i) /\ Highlighted(s, i) = h
    PROVE  Piece(s, a, b) = Tagged(SubSeq(s, a, b), h)
<1> DEFINE d == Cells(s)
           t == SubSeq(s, a, b)
           u == Tagged(t, h)
<1>1. d \in Seq(Seq(Shows)) /\ Len(d) = Len(s) /\ Len(s) \in Nat
    BY CellsType
<1>2. /\ t \in Seq(Token) /\ Len(t) = b - a + 1
      /\ \A k \in 1..(b - a + 1) : t[k] = s[a + k - 1]
    BY PartIs
<1> HIDE DEF t
<1>3. /\ u \in Seq(Shows) /\ Len(u) = b - a + 1
      /\ \A k \in 1..(b - a + 1) : u[k] = <<t[k], h>>
    <2>1. u \in Seq(Shows)
        BY <1>2, TaggedIs
    <2>2. Len(u) = Len(t) /\ \A k \in 1..Len(t) : u[k] = <<t[k], h>>
        BY <1>2 DEF Tagged
    <2> QED BY <2>1, <2>2, <1>2
<1>4. \A i \in a..b : d[i] = << <<s[i], h>> >>
    <2> TAKE i \in a..b
    <2>1. i \in 1..Len(s)
        BY <1>1
    <2>2. d[i] = IF Consumed(s, i) THEN <<>> ELSE << <<s[i], Highlighted(s, i)>> >>
        BY <2>1 DEF Cells
    <2> QED BY <2>2, Zenon
<1> HIDE DEF d
<1>5. /\ SubSeq(d, a, b) \in Seq(Seq(Shows)) /\ Len(SubSeq(d, a, b)) = b - a + 1
      /\ \A k \in 1..(b - a + 1) : SubSeq(d, a, b)[k] = d[a + k - 1]
    BY <1>1, PartIs
<1> HIDE DEF u
<1>6. \A k \in 1..(b - a + 1) : SubSeq(d, a, b)[k] = <<u[k]>>
    <2> TAKE k \in 1..(b - a + 1)
    <2>1. a + k - 1 \in a..b
        BY <1>1
    <2>2. d[a + k - 1] = << <<s[a + k - 1], h>> >>
        BY <2>1, <1>4
    <2>3. u[k] = <<s[a + k - 1], h>>
        BY <1>2, <1>3, Zenon
    <2> QED BY <2>2, <2>3, <1>5, Zenon
<1>7. SubSeq(d, a, b) = [k \in 1..Len(u) |-> <<u[k]>>]
    <2> DEFINE x == SubSeq(d, a, b)
    <2>1. x = [k \in 1..Len(x) |-> x[k]]
        BY <1>5
    <2> HIDE DEF x
    <2> QED BY <2>1, <1>3, <1>5, <1>6 DEF x
<1>8. FlattenSeq([k \in 1..Len(u) |-> <<u[k]>>]) = u
    BY <1>3, FlattenSingletons
<1> QED BY <1>7, <1>8 DEF Piece, d, u, t

\* A marker of a pair shows nothing.
LEMMA PieceSkipped ==
    ASSUME NEW s \in Seq(Token), NEW i \in 1..Len(s), Consumed(s, i)
    PROVE  Piece(s, i, i) = <<>>
<1> DEFINE d == Cells(s)
<1>1. d \in Seq(Seq(Shows)) /\ Len(d) = Len(s) /\ Len(s) \in Nat
    BY CellsType
<1>2. d[i] = <<>>
    BY DEF Cells
<1> HIDE DEF d
<1>3. SubSeq(d, i, i) = Append(<<>>, <<>>)
    <2>1. SubSeq(d, i, i) \in Seq(Seq(Shows)) /\ Len(SubSeq(d, i, i)) = 1 /\ SubSeq(d, i, i)[1] = <<>>
        <3>1. i \in 1..(Len(d) + 1) /\ i \in (i - 1)..Len(d) /\ i - i + 1 = 1 /\ i + 1 - 1 = i
            BY <1>1
        <3>2. /\ SubSeq(d, i, i) \in Seq(Seq(Shows)) /\ Len(SubSeq(d, i, i)) = i - i + 1
              /\ \A k \in 1..(i - i + 1) : SubSeq(d, i, i)[k] = d[i + k - 1]
            BY <1>1, <3>1, PartIs
        <3> QED BY <3>1, <3>2, <1>2
    <2> DEFINE x == SubSeq(d, i, i)
    <2> HIDE DEF x
    <2>2. x \in Seq(Seq(Shows)) /\ Len(x) = 1 /\ x[1] = <<>> => x = Append(<<>>, <<>>)
        OBVIOUS
    <2> QED BY <2>1, <2>2 DEF x
<1>4. FlattenSeq(Append(<<>>, <<>>)) = FlattenSeq(<<>>) \o <<>>
    <2>1. <<>> \in Seq(Seq(Shows)) /\ <<>> \in Seq(Shows)
        OBVIOUS
    <2> QED BY <2>1, FlattenAppend
<1>5. FlattenSeq(<<>>) \o <<>> = <<>>
    BY FlattenEmpty
<1> QED BY <1>3, <1>4, <1>5 DEF Piece, d

\* What is shown is the piece from end to end.
LEMMA ShownIsPiece ==
    ASSUME NEW s \in Seq(Token)
    PROVE  Shown(s) = Piece(s, 1, Len(s)) /\ Shown(s) \in Seq(Shows)
<1>1. SubSeq(Cells(s), 1, Len(Cells(s))) = Cells(s)
    BY CellsType, SubSeqFull
<1>2. FlattenSeq(Cells(s)) \in Seq(Shows)
    BY CellsType, FlattenType
<1> QED BY <1>1, <1>2, CellsType DEF Shown, Piece

\* The markers are two, and neither is a word.
LEMMA Markers == Open # Close /\ Open # "word" /\ Close # "word" /\ Open \in Token /\ Close \in Token
BY DEF Open, Close, Token

\* Before the first Open nothing is highlighted and nothing is left out.
LEMMA PlainBefore ==
    ASSUME NEW s \in Seq(Token), NEW p \in Nat, \A i \in 1..(p - 1) : s[i] # Open,
           NEW i \in 1..(p - 1)
    PROVE  ~Opens(s, i) /\ ~After(s, i) /\ ~Consumed(s, i) /\ Highlighted(s, i) = FALSE
<1>1. ~Opens(s, i)
    BY DEF Opens
<1>2. ~After(s, i)
    <2> SUFFICES ASSUME NEW j \in 1..(i - 1), Opens(s, j) PROVE FALSE
        BY DEF After
    <2>1. j \in 1..(p - 1)
        OBVIOUS
    <2> QED BY <2>1 DEF Opens
<1> QED BY <1>1, <1>2 DEF Consumed, Highlighted

\* The first Open opens, and what follows is after it up to a Close.
LEMMA OpenedBy ==
    ASSUME NEW s \in Seq(Token), NEW p \in 1..Len(s), s[p] = Open,
           \A i \in 1..(p - 1) : s[i] # Open,
           NEW q \in (p + 1)..(Len(s) + 1), \A k \in (p + 1)..(q - 1) : s[k] # Close
    PROVE  /\ Opens(s, p) /\ Consumed(s, p)
           /\ \A i \in (p + 1)..q : After(s, i)
           /\ \A i \in (p + 1)..(q - 1) : ~Consumed(s, i)
<1>1. Opens(s, p)
    BY DEF Opens
<1>2. ASSUME NEW i \in (p + 1)..q PROVE After(s, i)
    <2>1. p \in 1..(i - 1)
        OBVIOUS
    <2>2. \A k \in p..(i - 1) : s[k] # Close
        <3> TAKE k \in p..(i - 1)
        <3>1. k = p \/ k \in (p + 1)..(q - 1)
            OBVIOUS
        <3> QED BY <3>1, Markers
    <2> QED BY <1>1, <2>1, <2>2 DEF After
<1>3. ASSUME NEW i \in (p + 1)..(q - 1) PROVE ~Consumed(s, i)
    <2>1. s[i] # Close
        OBVIOUS
    <2>2. ~Opens(s, i)
        <3> SUFFICES ASSUME Opens(s, i) PROVE FALSE
            OBVIOUS
        <3>1. p \in 1..(i - 1)
            OBVIOUS
        <3>2. PICK k \in p..i : s[k] = Close
            BY <3>1 DEF Opens
        <3>3. k = p \/ k \in (p + 1)..(q - 1)
            OBVIOUS
        <3> QED BY <3>2, <3>3, Markers
    <2> QED BY <2>1, <2>2 DEF Consumed
<1> QED BY <1>1, <1>2, <1>3 DEF Consumed

\* After a Close everything begins again.
LEMMA BeginsAgain ==
    ASSUME NEW s \in Seq(Token), NEW q \in 1..Len(s), s[q] = Close
    PROVE  Piece(s, q + 1, Len(s)) = Shown(From(s, q + 1))
<1> DEFINE t == From(s, q + 1)
           n == Len(s) - q
<1>0. Len(s) \in Nat /\ n \in Nat
    OBVIOUS
<1>1. t \in Seq(Token) /\ Len(t) = n /\ \A k \in 1..n : t[k] = s[q + k]
    BY FromIs
<1> HIDE DEF t
<1>2. ASSUME NEW j \in 1..n PROVE Opens(s, q + j) <=> Opens(t, j)
    <2>1. s[q + j] = t[j]
        BY <1>1
    <2>2. ASSUME Opens(s, q + j) PROVE Opens(t, j)
        <3> SUFFICES ASSUME NEW i \in 1..(j - 1), t[i] = Open PROVE \E k \in i..j : t[k] = Close
            BY <2>1, <2>2 DEF Opens
        <3>1. q + i \in 1..(q + j - 1) /\ s[q + i] = Open
            BY <1>1
        <3>2. PICK k \in (q + i)..(q + j) : s[k] = Close
            BY <2>2, <3>1 DEF Opens
        <3>3. k - q \in i..j /\ k - q \in 1..n /\ q + (k - q) = k
            BY <1>0
        <3>4. t[k - q] = Close
            BY <3>2, <3>3, <1>1
        <3> QED BY <3>3, <3>4
    <2>3. ASSUME Opens(t, j) PROVE Opens(s, q + j)
        <3> SUFFICES ASSUME NEW i \in 1..(q + j - 1), s[i] = Open
                     PROVE  \E k \in i..(q + j) : s[k] = Close
            BY <2>1, <2>3 DEF Opens
        <3>1. CASE i <= q
            <4>1. q \in i..(q + j)
                BY <3>1
            <4> QED BY <4>1
        <3>2. CASE i > q
            <4>1. i - q \in 1..(j - 1) /\ q + (i - q) = i /\ i - q \in 1..n
                BY <3>2, <1>0
            <4>2. t[i - q] = Open
                BY <4>1, <1>1
            <4>3. PICK k \in (i - q)..j : t[k] = Close
                BY <2>3, <4>1, <4>2 DEF Opens
            <4>4. k \in 1..n /\ q + k \in i..(q + j)
                BY <4>1, <1>0
            <4> QED BY <4>3, <4>4, <1>1
        <3> QED BY <3>1, <3>2
    <2> QED BY <2>2, <2>3
<1>3. ASSUME NEW i \in 1..n PROVE After(s, q + i) <=> After(t, i)
    <2>1. ASSUME After(s, q + i) PROVE After(t, i)
        <3>1. PICK j \in 1..(q + i - 1) : Opens(s, j) /\ \A k \in j..(q + i - 1) : s[k] # Close
            BY <2>1 DEF After
        <3>2. j > q
            <4> SUFFICES ASSUME j <= q PROVE FALSE
                OBVIOUS
            <4>1. q \in j..(q + i - 1)
                OBVIOUS
            <4> QED BY <4>1, <3>1
        <3>3. j - q \in 1..(i - 1) /\ j - q \in 1..n /\ q + (j - q) = j
            BY <3>2, <1>0
        <3>4. Opens(t, j - q)
            BY <3>1, <3>3, <1>2
        <3>5. \A k \in (j - q)..(i - 1) : t[k] # Close
            <4> TAKE k \in (j - q)..(i - 1)
            <4>1. k \in 1..n /\ q + k \in j..(q + i - 1)
                BY <3>3, <1>0
            <4> QED BY <4>1, <3>1, <1>1
        <3> QED BY <3>3, <3>4, <3>5 DEF After
    <2>2. ASSUME After(t, i) PROVE After(s, q + i)
        <3>1. PICK j \in 1..(i - 1) : Opens(t, j) /\ \A k \in j..(i - 1) : t[k] # Close
            BY <2>2 DEF After
        <3>2. j \in 1..n /\ q + j \in 1..(q + i - 1)
            OBVIOUS
        <3>3. Opens(s, q + j)
            BY <3>1, <3>2, <1>2
        <3>4. \A k \in (q + j)..(q + i - 1) : s[k] # Close
            <4> TAKE k \in (q + j)..(q + i - 1)
            <4>1. k - q \in j..(i - 1) /\ k - q \in 1..n /\ q + (k - q) = k
                BY <1>0
            <4> QED BY <4>1, <3>1, <1>1
        <3> QED BY <3>2, <3>3, <3>4 DEF After
    <2> QED BY <2>1, <2>2
<1>4. ASSUME NEW i \in 1..n
      PROVE  /\ Consumed(s, q + i) <=> Consumed(t, i)
             /\ Highlighted(s, q + i) = Highlighted(t, i)
    <2>1. s[q + i] = t[i]
        BY <1>1
    <2>2. Consumed(s, q + i) <=> Consumed(t, i)
        BY <1>2, <1>3, <2>1 DEF Consumed
    <2>3. (\E k \in (q + i)..Len(s) : s[k] = Close) <=> \E k \in i..Len(t) : t[k] = Close
        <3>1. ASSUME NEW k \in (q + i)..Len(s), s[k] = Close PROVE \E l \in i..Len(t) : t[l] = Close
            <4>1. k - q \in i..n /\ k - q \in 1..n /\ q + (k - q) = k
                BY <1>0
            <4> QED BY <4>1, <3>1, <1>1
        <3>2. ASSUME NEW k \in i..Len(t), t[k] = Close PROVE \E l \in (q + i)..Len(s) : s[l] = Close
            <4>1. k \in 1..n /\ q + k \in (q + i)..Len(s)
                BY <1>0, <1>1
            <4> QED BY <4>1, <3>2, <1>1
        <3> QED BY <3>1, <3>2
    <2>4. Highlighted(s, q + i) <=> Highlighted(t, i)
        BY <1>3, <2>3, Zenon DEF Highlighted
    <2>5. Highlighted(s, q + i) \in BOOLEAN /\ Highlighted(t, i) \in BOOLEAN
        BY Zenon DEF Highlighted
    <2>6. Highlighted(s, q + i) = Highlighted(t, i)
        <3>1. CASE Highlighted(s, q + i)
            <4>1. Highlighted(s, q + i) = TRUE /\ Highlighted(t, i) = TRUE
                BY <3>1, <2>4, <2>5
            <4> QED BY <4>1, Zenon
        <3>2. CASE ~Highlighted(s, q + i)
            <4>1. Highlighted(s, q + i) = FALSE /\ Highlighted(t, i) = FALSE
                BY <3>2, <2>4, <2>5
            <4> QED BY <4>1, Zenon
        <3> QED BY <3>1, <3>2
    <2> QED BY <2>2, <2>6, Zenon
<1>5. SubSeq(Cells(s), q + 1, Len(s)) = Cells(t)
    <2> DEFINE x == SubSeq(Cells(s), q + 1, Len(s))
               y == Cells(t)
    <2>1. /\ x \in Seq(Seq(Shows)) /\ Len(x) = Len(s) - (q + 1) + 1
          /\ \A k \in 1..(Len(s) - (q + 1) + 1) : x[k] = Cells(s)[(q + 1) + k - 1]
        <3> DEFINE d == Cells(s)
        <3>1. d \in Seq(Seq(Shows)) /\ Len(d) = Len(s)
            BY CellsType
        <3> HIDE DEF d
        <3>2. q + 1 \in 1..(Len(d) + 1) /\ Len(s) \in (q + 1 - 1)..Len(d)
            BY <3>1, <1>0
        <3>3. /\ SubSeq(d, q + 1, Len(s)) \in Seq(Seq(Shows))
              /\ Len(SubSeq(d, q + 1, Len(s))) = Len(s) - (q + 1) + 1
              /\ \A k \in 1..(Len(s) - (q + 1) + 1) :
                   SubSeq(d, q + 1, Len(s))[k] = d[(q + 1) + k - 1]
            BY <3>1, <3>2, PartIs
        <3> QED BY <3>3 DEF d
    <2>2. y \in Seq(Seq(Shows)) /\ Len(y) = n
        BY <1>1, CellsType
    <2>3. \A k \in 1..n : x[k] = y[k]
        <3> TAKE k \in 1..n
        <3>1. (q + 1) + k - 1 = q + k /\ q + k \in 1..Len(s) /\ k \in 1..(Len(s) - (q + 1) + 1)
            BY <1>0
        <3>2. x[k] = Cells(s)[q + k]
            <4> HIDE DEF x
            <4> QED BY <2>1, <3>1
        <3>3. Cells(s)[q + k] = IF Consumed(s, q + k) THEN <<>>
                                ELSE << <<s[q + k], Highlighted(s, q + k)>> >>
            BY <3>1 DEF Cells
        <3>4. Cells(t)[k] = IF Consumed(t, k) THEN <<>> ELSE << <<t[k], Highlighted(t, k)>> >>
            BY <1>1 DEF Cells
        <3>5. s[q + k] = t[k]
            BY <1>1
        <3>6. Cells(s)[q + k] = Cells(t)[k]
            BY <3>3, <3>4, <3>5, <1>4, Zenon
        <3> QED BY <3>2, <3>6, Zenon
    <2> HIDE DEF x, y
    <2>4. Len(x) = Len(y)
        BY <2>1, <2>2, <1>0
    <2>5. x = y
        BY <2>1, <2>2, <2>3, <2>4, SeqEqual
    <2> QED BY <2>5 DEF x, y
<1> QED BY <1>5 DEF Piece, Shown, t

\* What is shown, along the cases of a turn.
LEMMA ShownPlain ==
    ASSUME NEW s \in Seq(Token), Index(s, Open) = 0
    PROVE  Shown(s) = Tagged(s, FALSE)
<1>0. Len(s) \in Nat
    OBVIOUS
<1>1. \A i \in 1..Len(s) : s[i] # Open
    BY IndexIs
<1>2. \A i \in 1..Len(s) : ~Consumed(s, i) /\ Highlighted(s, i) = FALSE
    <2>1. Len(s) + 1 \in Nat /\ (Len(s) + 1) - 1 = Len(s)
        BY <1>0
    <2> QED BY <1>1, <2>1, PlainBefore
<1>3. Piece(s, 1, Len(s)) = Tagged(SubSeq(s, 1, Len(s)), FALSE)
    <2>1. 1 \in 1..(Len(s) + 1) /\ Len(s) \in (1 - 1)..Len(s) /\ FALSE \in BOOLEAN
        BY <1>0
    <2> QED BY <2>1, <1>2, PieceTagged
<1> QED BY <1>3, ShownIsPiece, SubSeqFull

\* Up to the first Open, and the marker itself.
LEMMA ShownToOpen ==
    ASSUME NEW s \in Seq(Token), NEW p \in 1..Len(s), s[p] = Open,
           \A i \in 1..(p - 1) : s[i] # Open
    PROVE  Shown(s) = Tagged(SubSeq(s, 1, p - 1), FALSE) \o Piece(s, p + 1, Len(s))
<1>0. /\ Len(s) \in Nat /\ 1 \in 1..(Len(s) + 1) /\ p - 1 \in (1 - 1)..Len(s)
      /\ Len(s) \in (p - 1)..Len(s) /\ p \in 1..(Len(s) + 1) /\ p \in (p - 1)..Len(s)
      /\ Len(s) \in p..Len(s) /\ (p - 1) + 1 = p
      /\ p + 1 \in 1..(Len(s) + 1) /\ Len(s) \in ((p + 1) - 1)..Len(s)
      /\ p \in Nat /\ p + 1 \in (p + 1)..(Len(s) + 1)
      /\ FALSE \in BOOLEAN
    OBVIOUS
<1>1. Consumed(s, p)
    <2>1. \A k \in (p + 1)..((p + 1) - 1) : s[k] # Close
        OBVIOUS
    <2> QED BY <1>0, <2>1, OpenedBy
<1>2. Piece(s, 1, p - 1) = Tagged(SubSeq(s, 1, p - 1), FALSE)
    <2>1. \A i \in 1..(p - 1) : ~Consumed(s, i) /\ Highlighted(s, i) = FALSE
        BY <1>0, PlainBefore
    <2> QED BY <1>0, <2>1, PieceTagged
<1>3. Piece(s, p, p) = <<>>
    BY <1>1, PieceSkipped
<1>4. Shown(s) = Piece(s, 1, p - 1) \o Piece(s, p, Len(s))
    <2>1. Piece(s, 1, Len(s)) = Piece(s, 1, p - 1) \o Piece(s, (p - 1) + 1, Len(s))
        BY <1>0, PieceJoin
    <2> QED BY <1>0, <2>1, ShownIsPiece
<1>5. Piece(s, p, Len(s)) = Piece(s, p, p) \o Piece(s, p + 1, Len(s))
    BY <1>0, PieceJoin
<1>6. Piece(s, p + 1, Len(s)) \in Seq(Shows)
    BY <1>0, PieceJoin
<1>7. <<>> \o Piece(s, p + 1, Len(s)) = Piece(s, p + 1, Len(s))
    BY <1>6, ConcatEmptySeq
<1> QED BY <1>2, <1>3, <1>4, <1>5, <1>7, Zenon

\* A marker that is opened and never closed: the rest is plain.
LEMMA ShownCut ==
    ASSUME NEW s \in Seq(Token), Index(s, Open) # 0,
           Index(From(s, Index(s, Open) + 1), Close) = 0
    PROVE  Shown(s) = Tagged(SubSeq(s, 1, Index(s, Open) - 1), FALSE)
                        \o Tagged(From(s, Index(s, Open) + 1), FALSE)
<1> DEFINE p == Index(s, Open)
           rest == From(s, p + 1)
<1>1. p \in 1..Len(s) /\ s[p] = Open /\ \A i \in 1..(p - 1) : s[i] # Open
    <2>1. p \in 0..Len(s) /\ p # 0
        BY IndexIs
    <2> QED BY <2>1, IndexIs
<1> HIDE DEF p
<1>2. Shown(s) = Tagged(SubSeq(s, 1, p - 1), FALSE) \o Piece(s, p + 1, Len(s))
    BY <1>1, ShownToOpen
<1>3. /\ rest \in Seq(Token) /\ Len(rest) = Len(s) - p
      /\ \A k \in 1..(Len(s) - p) : rest[k] = s[p + k]
    <2>1. p \in 0..Len(s)
        BY <1>1
    <2> QED BY <2>1, FromIs
<1>4. \A k \in (p + 1)..Len(s) : s[k] # Close
    <2>1. \A k \in 1..Len(rest) : rest[k] # Close
        BY <1>3, IndexIs DEF p
    <2> TAKE k \in (p + 1)..Len(s)
    <2>2. k - p \in 1..(Len(s) - p) /\ p + (k - p) = k
        BY <1>1
    <2> HIDE DEF rest
    <2> QED BY <2>1, <2>2, <1>3
<1>5. \A i \in (p + 1)..Len(s) : ~Consumed(s, i) /\ Highlighted(s, i) = FALSE
    <2>1. Len(s) + 1 \in (p + 1)..(Len(s) + 1) /\ (Len(s) + 1) - 1 = Len(s)
        BY <1>1
    <2>2. \A i \in (p + 1)..Len(s) : ~Consumed(s, i)
        BY <1>1, <1>4, <2>1, OpenedBy
    <2>3. \A i \in (p + 1)..Len(s) : ~Highlighted(s, i)
        BY <1>4, <1>1 DEF Highlighted
    <2> QED BY <2>2, <2>3 DEF Highlighted
<1>6. Piece(s, p + 1, Len(s)) = Tagged(SubSeq(s, p + 1, Len(s)), FALSE)
    <2>1. p + 1 \in 1..(Len(s) + 1) /\ Len(s) \in ((p + 1) - 1)..Len(s) /\ FALSE \in BOOLEAN
        BY <1>1
    <2> QED BY <2>1, <1>5, PieceTagged
<1> QED BY <1>2, <1>6 DEF p, From

\* A pair: what is inside is highlighted, and then everything begins again.
LEMMA ShownPair ==
    ASSUME NEW s \in Seq(Token), Index(s, Open) # 0,
           Index(From(s, Index(s, Open) + 1), Close) # 0
    PROVE  LET open == Index(s, Open)
               rest == From(s, open + 1)
               close == Index(rest, Close)
           IN  Shown(s) = Tagged(SubSeq(s, 1, open - 1), FALSE)
                            \o (Tagged(SubSeq(rest, 1, close - 1), TRUE)
                                  \o Shown(From(rest, close + 1)))
<1> DEFINE p == Index(s, Open)
           rest == From(s, p + 1)
           c == Index(rest, Close)
           q == p + c
<1>1. p \in 1..Len(s) /\ s[p] = Open /\ \A i \in 1..(p - 1) : s[i] # Open
    <2>1. p \in 0..Len(s) /\ p # 0
        BY IndexIs
    <2> QED BY <2>1, IndexIs
<1>2. /\ rest \in Seq(Token) /\ Len(rest) = Len(s) - p
      /\ \A k \in 1..(Len(s) - p) : rest[k] = s[p + k]
    <2>1. p \in 0..Len(s)
        BY <1>1
    <2> HIDE DEF p
    <2> QED BY <2>1, FromIs
<1>3. c \in 0..Len(rest) /\ c # 0 /\ rest[c] = Close /\ \A k \in 1..(c - 1) : rest[k] # Close
    <2>1. c # 0
        OBVIOUS
    <2> HIDE DEF rest
    <2> QED BY <2>1, <1>2, IndexIs
<1> HIDE DEF p, rest, c
<1>4. Shown(s) = Tagged(SubSeq(s, 1, p - 1), FALSE) \o Piece(s, p + 1, Len(s))
    BY <1>1, ShownToOpen
<1>5. /\ q \in 1..Len(s) /\ Len(s) \in Nat /\ q \in Nat /\ p \in Nat /\ c \in 1..(Len(s) - p)
      /\ q = p + c
    BY <1>1, <1>2, <1>3
<1> HIDE DEF q
<1>6. s[q] = Close /\ \A k \in (p + 1)..(q - 1) : s[k] # Close
    <2>1. s[q] = Close
        BY <1>2, <1>3, <1>5
    <2>2. \A k \in (p + 1)..(q - 1) : s[k] # Close
        <3> TAKE k \in (p + 1)..(q - 1)
        <3>1. k - p \in 1..(c - 1) /\ k - p \in 1..(Len(s) - p) /\ p + (k - p) = k
            BY <1>5
        <3> QED BY <3>1, <1>2, <1>3
    <2> QED BY <2>1, <2>2
<1>7. /\ \A i \in (p + 1)..q : After(s, i)
      /\ \A i \in (p + 1)..(q - 1) : ~Consumed(s, i)
    <2>1. q \in (p + 1)..(Len(s) + 1)
        BY <1>5
    <2> QED BY <1>1, <1>6, <2>1, OpenedBy
<1>8. Piece(s, p + 1, q - 1) = Tagged(SubSeq(s, p + 1, q - 1), TRUE)
    <2>1. p + 1 \in 1..(Len(s) + 1) /\ q - 1 \in ((p + 1) - 1)..Len(s) /\ TRUE \in BOOLEAN
        BY <1>5
    <2>2. \A i \in (p + 1)..(q - 1) : Highlighted(s, i) = TRUE
        <3> TAKE i \in (p + 1)..(q - 1)
        <3>1. i \in (p + 1)..q /\ q \in i..Len(s)
            BY <1>5
        <3> QED BY <3>1, <1>6, <1>7 DEF Highlighted
    <2> QED BY <2>1, <2>2, <1>7, PieceTagged
<1>9. Piece(s, q, q) = <<>>
    <2>1. q \in (p + 1)..q
        BY <1>5
    <2>2. Consumed(s, q)
        BY <2>1, <1>6, <1>7 DEF Consumed
    <2> QED BY <2>2, <1>5, PieceSkipped
<1>10. Piece(s, q + 1, Len(s)) = Shown(From(s, q + 1))
    BY <1>5, <1>6, BeginsAgain
<1>11. SubSeq(s, p + 1, q - 1) = SubSeq(rest, 1, c - 1)
    <2> DEFINE x == SubSeq(s, p + 1, q - 1)
               y == SubSeq(rest, 1, c - 1)
    <2>1. p + 1 \in 1..(Len(s) + 1) /\ q - 1 \in ((p + 1) - 1)..Len(s) /\ (q - 1) - (p + 1) + 1 = c - 1
        BY <1>5
    <2>2. /\ x \in Seq(Token) /\ Len(x) = (q - 1) - (p + 1) + 1
          /\ \A k \in 1..((q - 1) - (p + 1) + 1) : x[k] = s[(p + 1) + k - 1]
        BY <2>1, PartIs
    <2>3. y \in Seq(Token) /\ Len(y) = c - 1 /\ \A k \in 1..(c - 1) : y[k] = rest[k]
        <3>1. c \in 1..Len(rest)
            BY <1>3
        <3> QED BY <1>2, <3>1, BeforeIs
    <2> HIDE DEF x, y
    <2>4. \A k \in 1..(c - 1) : x[k] = y[k]
        <3> TAKE k \in 1..(c - 1)
        <3>1. k \in 1..(Len(s) - p) /\ (p + 1) + k - 1 = p + k
            BY <1>5
        <3> QED BY <2>1, <2>2, <2>3, <3>1, <1>2
    <2>5. Len(x) = Len(y)
        BY <2>1, <2>2, <2>3
    <2>6. x = y
        BY <2>1, <2>2, <2>3, <2>4, <2>5, SeqEqual
    <2> QED BY <2>6 DEF x, y
<1>12. From(s, q + 1) = From(rest, c + 1)
    <2> DEFINE x == From(s, q + 1)
               y == From(rest, c + 1)
    <2>1. /\ x \in Seq(Token) /\ Len(x) = Len(s) - q
          /\ \A k \in 1..(Len(s) - q) : x[k] = s[q + k]
        <3>1. q \in 0..Len(s)
            BY <1>5
        <3> QED BY <3>1, FromIs
    <2>2. /\ y \in Seq(Token) /\ Len(y) = Len(rest) - c
          /\ \A k \in 1..(Len(rest) - c) : y[k] = rest[c + k]
        BY <1>2, <1>3, FromIs
    <2> HIDE DEF x, y
    <2>3. Len(rest) - c = Len(s) - q
        BY <1>2, <1>5
    <2>4. \A k \in 1..(Len(s) - q) : x[k] = y[k]
        <3> TAKE k \in 1..(Len(s) - q)
        <3>1. c + k \in 1..(Len(s) - p) /\ p + (c + k) = q + k
            BY <1>5
        <3> QED BY <2>1, <2>2, <2>3, <3>1, <1>2
    <2>5. x = y
        BY <2>1, <2>2, <2>3, <2>4, SeqEqual
    <2> QED BY <2>5 DEF x, y
<1>13. Piece(s, p + 1, Len(s)) = Piece(s, p + 1, q - 1) \o Piece(s, q, Len(s))
    <2>1. /\ p + 1 \in 1..(Len(s) + 1) /\ q - 1 \in ((p + 1) - 1)..Len(s)
          /\ Len(s) \in (q - 1)..Len(s) /\ (q - 1) + 1 = q
        BY <1>5
    <2>2. Piece(s, p + 1, Len(s)) = Piece(s, p + 1, q - 1) \o Piece(s, (q - 1) + 1, Len(s))
        BY <2>1, PieceJoin
    <2> QED BY <2>1, <2>2
<1>14. Piece(s, q, Len(s)) = Piece(s, q + 1, Len(s))
    <2>1. /\ q \in 1..(Len(s) + 1) /\ q \in (q - 1)..Len(s) /\ Len(s) \in q..Len(s)
          /\ q + 1 \in 1..(Len(s) + 1) /\ Len(s) \in ((q + 1) - 1)..Len(s)
        BY <1>5
    <2>2. Piece(s, q, Len(s)) = Piece(s, q, q) \o Piece(s, q + 1, Len(s))
        BY <2>1, PieceJoin
    <2>3. Piece(s, q + 1, Len(s)) \in Seq(Shows)
        BY <2>1, PieceJoin
    <2>4. <<>> \o Piece(s, q + 1, Len(s)) = Piece(s, q + 1, Len(s))
        BY <2>3, ConcatEmptySeq
    <2> QED BY <2>2, <2>4, <1>9, Zenon
<1>15. Shown(s) = Tagged(SubSeq(s, 1, p - 1), FALSE)
                    \o (Tagged(SubSeq(rest, 1, c - 1), TRUE) \o Shown(From(rest, c + 1)))
    BY <1>4, <1>8, <1>10, <1>11, <1>12, <1>13, <1>14, Zenon
<1> QED BY <1>15 DEF p, rest, c

\* Concatenation, of what is shown.
LEMMA Associate ==
    \A x \in Seq(Shows), y \in Seq(Shows), z \in Seq(Shows) : (x \o y) \o z = x \o (y \o z)
BY ConcatAssociative

\* The segments of a text show each of its tokens but the markers of the pairs,
\* highlighted where they are inside of one, and none is empty or could be
\* merged with its neighbour, for texts of any length.
LEMMA ParseShows ==
    ASSUME NEW text \in Seq(Token), NEW segs \in Seq(Segment)
    PROVE  /\ Parse[text][segs] \in Seq(Segment)
           /\ Flat(Parse[text][segs]) = Flat(segs) \o Shown(text)
           /\ Apart(segs) => Apart(Parse[text][segs])
<1> DEFINE Good(s, out) == /\ Parse[s][out] \in Seq(Segment)
                           /\ Flat(Parse[s][out]) = Flat(out) \o Shown(s)
                           /\ Apart(out) => Apart(Parse[s][out])
           S == {n \in Nat : \A s \in Seq(Token), out \in Seq(Segment) :
                               Len(s) < n => Good(s, out)}
<1>1. 0 \in S
    <2>1. \A s \in Seq(Token) : ~(Len(s) < 0)
        BY LenProperties
    <2> QED BY <2>1
<1>2. ASSUME NEW n \in S, NEW s \in Seq(Token), NEW out \in Seq(Segment), Len(s) < n + 1
      PROVE  Good(s, out)
    <2> DEFINE open == Index(s, Open)
               rest == From(s, open + 1)
               close == Index(rest, Close)
               start == SubSeq(s, 1, open - 1)
               before == AppendSegment(out, start, FALSE)
               inside == SubSeq(rest, 1, close - 1)
               left == From(rest, close + 1)
               next == AppendSegment(before, inside, TRUE)
    <2>0. FALSE \in BOOLEAN /\ TRUE \in BOOLEAN
        OBVIOUS
    <2>1. Parse[s][out] = IF open = 0 THEN AppendSegment(out, s, FALSE)
                          ELSE IF close = 0 THEN AppendSegment(before, rest, FALSE)
                          ELSE Parse[left][next]
        <3>1. Parse[s] = Turn(Parse, s)
            BY ParseIs
        <3> HIDE DEF S
        <3> QED BY <3>1 DEF Turn
    <2>2. CASE open = 0
        <3>1. Parse[s][out] = AppendSegment(out, s, FALSE)
            BY <2>1, <2>2, Zenon
        <3>2. Shown(s) = Tagged(s, FALSE)
            BY <2>2, ShownPlain
        <3>3. /\ AppendSegment(out, s, FALSE) \in Seq(Segment)
              /\ Flat(AppendSegment(out, s, FALSE)) = Flat(out) \o Tagged(s, FALSE)
              /\ Apart(out) => Apart(AppendSegment(out, s, FALSE))
            BY <2>0, AppendSegmentIs
        <3> QED BY <3>1, <3>2, <3>3, Zenon
    <2>3. ASSUME open # 0
          PROVE  /\ open \in 1..Len(s) /\ rest \in Seq(Token) /\ close \in 0..Len(rest)
                 /\ left \in Seq(Token) /\ Len(left) < Len(s) /\ start \in Seq(Token)
                 /\ before \in Seq(Segment)
                 /\ Flat(before) = Flat(out) \o Tagged(start, FALSE)
                 /\ Apart(out) => Apart(before)
        <3>1. /\ open \in 1..Len(s) /\ rest \in Seq(Token) /\ close \in 0..Len(rest)
              /\ left \in Seq(Token) /\ Len(left) < Len(s)
            BY <2>3, TurnSplits
        <3> HIDE DEF open, left, close, rest
        <3>2. start \in Seq(Token)
            BY <3>1, BeforeIs
        <3> HIDE DEF start
        <3>3. /\ before \in Seq(Segment)
              /\ Flat(before) = Flat(out) \o Tagged(start, FALSE)
              /\ Apart(out) => Apart(before)
            BY <3>2, <2>0, AppendSegmentIs
        <3> QED BY <3>1, <3>2, <3>3
    <2>4. CASE open # 0 /\ close = 0
        <3>1. Parse[s][out] = AppendSegment(before, rest, FALSE)
            BY <2>1, <2>4, Zenon
        <3>2. Shown(s) = Tagged(start, FALSE) \o Tagged(rest, FALSE)
            BY <2>4, ShownCut
        <3> HIDE DEF open, rest, close, start, before
        <3>3. /\ AppendSegment(before, rest, FALSE) \in Seq(Segment)
              /\ Flat(AppendSegment(before, rest, FALSE)) = Flat(before) \o Tagged(rest, FALSE)
              /\ Apart(before) => Apart(AppendSegment(before, rest, FALSE))
            BY <2>0, <2>3, <2>4, AppendSegmentIs
        <3> DEFINE x == Flat(out)
                   y == Tagged(start, FALSE)
                   z == Tagged(rest, FALSE)
        <3>4. x \in Seq(Shows) /\ y \in Seq(Shows) /\ z \in Seq(Shows)
            <4>1. [text |-> <<>>, highlight |-> FALSE] \in Segment
                BY <2>0 DEF Segment
            <4> QED BY <4>1, <2>0, <2>3, <2>4, FlatAppend, TaggedIs
        <3>5. (x \o y) \o z = x \o (y \o z)
            <4> HIDE DEF x, y, z
            <4> QED BY <3>4, Associate, Zenon
        <3> QED BY <3>1, <3>2, <3>3, <3>5, <2>3, <2>4, Zenon
    <2>5. CASE open # 0 /\ close # 0
        <3>1. Parse[s][out] = Parse[left][next]
            BY <2>1, <2>5, Zenon
        <3>2. Shown(s) = Tagged(start, FALSE) \o (Tagged(inside, TRUE) \o Shown(left))
            BY <2>5, ShownPair
        <3>3. inside \in Seq(Token)
            <4> HIDE DEF open, rest, close
            <4>1. close \in 1..Len(rest) /\ rest \in Seq(Token)
                BY <2>3, <2>5
            <4> QED BY <4>1, BeforeIs
        <3> HIDE DEF open, rest, close, start, before, inside
        <3>4. /\ next \in Seq(Segment)
              /\ Flat(next) = Flat(before) \o Tagged(inside, TRUE)
              /\ Apart(before) => Apart(next)
            BY <2>0, <2>3, <2>5, <3>3, AppendSegmentIs
        <3> HIDE DEF left, next
        <3>5. Len(left) < n /\ left \in Seq(Token)
            <4>1. Len(left) \in Nat /\ Len(s) \in Nat /\ n \in Nat /\ Len(left) < Len(s)
                BY <2>3, <2>5, LenProperties
            <4> QED BY <4>1, <1>2, <2>3, <2>5
        <3>6. Good(left, next)
            BY <3>4, <3>5, Zenon
        <3> DEFINE w == Flat(out)
                   x == Tagged(start, FALSE)
                   y == Tagged(inside, TRUE)
                   z == Shown(left)
        <3>7. w \in Seq(Shows) /\ x \in Seq(Shows) /\ y \in Seq(Shows) /\ z \in Seq(Shows)
            <4>1. [text |-> <<>>, highlight |-> FALSE] \in Segment
                BY <2>0 DEF Segment
            <4> QED BY <4>1, <2>0, <2>3, <2>5, <3>3, FlatAppend, TaggedIs, ShownIsPiece
        <3>8. ((w \o x) \o y) \o z = w \o (x \o (y \o z))
            <4> HIDE DEF w, x, y, z
            <4>1. w \o x \in Seq(Shows) /\ y \o z \in Seq(Shows)
                BY <3>7, ConcatProperties
            <4>2. ((w \o x) \o y) \o z = (w \o x) \o (y \o z)
                BY <4>1, <3>7, Associate, Zenon
            <4>3. (w \o x) \o (y \o z) = w \o (x \o (y \o z))
                BY <4>1, <3>7, Associate, Zenon
            <4> QED BY <4>2, <4>3
        <3> QED BY <3>1, <3>2, <3>4, <3>6, <3>8, <2>3, <2>5, Zenon
    <2> QED BY <2>2, <2>4, <2>5
<1>3. S = Nat
    <2>1. ASSUME NEW n \in S PROVE n + 1 \in S
        <3>1. n + 1 \in Nat
            OBVIOUS
        <3> HIDE DEF Good
        <3> QED BY <1>2, <3>1, Zenon
    <2> HIDE DEF S
    <2>2. S \subseteq Nat
        BY DEF S
    <2> QED BY <1>1, <2>1, <2>2, AllNumbers
<1>4. Len(text) + 1 \in S /\ Len(text) < Len(text) + 1
    <2> HIDE DEF S
    <2> QED BY <1>3, LenProperties
<1> QED BY <1>4, Zenon

-----------------------------------------------------------------------------
(* The tags of the HTML page                                               *)

\* A marker opens where an Open is met outside of a pair.
LEMMA OpensOutside ==
    ASSUME NEW s \in Seq(Token), NEW i \in 1..Len(s)
    PROVE  Opens(s, i) <=> s[i] = Open /\ ~After(s, i)
<1>1. ASSUME Opens(s, i), After(s, i) PROVE FALSE
    <2>1. PICK j \in 1..(i - 1) : Opens(s, j) /\ \A k \in j..(i - 1) : s[k] # Close
        BY <1>1 DEF After
    <2>2. PICK k \in j..i : s[k] = Close
        BY <1>1, <2>1 DEF Opens
    <2>3. k = i \/ k \in j..(i - 1)
        OBVIOUS
    <2> QED BY <1>1, <2>1, <2>2, <2>3, Markers DEF Opens
<1>2. ASSUME s[i] = Open, ~Opens(s, i) PROVE After(s, i)
    <2> DEFINE J == {j \in 1..(i - 1) : s[j] = Open /\ \A k \in j..i : s[k] # Close}
    <2>1. J # {}
        BY <1>2 DEF Opens
    <2>2. PICK j \in J : \A l \in J : j <= l
        <3>1. J \subseteq Nat
            OBVIOUS
        <3> HIDE DEF J
        <3> QED BY <2>1, <3>1, LeastNumber
    <2>3. Opens(s, j)
        <3> SUFFICES ASSUME NEW l \in 1..(j - 1), s[l] = Open PROVE \E k \in l..j : s[k] = Close
            BY DEF Opens
        <3> SUFFICES ASSUME \A k \in l..j : s[k] # Close PROVE FALSE
            OBVIOUS
        <3>1. \A k \in l..i : s[k] # Close
            <4> TAKE k \in l..i
            <4>1. k \in l..j \/ k \in j..i
                OBVIOUS
            <4> QED BY <4>1
        <3>2. l \in J
            BY <3>1
        <3>3. j <= l
            BY <2>2, <3>2
        <3> QED BY <3>3
    <2>4. j \in 1..(i - 1) /\ \A k \in j..(i - 1) : s[k] # Close
        OBVIOUS
    <2> HIDE DEF J
    <2> QED BY <2>3, <2>4 DEF After
<1>3. Opens(s, i) => s[i] = Open
    BY DEF Opens
<1> QED BY <1>1, <1>2, <1>3

\* One position on.
LEMMA AfterNext ==
    ASSUME NEW s \in Seq(Token), NEW i \in 1..Len(s)
    PROVE  After(s, i + 1) <=> s[i] # Close /\ (Opens(s, i) \/ After(s, i))
<1>1. ASSUME After(s, i + 1) PROVE s[i] # Close /\ (Opens(s, i) \/ After(s, i))
    <2>1. PICK j \in 1..i : Opens(s, j) /\ \A k \in j..i : s[k] # Close
        BY <1>1 DEF After
    <2>2. i \in j..i
        OBVIOUS
    <2>3. CASE j = i
        BY <2>1, <2>2, <2>3
    <2>4. CASE j # i
        <3>1. j \in 1..(i - 1) /\ \A k \in j..(i - 1) : s[k] # Close
            BY <2>1, <2>4
        <3>2. After(s, i)
            BY <2>1, <3>1 DEF After
        <3> QED BY <2>1, <2>2, <3>2
    <2> QED BY <2>3, <2>4
<1>2. ASSUME s[i] # Close, Opens(s, i) PROVE After(s, i + 1)
    <2>1. i \in 1..((i + 1) - 1) /\ \A k \in i..((i + 1) - 1) : s[k] # Close
        BY <1>2
    <2> QED BY <2>1, <1>2 DEF After
<1>3. ASSUME s[i] # Close, After(s, i) PROVE After(s, i + 1)
    <2>1. PICK j \in 1..(i - 1) : Opens(s, j) /\ \A k \in j..(i - 1) : s[k] # Close
        BY <1>3 DEF After
    <2>2. j \in 1..((i + 1) - 1) /\ \A k \in j..((i + 1) - 1) : s[k] # Close
        <3>1. \A k \in j..((i + 1) - 1) : k = i \/ k \in j..(i - 1)
            OBVIOUS
        <3> QED BY <3>1, <2>1, <1>3
    <2> QED BY <2>1, <2>2 DEF After
<1> QED BY <1>1, <1>2, <1>3

\* In a text of pairs, what is after a marker has the end of the pair ahead.
LEMMA PairsClose ==
    ASSUME NEW s \in Seq(Token), Pairs(s), NEW i \in 1..Len(s), After(s, i)
    PROVE  \E k \in i..Len(s) : s[k] = Close
<1> SUFFICES ASSUME \A k \in i..Len(s) : s[k] # Close PROVE FALSE
    OBVIOUS
<1> DEFINE u == Append(s, "word")
           n == Len(s)
<1>1. n \in Nat /\ \A k \in 1..n : u[k] = s[k]
    OBVIOUS
<1> HIDE DEF u
<1>2. PICK j \in 1..(i - 1) : Opens(s, j) /\ \A k \in j..(i - 1) : s[k] # Close
    BY DEF After
<1>3. Opens(u, j)
    <2>1. u[j] = Open
        BY <1>1, <1>2 DEF Opens
    <2>2. ASSUME NEW l \in 1..(j - 1), u[l] = Open PROVE \E k \in l..j : u[k] = Close
        <3>1. s[l] = Open
            BY <1>1, <2>2
        <3>2. PICK k \in l..j : s[k] = Close
            BY <1>2, <3>1 DEF Opens
        <3>3. k \in 1..n
            OBVIOUS
        <3> QED BY <3>2, <3>3, <1>1
    <2> QED BY <2>1, <2>2 DEF Opens
<1>4. \A k \in j..((n + 1) - 1) : u[k] # Close
    <2> TAKE k \in j..((n + 1) - 1)
    <2>1. k \in 1..n /\ (k \in j..(i - 1) \/ k \in i..n)
        OBVIOUS
    <2> QED BY <2>1, <1>1, <1>2
<1>5. j \in 1..((n + 1) - 1)
    BY <1>1
<1>6. After(u, n + 1)
    BY <1>3, <1>4, <1>5 DEF After
<1> QED BY <1>6 DEF Pairs, u

\* Cardinalities that count up to a position.
LEMMA BeforeNext ==
    ASSUME NEW html, NEW tag, NEW i \in Nat \ {0}
    PROVE  /\ TagsBefore(html, 1, tag) = 0
           /\ TagsBefore(html, i, tag) \in Nat
           /\ TagsBefore(html, i + 1, tag) = TagsBefore(html, i, tag) + (IF html[i] = tag THEN 1 ELSE 0)
<1> DEFINE B(n) == {j \in 1..(n - 1) : html[j] = tag}
<1>1. B(1) = {}
    OBVIOUS
<1>2. IsFiniteSet(B(i))
    <2>1. B(i) \subseteq 1..(i - 1) /\ IsFiniteSet(1..(i - 1))
        BY FS_Interval
    <2> QED BY <2>1, FS_Subset
<1>3. i \notin B(i)
    OBVIOUS
<1>4. B(i + 1) = IF html[i] = tag THEN B(i) \cup {i} ELSE B(i)
    OBVIOUS
<1>5. \A n : TagsBefore(html, n, tag) = Cardinality(B(n))
    BY DEF TagsBefore
<1> HIDE DEF B
<1>6. Cardinality(B(i) \cup {i}) = Cardinality(B(i)) + 1
    BY <1>2, <1>3, FS_AddElement
<1>7. Cardinality(B(i)) \in Nat /\ Cardinality(B(1)) = 0
    BY <1>1, <1>2, FS_CardinalityType, FS_EmptySet
<1> QED BY <1>4, <1>5, <1>6, <1>7

\* A tag where there was a marker, and nowhere else; nothing where the page
\* leaves something out.
LEMMA SnippetIs ==
    ASSUME NEW s \in Seq(Token), Bare(s), NEW i \in 1..Len(s)
    PROVE  /\ Snippet(s)[i] = "<mark>" <=> s[i] = Open
           /\ Snippet(s)[i] = "</mark>" <=> s[i] = Close
           /\ s[i] = "word" => Snippet(s)[i] = "word"
           /\ s[i] \in {"<", ">"} => Snippet(s)[i] = ""
<1> DEFINE c == IF Dropped(s, i) THEN "" ELSE s[i]
<1>1. s[i] \in {"word", "<", ">", Open, Close}
    BY DEF Token
<1>2. Snippet(s)[i] = CASE c = Open -> "<mark>" [] c = Close -> "</mark>" [] OTHER -> c
    BY DEF Snippet, Sanitize
<1>3. c = IF s[i] \in {"<", ">"} THEN "" ELSE s[i]
    BY DEF Bare
<1> HIDE DEF c
<1>4. CASE s[i] = "word"
    BY <1>2, <1>3, <1>4 DEF Open, Close
<1>5. CASE s[i] = Open
    BY <1>2, <1>3, <1>5 DEF Open, Close
<1>6. CASE s[i] = Close
    BY <1>2, <1>3, <1>6 DEF Open, Close
<1>7. CASE s[i] \in {"<", ">"}
    BY <1>2, <1>3, <1>7 DEF Open, Close
<1> QED BY <1>1, <1>4, <1>5, <1>6, <1>7

\* Of well-marked texts the browser has as many tags open as there are markers.
LEMMA MarksOpen ==
    ASSUME NEW s \in Seq(Token), WellMarked(s), Bare(s), NEW p \in 1..Len(s)
    PROVE  InMark(Snippet(s), p) <=> After(s, p)
<1> DEFINE h == Snippet(s)
           o(i) == TagsBefore(h, i, "<mark>")
           c(i) == TagsBefore(h, i, "</mark>")
           S == {n \in Nat : n \in 1..Len(s) => o(n) = c(n) + (IF After(s, n) THEN 1 ELSE 0)}
<1>1. \A i \in Nat \ {0} :
        /\ o(1) = 0 /\ c(1) = 0 /\ o(i) \in Nat /\ c(i) \in Nat
        /\ o(i + 1) = o(i) + (IF h[i] = "<mark>" THEN 1 ELSE 0)
        /\ c(i + 1) = c(i) + (IF h[i] = "</mark>" THEN 1 ELSE 0)
    BY BeforeNext
<1>2. \A i \in 1..Len(s) : /\ h[i] = "<mark>" <=> s[i] = Open
                           /\ h[i] = "</mark>" <=> s[i] = Close
    BY SnippetIs
<1> HIDE DEF h, o, c
<1>3. 0 \in S
    OBVIOUS
<1>4. ASSUME NEW n \in S PROVE n + 1 \in S
    <2> SUFFICES ASSUME n + 1 \in 1..Len(s)
                 PROVE  o(n + 1) = c(n + 1) + (IF After(s, n + 1) THEN 1 ELSE 0)
        <3>1. n + 1 \in Nat
            OBVIOUS
        <3> QED BY <3>1, Zenon
    <2>1. CASE n = 0
        <3>1. ~After(s, 1)
            BY DEF After
        <3>2. o(1) = 0 /\ c(1) = 0
            BY <1>1
        <3> QED BY <2>1, <3>1, <3>2
    <2>2. CASE n # 0
        <3>1. n \in 1..Len(s) /\ n \in Nat \ {0}
            BY <2>2
        <3>2. o(n) = c(n) + (IF After(s, n) THEN 1 ELSE 0)
            BY <3>1
        <3> HIDE DEF S
        <3>3. /\ o(n) \in Nat /\ c(n) \in Nat
              /\ o(n + 1) = o(n) + (IF s[n] = Open THEN 1 ELSE 0)
              /\ c(n + 1) = c(n) + (IF s[n] = Close THEN 1 ELSE 0)
            BY <3>1, <1>1, <1>2
        <3>4. After(s, n + 1) <=> s[n] # Close /\ (Opens(s, n) \/ After(s, n))
            BY <3>1, AfterNext
        <3>5. Opens(s, n) <=> s[n] = Open /\ ~After(s, n)
            BY <3>1, OpensOutside
        <3>6. CASE s[n] = Open
            <4>1. ~After(s, n)
                BY <3>1, <3>6, Markers DEF WellMarked
            <4> QED BY <3>2, <3>3, <3>4, <3>5, <3>6, <4>1, Markers
        <3>7. CASE s[n] = Close
            <4>1. After(s, n)
                BY <3>1, <3>7, Markers DEF WellMarked
            <4> QED BY <3>2, <3>3, <3>4, <3>5, <3>7, <4>1, Markers
        <3>8. CASE s[n] # Open /\ s[n] # Close
            BY <3>2, <3>3, <3>4, <3>5, <3>8
        <3> QED BY <3>6, <3>7, <3>8
    <2> QED BY <2>1, <2>2
<1>5. S = Nat
    <2> HIDE DEF S
    <2>1. S \subseteq Nat
        BY DEF S
    <2> QED BY <1>3, <1>4, <2>1, AllNumbers
<1>6. o(p) = c(p) + (IF After(s, p) THEN 1 ELSE 0)
    <2>1. p \in S
        <3> HIDE DEF S
        <3> QED BY <1>5
    <2> QED BY <2>1
<1>7. o(p) \in Nat /\ c(p) \in Nat
    BY <1>1
<1>8. o(p) > c(p) <=> After(s, p)
    BY <1>6, <1>7
<1> QED BY <1>8 DEF InMark, h, o, c

\* What Untagged leaves of one token that is shown.
Untag == [c \in Shows |-> IF c[1] \in {"<", ">"} THEN <<>> ELSE <<c>>]

\* Of a cell with a token, of an empty one, and of what is shown of a text.
LEMMA UntagIs ==
    /\ Untag \in [Shows -> Seq(Shows)]
    /\ \A c \in Shows : FlattenSeq(Each(Untag, <<c>>)) = Untag[c]
    /\ FlattenSeq(Each(Untag, <<>>)) = <<>>
    /\ \A flat \in Seq(Shows) : Untagged(flat) = FlattenSeq(Each(Untag, flat))
<1>1. Untag \in [Shows -> Seq(Shows)]
    BY DEF Untag
<1>2. ASSUME NEW c \in Shows PROVE FlattenSeq(Each(Untag, <<c>>)) = Untag[c]
    <2> DEFINE x == Untag[c]
    <2>1. x \in Seq(Shows)
        BY <1>1
    <2>2. Each(Untag, <<c>>) = <<x>>
        BY DEF Each
    <2> HIDE DEF x
    <2>3. <<>> \in Seq(Seq(Shows)) /\ Append(<<>>, x) = <<x>> /\ <<>> \o x = x
        BY <2>1, ConcatEmptySeq
    <2>4. FlattenSeq(Append(<<>>, x)) = FlattenSeq(<<>>) \o x
        BY <2>1, <2>3, FlattenAppend
    <2> QED BY <2>2, <2>3, <2>4, FlattenEmpty DEF x
<1>3. FlattenSeq(Each(Untag, <<>>)) = <<>>
    <2>1. Each(Untag, <<>>) = <<>>
        BY DEF Each
    <2> QED BY <2>1, FlattenEmpty
<1>4. ASSUME NEW flat \in Seq(Shows) PROVE Untagged(flat) = FlattenSeq(Each(Untag, flat))
    <2> DEFINE u == [n \in 1..Len(flat) |->
                       IF flat[n][1] \in {"<", ">"} THEN <<>> ELSE << flat[n] >>]
    <2>1. DOMAIN flat = 1..Len(flat) /\ \A n \in 1..Len(flat) : flat[n] \in Shows
        OBVIOUS
    <2>2. u = Each(Untag, flat)
        BY <2>1 DEF Each, Untag
    <2> QED BY <2>2 DEF Untagged
<1> QED BY <1>1, <1>2, <1>3, <1>4

\* The page and the API agree on a text of pairs, of any length.
LEMMA PairsRenderAlike ==
    ASSUME NEW s \in Seq(Token), Pairs(s), Bare(s)
    PROVE  Rendered(Snippet(s)) = Untagged(Shown(s))
<1> DEFINE h == Snippet(s)
           cell(i) == IF h[i] \in {"", "<mark>", "</mark>"} THEN <<>>
                      ELSE << <<h[i], InMark(h, i)>> >>
           shows(i) == <<s[i], Highlighted(s, i)>>
<1>1. Len(h) = Len(s)
    BY DEF Snippet
<1>2. ASSUME NEW i \in 1..Len(s)
      PROVE  cell(i) = IF Consumed(s, i) THEN <<>> ELSE Untag[shows(i)]
    <2>1. /\ h[i] = "<mark>" <=> s[i] = Open
          /\ h[i] = "</mark>" <=> s[i] = Close
          /\ s[i] = "word" => h[i] = "word"
          /\ s[i] \in {"<", ">"} => h[i] = ""
        BY SnippetIs
    <2>2. InMark(h, i) <=> After(s, i)
        BY MarksOpen DEF Pairs
    <2>3. Opens(s, i) <=> s[i] = Open /\ ~After(s, i)
        BY OpensOutside
    <2>4. s[i] \in {Open, Close} => s[i] = IF After(s, i) THEN Close ELSE Open
        BY DEF Pairs, WellMarked
    <2>5. s[i] \in {"word", "<", ">", Open, Close}
        BY DEF Token
    <2>6. InMark(h, i) \in BOOLEAN /\ Highlighted(s, i) \in BOOLEAN
        <3>1. InMark(h, i) \in BOOLEAN
            BY DEF InMark
        <3>2. Highlighted(s, i) \in BOOLEAN
            BY Zenon DEF Highlighted
        <3> QED BY <3>1, <3>2
    <2>7. After(s, i) <=> Highlighted(s, i)
        BY PairsClose DEF Highlighted
    <2> HIDE DEF h
    <2>8. InMark(h, i) = Highlighted(s, i)
        <3>1. CASE Highlighted(s, i)
            <4>1. Highlighted(s, i) = TRUE /\ InMark(h, i) = TRUE
                BY <3>1, <2>2, <2>6, <2>7
            <4> QED BY <4>1, Zenon
        <3>2. CASE ~Highlighted(s, i)
            <4>1. Highlighted(s, i) = FALSE /\ InMark(h, i) = FALSE
                BY <3>2, <2>2, <2>6, <2>7
            <4> QED BY <4>1, Zenon
        <3> QED BY <3>1, <3>2
    <2>9. shows(i) \in Shows /\ shows(i)[1] = s[i]
        <3>1. s[i] \in Token
            BY ElementOfSeq
        <3> QED BY <3>1, <2>6, Zenon DEF Shows
    <2> HIDE DEF shows
    <2>10. Untag[shows(i)] = IF s[i] \in {"<", ">"} THEN <<>> ELSE <<shows(i)>>
        BY <2>9 DEF Untag
    <2>11. CASE s[i] \in {Open, Close}
        <3>1. Consumed(s, i)
            BY <2>11, <2>3, <2>4 DEF Consumed
        <3>2. h[i] \in {"", "<mark>", "</mark>"}
            BY <2>11, <2>1
        <3> QED BY <3>1, <3>2, Zenon
    <2>12. CASE s[i] \notin {Open, Close}
        <3>1. ~Consumed(s, i)
            BY <2>12, <2>3 DEF Consumed
        <3>2. CASE s[i] = "word"
            <4>1. h[i] = s[i] /\ h[i] \notin {"", "<mark>", "</mark>"}
                BY <3>2, <2>1
            <4>2. s[i] \notin {"<", ">"}
                BY <3>2
            <4> QED BY <3>1, <4>1, <4>2, <2>8, <2>10, Zenon DEF shows
        <3>3. CASE s[i] \in {"<", ">"}
            <4>1. h[i] \in {"", "<mark>", "</mark>"}
                BY <3>3, <2>1
            <4> QED BY <3>1, <3>3, <4>1, <2>10, Zenon
        <3> QED BY <2>5, <2>12, <3>2, <3>3
    <2> QED BY <2>11, <2>12
<1>3. Rendered(h) = FlattenSeq([i \in 1..Len(s) |-> cell(i)])
    BY <1>1 DEF Rendered
<1> DEFINE d == Cells(s)
<1>4. ASSUME NEW i \in 1..Len(s) PROVE FlattenSeq(Each(Untag, d[i])) = cell(i)
    <2>1. d[i] = IF Consumed(s, i) THEN <<>> ELSE <<shows(i)>>
        BY DEF Cells
    <2>2. shows(i) \in Shows
        <3>1. s[i] \in Token
            BY ElementOfSeq
        <3>2. Highlighted(s, i) \in BOOLEAN
            BY Zenon DEF Highlighted
        <3> QED BY <3>1, <3>2, Zenon DEF Shows
    <2> HIDE DEF cell, d, shows
    <2>3. FlattenSeq(Each(Untag, <<shows(i)>>)) = Untag[shows(i)]
        BY <2>2, UntagIs
    <2>4. FlattenSeq(Each(Untag, <<>>)) = <<>>
        BY UntagIs
    <2> QED BY <1>2, <2>1, <2>3, <2>4, Zenon
<1>5. d \in Seq(Seq(Shows)) /\ Len(d) = Len(s)
    BY CellsType
<1> HIDE DEF d, cell, h, shows
<1>6. [i \in 1..Len(d) |-> FlattenSeq(Each(Untag, d[i]))] = [i \in 1..Len(s) |-> cell(i)]
    BY <1>4, <1>5
<1>7. FlattenSeq(Each(Untag, FlattenSeq(d)))
        = FlattenSeq([i \in 1..Len(d) |-> FlattenSeq(Each(Untag, d[i]))])
    <2>1. Untag \in [Shows -> Seq(Shows)]
        BY UntagIs
    <2> QED BY ONLY <1>5, <2>1, FlattenEach
<1>8. FlattenSeq(d) \in Seq(Shows)
    BY <1>5, FlattenType
<1>9. Untagged(FlattenSeq(d)) = FlattenSeq(Each(Untag, FlattenSeq(d)))
    BY <1>8, UntagIs
<1>10. Shown(s) = FlattenSeq(d)
    BY DEF Shown, d
<1> QED BY <1>3, <1>6, <1>7, <1>9, <1>10 DEF h

-----------------------------------------------------------------------------
(* The theorems                                                            *)

\* What a walk relies on between its requests (ListItems, Search and the item
\* lists of the pages): the page that was counted is inside of the list, the
\* reader is never sent past its end, and what it has not read is after what it
\* has, however long the list, whatever the size of a page.
THEOREM PagingInvariant == Spec => []PagingInv
<1>1. Init => PagingInv
    BY PagingInitInv
<1>2. PagingInv /\ [Next]_vars => PagingInv'
    <2> SUFFICES ASSUME PagingInv, [Next]_vars PROVE PagingInv'
        OBVIOUS
    <2>1. CASE Reader
        BY <2>1, StartInv, CountInv, ReadRowsInv, FollowInv, EndInv, GiveUpInv DEF Reader
    <2>2. CASE \E i \in Item : Arrives(i) \/ Leaves(i) \/ Returns(i) \/ Deleted(i)
        BY <2>2, TablesInv
    <2>3. CASE UNCHANGED vars
        BY <2>3, PagingStutterInv
    <2>4. CASE Reranks
        BY <2>4, ReranksInv
    <2>5. QED
        BY <2>1, <2>2, <2>3, <2>4 DEF Next
<1>3. QED
    BY <1>1, <1>2, PTL DEF Spec

\* A reader that follows next from the first page to the last has seen every
\* item that was in the list all the time, unless one left it or one entered
\* between a page's two statements; what nothing touches it has seen once and in
\* order: a list while it stays as it is, or a search while no item at all comes
\* or goes, since each can give a search another order.
THEOREM WalkAlwaysSeesAll == Spec => []WalkSeesAll
<1>1. PagingInv => WalkSeesAll
    BY DEF PagingInv
<1>2. QED
    BY <1>1, PagingInvariant, PTL

\* A page is empty only if its own count was zero, or items left the list between
\* its two statements, whichever page was asked for (effectivePage and paginate
\* clamp it).
THEOREM NeverAnEmptyPageAlways == Spec => []NeverAnEmptyPage
<1>1. PagingInv => NeverAnEmptyPage
    BY DEF PagingInv
<1>2. QED
    BY <1>1, PagingInvariant, PTL

\* The neighbours on an item's page (adjacentItemID) are the item's neighbours
\* in the list of all items, also among items published at the same second.
THEOREM NeighboursAlwaysMatch == Spec => []NeighboursMatchList
<1>1. PagingInv => NeighboursMatchList
    BY NeighboursByPlace DEF PagingInv, PagingTypeOK, NeighboursMatchList
<1>2. QED
    BY <1>1, PagingInvariant, PTL

\* A result's snippet is some text, as the two routes answer it.
HitOK ==
    \E t \in Seq(Token) :
        hit = [text |-> t, segments |-> ParseSnippet(t), html |-> Snippet(t)]

\* No snippet at all is the snippet of an empty text.
LEMMA EmptyHit ==
    NoHit = [text |-> <<>>, segments |-> ParseSnippet(<<>>), html |-> Snippet(<<>>)]
<1>1. <<>> \in Seq(Token) /\ <<>> \in Seq(Segment) /\ Len(<<>>) = 0
    OBVIOUS
<1>2. Index(<<>>, Open) = 0
    <2>1. Index(<<>>, Open) \in 0..Len(<<>>)
        BY <1>1, IndexIs, Zenon
    <2> QED BY <2>1, <1>1
<1>3. ParseSnippet(<<>>) = <<>>
    <2>1. Turn(Parse, <<>>)[<<>>] = AppendSegment(<<>>, <<>>, FALSE)
        BY <1>1, <1>2, Zenon DEF Turn
    <2>2. AppendSegment(<<>>, <<>>, FALSE) = <<>>
        BY Zenon DEF AppendSegment
    <2>3. Parse[<<>>] = Turn(Parse, <<>>)
        BY <1>1, ParseIs, Zenon
    <2> QED BY <2>1, <2>2, <2>3, Zenon DEF ParseSnippet
<1>4. Snippet(<<>>) = <<>>
    BY DEF Snippet
<1> QED BY <1>3, <1>4 DEF NoHit

\* Every answer is the answer to some text.
LEMMA HitsAreTexts == NoHit' = NoHit /\ (hit' \in AllHits \cup {NoHit} => HitOK')
<1>1. NoHit' = NoHit
    BY DEF NoHit
<1>2. ASSUME hit' = NoHit PROVE HitOK'
    <2>1. <<>> \in Seq(Token)
        OBVIOUS
    <2> QED BY <1>2, <2>1, EmptyHit DEF HitOK
<1>3. ASSUME hit' \in AllHits PROVE HitOK'
    <2>1. PICK t \in BoundedSeq(Token, MaxText) :
            hit' = [text |-> t, segments |-> ParseSnippet(t), html |-> Snippet(t)]
        BY <1>3 DEF AllHits
    <2>2. t \in Seq(Token)
        BY PagingAssumption DEF BoundedSeq, SeqOf
    <2> QED BY <2>1, <2>2 DEF HitOK
<1> QED BY <1>1, <1>2, <1>3

\* So is the one that is looked at, in every state.
LEMMA HitInvariant == Spec => []HitOK
<1>1. Init => HitOK
    <2>1. <<>> \in Seq(Token)
        OBVIOUS
    <2> QED BY <2>1, EmptyHit DEF Init, HitOK
<1>2. HitOK /\ [Next]_vars => HitOK'
    <2> SUFFICES ASSUME HitOK, [Next]_vars PROVE HitOK'
        OBVIOUS
    <2>1. CASE hit' = hit
        BY <2>1 DEF HitOK
    <2>2. CASE hit' = NoHit
        BY <2>2, HitsAreTexts
    <2>3. CASE ReadRows
        <3>1. hit' \in AllHits \cup {NoHit}
            BY <2>3 DEF ReadRows, Hits
        <3> QED BY <3>1, HitsAreTexts
    <2>4. hit' = hit \/ hit' = NoHit \/ ReadRows
        BY DEF Next, vars, Reader, Start, Count, Follow, End, GiveUp,
               Arrives, Leaves, Returns, Deleted, Becomes, Reranks
    <2> QED BY <2>1, <2>2, <2>3, <2>4
<1> QED BY <1>1, <1>2, PTL DEF Spec

\* parseSnippet, on a text of any length, however its markers are nested, cut
\* off or left open: each token but the markers of the pairs is shown once and
\* in order, highlighted inside of the pairs only, and no segment is empty or
\* of the kind of its neighbour.
THEOREM SegmentsAlwaysMatch == Spec => []SegmentsMatchMarkers
<1>1. ASSUME HitOK PROVE SegmentsMatchMarkers
    <2>1. PICK t \in Seq(Token) :
            hit = [text |-> t, segments |-> ParseSnippet(t), html |-> Snippet(t)]
        BY <1>1 DEF HitOK
    <2> DEFINE segs == ParseSnippet(t)
    <2>2. <<>> \in Seq(Segment) /\ Apart(<<>>) /\ Flat(<<>>) = <<>>
        BY FlattenEmpty DEF Apart, Flat
    <2>3. segs \in Seq(Segment) /\ Flat(segs) = <<>> \o Shown(t) /\ Apart(segs)
        BY <2>2, ParseShows, Zenon DEF ParseSnippet
    <2>4. <<>> \o Shown(t) = Shown(t)
        BY ShownIsPiece, ConcatEmptySeq
    <2>5. hit.segments = segs /\ hit.text = t
        BY <2>1
    <2> QED BY <2>3, <2>4, <2>5, Zenon DEF SegmentsMatchMarkers, Apart
<1> QED BY <1>1, HitInvariant, PTL

\* sanitize.Snippet and parseSnippet, on every text whose markers are in pairs
\* and outside of what the page leaves out, so that the sanitiser, which comes
\* first, keeps them: the page and the API highlight the same words.
THEOREM RoutesAlwaysHighlightAlike == Spec => []RoutesHighlightAlike
<1>1. ASSUME HitOK, SegmentsMatchMarkers PROVE RoutesHighlightAlike
    <2>1. PICK t \in Seq(Token) :
            hit = [text |-> t, segments |-> ParseSnippet(t), html |-> Snippet(t)]
        BY <1>1 DEF HitOK
    <2>2. hit.text = t /\ hit.html = Snippet(t)
        BY <2>1
    <2>3. Pairs(t) /\ Bare(t) => Rendered(Snippet(t)) = Untagged(Shown(t))
        BY PairsRenderAlike
    <2>4. Flat(hit.segments) = Shown(t)
        BY <1>1, <2>2 DEF SegmentsMatchMarkers
    <2> QED BY <2>2, <2>3, <2>4, Zenon DEF RoutesHighlightAlike
<1> QED BY <1>1, HitInvariant, SegmentsAlwaysMatch, PTL
=============================================================================
