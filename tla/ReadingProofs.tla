---------------------------- MODULE ReadingProofs ----------------------------
(***************************************************************************)
(* Proofs about Reading, for any number of users, feeds, items and requests *)
(* and any retention period.  ReadingInv is inductive: UnseenKept needs to  *)
(* know that a request about to mark an id was made by somebody who noticed *)
(* it, and that what was noticed has an id that is not handed out again.    *)
(***************************************************************************)
EXTENDS Reading, TLAPS

LEMMA InitInv == Init => ReadingInv
<1> SUFFICES ASSUME Init PROVE ReadingInv
  OBVIOUS
<1> USE DEF Init
<1>1. TypeOK
  BY DEF TypeOK
<1>2. UnseenKept
  BY ReadingAssumption DEF UnseenKept, NoEntry
<1>3. StarredKept /\ SearchMatchesRows /\ OneRowPerEntry /\ HistoryOfEntries
  BY DEF StarredKept, SearchMatchesRows, OneRowPerEntry, HistoryOfEntries
<1>4. OpenedIsNoticed
  BY DEF OpenedIsNoticed, Idle
<1> QED
  BY <1>1, <1>2, <1>3, <1>4 DEF ReadingInv

-----------------------------------------------------------------------------
(* Rows arrive                                                             *)

\* What a fetch leaves of the ids: an id that names an entry keeps it, and the
\* ids handed out name the entries the document brought.
LEMMA FreshRows ==
    ASSUME ReadingInv, NEW f \in feeds, NEW new \in SUBSET Guid, NEW batch,
           \A g \in new : ~Stored(f, g),
           FreshIds(new, batch), InsertRows(f, batch)
    PROVE  /\ Added(batch) \subseteq Item \ items
           /\ \A i \in Item : entry[i] # NoEntry => entry'[i] = entry[i]
           /\ \A i \in Added(batch) :
                /\ entry'[i] \in Entry /\ entry'[i] # NoEntry
                /\ entry'[i].feed = f
                /\ entry'[i].guid = batch[i] /\ batch[i] \in new
           /\ \A i \in Item \ Added(batch) : entry'[i] = entry[i]
           /\ entry' \in [Item -> Entry \cup {NoEntry}]
           /\ items' = items \cup Added(batch)
           /\ index' = index \cup Added(batch)
<1> USE DEF ReadingInv, TypeOK
<1>1. Added(batch) \subseteq Item \ items
  BY DEF FreshIds, Added, HistoryOfEntries
<1>2. \A g \in Guid : Published(g) \in Nat
  BY DEF Published
<1>3. ASSUME NEW i \in Added(batch)
      PROVE  /\ entry'[i] = [feed |-> f, guid |-> batch[i],
                             published |-> Published(batch[i])]
             /\ batch[i] \in new
  BY <1>3 DEF FreshIds, InsertRows, Added
<1>4. ASSUME NEW i \in Added(batch)
      PROVE  /\ entry'[i] \in Entry /\ entry'[i] # NoEntry
             /\ entry'[i].feed = f
             /\ entry'[i].guid = batch[i] /\ batch[i] \in new
  <2>1. entry'[i] = [feed |-> f, guid |-> batch[i], published |-> Published(batch[i])]
    BY <1>3
  <2>2. batch[i] \in Guid /\ Published(batch[i]) \in Nat /\ f \in Feed
    BY <1>2, <1>3
  <2>3. entry'[i] \in Entry
    BY <2>1, <2>2 DEF Entry
  <2>4. entry'[i].feed = f /\ NoEntry.feed = None /\ f # None
    BY <2>1, <2>2, ReadingAssumption DEF NoEntry
  <2> QED
    BY <1>3, <2>1, <2>3, <2>4
<1>5. \A i \in Item \ Added(batch) : entry'[i] = entry[i]
  BY DEF InsertRows, Added
<1>6. \A i \in Item : entry[i] # NoEntry => i \notin Added(batch)
  BY DEF FreshIds, Added
<1>7. entry' \in [Item -> Entry \cup {NoEntry}]
  <2>1. entry' = [i \in Item |-> entry'[i]]
    BY DEF InsertRows
  <2> QED
    BY <2>1, <1>4, <1>5 DEF Added
<1> QED
  BY <1>1, <1>4, <1>5, <1>6, <1>7 DEF InsertRows

\* A fetch stores what its feed does not have yet, unread and not starred.
LEMMA StoreDocumentKeepsInv ==
    ASSUME ReadingInv, NEW f \in Feed, NEW doc \in SUBSET Guid,
           StoreDocument(f, doc)
    PROVE  ReadingInv'
<1> DEFINE new == {g \in doc : ~Stored(f, g)}
<1>1. PICK batch : FreshIds(new, batch) /\ InsertRows(f, batch)
  BY DEF StoreDocument
<1> DEFINE added == Added(batch)
<1>2. f \in feeds /\ UNCHANGED <<feeds, member, read, starred, today, req, history>>
  BY DEF StoreDocument
<1>3. /\ added \subseteq Item \ items
      /\ \A i \in Item : entry[i] # NoEntry => entry'[i] = entry[i]
      /\ \A i \in added :
           /\ entry'[i] \in Entry /\ entry'[i] # NoEntry
           /\ entry'[i].feed = f
           /\ entry'[i].guid = batch[i] /\ batch[i] \in new
      /\ \A i \in Item \ added : entry'[i] = entry[i]
      /\ entry' \in [Item -> Entry \cup {NoEntry}]
      /\ items' = items \cup added
      /\ index' = index \cup added
  BY <1>1, <1>2, FreshRows
<1>4. \A i, j \in added : batch[i] = batch[j] => i = j
  BY <1>1 DEF FreshIds
<1> HIDE DEF added
<1> USE DEF ReadingInv, history
<1>5. TypeOK'
  BY <1>2, <1>3 DEF TypeOK, Req, Idle
<1>6. UnseenKept'
  BY <1>2, <1>3 DEF UnseenKept, TypeOK
<1>7. StarredKept'
  BY <1>2, <1>3 DEF StarredKept, TypeOK, HistoryOfEntries
<1>8. SearchMatchesRows'
  BY <1>3 DEF SearchMatchesRows
<1>9. OneRowPerEntry'
  <2>1. ASSUME NEW i \in items', NEW j \in items',
               entry'[i].feed = entry'[j].feed, entry'[i].guid = entry'[j].guid
        PROVE  i = j
    <3>1. ASSUME NEW a \in added, NEW b \in items,
                 entry'[a].feed = entry'[b].feed, entry'[a].guid = entry'[b].guid
          PROVE  FALSE
      <4>1. entry[b].feed = f /\ entry[b].guid \in new
        BY <1>3, <3>1 DEF TypeOK
      <4> QED
        BY <4>1 DEF Stored
    <3>2. CASE i \in items /\ j \in items
      BY <1>3, <2>1, <3>2 DEF OneRowPerEntry, TypeOK
    <3>3. CASE i \in added /\ j \in added
      BY <1>3, <1>4, <2>1, <3>3
    <3> QED
      BY <1>3, <2>1, <3>1, <3>2, <3>3
  <2>2. \A i \in items' : entry'[i].feed \in feeds'
    BY <1>2, <1>3 DEF OneRowPerEntry, TypeOK
  <2> QED
    BY <2>1, <2>2 DEF OneRowPerEntry
<1>10. OpenedIsNoticed'
  BY <1>2 DEF OpenedIsNoticed
<1>11. HistoryOfEntries'
  BY <1>2, <1>3 DEF HistoryOfEntries, TypeOK
<1> QED
  BY <1>5, <1>6, <1>7, <1>8, <1>9, <1>10, <1>11

-----------------------------------------------------------------------------
(* Rows go                                                                 *)

\* Rows may go when each of them is of no feed any more, or noticed and not
\* starred.
LEMMA DeleteRowsKeepsInv ==
    ASSUME ReadingInv, NEW gone \in SUBSET items, DeleteRows(gone),
           feeds' \subseteq feeds,
           \A i \in items \ gone : entry[i].feed \in feeds',
           \A i \in gone : entry[i].feed \in feeds' => i \in noticed /\ i \notin starred,
           UNCHANGED <<member, today, req, history>>
    PROVE  ReadingInv'
<1> USE DEF ReadingInv, DeleteRows, history
<1>1. TypeOK'
  BY DEF TypeOK
<1>2. UnseenKept'
  BY DEF UnseenKept, TypeOK
<1>3. StarredKept'
  BY DEF StarredKept, TypeOK
<1>4. SearchMatchesRows'
  BY DEF SearchMatchesRows
<1>5. OneRowPerEntry'
  BY DEF OneRowPerEntry, TypeOK
<1>6. OpenedIsNoticed' /\ HistoryOfEntries'
  BY DEF OpenedIsNoticed, HistoryOfEntries
<1> QED
  BY <1>1, <1>2, <1>3, <1>4, <1>5, <1>6

LEMMA DeleteFeedKeepsInv ==
    ASSUME ReadingInv, NEW f \in Feed, DeleteFeed(f)
    PROVE  ReadingInv'
<1> DEFINE gone == {i \in items : entry[i].feed = f}
<1>1. DeleteRows(gone) /\ feeds' = feeds \ {f} /\ UNCHANGED <<member, today, req, history>>
  BY DEF DeleteFeed
<1>2. \A i \in items \ gone : entry[i].feed \in feeds'
  BY <1>1 DEF ReadingInv, OneRowPerEntry
<1>3. \A i \in gone : entry[i].feed \notin feeds'
  BY <1>1
<1> QED
  BY <1>1, <1>2, <1>3, DeleteRowsKeepsInv

\* What is read was noticed: that is UnseenKept, for a row whose feed is there.
LEMMA PruneKeepsInv == ReadingInv /\ PruneOldItems => ReadingInv'
<1> SUFFICES ASSUME ReadingInv, PruneOldItems PROVE ReadingInv'
  OBVIOUS
<1> DEFINE gone == {i \in items : Expired(i)}
<1>1. DeleteRows(gone) /\ UNCHANGED <<feeds, member, today, req, history>>
  BY DEF PruneOldItems
<1>2. \A i \in gone : i \in noticed /\ i \notin starred
  BY DEF ReadingInv, UnseenKept, OneRowPerEntry, TypeOK, Expired
<1>3. \A i \in items \ gone : entry[i].feed \in feeds'
  BY <1>1 DEF ReadingInv, OneRowPerEntry
<1> QED
  BY <1>1, <1>2, <1>3, DeleteRowsKeepsInv

-----------------------------------------------------------------------------
(* Readers                                                                 *)

\* Rows may be marked as read when they are noticed.
LEMMA MarkingKeepsInv ==
    ASSUME ReadingInv, NEW marked \in SUBSET items, read' = read \cup marked,
           noticed' \subseteq Item, noticed \subseteq noticed',
           marked \subseteq noticed', noticed' \subseteq noticed \cup items,
           req' \in [Request -> Req \cup {Idle}],
           \A p \in Request :
               req'[p].step = "markOpened" => req'[p].item \in noticed',
           UNCHANGED <<feeds, member, items, entry, starred, index, today, wanted>>
    PROVE  ReadingInv'
<1> USE DEF ReadingInv
<1>1. TypeOK'
  BY DEF TypeOK
<1>2. UnseenKept'
  BY DEF UnseenKept
<1>3. StarredKept' /\ SearchMatchesRows' /\ OneRowPerEntry' /\ OpenedIsNoticed'
  BY DEF StarredKept, SearchMatchesRows, OneRowPerEntry, OpenedIsNoticed
<1>4. HistoryOfEntries'
  BY DEF HistoryOfEntries
<1> QED
  BY <1>1, <1>2, <1>3, <1>4

LEMMA MarkMatchingKeepsInv ==
    ASSUME ReadingInv, NEW u \in User, NEW F \in Filter, MarkMatching(u, F),
           req' \in [Request -> Req \cup {Idle}],
           \A p \in Request : req'[p] = req[p] \/ req'[p] = Idle
    PROVE  ReadingInv'
<1> DEFINE marked == {i \in items : Matches(u, F, i)}
<1> DEFINE seen == {i \in Scope(F) : Owns(u, i)}
<1>1. marked \subseteq seen /\ seen \subseteq items
  BY DEF Matches, Owns
<1>2. /\ read' = read \cup marked
      /\ noticed' = noticed \cup seen
      /\ UNCHANGED <<feeds, member, items, entry, starred, index, today, wanted>>
  BY DEF MarkMatching
<1>3. \A p \in Request : req'[p].step = "markOpened" => req'[p].item \in noticed'
  BY <1>2 DEF ReadingInv, OpenedIsNoticed, Idle
<1>4. items \subseteq Item /\ noticed \subseteq Item
  BY DEF ReadingInv, TypeOK
<1> HIDE DEF marked, seen
<1> QED
  BY <1>1, <1>2, <1>3, <1>4, MarkingKeepsInv

\* A request that does not move what its sender noticed.
LEMMA RequestKeepsInv ==
    ASSUME ReadingInv, NEW p \in Request, NEW r \in Req \cup {Idle},
           r.step # "markOpened", req' = [req EXCEPT ![p] = r],
           UNCHANGED <<feeds, member, rows, today, history>>
    PROVE  ReadingInv'
<1>1. req \in [Request -> Req \cup {Idle}] /\ read \subseteq items /\ noticed \subseteq Item
  BY DEF ReadingInv, TypeOK
<1>2. \A q \in Request : req'[q].step = "markOpened" => req'[q].item \in noticed'
  BY <1>1 DEF ReadingInv, OpenedIsNoticed, history
<1>3. req' \in [Request -> Req \cup {Idle}]
  BY <1>1
<1>4. read' = read \cup {} /\ {} \in SUBSET items
  BY DEF rows
<1> QED
  BY <1>1, <1>2, <1>3, <1>4, MarkingKeepsInv DEF rows, history

LEMMA StatementKeepsInv ==
    ASSUME ReadingInv, NEW p \in Request, Statement(p)
    PROVE  ReadingInv'
<1>1. req \in [Request -> Req \cup {Idle}] /\ items \subseteq Item /\ noticed \subseteq Item
  BY DEF ReadingInv, TypeOK
<1>2. Idle.step = "idle" /\ \A r \in Req : r.user \in User /\ r.filter \in Filter
  BY DEF Idle, Req
<1>3. CASE VerifyList(p)
  <2>1. req[p] \in Req
    BY <1>1, <1>2, <1>3 DEF VerifyList
  <2>2. [step |-> "mark", user |-> req[p].user, item |-> None,
         filter |-> req[p].filter] \in Req
    BY <1>2, <2>1 DEF Req
  <2> QED
    BY <1>2, <1>3, <2>2, RequestKeepsInv DEF VerifyList
<1>4. CASE MarkVerified(p)
  <2>1. req[p] \in Req
    BY <1>1, <1>2, <1>4 DEF MarkVerified
  <2>2. req' = [req EXCEPT ![p] = Idle]
    BY <1>4 DEF MarkVerified
  <2>3. /\ req' \in [Request -> Req \cup {Idle}]
        /\ \A q \in Request : req'[q] = req[q] \/ req'[q] = Idle
    BY <1>1, <2>2
  <2> QED
    BY <1>2, <1>4, <2>1, <2>3, MarkMatchingKeepsInv DEF MarkVerified
<1>5. CASE MarkOpened(p)
  <2>1. req' = [req EXCEPT ![p] = Idle]
    BY <1>5 DEF MarkOpened
  <2>2. /\ req' \in [Request -> Req \cup {Idle}]
        /\ \A q \in Request : req'[q] = req[q] \/ req'[q] = Idle
    BY <1>1, <2>1
  <2>3. \A q \in Request : req'[q].step = "markOpened" => req'[q].item \in noticed
    BY <1>2, <2>2 DEF ReadingInv, OpenedIsNoticed
  <2>4. {req[p].item} \cap items \subseteq noticed
    BY <1>5 DEF MarkOpened, ReadingInv, OpenedIsNoticed
  <2> QED
    BY <1>1, <1>5, <2>2, <2>3, <2>4, MarkingKeepsInv DEF MarkOpened, history
<1>6. CASE StatementFails(p)
  BY <1>2, <1>6, RequestKeepsInv DEF StatementFails
<1> QED
  BY <1>3, <1>4, <1>5, <1>6 DEF Statement

LEMMA OpenItemKeepsInv ==
    ASSUME ReadingInv, NEW p \in Request, NEW u \in User, NEW i \in Item,
           OpenItem(p, u, i)
    PROVE  ReadingInv'
<1>1. /\ req \in [Request -> Req \cup {Idle}]
      /\ items \subseteq Item /\ noticed \subseteq Item
  BY DEF ReadingInv, TypeOK
<1>2. /\ i \in items
      /\ noticed' = noticed \cup {i}
      /\ UNCHANGED <<feeds, member, rows, today, wanted>>
  BY DEF OpenItem, Owns
<1>3. NoFilter \in Filter
  BY DEF NoFilter, Filter
<1>4. PICK r \in Req \cup {Idle} :
        /\ req' = [req EXCEPT ![p] = r]
        /\ r.step = "markOpened" => r.item = i
  <2> DEFINE opened == [step |-> "markOpened", user |-> u, item |-> i,
                        filter |-> NoFilter]
  <2>1. opened \in Req /\ opened.item = i
    BY <1>3 DEF Req
  <2>2. Idle.step # "markOpened"
    BY DEF Idle
  <2>3. req' = [req EXCEPT ![p] = Idle] \/ req' = [req EXCEPT ![p] = opened]
    BY DEF OpenItem
  <2> QED
    BY <2>1, <2>2, <2>3
<1>5. req' \in [Request -> Req \cup {Idle}]
  BY <1>1, <1>4
<1>6. \A q \in Request : req'[q].step = "markOpened" => req'[q].item \in noticed'
  BY <1>1, <1>2, <1>4 DEF ReadingInv, OpenedIsNoticed
<1>7. read' = read \cup {} /\ {} \in SUBSET items
  BY <1>2 DEF rows
<1> QED
  BY <1>1, <1>2, <1>5, <1>6, <1>7, MarkingKeepsInv DEF rows

LEMMA SetStarKeepsInv ==
    ASSUME ReadingInv, NEW i \in items, NEW on \in BOOLEAN, SetStar(i, on)
    PROVE  ReadingInv'
<1> USE DEF ReadingInv, SetStar
<1>1. TypeOK'
  BY DEF TypeOK
<1>2. StarredKept'
  BY DEF StarredKept
<1>3. UnseenKept' /\ SearchMatchesRows' /\ OneRowPerEntry' /\ OpenedIsNoticed'
  BY DEF UnseenKept, SearchMatchesRows, OneRowPerEntry, OpenedIsNoticed
<1>4. HistoryOfEntries'
  BY DEF HistoryOfEntries
<1> QED
  BY <1>1, <1>2, <1>3, <1>4

LEMMA ReaderKeepsInv ==
    ASSUME ReadingInv, NEW u \in User, Reader(u)
    PROVE  ReadingInv'
<1>1. ASSUME NEW F \in Filter, MarkItemsRead(u, F) PROVE ReadingInv'
  <2>1. MarkMatching(u, F) /\ req' = req /\ req \in [Request -> Req \cup {Idle}]
    BY <1>1 DEF MarkItemsRead, ReadingInv, TypeOK
  <2> QED
    BY <2>1, MarkMatchingKeepsInv
<1>2. ASSUME NEW F \in Filter, NEW p \in Request, MarkRead(p, u, F) PROVE ReadingInv'
  <2> DEFINE r == [step |-> "verifyList", user |-> u, item |-> None, filter |-> F]
  <2>1. r \in Req /\ r.step # "markOpened"
    BY DEF Req
  <2> QED
    BY <1>2, <2>1, RequestKeepsInv DEF MarkRead
<1>3. ASSUME NEW i \in Item, NEW p \in Request, OpenItem(p, u, i) PROVE ReadingInv'
  BY <1>3, OpenItemKeepsInv
<1>4. ASSUME NEW i \in Item, ToggleStar(u, i) \/ StarItem(u, i) \/ UnstarItem(u, i)
      PROVE  ReadingInv'
  <2>1. i \in items /\ \E on \in BOOLEAN : SetStar(i, on)
    BY <1>4 DEF ToggleStar, StarItem, UnstarItem, Owns
  <2> QED
    BY <2>1, SetStarKeepsInv
<1> QED
  BY <1>1, <1>2, <1>3, <1>4 DEF Reader

-----------------------------------------------------------------------------
(* Every step                                                              *)

\* Days and lists do not touch rows or requests.
LEMMA QuietKeepsInv ==
    ASSUME ReadingInv, UNCHANGED <<feeds, rows, req, history>>,
           today' \in Nat, member' \in [Feed -> List \cup {None}]
    PROVE  ReadingInv'
BY DEF ReadingInv, TypeOK, UnseenKept, StarredKept, SearchMatchesRows,
       OneRowPerEntry, OpenedIsNoticed, HistoryOfEntries, rows, history

LEMMA NextKeepsInv == ReadingInv /\ [Next]_vars => ReadingInv'
<1> SUFFICES ASSUME ReadingInv, [Next]_vars PROVE ReadingInv'
  OBVIOUS
<1>1. today \in Nat /\ member \in [Feed -> List \cup {None}]
  BY DEF ReadingInv, TypeOK
<1>2. CASE NextDay
  BY <1>1, <1>2, QuietKeepsInv DEF NextDay
<1>3. ASSUME NEW f \in Feed, NEW l \in List \cup {None}, MoveFeed(f, l)
      PROVE  ReadingInv'
  BY <1>1, <1>3, QuietKeepsInv DEF MoveFeed
<1>4. ASSUME NEW f \in Feed, NEW doc \in SUBSET Guid, StoreDocument(f, doc)
      PROVE  ReadingInv'
  BY <1>4, StoreDocumentKeepsInv
<1>5. ASSUME NEW f \in Feed, DeleteFeed(f) PROVE ReadingInv'
  BY <1>5, DeleteFeedKeepsInv
<1>6. CASE PruneOldItems
  BY <1>6, PruneKeepsInv
<1>7. ASSUME NEW u \in User, Reader(u) PROVE ReadingInv'
  BY <1>7, ReaderKeepsInv
<1>8. ASSUME NEW p \in Request, Statement(p) PROVE ReadingInv'
  BY <1>8, StatementKeepsInv
<1>9. CASE UNCHANGED vars
  BY <1>1, <1>9, QuietKeepsInv DEF vars
<1> QED
  BY <1>2, <1>3, <1>4, <1>5, <1>6, <1>7, <1>8, <1>9 DEF Next, Program

-----------------------------------------------------------------------------
(* Theorems                                                                *)

\* The inductive invariant holds in every state.
THEOREM ReadingInvariant == Spec => []ReadingInv
BY InitInv, NextKeepsInv, PTL DEF Spec

\* What its reader never noticed is there and unread, whatever other users,
\* stale ids, fetches and the retention step do (item_detail.go:98,
\* retention.go:14).
THEOREM UnseenAlwaysKept == Spec => []UnseenKept
BY ReadingInvariant, PTL DEF ReadingInv

\* What its reader starred is never pruned (retention.go:18).
THEOREM StarredAlwaysKept == Spec => []StarredKept
BY ReadingInvariant, PTL DEF ReadingInv

\* The triggers keep the search index on the rows (001_initial.sql:79-87).
THEOREM SearchAlwaysMatches == Spec => []SearchMatchesRows
BY ReadingInvariant, PTL DEF ReadingInv
=============================================================================
