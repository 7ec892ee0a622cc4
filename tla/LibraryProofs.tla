---------------------------- MODULE LibraryProofs ----------------------------
(***************************************************************************)
(* Proofs about Library, for any number of users, rows and requests.  The  *)
(* inductive invariant is LibraryInv; it is proved conjunct by conjunct,   *)
(* each one for every kind of step.  Then the OPML files of module Opml:   *)
(* the walk of an import by induction over the depth of a file, the round  *)
(* trip of export and import, and the import of an export.                 *)
(***************************************************************************)
EXTENDS Opml, SequenceLemmas, TLAPS

-----------------------------------------------------------------------------
(* Arrivals                                                                *)

\* What every request that is not an import looks like when it arrives.
Arriving(r) ==
    /\ r \in Req
    /\ r.step \notin ImportStep \cup {"setList"}
    /\ r.step = "verifyList" => r.goal \in Goal \ {"deleteFeed"}
    /\ r.step = "verifyFeed" => r.goal = "deleteFeed"
    /\ \/ r.step \in {"createList", "renameList"}
       \/ r.step = "verifyList" /\ r.goal = "renameList"
       => r.name # None
    /\ r.step = "addFeed" => r.url # None

LEMMA ArrivalShape ==
    ASSUME NEW p \in Request, Arrival(p)
    PROVE  (\E u \in User : ImportOPML(p, u)) \/ \E r : Arriving(r) /\ Arrive(p, r)
<1> USE LibraryAssumption DEF Arriving, Req, Make, Step, Goal, ImportStep
<1>1. PICK u \in User :
        \/ \E n \in Name : CreateList(p, u, n)
        \/ \E x \in Url : AddFeed(p, u, x)
        \/ \E l \in List :
            \/ DeleteListByID(p, u, l)
            \/ HtmxDeleteList(p, u, l)
            \/ \E n \in Name : ApiRenameList(p, u, l, n) \/ RenameList(p, u, l, n)
            \/ \E f \in Feed :
                \/ ApiAddFeedToList(p, u, l, f)
                \/ AddFeedToList(p, u, l, f)
                \/ RemoveFeedFromList(p, u, l, f)
                \/ ApiRemoveFeedFromList(p, u, l, f)
        \/ \E f \in Feed : DeleteFeedByID(p, u, f) \/ HtmxDeleteFeed(p, u, f)
        \/ ImportOPML(p, u)
  BY DEF Arrival
<1>2. CASE \E n \in Name : CreateList(p, u, n)
  BY <1>2 DEF CreateList
<1>3. CASE \E x \in Url : AddFeed(p, u, x)
  BY <1>3 DEF AddFeed
<1>4. ASSUME NEW l \in List, DeleteListByID(p, u, l) \/ HtmxDeleteList(p, u, l)
      PROVE  \E r : Arriving(r) /\ Arrive(p, r)
  BY <1>4 DEF DeleteListByID, HtmxDeleteList
<1>5. ASSUME NEW l \in List, NEW n \in Name,
             ApiRenameList(p, u, l, n) \/ RenameList(p, u, l, n)
      PROVE  \E r : Arriving(r) /\ Arrive(p, r)
  BY <1>5 DEF ApiRenameList, RenameList
<1>6. ASSUME NEW l \in List, NEW f \in Feed,
             \/ ApiAddFeedToList(p, u, l, f)
             \/ AddFeedToList(p, u, l, f)
             \/ RemoveFeedFromList(p, u, l, f)
             \/ ApiRemoveFeedFromList(p, u, l, f)
      PROVE  \E r : Arriving(r) /\ Arrive(p, r)
  BY <1>6 DEF ApiAddFeedToList, AddFeedToList, RemoveFeedFromList,
              ApiRemoveFeedFromList
<1>7. ASSUME NEW f \in Feed, DeleteFeedByID(p, u, f) \/ HtmxDeleteFeed(p, u, f)
      PROVE  \E r : Arriving(r) /\ Arrive(p, r)
  BY <1>7 DEF DeleteFeedByID, HtmxDeleteFeed
<1> QED
  BY <1>1, <1>2, <1>3, <1>4, <1>5, <1>6, <1>7

LEMMA ArrivalKeepsInv ==
    ASSUME LibraryInv, NEW p \in Request, Arrival(p)
    PROVE  LibraryInv'
<1> USE DEF LibraryInv
<1>1. ASSUME NEW r, Arriving(r), Arrive(p, r) PROVE LibraryInv'
  <2> USE <1>1 DEF Arriving, Arrive, listVars, feedVars, importVars
  <2>1. TypeOK'
    BY DEF TypeOK, TablesTypeOK, RequestsTypeOK
  <2>2. ListOwnerMatches' /\ UniquePerUser' /\ LiveIdsUsed'
    BY DEF ListOwnerMatches, UniquePerUser, LiveIdsUsed
  <2>3. RequestShape'
    BY DEF TypeOK, TablesTypeOK, RequestsTypeOK, RequestShape, At, Idle, ImportStep
  <2>4. VerifiedStaysOwn'
    BY DEF TypeOK, TablesTypeOK, RequestsTypeOK, RequestShape, VerifiedStaysOwn, Checked, At, Idle, ImportStep,
           EmptyCache
  <2>5. ListsNamed'
    BY DEF TypeOK, TablesTypeOK, RequestsTypeOK, ListsNamed, At, ImportStep
  <2>6. FeedsHaveUrls'
    BY DEF TypeOK, TablesTypeOK, RequestsTypeOK, FeedsHaveUrls, ImportStep
  <2> QED
    BY <2>1, <2>2, <2>3, <2>4, <2>5, <2>6
<1>2. ASSUME NEW u \in User, ImportOPML(p, u) PROVE LibraryInv'
  <2> USE <1>2, LibraryAssumption DEF ImportOPML, Make, listVars, feedVars
  <2>1. TypeOK'
    BY DEF TypeOK, TablesTypeOK, RequestsTypeOK, Req, Step, Cache, EmptyCache
  <2>2. ListOwnerMatches' /\ UniquePerUser' /\ LiveIdsUsed'
    BY DEF ListOwnerMatches, UniquePerUser, LiveIdsUsed
  <2>3. RequestShape'
    BY DEF TypeOK, TablesTypeOK, RequestsTypeOK, RequestShape, At, Idle, ImportStep
  <2>4. VerifiedStaysOwn'
    BY DEF TypeOK, TablesTypeOK, RequestsTypeOK, VerifiedStaysOwn, Checked, At, EmptyCache
  <2>5. ListsNamed'
    BY DEF TypeOK, TablesTypeOK, RequestsTypeOK, ListsNamed, At
  <2>6. FeedsHaveUrls'
    BY DEF TypeOK, TablesTypeOK, RequestsTypeOK, FeedsHaveUrls
  <2> QED
    BY <2>1, <2>2, <2>3, <2>4, <2>5, <2>6
<1> QED
  BY <1>1, <1>2, ArrivalShape

-----------------------------------------------------------------------------
(* Statements                                                              *)

\* A request that executes a statement has the fields of a request.
LEMMA RequestTyped ==
    ASSUME RequestsTypeOK, NEW p \in Request, req[p].step # "idle"
    PROVE  /\ req[p] \in Req
           /\ req[p].step \in Step
           /\ req[p].goal \in Goal \cup {None}
           /\ req[p].user \in User
           /\ req[p].list \in List \cup {None}
           /\ req[p].feed \in Feed \cup {None}
           /\ req[p].name \in Name \cup {None}
           /\ req[p].url \in Url \cup {None}
<1>1. req[p] \in Req
  BY DEF RequestsTypeOK, Idle
<1> QED
  BY <1>1 DEF Req

\* Continue moves one request to its next statement and keeps its goal, user
\* and feed.
LEMMA ContinueEffect ==
    ASSUME RequestsTypeOK, NEW p \in Request, req[p].step # "idle",
           NEW step \in Step, NEW l \in List \cup {None}, NEW n \in Name \cup {None},
           NEW x \in Url \cup {None}, Continue(p, step, l, n, x)
    PROVE  /\ req' \in [Request -> Req \cup {Idle}]
           /\ req'[p] = Make(step, req[p].goal, req[p].user, l, req[p].feed, n, x)
           /\ \A q \in Request \ {p} : req'[q] = req[q]
<1> DEFINE r == Make(step, req[p].goal, req[p].user, l, req[p].feed, n, x)
<1>1. r \in Req
  BY RequestTyped DEF Make, Req
<1>2. req' = [req EXCEPT ![p] = r]
  BY DEF Continue
<1> HIDE DEF r
<1>3. req' \in [Request -> Req \cup {Idle}] /\ req'[p] = r
  BY <1>1, <1>2 DEF RequestsTypeOK
<1>4. \A q \in Request \ {p} : req'[q] = req[q]
  BY <1>2 DEF RequestsTypeOK
<1> QED
  BY <1>3, <1>4 DEF r

\* Done ends one request.
LEMMA DoneEffect ==
    ASSUME RequestsTypeOK, NEW p \in Request, Done(p)
    PROVE  /\ req' \in [Request -> Req \cup {Idle}]
           /\ req'[p] = Idle
           /\ \A q \in Request \ {p} : req'[q] = req[q]
BY DEF RequestsTypeOK, Done

\* The tables keep their types under every statement.
LEMMA StatementTables ==
    ASSUME TypeOK, NEW p \in Request, Statement(p)
    PROVE  TablesTypeOK'
<1> USE LibraryAssumption, RequestTyped
    DEF TypeOK, TablesTypeOK, At, listVars, feedVars, importVars, AssignList
<1>1. ASSUME NEW u \in User, NEW n \in Name \cup {None}, InsertList(u, n)
      PROVE  /\ usedLists' \subseteq List
             /\ listOwner' \in [List -> User \cup {None}]
             /\ listName' \in [List -> Name \cup {None}]
  BY <1>1 DEF InsertList
<1>2. ASSUME NEW u \in User, NEW x \in Url \cup {None}, InsertFeed(u, x)
      PROVE  /\ usedFeeds' \subseteq Feed
             /\ feedOwner' \in [Feed -> User \cup {None}]
             /\ feedUrl' \in [Feed -> Url \cup {None}]
  BY <1>2 DEF InsertFeed
<1>3. CASE DoCreateList(p)
  BY <1>1, <1>3 DEF DoCreateList
<1>4. CASE DoAddFeed(p)
  BY <1>2, <1>4 DEF DoAddFeed
<1>5. CASE VerifyList(p) \/ VerifyFeed(p)
  BY <1>5 DEF VerifyList, VerifyFeed
<1>6. CASE DoDeleteList(p)
  BY <1>6 DEF DoDeleteList
<1>7. CASE DoRenameList(p)
  BY <1>7 DEF DoRenameList
<1>8. CASE DoDeleteFeed(p)
  BY <1>8 DEF DoDeleteFeed
<1>9. CASE DoSetList(p) \/ DoApiSetList(p) \/ DoClearList(p) \/ DoApiClearList(p)
  BY <1>9 DEF DoSetList, DoApiSetList, DoClearList, DoApiClearList
<1>10. ASSUME NEW x \in Url, NEW folder \in Name \cup {None}, NextEntry(p, x, folder)
       PROVE  TablesTypeOK'
  BY <1>10 DEF NextEntry
<1>11. CASE ImportEnds(p) \/ ReadList(p) \/ ImportStatementFails(p) \/ StatementFails(p)
  BY <1>11 DEF ImportEnds, ReadList, ImportStatementFails, StatementFails
<1>12. CASE ImportFeed(p)
  BY <1>2, <1>12 DEF ImportFeed
<1>13. CASE EnsureList(p)
  BY <1>1, <1>13 DEF EnsureList
<1>14. CASE ImportAssign(p)
  BY <1>14 DEF ImportAssign
<1> QED
  BY <1>3, <1>4, <1>5, <1>6, <1>7, <1>8, <1>9, <1>10, <1>11, <1>12, <1>13, <1>14
  DEF Statement

\* The requests keep their types and shape under every statement.
LEMMA StatementRequests ==
    ASSUME RequestsTypeOK, TablesTypeOK, RequestShape, NEW p \in Request, Statement(p)
    PROVE  RequestsTypeOK' /\ RequestShape'
<1> USE LibraryAssumption DEF At, Make, importVars, RequestShape
<1>1. req[p] \in Req \/ req[p] = Idle
  BY DEF RequestsTypeOK
<1>2. \A q \in Request \ {p} : req'[q] = req[q] /\ cache'[q] = cache[q] =>
        /\ req'[q].step = "verifyList" => req'[q].goal \in Goal \ {"deleteFeed"}
        /\ req'[q].step = "verifyFeed" => req'[q].goal \in {"setList", "deleteFeed"}
        /\ req'[q].step \in {"ensureList", "readList"} => req'[q].list = None
        /\ req'[q].step \notin ImportStep => cache'[q] = EmptyCache
  OBVIOUS
<1>3. ASSUME req[p].step \in Step \ ImportStep, Done(p), UNCHANGED <<cache, left>>
      PROVE  RequestsTypeOK' /\ RequestShape'
  BY <1>3, DoneEffect DEF RequestsTypeOK, Idle, Step
<1>4. CASE DoCreateList(p) \/ DoAddFeed(p) \/ DoDeleteList(p) \/ DoRenameList(p)
           \/ DoDeleteFeed(p) \/ DoSetList(p) \/ DoApiSetList(p) \/ DoClearList(p)
           \/ DoApiClearList(p) \/ StatementFails(p)
  BY <1>3, <1>4 DEF StatementFails, DoCreateList, DoAddFeed, DoDeleteList, DoRenameList, DoDeleteFeed,
     DoSetList, DoApiSetList, DoClearList, DoApiClearList, Step, ImportStep
<1>5. ASSUME req[p].step # "idle", NEW step \in Step \ {"verifyList"},
             NEW l \in List \cup {None}, NEW n \in Name \cup {None},
             NEW x \in Url \cup {None}, Continue(p, step, l, n, x),
             cache' \in [Request -> Cache], left' \in [Request -> 0..MaxEntries],
             \A q \in Request \ {p} : cache'[q] = cache[q],
             step = "verifyFeed" => req[p].goal \in {"setList", "deleteFeed"},
             step \in {"ensureList", "readList"} => l = None,
             step \notin ImportStep => cache'[p] = EmptyCache
      PROVE  RequestsTypeOK' /\ RequestShape'
  <2>1. /\ req' \in [Request -> Req \cup {Idle}]
        /\ req'[p] = Make(step, req[p].goal, req[p].user, l, req[p].feed, n, x)
        /\ \A q \in Request \ {p} : req'[q] = req[q]
    BY <1>5, ContinueEffect
  <2>2. RequestsTypeOK'
    BY <1>5, <2>1 DEF RequestsTypeOK
  <2>3. req'[p].step = step /\ req'[p].goal = req[p].goal /\ req'[p].list = l
    BY <2>1
  <2> QED
    BY <1>2, <1>5, <2>1, <2>2, <2>3
<1>6. /\ cache \in [Request -> Cache]
      /\ left \in [Request -> 0..MaxEntries]
  BY DEF RequestsTypeOK
<1>7. CASE VerifyList(p)
  <2>1. req[p].goal \in Goal \ {"deleteFeed"} /\ req[p].step # "idle"
    BY <1>7 DEF VerifyList
  <2>2. CASE Done(p)
    BY <1>3, <1>7, <2>2 DEF VerifyList, Step, ImportStep
  <2>3. CASE Goto(p, IF req[p].goal = "setList" THEN "verifyFeed" ELSE req[p].goal)
    <3> DEFINE step == IF req[p].goal = "setList" THEN "verifyFeed" ELSE req[p].goal
    <3>1. /\ step \in Step \ {"verifyList", "ensureList", "readList"}
          /\ step = "verifyFeed" => req[p].goal = "setList"
      BY <2>1 DEF Goal, Step
    <3>2. Continue(p, step, req[p].list, req[p].name, req[p].url)
      BY <2>3 DEF Goto
    <3>3. cache' = cache /\ left' = left /\ cache[p] = EmptyCache
      BY <1>7 DEF VerifyList, ImportStep
    <3> HIDE DEF step
    <3> QED
      BY <1>5, <1>6, <2>1, <3>1, <3>2, <3>3, RequestTyped
  <2> QED
    BY <1>7, <2>2, <2>3 DEF VerifyList
<1>8. CASE VerifyFeed(p)
  <2>1. req[p].goal \in {"setList", "deleteFeed"} /\ req[p].step # "idle"
    BY <1>8 DEF VerifyFeed
  <2>2. CASE Done(p)
    BY <1>3, <1>8, <2>2 DEF VerifyFeed, Step, ImportStep
  <2>3. CASE Goto(p, req[p].goal)
    <3>1. req[p].goal \in Step \ {"verifyList", "verifyFeed", "ensureList", "readList"}
      BY <2>1 DEF Step
    <3>2. Continue(p, req[p].goal, req[p].list, req[p].name, req[p].url)
      BY <2>3 DEF Goto
    <3>3. cache' = cache /\ left' = left /\ cache[p] = EmptyCache
      BY <1>8 DEF VerifyFeed, ImportStep
    <3> QED
      BY <1>5, <1>6, <2>1, <3>1, <3>2, <3>3, RequestTyped
  <2> QED
    BY <1>8, <2>2, <2>3 DEF VerifyFeed
<1>9. ASSUME NEW x \in Url, NEW folder \in Name \cup {None}, NextEntry(p, x, folder)
      PROVE  RequestsTypeOK' /\ RequestShape'
  BY <1>5, <1>6, <1>9 DEF NextEntry, Step, ImportStep
<1>10. CASE ImportEnds(p)
  BY <1>6, <1>10, DoneEffect DEF ImportEnds, RequestsTypeOK, Idle, Cache, EmptyCache
<1>11. CASE ImportFeed(p)
  <2> DEFINE known == IF req[p].name = None THEN None ELSE cache[p][req[p].name]
             step == IF req[p].name = None \/ known # None THEN "assignList"
                     ELSE "ensureList"
  <2>1. req[p].step # "idle" /\ cache' = cache /\ left' = left
    BY <1>11 DEF ImportFeed
  <2>2. known \in List \cup {None} /\ step \in ImportStep \cap Step
    BY <1>6, <2>1, RequestTyped DEF Cache, ImportStep, Step
  <2>3. Continue(p, step, known, req[p].name, req[p].url)
    BY <1>11 DEF ImportFeed
  <2>4. step # "verifyList" /\ step # "verifyFeed" /\ step # "readList"
    OBVIOUS
  <2>5. step = "ensureList" => known = None
    OBVIOUS
  <2> HIDE DEF known, step
  <2> QED
    BY <1>5, <1>6, <2>1, <2>2, <2>3, <2>4, <2>5, RequestTyped
<1>12. CASE EnsureList(p) \/ ImportStatementFails(p) \/ ImportAssign(p)
  <2>1. req[p].step # "idle" /\ cache' = cache /\ left' = left
    BY <1>12 DEF EnsureList, ImportStatementFails, ImportAssign
  <2>2. PICK step \in {"readList", "assignList", "nextEntry"} :
          /\ Continue(p, step, req[p].list, req[p].name, req[p].url)
          /\ step = "readList" => req[p].list = None
    BY <1>12 DEF EnsureList, ImportStatementFails, ImportAssign, Goto
  <2>3. step \in Step \ {"verifyList", "verifyFeed"} /\ step \in ImportStep
    BY DEF Step, ImportStep
  <2> QED
    BY <1>5, <1>6, <2>1, <2>2, <2>3, RequestTyped
<1>13. CASE ReadList(p)
  <2>1. req[p].step # "idle" /\ left' = left
    BY <1>13 DEF ReadList
  <2>2. PICK l \in List \cup {None} :
          Continue(p, "assignList", l, req[p].name, req[p].url)
    BY <1>13, <2>1, RequestTyped DEF ReadList, Goto
  <2>3. cache' \in [Request -> Cache] /\ \A q \in Request \ {p} : cache'[q] = cache[q]
    BY <1>6, <1>13 DEF ReadList, Cache
  <2>4. "assignList" \in Step \ {"verifyList", "verifyFeed"} /\ "assignList" \in ImportStep
    BY DEF Step, ImportStep
  <2> QED
    BY <1>5, <1>6, <2>1, <2>2, <2>3, <2>4, RequestTyped
<1> QED
  BY <1>4, <1>7, <1>8, <1>9, <1>10, <1>11, <1>12, <1>13 DEF Statement

\* An id that was handed out keeps its owner or loses it for good.
LEMMA OwnersOnlyLeave ==
    ASSUME TypeOK, LiveIdsUsed, NEW p \in Request, Statement(p)
    PROVE  /\ usedLists \subseteq usedLists'
           /\ \A l \in usedLists : listOwner'[l] \in {listOwner[l], None}
<1> USE DEF TypeOK, TablesTypeOK, listVars
<1>1. CASE UNCHANGED <<usedLists, listOwner>>
  BY <1>1
<1>2. ASSUME NEW u \in User, NEW n, InsertList(u, n)
      PROVE  /\ usedLists \subseteq usedLists'
             /\ \A l \in usedLists : listOwner'[l] \in {listOwner[l], None}
  BY <1>2 DEF InsertList
<1>3. CASE DoCreateList(p) \/ EnsureList(p)
  BY <1>1, <1>2, <1>3, RequestTyped DEF DoCreateList, EnsureList, At
<1>4. CASE DoDeleteList(p)
  BY <1>4 DEF DoDeleteList
<1> QED
  BY <1>1, <1>3, <1>4 DEF Statement, DoAddFeed, VerifyList, VerifyFeed, DoRenameList,
     DoDeleteFeed, DoSetList, DoApiSetList, DoClearList, DoApiClearList, NextEntry,
     ImportEnds, ImportFeed, ReadList, ImportStatementFails, ImportAssign, StatementFails

\* Ids that go from feed rows to list rows keep to one user's rows.
LEMMA StatementOwners ==
    ASSUME LibraryInv, NEW p \in Request, Statement(p)
    PROVE  ListOwnerMatches' /\ UniquePerUser' /\ LiveIdsUsed'
<1> USE LibraryAssumption DEF LibraryInv, TypeOK, TablesTypeOK, At
<1> USE DEF ListOwnerMatches, UniquePerUser, LiveIdsUsed
<1>1. CASE UNCHANGED <<listVars, feedVars, feedList>>
  BY <1>1 DEF listVars, feedVars
<1>2. ASSUME NEW u \in User, NEW n \in Name \cup {None}, InsertList(u, n),
             UNCHANGED <<feedVars, feedList>>
      PROVE  ListOwnerMatches' /\ UniquePerUser' /\ LiveIdsUsed'
  BY <1>2 DEF InsertList, NameTaken, feedVars
<1>3. ASSUME NEW u \in User, NEW x \in Url \cup {None}, InsertFeed(u, x),
             UNCHANGED <<listVars, feedList>>
      PROVE  ListOwnerMatches' /\ UniquePerUser' /\ LiveIdsUsed'
  BY <1>3 DEF InsertFeed, UrlTaken, listVars
<1>4. ASSUME NEW rows, NEW l \in List \cup {None}, AssignList(rows, l),
             \A f \in Feed : f \in rows =>
                feedOwner[f] # None /\ (l # None => listOwner[l] \in {feedOwner[f], None}),
             UNCHANGED <<listVars, feedVars>>
      PROVE  ListOwnerMatches' /\ UniquePerUser' /\ LiveIdsUsed'
  BY <1>4 DEF AssignList, listVars, feedVars
<1>5. CASE DoCreateList(p) \/ EnsureList(p)
  BY <1>1, <1>2, <1>5, RequestTyped DEF DoCreateList, EnsureList
<1>6. CASE DoAddFeed(p) \/ ImportFeed(p)
  BY <1>1, <1>3, <1>6, RequestTyped DEF DoAddFeed, ImportFeed
<1>7. CASE DoDeleteList(p)
  BY <1>7 DEF DoDeleteList, OwnsList, feedVars
<1>8. CASE DoRenameList(p)
  BY <1>8 DEF DoRenameList, OwnsList, feedVars
<1>9. CASE DoDeleteFeed(p)
  BY <1>9 DEF DoDeleteFeed, OwnsFeed, listVars
<1>10. ASSUME req[p].step \in {"setList", "assignList"}, req[p].list \in List
       PROVE  listOwner[req[p].list] \in {req[p].user, None}
  BY <1>10 DEF VerifiedStaysOwn, Checked
<1>11. CASE DoSetList(p)
  BY <1>4, <1>10, <1>11, RequestTyped DEF DoSetList, OwnsFeed
<1>12. CASE DoApiSetList(p)
  BY <1>4, <1>12, RequestTyped DEF DoApiSetList, OwnsFeed, OwnsList
<1>13. CASE DoClearList(p) \/ DoApiClearList(p)
  BY <1>4, <1>13, RequestTyped DEF DoClearList, DoApiClearList, OwnsFeed
<1>14. CASE ImportAssign(p)
  BY <1>4, <1>10, <1>14, RequestTyped DEF ImportAssign
<1> QED
  BY <1>1, <1>5, <1>6, <1>7, <1>8, <1>9, <1>11, <1>12, <1>13, <1>14
  DEF Statement, VerifyList, VerifyFeed, NextEntry, ImportEnds, ReadList,
      ImportStatementFails, StatementFails

\* A statement leaves every request with ids that are its user's or nobody's.
LEMMA StatementVerified ==
    ASSUME LibraryInv, NEW p \in Request, Statement(p)
    PROVE  VerifiedStaysOwn'
<1> USE DEF LibraryInv, TypeOK
<1> DEFINE Own(q, l) == l \in usedLists /\ listOwner[l] \in {req[q].user, None}
<1>1. \A q \in Request, l \in List :
        Checked(q, l) \/ (\E n \in Name : cache[q][n] = l) => Own(q, l)
  BY DEF VerifiedStaysOwn
<1>2. \A q \in Request, l \in List : Own(q, l) /\ req'[q].user = req[q].user => Own(q, l)'
  BY OwnersOnlyLeave DEF TablesTypeOK
<1>3. SUFFICES ASSUME NEW q \in Request, NEW l \in List,
                      Checked(q, l)' \/ \E n \in Name : cache'[q][n] = l
               PROVE  Own(q, l)'
  BY DEF VerifiedStaysOwn
<1> HIDE DEF Own
<1>4. CASE req'[q] = req[q] /\ cache'[q] = cache[q]
  BY <1>1, <1>2, <1>3, <1>4 DEF Checked, At
<1>5. ASSUME q = p, Done(p), cache'[p] = EmptyCache PROVE FALSE
  BY <1>3, <1>5, DoneEffect, LibraryAssumption DEF Checked, At, Idle, EmptyCache
<1>6. CASE req[p].step \in Step \ ImportStep /\ Done(p) /\ UNCHANGED cache
  BY <1>4, <1>5, <1>6, DoneEffect DEF RequestShape, RequestsTypeOK
<1>7. ASSUME req[p].step # "idle", NEW step \in Step, NEW k \in List \cup {None},
             NEW n \in Name \cup {None}, NEW x \in Url \cup {None},
             Continue(p, step, k, n, x), UNCHANGED cache,
             k \in List /\ step \in {"setList", "assignList", "verifyFeed"} =>
                \/ Own(p, k)
                \/ step = "verifyFeed" /\ req[p].goal # "setList"
      PROVE  Own(q, l)'
  <2>1. /\ req'[p] = Make(step, req[p].goal, req[p].user, k, req[p].feed, n, x)
        /\ \A other \in Request \ {p} : req'[other] = req[other]
    BY <1>7, ContinueEffect
  <2>2. CASE q # p
    BY <1>4, <1>7, <2>1, <2>2
  <2>3. CASE q = p
    BY <1>1, <1>2, <1>3, <1>7, <2>1, <2>3 DEF Checked, At, Make
  <2> QED
    BY <2>2, <2>3
<1>8. CASE VerifyList(p)
  <2>1. req[p].step # "idle" /\ UNCHANGED cache /\ req[p].list \in List \cup {None}
    BY <1>8, RequestTyped DEF VerifyList, At, importVars
  <2>2. CASE Done(p)
    BY <1>6, <1>8, <2>1, <2>2 DEF VerifyList, At, Step, ImportStep
  <2>3. CASE /\ OwnsList(req[p].user, req[p].list)
             /\ Goto(p, IF req[p].goal = "setList" THEN "verifyFeed" ELSE req[p].goal)
    <3>1. Own(p, req[p].list)
      BY <2>3, LibraryAssumption, RequestTyped, <2>1 DEF OwnsList, Own, LiveIdsUsed
    <3>2. PICK step \in Step : Continue(p, step, req[p].list, req[p].name, req[p].url)
      BY <1>8, <2>3 DEF VerifyList, Goto, RequestShape, Goal, Step
    <3> QED
      BY <1>7, <2>1, <3>1, <3>2, RequestTyped
  <2> QED
    BY <1>8, <2>2, <2>3 DEF VerifyList
<1>9. CASE VerifyFeed(p)
  <2>1. req[p].step # "idle" /\ UNCHANGED cache
    BY <1>9 DEF VerifyFeed, At, importVars
  <2>2. CASE Done(p)
    BY <1>6, <1>9, <2>1, <2>2 DEF VerifyFeed, At, Step, ImportStep
  <2>3. CASE Goto(p, req[p].goal)
    <3>1. req[p].goal \in {"setList", "deleteFeed"}
      BY <1>9 DEF VerifyFeed, RequestShape
    <3>2. req[p].goal = "setList" /\ req[p].list \in List => Own(p, req[p].list)
      BY <1>1, <1>9 DEF VerifyFeed, Checked, At
    <3>3. req[p].goal \in Step /\ Continue(p, req[p].goal, req[p].list, req[p].name, req[p].url)
      BY <2>3, <3>1 DEF Goto, Step
    <3> QED
      BY <1>7, <2>1, <3>1, <3>2, <3>3, RequestTyped
  <2> QED
    BY <1>9, <2>2, <2>3 DEF VerifyFeed
<1>10. ASSUME NEW x \in Url, NEW folder \in Name \cup {None}, NextEntry(p, x, folder)
       PROVE  Own(q, l)'
  BY <1>7, <1>10 DEF NextEntry, At, Step
<1>11. CASE ImportEnds(p)
  BY <1>4, <1>5, <1>11, DoneEffect DEF ImportEnds, RequestsTypeOK
<1>12. CASE ImportFeed(p)
  <2> DEFINE known == IF req[p].name = None THEN None ELSE cache[p][req[p].name]
             step == IF req[p].name = None \/ known # None THEN "assignList"
                     ELSE "ensureList"
  <2>1. req[p].step # "idle" /\ UNCHANGED cache
    BY <1>12 DEF ImportFeed, At, importVars
  <2>2. known \in List \cup {None} /\ step \in Step
    BY <2>1, RequestTyped DEF RequestsTypeOK, Cache, Step
  <2>3. known \in List => Own(p, known)
    BY <1>1, <2>1, <2>2, RequestTyped, LibraryAssumption
  <2>4. Continue(p, step, known, req[p].name, req[p].url)
    BY <1>12 DEF ImportFeed
  <2> HIDE DEF known, step
  <2> QED
    BY <1>7, <2>1, <2>2, <2>3, <2>4, RequestTyped
<1>13. CASE EnsureList(p) \/ ImportStatementFails(p) \/ ImportAssign(p)
  <2>1. req[p].step # "idle" /\ UNCHANGED cache
    BY <1>13 DEF EnsureList, ImportStatementFails, ImportAssign, At, importVars
  <2>2. PICK step \in Step \ {"setList", "verifyFeed"} :
          /\ Continue(p, step, req[p].list, req[p].name, req[p].url)
          /\ step = "assignList" => req[p].list = None
    BY <1>13 DEF EnsureList, ImportStatementFails, ImportAssign, Goto, Step, RequestShape, At
  <2> QED
    BY <1>7, <2>1, <2>2, LibraryAssumption, RequestTyped
<1>14. CASE ReadList(p)
  <2>1. req[p].step # "idle" /\ req[p].list = None
    BY <1>14 DEF ReadList, At, RequestShape
  <2>2. CASE UNCHANGED cache /\ Goto(p, "assignList")
    BY <1>7, <2>1, <2>2, LibraryAssumption, RequestTyped DEF Goto, Step
  <2>3. ASSUME NEW k \in List, listOwner[k] = req[p].user,
               cache' = [cache EXCEPT ![p][req[p].name] = k],
               Continue(p, "assignList", k, req[p].name, req[p].url)
        PROVE  Own(q, l)'
    <3>1. /\ req'[p] = Make("assignList", req[p].goal, req[p].user, k, req[p].feed,
                            req[p].name, req[p].url)
          /\ \A other \in Request \ {p} : req'[other] = req[other]
      <4>1. "assignList" \in Step /\ k \in List \cup {None}
        BY DEF Step
      <4>2. req[p].name \in Name \cup {None} /\ req[p].url \in Url \cup {None}
        BY <1>14, RequestTyped DEF ReadList, At
      <4>3. req[p].step # "idle"
        BY <2>1
      <4> QED
        BY <2>3, <4>1, <4>2, <4>3, ContinueEffect
    <3>2. Own(p, k)
      BY <2>1, <2>3, LibraryAssumption, RequestTyped DEF Own, LiveIdsUsed
    <3>3. CASE q # p
      <4>1. cache'[q] = cache[q]
        BY <2>3, <3>3 DEF RequestsTypeOK
      <4> QED
        BY <1>4, <3>1, <3>3, <4>1
    <3>4. CASE q = p
      <4>1. l = k \/ \E n \in Name : cache[p][n] = l
        BY <1>3, <2>3, <3>1, <3>4 DEF Checked, At, Make, RequestsTypeOK, Cache
      <4> QED
        BY <1>1, <1>2, <3>1, <3>2, <3>4, <4>1 DEF Make
    <3> QED
      BY <3>3, <3>4
  <2> QED
    BY <1>14, <2>2, <2>3 DEF ReadList
<1> QED
  BY <1>4, <1>6, <1>8, <1>9, <1>10, <1>11, <1>12, <1>13, <1>14
  DEF Statement, StatementFails, DoCreateList, DoAddFeed, DoDeleteList, DoRenameList, DoDeleteFeed,
      DoSetList, DoApiSetList, DoClearList, DoApiClearList, At, Step, ImportStep, importVars

\* Who inserts or renames a list has a name for it.
LEMMA StatementNames ==
    ASSUME LibraryInv, NEW p \in Request, Statement(p)
    PROVE  ListsNamed'
<1> USE LibraryAssumption DEF LibraryInv, TypeOK, At
<1> DEFINE Named == \A l \in List : listOwner[l] # None => listName[l] # None
           Giving(q) == \/ req[q].step \in {"createList", "renameList", "ensureList"}
                        \/ req[q].step = "verifyList" /\ req[q].goal = "renameList"
<1>1. Named /\ \A q \in Request : Giving(q) => req[q].name # None
  BY DEF ListsNamed
<1>2. Named'
  <2> USE DEF TablesTypeOK
  <2>1. CASE UNCHANGED listVars
    BY <1>1, <2>1 DEF listVars
  <2>2. ASSUME NEW u \in User, InsertList(u, req[p].name), req[p].name # None PROVE Named'
    BY <1>1, <2>2 DEF InsertList
  <2>3. CASE DoCreateList(p) \/ EnsureList(p)
    BY <1>1, <2>1, <2>2, <2>3, RequestTyped DEF DoCreateList, EnsureList
  <2>4. CASE DoDeleteList(p)
    BY <1>1, <2>4 DEF DoDeleteList, OwnsList
  <2>5. CASE DoRenameList(p)
    BY <1>1, <2>5 DEF DoRenameList, OwnsList
  <2> QED
    BY <2>1, <2>3, <2>4, <2>5
    DEF Statement, DoAddFeed, VerifyList, VerifyFeed, DoDeleteFeed, DoSetList, DoApiSetList,
        DoClearList, DoApiClearList, NextEntry, ImportEnds, ImportFeed, ReadList,
        ImportStatementFails, ImportAssign, StatementFails
<1>3. ASSUME NEW q \in Request, Giving(q)' PROVE req'[q].name # None
  <2>1. CASE req'[q] = req[q]
    BY <1>1, <1>3, <2>1
  <2>2. CASE Done(p)
    BY <1>3, <2>1, <2>2, DoneEffect DEF Idle
  <2>3. ASSUME NEW step \in Step, NEW l \in List \cup {None}, NEW n \in Name \cup {None},
               NEW x \in Url \cup {None}, req[p].step # "idle", Continue(p, step, l, n, x),
               step \notin {"createList", "verifyList"},
               step \in {"renameList", "ensureList"} => n # None
        PROVE  req'[q].name # None
    <3>1. /\ req'[p] = Make(step, req[p].goal, req[p].user, l, req[p].feed, n, x)
          /\ \A r \in Request \ {p} : req'[r] = req[r]
      BY <2>3, ContinueEffect
    <3> QED
      BY <1>3, <2>1, <2>3, <3>1 DEF Make
  <2>4. CASE VerifyList(p) /\ ~Done(p)
    <3> DEFINE step == IF req[p].goal = "setList" THEN "verifyFeed" ELSE req[p].goal
    <3>1. /\ req[p].step = "verifyList" /\ req[p].goal \in Goal \ {"deleteFeed"}
          /\ Continue(p, step, req[p].list, req[p].name, req[p].url)
      BY <2>4 DEF VerifyList, Goto, RequestShape
    <3>2. /\ step \in Step /\ step \notin {"createList", "verifyList", "ensureList"}
          /\ step = "renameList" => req[p].name # None
      BY <1>1, <3>1 DEF Goal, Step
    <3> HIDE DEF step
    <3> QED
      BY <2>3, <3>1, <3>2, RequestTyped
  <2>5. CASE VerifyFeed(p) /\ ~Done(p)
    <3>1. /\ req[p].step = "verifyFeed" /\ req[p].goal \in {"setList", "deleteFeed"}
          /\ Continue(p, req[p].goal, req[p].list, req[p].name, req[p].url)
      BY <2>5 DEF VerifyFeed, Goto, RequestShape
    <3>2. req[p].goal \in Step \ {"createList", "verifyList", "renameList", "ensureList"}
      BY <3>1 DEF Step
    <3> QED
      BY <2>3, <3>1, <3>2, RequestTyped
  <2>6. ASSUME NEW x \in Url, NEW folder \in Name \cup {None}, NextEntry(p, x, folder)
        PROVE  req'[q].name # None
    BY <2>3, <2>6 DEF NextEntry, Step
  <2>7. CASE ImportFeed(p)
    <3> DEFINE known == IF req[p].name = None THEN None ELSE cache[p][req[p].name]
               step == IF req[p].name = None \/ known # None THEN "assignList"
                       ELSE "ensureList"
    <3>1. /\ req[p].step = "insertFeed"
          /\ Continue(p, step, known, req[p].name, req[p].url)
      BY <2>7 DEF ImportFeed
    <3>2. known \in List \cup {None}
      BY <3>1, RequestTyped DEF RequestsTypeOK, Cache
    <3>3. /\ step \in Step /\ step \notin {"createList", "verifyList", "renameList"}
          /\ step = "ensureList" => req[p].name # None
      BY DEF Step
    <3> HIDE DEF known, step
    <3> QED
      BY <2>3, <3>1, <3>2, <3>3, RequestTyped
  <2>8. CASE EnsureList(p) \/ ReadList(p) \/ ImportStatementFails(p) \/ ImportAssign(p)
    <3>1. req[p].step # "idle"
      BY <2>8 DEF EnsureList, ReadList, ImportStatementFails, ImportAssign
    <3>2. PICK step \in {"readList", "assignList", "nextEntry"}, l \in List \cup {None} :
            Continue(p, step, l, req[p].name, req[p].url)
      BY <2>8, <3>1, RequestTyped
      DEF EnsureList, ReadList, ImportStatementFails, ImportAssign, Goto
    <3>3. step \in Step
      BY DEF Step
    <3> QED
      BY <2>3, <3>1, <3>2, <3>3, RequestTyped
  <2> QED
    BY <2>2, <2>4, <2>5, <2>6, <2>7, <2>8
    DEF Statement, DoCreateList, DoAddFeed, DoDeleteList, DoRenameList, DoDeleteFeed,
        DoSetList, DoApiSetList, DoClearList, DoApiClearList, ImportEnds, StatementFails
<1> QED
  BY <1>2, <1>3 DEF ListsNamed

\* Who inserts a feed has a URL for it, and inserts one.
LEMMA StatementUrls ==
    ASSUME LibraryInv, NEW p \in Request, Statement(p)
    PROVE  FeedsHaveUrls'
<1> USE LibraryAssumption DEF LibraryInv, TypeOK, At
<1>1. /\ \A f \in Feed : feedOwner[f] # None => feedUrl[f] # None
      /\ \A q \in Request : req[q].step \in {"addFeed", "insertFeed"} => req[q].url # None
      /\ IsFiniteSet(usedFeeds)
  BY DEF FeedsHaveUrls
<1>2. /\ \A f \in Feed : feedOwner'[f] # None => feedUrl'[f] # None
      /\ IsFiniteSet(usedFeeds')
  <2> USE DEF TablesTypeOK
  <2>1. CASE UNCHANGED feedVars
    BY <1>1, <2>1 DEF feedVars
  <2>2. CASE InsertFeed(req[p].user, req[p].url) /\ req[p].url # None
    BY <1>1, <2>2, FS_AddElement DEF InsertFeed
  <2>3. CASE DoAddFeed(p) \/ ImportFeed(p)
    BY <1>1, <2>1, <2>2, <2>3 DEF DoAddFeed, ImportFeed
  <2>4. CASE DoDeleteFeed(p)
    BY <1>1, <2>4 DEF DoDeleteFeed, OwnsFeed
  <2> QED
    BY <2>1, <2>3, <2>4
    DEF Statement, DoCreateList, VerifyList, VerifyFeed, DoDeleteList, DoRenameList, DoSetList,
        DoApiSetList, DoClearList, DoApiClearList, NextEntry, ImportEnds, EnsureList, ReadList,
        ImportStatementFails, ImportAssign, StatementFails
<1>3. ASSUME NEW q \in Request, req'[q].step \in {"addFeed", "insertFeed"}
      PROVE  req'[q].url # None
  <2>1. CASE req'[q] = req[q]
    BY <1>1, <1>3, <2>1
  <2>2. CASE Done(p)
    BY <1>3, <2>1, <2>2, DoneEffect DEF Idle
  <2>3. ASSUME NEW step \in Step, NEW l \in List \cup {None}, NEW n \in Name \cup {None},
               NEW x \in Url \cup {None}, req[p].step # "idle", Continue(p, step, l, n, x),
               step \in {"addFeed", "insertFeed"} => x # None
        PROVE  req'[q].url # None
    <3>1. /\ req'[p] = Make(step, req[p].goal, req[p].user, l, req[p].feed, n, x)
          /\ \A r \in Request \ {p} : req'[r] = req[r]
      BY <2>3, ContinueEffect
    <3> QED
      BY <1>3, <2>1, <2>3, <3>1 DEF Make
  <2>4. CASE (VerifyList(p) \/ VerifyFeed(p)) /\ ~Done(p)
    <3>1. req[p].step \in {"verifyList", "verifyFeed"}
      BY <2>4 DEF VerifyList, VerifyFeed
    <3>2. PICK step \in Goal \cup {"verifyFeed"} :
            Continue(p, step, req[p].list, req[p].name, req[p].url)
      BY <2>4, <3>1 DEF VerifyList, VerifyFeed, Goto, RequestShape, Goal
    <3>3. step \in Step /\ step \notin {"addFeed", "insertFeed"}
      BY DEF Goal, Step
    <3> QED
      BY <2>3, <3>1, <3>2, <3>3, RequestTyped
  <2>5. ASSUME NEW x \in Url, NEW folder \in Name \cup {None}, NextEntry(p, x, folder)
        PROVE  req'[q].url # None
    BY <2>3, <2>5 DEF NextEntry, Step
  <2>6. CASE ImportFeed(p) \/ EnsureList(p) \/ ReadList(p) \/ ImportStatementFails(p)
             \/ ImportAssign(p)
    <3>1. req[p].step \in ImportStep
      BY <2>6 DEF ImportFeed, EnsureList, ReadList, ImportStatementFails, ImportAssign, ImportStep
    <3>2. PICK step \in {"readList", "ensureList", "assignList", "nextEntry"},
               l \in List \cup {None} : Continue(p, step, l, req[p].name, req[p].url)
      <4>1. req[p].name # None => cache[p][req[p].name] \in List \cup {None}
        BY <3>1, RequestTyped DEF RequestsTypeOK, Cache, ImportStep
      <4> QED
        BY <2>6, <3>1, <4>1, RequestTyped
        DEF ImportFeed, EnsureList, ReadList, ImportStatementFails, ImportAssign, Goto, ImportStep
    <3>3. step \in Step /\ req[p].step # "idle"
      BY <3>1 DEF Step, ImportStep
    <3> QED
      BY <2>3, <3>2, <3>3, RequestTyped
  <2> QED
    BY <2>2, <2>4, <2>5, <2>6
    DEF Statement, DoCreateList, DoAddFeed, DoDeleteList, DoRenameList, DoDeleteFeed,
        DoSetList, DoApiSetList, DoClearList, DoApiClearList, ImportEnds, StatementFails
<1> QED
  BY <1>2, <1>3 DEF FeedsHaveUrls

-----------------------------------------------------------------------------
(* The theorems                                                            *)

LEMMA InvStep == LibraryInv /\ [Next]_vars => LibraryInv'
<1> SUFFICES ASSUME LibraryInv, [Next]_vars PROVE LibraryInv'
  OBVIOUS
<1>1. CASE UNCHANGED vars
  BY <1>1 DEF vars, listVars, feedVars, importVars, LibraryInv, TypeOK, TablesTypeOK,
     RequestsTypeOK, ListOwnerMatches, VerifiedStaysOwn, Checked, At, UniquePerUser,
     LiveIdsUsed, RequestShape, ListsNamed, FeedsHaveUrls
<1>2. ASSUME NEW p \in Request, Statement(p) PROVE LibraryInv'
  BY <1>2, StatementTables, StatementRequests, StatementOwners, StatementVerified, StatementNames,
     StatementUrls
  DEF LibraryInv, TypeOK
<1> QED
  BY <1>1, <1>2, ArrivalKeepsInv DEF Next

\* Every reachable state satisfies LibraryInv.
THEOREM LibraryInvariant == Spec => []LibraryInv
<1>1. Init => LibraryInv
  BY LibraryAssumption, FS_EmptySet DEF Init, LibraryInv, TypeOK, TablesTypeOK, RequestsTypeOK,
     ListOwnerMatches, VerifiedStaysOwn, Checked, At, UniquePerUser, LiveIdsUsed,
     RequestShape, ListsNamed, FeedsHaveUrls, Idle, Cache, EmptyCache
<1> QED
  BY <1>1, InvStep, PTL DEF Spec

\* Type correctness: foreign keys, ids and the import's cache included.
THEOREM LibraryTypeCorrect == Spec => []TypeOK
<1>1. LibraryInv => TypeOK
  BY DEF LibraryInv
<1> QED
  BY <1>1, LibraryInvariant, PTL

\* Every feed is in a list of its own user or in none (ListOwnerMatches).
THEOREM FeedsStayInOwnLists == Spec => []ListOwnerMatches
<1>1. LibraryInv => ListOwnerMatches
  BY DEF LibraryInv
<1> QED
  BY <1>1, LibraryInvariant, PTL

\* A stale check never turns into somebody else's list (VerifiedStaysOwn).
THEOREM StaleChecksAreSafe == Spec => []VerifiedStaysOwn
<1>1. LibraryInv => VerifiedStaysOwn
  BY DEF LibraryInv
<1> QED
  BY <1>1, LibraryInvariant, PTL

\* Names and URLs stay unique per user (UniquePerUser).
THEOREM NamesStayUnique == Spec => []UniquePerUser
<1>1. LibraryInv => UniquePerUser
  BY DEF LibraryInv
<1> QED
  BY <1>1, LibraryInvariant, PTL

\* A statement moves one request, and writes rows of that request's user.
LEMMA StatementWritesOwn ==
    ASSUME LibraryInv, NEW p \in Request, Statement(p)
    PROVE  /\ \A q \in Request \ {p} : req'[q] = req[q]
           /\ \A l \in List :
                <<listOwner[l], listName[l]>>' # <<listOwner[l], listName[l]>> =>
                    {listOwner[l], listOwner'[l]} \subseteq {req[p].user, None}
           /\ \A f \in Feed :
                <<feedOwner[f], feedUrl[f], feedList[f]>>'
                    # <<feedOwner[f], feedUrl[f], feedList[f]>> =>
                    {feedOwner[f], feedOwner'[f]} \subseteq {req[p].user, None}
<1> USE LibraryAssumption, RequestTyped DEF LibraryInv, TypeOK, TablesTypeOK, At
<1> DEFINE OwnLists == \A l \in List :
              <<listOwner[l], listName[l]>>' # <<listOwner[l], listName[l]>> =>
                  {listOwner[l], listOwner'[l]} \subseteq {req[p].user, None}
           OwnFeedRows == \A f \in Feed :
              <<feedOwner[f], feedUrl[f], feedList[f]>>'
                  # <<feedOwner[f], feedUrl[f], feedList[f]>> =>
                  {feedOwner[f], feedOwner'[f]} \subseteq {req[p].user, None}
<1>1. \A q \in Request \ {p} : req'[q] = req[q]
  BY DEF RequestsTypeOK, Statement, StatementFails, DoCreateList, DoAddFeed, VerifyList, VerifyFeed,
     DoDeleteList, DoRenameList, DoDeleteFeed, DoSetList, DoApiSetList, DoClearList,
     DoApiClearList, NextEntry, ImportEnds, ImportFeed, EnsureList, ReadList,
     ImportStatementFails, ImportAssign, Goto, Continue, Done
<1>2. CASE UNCHANGED <<listVars, feedVars, feedList>>
  BY <1>1, <1>2 DEF listVars, feedVars
<1>3. ASSUME NEW n \in Name \cup {None}, InsertList(req[p].user, n) PROVE OwnLists
  BY <1>3 DEF InsertList, LiveIdsUsed
<1>4. ASSUME NEW x \in Url \cup {None}, InsertFeed(req[p].user, x), UNCHANGED feedList
      PROVE  OwnFeedRows
  BY <1>4 DEF InsertFeed, LiveIdsUsed
<1>5. ASSUME NEW rows, NEW l, AssignList(rows, l), UNCHANGED <<feedOwner, feedUrl>>,
             \A f \in Feed : f \in rows => feedOwner[f] = req[p].user
      PROVE  OwnFeedRows
  BY <1>5 DEF AssignList
<1>6. ASSUME UNCHANGED listVars PROVE OwnLists
  BY <1>6 DEF listVars
<1>7. ASSUME UNCHANGED <<feedVars, feedList>> PROVE OwnFeedRows
  BY <1>7 DEF feedVars
<1>8. CASE DoCreateList(p) \/ EnsureList(p)
  <2>1. OwnLists
    BY <1>3, <1>6, <1>8 DEF DoCreateList, EnsureList
  <2> QED
    BY <1>1, <1>7, <1>8, <2>1 DEF DoCreateList, EnsureList
<1>9. CASE DoAddFeed(p) \/ ImportFeed(p)
  <2>1. OwnFeedRows
    BY <1>4, <1>7, <1>9 DEF DoAddFeed, ImportFeed
  <2> QED
    BY <1>1, <1>6, <1>9, <2>1 DEF DoAddFeed, ImportFeed
<1>10. CASE DoDeleteList(p)
  BY <1>1, <1>10 DEF DoDeleteList, OwnsList, ListOwnerMatches, feedVars
<1>11. CASE DoRenameList(p)
  BY <1>1, <1>11 DEF DoRenameList, OwnsList, feedVars
<1>12. CASE DoDeleteFeed(p)
  BY <1>1, <1>12 DEF DoDeleteFeed, OwnsFeed, listVars
<1>13. CASE DoSetList(p) \/ DoApiSetList(p) \/ DoClearList(p) \/ DoApiClearList(p)
            \/ ImportAssign(p)
  <2>1. OwnFeedRows
    BY <1>5, <1>13 DEF DoSetList, DoApiSetList, DoClearList, DoApiClearList,
       ImportAssign, OwnsFeed, OwnsList, feedVars
  <2> QED
    BY <1>1, <1>6, <1>13, <2>1 DEF DoSetList, DoApiSetList, DoClearList,
       DoApiClearList, ImportAssign
<1> QED
  BY <1>2, <1>8, <1>9, <1>10, <1>11, <1>12, <1>13
  DEF Statement, VerifyList, VerifyFeed, NextEntry, ImportEnds, ReadList,
      ImportStatementFails, StatementFails

\* No request ever writes another user's rows (OwnRowsOnly).
THEOREM RequestsWriteOwnRows == Spec => OwnRowsOnly
<1> DEFINE Writes(p) ==
             /\ \A l \in List :
                  <<listOwner[l], listName[l]>>' # <<listOwner[l], listName[l]>> =>
                      {listOwner[l], listOwner'[l]} \subseteq {req[p].user, None}
             /\ \A f \in Feed :
                  <<feedOwner[f], feedUrl[f], feedList[f]>>'
                      # <<feedOwner[f], feedUrl[f], feedList[f]>> =>
                      {feedOwner[f], feedOwner'[f]} \subseteq {req[p].user, None}
<1>1. LibraryInv /\ Next =>
        \A p \in Request : req'[p] # req[p] /\ req[p] # Idle => Writes(p)
  <2> SUFFICES ASSUME LibraryInv, Next, NEW p \in Request, req'[p] # req[p], req[p] # Idle
               PROVE  Writes(p)
    OBVIOUS
  <2>1. ASSUME NEW q \in Request, Statement(q) PROVE Writes(p)
    BY <2>1, StatementWritesOwn
  <2>2. ASSUME NEW q \in Request, Arrival(q) PROVE FALSE
    BY <2>2, ArrivalShape DEF Arrive, ImportOPML, LibraryInv, TypeOK, RequestsTypeOK
  <2> QED
    BY <2>1, <2>2 DEF Next
<1>2. LibraryInv /\ [Next]_vars =>
        [\A p \in Request : req'[p] # req[p] /\ req[p] # Idle => Writes(p)]_vars
  BY <1>1
<1> QED
  BY <1>2, LibraryInvariant, PTL DEF Spec, OwnRowsOnly

\* The rows that an export reads say of each of the user's feeds, and of no other
\* user's list, where it is (handleExportOPML), whatever requests and imports are
\* half way: with UniquePerUser, the name of a list is enough to find it again.
THEOREM ExportAlwaysSound == Spec => []ExportSound
<1>1. LibraryInv => ExportSound
  <2> SUFFICES ASSUME LibraryInv, NEW u \in User, NEW f \in Feed, feedOwner[f] = u
               PROVE  /\ \A g \in Feed : feedOwner[g] = u /\ Row(f) = Row(g) => f = g
                      /\ feedList[f] # None => /\ OwnsList(u, feedList[f])
                                               /\ FolderOf(f) = listName[feedList[f]]
                      /\ \A g \in Feed : feedOwner[g] = u =>
                           (FolderOf(f) = FolderOf(g) <=> feedList[f] = feedList[g])
    BY DEF ExportSound, OwnFeeds, ExportRows
  <2> USE LibraryAssumption DEF LibraryInv, TypeOK, TablesTypeOK
  <2>1. \A g \in Feed : feedOwner[g] = u /\ Row(f) = Row(g) => f = g
    BY DEF Row, UniquePerUser
  <2>2. \A g \in Feed : feedOwner[g] = u /\ feedList[g] # None =>
          /\ feedList[g] \in List /\ listOwner[feedList[g]] = u
          /\ FolderOf(g) = listName[feedList[g]] /\ FolderOf(g) # None
    BY DEF ListOwnerMatches, ListsNamed, FolderOf
  <2>3. \A g \in Feed : feedList[g] = None => FolderOf(g) = None
    BY DEF FolderOf
  <2>4. \A g \in Feed : feedOwner[g] = u =>
          (FolderOf(f) = FolderOf(g) <=> feedList[f] = feedList[g])
    BY <2>2, <2>3 DEF UniquePerUser
  <2> QED
    BY <2>1, <2>2, <2>4 DEF OwnsList
<1> QED
  BY <1>1, LibraryInvariant, PTL

-----------------------------------------------------------------------------
(* The outlines of a file: the recursions of Opml                            *)

\* The attributes and the outlines inside of an outline at depth d.
Node(d) == [xmlUrl: XmlUrl \cup {None}, text: Folder, outlines: Outlines[d]]

\* The bodies of the three recursions, w for what is one level further down.
OutlinesAt(d, w) ==
    IF d = 0 THEN {<<>>} ELSE Seq([xmlUrl: XmlUrl \cup {None}, text: Folder, outlines: w])
WalkOf(all, w) ==
    [outlines \in all |-> [parent \in Folder |->
      FlattenSeq([i \in DOMAIN outlines |->
        LET o == outlines[i]
        IN  Feeds(o, parent) \o w[o.outlines][FolderFor(o, parent)]])]]
PathsOf(all, w) ==
    [outlines \in all |->
      FlattenSeq([i \in DOMAIN outlines |->
        LET inner == w[outlines[i].outlines]
        IN  << <<outlines[i]>> >> \o [k \in DOMAIN inner |-> <<outlines[i]>> \o inner[k]]])]

\* All three at once.  Nothing is further down than level 0.
Level(d, v) ==
    LET all == OutlinesAt(d, v[1])
    IN  << all, WalkOf(all, v[2]), PathsOf(all, v[3]) >>

\* The recursion has a solution.
LEMMA LevelsExist == \E f : \A d \in Nat : f[d] = Level(d, f[d - 1])
<1> DEFINE D(n, f) == \A d \in 0..n : f[d] = Level(d, f[d - 1])
           S == {n \in Nat : \E f : D(n, f)}
<1>1. \A v, w : Level(0, v) = Level(0, w)
    <2> TAKE v, w
    <2> DEFINE none == << {<<>>}, [outlines \in {<<>>} |-> [parent \in Folder |->
                                    FlattenSeq([i \in {} |-> <<>>])]],
                          [outlines \in {<<>>} |-> FlattenSeq([i \in {} |-> <<>>])] >>
    <2>1. OutlinesAt(0, v[1]) = {<<>>} /\ OutlinesAt(0, w[1]) = {<<>>}
        BY DEF OutlinesAt
    <2>2. \A x : /\ WalkOf({<<>>}, x) = none[2]
                 /\ PathsOf({<<>>}, x) = none[3]
        BY DEF WalkOf, PathsOf
    <2> HIDE DEF none
    <2> QED BY <2>1, <2>2 DEF Level
<1>2. ASSUME NEW n \in Nat, NEW f, NEW g, D(n, f), D(n, g)
      PROVE  f[n] = g[n]
    <2> DEFINE A == {d \in Nat : d <= n => f[d] = g[d]}
    <2>1. 0 \in A
        <3>1. f[0] = Level(0, f[0 - 1]) /\ g[0] = Level(0, g[0 - 1])
            BY <1>2
        <3> QED BY <1>1, <3>1
    <2>2. ASSUME NEW d \in A PROVE d + 1 \in A
        <3>1. CASE d + 1 <= n
            <4>1. d + 1 \in 0..n /\ (d + 1) - 1 = d /\ d <= n
                BY <3>1
            <4>2. f[d + 1] = Level(d + 1, f[d]) /\ g[d + 1] = Level(d + 1, g[d])
                BY <1>2, <4>1
            <4> QED BY <4>1, <4>2
        <3>2. CASE ~(d + 1 <= n)
            BY <3>2
        <3> QED BY <3>1, <3>2
    <2>3. A = Nat
        <3> HIDE DEF A
        <3>1. A \subseteq Nat
            BY DEF A
        <3> QED BY <2>1, <2>2, <3>1, AllNumbers
    <2> QED BY <2>3
<1>3. S = Nat
    <2>1. 0 \in S
        <3> DEFINE f == [d \in {0} |-> Level(0, 0)]
        <3>1. D(0, f)
            BY <1>1
        <3> QED BY <3>1
    <2>2. ASSUME NEW n \in S PROVE n + 1 \in S
        <3>1. PICK f : D(n, f)
            OBVIOUS
        <3> DEFINE g == [d \in 0..(n + 1) |-> IF d <= n THEN f[d] ELSE Level(d, f[n])]
        <3>2. ASSUME NEW d \in 0..(n + 1) PROVE g[d] = Level(d, g[d - 1])
            <4>1. CASE d = 0
                <5>1. g[d] = f[0] /\ f[0] = Level(0, f[0 - 1])
                    BY <3>1, <4>1
                <5> QED BY <1>1, <4>1, <5>1
            <4>2. CASE d # 0 /\ d <= n
                <5>1. g[d] = f[d] /\ g[d - 1] = f[d - 1] /\ f[d] = Level(d, f[d - 1])
                    BY <3>1, <4>2
                <5> QED BY <5>1
            <4>3. CASE d = n + 1
                <5>1. g[d] = Level(d, f[n]) /\ g[d - 1] = f[n]
                    BY <4>3
                <5> QED BY <5>1
            <4> QED BY <4>1, <4>2, <4>3
        <3>3. \E h : D(n + 1, h)
            <4> HIDE DEF g
            <4> QED BY <3>2
        <3>4. n + 1 \in Nat
            OBVIOUS
        <3> QED BY <3>3, <3>4, Zenon
    <2> HIDE DEF S
    <2>3. S \subseteq Nat
        BY DEF S
    <2> QED BY <2>1, <2>2, <2>3, AllNumbers
<1> DEFINE c(n) == CHOOSE f : D(n, f)
           h == [d \in Nat |-> c(d)[d]]
<1>4. ASSUME NEW n \in Nat PROVE D(n, c(n))
    <2>1. \E f : D(n, f)
        <3>1. n \in S
            <4> HIDE DEF S
            <4> QED BY <1>3
        <3> QED BY <3>1, Zenon
    <2> HIDE DEF D
    <2> QED BY <2>1, Zenon
<1>5. ASSUME NEW d \in Nat PROVE h[d] = Level(d, h[d - 1])
    <2>1. h[d] = Level(d, c(d)[d - 1])
        <3>1. D(d, c(d)) /\ d \in 0..d
            BY <1>4
        <3> HIDE DEF c
        <3> QED BY <3>1
    <2>2. CASE d = 0
        <3> HIDE DEF h, c
        <3> QED BY <1>1, <2>1, <2>2
    <2>3. CASE d # 0
        <3> DEFINE b == d - 1
        <3>1. b \in Nat
            BY <2>3
        <3>2. D(b, c(b)) /\ D(d, c(d)) /\ h[b] = c(b)[b]
            BY <3>1, <1>4
        <3> HIDE DEF c
        <3>3. D(b, c(d))
            BY <3>1, <3>2
        <3> HIDE DEF D, h, b
        <3>4. c(b)[b] = c(d)[b]
            BY <1>2, <3>1, <3>2, <3>3
        <3> QED BY <2>1, <3>2, <3>4 DEF b
    <2> QED BY <2>2, <2>3
<1> HIDE DEF h
<1> QED BY <1>5

\* Each of them is what its definition says.
LEMMA OutlinesIs == \A d \in Nat : Outlines[d] = OutlinesAt(d, Outlines[d - 1])
<1> DEFINE D(f) == f = [d \in Nat |-> OutlinesAt(d, f[d - 1])]
<1>1. PICK f : \A d \in Nat : f[d] = Level(d, f[d - 1])
    BY LevelsExist
<1> DEFINE h == [d \in Nat |-> f[d][1]]
<1>2. ASSUME NEW d \in Nat PROVE h[d] = OutlinesAt(d, h[d - 1])
    <2>1. h[d] = OutlinesAt(d, f[d - 1][1])
        BY <1>1 DEF Level
    <2>2. CASE d = 0
        <3> HIDE DEF h
        <3> QED BY <2>1, <2>2 DEF OutlinesAt
    <2>3. CASE d # 0
        <3>1. h[d - 1] = f[d - 1][1]
            BY <2>3
        <3> QED BY <2>1, <3>1
    <2> QED BY <2>2, <2>3
<1>3. \E g : D(g)
    <2>1. h = [d \in Nat |-> h[d]]
        OBVIOUS
    <2> HIDE DEF h
    <2>2. D(h)
        BY <1>2, <2>1
    <2> QED BY <2>2
<1>4. Outlines = CHOOSE g : D(g)
    BY Zenon DEF Outlines, OutlinesAt
<1>5. D(Outlines)
    BY <1>3, <1>4, Zenon
<1> QED BY <1>5, Zenon

\* What the levels of outlines are, is what Outlines says.
LEMMA LevelsOutlines ==
    ASSUME NEW f, \A d \in Nat : f[d] = Level(d, f[d - 1])
    PROVE  \A d \in Nat : Outlines[d] = OutlinesAt(d, f[d - 1][1])
<1> DEFINE S == {d \in Nat : Outlines[d] = f[d][1]}
<1>1. \A d \in Nat : f[d][1] = OutlinesAt(d, f[d - 1][1])
    BY DEF Level
<1>2. 0 \in S
    <2>1. Outlines[0] = OutlinesAt(0, Outlines[0 - 1]) /\ f[0][1] = OutlinesAt(0, f[0 - 1][1])
        BY <1>1, OutlinesIs
    <2>2. Outlines[0] = f[0][1]
        BY <2>1 DEF OutlinesAt
    <2> QED BY <2>2
<1>3. ASSUME NEW d \in S PROVE d + 1 \in S
    <2>1. d + 1 \in Nat /\ (d + 1) - 1 = d /\ Outlines[d] = f[d][1]
        OBVIOUS
    <2>2. Outlines[d + 1] = OutlinesAt(d + 1, Outlines[d]) /\ f[d + 1][1] = OutlinesAt(d + 1, f[d][1])
        BY <1>1, <2>1, OutlinesIs
    <2> QED BY <2>1, <2>2
<1>4. S = Nat
    <2> HIDE DEF S
    <2>1. S \subseteq Nat
        BY DEF S
    <2> QED BY <2>1, <1>2, <1>3, AllNumbers
<1> QED BY <1>1, <1>4

LEMMA WalkIs ==
    \A d \in Nat :
      CollectFeedsWithFolder[d] = WalkOf(Outlines[d], CollectFeedsWithFolder[d - 1])
<1> DEFINE D(f) == f = [d \in Nat |-> WalkOf(Outlines[d], f[d - 1])]
<1>1. PICK f : \A d \in Nat : f[d] = Level(d, f[d - 1])
    BY LevelsExist
<1> DEFINE h == [d \in Nat |-> f[d][2]]
<1>2. \A d \in Nat : Outlines[d] = OutlinesAt(d, f[d - 1][1])
    BY <1>1, LevelsOutlines
<1>3. Outlines[0] = {<<>>}
    BY OutlinesIs DEF OutlinesAt
<1>4. ASSUME NEW d \in Nat PROVE h[d] = WalkOf(Outlines[d], h[d - 1])
    <2>1. h[d] = WalkOf(Outlines[d], f[d - 1][2])
        BY <1>1, <1>2, <1>3 DEF Level
    <2>2. CASE d = 0
        <3> HIDE DEF h
        <3> QED BY <2>1, <2>2, <1>2, <1>3 DEF WalkOf
    <2>3. CASE d # 0
        <3>1. h[d - 1] = f[d - 1][2]
            BY <2>3
        <3> QED BY <2>1, <3>1
    <2> QED BY <2>2, <2>3
<1>5. \E g : D(g)
    <2>1. h = [d \in Nat |-> h[d]]
        OBVIOUS
    <2> HIDE DEF h
    <2>2. D(h)
        BY <1>4, <2>1
    <2> QED BY <2>2
<1>6. CollectFeedsWithFolder = CHOOSE g : D(g)
    BY Zenon DEF CollectFeedsWithFolder, WalkOf
<1>7. D(CollectFeedsWithFolder)
    BY <1>5, <1>6, Zenon
<1> QED BY <1>7, Zenon

LEMMA PathsIs == \A d \in Nat : Paths[d] = PathsOf(Outlines[d], Paths[d - 1])
<1> DEFINE D(f) == f = [d \in Nat |-> PathsOf(Outlines[d], f[d - 1])]
<1>1. PICK f : \A d \in Nat : f[d] = Level(d, f[d - 1])
    BY LevelsExist
<1> DEFINE h == [d \in Nat |-> f[d][3]]
<1>2. \A d \in Nat : Outlines[d] = OutlinesAt(d, f[d - 1][1])
    BY <1>1, LevelsOutlines
<1>3. Outlines[0] = {<<>>}
    BY OutlinesIs DEF OutlinesAt
<1>4. ASSUME NEW d \in Nat PROVE h[d] = PathsOf(Outlines[d], h[d - 1])
    <2>1. h[d] = PathsOf(Outlines[d], f[d - 1][3])
        BY <1>1, <1>2, <1>3 DEF Level
    <2>2. CASE d = 0
        <3> HIDE DEF h
        <3> QED BY <2>1, <2>2, <1>2, <1>3 DEF PathsOf
    <2>3. CASE d # 0
        <3>1. h[d - 1] = f[d - 1][3]
            BY <2>3
        <3> QED BY <2>1, <3>1
    <2> QED BY <2>2, <2>3
<1>5. \E g : D(g)
    <2>1. h = [d \in Nat |-> h[d]]
        OBVIOUS
    <2> HIDE DEF h
    <2>2. D(h)
        BY <1>4, <2>1
    <2> QED BY <2>2
<1>6. Paths = CHOOSE g : D(g)
    BY Zenon DEF Paths, PathsOf
<1>7. D(Paths)
    BY <1>5, <1>6, Zenon
<1> QED BY <1>7, Zenon

\* What an import makes of an outline in the folder p: its feed, if it is one,
\* and what the walk w makes of the outlines inside of it.
FromOutline(d, w, p) ==
    [o \in Node(d) |-> Feeds(o, p) \o w[o.outlines][FolderFor(o, p)]]

\* The outlines of a path, at any depth, and the paths.
AnyOutline == [xmlUrl: XmlUrl \cup {None}, text: Folder, outlines: UNION {Outlines[d] : d \in Nat}]
Path == Seq(AnyOutline) \ {<<>>}

\* The paths that start at an outline, w those of the outlines inside of it.
FromHere(d, w) ==
    [o \in Node(d) |->
      << <<o>> >> \o [k \in DOMAIN w[o.outlines] |-> <<o>> \o w[o.outlines][k]]]

Entry == [url: XmlUrl, folder: Folder]

\* No outlines are outlines of any depth.
LEMMA NothingIn ==
    ASSUME NEW d \in Nat
    PROVE  <<>> \in Outlines[d]
<1>1. CASE d = 0
    BY <1>1, OutlinesIs DEF OutlinesAt
<1>2. CASE d # 0
    <2>1. Outlines[d] = Seq([xmlUrl: XmlUrl \cup {None}, text: Folder, outlines: Outlines[d - 1]])
        BY <1>2, OutlinesIs DEF OutlinesAt
    <2> QED BY <2>1, EmptySeq
<1> QED BY <1>1, <1>2

\* One level more.
LEMMA Deeper ==
    ASSUME NEW d \in Nat
    PROVE  /\ Outlines[0] = {<<>>}
           /\ Outlines[d + 1] = Seq(Node(d))
<1>1. Outlines[0] = {<<>>}
    BY OutlinesIs DEF OutlinesAt
<1>2. d + 1 \in Nat /\ d + 1 # 0 /\ (d + 1) - 1 = d
    OBVIOUS
<1>3. Outlines[d + 1] = OutlinesAt(d + 1, Outlines[d])
    BY <1>2, OutlinesIs
<1> QED BY <1>1, <1>2, <1>3 DEF OutlinesAt, Node

\* The walk, level by level.
LEMMA Walk ==
    ASSUME NEW p \in Folder
    PROVE  /\ CollectFeedsWithFolder[0][<<>>][p] = <<>>
           /\ \A d \in Nat : \A outlines \in Outlines[d + 1] :
                CollectFeedsWithFolder[d + 1][outlines][p]
                  = FlattenSeq(Each(FromOutline(d, CollectFeedsWithFolder[d], p), outlines))
<1>1. CollectFeedsWithFolder[0][<<>>][p] = <<>>
    <2>1. CollectFeedsWithFolder[0] = WalkOf(Outlines[0], CollectFeedsWithFolder[0 - 1])
        BY WalkIs
    <2>2. CollectFeedsWithFolder[0][<<>>][p] = FlattenSeq([i \in {} |-> <<>>])
        BY <2>1, Deeper DEF WalkOf
    <2>3. [i \in {} |-> <<>>] = <<>>
        OBVIOUS
    <2> QED BY <2>2, <2>3, FlattenEmpty
<1>2. ASSUME NEW d \in Nat, NEW outlines \in Outlines[d + 1]
      PROVE  CollectFeedsWithFolder[d + 1][outlines][p]
               = FlattenSeq(Each(FromOutline(d, CollectFeedsWithFolder[d], p), outlines))
    <2> DEFINE w == CollectFeedsWithFolder[d]
    <2>1. CollectFeedsWithFolder[d + 1] = WalkOf(Outlines[d + 1], w)
        <3>1. d + 1 \in Nat /\ (d + 1) - 1 = d
            OBVIOUS
        <3> QED BY <3>1, WalkIs
    <2> HIDE DEF w
    <2>2. CollectFeedsWithFolder[d + 1][outlines][p] =
            FlattenSeq([i \in DOMAIN outlines |->
              Feeds(outlines[i], p) \o w[outlines[i].outlines][FolderFor(outlines[i], p)]])
        BY <2>1 DEF WalkOf
    <2>3. \A i \in DOMAIN outlines : outlines[i] \in Node(d)
        BY Deeper
    <2>4. Each(FromOutline(d, w, p), outlines) =
            [i \in DOMAIN outlines |->
              Feeds(outlines[i], p) \o w[outlines[i].outlines][FolderFor(outlines[i], p)]]
        BY <2>3 DEF Each, FromOutline
    <2> QED BY <2>2, <2>4 DEF w
<1> QED BY <1>1, <1>2

\* The paths, level by level.
LEMMA PathsBelow ==
    /\ Paths[0][<<>>] = <<>>
    /\ \A d \in Nat : \A outlines \in Outlines[d + 1] :
         Paths[d + 1][outlines] = FlattenSeq(Each(FromHere(d, Paths[d]), outlines))
<1>1. Paths[0][<<>>] = <<>>
    <2>1. Paths[0] = PathsOf(Outlines[0], Paths[0 - 1])
        BY PathsIs
    <2>2. Paths[0][<<>>] = FlattenSeq([i \in {} |-> <<>>])
        BY <2>1, Deeper DEF PathsOf
    <2>3. [i \in {} |-> <<>>] = <<>>
        OBVIOUS
    <2> QED BY <2>2, <2>3, FlattenEmpty
<1>2. ASSUME NEW d \in Nat, NEW outlines \in Outlines[d + 1]
      PROVE  Paths[d + 1][outlines] = FlattenSeq(Each(FromHere(d, Paths[d]), outlines))
    <2> DEFINE w == Paths[d]
    <2>1. Paths[d + 1] = PathsOf(Outlines[d + 1], w)
        <3>1. d + 1 \in Nat /\ (d + 1) - 1 = d
            OBVIOUS
        <3> QED BY <3>1, PathsIs
    <2> HIDE DEF w
    <2> DEFINE here(o) == << <<o>> >> \o
                 [k \in DOMAIN w[o.outlines] |-> <<o>> \o w[o.outlines][k]]
    <2>2. Paths[d + 1][outlines] = FlattenSeq([i \in DOMAIN outlines |-> here(outlines[i])])
        BY <2>1 DEF PathsOf
    <2>3. \A i \in DOMAIN outlines : outlines[i] \in Node(d)
        BY Deeper
    <2>4. Each(FromHere(d, w), outlines) = [i \in DOMAIN outlines |-> here(outlines[i])]
        <3>1. \A i \in DOMAIN outlines : FromHere(d, w)[outlines[i]] = here(outlines[i])
            BY <2>3 DEF FromHere
        <3> HIDE DEF here
        <3> QED BY <3>1 DEF Each
    <2> QED BY <2>2, <2>4 DEF w
<1> QED BY <1>1, <1>2

-----------------------------------------------------------------------------
(* Where the walk puts a feed                                              *)

\* What the parts of the walk return.
LEMMA FolderForType ==
    ASSUME NEW o, o.text \in Folder, NEW p \in Folder
    PROVE  FolderFor(o, p) \in Folder
BY DEF FolderFor

LEMMA FeedsType ==
    ASSUME NEW o, o.xmlUrl \in XmlUrl \cup {None}, NEW p \in Folder
    PROVE  Feeds(o, p) \in Seq(Entry)
<1>1. CASE o.xmlUrl = None
    <2>1. Feeds(o, p) = <<>>
        BY <1>1 DEF Feeds
    <2> QED BY <2>1
<1>2. CASE o.xmlUrl # None
    <2>1. [url |-> o.xmlUrl, folder |-> p] \in Entry
        BY <1>2 DEF Entry
    <2>2. Feeds(o, p) = << [url |-> o.xmlUrl, folder |-> p] >>
        BY <1>2 DEF Feeds
    <2> QED BY <2>1, <2>2
<1> QED BY <1>1, <1>2

\* The walk of outlines at any depth returns entries.
LEMMA WalkType ==
    \A d \in Nat : \A outlines \in Outlines[d], p \in Folder :
      CollectFeedsWithFolder[d][outlines][p] \in Seq(Entry)
<1> DEFINE S == {d \in Nat : \A outlines \in Outlines[d], p \in Folder :
                   CollectFeedsWithFolder[d][outlines][p] \in Seq(Entry)}
<1>1. 0 \in S
    <2>1. ASSUME NEW outlines \in Outlines[0], NEW p \in Folder
          PROVE  CollectFeedsWithFolder[0][outlines][p] \in Seq(Entry)
        <3>1. outlines = <<>> /\ CollectFeedsWithFolder[0][<<>>][p] = <<>>
            BY Walk, Deeper
        <3> QED BY <3>1, EmptySeq
    <2>2. 0 \in Nat
        OBVIOUS
    <2> QED BY <2>1, <2>2, Zenon
<1>2. ASSUME NEW d \in S PROVE d + 1 \in S
    <2> DEFINE w == CollectFeedsWithFolder[d]
    <2>1. d \in Nat /\ d + 1 \in Nat
        OBVIOUS
    <2>2. ASSUME NEW outlines \in Outlines[d + 1], NEW p \in Folder
          PROVE  CollectFeedsWithFolder[d + 1][outlines][p] \in Seq(Entry)
        <3> DEFINE g == FromOutline(d, w, p)
        <3>1. ASSUME NEW o \in Node(d) PROVE g[o] \in Seq(Entry)
            <4>1. /\ o.xmlUrl \in XmlUrl \cup {None} /\ o.text \in Folder
                  /\ o.outlines \in Outlines[d]
                BY DEF Node
            <4>2. FolderFor(o, p) \in Folder /\ Feeds(o, p) \in Seq(Entry)
                BY <4>1, FolderForType, FeedsType
            <4>3. w[o.outlines][FolderFor(o, p)] \in Seq(Entry)
                BY <4>1, <4>2
            <4>4. g[o] = Feeds(o, p) \o w[o.outlines][FolderFor(o, p)]
                BY DEF FromOutline
            <4> HIDE DEF g, w
            <4> QED BY <4>2, <4>3, <4>4, ConcatProperties
        <3>2. outlines \in Seq(Node(d))
            BY <2>1, Deeper
        <3>3. CollectFeedsWithFolder[d + 1][outlines][p] = FlattenSeq(Each(g, outlines))
            BY <2>1, Walk
        <3> HIDE DEF g
        <3>4. Each(g, outlines) \in Seq(Seq(Entry))
            BY ONLY <3>1, <3>2, EachIs
        <3> QED BY <3>3, <3>4, FlattenType
    <2> QED BY <2>1, <2>2, Zenon
<1>3. S = Nat
    <2> HIDE DEF S
    <2>1. S \subseteq Nat
        BY DEF S
    <2> QED BY <2>1, <1>1, <1>2, AllNumbers
<1> QED BY <1>3, Zenon

\* An outline at some depth, without its depth.
LEMMA NodeIsOutline ==
    ASSUME NEW d \in Nat, NEW o \in Node(d)
    PROVE  /\ o \in AnyOutline
           /\ o.xmlUrl \in XmlUrl \cup {None} /\ o.text \in Folder /\ o.outlines \in Outlines[d]
BY DEF Node, AnyOutline

\* Outlines at any depth have paths.
LEMMA PathsType ==
    \A d \in Nat : \A outlines \in Outlines[d] : Paths[d][outlines] \in Seq(Path)
<1> DEFINE S == {d \in Nat : \A outlines \in Outlines[d] : Paths[d][outlines] \in Seq(Path)}
<1>1. 0 \in S
    <2>1. ASSUME NEW outlines \in Outlines[0]
          PROVE  Paths[0][outlines] \in Seq(Path)
        <3>1. outlines = <<>> /\ Paths[0][<<>>] = <<>>
            BY PathsBelow, Deeper
        <3> QED BY <3>1, EmptySeq
    <2>2. 0 \in Nat
        OBVIOUS
    <2> QED BY <2>1, <2>2, Zenon
<1>2. ASSUME NEW d \in S PROVE d + 1 \in S
    <2> DEFINE w == Paths[d]
    <2>1. d \in Nat /\ d + 1 \in Nat
        OBVIOUS
    <2>2. ASSUME NEW outlines \in Outlines[d + 1]
          PROVE  Paths[d + 1][outlines] \in Seq(Path)
        <3> DEFINE g == FromHere(d, w)
        <3>1. ASSUME NEW o \in Node(d) PROVE g[o] \in Seq(Path)
            <4> DEFINE inner == w[o.outlines]
                       tails == [k \in DOMAIN inner |-> <<o>> \o inner[k]]
            <4>1. o \in AnyOutline /\ inner \in Seq(Path)
                BY <2>1, NodeIsOutline
            <4>2. <<o>> \in Seq(AnyOutline) /\ <<o>> # <<>>
                BY <4>1
            <4> g[o] = << <<o>> >> \o tails
                BY DEF FromHere
            <4> HIDE DEF g, w, inner
            <4>3. ASSUME NEW k \in DOMAIN inner PROVE <<o>> \o inner[k] \in Path
                <5>1. inner[k] \in Seq(AnyOutline)
                    BY <4>1 DEF Path
                <5> DEFINE r == inner[k]
                <5> HIDE DEF r
                <5>2. <<o>> \o r \in Seq(AnyOutline) /\ Len(<<o>> \o r) = 1 + Len(r) /\ Len(r) \in Nat
                    BY <4>1, <5>1 DEF r
                <5> QED BY <5>2, EmptySeq DEF Path, r
            <4>4. tails \in Seq(Path)
                <5>1. DOMAIN inner = 1..Len(inner) /\ Len(inner) \in Nat
                    BY <4>1
                <5>2. \A k \in 1..Len(inner) : <<o>> \o inner[k] \in Path
                    BY <4>3, <5>1
                <5> HIDE DEF Path
                <5>3. tails = [k \in 1..Len(inner) |-> <<o>> \o inner[k]]
                    BY <5>1
                <5>4. tails \in [1..Len(inner) -> Path]
                    BY <5>2, <5>3, Zenon
                <5> DEFINE n == Len(inner)
                <5> HIDE DEF tails, n
                <5>5. n \in Nat /\ tails \in [1..n -> Path]
                    BY <5>1, <5>4 DEF n
                <5> QED BY ONLY <5>5
            <4>5. << <<o>> >> \in Seq(Path)
                BY <4>2 DEF Path
            <4> HIDE DEF tails
            <4> QED BY <4>4, <4>5, ConcatProperties
        <3>2. outlines \in Seq(Node(d))
            BY <2>1, Deeper
        <3>3. Paths[d + 1][outlines] = FlattenSeq(Each(g, outlines))
            BY <2>1, PathsBelow
        <3> HIDE DEF g
        <3>4. Each(g, outlines) \in Seq(Seq(Path))
            BY ONLY <3>1, <3>2, EachIs
        <3> QED BY <3>3, <3>4, FlattenType
    <2> QED BY <2>1, <2>2, Zenon
<1>3. S = Nat
    <2> HIDE DEF S
    <2>1. S \subseteq Nat
        BY DEF S
    <2> QED BY <2>1, <1>1, <1>2, AllNumbers
<1> QED BY <1>3, Zenon

\* Max of numbers up to n is the last of them.
LEMMA MaxIs ==
    ASSUME NEW n \in Nat, NEW S, S \subseteq 1..n, S # {}
    PROVE  Max(S) \in S /\ \A y \in S : y <= Max(S)
<1> DEFINE B == {b \in Nat : \A y \in S : y <= b}
<1>1. n \in B /\ B \subseteq Nat
    OBVIOUS
<1>2. PICK b \in B : \A x \in B : b <= x
    <2> HIDE DEF B
    <2> QED BY <1>1, LeastNumber
<1>3. b \in S
    <2> SUFFICES ASSUME b \notin S PROVE FALSE
        OBVIOUS
    <2>1. PICK y \in S : y <= b
        OBVIOUS
    <2>2. b # 0
        BY <2>1
    <2>3. b - 1 \in B
        <3>1. b - 1 \in Nat
            BY <2>2
        <3>2. \A x \in S : x <= b - 1
            <4> TAKE x \in S
            <4>1. x <= b /\ x # b /\ x \in Nat /\ b \in Nat
                OBVIOUS
            <4> QED BY <4>1
        <3> QED BY <3>1, <3>2
    <2> QED BY <2>3, <1>2
<1>4. \E x \in S : \A y \in S : x >= y
    BY <1>3
<1>5. Max(S) \in S /\ \A y \in S : Max(S) >= y
    BY <1>4 DEF Max
<1> QED BY <1>5

\* What is made of the last outline of a path that starts in the folder p.
PlacedUnder(path, p) ==
    LET around == FoldersAround(path)
    IN  IF Last(path).xmlUrl = None THEN <<>>
        ELSE << [url |-> Last(path).xmlUrl,
                 folder |-> IF around = {} THEN p ELSE path[Max(around)].text] >>

\* An outline before a path is the folder that the path starts in, if it is one.
LEMMA PlacedBelow ==
    ASSUME NEW o \in AnyOutline, NEW r \in Path, NEW p \in Folder
    PROVE  PlacedUnder(<<o>> \o r, p) = PlacedUnder(r, FolderFor(o, p))
<1> DEFINE s == <<o>> \o r
           n == Len(r)
<1>1. /\ n \in Nat /\ n >= 1 /\ r \in Seq(AnyOutline)
      /\ s \in Seq(AnyOutline) /\ Len(s) = n + 1 /\ s[1] = o
      /\ \A i \in 1..n : s[i + 1] = r[i]
    <2>1. r \in Seq(AnyOutline) /\ r # <<>>
        BY DEF Path
    <2> QED BY <2>1, EmptySeq
<1> HIDE DEF s, n
<1>2. Last(s) = Last(r)
    BY <1>1 DEF Last, n
<1>3. FoldersAround(r) \subseteq 1..n /\ FoldersAround(s) \subseteq 1..n
    BY <1>1 DEF FoldersAround, n
<1>4. \A i \in 1..n : i + 1 \in FoldersAround(s) <=> i \in FoldersAround(r)
    BY <1>1 DEF FoldersAround, n
<1>5. 1 \in FoldersAround(s) <=> o.xmlUrl = None /\ o.text # None
    BY <1>1 DEF FoldersAround
<1>6. \A i \in FoldersAround(s) : i = 1 \/ (i - 1 \in FoldersAround(r) /\ i - 1 \in 1..n)
    <2> TAKE i \in FoldersAround(s)
    <2>1. i \in 1..n
        BY <1>3
    <2>2. CASE i # 1
        <3>1. i - 1 \in 1..n /\ (i - 1) + 1 = i
            BY <1>1, <2>1, <2>2
        <3> QED BY <3>1, <1>4
    <2> QED BY <2>2
<1>7. CASE FoldersAround(r) = {} /\ FoldersAround(s) = {}
    <2>1. FolderFor(o, p) = p
        BY <1>5, <1>7 DEF FolderFor
    <2> QED BY <1>2, <1>7, <2>1 DEF PlacedUnder, s
<1>8. CASE FoldersAround(r) = {} /\ FoldersAround(s) # {}
    <2>1. FoldersAround(s) = {1}
        BY <1>6, <1>8
    <2>2. Max(FoldersAround(s)) = 1
        BY <2>1, <1>1, <1>3, MaxIs
    <2>3. s[Max(FoldersAround(s))].text = FolderFor(o, p)
        BY <1>1, <1>5, <2>1, <2>2 DEF FolderFor
    <2> QED BY <1>2, <1>8, <2>3 DEF PlacedUnder, s
<1>9. CASE FoldersAround(r) # {}
    <2> DEFINE m == Max(FoldersAround(r))
               k == Max(FoldersAround(s))
    <2>1. m \in FoldersAround(r) /\ m \in 1..n /\ \A y \in FoldersAround(r) : y <= m
        BY <1>1, <1>3, <1>9, MaxIs
    <2>2. m + 1 \in FoldersAround(s)
        BY <1>4, <2>1
    <2>3. k \in FoldersAround(s) /\ k \in 1..n /\ \A y \in FoldersAround(s) : y <= k
        BY <1>1, <1>3, <2>2, MaxIs
    <2> HIDE DEF m, k
    <2>4. k = m + 1
        BY <1>6, <2>1, <2>2, <2>3
    <2>5. s[k] = r[m]
        BY <1>1, <2>1, <2>4
    <2>6. FoldersAround(s) # {}
        BY <2>2
    <2> QED BY <1>2, <1>9, <2>5, <2>6 DEF PlacedUnder, s, m, k
<1> QED BY <1>7, <1>8, <1>9

\* A path of one outline is in no other folder than the one it starts in.
LEMMA PlacedHere ==
    ASSUME NEW o, NEW p
    PROVE  PlacedUnder(<<o>>, p) = Feeds(o, p)
<1>1. Last(<<o>>) = o /\ FoldersAround(<<o>>) = {}
    BY DEF Last, FoldersAround
<1> QED BY <1>1 DEF PlacedUnder, Feeds

\* The same, for every path.
PlacedFrom(p) == [path \in Path |-> PlacedUnder(path, p)]

\* Paths grow at their beginning.
LEMMA PathIs ==
    ASSUME NEW o \in AnyOutline
    PROVE  <<o>> \in Path /\ \A r \in Path : <<o>> \o r \in Path
<1>1. <<o>> \in Path
    BY DEF Path
<1>2. ASSUME NEW r \in Path PROVE <<o>> \o r \in Path
    <2>1. r \in Seq(AnyOutline) /\ <<o>> \in Seq(AnyOutline) /\ Len(<<o>>) = 1
        BY DEF Path
    <2> DEFINE s == <<o>> \o r
    <2>2. s \in Seq(AnyOutline) /\ Len(s) = 1 + Len(r) /\ Len(r) \in Nat
        BY <2>1
    <2> HIDE DEF s
    <2>3. s # <<>>
        BY <2>2, EmptySeq
    <2> QED BY <2>2, <2>3 DEF Path, s
<1> QED BY <1>1, <1>2

\* What is made of a path is an entry or nothing.
LEMMA PlacedType ==
    ASSUME NEW p \in Folder, NEW path \in Path
    PROVE  PlacedUnder(path, p) \in Seq(Entry)
<1> DEFINE n == Len(path)
           around == FoldersAround(path)
           f == IF around = {} THEN p ELSE path[Max(around)].text
<1>1. n \in Nat /\ n >= 1 /\ \A i \in 1..n : path[i] \in AnyOutline
    <2>1. path \in Seq(AnyOutline) /\ path # <<>>
        BY DEF Path
    <2> QED BY <2>1, EmptySeq
<1>2. around \subseteq 1..n
    BY <1>1 DEF FoldersAround
<1>3. f \in Folder
    <2>1. CASE around # {}
        <3> HIDE DEF n, around
        <3>1. Max(around) \in 1..n
            BY <1>1, <1>2, <2>1, MaxIs
        <3>2. path[Max(around)].text \in Folder
            BY <1>1, <3>1 DEF AnyOutline
        <3> QED BY <2>1, <3>2
    <2>2. CASE around = {}
        BY <2>2
    <2> QED BY <2>1, <2>2
<1>4. Last(path).xmlUrl \in XmlUrl \cup {None}
    <2>1. path[n] \in AnyOutline
        BY <1>1
    <2> QED BY <2>1 DEF Last, AnyOutline
<1>5. PlacedUnder(path, p) = IF Last(path).xmlUrl = None THEN <<>>
                             ELSE << [url |-> Last(path).xmlUrl, folder |-> f] >>
    BY DEF PlacedUnder
<1> HIDE DEF f
<1>6. CASE Last(path).xmlUrl = None
    BY <1>5, <1>6
<1>7. CASE Last(path).xmlUrl # None
    <2>1. [url |-> Last(path).xmlUrl, folder |-> f] \in Entry
        BY <1>3, <1>4, <1>7 DEF Entry
    <2>2. PlacedUnder(path, p) = << [url |-> Last(path).xmlUrl, folder |-> f] >>
        BY <1>5, <1>7
    <2> QED BY <2>1, <2>2
<1> QED BY <1>6, <1>7

\* The walk of outlines in a folder makes of each path what its folders say.
LEMMA WalkPlaces ==
    \A d \in Nat : \A outlines \in Outlines[d], p \in Folder :
      CollectFeedsWithFolder[d][outlines][p]
        = FlattenSeq(Each(PlacedFrom(p), Paths[d][outlines]))
<1> DEFINE S == {d \in Nat : \A outlines \in Outlines[d], p \in Folder :
                   CollectFeedsWithFolder[d][outlines][p]
                     = FlattenSeq(Each(PlacedFrom(p), Paths[d][outlines]))}
<1>1. 0 \in S
    <2>1. ASSUME NEW outlines \in Outlines[0], NEW p \in Folder
          PROVE  CollectFeedsWithFolder[0][outlines][p]
                   = FlattenSeq(Each(PlacedFrom(p), Paths[0][outlines]))
        <3>1. /\ outlines = <<>> /\ CollectFeedsWithFolder[0][<<>>][p] = <<>>
              /\ Paths[0][<<>>] = <<>>
            BY Walk, PathsBelow, Deeper
        <3>2. Each(PlacedFrom(p), <<>>) = <<>>
            BY DEF Each
        <3> QED BY <3>1, <3>2, FlattenEmpty
    <2>2. 0 \in Nat
        OBVIOUS
    <2> QED BY <2>1, <2>2, Zenon
<1>2. ASSUME NEW d \in S PROVE d + 1 \in S
    <2> DEFINE w == CollectFeedsWithFolder[d]
               v == Paths[d]
    <2>1. d \in Nat /\ d + 1 \in Nat
        OBVIOUS
    <2>2. \A outlines \in Outlines[d], p \in Folder :
            /\ w[outlines][p] = FlattenSeq(Each(PlacedFrom(p), v[outlines]))
            /\ w[outlines][p] \in Seq(Entry)
            /\ v[outlines] \in Seq(Path)
        BY WalkType, PathsType
    <2>3. ASSUME NEW outlines \in Outlines[d + 1], NEW p \in Folder
          PROVE  CollectFeedsWithFolder[d + 1][outlines][p]
                   = FlattenSeq(Each(PlacedFrom(p), Paths[d + 1][outlines]))
        <3> DEFINE g == PlacedFrom(p)
                   here == FromHere(d, v)
                   from == FromOutline(d, w, p)
                   a == Each(here, outlines)
        <3>1. outlines \in Seq(Node(d)) /\ outlines = outlines
            BY <2>1, Deeper
        <3>2. /\ CollectFeedsWithFolder[d + 1][outlines][p] = FlattenSeq(Each(from, outlines))
              /\ Paths[d + 1][outlines] = FlattenSeq(a)
            BY <2>1, Walk, PathsBelow
        <3>3. g \in [Path -> Seq(Entry)]
            BY PlacedType DEF PlacedFrom
        <3>4. ASSUME NEW o \in Node(d)
              PROVE  here[o] \in Seq(Path) /\ FlattenSeq(Each(g, here[o])) = from[o]
            <4> DEFINE inner == v[o.outlines]
                       q == FolderFor(o, p)
                       h == [r \in Path |-> <<o>> \o r]
                       tails == Each(h, inner)
            <4>1. /\ o \in AnyOutline /\ o.xmlUrl \in XmlUrl \cup {None} /\ o.text \in Folder
                  /\ o.outlines \in Outlines[d]
                BY <2>1, NodeIsOutline
            <4>2. q \in Folder /\ Feeds(o, p) \in Seq(Entry) /\ inner \in Seq(Path)
                BY <2>2, <4>1, FolderForType, FeedsType
            <4>3. /\ w[o.outlines][q] = FlattenSeq(Each(PlacedFrom(q), inner))
                  /\ w[o.outlines][q] \in Seq(Entry)
                BY <2>2, <4>1, <4>2
            <4>4. from[o] = Feeds(o, p) \o w[o.outlines][q]
                BY DEF FromOutline
            <4> HIDE DEF inner, q
            <4>5. <<o>> \in Path /\ \A r \in Path : h[r] \in Path /\ h[r] = <<o>> \o r
                BY <4>1, PathIs
            <4>6. \A k \in DOMAIN inner : inner[k] \in Path
                BY <4>2
            <4>7. tails = [k \in DOMAIN inner |-> <<o>> \o inner[k]]
                BY <4>6 DEF Each
            <4>8. here[o] = << <<o>> >> \o tails
                <5> HIDE DEF tails
                <5> QED BY <4>7 DEF FromHere, inner
            <4> HIDE DEF h
            <4>9. /\ tails \in Seq(Path) /\ Len(tails) = Len(inner)
                  /\ \A k \in 1..Len(inner) : tails[k] = h[inner[k]]
                <5>1. \A r \in Path : h[r] \in Path
                    BY <4>5
                <5>2. inner \in Seq(Path)
                    BY <4>2
                <5> HIDE DEF Path
                <5>3. Each(h, inner) \in Seq(Path)
                    BY ONLY <5>1, <5>2, EachIs
                <5>4. Len(Each(h, inner)) = Len(inner)
                    BY ONLY <5>2, EachElement
                <5>5. \A k \in 1..Len(inner) : Each(h, inner)[k] = h[inner[k]]
                    BY ONLY <5>2, EachElement
                <5> QED BY <5>3, <5>4, <5>5
            <4> HIDE DEF tails, here, g, from
            <4>10. << <<o>> >> \in Seq(Path) /\ here[o] \in Seq(Path)
                <5>1. << <<o>> >> \in Seq(Path)
                    BY <4>5
                <5> QED BY <4>8, <4>9, <5>1, ConcatProperties
            <4>11. Each(g, here[o]) = Each(g, << <<o>> >>) \o Each(g, tails)
                <5>1. << <<o>> >> \in Seq(Path) /\ tails \in Seq(Path)
                    BY <4>9, <4>10
                <5> DEFINE head == << <<o>> >>
                <5>3. head \in Seq(Path) /\ tails \in Seq(Path)
                    BY <5>1
                <5> HIDE DEF head, Path
                <5>2. Each(g, head \o tails) = Each(g, head) \o Each(g, tails)
                    BY ONLY <5>3, EachConcat
                <5> QED BY <4>8, <5>2 DEF head
            <4>12. Each(g, << <<o>> >>) = << Feeds(o, p) >>
                <5>1. g[<<o>>] = Feeds(o, p)
                    BY <4>5, PlacedHere DEF g, PlacedFrom
                <5>2. Each(g, << <<o>> >>) = << g[<<o>>] >>
                    BY DEF Each
                <5> QED BY <5>1, <5>2
            <4>13. Each(g, tails) = Each(PlacedFrom(q), inner)
                <5>1. \A r \in Path : g[h[r]] = PlacedFrom(q)[r]
                    <6> TAKE r \in Path
                    <6>1. g[h[r]] = PlacedUnder(<<o>> \o r, p)
                        BY <4>5 DEF g, PlacedFrom
                    <6>2. PlacedUnder(<<o>> \o r, p) = PlacedUnder(r, FolderFor(o, p))
                        BY <4>1, PlacedBelow
                    <6> QED BY <6>1, <6>2 DEF PlacedFrom, q
                <5>2. \A k \in 1..Len(inner) : g[tails[k]] = PlacedFrom(q)[inner[k]]
                    BY <4>2, <4>9, <5>1
                <5>3. DOMAIN tails = 1..Len(inner) /\ DOMAIN inner = 1..Len(inner)
                    BY <4>2, <4>9
                <5> HIDE DEF PlacedFrom
                <5> QED BY <5>2, <5>3 DEF Each
            <4>14. Each(g, tails) \in Seq(Seq(Entry)) /\ << Feeds(o, p) >> \in Seq(Seq(Entry))
                <5>1. \A r \in Path : g[r] \in Seq(Entry)
                    BY <3>3
                <5>2. tails \in Seq(Path)
                    BY <4>9
                <5>3. Each(g, tails) \in Seq(Seq(Entry))
                    BY ONLY <5>1, <5>2, EachIs
                <5>4. << Feeds(o, p) >> \in Seq(Seq(Entry))
                    BY <4>2
                <5> QED BY <5>3, <5>4
            <4>15. FlattenSeq(<< Feeds(o, p) >>) = Feeds(o, p)
                <5>1. FlattenSeq(Append(<<>>, Feeds(o, p))) = FlattenSeq(<<>>) \o Feeds(o, p)
                    <6>1. <<>> \in Seq(Seq(Entry))
                        OBVIOUS
                    <6> QED BY <4>2, <6>1, FlattenAppend
                <5>2. Append(<<>>, Feeds(o, p)) = << Feeds(o, p) >>
                    OBVIOUS
                <5>3. <<>> \o Feeds(o, p) = Feeds(o, p)
                    BY <4>2, ConcatEmptySeq
                <5> QED BY <5>1, <5>2, <5>3, FlattenEmpty
            <4>16. FlattenSeq(Each(g, here[o]))
                     = FlattenSeq(<< Feeds(o, p) >>) \o FlattenSeq(Each(g, tails))
                <5> DEFINE first == << Feeds(o, p) >>
                           rest == Each(g, tails)
                <5>1. first \in Seq(Seq(Entry)) /\ rest \in Seq(Seq(Entry))
                    BY <4>14
                <5>2. Each(g, here[o]) = first \o rest
                    BY <4>11, <4>12
                <5> HIDE DEF first, rest
                <5>3. FlattenSeq(first \o rest) = FlattenSeq(first) \o FlattenSeq(rest)
                    BY ONLY <5>1, FlattenConcat
                <5> QED BY <5>2, <5>3 DEF first, rest
            <4> QED BY <4>3, <4>4, <4>10, <4>13, <4>15, <4>16
        <3> HIDE DEF g, here, from
        <3>5. a \in Seq(Seq(Path)) /\ Len(a) = Len(outlines)
              /\ \A i \in 1..Len(outlines) : a[i] = here[outlines[i]]
            <4>1. \A o \in Node(d) : here[o] \in Seq(Path)
                BY <3>4
            <4>2. outlines \in Seq(Node(d))
                BY <3>1
            <4>3. Each(here, outlines) \in Seq(Seq(Path))
                BY ONLY <4>1, <4>2, EachIs
            <4>4. Len(Each(here, outlines)) = Len(outlines)
                BY ONLY <4>2, EachElement
            <4>5. \A i \in 1..Len(outlines) : Each(here, outlines)[i] = here[outlines[i]]
                BY ONLY <4>2, EachElement
            <4> QED BY <4>3, <4>4, <4>5
        <3> HIDE DEF a
        <3>6. FlattenSeq(Each(g, FlattenSeq(a)))
                = FlattenSeq([i \in 1..Len(a) |-> FlattenSeq(Each(g, a[i]))])
            <4> HIDE DEF Path, Entry
            <4> QED BY ONLY <3>3, <3>5, FlattenEach
        <3>7. [i \in 1..Len(a) |-> FlattenSeq(Each(g, a[i]))] = Each(from, outlines)
            <4>1. DOMAIN outlines = 1..Len(a) /\ \A i \in 1..Len(a) : outlines[i] \in Node(d)
                BY <3>1, <3>5
            <4>2. \A i \in 1..Len(a) : FlattenSeq(Each(g, a[i])) = from[outlines[i]]
                BY <3>4, <3>5, <4>1
            <4>3. Each(from, outlines) = [i \in 1..Len(a) |-> from[outlines[i]]]
                BY <4>1 DEF Each
            <4> QED BY <4>2, <4>3
        <3> QED BY <3>2, <3>6, <3>7 DEF g, from, a
    <2> QED BY <2>1, <2>3, Zenon
<1>3. S = Nat
    <2> HIDE DEF S
    <2>1. S \subseteq Nat
        BY DEF S
    <2> QED BY <2>1, <1>1, <1>2, AllNumbers
<1> QED BY <1>3, Zenon

\* An import makes of a file what the folders around its feeds say.  A blank one
\* is read as the code reads it: it leaves the one around it.
LEMMA Innermost ==
    ASSUME NEW file \in File
    PROVE  LET paths == Paths[MaxDepth][file]
           IN  Entries(file) = FlattenSeq([k \in DOMAIN paths |-> Placed(paths[k])])
<1> DEFINE paths == Paths[MaxDepth][file]
<1>1. MaxDepth \in Nat /\ None \in Folder /\ file \in Outlines[MaxDepth]
    BY OpmlAssumption DEF Folder, File
<1>2. Entries(file) = FlattenSeq(Each(PlacedFrom(None), paths))
    BY <1>1, WalkPlaces DEF Entries
<1>3. paths \in Seq(Path)
    BY <1>1, PathsType
<1> HIDE DEF paths
<1>4. \A k \in DOMAIN paths : PlacedFrom(None)[paths[k]] = Placed(paths[k])
    <2>1. \A k \in DOMAIN paths : paths[k] \in Path
        BY <1>3
    <2> QED BY <2>1 DEF PlacedFrom, PlacedUnder, Placed
<1>5. Each(PlacedFrom(None), paths) = [k \in DOMAIN paths |-> Placed(paths[k])]
    <2> HIDE DEF PlacedFrom
    <2> QED BY <1>4 DEF Each
<1> QED BY <1>2, <1>5 DEF paths

\* However the outlines of a file are nested, and however deep, the walk of an
\* import (collectFeedsWithFolder) makes of each feed one entry, in the order of
\* the file, in the innermost folder around it: for any set of files.  Where a
\* blank folder is inside of a named one the theorem says nothing.
THEOREM FoldersAlwaysInnermost == Spec => []InnermostFolder
<1>1. InnermostFolder
    BY FilesAssumption, Innermost DEF InnermostFolder
<1> QED BY <1>1, PTL

-----------------------------------------------------------------------------
(* The export, and the import of its file                                  *)

\* A finite set has as finite an image.
LEMMA FiniteImage ==
    ASSUME NEW S, IsFiniteSet(S), NEW g
    PROVE  IsFiniteSet({g[x] : x \in S})
<1> DEFINE T == {g[x] : x \in S}
           h == [x \in S |-> g[x]]
<1>1. h \in Surjection(S, T)
    BY DEF Surjection
<1> HIDE DEF T, h
<1>2. IsFiniteSet(T)
    BY <1>1, FS_Surjection
<1> QED BY <1>2 DEF T

\* The walk of the outlines of some feeds, all in the folder p.
LEMMA FeedOutlinesBack ==
    ASSUME NEW d \in Nat, NEW p \in Folder, NEW R, IsFiniteSet(R), R \subseteq Entry,
           \A r \in R : r.folder = p
    PROVE  /\ FeedOutlines(R) \in Outlines[d + 1]
           /\ CollectFeedsWithFolder[d + 1][FeedOutlines(R)][p] = SetToSeq(R)
<1> DEFINE order == SetToSeq(R)
           n == Len(order)
           w == CollectFeedsWithFolder[d]
           from == FromOutline(d, w, p)
           one(i) == Outline(order[i].url, None, <<>>)
<1>1. order \in Seq(R) /\ n \in Nat /\ DOMAIN order = 1..n /\ \A i \in 1..n : order[i] \in R
    BY SetToSeqIs
<1> HIDE DEF order, n
<1>2. None \in Folder /\ None \in XmlUrl \cup {None}
    BY DEF Folder
<1>3. ASSUME NEW i \in 1..n
      PROVE  one(i) \in Node(d) /\ from[one(i)] = << order[i] >>
    <2>1. order[i] \in Entry /\ order[i].folder = p
        BY <1>1
    <2>2. /\ order[i].url \in XmlUrl
          /\ order[i] = [url |-> order[i].url, folder |-> p]
        BY <2>1 DEF Entry
    <2>3. order[i].url # None
        BY <2>2, OpmlAssumption
    <2>4. /\ one(i).xmlUrl = order[i].url /\ one(i).text = None /\ one(i).outlines = <<>>
        BY DEF Outline
    <2>5. one(i) \in Node(d)
        BY <1>2, <2>2, NothingIn DEF Node, Outline
    <2>6. Feeds(one(i), p) = << order[i] >>
        BY <2>2, <2>3, <2>4 DEF Feeds
    <2>7. FolderFor(one(i), p) = p
        BY <2>4 DEF FolderFor
    <2>8. w[<<>>][p] = <<>>
        <3>1. CASE d = 0
            BY <3>1, Walk
        <3>2. CASE d # 0
            <4> DEFINE b == d - 1
            <4>1. b \in Nat /\ b + 1 = d
                BY <3>2
            <4>2. <<>> \in Outlines[b + 1]
                BY <4>1, NothingIn
            <4> HIDE DEF b
            <4>3. CollectFeedsWithFolder[b + 1][<<>>][p]
                    = FlattenSeq(Each(FromOutline(b, CollectFeedsWithFolder[b], p), <<>>))
                BY <4>1, <4>2, Walk
            <4>4. Each(FromOutline(b, CollectFeedsWithFolder[b], p), <<>>) = <<>>
                BY DEF Each
            <4> QED BY <4>1, <4>3, <4>4, FlattenEmpty
        <3> QED BY <3>1, <3>2
    <2>9. from[one(i)] = Feeds(one(i), p) \o w[one(i).outlines][FolderFor(one(i), p)]
        BY <2>5 DEF FromOutline
    <2>10. from[one(i)] = << order[i] >> \o <<>>
        BY <2>4, <2>6, <2>7, <2>8, <2>9
    <2> HIDE DEF one, from
    <2> QED BY <2>5, <2>10
<1> HIDE DEF from
<1>4. FeedOutlines(R) = [i \in 1..n |-> one(i)]
    BY <1>1 DEF FeedOutlines, order
<1>5. FeedOutlines(R) \in Seq(Node(d)) /\ Len(FeedOutlines(R)) = n
    <2> HIDE DEF one
    <2>1. [i \in 1..n |-> one(i)] \in Seq(Node(d)) /\ Len([i \in 1..n |-> one(i)]) = n
        BY <1>1, <1>3
    <2> QED BY <1>4, <2>1
<1>6. FeedOutlines(R) \in Outlines[d + 1]
    BY <1>5, Deeper
<1>7. CollectFeedsWithFolder[d + 1][FeedOutlines(R)][p] = FlattenSeq(Each(from, FeedOutlines(R)))
    BY <1>6, Walk DEF from
<1>8. Each(from, FeedOutlines(R)) = [i \in 1..n |-> << order[i] >>]
    <2> HIDE DEF one
    <2>1. \A i \in 1..n : from[FeedOutlines(R)[i]] = << order[i] >>
        BY <1>3, <1>4
    <2>2. DOMAIN FeedOutlines(R) = 1..n
        BY <1>4
    <2> QED BY <2>1, <2>2 DEF Each
<1>9. FlattenSeq([i \in 1..n |-> << order[i] >>]) = order
    BY <1>1, FlattenSingletons DEF n
<1> QED BY <1>6, <1>7, <1>8, <1>9 DEF order

\* What an import finds in the file of some rows: the rows of each folder, and
\* those of none, each of them once.
LEMMA ExportBack ==
    ASSUME NEW rows, IsFiniteSet(rows), rows \subseteq Entry
    PROVE  Restores(rows)
<1> DEFINE N == {r.folder : r \in rows} \ {None}
           names == SetToSeq(N)
           n == Len(names)
           d == MaxDepth - 2
           top == FolderOutlines(rows)
           rest == FeedOutlines(In(rows, None))
           w == CollectFeedsWithFolder[d + 1]
           from == FromOutline(d + 1, w, None)
           part(i) == In(rows, names[i])
           b == [i \in 1..n |-> SetToSeq(part(i))]
           c == SetToSeq(In(rows, None))
<1>1. d \in Nat /\ d + 1 \in Nat /\ (d + 1) + 1 = MaxDepth /\ MaxDepth \in Nat
    BY OpmlAssumption
<1> HIDE DEF d
<1>2. IsFiniteSet(N) /\ N \subseteq Text
    <2>1. {r.folder : r \in rows} \subseteq Folder
        BY DEF Entry
    <2> DEFINE g == [r \in rows |-> r.folder]
               M == {g[r] : r \in rows}
    <2>2. M = {r.folder : r \in rows}
        OBVIOUS
    <2>3. IsFiniteSet(M)
        <3> HIDE DEF g
        <3> QED BY FiniteImage
    <2>4. N \in SUBSET M
        BY <2>2
    <2> HIDE DEF M, N
    <2>5. IsFiniteSet(N)
        BY <2>3, <2>4, FS_Subset
    <2> QED BY <2>1, <2>5 DEF Folder, N
<1>3. /\ names \in Seq(N) /\ n \in Nat /\ DOMAIN names = 1..n
      /\ \A i \in 1..n : names[i] \in N /\ names[i] \in Text
      /\ \A i, j \in 1..n : names[i] = names[j] => i = j
      /\ \A m \in N : \E i \in 1..n : names[i] = m
    <2> HIDE DEF N
    <2>1. names \in Seq(N) /\ Distinct(names) /\ ToSet(names) = N
        BY <1>2, SetToSeqIs
    <2> HIDE DEF names
    <2> QED BY <1>2, <2>1 DEF Distinct, ToSet
<1>4. \A f : IsFiniteSet(In(rows, f)) /\ In(rows, f) \subseteq Entry
               /\ \A r \in In(rows, f) : r.folder = f
    <2> TAKE f
    <2>1. In(rows, f) \in SUBSET rows
        BY DEF In
    <2> QED BY <2>1, FS_Subset DEF In
<1> HIDE DEF N, names, n
<1>5. \A i \in 1..n : names[i] \in Text /\ names[i] \in Folder /\ names[i] # None
    BY <1>3, OpmlAssumption DEF Folder
<1>6. /\ rest \in Outlines[(d + 1) + 1]
      /\ CollectFeedsWithFolder[(d + 1) + 1][rest][None] = c
    <2>1. None \in Folder
        BY DEF Folder
    <2> QED BY <1>1, <1>4, <2>1, FeedOutlinesBack
<1>7. \A i \in 1..n :
        /\ FeedOutlines(part(i)) \in Outlines[d + 1]
        /\ w[FeedOutlines(part(i))][names[i]] = SetToSeq(part(i))
    BY <1>1, <1>4, <1>5, FeedOutlinesBack
<1> DEFINE one(i) == Outline(None, names[i], FeedOutlines(part(i)))
<1>8. top = [i \in 1..n |-> one(i)]
    BY <1>3 DEF FolderOutlines, N, names
<1>9. ASSUME NEW i \in 1..n
      PROVE  one(i) \in Node(d + 1) /\ from[one(i)] = b[i] /\ b[i] \in Seq(Entry)
    <2>1. /\ one(i).xmlUrl = None /\ one(i).text = names[i]
          /\ one(i).outlines = FeedOutlines(part(i))
        BY DEF Outline
    <2>2. one(i) \in Node(d + 1)
        BY <1>5, <1>7 DEF Node, Outline
    <2>3. Feeds(one(i), None) = <<>> /\ FolderFor(one(i), None) = names[i]
        BY <1>5, <2>1 DEF Feeds, FolderFor
    <2>4. b[i] = SetToSeq(part(i))
        OBVIOUS
    <2>5. SetToSeq(part(i)) \in Seq(Entry)
        <3>1. SetToSeq(part(i)) \in Seq(part(i)) /\ part(i) \subseteq Entry
            BY <1>4, SetToSeqIs
        <3> HIDE DEF part, Entry
        <3> QED BY <3>1, SeqMonotonic
    <2>6. from[one(i)] = Feeds(one(i), None) \o w[one(i).outlines][FolderFor(one(i), None)]
        BY <2>2 DEF FromOutline
    <2>7. from[one(i)] = <<>> \o SetToSeq(part(i))
        BY <1>7, <2>1, <2>3, <2>6
    <2> HIDE DEF b, one, part, from, w
    <2> QED BY <2>2, <2>4, <2>5, <2>7, ConcatEmptySeq
<1> HIDE DEF one, part, w, from, top, rest
<1>10. top \in Seq(Node(d + 1)) /\ Each(from, top) = b
    <2>1. [i \in 1..n |-> one(i)] \in Seq(Node(d + 1))
        BY <1>3, <1>9
    <2>2. \A i \in 1..n : from[top[i]] = b[i]
        BY <1>8, <1>9
    <2>3. DOMAIN top = 1..n /\ b = [i \in 1..n |-> b[i]]
        BY <1>8
    <2> HIDE DEF b
    <2> QED BY <1>8, <2>1, <2>2, <2>3 DEF Each
<1>11. b \in Seq(Seq(Entry)) /\ Len(b) = n
    <2>1. \A i \in 1..n : SetToSeq(part(i)) \in Seq(Entry)
        BY <1>9
    <2> HIDE DEF Entry
    <2> QED BY <1>3, <2>1
<1>12. rest \in Seq(Node(d + 1))
    BY <1>1, <1>6, Deeper
<1>13. Entries(Export(rows)) = FlattenSeq(b) \o c
    <2>1. Export(rows) = top \o rest
        BY DEF Export, top, rest
    <2>2. top \o rest \in Outlines[(d + 1) + 1]
        <3> HIDE DEF Node
        <3>1. top \o rest \in Seq(Node(d + 1))
            BY <1>10, <1>12, ConcatProperties
        <3> QED BY <1>1, <3>1, Deeper
    <2>3. None \in Folder
        BY DEF Folder
    <2>4. CollectFeedsWithFolder[(d + 1) + 1][top \o rest][None] = FlattenSeq(Each(from, top \o rest))
        BY <1>1, <2>2, <2>3, Walk DEF from, w
    <2>5. CollectFeedsWithFolder[(d + 1) + 1][rest][None] = FlattenSeq(Each(from, rest))
        BY <1>1, <1>6, <2>3, Walk DEF from, w
    <2>6. Each(from, top \o rest) = Each(from, top) \o Each(from, rest)
        <3>1. top \in Seq(Node(d + 1)) /\ rest \in Seq(Node(d + 1))
            BY <1>10, <1>12
        <3> HIDE DEF Node
        <3> QED BY ONLY <3>1, EachConcat
    <2>7. \A o \in Node(d + 1) : from[o] \in Seq(Entry)
        <3> TAKE o \in Node(d + 1)
        <3>1. /\ o.xmlUrl \in XmlUrl \cup {None} /\ o.text \in Folder
              /\ o.outlines \in Outlines[d + 1]
            BY <1>1, NodeIsOutline
        <3>2. FolderFor(o, None) \in Folder /\ Feeds(o, None) \in Seq(Entry)
            BY <2>3, <3>1, FolderForType, FeedsType
        <3>3. w[o.outlines][FolderFor(o, None)] \in Seq(Entry)
            BY <1>1, <3>1, <3>2, WalkType DEF w
        <3>4. from[o] = Feeds(o, None) \o w[o.outlines][FolderFor(o, None)]
            BY DEF from, FromOutline
        <3> HIDE DEF Entry
        <3> QED BY <3>2, <3>3, <3>4, ConcatProperties
    <2>8. Each(from, rest) \in Seq(Seq(Entry))
        BY ONLY <2>7, <1>12, EachIs
    <2> DEFINE e == Each(from, rest)
    <2> HIDE DEF e, b
    <2>9. FlattenSeq(b \o e) = FlattenSeq(b) \o FlattenSeq(e)
        BY <1>11, <2>8, FlattenConcat DEF e
    <2> QED BY <1>1, <1>6, <1>10, <2>1, <2>4, <2>5, <2>6, <2>9 DEF Entries, e
<1>14. \A i \in 1..n : Distinct(b[i]) /\ ToSet(b[i]) = part(i)
    <2> TAKE i \in 1..n
    <2>1. IsFiniteSet(part(i))
        BY <1>4 DEF part
    <2>2. b[i] = SetToSeq(part(i))
        OBVIOUS
    <2> QED BY <2>1, <2>2, SetToSeqIs
<1>15. \A i, j \in 1..n : i # j => ToSet(b[i]) \cap ToSet(b[j]) = {}
    BY <1>3, <1>14 DEF part, In
<1>16. c \in Seq(Entry) /\ Distinct(c) /\ ToSet(c) = In(rows, None)
    <2>1. c \in Seq(In(rows, None)) /\ In(rows, None) \subseteq Entry
        BY <1>4, SetToSeqIs
    <2>2. Distinct(c) /\ ToSet(c) = In(rows, None)
        BY <1>4, SetToSeqIs
    <2> HIDE DEF c, Entry
    <2> QED BY <2>1, <2>2, SeqMonotonic
<1> DEFINE s == FlattenSeq(b)
           C == UNION {ToSet(b[i]) : i \in 1..n}
<1> HIDE DEF b, c
<1>17. s \in Seq(Entry) /\ Distinct(s) /\ ToSet(s) = C
    <2>1. \A i \in 1..Len(b) : Distinct(b[i])
        BY <1>11, <1>14
    <2>2. \A i, j \in 1..Len(b) : i # j => ToSet(b[i]) \cap ToSet(b[j]) = {}
        BY <1>11, <1>15
    <2>3. b \in Seq(Seq(Entry))
        BY <1>11
    <2>4. Distinct(FlattenSeq(b)) /\ ToSet(FlattenSeq(b)) = UNION {ToSet(b[i]) : i \in 1..Len(b)}
        BY ONLY <2>1, <2>2, <2>3, FlattenDistinct
    <2> QED BY <1>11, <2>3, <2>4, FlattenType
<1>18. C \cup In(rows, None) = rows /\ C \cap In(rows, None) = {}
    <2>1. \A r \in rows : r.folder # None => r.folder \in N
        BY DEF N
    <2>2. \A r \in rows : r.folder # None => \E i \in 1..n : r \in ToSet(b[i])
        BY <1>3, <1>14, <2>1 DEF part, In
    <2>3. \A i \in 1..n : ToSet(b[i]) \subseteq rows /\ ToSet(b[i]) \cap In(rows, None) = {}
        BY <1>5, <1>14 DEF part, In
    <2>4. \A r \in rows : r.folder = None => r \in In(rows, None)
        BY DEF In
    <2>5. In(rows, None) \subseteq rows
        BY DEF In
    <2> QED BY <2>2, <2>3, <2>4, <2>5
<1> HIDE DEF s, C
<1>19. s \o c \in Seq(Entry) /\ Distinct(s \o c) /\ ToSet(s \o c) = rows
    <2> HIDE DEF Entry
    <2>1. ToSet(s) \cap ToSet(c) = {}
        BY <1>16, <1>17, <1>18
    <2>2. Distinct(s \o c)
        BY ONLY <1>16, <1>17, <2>1, DistinctConcat
    <2>3. ToSet(s \o c) = ToSet(s) \cup ToSet(c)
        BY ONLY <1>16, <1>17, ToSetConcat
    <2> QED BY <1>16, <1>17, <1>18, <2>2, <2>3, ConcatProperties
<1>20. Cardinality(rows) = Len(s \o c)
    <2> DEFINE e == s \o c
    <2>1. e \in Seq(Entry) /\ Distinct(e) /\ ToSet(e) = rows
        BY <1>19
    <2> HIDE DEF e, Entry
    <2>2. Cardinality(ToSet(e)) = Len(e)
        BY <2>1, DistinctLen
    <2> QED BY <2>1, <2>2 DEF e
<1>21. Entries(Export(rows)) = s \o c
    BY <1>13 DEF s
<1>22. Len(s \o c) \in Nat /\ MaxFeeds \in Nat
    BY <1>19, OpmlAssumption
<1> HIDE DEF s, c, Entry
<1> QED BY ONLY <1>19, <1>20, <1>21, <1>22 DEF Restores, Accepted

\* The rows of the export's query, of finitely many feeds with their URLs.
LEMMA RowsAreEntries ==
    ASSUME LibraryInv, NEW u \in User
    PROVE  IsFiniteSet(ExportRows(u)) /\ ExportRows(u) \subseteq Entry
<1> USE LibraryAssumption, OpmlAssumption DEF LibraryInv, TypeOK, TablesTypeOK
<1>1. OwnFeeds(u) \in SUBSET usedFeeds /\ IsFiniteSet(usedFeeds)
    BY DEF LiveIdsUsed, FeedsHaveUrls, OwnFeeds
<1>2. IsFiniteSet(OwnFeeds(u))
    BY ONLY <1>1, FS_Subset
<1>3. IsFiniteSet(ExportRows(u))
    <2> DEFINE g == [f \in OwnFeeds(u) |-> Row(f)]
               T == {g[f] : f \in OwnFeeds(u)}
    <2>1. T = ExportRows(u)
        BY DEF ExportRows
    <2>2. IsFiniteSet(T)
        <3> HIDE DEF g
        <3> QED BY ONLY <1>2, FiniteImage
    <2> QED BY ONLY <2>1, <2>2
<1>4. ASSUME NEW f \in OwnFeeds(u) PROVE Row(f) \in Entry
    <2>1. feedUrl[f] \in Url /\ feedUrl[f] \in XmlUrl
        BY DEF OwnFeeds, FeedsHaveUrls
    <2>2. FolderOf(f) \in Folder
        BY DEF OwnFeeds, FolderOf, Folder
    <2> QED BY ONLY <2>1, <2>2 DEF Row, Entry
<1> QED BY ONLY <1>3, <1>4 DEF ExportRows

\* And so are any rows that the query can have.
LEMMA ResultsAreEntries ==
    ASSUME NEW rows \in Results
    PROVE  IsFiniteSet(rows) /\ rows \subseteq Entry
<1>0. PICK X \in SUBSET XmlUrl :
        IsFiniteSet(X) /\ \E g \in [X -> Folder] : rows = {[url |-> x, folder |-> g[x]] : x \in X}
    BY DEF Results
<1>1. PICK g \in [X -> Folder] : rows = {[url |-> x, folder |-> g[x]] : x \in X}
    BY <1>0
<1> DEFINE h == [x \in X |-> [url |-> x, folder |-> g[x]]]
           T == {h[x] : x \in X}
<1>2. T = rows
    BY <1>1
<1>3. IsFiniteSet(T)
    <2>1. IsFiniteSet(X)
        BY <1>0
    <2> HIDE DEF h
    <2> QED BY ONLY <2>1, FiniteImage
<1>4. rows \subseteq Entry
    BY <1>1 DEF Entry
<1> QED BY ONLY <1>2, <1>3, <1>4

\* The file that a user exports (handleExportOPML) is, whatever requests and
\* imports are half way, read by an import as exactly the rows of the query, each
\* once, with the folder of its list, unless they are more than an import takes and
\* it takes none; and so is the file of any rows there can be.
THEOREM ExportAlwaysRestores == Spec => []ExportRestores
<1>1. LibraryInv /\ ExportSound => ExportRestores
    <2>1. ASSUME LibraryInv, NEW u \in User PROVE Restores(ExportRows(u))
        BY <2>1, RowsAreEntries, ExportBack
    <2>2. \A rows \in Results : Restores(rows)
        BY ResultsAreEntries, ExportBack
    <2> QED BY <2>1, <2>2 DEF ExportRestores
<1> QED BY <1>1, LibraryInvariant, ExportAlwaysSound, PTL

-----------------------------------------------------------------------------
(* Importing an export again                                               *)

\* A feed in a list that has its folder's name, or in none.
LEMMA RowIs ==
    ASSUME LibraryInv, NEW u \in User, NEW f \in OwnFeeds(u)
    PROVE  /\ f \in Feed /\ feedOwner[f] = u /\ u # None
           /\ feedList[f] = None <=> FolderOf(f) = None
           /\ feedList[f] # None =>
                /\ feedList[f] \in List /\ listOwner[feedList[f]] = u
                /\ listName[feedList[f]] = FolderOf(f) /\ FolderOf(f) \in Name
           /\ \A g \in Feed : feedOwner[g] = u /\ feedUrl[g] = feedUrl[f] => g = f
           /\ \A l \in List : listOwner[l] = u /\ listName[l] = FolderOf(f) => l = feedList[f]
<1> USE LibraryAssumption DEF LibraryInv, TypeOK, TablesTypeOK
<1>1. f \in Feed /\ feedOwner[f] = u /\ u # None
    BY DEF OwnFeeds
<1>2. feedList[f] # None =>
        /\ feedList[f] \in List /\ listOwner[feedList[f]] = u
        /\ listName[feedList[f]] = FolderOf(f) /\ FolderOf(f) \in Name
    BY <1>1 DEF ListOwnerMatches, ListsNamed, FolderOf
<1>3. feedList[f] = None => FolderOf(f) = None
    BY DEF FolderOf
<1>4. \A g \in Feed : feedOwner[g] = u /\ feedUrl[g] = feedUrl[f] => g = f
    BY <1>1 DEF UniquePerUser
<1>5. \A l \in List : listOwner[l] = u /\ listName[l] = FolderOf(f) => l = feedList[f]
    <2>1. \A l \in List : listOwner[l] = u => listName[l] # None
        BY <1>1 DEF ListsNamed
    <2>2. \A l, m \in List : listOwner[l] = u /\ listOwner[m] = u /\ listName[l] = listName[m] => l = m
        BY <1>1 DEF UniquePerUser
    <2> QED BY <1>2, <1>3, <2>1, <2>2
<1> QED BY <1>1, <1>2, <1>3, <1>4, <1>5

\* The import writes nothing, and is at a row again or at the next outline.
LEMMA AgainIdle ==
    ASSUME LibraryInv, NEW p \in Request, Again(p), AgainStep(p)
    PROVE  /\ UNCHANGED <<listVars, feedVars, feedList>>
           /\ Again(p)' \/ req'[p] = Idle
<1> USE DEF At, Continue, Goto, Done
<1> DEFINE r == req[p]
           u == r.user
<1>1. /\ req \in [Request -> Req \cup {Idle}] /\ cache \in [Request -> Cache]
      /\ left \in [Request -> 0..MaxEntries]
      /\ feedList \in [Feed -> List \cup {None}] /\ feedUrl \in [Feed -> Url \cup {None}]
    BY DEF LibraryInv, TypeOK, TablesTypeOK, RequestsTypeOK
<1>2. r \in Req /\ u \in User /\ r.name \in Name \cup {None}
    BY <1>1 DEF Again, ImportStep, Idle, Req
<1>3. CASE \E x \in Url, folder \in Name \cup {None} :
             /\ [url |-> x, folder |-> folder] \in ExportRows(req[p].user)
             /\ NextEntry(p, x, folder)
    <2>1. PICK x \in Url, folder \in Name \cup {None} :
             /\ [url |-> x, folder |-> folder] \in ExportRows(u)
             /\ NextEntry(p, x, folder)
        BY <1>3
    <2>2. UNCHANGED <<listVars, feedVars, feedList, cache>>
        BY <2>1 DEF NextEntry
    <2>3. req'[p].step = "insertFeed" /\ req'[p].user = u /\ req'[p].url = x /\ req'[p].name = folder
        BY <1>1, <2>1 DEF NextEntry, Make
    <2>4. \E f \in OwnFeeds(u) : Row(f) = [url |-> x, folder |-> folder]
        BY <2>1 DEF ExportRows
    <2>5. AtRow(p)'
        BY <2>2, <2>3, <2>4 DEF AtRow, OwnFeeds, Row, FolderOf, listVars, feedVars
    <2>6. CacheCurrent(p)'
        BY <2>2, <2>3 DEF Again, CacheCurrent, listVars
    <2> QED BY <2>2, <2>3, <2>5, <2>6 DEF Again, ImportStep
<1>4. CASE ImportEnds(p)
    BY <1>1, <1>4 DEF ImportEnds
<1>5. ASSUME ~At(p, "nextEntry")
      PROVE  \E f \in OwnFeeds(u) :
               /\ feedUrl[f] = r.url /\ FolderOf(f) = r.name
               /\ At(p, "assignList") => r.list = feedList[f]
    BY <1>5 DEF Again, AtRow, Row
<1>6. CASE ImportFeed(p)
    <2>1. PICK f \in OwnFeeds(u) : feedUrl[f] = r.url /\ FolderOf(f) = r.name
        BY <1>5, <1>6 DEF ImportFeed
    <2>2. /\ f \in Feed /\ feedOwner[f] = u
          /\ feedList[f] = None <=> FolderOf(f) = None
          /\ \A l \in List : listOwner[l] = u /\ listName[l] = FolderOf(f) => l = feedList[f]
        BY <1>2, RowIs
    <2>3. UrlTaken(u, r.url)
        <3>1. feedOwner[f] = u /\ feedUrl[f] = r.url /\ f \in Feed
            BY <2>1, <2>2
        <3> QED BY ONLY <3>1 DEF UrlTaken
    <2>4. UNCHANGED <<listVars, feedVars, feedList, cache>>
        BY <1>6, <2>3 DEF ImportFeed, InsertFeed, importVars
    <2> DEFINE known == IF r.name = None THEN None ELSE cache[p][r.name]
    <2>5. /\ req'[p].step = IF r.name = None \/ known # None THEN "assignList" ELSE "ensureList"
          /\ req'[p].user = u /\ req'[p].url = r.url /\ req'[p].name = r.name
          /\ req'[p].list = known
        BY <1>1, <1>6 DEF ImportFeed, Make
    <2>6. known \in List \cup {None} /\ (known # None => known = feedList[f])
        <3>1. CASE r.name # None
            <4>1. r.name \in Name /\ cache[p][r.name] \in List \cup {None}
                BY <1>1, <1>2, <3>1 DEF Cache
            <4>2. cache[p][r.name] # None =>
                    listOwner[cache[p][r.name]] = u /\ listName[cache[p][r.name]] = r.name
                BY <4>1 DEF Again, CacheCurrent
            <4> QED BY <2>1, <2>2, <3>1, <4>1, <4>2
        <3>2. CASE r.name = None
            BY <3>2
        <3> QED BY <3>1, <3>2
    <2>7. req'[p].step = "assignList" => req'[p].list = feedList[f]
        <3> HIDE DEF known
        <3>1. r.name = None => feedList[f] = None
            BY <2>1, <2>2
        <3>2. r.name = None => known = None
            BY DEF known
        <3> QED BY <2>5, <2>6, <3>1, <3>2
    <2>8. AtRow(p)'
        <3> HIDE DEF known
        <3> QED BY <2>1, <2>4, <2>5, <2>7 DEF AtRow, OwnFeeds, Row, FolderOf, listVars, feedVars
    <2>9. CacheCurrent(p)'
        BY <2>4, <2>5 DEF Again, CacheCurrent, listVars
    <2> HIDE DEF known
    <2> QED BY <2>4, <2>5, <2>8, <2>9 DEF Again, ImportStep
<1>7. CASE EnsureList(p)
    <2>1. PICK f \in OwnFeeds(u) : feedUrl[f] = r.url /\ FolderOf(f) = r.name
        BY <1>5, <1>7 DEF EnsureList
    <2>2. r.name # None
        BY <1>7 DEF LibraryInv, RequestShape, EnsureList, ListsNamed
    <2>3. NameTaken(u, r.name)
        BY <1>2, <2>1, <2>2, RowIs DEF NameTaken
    <2>4. UNCHANGED <<listVars, feedVars, feedList, cache>>
        BY <1>7, <2>3 DEF EnsureList, InsertList, importVars
    <2>5. /\ req'[p].step = "readList" /\ req'[p].user = u
          /\ req'[p].url = r.url /\ req'[p].name = r.name
        BY <1>1, <1>7 DEF EnsureList, Make
    <2>6. AtRow(p)'
        BY <2>1, <2>4, <2>5 DEF AtRow, OwnFeeds, Row, FolderOf, listVars, feedVars
    <2>7. CacheCurrent(p)'
        BY <2>4, <2>5 DEF Again, CacheCurrent, listVars
    <2> QED BY <2>4, <2>5, <2>6, <2>7 DEF Again, ImportStep
<1>8. CASE ReadList(p)
    <2>1. PICK f \in OwnFeeds(u) : feedUrl[f] = r.url /\ FolderOf(f) = r.name
        BY <1>5, <1>8 DEF ReadList
    <2>2. UNCHANGED <<listVars, feedVars, feedList>>
        BY <1>8 DEF ReadList
    <2>3. CASE \E l \in List :
                 /\ listOwner[l] = u /\ listName[l] = r.name
                 /\ cache' = [cache EXCEPT ![p][r.name] = l]
                 /\ Continue(p, "assignList", l, r.name, r.url)
        <3>1. PICK l \in List :
                /\ listOwner[l] = u /\ listName[l] = r.name
                /\ cache' = [cache EXCEPT ![p][r.name] = l]
                /\ Continue(p, "assignList", l, r.name, r.url)
            BY <2>3
        <3>2. l = feedList[f]
            BY <1>2, <2>1, <3>1, RowIs
        <3>3. /\ req'[p].step = "assignList" /\ req'[p].user = u
              /\ req'[p].url = r.url /\ req'[p].name = r.name /\ req'[p].list = l
            BY <1>1, <3>1 DEF Make
        <3>4. AtRow(p)'
            BY <2>1, <2>2, <3>2, <3>3 DEF AtRow, OwnFeeds, Row, FolderOf, listVars, feedVars
        <3>5. \A n \in Name : cache'[p][n] = IF n = r.name THEN l ELSE cache[p][n]
            BY <1>1, <3>1 DEF Cache
        <3>6. CacheCurrent(p)'
            BY <2>2, <3>1, <3>3, <3>5 DEF Again, CacheCurrent, listVars
        <3> QED BY <2>2, <3>3, <3>4, <3>6 DEF Again, ImportStep
    <2>4. CASE ~NameTaken(u, r.name) /\ Goto(p, "assignList") /\ UNCHANGED cache
        <3>1. r.list = None
            BY <1>8 DEF ReadList, LibraryInv, RequestShape
        <3>2. feedList[f] = None
            BY <1>2, <2>1, <2>4, RowIs DEF NameTaken
        <3>3. /\ req'[p].step = "assignList" /\ req'[p].user = u
              /\ req'[p].url = r.url /\ req'[p].name = r.name /\ req'[p].list = r.list
            BY <1>1, <2>4 DEF Make
        <3>4. AtRow(p)'
            BY <2>1, <2>2, <3>1, <3>2, <3>3 DEF AtRow, OwnFeeds, Row, FolderOf, listVars, feedVars
        <3>5. CacheCurrent(p)'
            BY <2>2, <2>4, <3>3 DEF Again, CacheCurrent, listVars
        <3> QED BY <2>2, <3>3, <3>4, <3>5 DEF Again, ImportStep
    <2> QED BY <1>8, <2>3, <2>4 DEF ReadList
<1>9. CASE ImportAssign(p)
    <2>1. PICK f \in OwnFeeds(u) :
            feedUrl[f] = r.url /\ FolderOf(f) = r.name /\ r.list = feedList[f]
        BY <1>5, <1>9 DEF ImportAssign
    <2>2. \A g \in Feed : feedOwner[g] = u /\ feedUrl[g] = r.url => r.list = feedList[g]
        BY <1>2, <2>1, RowIs
    <2>3. feedList' = feedList
        BY <1>1, <1>9, <2>2 DEF ImportAssign, AssignList
    <2>4. UNCHANGED <<listVars, feedVars, cache>>
        BY <1>9 DEF ImportAssign, importVars
    <2>5. req'[p].step = "nextEntry" /\ req'[p].user = u
        BY <1>1, <1>9 DEF ImportAssign, Make
    <2>6. CacheCurrent(p)'
        BY <2>4, <2>5 DEF Again, CacheCurrent, listVars
    <2> QED BY <2>3, <2>4, <2>5, <2>6 DEF Again, ImportStep
<1> QED BY <1>3, <1>4, <1>6, <1>7, <1>8, <1>9 DEF AgainStep

\* An import starts with no memory and before the first outline.
LEMMA AgainStarts ==
    ASSUME LibraryInv, NEW p \in Request, NEW u \in User, ImportOPML(p, u)
    PROVE  Again(p)'
<1>1. req \in [Request -> Req \cup {Idle}] /\ cache \in [Request -> Cache]
    BY DEF LibraryInv, TypeOK, RequestsTypeOK
<1>2. req'[p].step = "nextEntry" /\ cache'[p] = EmptyCache
    BY <1>1 DEF ImportOPML, Make
<1> QED BY <1>2 DEF Again, CacheCurrent, EmptyCache, ImportStep, At

\* An import of outlines that say what the tables already do (handleImportOPML,
\* resolveListID) writes nothing that is not there, for any users and tables and
\* whatever other requests did before: with ExportAlwaysRestores, a user's own
\* export imported again changes nothing.
THEOREM ReimportsChangeNothing == Spec => ReimportChangesNothing
<1>1. LibraryInv /\ [Next]_vars =>
        [\A p \in Request :
         /\ (\E u \in User : ImportOPML(p, u)) => Again(p)'
         /\ Again(p) /\ AgainStep(p) =>
              /\ UNCHANGED <<listVars, feedVars, feedList>>
              /\ Again(p)' \/ req'[p] = Idle]_vars
    BY AgainIdle, AgainStarts
<1> QED BY <1>1, LibraryInvariant, PTL DEF ReimportChangesNothing, Spec
=============================================================================
