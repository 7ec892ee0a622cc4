---------------------------- MODULE PollerProofs ----------------------------
(***************************************************************************)
(* Proofs about package poller: Fetch, Poller, which runs its fetches in   *)
(* cycles, and Vacuum, for every set of feeds, guids, goroutines, workers  *)
(* and callers, every number of slots and a clock of any resolution.       *)
(*                                                                         *)
(* The inductive invariant of Fetch adds to the properties of interest who *)
(* holds the connection and what the open transaction contains: without    *)
(* them BatchIsWhole is not preserved by Commit.  PollerInv adds that a    *)
(* running worker's feed has left the batch (NotAgain), without which      *)
(* Dispatch could pick it once more, and that a batch is given up only in  *)
(* a shutdown (BatchLeft).  Then follows that the cycle, which calls       *)
(* fetches with rows that may be gone and prunes between them, keeps what  *)
(* the fetches promise; and, last, the schedule of VACUUM.                 *)
(***************************************************************************)
EXTENDS Poller, Vacuum, TLAPS

-----------------------------------------------------------------------------
(* Fetches                                                                 *)

\* Every statement of a fetch and every other step leaves the state well
\* typed (the actions of Fetch).
LEMMA TypeStep == TypeOK /\ [Next]_vars => TypeOK'
<1> SUFFICES ASSUME TypeOK, [Next]_vars PROVE TypeOK'
    OBVIOUS
<1> USE DEF TypeOK, StoreTypeOK, Phase, TxPhase
<1>1. ASSUME NEW f \in Feed, AddFeed(f) \/ DeleteFeed(f) PROVE TypeOK'
    <2>1. Fresh \in Row
        BY DEF Fresh, Row
    <2>2. QED
        BY <1>1, <2>1 DEF AddFeed, DeleteFeed, Subscribe, Unsubscribe, fetchVars, Doc
<1>2. ASSUME NEW w \in Fetcher, NEW f \in Feed, Start(w, f) PROVE TypeOK'
    BY <1>2 DEF Start, Call, Goto, storeVars
<1>3. ASSUME NEW w \in Fetcher, NEW d \in Doc, Parse(w, d) PROVE TypeOK'
    BY <1>3 DEF Parse, Goto, storeVars
<1>4. ASSUME NEW w \in Fetcher, FailBeforeTx(w) \/ UpdateMeta(w) \/ FailInTx(w)
      PROVE TypeOK'
    BY <1>4 DEF FailBeforeTx, UpdateMeta, FailInTx, Goto, storeVars
<1>5. ASSUME NEW w \in Fetcher, Begin(w) \/ Rollback(w) \/ CommitFails(w)
      PROVE TypeOK'
    BY <1>5 DEF Begin, Rollback, CommitFails, Goto, storeVars, Doc
<1>6. ASSUME NEW w \in Fetcher, NEW g \in Guid, InsertItem(w, g) PROVE TypeOK'
    BY <1>6 DEF InsertItem, storeVars, Doc
<1>7. ASSUME NEW w \in Fetcher, Commit(w) PROVE TypeOK'
    <2>1. Fetched(doc[w]) \in Row
        BY DEF Fetched, Row
    <2>2. QED
        BY <1>7, <2>1 DEF Commit, Goto, Doc
<1>8. ASSUME NEW w \in Fetcher, RecordFailure(w) PROVE TypeOK'
    <2>1. \A row \in Row : Failed(row) \in Row
        BY DEF Failed, Row
    <2>2. QED
        BY <1>8, <2>1 DEF RecordFailure, Return, Goto, Doc
<1>9. ASSUME NEW w \in Fetcher, LoseFailure(w) \/ FinishFavicon(w) PROVE TypeOK'
    BY <1>9 DEF LoseFailure, FinishFavicon, Return, Goto, storeVars, Doc
<1>10. ASSUME Crash PROVE TypeOK'
    BY <1>10 DEF Crash, storeVars, Doc
<1>11. CASE UNCHANGED vars
    BY <1>11 DEF vars, storeVars, fetchVars
<1>12. QED
    BY <1>1, <1>2, <1>3, <1>4, <1>5, <1>6, <1>7, <1>8, <1>9, <1>10, <1>11
       DEF Next, Step

\* A feed's items include the document it was last fetched from.
Whole(f) == meta[f].doc # NoDoc => meta[f].doc \subseteq items[f]

RowsOK == ErrorMatchesCount /\ NoOrphans

\* All of Inv that pruning keeps.
FetchOK == TypeOK /\ RowsOK /\ ProcessesOK

LEMMA InvParts == Inv <=> FetchOK /\ \A f \in Feed : Whole(f)
    BY DEF Inv, FetchOK, TablesOK, RowsOK, BatchIsWhole, Whole

\* A deleted feed keeps nothing, the failure columns agree, and a feed that is
\* whole stays so: the tables stay sound across every step.
LEMMA TablesStep ==
    FetchOK /\ [Next]_vars => RowsOK' /\ \A f \in Feed : Whole(f) => Whole(f)'
<1> DEFINE Sound == RowsOK' /\ \A f \in Feed : Whole(f) => Whole(f)'
<1> SUFFICES ASSUME FetchOK, [Next]_vars PROVE Sound
    OBVIOUS
<1> USE DEF FetchOK, TypeOK, StoreTypeOK, RowsOK, ProcessesOK,
            Whole, ErrorMatchesCount, NoOrphans
<1>1. ASSUME NEW f \in Feed, AddFeed(f) PROVE Sound
    BY <1>1 DEF AddFeed, Subscribe
<1>2. ASSUME NEW f \in Feed, DeleteFeed(f) PROVE Sound
    <2>1. /\ meta' = [meta EXCEPT ![f] = Fresh]
          /\ items' = [items EXCEPT ![f] = {}]
          /\ live' = live \ {f}
        BY <1>2 DEF DeleteFeed, Unsubscribe
    <2>2. \A g \in Feed : Whole(g) => Whole(g)'
        BY <2>1 DEF Fresh
    <2>3. ErrorMatchesCount'
        BY <2>1 DEF Fresh
    <2>4. NoOrphans'
        BY <2>1
    <2>5. QED
        BY <2>2, <2>3, <2>4
<1>3. ASSUME NEW w \in Fetcher, Commit(w) PROVE Sound
    <2>1. pending = doc[w]
        BY <1>3 DEF Commit, PendingMatchesProgress
    <2>2. target[w] \in Feed
        BY <1>3 DEF Commit, TargetIsAFeed
    <2>3. CASE target[w] \in live
        <3>1. /\ meta' = [meta EXCEPT ![target[w]] = Fetched(doc[w])]
              /\ items' = [items EXCEPT ![target[w]] = @ \cup doc[w]]
              /\ live' = live
            BY <1>3, <2>1, <2>3 DEF Commit
        <3>2. \A g \in Feed : Whole(g) => Whole(g)'
            BY <2>2, <3>1 DEF Fetched
        <3>3. ErrorMatchesCount'
            BY <2>2, <3>1 DEF Fetched
        <3>4. NoOrphans'
            BY <2>2, <2>3, <3>1
        <3>5. QED
            BY <3>2, <3>3, <3>4
    <2>4. CASE target[w] \notin live
        BY <1>3, <2>4 DEF Commit
    <2>5. QED
        BY <2>3, <2>4
<1>4. ASSUME NEW w \in Fetcher, RecordFailure(w) PROVE Sound
    <2>1. target[w] \in Feed
        BY <1>4 DEF RecordFailure, TargetIsAFeed
    <2>2. CASE target[w] \in live
        <3>1. /\ meta' = [meta EXCEPT ![target[w]] = Failed(@)]
              /\ items' = items
              /\ live' = live
            BY <1>4, <2>2 DEF RecordFailure
        <3>2. meta[target[w]].failures \in Nat
            BY <2>1 DEF Row
        <3>3. \A g \in Feed : Whole(g) => Whole(g)'
            BY <2>1, <3>1 DEF Failed
        <3>4. ErrorMatchesCount'
            BY <2>1, <3>1, <3>2 DEF Failed
        <3>5. NoOrphans'
            BY <2>1, <2>2, <3>1
        <3>6. QED
            BY <3>3, <3>4, <3>5
    <2>3. CASE target[w] \notin live
        BY <1>4, <2>3 DEF RecordFailure
    <2>4. QED
        BY <2>2, <2>3
<1>5. ASSUME UNCHANGED storeVars PROVE Sound
    BY <1>5 DEF storeVars
<1>6. ASSUME NEW w \in Fetcher, Step(w), ~Commit(w), ~RecordFailure(w)
      PROVE UNCHANGED storeVars
    BY <1>6 DEF Step, Parse, FailBeforeTx, Begin, UpdateMeta, InsertItem, FailInTx,
               Rollback, CommitFails, LoseFailure, FinishFavicon
<1>7. ASSUME \/ \E w \in Fetcher, f \in Feed : Start(w, f)
             \/ Crash
             \/ UNCHANGED vars
      PROVE UNCHANGED storeVars
    BY <1>7 DEF Start, Call, Crash, vars
<1>8. QED
    BY <1>1, <1>2, <1>3, <1>4, <1>5, <1>6, <1>7 DEF Next

\* A call with a row that may be gone by now only starts a goroutine.
LEMMA CallStep ==
    ASSUME FetchOK, NEW w \in Fetcher, NEW f \in Feed, Call(w, f)
    PROVE  FetchOK' /\ UNCHANGED storeVars
<1> USE FetchAssumption
    DEF FetchOK, TypeOK, StoreTypeOK, ProcessesOK, ConnHeldByTx, TxPhase, Phase,
        PendingMatchesProgress, TargetIsAFeed
<1>1. TypeOK'
    BY DEF Call, Goto, storeVars
<1>2. ProcessesOK'
    BY DEF Call, Goto
<1>3. RowsOK' /\ UNCHANGED storeVars
    BY DEF Call, storeVars, RowsOK, ErrorMatchesCount, NoOrphans
<1>4. QED
    BY <1>1, <1>2, <1>3

\* The connection has one holder, the one whose transaction is open, and
\* pending is what that one wrote: preserved by every step.
LEMMA ProcessesStep == FetchOK /\ [Next]_vars => ProcessesOK'
<1> SUFFICES ASSUME FetchOK, [Next]_vars PROVE ProcessesOK'
    OBVIOUS
<1> USE FetchAssumption
    DEF FetchOK, TypeOK, StoreTypeOK, ProcessesOK, ConnHeldByTx, TxPhase,
        PendingMatchesProgress, TargetIsAFeed
<1>1. ASSUME NEW f \in Feed, AddFeed(f) \/ DeleteFeed(f) PROVE ProcessesOK'
    BY <1>1 DEF AddFeed, DeleteFeed, fetchVars
<1>2. ASSUME NEW w \in Fetcher, NEW f \in Feed, Start(w, f) PROVE ProcessesOK'
    BY <1>2, CallStep DEF Start
<1>3. ASSUME NEW w \in Fetcher, NEW d \in Doc, Parse(w, d) PROVE ProcessesOK'
    BY <1>3 DEF Parse, Goto
<1>4. ASSUME NEW w \in Fetcher, FailBeforeTx(w) PROVE ProcessesOK'
    BY <1>4 DEF FailBeforeTx, Goto
<1>5. ASSUME NEW w \in Fetcher, Begin(w) PROVE ProcessesOK'
    BY <1>5 DEF Begin, Goto, ConnFree
<1>6. ASSUME NEW w \in Fetcher, UpdateMeta(w) \/ FailInTx(w) PROVE ProcessesOK'
    BY <1>6 DEF UpdateMeta, FailInTx, Goto
<1>7. ASSUME NEW w \in Fetcher, NEW g \in Guid, InsertItem(w, g) PROVE ProcessesOK'
    <2>1. \A v \in Fetcher \ {w} : pc[v] \notin TxPhase
        BY <1>7 DEF InsertItem
    <2>2. g \in doc[w] /\ pending' = doc[w] \ todo'[w] /\ todo'[w] \subseteq doc[w]
        BY <1>7 DEF InsertItem, Doc
    <2>3. QED
        BY <1>7, <2>1, <2>2 DEF InsertItem
<1>8. ASSUME NEW w \in Fetcher, Rollback(w) \/ Commit(w) \/ CommitFails(w)
      PROVE ProcessesOK'
    <2>1. \A v \in Fetcher \ {w} : pc[v] \notin TxPhase
        BY <1>8 DEF Rollback, Commit, CommitFails
    <2>2. QED
        BY <1>8, <2>1 DEF Rollback, Commit, CommitFails, Goto
<1>9. ASSUME NEW w \in Fetcher, RecordFailure(w) \/ LoseFailure(w) \/ FinishFavicon(w)
      PROVE ProcessesOK'
    BY <1>9 DEF RecordFailure, LoseFailure, FinishFavicon, Return, Goto
<1>10. ASSUME Crash PROVE ProcessesOK'
    BY <1>10 DEF Crash
<1>11. CASE UNCHANGED vars
    BY <1>11 DEF vars, fetchVars
<1>12. QED
    BY <1>1, <1>2, <1>3, <1>4, <1>5, <1>6, <1>7, <1>8, <1>9, <1>10, <1>11
       DEF Next, Step

\* The empty database satisfies the invariant.
LEMMA InitInv == Init => Inv
<1> SUFFICES ASSUME Init PROVE Inv
    OBVIOUS
<1> USE DEF Init, StoreInit, FetchInit
<1>1. TypeOK
    BY DEF TypeOK, StoreTypeOK, Fresh, Row, Doc, Phase
<1>2. TablesOK
    BY DEF TablesOK, BatchIsWhole, ErrorMatchesCount, NoOrphans, Fresh
<1>3. ProcessesOK
    BY FetchAssumption
       DEF ProcessesOK, ConnHeldByTx, TxPhase, PendingMatchesProgress, TargetIsAFeed
<1>4. QED
    BY <1>1, <1>2, <1>3 DEF Inv

\* Type correctness of Fetch.
THEOREM FetchTypeCorrect == Spec => []TypeOK
<1>1. Init => TypeOK
    BY InitInv DEF Inv
<1>2. QED
    BY <1>1, TypeStep, PTL DEF Spec

\* The inductive invariant holds in every reachable state.
THEOREM FetchInvariant == Spec => []Inv
<1>1. Inv /\ [Next]_vars => Inv'
    <2> SUFFICES ASSUME Inv, [Next]_vars PROVE Inv'
        OBVIOUS
    <2>1. FetchOK' /\ \A f \in Feed : Whole(f)'
        BY InvParts, TypeStep, TablesStep, ProcessesStep DEF FetchOK
    <2>2. QED
        BY <2>1 DEF Inv, FetchOK, TablesOK, RowsOK, BatchIsWhole, Whole
<1>2. QED
    BY InitInv, <1>1, PTL DEF Spec

\* Whatever overlaps, fails or is killed, a row marked as fetched has every
\* item of its document.
THEOREM BatchAlwaysWhole == Spec => []BatchIsWhole
<1>1. Inv => BatchIsWhole
    BY DEF Inv, TablesOK
<1>2. QED
    BY FetchInvariant, <1>1, PTL

\* Deleting a feed under a running fetch never leaves an item behind.
THEOREM NeverOrphans == Spec => []NoOrphans
<1>1. Inv => NoOrphans
    BY DEF Inv, TablesOK
<1>2. QED
    BY FetchInvariant, <1>1, PTL

\* The failure counter and the error message always agree.
THEOREM ErrorAlwaysMatches == Spec => []ErrorMatchesCount
<1>1. Inv => ErrorMatchesCount
    BY DEF Inv, TablesOK
<1>2. QED
    BY FetchInvariant, <1>1, PTL

\* The single connection is held exactly by the goroutine whose transaction
\* is open: a goroutine that waits for it never holds it.
THEOREM ConnAlwaysHeldByTx == Spec => []ConnHeldByTx
<1>1. Inv => ConnHeldByTx
    BY DEF Inv, ProcessesOK
<1>2. QED
    BY FetchInvariant, <1>1, PTL

\* What an open transaction has written is what its goroutine believes it has
\* written, for any number of goroutines: what Commit's refinement rests on.
THEOREM PendingAlwaysMatches == Spec => []PendingMatchesProgress
<1>1. Inv => PendingMatchesProgress
    BY DEF Inv, ProcessesOK
<1>2. QED
    BY FetchInvariant, <1>1, PTL

\* Every step of Fetch is a step of FeedStore or leaves the tables alone.
LEMMA StoreStep == FetchOK /\ [Next]_vars => [StoreNext]_storeVars
<1> SUFFICES ASSUME FetchOK, [Next]_vars PROVE StoreNext \/ UNCHANGED storeVars
    OBVIOUS
<1> USE DEF StoreNext
<1>1. ASSUME NEW f \in Feed, AddFeed(f) \/ DeleteFeed(f) PROVE StoreNext
    BY <1>1 DEF AddFeed, DeleteFeed
<1>2. ASSUME NEW w \in Fetcher, Commit(w)
      PROVE StoreNext \/ UNCHANGED storeVars
    <2>1. pending = doc[w] /\ doc[w] \in Doc
        BY <1>2 DEF Commit, FetchOK, ProcessesOK, PendingMatchesProgress, TypeOK
    <2>2. target[w] \in Feed
        BY <1>2 DEF Commit, FetchOK, ProcessesOK, TargetIsAFeed
    <2>3. CASE target[w] \in live
        <3>1. StoreDocument(target[w], doc[w])
            BY <1>2, <2>1, <2>3 DEF Commit, StoreDocument
        <3>2. QED
            BY <2>1, <2>2, <3>1
    <2>4. CASE target[w] \notin live
        BY <1>2, <2>4 DEF Commit, storeVars
    <2>5. QED
        BY <2>3, <2>4
<1>3. ASSUME NEW w \in Fetcher, RecordFailure(w)
      PROVE StoreNext \/ UNCHANGED storeVars
    <2>1. target[w] \in Feed
        BY <1>3 DEF RecordFailure, FetchOK, ProcessesOK, TargetIsAFeed
    <2>2. CASE target[w] \in live
        BY <1>3, <2>1, <2>2 DEF RecordFailure, NoteFailure
    <2>3. CASE target[w] \notin live
        BY <1>3, <2>3 DEF RecordFailure, storeVars
    <2>4. QED
        BY <2>2, <2>3
<1>4. ASSUME NEW w \in Fetcher, Step(w), ~Commit(w), ~RecordFailure(w)
      PROVE UNCHANGED storeVars
    BY <1>4 DEF Step, Parse, FailBeforeTx, Begin, UpdateMeta, InsertItem, FailInTx,
               Rollback, CommitFails, LoseFailure, FinishFavicon
<1>5. ASSUME \/ \E w \in Fetcher, f \in Feed : Start(w, f)
             \/ Crash
             \/ UNCHANGED vars
      PROVE UNCHANGED storeVars
    BY <1>5 DEF Start, Call, Crash, vars
<1>6. QED
    BY <1>1, <1>2, <1>3, <1>4, <1>5 DEF Next

\* Overlapping, failing and killed fetches implement the atomic store of
\* FeedStore: "either the whole batch lands or nothing does".
THEOREM FetchImplementsStore == Spec => StoreRefined
<1>1. Init => StoreInit
    BY DEF Init
<1>2. Inv => FetchOK
    BY InvParts
<1>3. QED
    BY FetchInvariant, StoreStep, <1>1, <1>2, PTL DEF Spec, StoreRefined, StoreSpec

-----------------------------------------------------------------------------
(* The cycle                                                               *)

\* A feed that a worker of the cycle is fetching is not in the batch.
NotAgain == \A w \in Running : target[w] \notin batch

\* Outside the dispatch loop the batch is empty, but for a shutdown.
BatchLeft ==
    batch # {} /\ ~stopping =>
        \E c \in Caller : cycle[c] \in {"dispatch", "acquire"}

PollerInv ==
    /\ PollerTypeOK
    /\ OneCycle
    /\ WorkersInsideCycle
    /\ NoDoubleFetch
    /\ NotAgain
    /\ BatchLeft

-----------------------------------------------------------------------------

LEMMA PollerInitInv == PollerInit => PollerInv
<1> SUFFICES ASSUME PollerInit PROVE PollerInv
    OBVIOUS
<1> USE PollerAssumption DEF PollerInit
<1>1. TypeOK
    BY InitInv DEF Inv
<1>2. Running = {}
    BY DEF Running, Init, FetchInit
<1>3. PollerTypeOK
    <2>1. cycle \in [Caller -> CyclePhase]
        BY DEF CyclePhase
    <2>2. polls \in 0..MaxPolls
        OBVIOUS
    <2>3. QED
        BY <1>1, <2>1, <2>2 DEF PollerTypeOK
<1>4. OneCycle
    BY DEF OneCycle, InCycle
<1>5. QED
    BY <1>2, <1>3, <1>4
       DEF PollerInv, WorkersInsideCycle, NoDoubleFetch, NotAgain, BatchLeft

\* A statement of a fetch starts no worker's call and gives none another feed.
LEMMA StepKeepsCalls ==
    ASSUME TypeOK, NEW w \in Fetcher, Step(w)
    PROVE  \A v \in Fetcher :
              pc'[v] # "idle" => pc[v] # "idle" /\ target'[v] = target[v]
<1> USE DEF TypeOK
<1>1. CASE pc[w] # "idle" /\ target' = target /\ \E q \in Phase : Goto(w, q)
    BY <1>1 DEF Goto
<1>2. CASE Return(w)
    BY <1>2 DEF Return, Goto
<1>3. (\E d \in Doc : Parse(w, d)) => pc[w] = "request" /\ target' = target /\ Goto(w, "begin")
    BY DEF Parse
<1>4. FailBeforeTx(w) => pc[w] # "idle" /\ target' = target /\ Goto(w, "record")
    BY DEF FailBeforeTx
<1>5. Begin(w) => pc[w] # "idle" /\ target' = target /\ Goto(w, "update")
    BY DEF Begin
<1>6. UpdateMeta(w) => pc[w] # "idle" /\ target' = target /\ Goto(w, "insert")
    BY DEF UpdateMeta
<1>7. (\E g \in Guid : InsertItem(w, g)) => pc' = pc /\ target' = target
    BY DEF InsertItem
<1>8. FailInTx(w) => pc[w] # "idle" /\ target' = target /\ Goto(w, "rollback")
    BY DEF FailInTx
<1>9. Rollback(w) \/ CommitFails(w) => pc[w] # "idle" /\ target' = target /\ Goto(w, "record")
    BY DEF Rollback, CommitFails
<1>10. Commit(w) => pc[w] # "idle" /\ target' = target /\ Goto(w, "favicon")
    BY DEF Commit
<1>11. RecordFailure(w) \/ LoseFailure(w) \/ FinishFavicon(w) => Return(w)
    BY DEF RecordFailure, LoseFailure, FinishFavicon
<1>12. QED
    BY <1>1, <1>2, <1>3, <1>4, <1>5, <1>6, <1>7, <1>8, <1>9, <1>10, <1>11
       DEF Step, Phase, TxPhase

\* What the rest of the process does keeps the invariant: a cycle's workers
\* only come to an end, and nobody else touches the cycle.
LEMMA ElsewhereKeepsInv == PollerInv /\ Elsewhere => PollerInv'
<1> SUFFICES ASSUME PollerInv, Elsewhere PROVE PollerInv'
    OBVIOUS
<1>1. TypeOK
    BY DEF PollerInv, PollerTypeOK
<1>2. TypeOK'
    BY <1>1, TypeStep, PollerAssumption DEF Elsewhere, Next
<1>3. \A v \in Worker : pc'[v] # "idle" => pc[v] # "idle" /\ target'[v] = target[v]
    <2>1. ASSUME NEW f \in Feed, AddFeed(f) \/ DeleteFeed(f)
          PROVE  pc' = pc /\ target' = target
        BY <2>1 DEF AddFeed, DeleteFeed, fetchVars
    <2>2. ASSUME NEW w \in Fetcher \ Worker, NEW f \in Feed, Start(w, f)
          PROVE  \A v \in Worker : pc'[v] = pc[v] /\ target'[v] = target[v]
        BY <1>1, <2>2, PollerAssumption DEF Start, Call, Goto, TypeOK
    <2>3. QED
        BY <1>1, <2>1, <2>2, StepKeepsCalls, PollerAssumption DEF Elsewhere
<1>4. Running' \subseteq Running /\ \A v \in Running' : target'[v] = target[v]
    BY <1>3 DEF Running
<1>5. UNCHANGED pollVars
    BY DEF Elsewhere
<1>6. QED
    BY <1>2, <1>4, <1>5
       DEF PollerInv, PollerTypeOK, OneCycle, WorkersInsideCycle, NoDoubleFetch,
           NotAgain, BatchLeft, pollVars

\* The callers' steps outside poll: none of them enters or leaves a cycle.
LEMMA CallersKeepInv ==
    ASSUME PollerInv, Tick \/ LoopExits \/ Signal \/ \E c \in Caller : TriggerSync(c)
    PROVE  PollerInv'
<1> USE PollerAssumption
    DEF PollerInv, PollerTypeOK, OneCycle, WorkersInsideCycle, NoDoubleFetch,
        NotAgain, BatchLeft, CyclePhase, InCycle, Move, Caller
<1>1. ASSUME UNCHANGED vars PROVE TypeOK' /\ Running' = Running /\ target' = target
    BY <1>1, TypeStep DEF Running, vars, fetchVars
<1>2. CASE Tick
    BY <1>1, <1>2 DEF Tick
<1>3. CASE LoopExits
    BY <1>1, <1>3 DEF LoopExits
<1>4. CASE Signal
    BY <1>1, <1>4 DEF Signal
<1>5. ASSUME NEW c \in Caller, TriggerSync(c) PROVE PollerInv'
    BY <1>1, <1>5 DEF TriggerSync
<1>6. QED
    BY <1>2, <1>3, <1>4, <1>5

\* Entering and leaving a cycle, and the steps in it that start no worker.
LEMMA CycleKeepsInv ==
    ASSUME PollerInv, NEW c \in Caller,
           \/ CompareAndSwap(c) \/ QueryFeeds(c) \/ QueryFails(c) \/ CheckCtx(c)
           \/ WaitWorkers(c) \/ Retain(c) \/ MaybeVacuum(c) \/ Release(c)
    PROVE  PollerInv'
<1> USE PollerAssumption
    DEF PollerInv, PollerTypeOK, OneCycle, WorkersInsideCycle, NoDoubleFetch,
        NotAgain, BatchLeft, CyclePhase, InCycle, Move, AfterPoll
<1>1. ASSUME UNCHANGED vars PROVE TypeOK' /\ Running' = Running /\ target' = target
    BY <1>1, TypeStep DEF Running, vars, fetchVars
<1>2. CASE CompareAndSwap(c)
    BY <1>1, <1>2 DEF CompareAndSwap
<1>3. CASE QueryFeeds(c)
    BY <1>1, <1>3 DEF QueryFeeds, TypeOK, StoreTypeOK
<1>4. CASE QueryFails(c)
    BY <1>1, <1>4 DEF QueryFails
<1>5. CASE CheckCtx(c)
    BY <1>1, <1>5 DEF CheckCtx
<1>6. CASE WaitWorkers(c)
    BY <1>1, <1>6 DEF WaitWorkers
<1>7. CASE Retain(c)
    <2>1. TypeOK' /\ Running' = Running /\ target' = target
        BY <1>7 DEF Retain, TypeOK, StoreTypeOK, Doc, Running, fetchVars
    <2>2. QED
        BY <1>7, <2>1 DEF Retain
<1>8. CASE MaybeVacuum(c)
    BY <1>1, <1>8 DEF MaybeVacuum
<1>9. CASE Release(c)
    BY <1>1, <1>9 DEF Release
<1>10. QED
    BY <1>2, <1>3, <1>4, <1>5, <1>6, <1>7, <1>8, <1>9

\* Dispatch starts the one worker of a feed that leaves the batch with it.
LEMMA DispatchKeepsInv ==
    ASSUME PollerInv, NEW c \in Caller, NEW w \in Worker, NEW f \in Feed,
           Dispatch(c, w, f)
    PROVE  PollerInv'
<1> USE PollerAssumption DEF PollerInv
<1>1. /\ pc[w] = "idle" /\ f \in batch /\ cycle[c] = "acquire"
      /\ pc' = [pc EXCEPT ![w] = "request"]
      /\ target' = [target EXCEPT ![w] = f]
      /\ batch' = batch \ {f}
      /\ cycle' = [cycle EXCEPT ![c] = "dispatch"]
      /\ UNCHANGED <<storeVars, conn, doc, todo, pending, syncing, stopping, polls>>
    BY DEF Dispatch, Call, Goto, Move
<1>2. PollerTypeOK'
    BY <1>1 DEF PollerTypeOK, TypeOK, StoreTypeOK, storeVars, Phase, CyclePhase, InCycle
<1>3. /\ Running' = Running \cup {w} /\ w \notin Running
      /\ target'[w] = f
      /\ \A v \in Running : target'[v] = target[v]
    BY <1>1 DEF Running, PollerTypeOK, TypeOK
<1>4. OneCycle' /\ WorkersInsideCycle' /\ BatchLeft'
    BY <1>1 DEF OneCycle, WorkersInsideCycle, BatchLeft, InCycle, PollerTypeOK
<1>5. NoDoubleFetch' /\ NotAgain'
    BY <1>1, <1>3 DEF NoDoubleFetch, NotAgain
<1>6. QED
    BY <1>2, <1>4, <1>5

LEMMA PollerStepInv == PollerInv /\ [PollerNext]_allVars => PollerInv'
<1> SUFFICES ASSUME PollerInv, [PollerNext]_allVars PROVE PollerInv'
    OBVIOUS
<1>1. CASE UNCHANGED allVars
    <2>1. TypeOK' /\ Running' = Running /\ target' = target
        BY <1>1, TypeStep DEF allVars, vars, fetchVars, Running, PollerInv, PollerTypeOK
    <2>2. QED
        BY <1>1, <2>1
           DEF allVars, pollVars, PollerInv, PollerTypeOK, OneCycle,
               WorkersInsideCycle, NoDoubleFetch, NotAgain, BatchLeft
<1>2. QED
    BY <1>1, ElsewhereKeepsInv, CallersKeepInv, CycleKeepsInv, DispatchKeepsInv
       DEF PollerNext, PollStep

-----------------------------------------------------------------------------

\* The inductive invariant holds in every reachable state of the poll cycle.
THEOREM PollerInvariant == PollerSpec => []PollerInv
    BY PollerInitInv, PollerStepInv, PTL DEF PollerSpec

\* Type correctness of the poll cycle around its fetches.
THEOREM PollerTypeCorrect == PollerSpec => []PollerTypeOK
    BY PollerInvariant, PTL DEF PollerInv

\* However many ticks and triggered syncs compete, one cycle runs at a time
\* and the status flag says exactly whether one does.
THEOREM OneCycleAlways == PollerSpec => []OneCycle
    BY PollerInvariant, PTL DEF PollerInv

\* A cycle's pruning and VACUUM never overlap one of its fetches.
THEOREM WorkersAlwaysInsideCycle == PollerSpec => []WorkersInsideCycle
    BY PollerInvariant, PTL DEF PollerInv

\* No two workers ever fetch the same feed.
THEOREM NeverDoubleFetch == PollerSpec => []NoDoubleFetch
    BY PollerInvariant, PTL DEF PollerInv

\* A feed of the snapshot gets its fetch, for any number of slots, unless the
\* process is shutting down.
THEOREM SnapshotAlwaysServed == PollerSpec => SnapshotServed
<1> DEFINE Served ==
        \A f \in batch \ batch' :
            \/ stopping
            \/ \E w \in Worker : w \notin Running /\ pc'[w] = "request" /\ target'[w] = f
<1>1. PollerInv /\ [PollerNext]_allVars => [Served]_allVars
    <2> SUFFICES ASSUME PollerInv, PollerNext PROVE Served
        OBVIOUS
    <2>1. ASSUME NEW c \in Caller, NEW w \in Worker, NEW f \in Feed, Dispatch(c, w, f)
          PROVE  Served
        BY <2>1, PollerAssumption
           DEF Dispatch, Call, Goto, Running, PollerInv, PollerTypeOK, TypeOK
    <2>2. ASSUME NEW c \in Caller, QueryFeeds(c) \/ Release(c)
          PROVE  batch = {} \/ stopping
        BY <2>2 DEF QueryFeeds, Release, PollerInv, OneCycle, BatchLeft, InCycle
    <2>3. ASSUME NEW c \in Caller,
                 \/ TriggerSync(c) \/ CompareAndSwap(c) \/ QueryFails(c) \/ CheckCtx(c)
                 \/ WaitWorkers(c) \/ Retain(c) \/ MaybeVacuum(c)
          PROVE  batch' = batch
        BY <2>3 DEF TriggerSync, CompareAndSwap, QueryFails, CheckCtx, WaitWorkers,
                    Retain, MaybeVacuum
    <2>4. ASSUME Tick \/ LoopExits \/ Signal \/ Elsewhere PROVE batch' = batch
        BY <2>4 DEF Tick, LoopExits, Signal, Elsewhere, pollVars
    <2>5. QED
        BY <2>1, <2>2, <2>3, <2>4 DEF PollerNext, PollStep
<1>2. QED
    BY <1>1, PollerInvariant, PTL DEF PollerSpec, SnapshotServed

-----------------------------------------------------------------------------
(* The cycle around the fetches                                            *)

\* What retention does to the tables.
Prune ==
    /\ \E old \in [Feed -> Doc] : items' = [f \in Feed |-> items[f] \ old[f]]
    /\ UNCHANGED <<used, live, meta>>

\* The store that poll's callers see: fetches are whole, items grow old.
PrunedStore == StoreInit /\ [][StoreNext \/ Prune]_storeVars

\* A step of the process is a step of its fetches, the call of one with a row
\* of the snapshot, or retention.
LEMMA PollerSteps ==
    ASSUME [PollerNext]_allVars
    PROVE  \/ [Next]_vars
           \/ \E w \in Fetcher, f \in Feed : Call(w, f)
           \/ Prune /\ UNCHANGED fetchVars /\ \E c \in Caller : Retain(c)
<1>1. CASE UNCHANGED allVars
    BY <1>1 DEF allVars
<1>2. CASE Tick \/ LoopExits \/ Signal
    BY <1>2 DEF Tick, LoopExits, Signal
<1>3. CASE Elsewhere
    BY <1>3, PollerAssumption DEF Elsewhere, Next
<1>4. ASSUME NEW c \in Caller, TriggerSync(c) \/ PollStep(c), ~Retain(c),
             ~\E w \in Worker, f \in Feed : Dispatch(c, w, f)
      PROVE  UNCHANGED vars
    BY <1>4 DEF TriggerSync, PollStep, CompareAndSwap, QueryFeeds, QueryFails, CheckCtx,
                WaitWorkers, MaybeVacuum, Release
<1>5. ASSUME NEW c \in Caller, NEW w \in Worker, NEW f \in Feed, Dispatch(c, w, f)
      PROVE  w \in Fetcher /\ Call(w, f)
    BY <1>5, PollerAssumption DEF Dispatch
<1>6. ASSUME NEW c \in Caller, Retain(c)
      PROVE  Prune /\ UNCHANGED fetchVars
    BY <1>6 DEF Retain, Prune
<1>7. QED
    BY <1>1, <1>2, <1>3, <1>4, <1>5, <1>6 DEF PollerNext

\* Retention takes items of the live feeds at most: the rest is as before.
LEMMA PruneStep ==
    ASSUME FetchOK, Prune, UNCHANGED fetchVars
    PROVE  FetchOK'
<1> USE DEF FetchOK
<1>1. TypeOK'
    BY DEF TypeOK, StoreTypeOK, Prune, fetchVars, Doc
<1>2. RowsOK'
    BY DEF RowsOK, ErrorMatchesCount, NoOrphans, Prune
<1>3. ProcessesOK'
    BY DEF ProcessesOK, ConnHeldByTx, PendingMatchesProgress, TargetIsAFeed, fetchVars
<1>4. QED
    BY <1>1, <1>2, <1>3

LEMMA CycleStep ==
    FetchOK /\ [PollerNext]_allVars =>
      /\ FetchOK'
      /\ [StoreNext \/ Prune]_storeVars
      /\ (\A f \in Feed : Whole(f) => Whole(f)') \/ \E c \in Caller : Retain(c)
<1> SUFFICES ASSUME FetchOK, [PollerNext]_allVars
             PROVE  /\ FetchOK'
                    /\ [StoreNext \/ Prune]_storeVars
                    /\ \/ \A f \in Feed : Whole(f) => Whole(f)'
                       \/ \E c \in Caller : Retain(c)
    OBVIOUS
<1>1. CASE [Next]_vars
    <2>1. FetchOK'
        BY <1>1, TypeStep, TablesStep, ProcessesStep DEF FetchOK
    <2>2. QED
        BY <1>1, <2>1, TablesStep, StoreStep
<1>2. CASE \E w \in Fetcher, f \in Feed : Call(w, f)
    BY <1>2, CallStep DEF storeVars, Whole
<1>3. CASE Prune /\ UNCHANGED fetchVars /\ \E c \in Caller : Retain(c)
    BY <1>3, PruneStep
<1>4. QED
    BY <1>1, <1>2, <1>3, PollerSteps

\* While cycles, triggered syncs, initial fetches and deletions overlap, no
\* deleted feed keeps an item, the failure columns agree, and the connection is
\* held by the goroutine with the open transaction alone, whose writes are what
\* it believes: what Fetch promises of itself holds inside of the poll cycle,
\* whose workers fetch rows that may be gone (poll's snapshot).
THEOREM FetchesSoundInCycles ==
    PollerSpec => [](ErrorMatchesCount /\ NoOrphans /\ ConnHeldByTx /\ PendingMatchesProgress)
<1>1. PollerInit => FetchOK
    BY InitInv, InvParts DEF PollerInit
<1>2. FetchOK /\ [PollerNext]_allVars => FetchOK'
    BY CycleStep
<1>3. FetchOK => ErrorMatchesCount /\ NoOrphans /\ ConnHeldByTx /\ PendingMatchesProgress
    BY DEF FetchOK, RowsOK, ProcessesOK
<1>4. QED
    BY <1>1, <1>2, <1>3, PTL DEF PollerSpec

\* Retention alone takes items of a feed's last document away: no fetch, however
\* it fails or overlaps, and no deletion makes a whole feed less than whole.
THEOREM OnlyRetentionPrunes ==
    PollerSpec => [][\/ \A f \in Feed : Whole(f) => Whole(f)'
                     \/ \E c \in Caller : Retain(c)]_allVars
<1>1. PollerInit => FetchOK
    BY InitInv, InvParts DEF PollerInit
<1>2. FetchOK /\ [PollerNext]_allVars =>
        /\ FetchOK'
        /\ (\A f \in Feed : Whole(f) => Whole(f)') \/ \E c \in Caller : Retain(c)
    BY CycleStep
<1>3. QED
    BY <1>1, <1>2, PTL DEF PollerSpec

\* The whole process, with its cycles, implements a store in which a fetch is
\* one atomic step and in which items grow old: FeedStore with pruning.
THEOREM PollerImplementsPrunedStore == PollerSpec => PrunedStore
<1>1. PollerInit => FetchOK /\ StoreInit
    BY InitInv, InvParts DEF PollerInit, Init
<1>2. FetchOK /\ [PollerNext]_allVars => FetchOK' /\ [StoreNext \/ Prune]_storeVars
    BY CycleStep
<1>3. QED
    BY <1>1, <1>2, PTL DEF PollerSpec, PrunedStore

-----------------------------------------------------------------------------
(* When cycles run VACUUM, for a clock of any resolution                   *)

\* A day is a number of ticks, and no interval is longer.
LEMMA DayIsNat == Day \in Nat /\ Day > 0 /\ Hour <= Day /\ 6 * Hour <= Day
BY HourAssumption DEF Day

\* Growing older keeps an age an age, keeps the order of two ages and leaves
\* an age of a day alone.
LEMMA OlderAge ==
    ASSUME NEW a \in Age
    PROVE  /\ Older(a) \in Age
           /\ Older(Day) = Day
           /\ \A b \in Age : a <= b => Older(a) <= Older(b)
BY DayIsNat DEF Older, Age

LEMMA VacuumInitInv == VacuumInit => VacuumInv
BY DayIsNat DEF VacuumInit, VacuumInv, VacuumTypeOK, BeforeTheFailures, AgesOrdered,
                AtMostFourADay, Age, FailureCap

LEMMA ClockKeepsInv == VacuumInv /\ ClockTicks => VacuumInv'
<1> SUFFICES ASSUME VacuumInv, ClockTicks PROVE VacuumInv'
  OBVIOUS
<1> USE DEF VacuumInv
<1>1. VacuumTypeOK'
  BY OlderAge DEF VacuumTypeOK, ClockTicks
<1>2. BeforeTheFailures'
  BY OlderAge DEF BeforeTheFailures, ClockTicks, VacuumTypeOK, FailureCap
<1>3. AgesOrdered'
  BY OlderAge DEF AgesOrdered, ClockTicks, VacuumTypeOK
<1>4. AtMostFourADay'
  BY OlderAge DEF AtMostFourADay, ClockTicks, VacuumTypeOK
<1> QED
  BY <1>1, <1>2, <1>3, <1>4

\* The attempt that begins finds the fourth one before it a day old.
LEMMA RunKeepsInv == VacuumInv /\ Run => VacuumInv'
<1> SUFFICES ASSUME VacuumInv, Run PROVE VacuumInv'
  OBVIOUS
<1> USE DEF VacuumInv
<1>1. Interval(failures) \in Nat /\ (failures \in {0, 4} => Interval(failures) = Day)
  BY DayIsNat, HourAssumption DEF Interval, Backoff, VacuumTypeOK, FailureCap, Day
<1>2. phase = "gate" /\ since \in Age /\ since >= Interval(failures)
  BY DEF Run, VacuumTypeOK
<1>3. failures \in {0, 4} => \A k \in 1..5 : attempts[k] = Day
  BY <1>1, <1>2, DayIsNat DEF AgesOrdered, VacuumTypeOK, Age
<1>4. attempts[4] = Day
  BY <1>2, <1>3, DayIsNat DEF BeforeTheFailures, AgesOrdered, VacuumTypeOK, FailureCap, Age
<1>5. /\ attempts' \in [1..5 -> Age]
      /\ attempts'[1] = 0
      /\ \A k \in 1..4 : attempts'[k + 1] = attempts[k]
  BY DayIsNat DEF Run, VacuumTypeOK, Age
<1>6. sinceSuccess = Day
  BY <1>1, <1>2, DayIsNat DEF BeforeTheFailures, VacuumTypeOK, FailureCap, Age
<1>7. BeforeTheFailures'
  <2>1. failures + 2 <= 5 => attempts'[failures + 2] = Day
    BY <1>2, <1>3, <1>5 DEF BeforeTheFailures, VacuumTypeOK, FailureCap
  <2> QED
    BY <2>1, <1>6 DEF BeforeTheFailures, Run
<1>8. AgesOrdered'
  BY <1>5, DayIsNat DEF AgesOrdered, Run, VacuumTypeOK, Age
<1> QED
  BY <1>4, <1>5, <1>7, <1>8 DEF VacuumTypeOK, AtMostFourADay, Run

\* A VACUUM that ends turns "two places before" into "one more failure".
LEMMA EndKeepsInv == VacuumInv /\ (Fail \/ Succeed) => VacuumInv'
<1> SUFFICES ASSUME VacuumInv, Fail \/ Succeed PROVE VacuumInv'
  OBVIOUS
<1> USE DayIsNat DEF VacuumInv, VacuumTypeOK, FailureCap, Age
<1>1. CASE Fail
  BY <1>1 DEF Fail, BeforeTheFailures, AgesOrdered, AtMostFourADay
<1>2. CASE Succeed
  BY <1>2 DEF Succeed, BeforeTheFailures, AgesOrdered, AtMostFourADay
<1> QED
  BY <1>1, <1>2

LEMMA VacuumStepInv == VacuumInv /\ [VacuumNext]_vacuumVars => VacuumInv'
<1> SUFFICES ASSUME VacuumInv, [VacuumNext]_vacuumVars PROVE VacuumInv'
  OBVIOUS
<1>1. CASE ReachGate \/ Skip \/ UNCHANGED vacuumVars
  BY <1>1 DEF VacuumInv, VacuumTypeOK, BeforeTheFailures, AgesOrdered,
              AtMostFourADay, ReachGate, Skip, vacuumVars
<1> QED
  BY <1>1, ClockKeepsInv, RunKeepsInv, EndKeepsInv DEF VacuumNext

\* The invariant holds for a clock of any resolution: Vacuum's schedule never
\* loses count of the attempts of the last day.
THEOREM VacuumInvariant == VacuumSpec => []VacuumInv
<1> QED
  BY VacuumInitInv, VacuumStepInv, PTL DEF VacuumSpec

\* maybeVacuum never begins a VACUUM within a day of one that succeeded.
THEOREM SuccessesAlwaysADayApart == VacuumSpec => []SuccessesADayApart
<1>1. VacuumInv => SuccessesADayApart
  BY DEF VacuumInv, BeforeTheFailures, SuccessesADayApart
<1> QED
  BY <1>1, VacuumInvariant, PTL

\* maybeVacuum never makes a fifth attempt within a day.
THEOREM NeverFiveADay == VacuumSpec => []AtMostFourADay
<1>1. VacuumInv => AtMostFourADay
  BY DEF VacuumInv
<1> QED
  BY <1>1, VacuumInvariant, PTL
=============================================================================
