------------------------------- MODULE Fetch -------------------------------
(***************************************************************************)
(* poller.FetchAndStoreFeed (internal/poller/feed.go), run by several      *)
(* goroutines at once: the poll cycle's workers, the initial fetch of      *)
(* AddFeed and of an OPML import.  All of them share the one SQLite        *)
(* connection that database.Open allows (SetMaxOpenConns(1)), so BeginTx    *)
(* waits until no other transaction is open, and a goroutine that asked    *)
(* for a second connection inside its transaction would wait for itself.   *)
(*                                                                         *)
(* The tables are FeedStore's; a transaction keeps its writes in pending   *)
(* until Commit.  The process may be killed between any two steps.         *)
(***************************************************************************)
EXTENDS Naturals, FeedStore

CONSTANTS
    Fetcher,      \* goroutines that call FetchAndStoreFeed
    NoFetcher,    \* "the connection is in the pool"
    NoFeed,       \* target of an idle fetcher
    MaxFailures   \* bound: no fetch starts on a feed that failed this often

ASSUME FetchAssumption ==
    /\ NoFetcher \notin Fetcher
    /\ NoFeed \notin Feed
    /\ MaxFailures \in Nat

VARIABLES
    conn,      \* who holds the only connection across statements
    pc,        \* where each fetcher is
    target,    \* feed.ID of the snapshot the fetcher was given
    doc,       \* the document the fetcher parsed
    todo,      \* its entries not yet inserted
    pending    \* item rows the open transaction has inserted

fetchVars == <<conn, pc, target, doc, todo, pending>>
vars == <<storeVars, fetchVars>>

\* Phases in which the goroutine's transaction is open.
TxPhase == {"update", "insert", "rollback"}
Phase == {"idle", "request", "begin", "record", "favicon"} \cup TxPhase

TypeOK ==
    /\ StoreTypeOK
    /\ conn \in Fetcher \cup {NoFetcher}
    /\ pc \in [Fetcher -> Phase]
    /\ target \in [Fetcher -> Feed \cup {NoFeed}]
    /\ doc \in [Fetcher -> Doc]
    /\ todo \in [Fetcher -> Doc]
    /\ pending \in Doc

FetchInit ==
    /\ conn = NoFetcher
    /\ pc = [w \in Fetcher |-> "idle"]
    /\ target = [w \in Fetcher |-> NoFeed]
    /\ doc = [w \in Fetcher |-> {}]
    /\ todo = [w \in Fetcher |-> {}]
    /\ pending = {}

Init == StoreInit /\ FetchInit

ConnFree == conn = NoFetcher
Goto(w, phase) == pc' = [pc EXCEPT ![w] = phase]

-----------------------------------------------------------------------------
(* The other users of the tables, each one autocommitted statement.        *)

AddFeed(f) == ConnFree /\ Subscribe(f) /\ UNCHANGED fetchVars
DeleteFeed(f) == ConnFree /\ Unsubscribe(f) /\ UNCHANGED fetchVars

-----------------------------------------------------------------------------
(* FetchAndStoreFeed, statement by statement.                              *)

\* The call, with a feed struct the caller filled from a row read earlier; the
\* row may be gone by the time it is used.
Call(w, f) ==
    /\ pc[w] = "idle"
    /\ target' = [target EXCEPT ![w] = f]
    /\ Goto(w, "request")
    /\ UNCHANGED <<storeVars, conn, doc, todo, pending>>

\* The initial fetch of a feed just added (handleAddFeed, api AddFeed,
\* fetchImportedFeeds), or a poll worker's fetch of a row of the snapshot.
Start(w, f) ==
    /\ f \in live
    /\ meta[f].failures < MaxFailures
    /\ Call(w, f)

\* 200 and a document that parses.
Parse(w, d) ==
    /\ pc[w] = "request"
    /\ doc' = [doc EXCEPT ![w] = d]
    /\ todo' = [todo EXCEPT ![w] = d]
    /\ Goto(w, "begin")
    /\ UNCHANGED <<storeVars, conn, target, pending>>

\* Bad URL, no answer before the timeout, a status other than 200, a document
\* that does not parse, or BeginTx refused because ctx is done: retErr is set
\* with no transaction open.
FailBeforeTx(w) ==
    /\ pc[w] \in {"request", "begin"}
    /\ Goto(w, "record")
    /\ UNCHANGED <<storeVars, conn, target, doc, todo, pending>>

\* Mutant: a pool of more than one connection.
BeginOnAnyConn(w) ==
    /\ pc[w] = "begin"
    /\ conn' = w
    /\ pending' = {}
    /\ Goto(w, "update")
    /\ UNCHANGED <<storeVars, target, doc, todo>>

\* BeginTx takes the connection and keeps it until Commit or Rollback.
Begin(w) ==
    /\ pc[w] = "begin"
    /\ ConnFree
    /\ conn' = w
    /\ pending' = {}
    /\ Goto(w, "update")
    /\ UNCHANGED <<storeVars, target, doc, todo>>

\* Mutant: db.Exec in place of tx.Exec, so the row is marked at once.
UpdateMetaOutsideTx(w) ==
    /\ pc[w] = "update"
    /\ meta' = [meta EXCEPT ![target[w]] = Fetched(doc[w])]
    /\ Goto(w, "insert")
    /\ UNCHANGED <<used, live, items, conn, target, doc, todo, pending>>

\* UPDATE feeds ... WHERE id = ?: visible at Commit; touches no row, without
\* an error, when the feed was deleted since the snapshot.
UpdateMeta(w) ==
    /\ pc[w] = "update"
    /\ Goto(w, "insert")
    /\ UNCHANGED <<storeVars, conn, target, doc, todo, pending>>

\* Mutant: each item autocommitted.
InsertItemOutsideTx(w, g) ==
    /\ pc[w] = "insert"
    /\ g \in todo[w]
    /\ target[w] \in live
    /\ items' = [items EXCEPT ![target[w]] = @ \cup {g}]
    /\ todo' = [todo EXCEPT ![w] = @ \ {g}]
    /\ UNCHANGED <<used, live, meta, conn, pc, target, doc, pending>>

\* INSERT OR IGNORE INTO items: the foreign key needs the feed's row.
InsertItem(w, g) ==
    /\ pc[w] = "insert"
    /\ g \in todo[w]
    /\ target[w] \in live
    /\ pending' = pending \cup {g}
    /\ todo' = [todo EXCEPT ![w] = @ \ {g}]
    /\ UNCHANGED <<storeVars, conn, pc, target, doc>>

\* A statement fails inside the transaction: an I/O error, ctx cancelled, or
\* the foreign key of an item whose feed is gone.
FailInTx(w) ==
    /\ pc[w] \in {"update", "insert"}
    /\ Goto(w, "rollback")
    /\ UNCHANGED <<storeVars, conn, target, doc, todo, pending>>

\* Mutant: the defers in the other order, recordFetchFailure first.
RollbackTooLate(w) ==
    /\ pc[w] = "rollback"
    /\ Goto(w, "record")
    /\ UNCHANGED <<storeVars, conn, target, doc, todo, pending>>

\* The deferred Rollback, registered last and so run first: the connection
\* goes back to the pool before recordFetchFailure needs it.
Rollback(w) ==
    /\ pc[w] = "rollback"
    /\ conn' = NoFetcher
    /\ pending' = {}
    /\ Goto(w, "record")
    /\ UNCHANGED <<storeVars, target, doc, todo>>

\* Commit: every write of the batch becomes visible in one step.  When the
\* row is gone the document was empty and nothing is written.
Commit(w) ==
    LET f == target[w]
    IN  /\ pc[w] = "insert"
        /\ todo[w] = {}
        /\ meta' = IF f \in live
                      THEN [meta EXCEPT ![f] = Fetched(doc[w])]
                      ELSE meta
        /\ items' = IF f \in live
                       THEN [items EXCEPT ![f] = @ \cup pending]
                       ELSE items
        /\ conn' = NoFetcher
        /\ pending' = {}
        /\ Goto(w, "favicon")
        /\ UNCHANGED <<used, live, target, doc, todo>>

\* Commit returns an error: the transaction is over and undone; the deferred
\* Rollback finds ErrTxDone.
CommitFails(w) ==
    /\ pc[w] = "insert"
    /\ todo[w] = {}
    /\ conn' = NoFetcher
    /\ pending' = {}
    /\ Goto(w, "record")
    /\ UNCHANGED <<storeVars, target, doc, todo>>

\* The goroutine returns and forgets the call's locals.
Return(w) ==
    /\ target' = [target EXCEPT ![w] = NoFeed]
    /\ doc' = [doc EXCEPT ![w] = {}]
    /\ todo' = [todo EXCEPT ![w] = {}]
    /\ Goto(w, "idle")

\* The deferred recordFetchFailure: one UPDATE on a connection of its own.
\* It touches no row when the feed was deleted meanwhile.
RecordFailure(w) ==
    LET f == target[w]
    IN  /\ pc[w] = "record"
        /\ ConnFree
        /\ meta' = IF f \in live
                      THEN [meta EXCEPT ![f] = Failed(@)]
                      ELSE meta
        /\ Return(w)
        /\ UNCHANGED <<used, live, items, conn, pending>>

\* recordFetchFailure's UPDATE fails and is only logged.
LoseFailure(w) ==
    /\ pc[w] = "record"
    /\ Return(w)
    /\ UNCHANGED <<storeVars, conn, pending>>

\* The best-effort favicon download, after the transaction (module Favicon).
FinishFavicon(w) ==
    /\ pc[w] = "favicon"
    /\ Return(w)
    /\ UNCHANGED <<storeVars, conn, pending>>

\* The process is killed and started again: goroutines and the open
\* transaction are gone, the committed rows are not.
Crash ==
    /\ \E w \in Fetcher : pc[w] # "idle"
    /\ conn' = NoFetcher
    /\ pc' = [w \in Fetcher |-> "idle"]
    /\ target' = [w \in Fetcher |-> NoFeed]
    /\ doc' = [w \in Fetcher |-> {}]
    /\ todo' = [w \in Fetcher |-> {}]
    /\ pending' = {}
    /\ UNCHANGED storeVars

-----------------------------------------------------------------------------

\* One step of the goroutine w inside FetchAndStoreFeed.
Step(w) ==
    \/ \E d \in Doc : Parse(w, d)
    \/ FailBeforeTx(w)
    \/ Begin(w)
    \/ UpdateMeta(w)
    \/ \E g \in Guid : InsertItem(w, g)
    \/ FailInTx(w)
    \/ Rollback(w)
    \/ Commit(w)
    \/ CommitFails(w)
    \/ RecordFailure(w)
    \/ LoseFailure(w)
    \/ FinishFavicon(w)

Next ==
    \/ \E f \in Feed : AddFeed(f) \/ DeleteFeed(f)
    \/ \E w \in Fetcher, f \in Feed : Start(w, f)
    \/ \E w \in Fetcher : Step(w)
    \/ Crash

Spec == Init /\ [][Next]_vars

(* What the code makes sure of by itself: the HTTP client gives up after    *)
(* 30 s, a goroutine that can run does run, and database/sql hands the     *)
(* returned connection to a goroutine that waits for it, so whoever asks   *)
(* again and again for a connection that is free again and again gets it.  *)
(* No error and no crash is ever taken for granted, except the foreign key *)
(* error of an item whose feed is gone.                                    *)
Progress(w) ==
    \/ \E d \in Doc : Parse(w, d)
    \/ UpdateMeta(w)
    \/ \E g \in Guid : InsertItem(w, g)
    \/ target[w] \notin live /\ FailInTx(w)
    \/ Rollback(w)
    \/ Commit(w)
    \/ FinishFavicon(w)

Fairness ==
    \A w \in Fetcher :
        /\ WF_vars(Progress(w))
        /\ SF_vars(Begin(w) \/ RecordFailure(w))

FairSpec == Spec /\ Fairness

-----------------------------------------------------------------------------
(* Properties.                                                             *)

\* A row marked as fetched has every item of the document it was fetched
\* from, whatever fetch failed, overlapped or was killed since: "either the
\* whole batch lands or nothing does" (feed.go:60-63).
BatchIsWhole ==
    \A f \in Feed : meta[f].doc # NoDoc => meta[f].doc \subseteq items[f]

\* consecutive_failures and last_fetch_error tell the same story, whichever
\* of two overlapping fetches of a feed wrote last (feed.go:87-91, 137-142).
ErrorMatchesCount ==
    \A f \in Feed : meta[f].error <=> meta[f].failures > 0

\* A feed deleted under a running fetch leaves no item behind: the cascade
\* takes what was committed and the foreign key stops what was not.
NoOrphans ==
    \A f \in Feed \ live : items[f] = {} /\ meta[f] = Fresh

\* The connection is held exactly by the goroutine whose transaction is open:
\* nobody returns, or waits to record a failure, still holding it.
ConnHeldByTx ==
    \A w \in Fetcher : conn = w <=> pc[w] \in TxPhase

\* What the open transaction has written is what its goroutine believes it
\* has written: a commit with nothing left to insert carries the whole
\* document, and a transaction never starts with rows of another one.
PendingMatchesProgress ==
    \A w \in Fetcher :
        /\ pc[w] \in {"begin", "update"} => todo[w] = doc[w]
        /\ pc[w] = "update" => pending = {}
        /\ pc[w] = "insert" => /\ todo[w] \subseteq doc[w]
                              /\ pending = doc[w] \ todo[w]

\* A fetcher that is busy works on a feed that exists or existed.
TargetIsAFeed ==
    \A w \in Fetcher : pc[w] # "idle" => target[w] \in Feed

\* The tables, as every committed state must be.
TablesOK == BatchIsWhole /\ ErrorMatchesCount /\ NoOrphans

\* The goroutines and the connection.
ProcessesOK == ConnHeldByTx /\ PendingMatchesProgress /\ TargetIsAFeed

\* Types, the committed tables, and what the goroutines hold and believe,
\* whatever overlaps, fails, is deleted or killed: the invariant of the proofs.
Inv == TypeOK /\ TablesOK /\ ProcessesOK

\* Every call of FetchAndStoreFeed returns: in particular
\* recordFetchFailure never waits for a connection its own transaction holds
\* (the defer order that feed.go:65-72 is about).
FetchReturns ==
    \A w \in Fetcher : pc[w] # "idle" ~> pc[w] = "idle"

\* The committed rows change as if each fetch were one atomic step.
StoreRefined == StoreSpec
=============================================================================
