----------------------------- MODULE FeedStore -----------------------------
(***************************************************************************)
(* What the feeds and items tables promise about one fetch: a document is  *)
(* stored whole or not at all, and a failed fetch changes nothing but the  *)
(* failure columns.  There are no goroutines, no transactions and no       *)
(* crashes here; module Fetch shows that poller.FetchAndStoreFeed, run by   *)
(* many goroutines over one connection and killed at any point, implements *)
(* this specification.                                                     *)
(***************************************************************************)
EXTENDS Naturals

CONSTANTS
    Feed,   \* feed ids; AUTOINCREMENT hands each one out once
    Guid,   \* item guids a publisher's document can contain
    NoDoc   \* "never fetched": last_fetched_at IS NULL

\* A parsed document, reduced to the guids of its entries.
Doc == SUBSET Guid

ASSUME NoDocAssumption == \A d \in Doc : NoDoc # d

VARIABLES
    used,   \* ids the feeds table has handed out so far
    live,   \* ids of the rows now in the feeds table
    meta,   \* columns of each row (Fresh for an id without a row)
    items   \* guids of the item rows of each feed

storeVars == <<used, live, meta, items>>

\* doc stands for title, site_url and last_fetched_at, which one UPDATE sets
\* from one document; failures is consecutive_failures; error says that
\* last_fetch_error is not the empty string.
Row == [doc: {NoDoc} \cup Doc, failures: Nat, error: BOOLEAN]
Fresh == [doc |-> NoDoc, failures |-> 0, error |-> FALSE]
Fetched(d) == [doc |-> d, failures |-> 0, error |-> FALSE]
Failed(row) == [doc |-> row.doc, failures |-> row.failures + 1, error |-> TRUE]

StoreTypeOK ==
    /\ used \subseteq Feed
    /\ live \subseteq used
    /\ meta \in [Feed -> Row]
    /\ items \in [Feed -> Doc]

StoreInit ==
    /\ used = {}
    /\ live = {}
    /\ meta = [f \in Feed |-> Fresh]
    /\ items = [f \in Feed |-> {}]

\* INSERT INTO feeds: a new row under an id never used before.
Subscribe(f) ==
    /\ f \notin used
    /\ used' = used \cup {f}
    /\ live' = live \cup {f}
    /\ UNCHANGED <<meta, items>>

\* DELETE FROM feeds: the row goes and ON DELETE CASCADE takes its items.
Unsubscribe(f) ==
    /\ f \in live
    /\ live' = live \ {f}
    /\ meta' = [meta EXCEPT ![f] = Fresh]
    /\ items' = [items EXCEPT ![f] = {}]
    /\ UNCHANGED used

\* A fetch that succeeded: the row describes document d and all of d's
\* entries have their item row.
StoreDocument(f, d) ==
    /\ f \in live
    /\ meta' = [meta EXCEPT ![f] = Fetched(d)]
    /\ items' = [items EXCEPT ![f] = @ \cup d]
    /\ UNCHANGED <<used, live>>

\* A fetch that failed: only the failure columns move.
NoteFailure(f) ==
    /\ f \in live
    /\ meta' = [meta EXCEPT ![f] = Failed(@)]
    /\ UNCHANGED <<used, live, items>>

StoreNext ==
    \E f \in Feed :
        \/ Subscribe(f)
        \/ Unsubscribe(f)
        \/ \E d \in Doc : StoreDocument(f, d)
        \/ NoteFailure(f)

StoreSpec == StoreInit /\ [][StoreNext]_storeVars
=============================================================================
