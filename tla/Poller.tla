------------------------------- MODULE Poller -------------------------------
(***************************************************************************)
(* The poll cycle (internal/poller/poller.go) over the fetches of Fetch:   *)
(* the periodic loop of Start, the goroutines of TriggerSync, the syncing  *)
(* flag that keeps their cycles apart, the workers and their semaphore,    *)
(* retention and VACUUM at the end of the cycle, and the cancellation of   *)
(* the application context.  Other goroutines (Fetcher \ Worker) fetch and *)
(* other clients add and delete feeds while a cycle runs.                  *)
(***************************************************************************)
EXTENDS Fetch, FiniteSets

CONSTANTS
    Worker,      \* goroutines a cycle may use to fetch
    MaxWorkers,  \* maxPollWorkers: capacity of the semaphore
    Loop,        \* the goroutine that runs Start
    Trigger,     \* goroutines TriggerSync may start
    MaxPolls     \* bound: how many calls of poll one behaviour has

ASSUME PollerAssumption ==
    /\ Worker \subseteq Fetcher
    /\ MaxWorkers \in Nat \ {0}
    /\ Loop \notin Trigger
    /\ MaxPolls \in Nat \ {0}

Caller == {Loop} \cup Trigger

VARIABLES
    syncing,   \* Poller.syncing
    cycle,     \* where each caller of poll is
    batch,     \* feeds of the running cycle's snapshot not yet dispatched
    stopping,  \* the application context is cancelled
    polls      \* calls of poll so far

pollVars == <<syncing, cycle, batch, stopping, polls>>
allVars == <<vars, pollVars>>

\* Between a successful CompareAndSwap and the deferred Store(false).
InCycle == {"query", "dispatch", "acquire", "wait", "retain", "vacuum", "release"}
CyclePhase == {"idle", "cas", "select", "exited"} \cup InCycle

PollerTypeOK ==
    /\ TypeOK
    /\ syncing \in BOOLEAN
    /\ cycle \in [Caller -> CyclePhase]
    /\ batch \subseteq Feed
    /\ stopping \in BOOLEAN
    /\ polls \in 0..MaxPolls

\* Start calls poll at once.
PollerInit ==
    /\ Init
    /\ syncing = FALSE
    /\ cycle = [c \in Caller |-> IF c = Loop THEN "cas" ELSE "idle"]
    /\ batch = {}
    /\ stopping = FALSE
    /\ polls = 1

Move(c, phase) == cycle' = [cycle EXCEPT ![c] = phase]
Running == {w \in Worker : pc[w] # "idle"}

-----------------------------------------------------------------------------
(* Callers of poll.                                                        *)

\* The ticker fires: Start calls poll again.  With ctx done as well, select
\* takes either branch.
Tick ==
    /\ cycle[Loop] = "select"
    /\ polls < MaxPolls
    /\ polls' = polls + 1
    /\ Move(Loop, "cas")
    /\ UNCHANGED <<vars, syncing, batch, stopping>>

\* Mutant: a loop over the ticker alone.
LoopIgnoresCtx ==
    /\ cycle[Loop] = "select"
    /\ stopping
    /\ UNCHANGED allVars

\* Start returns.
LoopExits ==
    /\ cycle[Loop] = "select"
    /\ stopping
    /\ Move(Loop, "exited")
    /\ UNCHANGED <<vars, syncing, batch, stopping, polls>>

\* TriggerSync: no cycle seems to run, so a goroutine of bg will call poll.
TriggerSync(c) ==
    /\ c \in Trigger
    /\ cycle[c] = "idle"
    /\ ~syncing
    /\ polls < MaxPolls
    /\ polls' = polls + 1
    /\ Move(c, "cas")
    /\ UNCHANGED <<vars, syncing, batch, stopping>>

\* SIGINT or SIGTERM.
Signal ==
    /\ ~stopping
    /\ stopping' = TRUE
    /\ UNCHANGED <<vars, syncing, cycle, batch, polls>>

-----------------------------------------------------------------------------
(* poll.                                                                   *)

AfterPoll(c) == IF c = Loop THEN "select" ELSE "idle"

\* Mutant: the flag tested and set in two steps.
CompareAndSwapTorn(c) ==
    /\ cycle[c] = "cas"
    /\ syncing' = TRUE
    /\ Move(c, "query")
    /\ UNCHANGED <<vars, batch, stopping, polls>>

\* syncing.CompareAndSwap(false, true); a caller that loses returns.
CompareAndSwap(c) ==
    /\ cycle[c] = "cas"
    /\ Move(c, IF syncing THEN AfterPoll(c) ELSE "query")
    /\ syncing' = TRUE
    /\ UNCHANGED <<vars, batch, stopping, polls>>

\* SELECT ... FROM feeds, read to the end, which gives the connection back.  A
\* row that cannot be scanned is left out.
QueryFeeds(c) ==
    /\ cycle[c] = "query"
    /\ ConnFree
    /\ batch' \in SUBSET live
    /\ Move(c, "dispatch")
    /\ UNCHANGED <<vars, syncing, stopping, polls>>

\* The query or its iteration fails: poll returns early.
QueryFails(c) ==
    /\ cycle[c] = "query"
    /\ Move(c, "release")
    /\ UNCHANGED <<vars, syncing, batch, stopping, polls>>

\* Mutant: a select with a default case, which drops the feed when every
\* slot is taken.
CheckCtxOrDrop(c) ==
    /\ cycle[c] = "dispatch"
    /\ IF batch = {} \/ stopping
          THEN Move(c, "wait") /\ batch' = batch
          ELSE IF Cardinality(Running) < MaxWorkers
                  THEN Move(c, "acquire") /\ batch' = batch
                  ELSE \E f \in batch : batch' = batch \ {f} /\ UNCHANGED cycle
    /\ UNCHANGED <<vars, syncing, stopping, polls>>

\* Top of the dispatch loop: ctx is looked at before the semaphore.
CheckCtx(c) ==
    /\ cycle[c] = "dispatch"
    /\ Move(c, IF batch = {} \/ stopping THEN "wait" ELSE "acquire")
    /\ UNCHANGED <<vars, syncing, batch, stopping, polls>>

\* Mutant: a loop that does not advance.
DispatchKeepingFeed(c, w, f) ==
    /\ cycle[c] = "acquire"
    /\ w \in Worker
    /\ f \in batch
    /\ Cardinality(Running) < MaxWorkers
    /\ Call(w, f)
    /\ Move(c, "dispatch")
    /\ UNCHANGED <<syncing, batch, stopping, polls>>

\* A slot is free: the next feed's worker starts.  ctx may have been
\* cancelled while the loop was waiting for the slot.
Dispatch(c, w, f) ==
    /\ cycle[c] = "acquire"
    /\ w \in Worker
    /\ f \in batch
    /\ Cardinality(Running) < MaxWorkers
    /\ Call(w, f)
    /\ batch' = batch \ {f}
    /\ Move(c, "dispatch")
    /\ UNCHANGED <<syncing, stopping, polls>>

\* Mutant: poll goes on without wg.Wait.
SkipWorkers(c) ==
    /\ cycle[c] = "wait"
    /\ Move(c, "retain")
    /\ UNCHANGED <<vars, syncing, batch, stopping, polls>>

\* wg.Wait returns when every worker has returned.
WaitWorkers(c) ==
    /\ cycle[c] = "wait"
    /\ Running = {}
    /\ Move(c, "retain")
    /\ UNCHANGED <<vars, syncing, batch, stopping, polls>>

\* runRetention: the items that are read, not starred and old enough go
\* (module Reading says which); an error removes none.
Retain(c) ==
    /\ cycle[c] = "retain"
    /\ ConnFree
    /\ \E old \in [Feed -> Doc] : items' = [f \in Feed |-> items[f] \ old[f]]
    /\ Move(c, "vacuum")
    /\ UNCHANGED <<used, live, meta, fetchVars, syncing, batch, stopping, polls>>

\* maybeVacuum, skipped, done or failed (module Vacuum): a statement of its
\* own on the connection.
MaybeVacuum(c) ==
    /\ cycle[c] = "vacuum"
    /\ ConnFree
    /\ Move(c, "release")
    /\ UNCHANGED <<vars, syncing, batch, stopping, polls>>

\* Mutant: the early return before the deferred Store was registered.
ReleaseKeepsFlag(c) ==
    /\ cycle[c] = "release"
    /\ batch' = {}
    /\ Move(c, AfterPoll(c))
    /\ UNCHANGED <<vars, syncing, stopping, polls>>

\* poll returns: the deferred syncing.Store(false); the snapshot is garbage.
Release(c) ==
    /\ cycle[c] = "release"
    /\ syncing' = FALSE
    /\ batch' = {}
    /\ Move(c, AfterPoll(c))
    /\ UNCHANGED <<vars, stopping, polls>>

-----------------------------------------------------------------------------

PollStep(c) ==
    \/ CompareAndSwap(c)
    \/ QueryFeeds(c)
    \/ QueryFails(c)
    \/ CheckCtx(c)
    \/ \E w \in Worker, f \in Feed : Dispatch(c, w, f)
    \/ WaitWorkers(c)
    \/ Retain(c)
    \/ MaybeVacuum(c)
    \/ Release(c)

\* What the rest of the process does meanwhile.
Elsewhere ==
    /\ \/ \E f \in Feed : AddFeed(f) \/ DeleteFeed(f)
       \/ \E w \in Fetcher \ Worker, f \in Feed : Start(w, f)
       \/ \E w \in Fetcher : Step(w)
    /\ UNCHANGED pollVars

PollerNext ==
    \/ Tick
    \/ LoopExits
    \/ Signal
    \/ \E c \in Caller : TriggerSync(c) \/ PollStep(c)
    \/ Elsewhere

PollerSpec == PollerInit /\ [][PollerNext]_allVars

\* Steps of poll that need the connection for a statement of their own.
UsesConn(c) == QueryFeeds(c) \/ Retain(c) \/ MaybeVacuum(c)

\* Fetch's fairness, and the same for a caller of poll: it moves when it can
\* and gets a connection that becomes free again and again.  A slot of the
\* semaphore stays free until the one cycle takes it.  The ticker ticks and
\* a signal comes only as they please.
PollerFairness ==
    /\ Fairness
    /\ SF_allVars(\E c \in Caller : UsesConn(c))
    /\ \A c \in Caller :
        WF_allVars(\/ c = Loop /\ LoopExits
                   \/ CompareAndSwap(c)
                   \/ CheckCtx(c)
                   \/ \E w \in Worker, f \in Feed : Dispatch(c, w, f)
                   \/ WaitWorkers(c)
                   \/ Release(c))

FairPollerSpec == PollerSpec /\ PollerFairness

-----------------------------------------------------------------------------
(* Properties.                                                             *)

\* At most one caller is inside a cycle, and syncing (what the status page
\* reports) says so exactly.  lastVacuum and consecutiveVacuumFailures are
\* plain fields that only this protects.
OneCycle ==
    /\ \A c, d \in Caller : cycle[c] \in InCycle /\ cycle[d] \in InCycle => c = d
    /\ syncing <=> \E c \in Caller : cycle[c] \in InCycle

\* A worker only runs while its cycle waits for it: no fetch of a cycle
\* overlaps that cycle's pruning or VACUUM, or runs after syncing went false.
WorkersInsideCycle ==
    Running # {} => \E c \in Caller : cycle[c] \in {"dispatch", "acquire", "wait"}

\* The workers never fetch the same feed twice at a time.
NoDoubleFetch ==
    \A v, w \in Running : target[v] = target[w] => v = w

\* A feed of the snapshot (a row that could be scanned) leaves the batch when a
\* worker is called for it and for no other reason but a shutdown.
SnapshotServed ==
    [][\A f \in batch \ batch' :
          \/ stopping
          \/ \E w \in Worker : w \notin Running /\ pc'[w] = "request" /\ target'[w] = f
      ]_allVars

\* What TriggerSync's comment says (poller.go:81-82: "Returns true if a sync
\* was started, false if one is already in progress"): the goroutine of a
\* call that returned true runs a cycle.  It does not hold: two calls, or a
\* call and a tick, can both find syncing false, and one goroutine loses the
\* CompareAndSwap after its caller was told true.
TriggerStartsSync ==
    [][\A c \in Trigger :
          cycle[c] = "cas" /\ cycle'[c] # "cas" => cycle'[c] = "query"]_allVars

\* A cycle ends, so that the status page does not say "syncing" for ever.
CycleEnds == syncing ~> ~syncing

\* After a signal every cycle winds up and Start returns: main's wg.Wait ends.
ShutdownReached ==
    stopping ~> /\ cycle[Loop] = "exited"
                /\ \A c \in Trigger : cycle[c] = "idle"
                /\ Running = {}
=============================================================================
