------------------------------ MODULE Shutdown ------------------------------
(***************************************************************************)
(* Graceful shutdown: cmd/rdr/main.go with background.Group.  main drains  *)
(* the HTTP server (for at most ten seconds), waits for the poller's loop, *)
(* closes the group, waits for its goroutines and closes the database.     *)
(* Handlers run meanwhile; some start a background goroutine with          *)
(* Group.Go, whose test of closed and whose registration with the          *)
(* WaitGroup are two steps.                                                *)
(***************************************************************************)
EXTENDS Naturals

CONSTANTS
    Handler   \* HTTP requests; each starts at most one background goroutine

VARIABLES
    main,      \* where main is
    handler,   \* where each request's handler is
    task,      \* the background goroutine each handler started
    loop,      \* the poller's Start loop runs
    closed,    \* Group.closed
    dbOpen,    \* db.Close has not run
    timedOut   \* httpServer.Shutdown gave up with handlers still running

vars == <<main, handler, task, loop, closed, dbOpen, timedOut>>

MainPhase == {"serving", "draining", "waitLoop", "closeGroup", "waitTasks",
              "closeDb", "return", "exited"}
HandlerPhase == {"idle", "running", "registering", "finishing"}
TaskPhase == {"none", "running", "done"}

TypeOK ==
    /\ main \in MainPhase
    /\ handler \in [Handler -> HandlerPhase]
    /\ task \in [Handler -> TaskPhase]
    /\ loop \in BOOLEAN
    /\ closed \in BOOLEAN
    /\ dbOpen \in BOOLEAN
    /\ timedOut \in BOOLEAN

Init ==
    /\ main = "serving"
    /\ handler = [h \in Handler |-> "idle"]
    /\ task = [h \in Handler |-> "none"]
    /\ loop = TRUE
    /\ closed = FALSE
    /\ dbOpen = TRUE
    /\ timedOut = FALSE

Alive == main # "exited"

-----------------------------------------------------------------------------
(* main                                                                    *)

MainGoes(from, to) == main = from /\ main' = to

\* A signal cancels the context; Shutdown stops accepting requests.
Signal ==
    /\ MainGoes("serving", "draining")
    /\ UNCHANGED <<handler, task, loop, closed, dbOpen, timedOut>>

\* Shutdown returns nil: no request is being served.
Drained ==
    /\ MainGoes("draining", "waitLoop")
    /\ \A h \in Handler : handler[h] = "idle"
    /\ UNCHANGED <<handler, task, loop, closed, dbOpen, timedOut>>

\* Shutdown returns the deadline's error, which main only logs.
DrainTimeout ==
    /\ MainGoes("draining", "waitLoop")
    /\ timedOut' = \E h \in Handler : handler[h] # "idle"
    /\ UNCHANGED <<handler, task, loop, closed, dbOpen>>

\* Mutant: wg.Wait left out.
SkipLoop ==
    /\ MainGoes("waitLoop", "closeGroup")
    /\ UNCHANGED <<handler, task, loop, closed, dbOpen, timedOut>>

\* wg.Wait: the poller's loop has returned.
WaitLoop ==
    /\ MainGoes("waitLoop", "closeGroup")
    /\ ~loop
    /\ UNCHANGED <<handler, task, loop, closed, dbOpen, timedOut>>

\* bg.Close
CloseGroup ==
    /\ MainGoes("closeGroup", "waitTasks")
    /\ closed' = TRUE
    /\ UNCHANGED <<handler, task, loop, dbOpen, timedOut>>

\* Mutant: bg.Wait left out.
SkipTasks ==
    /\ MainGoes("waitTasks", "closeDb")
    /\ UNCHANGED <<handler, task, loop, closed, dbOpen, timedOut>>

\* bg.Wait: the WaitGroup's counter is zero.
WaitTasks ==
    /\ MainGoes("waitTasks", "closeDb")
    /\ \A h \in Handler : task[h] # "running"
    /\ UNCHANGED <<handler, task, loop, closed, dbOpen, timedOut>>

\* The deferred db.Close
CloseDb ==
    /\ MainGoes("closeDb", "return")
    /\ dbOpen' = FALSE
    /\ UNCHANGED <<handler, task, loop, closed, timedOut>>

\* main returns, which ends every goroutine.
Exit ==
    /\ MainGoes("return", "exited")
    /\ UNCHANGED <<handler, task, loop, closed, dbOpen, timedOut>>

\* ListenAndServe fails: os.Exit(1) on the spot, no defer runs.
ServeFails ==
    /\ MainGoes("serving", "exited")
    /\ UNCHANGED <<handler, task, loop, closed, dbOpen, timedOut>>

-----------------------------------------------------------------------------
(* The other goroutines                                                    *)

HandlerGoes(h, from, to) ==
    /\ Alive
    /\ handler[h] = from
    /\ handler' = [handler EXCEPT ![h] = to]

\* A request arrives while the server accepts.
Accept(h) ==
    /\ main = "serving"
    /\ HandlerGoes(h, "idle", "running")
    /\ task[h] = "none"
    /\ UNCHANGED <<main, task, loop, closed, dbOpen, timedOut>>

\* Mutant: Go without its test of closed.
GoLoadUnchecked(h) ==
    /\ HandlerGoes(h, "running", "registering")
    /\ UNCHANGED <<main, task, loop, closed, dbOpen, timedOut>>

\* Group.Go, first half: a closed group drops the work.
GoLoad(h) ==
    /\ HandlerGoes(h, "running", IF closed THEN "finishing" ELSE "registering")
    /\ UNCHANGED <<main, task, loop, closed, dbOpen, timedOut>>

\* Group.Go, second half: wg.Go registers and starts the goroutine.
GoRegister(h) ==
    /\ HandlerGoes(h, "registering", "finishing")
    /\ task' = [task EXCEPT ![h] = "running"]
    /\ UNCHANGED <<main, loop, closed, dbOpen, timedOut>>

\* The handler answers, with or without a background goroutine started.
Answer(h) ==
    /\ \/ HandlerGoes(h, "running", "idle")
       \/ HandlerGoes(h, "finishing", "idle")
    /\ UNCHANGED <<main, task, loop, closed, dbOpen, timedOut>>

\* The background goroutine returns.
TaskDone(h) ==
    /\ Alive
    /\ task[h] = "running"
    /\ task' = [task EXCEPT ![h] = "done"]
    /\ UNCHANGED <<main, handler, loop, closed, dbOpen, timedOut>>

\* Mutant: a loop that ignores ctx.Done.
LoopRunsOn ==
    /\ Alive
    /\ main # "serving"
    /\ UNCHANGED vars

\* Start returns once the context is cancelled (Poller!ShutdownReached).
LoopDone ==
    /\ Alive
    /\ main # "serving"
    /\ loop
    /\ loop' = FALSE
    /\ UNCHANGED <<main, handler, task, closed, dbOpen, timedOut>>

-----------------------------------------------------------------------------

MainStep ==
    \/ Drained
    \/ DrainTimeout
    \/ WaitLoop
    \/ CloseGroup
    \/ WaitTasks
    \/ CloseDb
    \/ Exit

Next ==
    \/ Signal
    \/ ServeFails
    \/ MainStep
    \/ \E h \in Handler :
        Accept(h) \/ GoLoad(h) \/ GoRegister(h) \/ Answer(h) \/ TaskDone(h)
    \/ LoopDone

Spec == Init /\ [][Next]_vars

\* The ten-second deadline passes; a fetch returns because its context is
\* cancelled and its HTTP client gives up; the loop returns.  Nothing makes
\* a handler answer.
Fairness ==
    /\ WF_vars(MainStep)
    /\ WF_vars(LoopDone)
    /\ \A h \in Handler : WF_vars(TaskDone(h))

FairSpec == Spec /\ Fairness

-----------------------------------------------------------------------------
(* Properties                                                              *)

\* The poller's loop always has its database, however long the handlers
\* take (main.go step 2 before step 5).
LoopHasDb == loop /\ Alive => dbOpen

\* Where main is, next to what it has waited for so far.  With TypeOK this is
\* inductive, and every safety property below follows from it.
DrainedUntil(phases) ==
    main \in phases \/ ~dbOpen => timedOut \/ \A h \in Handler : handler[h] = "idle"

TasksGone(phases) ==
    main \in phases \/ ~dbOpen => timedOut \/ \A h \in Handler : task[h] # "running"

MainOrder ==
    /\ main \in {"closeGroup", "waitTasks", "closeDb"} \/ ~dbOpen => ~loop
    /\ closed <=> main \in {"waitTasks", "closeDb"} \/ ~dbOpen
    /\ main = "return" => ~dbOpen
    /\ ~dbOpen => main \in {"return", "exited"}
    /\ DrainedUntil({"waitLoop", "closeGroup", "waitTasks", "closeDb"})
    /\ TasksGone({"closeDb"})

\* The invariant the proofs use: main never runs ahead of what it waits for.
ShutdownInv == TypeOK /\ MainOrder

\* When the server drained in time, the database outlives every handler and
\* every background goroutine: "they need the DB still open" (main.go:89-90).
DrainedShutdownIsClean ==
    ~dbOpen /\ ~timedOut =>
        \A h \in Handler : handler[h] = "idle" /\ task[h] # "running"

\* No goroutine of the group runs and no call of Go is between its halves.
Quiet == \A h \in Handler : handler[h] # "registering" /\ task[h] # "running"

\* Once the group is closed and quiet it stays quiet, with requests still
\* running after the deadline: only a call of Go that was already between
\* its two halves when main closed the group can still start a goroutine.
WaitIsFinal == [][closed /\ Quiet => Quiet']_vars

\* A signal always ends the process, even with a handler that never answers.
ShutdownCompletes == main = "draining" ~> main = "exited"

\* What main.go:85-88 says of handlers that outlived the deadline: "its late
\* s.bg.Go calls become no-ops instead of racing the deferred db.Close".  It
\* does not hold: Go tests closed before it registers, and Close and Wait
\* can run between the two.
NoTaskWithoutDb ==
    \A h \in Handler : Alive /\ task[h] = "running" => dbOpen
=============================================================================
