--------------------------- MODULE ShutdownProofs ---------------------------
(***************************************************************************)
(* Proofs about Shutdown, for any number of requests.  ShutdownInv is      *)
(* inductive; the safety properties follow from it.                        *)
(***************************************************************************)
EXTENDS Shutdown, TLAPS

\* A step of main keeps the invariant: each wait establishes what the next
\* phases rely on.
LEMMA MainKeepsInv ==
    ASSUME ShutdownInv, Signal \/ ServeFails \/ MainStep
    PROVE  ShutdownInv'
<1> USE DEF ShutdownInv, TypeOK, MainOrder, DrainedUntil, TasksGone, MainGoes,
            MainPhase, HandlerPhase, TaskPhase
<1>1. CASE Signal
  BY <1>1 DEF Signal
<1>2. CASE ServeFails
  BY <1>2 DEF ServeFails
<1>3. CASE Drained
  BY <1>3 DEF Drained
<1>4. CASE DrainTimeout
  BY <1>4 DEF DrainTimeout
<1>5. CASE WaitLoop
  BY <1>5 DEF WaitLoop
<1>6. CASE CloseGroup
  BY <1>6 DEF CloseGroup
<1>7. CASE WaitTasks
  BY <1>7 DEF WaitTasks
<1>8. CASE CloseDb
  BY <1>8 DEF CloseDb
<1>9. CASE Exit
  BY <1>9 DEF Exit
<1> QED
  BY <1>1, <1>2, <1>3, <1>4, <1>5, <1>6, <1>7, <1>8, <1>9 DEF MainStep

\* A step of a request, of its goroutine or of the poller's loop keeps it: a
\* closed group starts no goroutine unless a request outlived the deadline.
LEMMA OthersKeepInv ==
    ASSUME ShutdownInv,
           LoopDone \/ \E h \in Handler :
              Accept(h) \/ GoLoad(h) \/ GoRegister(h) \/ Answer(h) \/ TaskDone(h)
    PROVE  ShutdownInv'
<1> USE DEF ShutdownInv, TypeOK, MainOrder, DrainedUntil, TasksGone, HandlerGoes,
            Alive, MainPhase, HandlerPhase, TaskPhase
<1>1. CASE LoopDone
  BY <1>1 DEF LoopDone
<1>2. ASSUME NEW h \in Handler, Accept(h) PROVE ShutdownInv'
  BY <1>2 DEF Accept
<1>3. ASSUME NEW h \in Handler, GoLoad(h) PROVE ShutdownInv'
  BY <1>3 DEF GoLoad
<1>4. ASSUME NEW h \in Handler, GoRegister(h) PROVE ShutdownInv'
  BY <1>4 DEF GoRegister
<1>5. ASSUME NEW h \in Handler, Answer(h) PROVE ShutdownInv'
  BY <1>5 DEF Answer
<1>6. ASSUME NEW h \in Handler, TaskDone(h) PROVE ShutdownInv'
  BY <1>6 DEF TaskDone
<1> QED
  BY <1>1, <1>2, <1>3, <1>4, <1>5, <1>6

LEMMA StepKeepsInv == ShutdownInv /\ [Next]_vars => ShutdownInv'
<1> SUFFICES ASSUME ShutdownInv, [Next]_vars PROVE ShutdownInv'
  OBVIOUS
<1>1. CASE UNCHANGED vars
  BY <1>1 DEF vars, ShutdownInv, TypeOK, MainOrder, DrainedUntil, TasksGone
<1>2. CASE Next
  BY <1>2, MainKeepsInv, OthersKeepInv DEF Next
<1> QED
  BY <1>1, <1>2

\* main never runs ahead of what it has to wait for (ShutdownInv).
THEOREM ShutdownInvariant == Spec => []ShutdownInv
<1>1. Init => ShutdownInv
  BY DEF Init, ShutdownInv, TypeOK, MainOrder, DrainedUntil, TasksGone,
         MainPhase, HandlerPhase, TaskPhase
<1> QED
  BY <1>1, StepKeepsInv, PTL DEF Spec

\* The poller's loop never runs without its database (LoopHasDb).
THEOREM LoopAlwaysHasDb == Spec => []LoopHasDb
<1>1. ShutdownInv => LoopHasDb
  BY DEF ShutdownInv, MainOrder, LoopHasDb
<1> QED
  BY <1>1, ShutdownInvariant, PTL

\* A shutdown that drained in time closes the database under nobody
\* (DrainedShutdownIsClean), for any number of requests.
THEOREM DrainedAlwaysClean == Spec => []DrainedShutdownIsClean
<1>1. ShutdownInv => DrainedShutdownIsClean
  BY DEF ShutdownInv, MainOrder, DrainedUntil, TasksGone, DrainedShutdownIsClean
<1> QED
  BY <1>1, ShutdownInvariant, PTL

\* After Close, a WaitGroup that reached zero with no call of Go half done
\* stays at zero (WaitIsFinal).
THEOREM QuietGroupStaysQuiet == Spec => WaitIsFinal
<1>1. ShutdownInv /\ [Next]_vars => [closed /\ Quiet => Quiet']_vars
  <2> SUFFICES ASSUME ShutdownInv, Next, closed, Quiet PROVE Quiet'
    BY DEF vars, Quiet
  <2> USE DEF ShutdownInv, TypeOK, Quiet
  <2>1. CASE Signal \/ ServeFails \/ MainStep
    BY <2>1 DEF Signal, ServeFails, MainStep, Drained, DrainTimeout, WaitLoop,
                CloseGroup, WaitTasks, CloseDb, Exit
  <2>2. CASE LoopDone
    BY <2>2 DEF LoopDone
  <2>3. ASSUME NEW h \in Handler,
               Accept(h) \/ GoLoad(h) \/ GoRegister(h) \/ Answer(h) \/ TaskDone(h)
        PROVE  Quiet'
    BY <2>3 DEF Accept, GoLoad, GoRegister, Answer, TaskDone, HandlerGoes
  <2> QED
    BY <2>1, <2>2, <2>3 DEF Next
<1> QED
  BY <1>1, ShutdownInvariant, PTL DEF Spec, WaitIsFinal
=============================================================================
