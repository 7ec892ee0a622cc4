------------------------------- MODULE Vacuum -------------------------------
(***************************************************************************)
(* When a poll cycle runs VACUUM: Poller.maybeVacuum and                   *)
(* vacuumFailureBackoff (internal/poller/poller.go).  At most one cycle    *)
(* runs at a time (Poller!OneCycle), so there is one caller here, and it    *)
(* calls at the end of cycles that come whenever they please.              *)
(*                                                                         *)
(* Time is counted in ticks, Hour of them to the hour, and every age stops *)
(* growing at Day, the longest interval the code compares with.            *)
(***************************************************************************)
EXTENDS Naturals

CONSTANT Hour   \* ticks per hour: the resolution of the clock

ASSUME HourAssumption == Hour \in Nat \ {0}

Day == 24 * Hour
Age == 0..Day

\* Bound: consecutiveVacuumFailures stops here; nothing tells 4 from more.
FailureCap == 4

VARIABLES
    phase,         \* where maybeVacuum is
    failures,      \* Poller.consecutiveVacuumFailures
    since,         \* age of Poller.lastVacuum
    attempts,      \* history: ages of the last five attempts, newest first
    sinceSuccess   \* history: age of the last VACUUM that succeeded

vacuumVars == <<phase, failures, since, attempts, sinceSuccess>>

VacuumTypeOK ==
    /\ phase \in {"idle", "gate", "running"}
    /\ failures \in 0..FailureCap
    /\ since \in Age
    /\ attempts \in [1..5 -> Age]
    /\ sinceSuccess \in Age

\* A process starts with the zero time: VACUUM was never run.
VacuumInit ==
    /\ phase = "idle"
    /\ failures = 0
    /\ since = Day
    /\ attempts = [k \in 1..5 |-> Day]
    /\ sinceSuccess = Day

Older(age) == IF age < Day THEN age + 1 ELSE Day

ClockTicks ==
    /\ since' = Older(since)
    /\ attempts' = [k \in 1..5 |-> Older(attempts[k])]
    /\ sinceSuccess' = Older(sinceSuccess)
    /\ UNCHANGED <<phase, failures>>

\* Mutant: the last step of the schedule left out.
BackoffWithoutLastStep(n) ==
    CASE n = 1 -> 0
      [] n = 2 -> Hour
      [] OTHER -> 6 * Hour

\* vacuumFailureBackoff
Backoff(n) ==
    CASE n = 1 -> 0
      [] n = 2 -> Hour
      [] n = 3 -> 6 * Hour
      [] OTHER -> Day

\* Mutant: the precondition of vacuumFailureBackoff not checked, in a version
\* of it whose switch is on n <= 1.
IntervalAlwaysBackoff(n) == IF n = 0 THEN 0 ELSE Backoff(n)

\* How long to wait after the last attempt.
Interval(n) == IF n > 0 THEN Backoff(n) ELSE Day

\* A poll cycle reaches maybeVacuum.
ReachGate ==
    /\ phase = "idle"
    /\ phase' = "gate"
    /\ UNCHANGED <<failures, since, attempts, sinceSuccess>>

\* Mutant: the time of the call recorded instead of the attempt's.
SkipRecording ==
    /\ phase = "gate"
    /\ since < Interval(failures)
    /\ phase' = "idle"
    /\ since' = 0
    /\ UNCHANGED <<failures, attempts, sinceSuccess>>

\* Too early: maybeVacuum returns.
Skip ==
    /\ phase = "gate"
    /\ since < Interval(failures)
    /\ phase' = "idle"
    /\ UNCHANGED <<failures, since, attempts, sinceSuccess>>

\* The statement VACUUM begins; it may take its time.
Run ==
    /\ phase = "gate"
    /\ since >= Interval(failures)
    /\ phase' = "running"
    /\ attempts' = [k \in 1..5 |-> IF k = 1 THEN 0 ELSE attempts[k - 1]]
    /\ UNCHANGED <<failures, since, sinceSuccess>>

\* VACUUM failed (no space, busy, or the context was cancelled).
Fail ==
    /\ phase = "running"
    /\ phase' = "idle"
    /\ failures' = IF failures < FailureCap THEN failures + 1 ELSE FailureCap
    /\ since' = 0
    /\ UNCHANGED <<attempts, sinceSuccess>>

\* VACUUM succeeded.
Succeed ==
    /\ phase = "running"
    /\ phase' = "idle"
    /\ failures' = 0
    /\ since' = 0
    /\ sinceSuccess' = 0
    /\ UNCHANGED attempts

VacuumNext == ClockTicks \/ ReachGate \/ Skip \/ Run \/ Fail \/ Succeed

VacuumSpec == VacuumInit /\ [][VacuumNext]_vacuumVars

\* Time passes, cycles keep coming (the ticker of Start), and a statement
\* ends one way or the other.
VacuumFairness ==
    /\ WF_vacuumVars(ClockTicks)
    /\ WF_vacuumVars(ReachGate)
    /\ WF_vacuumVars(Skip \/ Run \/ Fail \/ Succeed)

FairVacuumSpec == VacuumSpec /\ VacuumFairness

-----------------------------------------------------------------------------
(* Properties                                                              *)

\* "VACUUM at most once per 24h per process lifetime" (poller.go:170), as far
\* as it is true: none begins within a day of one that succeeded, whatever
\* failed in between.
SuccessesADayApart == phase = "running" => sinceSuccess = Day

\* "The 24h gate keeps this from being abusive" (poller.go:172), with failures:
\* an attempt is never the fifth within a day, however often cycles are
\* triggered and however the attempts end.
AtMostFourADay == attempts[5] = Day

\* What makes the two inductive.  In a row of n failures the attempt before
\* the first of them is a day old, and so is the last success.
BeforeTheFailures ==
    LET before == IF phase = "running" THEN failures + 2 ELSE failures + 1
    IN  /\ (phase = "running" \/ failures > 0) /\ before <= 5 => attempts[before] = Day
        /\ IF phase = "running" \/ failures > 0
              THEN sinceSuccess = Day
              ELSE since = sinceSuccess

\* lastVacuum is set when an attempt ends, so it is not older than the attempt.
AgesOrdered ==
    /\ phase # "running" => since <= attempts[1]
    /\ \A k \in 1..4 : attempts[k] <= attempts[k + 1]

\* The invariant the proofs use.
VacuumInv ==
    /\ VacuumTypeOK
    /\ BeforeTheFailures
    /\ AgesOrdered
    /\ AtMostFourADay

\* The gate never closes for good: VACUUM is tried again and again.
KeepsTrying == []<>(phase = "running")
=============================================================================
