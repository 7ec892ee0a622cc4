----------------------------- MODULE MCPoller -----------------------------
(* Poller on small instances; workers are interchangeable in safety runs.  *)
EXTENDS Poller, TLC

WorkerSymmetry == Permutations(Worker) \cup Permutations(Feed)
=============================================================================
