------------------------------ MODULE MCFetch ------------------------------
(* Fetch on small instances.  The safety run may permute goroutines and    *)
(* guids, which the specification only ever compares; liveness may not.    *)
EXTENDS Fetch, TLC

FetchSymmetry == Permutations(Fetcher) \cup Permutations(Guid)
=============================================================================
