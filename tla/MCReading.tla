----------------------------- MODULE MCReading -----------------------------
(* Reading with two users, a feed each, and a list of the first user's.    *)
EXTENDS Reading, TLC

CONSTANTS u1, u2, f1, f2, l1

OwnerOf == (f1 :> u1) @@ (f2 :> u2)
ListOwnerOf == (l1 :> u1)

ItemSymmetry == Permutations(Item) \cup Permutations(Request)
=============================================================================
