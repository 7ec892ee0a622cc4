----------------------------- MODULE MCAccounts -----------------------------
(* Accounts on small sets.                                                 *)
EXTENDS Accounts, TLC

Symmetry == Permutations(User) \cup Permutations(Password)
              \cup Permutations(Session) \cup Permutations(Req)
=============================================================================
