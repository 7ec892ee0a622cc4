------------------------------ MODULE MCVacuum ------------------------------
(* Vacuum with a clock of whole hours.                                     *)
EXTENDS Vacuum
=============================================================================
