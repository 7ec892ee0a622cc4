------------------------------ MODULE MCPaging ------------------------------
(* Paging on small lists.                                                  *)
EXTENDS Paging
=============================================================================
