----------------------------- MODULE MCShutdown -----------------------------
(* Shutdown with a few requests in flight, each a model value.             *)
EXTENDS Shutdown
=============================================================================
