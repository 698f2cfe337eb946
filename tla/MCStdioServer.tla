---------------------------- MODULE MCStdioServer ----------------------------
(* StdioServer with two ids, a write queue of one slot and short lifetimes.  *)
EXTENDS StdioServer
=============================================================================
