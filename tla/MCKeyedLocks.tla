---------------------------- MODULE MCKeyedLocks ----------------------------
(* KeyedLocks on a small instance: three goroutines, two keys.  A goroutine
   has at most one entry, so three addresses are all that can be in use. *)
EXTENDS KeyedLocks
=============================================================================
