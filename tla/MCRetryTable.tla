---------------------------- MODULE MCRetryTable ----------------------------
(***************************************************************************)
(* Instance of RetryTable for TLC.  Four slots and two probes: keys 3, 7   *)
(* and 11 share the home slot 3, whose probe sequence wraps around to slot *)
(* 0, the home of key 4.  Three keys fill a sequence and overwrite.  Five  *)
(* ticks of half a second are long enough for a key to leave the window.   *)
(***************************************************************************)
EXTENDS RetryTable
=============================================================================
