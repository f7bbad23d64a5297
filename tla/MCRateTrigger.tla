--------------------------- MODULE MCRateTrigger ---------------------------
(***************************************************************************)
(* Instance of RateTrigger for TLC.  Three buckets over five seconds: two  *)
(* are reused.  Spans may be two seconds late, the most that leaves them   *)
(* in the window.  Two samples are enough to judge, so all severities and  *)
(* all transitions between them occur.                                     *)
(***************************************************************************)
EXTENDS RateTrigger
=============================================================================
