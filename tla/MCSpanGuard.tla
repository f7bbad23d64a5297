---------------------------- MODULE MCSpanGuard ----------------------------
(***************************************************************************)
(* Instance of SpanGuard for TLC.  Two consumers can both be between       *)
(* observe and shouldDrop when a count crosses a threshold; thresholds one *)
(* apart are the tightest order of the tiers, and a TTL of one lets an     *)
(* entry become stale while a consumer holds a span of it.                 *)
(***************************************************************************)
EXTENDS SpanGuard
=============================================================================
