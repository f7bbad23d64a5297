---------------------------- MODULE MCEvaluator -----------------------------
(***************************************************************************)
(* Instance of Evaluator for TLC.  Three services compete for two entries, *)
(* so an entry is evicted while requests of its service are open.  Two     *)
(* callers leave one request open while the other completes, which is a    *)
(* pile-up: the multiplier of a quarter keeps the scaled baseline below    *)
(* the minimum of one.  The holds of two and three ticks make it mild and  *)
(* then severe.  Ages are bounded by the model itself.                     *)
(***************************************************************************)
EXTENDS Evaluator, TLC

Symmetry == Permutations(Services) \cup Permutations(Callers)
=============================================================================
