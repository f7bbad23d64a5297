------------------------------ MODULE MCBridge ------------------------------
(***************************************************************************)
(* Instance of Bridge for TLC.  Two calls over two traces: s1 and s2 are   *)
(* copies of one span of trace t1, which may come in one batch or in two,  *)
(* s3 is a span of trace t2.  With room for two spans the Ring evicts, and *)
(* with a hard threshold of two the breaker drops the second copy.         *)
(***************************************************************************)
EXTENDS Bridge, TLC

CONSTANTS t1, t2, s1, s2, s3

ConsumersAlike == Permutations(Consumers)

MCTraceIDs == {t1, t2}
MCSpans    == {s1, s2, s3}
MCTraceOf  == [s \in MCSpans |-> IF s = s3 THEN t2 ELSE t1]
MCIDOf     == [s \in MCSpans |-> IF s = s2 THEN s1 ELSE s]
=============================================================================
