------------------------------- MODULE MCRing -------------------------------
(***************************************************************************)
(* Instance of Ring for TLC.  Three traces and five spans under a cap of   *)
(* three: one insert can force out one, two or all traces, its own among   *)
(* them; a window of one lets traces of every age be buffered together.    *)
(***************************************************************************)
EXTENDS Ring
=============================================================================
