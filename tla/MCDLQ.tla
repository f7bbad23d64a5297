------------------------------- MODULE MCDLQ -------------------------------
(***************************************************************************)
(* Instance of DLQ for TLC.  Two slots and three batches: the queue can be *)
(* full while a drain holds one entry, and a drain can be full while one   *)
(* entry is queued, so that enqueueDLQ and the merge both evict.  Two      *)
(* attempts: an entry can survive one drain and be abandoned by the next.  *)
(***************************************************************************)
EXTENDS DLQ
=============================================================================
