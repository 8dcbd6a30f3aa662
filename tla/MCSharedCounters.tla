-------------------------- MODULE MCSharedCounters --------------------------
(* Three counting threads and two readers; three iterations, so that with  *)
(* two buckets a thread comes back to one and in the race one update can   *)
(* overtake another thread's whole loop.                                   *)
EXTENDS SharedCounters
=============================================================================
