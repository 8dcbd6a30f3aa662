------------------------- MODULE MCSemaphoreBuffer -------------------------
(* lab_23 with its two producers and two consumers, a ring smaller than    *)
(* the number of items so that it wraps and both semaphores run out.       *)
EXTENDS SemaphoreBuffer
=============================================================================
