-------------------------- MODULE MCLockFreeStack --------------------------
(* Three pushers of two items each: a compare-and-swap can be overtaken by *)
(* two pushes, of one thread or of two.                                    *)
EXTENDS LockFreeStack
=============================================================================
