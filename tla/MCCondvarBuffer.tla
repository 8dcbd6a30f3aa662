-------------------------- MODULE MCCondvarBuffer --------------------------
(* lab_22 with a ring of two slots, enough items to wrap it twice, and one *)
(* consumer more than the two of main(), so that a signal leaves more than *)
(* one asleep.  Liveness is checked too, so no symmetry is declared.       *)
EXTENDS CondvarBuffer
=============================================================================
