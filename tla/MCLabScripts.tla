---------------------------- MODULE MCLabScripts ----------------------------
(* Two edits of every source: a version that is built, edited, broken and  *)
(* mended in every order with the commands.                                *)
EXTENDS LabScripts
=============================================================================
