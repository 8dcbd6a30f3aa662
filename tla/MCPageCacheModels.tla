------------------------- MODULE MCPageCacheModels -------------------------
(* Every mode with two rounds, hybrid with two processes of two threads in *)
(* one round and one process of two threads in two, and command lines that *)
(* are refused.  The file does not divide evenly, so that the last slice   *)
(* is longer than the others and than one read().                          *)
EXTENDS PageCacheModels

Command(mode, procs, threads, rounds) ==
    [mode |-> mode, procs |-> procs, threads |-> threads, rounds |-> rounds]

MCCommands ==
    {Command(m, 2, 2, 2) : m \in {"single", "threads", "processes"}}
        \cup {Command("hybrid", 2, 2, 1), Command("hybrid", 1, 2, 2)}
        \cup {Command("hybrid", 0, 2, 1), Command("mmap", 1, 1, 1)}
=============================================================================
