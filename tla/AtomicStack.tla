---------------------------- MODULE AtomicStack ----------------------------
(***************************************************************************)
(* What the lock-free stack of labs/lab_24_lockfree.c promises: a last-in  *)
(* first-out stack on which a push and a pop each happen at one instant,   *)
(* and which in the end has given back every item it was given.            *)
(***************************************************************************)
EXTENDS Naturals, Sequences

CONSTANT Item

VARIABLES stack,   \* the items on the stack, top first
          given    \* the items that were ever pushed

vars == <<stack, given>>

Init == stack = <<>> /\ given = {}

\* An item is pushed once.
Push(x) ==
    /\ x \notin given
    /\ stack' = <<x>> \o stack
    /\ given' = given \cup {x}

Pop ==
    /\ stack # <<>>
    /\ stack' = Tail(stack)
    /\ UNCHANGED given

Next == (\E x \in Item : Push(x)) \/ Pop

Spec == Init /\ [][Next]_vars
=============================================================================
