--------------------------- MODULE LockFreeStack ---------------------------
(***************************************************************************)
(* The stack of labs/lab_24_lockfree.c: pushers link nodes in front of     *)
(* stack_top with a compare-and-swap; main() joins them and then pops and  *)
(* frees until the stack is empty.  A node is named by the thread that     *)
(* allocated it and its iteration; nothing is freed while pushers run, so  *)
(* no address is used twice.  The weak compare-and-swap may fail although  *)
(* the values agree.                                                       *)
(***************************************************************************)
EXTENDS Integers, Sequences, FiniteSets

CONSTANTS Pushers,
          Pushes,   \* pushes of every thread (100000 in the code)
          NULL

ASSUME StackAssumption ==
    /\ IsFiniteSet(Pushers)
    /\ Pushes \in Nat \ {0}
    /\ NULL \notin Pushers \X (0 .. Pushes - 1)

Node == Pushers \X (0 .. Pushes - 1)

VARIABLES
    stack_top,
    next,      \* the next field of every node
    pc, i,     \* every pusher's next statement and loop counter
    old,       \* every pusher's local old
    mpc, mold, \* main()'s next statement, and old in its pop()
    popped,    \* the values of out in main()'s loop: count is its length
    freed      \* the nodes given back with free()

pushVars == <<pc, i, old>>
mainVars == <<mpc, mold, popped, freed>>
vars == <<stack_top, next, pushVars, mainVars>>

Init ==
    /\ stack_top = NULL
    /\ next = [n \in Node |-> NULL]
    /\ pc = [t \in Pushers |-> "load"]
    /\ i = [t \in Pushers |-> 0]
    /\ old = [t \in Pushers |-> NULL]
    /\ mpc = "join" /\ mold = NULL
    /\ popped = <<>>
    /\ freed = {}

-----------------------------------------------------------------------------
\* old = atomic_load(&stack_top); n->next = old;
PushLoad(t) ==
    /\ pc[t] = "load"
    /\ old' = [old EXCEPT ![t] = stack_top]
    /\ next' = [next EXCEPT ![<<t, i[t]>>] = stack_top]
    /\ pc' = [pc EXCEPT ![t] = "cas"]
    /\ UNCHANGED <<stack_top, i, mainVars>>

\* Mutant: a plain store of the new top instead of the compare-and-swap.
CasMatchesAlways(expected) == TRUE
CasMatches(expected) == stack_top = expected

Loops(t) == i[t] + 1 < Pushes

\* The compare-and-swap succeeds: the node is on the stack.
PushCas(t) ==
    /\ pc[t] = "cas"
    /\ CasMatches(old[t])
    /\ stack_top' = <<t, i[t]>>
    /\ i' = [i EXCEPT ![t] = @ + 1]
    /\ pc' = [pc EXCEPT ![t] = IF Loops(t) THEN "load" ELSE "exit"]
    /\ UNCHANGED <<next, old, mainVars>>

\* Mutant: only the compare-and-swap is repeated, with the value it has left in
\* old, and n->next is not set again.
RetryAtCas == "cas"

\* The do loop goes back to the load.
RetryAt == "load"

\* It fails, because the top has changed or for no reason.
PushRetry(t) ==
    /\ pc[t] = "cas"
    /\ old' = [old EXCEPT ![t] = stack_top]
    /\ pc' = [pc EXCEPT ![t] = RetryAt]
    /\ UNCHANGED <<stack_top, next, i, mainVars>>

-----------------------------------------------------------------------------
\* Mutant: main() starts to pop when any one pusher is through.
JoinedAny == \E t \in Pushers : pc[t] = "exit"
Joined == \A t \in Pushers : pc[t] = "exit"

MainJoin ==
    /\ mpc = "join"
    /\ Joined
    /\ mpc' = "pop"
    /\ UNCHANGED <<stack_top, next, pushVars, mold, popped, freed>>

\* pop(): load the top, or return 0 and leave the loop.
PopLoad ==
    /\ mpc = "pop"
    /\ mold' = stack_top
    /\ mpc' = IF stack_top = NULL THEN "printed" ELSE "cas"
    /\ UNCHANGED <<stack_top, next, pushVars, popped, freed>>

\* Mutant: the top moves on by two nodes.
BelowSkips(n) == IF next[n] = NULL THEN NULL ELSE next[next[n]]
Below(n) == next[n]

\* The compare-and-swap of pop() succeeds; *out = old->val; free(old);
PopCas ==
    /\ mpc = "cas"
    /\ CasMatches(mold)
    /\ stack_top' = Below(mold)
    /\ popped' = Append(popped, mold)
    /\ freed' = freed \cup {mold}
    /\ mpc' = "pop"
    /\ UNCHANGED <<next, pushVars, mold>>

PopRetry ==
    /\ mpc = "cas"
    /\ mpc' = "pop"
    /\ UNCHANGED <<stack_top, next, pushVars, mold, popped, freed>>

Finished == mpc = "printed" /\ UNCHANGED vars

-----------------------------------------------------------------------------
Push(t) == PushLoad(t) \/ PushCas(t) \/ PushRetry(t)
PopAll == MainJoin \/ PopLoad \/ PopCas \/ PopRetry

Next == (\E t \in Pushers : Push(t)) \/ PopAll \/ Finished

\* Threads run, and a compare-and-swap that can succeed time and again does
\* succeed: it fails spuriously only for a while.
Fairness ==
    /\ \A t \in Pushers : WF_vars(Push(t)) /\ SF_vars(PushCas(t))
    /\ WF_vars(PopAll) /\ SF_vars(PopCas)

Spec == Init /\ [][Next]_vars /\ Fairness

-----------------------------------------------------------------------------
Pushed == {n \in Node : n[2] < i[n[1]]}
Depth == Cardinality(Pushed) - Len(popped)

\* The first d nodes of the list that starts at top.
ListFrom(top, nxt, d) ==
    LET node[k \in 1 .. d] == IF k = 1 THEN top ELSE nxt[node[k - 1]]
    IN  [k \in 1 .. d |-> node[k]]

Chain == ListFrom(stack_top, next, Depth)

\* The list is exactly the nodes pushed and not yet freed, each once, and ends
\* with NULL: no push overwrites another's, no cycle, no dangling pointer.
ListIntact ==
    /\ {Chain[k] : k \in 1 .. Depth} = Pushed \ freed
    /\ Depth = 0 => stack_top = NULL
    /\ Depth > 0 => next[Chain[Depth]] = NULL

\* main() pops the items of any one thread in the reverse of the order in which
\* that thread pushed them.
EachThreadReversed ==
    \A j, k \in 1 .. Len(popped) :
        j < k /\ popped[j][1] = popped[k][1] => popped[j][2] > popped[k][2]

Stack == INSTANCE AtomicStack WITH Item <- Node, stack <- Chain, given <- Pushed

\* Every push takes effect at its successful compare-and-swap, every pop at
\* its own: the list behaves like an atomic stack.
ImplementsStack == Stack!Spec

\* "Popped %d items (should be 400000)": the program ends and has popped every
\* item.
PopsEverything ==
    <>(mpc = "printed" /\ Len(popped) = Pushes * Cardinality(Pushers))
=============================================================================
