------------------------ MODULE LockFreeStackProofs ------------------------
(***************************************************************************)
(* Proofs about the lock-free stack of labs/lab_24_lockfree.c, for every   *)
(* number of pushers and of pushes.                                        *)
(***************************************************************************)
EXTENDS LockFreeStack, FiniteSetTheorems, SequenceTheorems, WellFoundedInduction, TLAPS

\* The list of length d at top: the equation that ListFrom solves.
IsList(c, top, nxt, d) ==
    /\ c = [k \in 1 .. d |-> c[k]]
    /\ \A k \in 1 .. d : c[k] = IF k = 1 THEN top ELSE nxt[c[k - 1]]

BaseInv ==
    /\ stack_top \in Node \cup {NULL}
    /\ next \in [Node -> Node \cup {NULL}]
    /\ pc \in [Pushers -> {"load", "cas", "exit"}]
    /\ i \in [Pushers -> 0 .. Pushes]
    /\ old \in [Pushers -> Node \cup {NULL}]
    /\ mpc \in {"join", "pop", "cas", "printed"}
    /\ mold \in Node \cup {NULL}
    /\ popped \in Seq(Node)
    /\ freed = {popped[k] : k \in 1 .. Len(popped)}
    /\ Depth \in Nat

\* The pushers and main() take turns; a node ready for its compare-and-swap
\* points to the top its thread has seen.
ControlInv ==
    /\ \A t \in Pushers : pc[t] # "exit" => i[t] < Pushes
    /\ \A t \in Pushers : pc[t] = "cas" => next[<<t, i[t]>>] = old[t]
    /\ mpc # "join" => Joined
    /\ mpc = "join" => popped = <<>>
    /\ mpc = "cas" => mold # NULL

\* The list, and the order of any one thread's nodes on it and in popped.
ListInv ==
    /\ Chain \in [1 .. Depth -> Node]
    /\ IsList(Chain, stack_top, next, Depth)
    /\ ListIntact
    /\ \A j, k \in 1 .. Depth : j < k /\ Chain[j][1] = Chain[k][1] => Chain[j][2] > Chain[k][2]
    /\ \A j \in 1 .. Len(popped), k \in 1 .. Depth :
           popped[j][1] = Chain[k][1] => popped[j][2] > Chain[k][2]

\* The inductive invariant.
IInv == BaseInv /\ ControlInv /\ ListInv /\ EachThreadReversed

-----------------------------------------------------------------------------
\* A set of natural numbers that is not empty has a least element.
LEMMA LeastNat ==
    ASSUME NEW T, T \subseteq Nat, T # {}
    PROVE  \E m \in T : \A n \in T : ~(n < m)
<1>1. PICK m \in T : \A n \in T : ~(<<n, m>> \in OpToRel(<, Nat))
  BY NatLessThanWellFounded, WFMin
<1>2. \A n \in T : n < m => <<n, m>> \in OpToRel(<, Nat)
  BY DEF OpToRel
<1> QED
  BY <1>1, <1>2

\* Two lists of the same length from the same top along the same links agree.
LEMMA ListUnique ==
    ASSUME NEW top, NEW nxt, NEW d \in Nat, NEW f, NEW g,
           IsList(f, top, nxt, d), IsList(g, top, nxt, d)
    PROVE  f = g
<1> DEFINE T == {k \in 1 .. d : f[k] # g[k]}
<1>1. ASSUME T = {} PROVE f = g
  <2>1. \A k \in 1 .. d : f[k] = g[k]
    BY <1>1
  <2>2. [k \in 1 .. d |-> f[k]] = [k \in 1 .. d |-> g[k]]
    BY <2>1
  <2>3. f = [k \in 1 .. d |-> f[k]] /\ g = [k \in 1 .. d |-> g[k]]
    BY Zenon DEF IsList
  <2> QED
    BY <2>2, <2>3, Zenon
<1> SUFFICES ASSUME T # {} PROVE FALSE
  BY <1>1
<1>2. PICK m \in T : \A n \in T : ~(n < m)
  <2>1. T \subseteq Nat
    OBVIOUS
  <2> HIDE DEF T
  <2> QED
    BY <2>1, LeastNat
<1>3. CASE m = 1
  BY <1>3 DEF IsList
<1>4. CASE m # 1
  <2>1. m - 1 \in 1 .. d /\ m - 1 < m
    BY <1>4
  <2>2. f[m - 1] = g[m - 1]
    BY <1>2, <2>1
  <2>3. f[m] = nxt[f[m - 1]] /\ g[m] = nxt[g[m - 1]]
    BY <1>4 DEF IsList
  <2> QED
    BY <2>2, <2>3
<1> QED
  BY <1>3, <1>4

\* ListFrom is the list, if there is one.
LEMMA ListFromIs ==
    ASSUME NEW top, NEW nxt, NEW d \in Nat, NEW c, IsList(c, top, nxt, d)
    PROVE  ListFrom(top, nxt, d) = c
<1> DEFINE node == CHOOSE f : f = [k \in 1 .. d |-> IF k = 1 THEN top ELSE nxt[f[k - 1]]]
<1>1. IsList(node, top, nxt, d)
  BY DEF IsList
<1>2. node = c
  BY <1>1, ListUnique
<1>3. ListFrom(top, nxt, d) = [k \in 1 .. d |-> node[k]]
  BY DEF ListFrom
<1> QED
  BY <1>2, <1>3 DEF IsList

\* There are only so many nodes.
LEMMA PushedFinite == IsFiniteSet(Pushed) /\ Cardinality(Pushed) \in Nat
<1>1. IsFiniteSet(0 .. Pushes - 1)
  BY StackAssumption, FS_Interval
<1>2. IsFiniteSet(Node)
  BY <1>1, StackAssumption, FS_Product DEF Node
<1>3. Pushed \subseteq Node
  BY DEF Pushed
<1> QED
  BY <1>2, <1>3, FS_Subset, FS_CardinalityType

\* A successful compare-and-swap pushes one node, which was not there before.
LEMMA PushedAdds ==
    ASSUME BaseInv, NEW t \in Pushers, i[t] < Pushes, i' = [i EXCEPT ![t] = @ + 1]
    PROVE  /\ <<t, i[t]>> \in Node /\ <<t, i[t]>> \notin Pushed
           /\ Pushed' = Pushed \cup {<<t, i[t]>>}
           /\ Cardinality(Pushed)' = Cardinality(Pushed) + 1
<1> DEFINE n == <<t, i[t]>>
<1>1. n \in Node /\ n \notin Pushed /\ i[t] \in Nat
  BY StackAssumption DEF BaseInv, Node, Pushed
<1>2. ASSUME NEW x \in Node PROVE x \in Pushed' <=> x \in Pushed \/ x = n
  <2>1. x[1] \in Pushers /\ x[2] \in 0 .. Pushes - 1 /\ x = <<x[1], x[2]>>
    BY <1>2 DEF Node
  <2>2. CASE x[1] = t
    <3>1. i'[x[1]] = i[t] + 1
      BY <2>1, <2>2 DEF BaseInv
    <3> QED
      BY <1>1, <1>2, <2>1, <2>2, <3>1 DEF Pushed
  <2>3. CASE x[1] # t
    <3>1. i'[x[1]] = i[x[1]]
      BY <2>1, <2>3 DEF BaseInv
    <3> QED
      BY <1>2, <2>1, <2>3, <3>1 DEF Pushed
  <2> QED
    BY <2>2, <2>3
<1>3. Pushed' = Pushed \cup {n}
  <2>1. Pushed' \subseteq Node /\ Pushed \subseteq Node
    BY DEF Pushed
  <2> QED
    BY <1>1, <1>2, <2>1
<1> QED
  BY <1>1, <1>3, PushedFinite, FS_AddElement

\* Steps that touch neither the list nor what was popped.
LEMMA SameList ==
    ASSUME BaseInv, ListInv, EachThreadReversed, UNCHANGED <<stack_top, next, i, popped, freed>>
    PROVE  ListInv' /\ EachThreadReversed' /\ UNCHANGED <<Depth, Pushed, Chain>>
<1>1. UNCHANGED Pushed
  BY DEF Pushed
<1>2. UNCHANGED Depth
  BY <1>1 DEF Depth
<1>3. UNCHANGED Chain
  BY <1>2 DEF Chain
<1> QED
  BY <1>1, <1>2, <1>3 DEF ListInv, ListIntact, EachThreadReversed

\* The stack starts empty.
LEMMA InitInv == Init => IInv
<1> SUFFICES ASSUME Init PROVE IInv
  OBVIOUS
<1> USE StackAssumption DEF Init
<1>1. Pushed = {}
  BY DEF Pushed, Node
<1>2. Depth = 0
  BY <1>1, FS_EmptySet DEF Depth
<1>3. BaseInv
  BY <1>2 DEF BaseInv
<1>4. ControlInv
  BY DEF ControlInv
<1>5. Chain = <<>> /\ IsList(Chain, stack_top, next, Depth)
  <2>1. 1 .. Depth = {}
    BY <1>2
  <2>2. IsList(<<>>, stack_top, next, Depth)
    BY <2>1 DEF IsList
  <2> QED
    BY <1>2, <2>2, ListFromIs DEF Chain
<1>6. ListInv
  BY <1>1, <1>2, <1>5 DEF ListInv, ListIntact
<1>7. EachThreadReversed
  BY DEF EachThreadReversed
<1> QED
  BY <1>3, <1>4, <1>6, <1>7 DEF IInv

\* Where the list's links lead, and that it does not pass a node twice.
LEMMA ListFacts ==
    ASSUME IInv
    PROVE  /\ Depth \in Nat /\ Chain \in [1 .. Depth -> Node]
           /\ \A k \in 1 .. Depth : Chain[k] \in Pushed
           /\ Depth > 0 => Chain[1] = stack_top
           /\ \A k \in 1 .. Depth : k + 1 \in 1 .. Depth => Chain[k + 1] = next[Chain[k]]
           /\ \A j, k \in 1 .. Depth : j # k => Chain[j] # Chain[k]
           /\ stack_top # NULL => Depth > 0
           /\ NULL \notin Node
<1>1. Depth \in Nat /\ Chain \in [1 .. Depth -> Node] /\ NULL \notin Node
  BY StackAssumption DEF IInv, BaseInv, ListInv, Node
<1>2. \A k \in 1 .. Depth : Chain[k] \in Pushed
  BY DEF IInv, ListInv, ListIntact
<1>3. \A k \in 1 .. Depth : Chain[k] = IF k = 1 THEN stack_top ELSE next[Chain[k - 1]]
  BY DEF IInv, ListInv, IsList
<1>4. Depth > 0 => Chain[1] = stack_top
  BY <1>1, <1>3
<1>5. ASSUME NEW k \in 1 .. Depth, k + 1 \in 1 .. Depth PROVE Chain[k + 1] = next[Chain[k]]
  <2>1. k + 1 # 1 /\ (k + 1) - 1 = k
    BY <1>1
  <2> QED
    BY <1>3, <1>5, <2>1
<1>6. ASSUME NEW j \in 1 .. Depth, NEW k \in 1 .. Depth, j # k PROVE Chain[j] # Chain[k]
  <2>1. Chain[j][2] \in Nat /\ Chain[k][2] \in Nat
    BY <1>1, StackAssumption DEF Node
  <2>2. j < k \/ k < j
    BY <1>1, <1>6
  <2> QED
    BY <2>1, <2>2 DEF IInv, ListInv
<1>7. stack_top # NULL => Depth > 0
  BY <1>1 DEF IInv, ListInv, ListIntact
<1> QED
  BY <1>1, <1>2, <1>4, <1>5, <1>6, <1>7

\* n->next is written while no other thread can reach n.
LEMMA PushLoadInv == ASSUME IInv, NEW t \in Pushers, PushLoad(t) PROVE IInv' /\ UNCHANGED <<Chain, Pushed>>
<1> DEFINE n == <<t, i[t]>>
<1>0. /\ pc[t] = "load" /\ old' = [old EXCEPT ![t] = stack_top] /\ next' = [next EXCEPT ![n] = stack_top]
      /\ pc' = [pc EXCEPT ![t] = "cas"] /\ UNCHANGED <<stack_top, i, mpc, mold, popped, freed>>
  BY DEF PushLoad, mainVars
<1>1. n \in Node /\ n \notin Pushed
  <2>1. i[t] \in 0 .. Pushes - 1
    <3>1. i[t] \in 0 .. Pushes
      BY DEF IInv, BaseInv
    <3>2. i[t] < Pushes
      BY <1>0 DEF IInv, ControlInv
    <3> QED
      BY <3>1, <3>2, StackAssumption
  <2>2. n \in Node /\ n[1] = t /\ n[2] = i[t]
    BY <2>1 DEF Node
  <2> QED
    BY <2>1, <2>2 DEF Pushed
<1>2. UNCHANGED Pushed
  BY <1>0 DEF Pushed
<1>3. UNCHANGED Depth
  BY <1>0, <1>2 DEF Depth
<1>4. \A k \in 1 .. Depth : next'[Chain[k]] = next[Chain[k]]
  BY <1>0, <1>1, ListFacts DEF IInv, BaseInv
<1>5. IsList(Chain, stack_top, next', Depth)
  <2>1. ASSUME NEW k \in 1 .. Depth PROVE Chain[k] = IF k = 1 THEN stack_top ELSE next'[Chain[k - 1]]
    <3>1. k # 1 => k - 1 \in 1 .. Depth
      BY ListFacts
    <3>2. Chain[k] = IF k = 1 THEN stack_top ELSE next[Chain[k - 1]]
      BY DEF IInv, ListInv, IsList
    <3> QED
      BY <1>4, <3>1, <3>2
  <2> QED
    BY <2>1 DEF IInv, ListInv, IsList
<1>6. UNCHANGED Chain
  <2>1. ListFrom(stack_top, next', Depth) = Chain
    BY <1>5, ListFacts, ListFromIs
  <2> QED
    BY <1>0, <1>3, <2>1 DEF Chain
<1>7. BaseInv'
  BY <1>0, <1>1, <1>3 DEF IInv, BaseInv
<1>8. ControlInv'
  <2>1. ASSUME NEW u \in Pushers, pc'[u] = "cas" PROVE next'[<<u, i[u]>>] = old'[u]
    <3>1. CASE u = t
      BY <1>0, <1>1, <3>1 DEF IInv, BaseInv
    <3>2. CASE u # t
      <4>1. pc[u] = "cas" /\ old'[u] = old[u] /\ i[u] \in 0 .. Pushes - 1
        <5>1. pc[u] = "cas" /\ old'[u] = old[u]
          BY <1>0, <2>1, <3>2 DEF IInv, BaseInv
        <5> QED
          BY <5>1, StackAssumption DEF IInv, BaseInv, ControlInv
      <4>2. <<u, i[u]>> \in Node /\ <<u, i[u]>> # n
        BY <3>2, <4>1 DEF Node
      <4>3. next'[<<u, i[u]>>] = next[<<u, i[u]>>]
        BY <1>0, <4>2 DEF IInv, BaseInv
      <4> QED
        BY <4>1, <4>3 DEF IInv, ControlInv
    <3> QED
      BY <3>1, <3>2
  <2>2. mpc = "join"
    BY <1>0 DEF IInv, ControlInv, Joined
  <2> QED
    BY <1>0, <2>1, <2>2 DEF IInv, BaseInv, ControlInv
<1>9. ListInv'
  <2>1. ListIntact'
    BY <1>0, <1>2, <1>3, <1>4, <1>6, ListFacts DEF IInv, ListInv, ListIntact
  <2> QED
    BY <1>0, <1>3, <1>5, <1>6, <2>1 DEF IInv, ListInv
<1>10. EachThreadReversed'
  BY <1>0 DEF IInv, EachThreadReversed
<1> QED
  BY <1>2, <1>6, <1>7, <1>8, <1>9, <1>10 DEF IInv

\* The compare-and-swap puts the node in front of the list as it is now.
LEMMA PushCasInv ==
    ASSUME IInv, NEW t \in Pushers, PushCas(t)
    PROVE  /\ IInv'
           /\ <<t, i[t]>> \in Node \ Pushed /\ Pushed' = Pushed \cup {<<t, i[t]>>}
           /\ Chain' = <<<<t, i[t]>>>> \o Chain
<1> DEFINE n == <<t, i[t]>>
           c == [k \in 1 .. Depth + 1 |-> IF k = 1 THEN n ELSE Chain[k - 1]]
<1>0. /\ pc[t] = "cas" /\ i[t] < Pushes /\ stack_top = next[n] /\ stack_top' = n
      /\ i' = [i EXCEPT ![t] = @ + 1] /\ pc' = [pc EXCEPT ![t] = IF Loops(t) THEN "load" ELSE "exit"]
      /\ mpc = "join" /\ popped = <<>> /\ freed = {}
      /\ UNCHANGED <<next, old, mpc, mold, popped, freed>>
  <2>1. pc[t] = "cas" /\ i[t] < Pushes /\ next[n] = old[t] /\ mpc = "join"
    BY DEF PushCas, IInv, BaseInv, ControlInv, Joined
  <2>2. popped = <<>>
    BY <2>1 DEF IInv, ControlInv
  <2>3. freed = {}
    BY <2>2 DEF IInv, BaseInv
  <2> QED
    BY <2>1, <2>2, <2>3 DEF PushCas, CasMatches, mainVars
<1>1. /\ n \in Node /\ n \notin Pushed /\ Pushed' = Pushed \cup {n}
      /\ Cardinality(Pushed)' = Cardinality(Pushed) + 1
  BY <1>0, PushedAdds DEF IInv
<1>2. Depth' = Depth + 1 /\ Depth \in Nat
  <2>1. Depth = Cardinality(Pushed) - Len(popped) /\ Depth' = Cardinality(Pushed)' - Len(popped)
    BY <1>0 DEF Depth
  <2>2. Len(popped) \in Nat /\ Cardinality(Pushed) \in Nat
    BY PushedFinite DEF IInv, BaseInv
  <2> QED
    BY <1>1, <2>1, <2>2, ListFacts
<1>3. IsList(c, n, next, Depth + 1)
  <2>1. ASSUME NEW k \in 1 .. Depth + 1 PROVE c[k] = IF k = 1 THEN n ELSE next[c[k - 1]]
    <3>1. CASE k = 1
      BY <3>1
    <3>2. CASE k = 2
      <4>1. c[k] = Chain[1] /\ c[k - 1] = n /\ Depth > 0
        BY <1>2, <3>2
      <4> QED
        BY <1>0, <3>2, <4>1, ListFacts
    <3>3. CASE k > 2
      <4>1. k - 2 \in 1 .. Depth /\ (k - 2) + 1 \in 1 .. Depth /\ k - 1 \in 1 .. Depth + 1
        BY <1>2, <3>3
      <4>2. Chain[(k - 2) + 1] = next[Chain[k - 2]] /\ (k - 2) + 1 = k - 1 /\ (k - 1) - 1 = k - 2
        BY <4>1, ListFacts
      <4>3. c[k] = Chain[k - 1] /\ c[k - 1] = Chain[k - 2]
        BY <3>3, <4>1, <4>2
      <4> QED
        BY <3>3, <4>2, <4>3
    <3> QED
      BY <1>2, <3>1, <3>2, <3>3
  <2>2. c = [k \in 1 .. Depth + 1 |-> c[k]]
    OBVIOUS
  <2> HIDE DEF c
  <2> QED
    BY <2>1, <2>2 DEF IsList
<1>4. Chain' = c
  <2>1. ListFrom(n, next, Depth + 1) = c
    BY <1>2, <1>3, ListFromIs
  <2> QED
    BY <1>0, <1>2, <2>1 DEF Chain
<1>5. c \in [1 .. Depth + 1 -> Node] /\ c[1] = n /\ \A k \in 1 .. Depth : c[k + 1] = Chain[k]
  BY <1>1, <1>2, ListFacts
<1>6. c = <<n>> \o Chain
  BY <1>2, ListFacts
<1>7. BaseInv'
  <2>1. /\ i' \in [Pushers -> 0 .. Pushes]
        /\ pc' \in [Pushers -> {"load", "cas", "exit"}]
    BY <1>0, StackAssumption DEF IInv, BaseInv
  <2> QED
    BY <1>0, <1>1, <1>2, <2>1 DEF IInv, BaseInv
<1>8. ControlInv'
  <2>1. \A u \in Pushers : pc'[u] # "exit" => i'[u] < Pushes
    BY <1>0, StackAssumption DEF IInv, BaseInv, ControlInv, Loops
  <2>2. \A u \in Pushers : pc'[u] = "cas" => u # t /\ pc[u] = "cas" /\ i'[u] = i[u]
    BY <1>0 DEF IInv, BaseInv
  <2> QED
    BY <1>0, <2>1, <2>2 DEF IInv, ControlInv
<1> HIDE DEF c
<1>9. ListInv'
  <2>1. ListIntact'
    <3>1. {c[k] : k \in 1 .. Depth + 1} = Pushed \cup {n}
      <4>1. {Chain[k] : k \in 1 .. Depth} = Pushed
        BY <1>0 DEF IInv, ListInv, ListIntact
      <4>2. ASSUME NEW k \in 1 .. Depth + 1 PROVE c[k] \in Pushed \cup {n}
        <5>1. CASE k = 1
          BY <1>5, <5>1
        <5>2. CASE k # 1
          <6>1. k - 1 \in 1 .. Depth /\ (k - 1) + 1 = k
            BY <1>2, <5>2
          <6>2. c[k] = Chain[k - 1]
            BY <1>5, <6>1
          <6> QED
            BY <6>1, <6>2, ListFacts
        <5> QED
          BY <5>1, <5>2
      <4>3. ASSUME NEW x \in Pushed PROVE \E k \in 1 .. Depth + 1 : c[k] = x
        <5>1. PICK k \in 1 .. Depth : Chain[k] = x
          BY <4>1
        <5>2. k + 1 \in 1 .. Depth + 1 /\ c[k + 1] = x
          BY <1>2, <1>5, <5>1
        <5> QED
          BY <5>2
      <4>4. 1 \in 1 .. Depth + 1
        BY <1>2
      <4> QED
        BY <1>5, <4>2, <4>3, <4>4
    <3>2. next[c[Depth + 1]] = NULL
      <4>1. CASE Depth = 0
        BY <1>0, <1>5, <4>1 DEF IInv, ListInv, ListIntact
      <4>2. CASE Depth > 0
        <5>1. Depth \in 1 .. Depth
          BY <1>2, <4>2
        <5> QED
          BY <1>5, <4>2, <5>1 DEF IInv, ListInv, ListIntact
      <4> QED
        BY <1>2, <4>1, <4>2
    <3> QED
      BY <1>0, <1>1, <1>2, <1>4, <3>1, <3>2 DEF ListIntact
  <2>2. ASSUME NEW j \in 1 .. Depth + 1, NEW k \in 1 .. Depth + 1, j < k, c[j][1] = c[k][1]
        PROVE  c[j][2] > c[k][2]
    <3>1. k - 1 \in 1 .. Depth /\ c[k] = Chain[k - 1]
      <4>1. k - 1 \in 1 .. Depth /\ (k - 1) + 1 = k
        BY <1>2, <2>2
      <4> QED
        BY <1>5, <4>1
    <3>2. CASE j = 1
      <4>1. Chain[k - 1] \in Pushed /\ Chain[k - 1][1] = t /\ c[j][2] = i[t]
        BY <1>5, <2>2, <3>1, <3>2, ListFacts
      <4>2. Chain[k - 1][2] < i[t] /\ Chain[k - 1][2] \in Nat
        BY <4>1, StackAssumption DEF Pushed, Node
      <4> QED
        BY <3>1, <4>1, <4>2
    <3>3. CASE j # 1
      <4>1. j - 1 \in 1 .. Depth /\ (j - 1) + 1 = j /\ j - 1 < k - 1
        BY <1>2, <2>2, <3>3
      <4>2. c[j] = Chain[j - 1]
        BY <1>5, <4>1
      <4> QED
        BY <2>2, <3>1, <4>1, <4>2 DEF IInv, ListInv
    <3> QED
      BY <3>2, <3>3
  <2>3. 1 .. Len(popped') = {}
    BY <1>0
  <2> QED
    BY <1>0, <1>2, <1>3, <1>4, <1>5, <2>1, <2>2, <2>3 DEF ListInv
<1>10. EachThreadReversed'
  BY <1>0 DEF IInv, EachThreadReversed
<1> QED
  BY <1>1, <1>4, <1>6, <1>7, <1>8, <1>9, <1>10 DEF IInv

\* The compare-and-swap of pop() takes the first node off the list.
LEMMA PopCasInv ==
    ASSUME IInv, PopCas
    PROVE  IInv' /\ Chain # <<>> /\ Chain' = Tail(Chain) /\ UNCHANGED Pushed
<1> DEFINE c == [k \in 1 .. Depth - 1 |-> Chain[k + 1]]
<1>0. /\ mpc = "cas" /\ stack_top = mold /\ mold # NULL /\ stack_top' = next[mold] /\ Joined
      /\ popped' = Append(popped, mold) /\ freed' = freed \cup {mold} /\ mpc' = "pop"
      /\ UNCHANGED <<next, pc, i, old, mold>>
  BY DEF PopCas, CasMatches, Below, pushVars, IInv, ControlInv
<1>1. /\ Depth \in Nat /\ Depth > 0 /\ Chain[1] = mold /\ mold \in Node /\ mold \in Pushed
      /\ Chain \in [1 .. Depth -> Node]
  BY <1>0, ListFacts DEF IInv, BaseInv
<1>2. UNCHANGED Pushed
  BY <1>0 DEF Pushed
<1>3. /\ popped \in Seq(Node) /\ Len(popped') = Len(popped) + 1 /\ Len(popped) \in Nat
      /\ popped'[Len(popped) + 1] = mold /\ \A k \in 1 .. Len(popped) : popped'[k] = popped[k]
  BY <1>0, <1>1 DEF IInv, BaseInv
<1>4. Depth' = Depth - 1
  <2>1. Depth = Cardinality(Pushed) - Len(popped) /\ Depth' = Cardinality(Pushed) - Len(popped')
    BY <1>2 DEF Depth
  <2> QED
    BY <1>1, <1>3, <2>1, PushedFinite
<1>5. IsList(c, stack_top', next, Depth - 1)
  <2>1. ASSUME NEW k \in 1 .. Depth - 1 PROVE c[k] = IF k = 1 THEN stack_top' ELSE next[c[k - 1]]
    <3>1. k \in 1 .. Depth /\ k + 1 \in 1 .. Depth
      BY <1>1
    <3>2. Chain[k + 1] = next[Chain[k]]
      BY <3>1, ListFacts
    <3>3. CASE k = 1
      BY <1>0, <1>1, <3>2, <3>3
    <3>4. CASE k # 1
      <4>1. k - 1 \in 1 .. Depth - 1 /\ (k - 1) + 1 = k
        BY <1>1, <3>4
      <4>2. c[k - 1] = Chain[k]
        BY <4>1
      <4> QED
        BY <3>2, <3>4, <4>2
    <3> QED
      BY <3>3, <3>4
  <2>2. c = [k \in 1 .. Depth - 1 |-> c[k]]
    OBVIOUS
  <2> HIDE DEF c
  <2> QED
    BY <2>1, <2>2 DEF IsList
<1>6. Chain' = c
  <2>1. ListFrom(stack_top', next, Depth - 1) = c
    BY <1>1, <1>5, ListFromIs
  <2> QED
    BY <1>0, <1>4, <2>1 DEF Chain
<1>7. /\ c \in [1 .. Depth - 1 -> Node]
      /\ \A k \in 1 .. Depth - 1 : k \in 1 .. Depth /\ k + 1 \in 1 .. Depth /\ c[k] = Chain[k + 1]
  BY <1>1
<1>8. c = Tail(Chain) /\ Chain # <<>>
  <2>1. Chain \in Seq(Node) /\ Len(Chain) = Depth
    BY <1>1
  <2>2. Chain # <<>>
    BY <1>1, <2>1
  <2>3. /\ Tail(Chain) \in Seq(Node) /\ Len(Tail(Chain)) = Depth - 1
        /\ \A k \in 1 .. Depth - 1 : Tail(Chain)[k] = Chain[k + 1]
    BY <2>1, <2>2, HeadTailProperties
  <2>4. c \in Seq(Node) /\ Len(c) = Depth - 1 /\ \A k \in 1 .. Depth - 1 : c[k] = Tail(Chain)[k]
    BY <1>1, <1>7, <2>3
  <2> HIDE DEF c
  <2> QED
    BY <2>2, <2>3, <2>4, SeqEqual
<1>9. BaseInv'
  <2>1. stack_top' \in Node \cup {NULL} /\ popped' \in Seq(Node)
    BY <1>0, <1>1 DEF IInv, BaseInv
  <2>2. freed' = {popped'[k] : k \in 1 .. Len(popped')}
    BY <1>0, <1>3 DEF IInv, BaseInv
  <2>3. Depth' \in Nat
    BY <1>1, <1>4
  <2> QED
    BY <1>0, <2>1, <2>2, <2>3 DEF IInv, BaseInv
<1>10. ControlInv'
  BY <1>0 DEF IInv, ControlInv, Joined
<1> HIDE DEF c
<1>11. ListInv'
  <2>1. ListIntact'
    <3>1. {c[k] : k \in 1 .. Depth - 1} = Pushed \ freed'
      <4>1. {Chain[k] : k \in 1 .. Depth} = Pushed \ freed
        BY DEF IInv, ListInv, ListIntact
      <4>2. ASSUME NEW k \in 1 .. Depth - 1 PROVE c[k] \in Pushed \ freed'
        <5>1. k + 1 \in 1 .. Depth /\ 1 \in 1 .. Depth /\ k + 1 # 1 /\ c[k] = Chain[k + 1]
          BY <1>1, <1>7
        <5>2. Chain[k + 1] # Chain[1]
          BY <5>1, ListFacts
        <5> QED
          BY <1>0, <1>1, <4>1, <5>1, <5>2
      <4>3. ASSUME NEW x \in Pushed \ freed' PROVE \E k \in 1 .. Depth - 1 : c[k] = x
        <5>1. PICK k \in 1 .. Depth : Chain[k] = x
          BY <1>0, <4>1
        <5>2. k # 1
          BY <1>0, <1>1, <5>1
        <5>3. k - 1 \in 1 .. Depth - 1 /\ (k - 1) + 1 = k
          BY <1>1, <5>2
        <5> QED
          BY <1>7, <5>1, <5>3
      <4> QED
        BY <4>2, <4>3
    <3>2. Depth - 1 = 0 => stack_top' = NULL
      BY <1>0, <1>1 DEF IInv, ListInv, ListIntact
    <3>3. Depth - 1 > 0 => next[c[Depth - 1]] = NULL
      <4>1. Depth - 1 > 0 => Depth - 1 \in 1 .. Depth - 1 /\ (Depth - 1) + 1 = Depth
        BY <1>1
      <4>2. Depth - 1 > 0 => c[Depth - 1] = Chain[Depth]
        BY <1>7, <4>1
      <4> QED
        BY <1>1, <4>2 DEF IInv, ListInv, ListIntact
    <3> QED
      BY <1>0, <1>2, <1>4, <1>6, <3>1, <3>2, <3>3 DEF ListIntact
  <2>2. ASSUME NEW j \in 1 .. Depth - 1, NEW k \in 1 .. Depth - 1, j < k, c[j][1] = c[k][1]
        PROVE  c[j][2] > c[k][2]
    <3>1. j + 1 < k + 1
      BY <2>2
    <3> QED
      BY <1>7, <2>2, <3>1 DEF IInv, ListInv
  <2>3. ASSUME NEW j \in 1 .. Len(popped'), NEW k \in 1 .. Depth - 1, popped'[j][1] = c[k][1]
        PROVE  popped'[j][2] > c[k][2]
    <3>1. CASE j \in 1 .. Len(popped)
      BY <1>3, <1>7, <2>3, <3>1 DEF IInv, ListInv
    <3>2. CASE j = Len(popped) + 1
      <4>1. popped'[j] = Chain[1] /\ 1 \in 1 .. Depth /\ k + 1 \in 1 .. Depth /\ 1 < k + 1 /\ c[k] = Chain[k + 1]
        BY <1>1, <1>3, <1>7, <3>2
      <4> QED
        BY <2>3, <4>1 DEF IInv, ListInv
    <3> QED
      BY <1>3, <3>1, <3>2
  <2> QED
    BY <1>0, <1>4, <1>5, <1>6, <1>7, <2>1, <2>2, <2>3 DEF ListInv
<1>12. EachThreadReversed'
  <2> SUFFICES ASSUME NEW j \in 1 .. Len(popped'), NEW k \in 1 .. Len(popped'), j < k,
                      popped'[j][1] = popped'[k][1]
               PROVE  popped'[j][2] > popped'[k][2]
    BY DEF EachThreadReversed
  <2>1. CASE k \in 1 .. Len(popped)
    <3>1. j \in 1 .. Len(popped)
      BY <1>3, <2>1
    <3> QED
      BY <1>3, <2>1, <3>1 DEF IInv, EachThreadReversed
  <2>2. CASE k = Len(popped) + 1
    <3>1. j \in 1 .. Len(popped) /\ popped'[k] = Chain[1] /\ 1 \in 1 .. Depth
      BY <1>1, <1>3, <2>2
    <3> QED
      BY <1>3, <3>1 DEF IInv, ListInv
  <2> QED
    BY <1>3, <2>1, <2>2
<1> QED
  BY <1>2, <1>6, <1>8, <1>9, <1>10, <1>11, <1>12 DEF IInv

\* Every other step leaves the list as it is.
LEMMA OtherInv ==
    ASSUME IInv, [Next]_vars, \A t \in Pushers : ~PushLoad(t) /\ ~PushCas(t), ~PopCas
    PROVE  IInv' /\ UNCHANGED <<Chain, Pushed>>
<1>1. UNCHANGED <<stack_top, next, i, popped, freed>>
  BY DEF Next, Push, PopAll, PushRetry, MainJoin, PopLoad, PopRetry, Finished, vars, pushVars, mainVars
<1>2. ListInv' /\ EachThreadReversed' /\ UNCHANGED <<Depth, Pushed, Chain>>
  BY <1>1, SameList DEF IInv
<1>3. BaseInv'
  <2>1. pc' \in [Pushers -> {"load", "cas", "exit"}] /\ old' \in [Pushers -> Node \cup {NULL}]
    BY DEF IInv, BaseInv, Next, Push, PopAll, PushRetry, RetryAt, MainJoin, PopLoad, PopRetry, Finished,
       vars, pushVars
  <2>2. mpc' \in {"join", "pop", "cas", "printed"} /\ mold' \in Node \cup {NULL}
    BY DEF IInv, BaseInv, Next, Push, PopAll, PushRetry, RetryAt, MainJoin, PopLoad, PopRetry, Finished,
       vars, mainVars
  <2> QED
    BY <1>1, <1>2, <2>1, <2>2 DEF IInv, BaseInv
<1>4. ControlInv'
  BY <1>1 DEF IInv, BaseInv, ControlInv, Joined, Next, Push, PopAll, PushRetry, RetryAt, MainJoin, PopLoad, PopRetry,
     Finished, vars, pushVars, mainVars
<1> QED
  BY <1>2, <1>3, <1>4 DEF IInv

-----------------------------------------------------------------------------
\* Every reachable state satisfies the invariant.
THEOREM Invariance == Spec => []IInv
<1>1. IInv /\ [Next]_vars => IInv'
  BY PushLoadInv, PushCasInv, PopCasInv, OtherInv
<1> QED
  BY <1>1, InitInv, PTL DEF Spec

\* No interleaving of pushes loses a node, links one twice or leaves a link to
\* freed memory.
THEOREM ListStaysIntact == Spec => []ListIntact
<1>1. IInv => ListIntact
  BY DEF IInv, ListInv
<1> QED
  BY <1>1, Invariance, PTL

\* main() pops each thread's items last pushed first.
THEOREM ReversedPerThread == Spec => []EachThreadReversed
<1>1. IInv => EachThreadReversed
  BY DEF IInv
<1> QED
  BY <1>1, Invariance, PTL

\* The linked list with its two compare-and-swap loops implements an atomic
\* stack: every step is a push, a pop or nothing.
THEOREM Linearizable == Spec => ImplementsStack
<1>1. Init => Stack!Init
  <2> SUFFICES ASSUME Init PROVE Stack!Init
    OBVIOUS
  <2>1. Pushed = {}
    BY StackAssumption DEF Init, Pushed, Node
  <2>2. Depth = 0
    BY <2>1, FS_EmptySet DEF Depth, Init
  <2>3. Chain = <<>>
    BY <2>2, InitInv DEF IInv, ListInv
  <2> QED
    BY <2>1, <2>3 DEF Stack!Init
<1>2. IInv /\ [Next]_vars => [Stack!Next]_(Stack!vars)
  <2> SUFFICES ASSUME IInv, [Next]_vars PROVE [Stack!Next]_(Stack!vars)
    OBVIOUS
  <2>1. ASSUME NEW t \in Pushers, PushLoad(t) PROVE UNCHANGED (Stack!vars)
    BY <2>1, PushLoadInv DEF Stack!vars
  <2>2. ASSUME NEW t \in Pushers, PushCas(t) PROVE Stack!Next
    <3>1. Stack!Push(<<t, i[t]>>) /\ <<t, i[t]>> \in Node
      BY <2>2, PushCasInv DEF Stack!Push
    <3> QED
      BY <3>1 DEF Stack!Next
  <2>3. CASE PopCas
    BY <2>3, PopCasInv DEF Stack!Next, Stack!Pop
  <2>4. CASE (\A t \in Pushers : ~PushLoad(t) /\ ~PushCas(t)) /\ ~PopCas
    BY <2>4, OtherInv DEF Stack!vars
  <2> QED
    BY <2>1, <2>2, <2>3, <2>4
<1> QED
  BY <1>1, <1>2, Invariance, PTL DEF Spec, ImplementsStack, Stack!Spec
=============================================================================
