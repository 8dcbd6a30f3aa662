------------------------ MODULE SemaphoreBufferProofs ------------------------
(***************************************************************************)
(* Proofs about the bounded buffer of labs/lab_23_mpmc_semaphore.c, for    *)
(* every ring size, number of rounds, and number of producers and          *)
(* consumers.                                                              *)
(***************************************************************************)
EXTENDS SemaphoreBuffer, FiniteSetTheorems, TLAPS

\* Position x of the ring, counted from slot 0 and at most once around.
Wrap(x) == IF x < BUFSIZE THEN x ELSE x - BUFSIZE

Critical == {"number", "store", "load", "count", "unlock"}

\* Where a thread has its permit and has not yet, or has already, used it.
PreStore == {"lock", "number", "store"}
PreLoad == {"lock", "load"}
PostStore == {"unlock", "sem_post"}
PostLoad == {"count", "unlock", "sem_post"}
InHand == {"lock", "number", "store", "load", "count", "unlock", "sem_post"}

\* The rounds of S that have come as far as the statements in labels.
Done(S, labels) ==
    {w \in S \X (0 .. Rounds - 1) :
        w[2] < i[w[1]] \/ (w[2] = i[w[1]] /\ pc[w[1]] \in labels)}

\* How many items have been got, and how many are in the ring.
Taken == Len(got)
InRing == Made - Taken

\* The types, without the bounds of the totals that follow from the counts.
BaseInv ==
    /\ buffer \in [Slots -> 0 .. NItems]
    /\ in_i \in Slots /\ out_i \in Slots
    /\ total_produced \in Nat /\ total_consumed \in Nat
    /\ sem \in [{"empty_slots", "full_slots"} -> Nat]
    /\ buf_mtx \in SUBSET Threads
    /\ pc \in [Threads -> {"sem_wait", "lock", "number", "store", "load",
                           "count", "unlock", "sem_post", "exit"}]
    /\ i \in [Threads -> 0 .. Rounds]
    /\ val \in [Producers -> 0 .. NItems]
    /\ got \in Seq(0 .. NItems)

\* The statements of producers and consumers, and their for loops.
ControlInv ==
    /\ \A p \in Producers : pc[p] \notin {"load", "count"}
    /\ \A c \in Consumers : pc[c] \notin {"number", "store"}
    /\ \A t \in Threads : pc[t] = "exit" <=> i[t] = Rounds

\* The mutex is held by exactly the thread in its critical section.
MutexInv ==
    /\ buf_mtx = At(Threads, Critical)
    /\ \A t, u \in Threads : pc[t] \in Critical /\ pc[u] \in Critical => t = u

\* The shared totals count the rounds that have reached their statement.
TotalsInv ==
    /\ total_produced = Cardinality(Done(Producers, {"store"} \cup PostStore))
    /\ total_consumed = Cardinality(Done(Consumers, PostStore))
    /\ Taken = Cardinality(Done(Consumers, PostLoad))

\* The semaphores are behind the ring by what the threads have in hand.
SemInv ==
    /\ sem["empty_slots"] + Cardinality(At(Producers, PreStore))
          + Cardinality(At(Consumers, PostLoad)) = BUFSIZE - InRing
    /\ sem["full_slots"] + Cardinality(At(Producers, PostStore))
          + Cardinality(At(Consumers, PreLoad)) = InRing
    /\ sem["empty_slots"] + sem["full_slots"] + Cardinality(At(Threads, InHand)) = BUFSIZE

\* The ring holds the items made and not yet got, oldest at out_i.
RingInv ==
    /\ \A p \in Producers : pc[p] = "store" => val[p] = Made
    /\ in_i = Wrap(out_i + InRing)
    /\ \A k \in 0 .. BUFSIZE - 1 :
           k < InRing => buffer[Wrap(out_i + k)] = Taken + k
    /\ \A k \in 1 .. Taken : got[k] = k - 1

\* The inductive invariant.
IInv == BaseInv /\ ControlInv /\ MutexInv /\ TotalsInv /\ SemInv /\ RingInv

-----------------------------------------------------------------------------
\* Advancing an index of the ring by one slot.
LEMMA NextSlot ==
    ASSUME NEW x \in Slots
    PROVE  (x + 1) % BUFSIZE = Wrap(x + 1) /\ Wrap(x + 1) \in Slots
BY SemaphoreAssumption DEF Slots, Wrap

\* Sets of threads are finite, and so have a cardinality.
LEMMA AtFinite ==
    ASSUME NEW S \in SUBSET Threads, NEW L
    PROVE  IsFiniteSet(At(S, L)) /\ Cardinality(At(S, L)) \in Nat
<1>1. IsFiniteSet(Threads)
  BY SemaphoreAssumption, FS_Union DEF Threads
<1>2. At(S, L) \subseteq Threads
  BY DEF At
<1> QED
  BY <1>1, <1>2, FS_Subset, FS_CardinalityType

\* A thread at one of the statements L is counted.
LEMMA AtPositive ==
    ASSUME NEW S \in SUBSET Threads, NEW L, NEW t \in S, pc[t] \in L
    PROVE  Cardinality(At(S, L)) > 0
<1>1. At(S, L) # {}
  BY DEF At
<1> QED
  BY <1>1, AtFinite, FS_EmptySet

\* How many threads of S are at the statements L after t has moved to b.
AtAfter(S, L, t, b) ==
    IF t \in S /\ pc[t] \notin L /\ b \in L THEN Cardinality(At(S, L)) + 1
    ELSE IF t \in S /\ pc[t] \in L /\ b \notin L THEN Cardinality(At(S, L)) - 1
    ELSE Cardinality(At(S, L))

\* One thread moves from one statement to another.
LEMMA AtStep ==
    ASSUME BaseInv, NEW t \in Threads, NEW b, pc' = [pc EXCEPT ![t] = b],
           NEW S \in SUBSET Threads, NEW L
    PROVE  Cardinality(At(S, L))' = AtAfter(S, L, t, b)
<1>0. \A u \in S : pc'[u] = IF u = t THEN b ELSE pc[u]
  BY DEF BaseInv
<1>1. CASE t \in S /\ pc[t] \notin L /\ b \in L
  <2>1. At(S, L)' = At(S, L) \cup {t} /\ t \notin At(S, L)
    BY <1>0, <1>1 DEF At
  <2> QED
    BY <1>1, <2>1, AtFinite, FS_AddElement DEF AtAfter
<1>2. CASE t \in S /\ pc[t] \in L /\ b \notin L
  <2>1. At(S, L)' = At(S, L) \ {t} /\ t \in At(S, L)
    BY <1>0, <1>2 DEF At
  <2> QED
    <3>1. IsFiniteSet(At(S, L)) /\ Cardinality(At(S, L)) \in Nat
      BY AtFinite
    <3>2. Cardinality(At(S, L) \ {t}) = Cardinality(At(S, L)) - 1
      BY <2>1, <3>1, FS_RemoveElement
    <3> QED
      BY <1>2, <2>1, <3>2 DEF AtAfter
<1>3. CASE ~(t \in S /\ pc[t] \notin L /\ b \in L) /\ ~(t \in S /\ pc[t] \in L /\ b \notin L)
  <2>1. At(S, L)' = At(S, L)
    BY <1>0, <1>3 DEF At
  <2> QED
    BY <1>3, <2>1 DEF AtAfter
<1> QED
  BY <1>1, <1>2, <1>3

\* All rounds of the producers are NItems, and so are those of the consumers.
LEMMA DoneFinite ==
    ASSUME NEW S \in {Producers, Consumers}, NEW L
    PROVE  /\ IsFiniteSet(Done(S, L))
           /\ Cardinality(Done(S, L)) \in Nat
           /\ NItems \in Nat
           /\ Cardinality(Done(S, L)) <= NItems
           /\ Cardinality(S \X (0 .. Rounds - 1)) = NItems
<1> DEFINE All == S \X (0 .. Rounds - 1)
<1>1. IsFiniteSet(0 .. Rounds - 1) /\ Cardinality(0 .. Rounds - 1) = Rounds
  BY SemaphoreAssumption, FS_Interval
<1>2. IsFiniteSet(S) /\ Cardinality(S) = Cardinality(Producers)
  BY SemaphoreAssumption
<1>3. IsFiniteSet(All) /\ Cardinality(All) = Cardinality(S) * Rounds
  <2>1. ASSUME NEW R, IsFiniteSet(R)
        PROVE  IsFiniteSet(S \X R) /\ Cardinality(S \X R) = Cardinality(S) * Cardinality(R)
    BY <1>2, <2>1, FS_Product
  <2> QED
    BY <1>1, <2>1
<1>4. Cardinality(S) \in Nat
  BY <1>2, FS_CardinalityType
<1>5. Done(S, L) \in SUBSET All
  BY DEF Done
<1>6. IsFiniteSet(Done(S, L)) /\ Cardinality(Done(S, L)) <= Cardinality(All)
  BY <1>3, <1>5, FS_Subset
<1>7. Cardinality(Done(S, L)) \in Nat
  BY <1>6, FS_CardinalityType
<1>8. NItems = Cardinality(S) * Rounds /\ NItems \in Nat
  BY <1>2, <1>4, SemaphoreAssumption DEF NItems
<1> QED
  BY <1>3, <1>6, <1>7, <1>8

\* How many rounds are done when t moves to b in its loop body.
DoneAfter(S, L, t, b) ==
    IF t \in S /\ pc[t] \notin L /\ b \in L THEN Cardinality(Done(S, L)) + 1
    ELSE Cardinality(Done(S, L))

\* A statement inside the loop body adds its round at most once.
LEMMA DoneStep ==
    ASSUME BaseInv, NEW t \in Threads, i[t] < Rounds, NEW b, pc' = [pc EXCEPT ![t] = b], i' = i,
           NEW S \in {Producers, Consumers}, NEW L, pc[t] \notin L \/ b \in L
    PROVE  Cardinality(Done(S, L))' = DoneAfter(S, L, t, b)
<1> DEFINE w == <<t, i[t]>>
<1>0. i[t] \in 0 .. Rounds - 1 /\ S \subseteq Threads
  BY SemaphoreAssumption DEF BaseInv, Threads
<1>1. ASSUME NEW x \in S \X (0 .. Rounds - 1)
      PROVE  x \in Done(S, L)' <=> x \in Done(S, L) \/ (x = w /\ b \in L)
  <2>1. x[1] \in S /\ x[1] \in Threads /\ x[2] \in 0 .. Rounds - 1 /\ x = <<x[1], x[2]>>
    BY <1>0, <1>1
  <2>2. CASE x[1] = t
    <3>1. pc'[x[1]] = b /\ i'[x[1]] = i[t]
      BY <2>1, <2>2 DEF BaseInv
    <3> QED
      BY <1>0, <1>1, <2>1, <2>2, <3>1 DEF Done
  <2>3. CASE x[1] # t
    <3>1. pc'[x[1]] = pc[x[1]] /\ i'[x[1]] = i[x[1]]
      BY <2>1, <2>3 DEF BaseInv
    <3> QED
      BY <1>1, <2>1, <2>3, <3>1 DEF Done
  <2> QED
    BY <2>2, <2>3
<1>2. Done(S, L)' \subseteq S \X (0 .. Rounds - 1) /\ Done(S, L) \subseteq S \X (0 .. Rounds - 1)
  BY DEF Done
<1>3. CASE t \in S /\ pc[t] \notin L /\ b \in L
  <2>1. w \notin Done(S, L) /\ w \in S \X (0 .. Rounds - 1)
    BY <1>0, <1>3 DEF Done
  <2>2. Done(S, L)' = Done(S, L) \cup {w}
    BY <1>1, <1>2, <1>3, <2>1
  <2> QED
    BY <1>3, <2>1, <2>2, DoneFinite, FS_AddElement DEF DoneAfter
<1>4. CASE ~(t \in S /\ pc[t] \notin L /\ b \in L)
  <2>1. t \in S /\ b \in L => w \in Done(S, L)
    BY <1>0, <1>4 DEF Done
  <2>2. w \in S \X (0 .. Rounds - 1) => t \in S
    OBVIOUS
  <2>3. Done(S, L)' = Done(S, L)
    BY <1>1, <1>2, <2>1, <2>2
  <2> QED
    BY <1>4, <2>3 DEF DoneAfter
<1> QED
  BY <1>3, <1>4

\* The end of the loop body: what was done in this round stays done.
LEMMA DoneLoop ==
    ASSUME BaseInv, NEW t \in Threads, NEW b, pc' = [pc EXCEPT ![t] = b],
           i' = [i EXCEPT ![t] = @ + 1],
           NEW S \in {Producers, Consumers}, NEW L, pc[t] \in L, b \notin L
    PROVE  Done(S, L)' = Done(S, L)
<1>1. S \subseteq Threads
  BY DEF Threads
<1>2. ASSUME NEW x \in S \X (0 .. Rounds - 1)
      PROVE  x \in Done(S, L)' <=> x \in Done(S, L)
  <2>1. x[1] \in Threads /\ x[2] \in 0 .. Rounds - 1
    BY <1>1, <1>2
  <2>2. (x[2] < i'[x[1]] \/ (x[2] = i'[x[1]] /\ pc'[x[1]] \in L))
        <=> (x[2] < i[x[1]] \/ (x[2] = i[x[1]] /\ pc[x[1]] \in L))
    BY <2>1, SemaphoreAssumption DEF BaseInv
  <2> QED
    BY <1>2, <2>2 DEF Done
<1> QED
  BY <1>2 DEF Done

\* The threads start with an empty ring and all slots free.
LEMMA InitInv == Init => IInv
<1> SUFFICES ASSUME Init PROVE IInv
  OBVIOUS
<1> USE SemaphoreAssumption DEF Init
<1>0. NItems \in Nat
  BY DoneFinite
<1>1. BaseInv
  BY <1>0 DEF BaseInv, SemInit, Slots, Threads
<1>2. ControlInv
  BY DEF ControlInv, Threads
<1>3. MutexInv
  BY DEF MutexInv, At, Critical, Threads
<1>6. Cardinality({}) = 0
  BY FS_EmptySet
<1>4. ASSUME NEW L, "sem_wait" \notin L
      PROVE  /\ Cardinality(At(Producers, L)) = 0 /\ Cardinality(At(Consumers, L)) = 0
             /\ Cardinality(At(Threads, L)) = 0
             /\ Cardinality(Done(Producers, L)) = 0 /\ Cardinality(Done(Consumers, L)) = 0
  <2>1. At(Producers, L) = {} /\ At(Consumers, L) = {} /\ At(Threads, L) = {}
    BY <1>4 DEF At, Threads
  <2>2. Done(Producers, L) = {} /\ Done(Consumers, L) = {}
    BY <1>4 DEF Done, Threads
  <2> QED
    BY <1>6, <2>1, <2>2
<1>8. Made = 0 /\ Taken = 0
  <2>1. Cardinality(At(Producers, {"store"})) = 0
    BY <1>4
  <2> QED
    BY <2>1 DEF Made, Taken
<1>7. TotalsInv
  BY <1>4, <1>8 DEF TotalsInv, PostStore, PostLoad
<1>5. InRing = 0
  BY <1>8 DEF InRing
<1>9. SemInv
  <2>1. /\ Cardinality(At(Producers, PreStore)) = 0 /\ Cardinality(At(Consumers, PostLoad)) = 0
        /\ Cardinality(At(Producers, PostStore)) = 0 /\ Cardinality(At(Consumers, PreLoad)) = 0
        /\ Cardinality(At(Threads, InHand)) = 0
    BY <1>4 DEF PreStore, PostStore, PreLoad, PostLoad, InHand
  <2>2. sem["empty_slots"] = BUFSIZE /\ sem["full_slots"] = 0
    BY DEF SemInit
  <2> HIDE DEF Init
  <2> QED
    BY <1>5, <2>1, <2>2 DEF SemInv
<1>10. RingInv
  <2>1. in_i = 0 /\ out_i = 0 /\ \A p \in Producers : pc[p] = "sem_wait"
    BY DEF Threads
  <2> HIDE DEF Init
  <2> QED
    BY <1>8, <1>5, <2>1 DEF RingInv, Wrap
<1> QED
  BY <1>1, <1>2, <1>3, <1>7, <1>9, <1>10 DEF IInv

\* What the invariant says of the sizes.
LEMMA IInvBounds ==
    ASSUME IInv
    PROVE  /\ NItems \in Nat /\ total_produced \in 0 .. NItems
           /\ total_consumed \in 0 .. NItems /\ Taken \in 0 .. NItems
           /\ sem \in [{"empty_slots", "full_slots"} -> 0 .. BUFSIZE]
           /\ Made \in 0 .. NItems /\ InRing \in 0 .. BUFSIZE /\ Made = Taken + InRing
<1>1. NItems \in Nat
  BY DoneFinite
<1>2. total_produced \in 0 .. NItems /\ total_consumed \in 0 .. NItems /\ Taken \in 0 .. NItems
  BY DoneFinite DEF IInv, TotalsInv
<1>3. Producers \in SUBSET Threads /\ Consumers \in SUBSET Threads
  BY DEF Threads
<1>4. /\ Cardinality(At(Producers, PreStore)) \in Nat /\ Cardinality(At(Producers, PostStore)) \in Nat
      /\ Cardinality(At(Consumers, PreLoad)) \in Nat /\ Cardinality(At(Consumers, PostLoad)) \in Nat
      /\ Cardinality(At(Threads, InHand)) \in Nat /\ Cardinality(At(Producers, {"store"})) \in Nat
  BY <1>3, AtFinite
<1>5. sem["empty_slots"] \in Nat /\ sem["full_slots"] \in Nat
  BY DEF IInv, BaseInv
<1>6. Made \in Int /\ Made <= NItems
  BY <1>1, <1>2, <1>4 DEF Made
<1>7. InRing \in Int /\ Made = Taken + InRing
  BY <1>2, <1>6 DEF InRing
<1>8. InRing \in 0 .. BUFSIZE
  BY <1>4, <1>5, <1>7, SemaphoreAssumption DEF IInv, SemInv
<1>9. sem["empty_slots"] \in 0 .. BUFSIZE /\ sem["full_slots"] \in 0 .. BUFSIZE
  BY <1>4, <1>5, SemaphoreAssumption DEF IInv, SemInv
<1> QED
  BY <1>1, <1>2, <1>6, <1>7, <1>8, <1>9 DEF IInv, BaseInv

\* Every statement of every thread preserves the invariant.
LEMMA NextInv == IInv /\ [Next]_vars => IInv'
<1> SUFFICES ASSUME IInv, [Next]_vars PROVE IInv'
  OBVIOUS
<1> USE SemaphoreAssumption DEF IInv, ring, totals
<1>0. /\ Producers \in SUBSET Threads /\ Consumers \in SUBSET Threads /\ Threads \in SUBSET Threads
      /\ \A t \in Threads : t \in Consumers <=> t \notin Producers
  BY DEF Threads
<1>a. /\ Cardinality(At(Producers, PreStore)) \in Nat /\ Cardinality(At(Producers, PostStore)) \in Nat
      /\ Cardinality(At(Consumers, PreLoad)) \in Nat /\ Cardinality(At(Consumers, PostLoad)) \in Nat
      /\ Cardinality(At(Threads, InHand)) \in Nat /\ Cardinality(At(Producers, {"store"})) \in Nat
  BY <1>0, AtFinite
<1>b. /\ NItems \in Nat /\ total_produced \in 0 .. NItems /\ Taken \in Nat
      /\ Made \in 0 .. NItems /\ InRing \in 0 .. BUFSIZE /\ Made = Taken + InRing
  BY IInvBounds
<1>1. ASSUME NEW t \in Threads, SemWait(t) PROVE IInv'
  <2>0. /\ pc[t] = "sem_wait" /\ pc' = [pc EXCEPT ![t] = "lock"] /\ i[t] < Rounds
        /\ sem[Awaits(t)] > 0 /\ sem' = [sem EXCEPT ![Awaits(t)] = @ - 1]
        /\ UNCHANGED <<buffer, in_i, out_i, total_produced, total_consumed, buf_mtx, i, val, got>>
    BY <1>1 DEF SemWait, Step, Admitted, ControlInv, BaseInv
  <2>1. BaseInv'
    BY <2>0 DEF BaseInv, Awaits
  <2>2. ControlInv'
    BY <2>0 DEF BaseInv, ControlInv
  <2>3. MutexInv'
    BY <2>0 DEF BaseInv, MutexInv, At, Critical
  <2>a. ASSUME NEW S \in SUBSET Threads, NEW L
        PROVE  Cardinality(At(S, L))' = AtAfter(S, L, t, "lock")
    BY <2>0, AtStep
  <2>b. ASSUME NEW S \in {Producers, Consumers}, NEW L, "sem_wait" \notin L
        PROVE  Cardinality(Done(S, L))' = DoneAfter(S, L, t, "lock")
    <3>1. BaseInv /\ i[t] < Rounds /\ pc' = [pc EXCEPT ![t] = "lock"] /\ i' = i /\ pc[t] \notin L
      BY <2>0, <2>b
    <3> HIDE SemaphoreAssumption DEF IInv, ring, totals
    <3> QED
      BY <3>1, DoneStep
  <2>4. TotalsInv'
    BY <2>0, <2>b DEF TotalsInv, PostStore, PostLoad, DoneAfter, Taken
  <2>6. UNCHANGED <<Made, Taken, InRing>>
    <3>1. Cardinality(At(Producers, {"store"}))' = Cardinality(At(Producers, {"store"}))
      BY <1>0, <2>0, <2>a DEF AtAfter
    <3> QED
      BY <2>0, <3>1 DEF Made, Taken, InRing
  <2>7. SemInv'
    <3>1. /\ Cardinality(At(Threads, InHand)) \in Nat
          /\ Cardinality(At(Threads, InHand))' = Cardinality(At(Threads, InHand)) + 1
      BY <1>0, <2>0, <2>a, AtFinite DEF AtAfter, InHand
    <3>2. /\ Cardinality(At(Producers, PostStore))' = Cardinality(At(Producers, PostStore))
          /\ Cardinality(At(Consumers, PostLoad))' = Cardinality(At(Consumers, PostLoad))
      BY <1>0, <2>0, <2>a DEF AtAfter, PostStore, PostLoad
    <3>3. CASE t \in Producers
      <4>1. /\ Cardinality(At(Producers, PreStore))' = Cardinality(At(Producers, PreStore)) + 1
            /\ Cardinality(At(Consumers, PreLoad))' = Cardinality(At(Consumers, PreLoad))
        BY <1>0, <2>0, <2>a, <3>3 DEF AtAfter, PreStore, PreLoad
      <4>2. /\ sem'["empty_slots"] = sem["empty_slots"] - 1 /\ sem["empty_slots"] \in Nat
            /\ sem'["full_slots"] = sem["full_slots"] /\ sem["full_slots"] \in Nat
        BY <2>0, <3>3 DEF BaseInv, Awaits
      <4> QED
        BY <1>a, <1>b, <2>6, <3>1, <3>2, <4>1, <4>2 DEF SemInv
    <3>4. CASE t \in Consumers
      <4>1. /\ Cardinality(At(Producers, PreStore))' = Cardinality(At(Producers, PreStore))
            /\ Cardinality(At(Consumers, PreLoad))' = Cardinality(At(Consumers, PreLoad)) + 1
        BY <1>0, <2>0, <2>a, <3>4 DEF AtAfter, PreStore, PreLoad
      <4>2. /\ sem'["full_slots"] = sem["full_slots"] - 1 /\ sem["full_slots"] \in Nat
            /\ sem'["empty_slots"] = sem["empty_slots"] /\ sem["empty_slots"] \in Nat
        BY <1>0, <2>0, <3>4 DEF BaseInv, Awaits
      <4> QED
        BY <1>a, <1>b, <2>6, <3>1, <3>2, <4>1, <4>2 DEF SemInv
    <3> QED
      BY <1>0, <3>3, <3>4
  <2>8. RingInv'
    BY <2>0, <2>6 DEF RingInv, BaseInv
  <2> QED
    BY <2>1, <2>2, <2>3, <2>4, <2>7, <2>8
<1>2. ASSUME NEW t \in Threads, Lock(t) PROVE IInv'
  <2> DEFINE b == IF t \in Producers THEN "number" ELSE "load"
  <2>0. /\ pc[t] = "lock" /\ pc' = [pc EXCEPT ![t] = b] /\ i[t] < Rounds /\ b \in Critical
        /\ buf_mtx = {} /\ buf_mtx' = buf_mtx \cup {t}
        /\ UNCHANGED <<buffer, in_i, out_i, total_produced, total_consumed, sem, i, val, got>>
    BY <1>2 DEF Lock, Step, MutexFree, ControlInv, BaseInv, Critical
  <2>1. BaseInv' /\ ControlInv'
    BY <1>0, <2>0 DEF BaseInv, ControlInv
  <2>3. MutexInv'
    BY <2>0 DEF BaseInv, MutexInv, At, Critical
  <2>a. ASSUME NEW S \in SUBSET Threads, NEW L, t \in S => ("lock" \in L <=> b \in L)
        PROVE  Cardinality(At(S, L))' = Cardinality(At(S, L))
    <3>1. Cardinality(At(S, L))' = AtAfter(S, L, t, b)
      BY <2>0, AtStep
    <3> QED
      BY <2>0, <2>a, <3>1 DEF AtAfter
  <2>b. ASSUME NEW S \in {Producers, Consumers}, NEW L, "lock" \notin L, b \notin L
        PROVE  Cardinality(Done(S, L))' = Cardinality(Done(S, L))
    <3>1. Cardinality(Done(S, L))' = DoneAfter(S, L, t, b)
      BY <2>0, <2>b, DoneStep, ZenonT(30)
    <3> QED
      BY <2>0, <2>b, <3>1 DEF DoneAfter
  <2>4. TotalsInv'
    BY <2>0, <2>b DEF TotalsInv, PostStore, PostLoad, Taken
  <2>6. UNCHANGED <<Made, Taken, InRing>>
    <3>1. Cardinality(At(Producers, {"store"}))' = Cardinality(At(Producers, {"store"}))
      BY <1>0, <2>a
    <3> QED
      BY <2>0, <3>1 DEF Made, Taken, InRing
  <2>7. SemInv'
    <3>1. /\ Cardinality(At(Producers, PreStore))' = Cardinality(At(Producers, PreStore))
          /\ Cardinality(At(Consumers, PreLoad))' = Cardinality(At(Consumers, PreLoad))
      BY <1>0, <2>a DEF PreStore, PreLoad
    <3>2. /\ Cardinality(At(Producers, PostStore))' = Cardinality(At(Producers, PostStore))
          /\ Cardinality(At(Consumers, PostLoad))' = Cardinality(At(Consumers, PostLoad))
          /\ Cardinality(At(Threads, InHand))' = Cardinality(At(Threads, InHand))
      BY <1>0, <2>a DEF PostStore, PostLoad, InHand
    <3> QED
      BY <2>0, <2>6, <3>1, <3>2 DEF SemInv
  <2>8. RingInv'
    BY <2>0, <2>6 DEF RingInv, BaseInv
  <2> QED
    BY <2>1, <2>3, <2>4, <2>7, <2>8
<1>3. ASSUME NEW p \in Producers, ProduceNumber(p) PROVE IInv'
  <2>0. /\ pc[p] = "number" /\ pc' = [pc EXCEPT ![p] = "store"] /\ p \in Threads /\ i[p] < Rounds
        /\ val' = [val EXCEPT ![p] = total_produced] /\ total_produced' = total_produced + 1
        /\ UNCHANGED <<buffer, in_i, out_i, total_consumed, sem, buf_mtx, i, got>>
    BY <1>0, <1>3 DEF ProduceNumber, Step, ControlInv, BaseInv
  <2>1. BaseInv'
    BY <1>b, <2>0 DEF BaseInv
  <2>2. ControlInv'
    BY <1>0, <2>0 DEF BaseInv, ControlInv
  <2>3. MutexInv'
    BY <2>0 DEF BaseInv, MutexInv, At, Critical
  <2>a. ASSUME NEW S \in SUBSET Threads, NEW L
        PROVE  Cardinality(At(S, L))' = AtAfter(S, L, p, "store")
    BY <1>0, <2>0, AtStep, ZenonT(30)
  <2>b. ASSUME NEW S \in {Producers, Consumers}, NEW L, "number" \notin L \/ "store" \in L
        PROVE  Cardinality(Done(S, L))' = DoneAfter(S, L, p, "store")
    BY <1>0, <2>0, <2>b, DoneStep, ZenonT(30)
  <2>4. TotalsInv'
    <3>1. Cardinality(Done(Producers, {"store"} \cup PostStore))'
             = Cardinality(Done(Producers, {"store"} \cup PostStore)) + 1
      BY <2>0, <2>b DEF PostStore, DoneAfter
    <3>2. /\ Cardinality(Done(Consumers, PostStore))' = Cardinality(Done(Consumers, PostStore))
          /\ Cardinality(Done(Consumers, PostLoad))' = Cardinality(Done(Consumers, PostLoad))
      BY <1>0, <2>0, <2>b DEF PostStore, PostLoad, DoneAfter
    <3> QED
      BY <2>0, <3>1, <3>2 DEF TotalsInv, Taken
  <2>5. Cardinality(At(Producers, {"store"}))' = Cardinality(At(Producers, {"store"})) + 1
    BY <1>0, <2>0, <2>a DEF AtAfter
  <2>6. UNCHANGED <<Made, Taken, InRing>>
    <3>1. Made' = Made
      BY <1>a, <1>b, <2>0, <2>5 DEF Made
    <3> QED
      BY <2>0, <3>1 DEF Taken, InRing
  <2>7. SemInv'
    <3>1. /\ Cardinality(At(Producers, PreStore))' = Cardinality(At(Producers, PreStore))
          /\ Cardinality(At(Producers, PostStore))' = Cardinality(At(Producers, PostStore))
          /\ Cardinality(At(Threads, InHand))' = Cardinality(At(Threads, InHand))
      BY <1>0, <2>0, <2>a DEF AtAfter, PreStore, PostStore, InHand
    <3>2. /\ Cardinality(At(Consumers, PreLoad))' = Cardinality(At(Consumers, PreLoad))
          /\ Cardinality(At(Consumers, PostLoad))' = Cardinality(At(Consumers, PostLoad))
      BY <1>0, <2>0, <2>a DEF AtAfter
    <3> QED
      BY <2>0, <2>6, <3>1, <3>2 DEF SemInv
  <2>8. RingInv'
    <3>1. At(Producers, {"store"}) = {}
      BY <1>0, <2>0 DEF MutexInv, At, Critical
    <3>2. Made = total_produced
      BY <1>b, <3>1, FS_EmptySet DEF Made
    <3>3. \A q \in Producers : pc'[q] = "store" => val'[q] = Made
      BY <1>0, <2>0, <3>1, <3>2 DEF BaseInv, At
    <3> QED
      BY <2>0, <2>6, <3>3 DEF RingInv
  <2> QED
    BY <2>1, <2>2, <2>3, <2>4, <2>7, <2>8
<1>4. ASSUME NEW p \in Producers, ProduceStore(p) PROVE IInv'
  <2>0. /\ pc[p] = "store" /\ pc' = [pc EXCEPT ![p] = "unlock"] /\ p \in Threads /\ i[p] < Rounds
        /\ buffer' = [buffer EXCEPT ![in_i] = Made] /\ in_i' = Wrap(in_i + 1) /\ in_i' \in Slots
        /\ UNCHANGED <<out_i, total_produced, total_consumed, sem, buf_mtx, i, val, got>>
    <3>1. pc[p] = "store" /\ val[p] = Made /\ in_i \in Slots /\ p \in Threads /\ i[p] < Rounds
      BY <1>0, <1>4 DEF ProduceStore, Step, RingInv, BaseInv, ControlInv
    <3>2. (in_i + 1) % BUFSIZE = Wrap(in_i + 1) /\ Wrap(in_i + 1) \in Slots
      BY <3>1, NextSlot
    <3> QED
      BY <1>4, <3>1, <3>2 DEF ProduceStore, Step
  <2>1. BaseInv'
    BY <1>b, <2>0 DEF BaseInv
  <2>2. ControlInv'
    BY <1>0, <2>0 DEF BaseInv, ControlInv
  <2>3. MutexInv'
    BY <2>0 DEF BaseInv, MutexInv, At, Critical
  <2>a. ASSUME NEW S \in SUBSET Threads, NEW L
        PROVE  Cardinality(At(S, L))' = AtAfter(S, L, p, "unlock")
    BY <1>0, <2>0, AtStep, ZenonT(30)
  <2>b. ASSUME NEW S \in {Producers, Consumers}, NEW L, "store" \notin L \/ "unlock" \in L
        PROVE  Cardinality(Done(S, L))' = DoneAfter(S, L, p, "unlock")
    BY <1>0, <2>0, <2>b, DoneStep, ZenonT(30)
  <2>4. TotalsInv'
    BY <1>0, <2>0, <2>b DEF TotalsInv, PostStore, PostLoad, DoneAfter, Taken
  <2>5. Cardinality(At(Producers, {"store"}))' = Cardinality(At(Producers, {"store"})) - 1
    BY <1>0, <2>0, <2>a DEF AtAfter
  <2>6. Made' = Made + 1 /\ Taken' = Taken /\ InRing' = InRing + 1
    <3>1. Made' = Made + 1
      BY <1>a, <1>b, <2>0, <2>5 DEF Made
    <3> QED
      BY <1>b, <2>0, <3>1 DEF Taken, InRing
  <2>7. SemInv'
    <3>1. /\ Cardinality(At(Producers, PreStore))' = Cardinality(At(Producers, PreStore)) - 1
          /\ Cardinality(At(Producers, PostStore))' = Cardinality(At(Producers, PostStore)) + 1
          /\ Cardinality(At(Threads, InHand))' = Cardinality(At(Threads, InHand))
      BY <1>0, <2>0, <2>a DEF AtAfter, PreStore, PostStore, InHand
    <3>2. /\ Cardinality(At(Consumers, PreLoad))' = Cardinality(At(Consumers, PreLoad))
          /\ Cardinality(At(Consumers, PostLoad))' = Cardinality(At(Consumers, PostLoad))
      BY <1>0, <2>0, <2>a DEF AtAfter
    <3>3. /\ sem'["empty_slots"] = sem["empty_slots"] /\ sem["empty_slots"] \in Nat
          /\ sem'["full_slots"] = sem["full_slots"] /\ sem["full_slots"] \in Nat
      BY <2>0 DEF BaseInv
    <3>4. SemInv
      OBVIOUS
    <3> HIDE DEF IInv
    <3>5. sem'["empty_slots"] + Cardinality(At(Producers, PreStore))'
          + Cardinality(At(Consumers, PostLoad))' = BUFSIZE - InRing'
      BY <1>a, <1>b, <2>6, <3>1, <3>2, <3>3, <3>4 DEF SemInv
    <3>6. sem'["full_slots"] + Cardinality(At(Producers, PostStore))'
          + Cardinality(At(Consumers, PreLoad))' = InRing'
      BY <1>a, <1>b, <2>6, <3>1, <3>2, <3>3, <3>4 DEF SemInv
    <3> QED
      BY <3>1, <3>3, <3>4, <3>5, <3>6 DEF SemInv
  <2>8. RingInv'
    <3>0. InRing < BUFSIZE
      <4>1. Cardinality(At(Producers, PreStore)) > 0
        BY <1>0, <2>0, AtPositive DEF PreStore
      <4>2. sem["empty_slots"] \in Nat
        BY DEF BaseInv
      <4> QED
        BY <1>a, <1>b, <4>1, <4>2 DEF SemInv
    <3>1. in_i \in Slots /\ out_i \in Slots
      BY DEF BaseInv
    <3>2. \A q \in Producers : pc'[q] # "store"
      BY <1>0, <2>0 DEF BaseInv, MutexInv, Critical
    <3>3. in_i' = Wrap(out_i' + InRing')
      BY <1>b, <2>0, <2>6, <3>0, <3>1 DEF RingInv, Wrap, Slots
    <3>4. ASSUME NEW k \in 0 .. BUFSIZE - 1, k < InRing'
          PROVE  buffer'[Wrap(out_i' + k)] = Taken' + k
      <4>1. CASE k = InRing
        BY <1>b, <2>0, <2>6, <3>1, <4>1 DEF BaseInv, RingInv
      <4>2. CASE k < InRing
        <5>1. Wrap(out_i + k) \in Slots /\ Wrap(out_i + k) # in_i
          BY <1>b, <3>0, <3>1, <4>2 DEF RingInv, Wrap, Slots
        <5>2. buffer[Wrap(out_i + k)] = Taken + k
          BY <4>2 DEF RingInv
        <5> QED
          BY <2>0, <2>6, <5>1, <5>2 DEF BaseInv
      <4> QED
        BY <1>b, <2>6, <3>4, <4>1, <4>2
    <3> QED
      BY <2>0, <2>6, <3>2, <3>3, <3>4 DEF RingInv
  <2> QED
    BY <2>1, <2>2, <2>3, <2>4, <2>7, <2>8
<1>5. ASSUME NEW c \in Consumers, ConsumeLoad(c) PROVE IInv'
  <2>0. /\ pc[c] = "load" /\ pc' = [pc EXCEPT ![c] = "count"] /\ c \in Threads /\ c \notin Producers
        /\ i[c] < Rounds /\ got' = Append(got, buffer[out_i])
        /\ out_i' = Wrap(out_i + 1) /\ out_i' \in Slots /\ out_i \in Slots
        /\ UNCHANGED <<buffer, in_i, total_produced, total_consumed, sem, buf_mtx, i, val>>
    BY <1>0, <1>5, NextSlot DEF ConsumeLoad, Step, ControlInv, BaseInv
  <2>1. BaseInv'
    BY <1>b, <2>0 DEF BaseInv
  <2>2. ControlInv'
    BY <1>0, <2>0 DEF BaseInv, ControlInv
  <2>3. MutexInv'
    BY <2>0 DEF BaseInv, MutexInv, At, Critical
  <2>a. ASSUME NEW S \in SUBSET Threads, NEW L
        PROVE  Cardinality(At(S, L))' = AtAfter(S, L, c, "count")
    BY <1>0, <2>0, AtStep, ZenonT(30)
  <2>b. ASSUME NEW S \in {Producers, Consumers}, NEW L, "load" \notin L \/ "count" \in L
        PROVE  Cardinality(Done(S, L))' = DoneAfter(S, L, c, "count")
    BY <1>0, <2>0, <2>b, DoneStep, ZenonT(30)
  <2>5. Cardinality(At(Producers, {"store"}))' = Cardinality(At(Producers, {"store"}))
    BY <1>0, <2>0, <2>a DEF AtAfter
  <2>6. Made' = Made /\ Taken' = Taken + 1 /\ InRing' = InRing - 1
    <3>1. Made' = Made
      BY <2>0, <2>5 DEF Made
    <3>2. Taken' = Taken + 1
      BY <2>0 DEF Taken, BaseInv
    <3> QED
      BY <1>b, <3>1, <3>2 DEF InRing
  <2>4. TotalsInv'
    <3>1. Cardinality(Done(Consumers, PostLoad))' = Cardinality(Done(Consumers, PostLoad)) + 1
      BY <2>0, <2>b DEF PostLoad, DoneAfter
    <3>2. /\ Cardinality(Done(Producers, {"store"} \cup PostStore))'
               = Cardinality(Done(Producers, {"store"} \cup PostStore))
          /\ Cardinality(Done(Consumers, PostStore))' = Cardinality(Done(Consumers, PostStore))
      BY <1>0, <2>0, <2>b DEF PostStore, DoneAfter
    <3> QED
      BY <2>0, <2>6, <3>1, <3>2 DEF TotalsInv
  <2>7. SemInv'
    <3>1. /\ Cardinality(At(Producers, PreStore))' = Cardinality(At(Producers, PreStore))
          /\ Cardinality(At(Producers, PostStore))' = Cardinality(At(Producers, PostStore))
          /\ Cardinality(At(Threads, InHand))' = Cardinality(At(Threads, InHand))
      BY <1>0, <2>0, <2>a DEF AtAfter, InHand
    <3>2. /\ Cardinality(At(Consumers, PreLoad))' = Cardinality(At(Consumers, PreLoad)) - 1
          /\ Cardinality(At(Consumers, PostLoad))' = Cardinality(At(Consumers, PostLoad)) + 1
      BY <1>0, <2>0, <2>a DEF AtAfter, PreLoad, PostLoad
    <3>3. /\ sem'["empty_slots"] = sem["empty_slots"] /\ sem["empty_slots"] \in Nat
          /\ sem'["full_slots"] = sem["full_slots"] /\ sem["full_slots"] \in Nat
      BY <2>0 DEF BaseInv
    <3> QED
      BY <1>a, <1>b, <2>6, <3>1, <3>2, <3>3 DEF SemInv
  <2>8. RingInv'
    <3>0. InRing > 0
      <4>1. Cardinality(At(Consumers, PreLoad)) > 0
        BY <1>0, <2>0, AtPositive DEF PreLoad
      <4>2. sem["full_slots"] \in Nat
        BY DEF BaseInv
      <4> QED
        BY <1>a, <1>b, <4>1, <4>2 DEF SemInv
    <3>1. \A q \in Producers : pc'[q] # "store"
      BY <1>0, <2>0 DEF BaseInv, MutexInv, Critical
    <3>2. in_i' = Wrap(out_i' + InRing')
      <4>1. Wrap(Wrap(out_i + 1) + (InRing - 1)) = Wrap(out_i + InRing)
        BY <1>b, <2>0, <3>0 DEF Wrap, Slots
      <4> QED
        BY <2>0, <2>6, <4>1 DEF RingInv
    <3>3. ASSUME NEW k \in 0 .. BUFSIZE - 1, k < InRing'
          PROVE  buffer'[Wrap(out_i' + k)] = Taken' + k
      <4>1. k + 1 \in 0 .. BUFSIZE - 1 /\ k + 1 < InRing
        BY <1>b, <2>6, <3>3
      <4>2. Wrap(out_i' + k) = Wrap(out_i + (k + 1))
        BY <2>0, <4>1 DEF Wrap, Slots
      <4> QED
        BY <1>b, <2>0, <2>6, <4>1, <4>2 DEF RingInv
    <3>4. buffer[out_i] = Taken
      <4>1. 0 \in 0 .. BUFSIZE - 1 /\ 0 < InRing /\ Wrap(out_i + 0) = out_i
        BY <2>0, <3>0 DEF Wrap, Slots
      <4> QED
        BY <1>b, <4>1 DEF RingInv
    <3>5. \A k \in 1 .. Taken' : got'[k] = k - 1
      <4>1. got \in Seq(0 .. NItems) /\ Taken = Len(got)
        BY DEF BaseInv, Taken
      <4>2. \A k \in 1 .. Taken + 1 : got'[k] = IF k <= Taken THEN got[k] ELSE Taken
        BY <1>b, <2>0, <3>4, <4>1
      <4> QED
        BY <1>b, <2>6, <4>2 DEF RingInv
    <3> QED
      BY <3>1, <3>2, <3>3, <3>5 DEF RingInv
  <2> QED
    BY <2>1, <2>2, <2>3, <2>4, <2>7, <2>8
<1>6. ASSUME NEW c \in Consumers, ConsumeCount(c) PROVE IInv'
  <2>0. /\ pc[c] = "count" /\ pc' = [pc EXCEPT ![c] = "unlock"] /\ c \in Threads /\ c \notin Producers
        /\ i[c] < Rounds /\ total_consumed' = total_consumed + 1
        /\ UNCHANGED <<buffer, in_i, out_i, total_produced, sem, buf_mtx, i, val, got>>
    BY <1>0, <1>6 DEF ConsumeCount, Step, ControlInv, BaseInv
  <2>1. BaseInv' /\ ControlInv'
    BY <1>0, <2>0 DEF BaseInv, ControlInv
  <2>3. MutexInv'
    BY <2>0 DEF BaseInv, MutexInv, At, Critical
  <2>a. ASSUME NEW S \in SUBSET Threads, NEW L
        PROVE  Cardinality(At(S, L))' = AtAfter(S, L, c, "unlock")
    BY <1>0, <2>0, AtStep, ZenonT(30)
  <2>b. ASSUME NEW S \in {Producers, Consumers}, NEW L, "count" \notin L \/ "unlock" \in L
        PROVE  Cardinality(Done(S, L))' = DoneAfter(S, L, c, "unlock")
    BY <1>0, <2>0, <2>b, DoneStep, ZenonT(30)
  <2>6. UNCHANGED <<Made, Taken, InRing>>
    <3>1. Cardinality(At(Producers, {"store"}))' = Cardinality(At(Producers, {"store"}))
      BY <1>0, <2>0, <2>a DEF AtAfter
    <3> QED
      BY <2>0, <3>1 DEF Made, Taken, InRing
  <2>4. TotalsInv'
    <3>1. Cardinality(Done(Consumers, PostStore))' = Cardinality(Done(Consumers, PostStore)) + 1
      BY <2>0, <2>b DEF PostStore, DoneAfter
    <3>2. /\ Cardinality(Done(Producers, {"store"} \cup PostStore))'
               = Cardinality(Done(Producers, {"store"} \cup PostStore))
          /\ Cardinality(Done(Consumers, PostLoad))' = Cardinality(Done(Consumers, PostLoad))
      BY <1>0, <2>0, <2>b DEF PostStore, PostLoad, DoneAfter
    <3> QED
      BY <2>0, <2>6, <3>1, <3>2 DEF TotalsInv
  <2>7. SemInv'
    <3>1. /\ Cardinality(At(Producers, PreStore))' = Cardinality(At(Producers, PreStore))
          /\ Cardinality(At(Producers, PostStore))' = Cardinality(At(Producers, PostStore))
          /\ Cardinality(At(Threads, InHand))' = Cardinality(At(Threads, InHand))
      BY <1>0, <2>0, <2>a DEF AtAfter, PreStore, PostStore, InHand
    <3>2. /\ Cardinality(At(Consumers, PreLoad))' = Cardinality(At(Consumers, PreLoad))
          /\ Cardinality(At(Consumers, PostLoad))' = Cardinality(At(Consumers, PostLoad))
      BY <1>0, <2>0, <2>a DEF AtAfter, PreLoad, PostLoad
    <3> QED
      BY <2>0, <2>6, <3>1, <3>2 DEF SemInv
  <2>8. RingInv'
    BY <1>0, <2>0, <2>6 DEF RingInv, BaseInv
  <2> QED
    BY <2>1, <2>3, <2>4, <2>7, <2>8
<1>7. ASSUME NEW t \in Threads, Unlock(t) PROVE IInv'
  <2>0. /\ pc[t] = "unlock" /\ pc' = [pc EXCEPT ![t] = "sem_post"] /\ i[t] < Rounds
        /\ buf_mtx' = buf_mtx \ {t}
        /\ UNCHANGED <<buffer, in_i, out_i, total_produced, total_consumed, sem, i, val, got>>
    BY <1>7 DEF Unlock, Step, ControlInv, BaseInv
  <2>1. BaseInv' /\ ControlInv'
    BY <2>0 DEF BaseInv, ControlInv
  <2>3. MutexInv'
    BY <2>0 DEF BaseInv, MutexInv, At, Critical
  <2>a. ASSUME NEW S \in SUBSET Threads, NEW L
        PROVE  Cardinality(At(S, L))' = AtAfter(S, L, t, "sem_post")
    BY <1>0, <2>0, AtStep, ZenonT(30)
  <2>b. ASSUME NEW S \in {Producers, Consumers}, NEW L, "unlock" \notin L \/ "sem_post" \in L
        PROVE  Cardinality(Done(S, L))' = DoneAfter(S, L, t, "sem_post")
    BY <1>0, <2>0, <2>b, DoneStep, ZenonT(30)
  <2>6. UNCHANGED <<Made, Taken, InRing>>
    <3>1. Cardinality(At(Producers, {"store"}))' = Cardinality(At(Producers, {"store"}))
      BY <1>0, <2>0, <2>a DEF AtAfter
    <3> QED
      BY <2>0, <3>1 DEF Made, Taken, InRing
  <2>4. TotalsInv'
    BY <2>0, <2>b DEF TotalsInv, PostStore, PostLoad, DoneAfter, Taken
  <2>7. SemInv'
    <3>1. /\ Cardinality(At(Producers, PreStore))' = Cardinality(At(Producers, PreStore))
          /\ Cardinality(At(Producers, PostStore))' = Cardinality(At(Producers, PostStore))
          /\ Cardinality(At(Threads, InHand))' = Cardinality(At(Threads, InHand))
      BY <1>0, <2>0, <2>a DEF AtAfter, PreStore, PostStore, InHand
    <3>2. /\ Cardinality(At(Consumers, PreLoad))' = Cardinality(At(Consumers, PreLoad))
          /\ Cardinality(At(Consumers, PostLoad))' = Cardinality(At(Consumers, PostLoad))
      BY <1>0, <2>0, <2>a DEF AtAfter, PreLoad, PostLoad
    <3> QED
      BY <2>0, <2>6, <3>1, <3>2 DEF SemInv
  <2>8. RingInv'
    BY <1>0, <2>0, <2>6 DEF RingInv, BaseInv
  <2> QED
    BY <2>1, <2>3, <2>4, <2>7, <2>8
<1>8. ASSUME NEW t \in Threads, SemPost(t) PROVE IInv'
  <2>p. PICK b \in {"sem_wait", "exit"} : pc' = [pc EXCEPT ![t] = b] /\ (b = "exit" <=> ~Loops(t))
    BY <1>8 DEF SemPost, Step
  <2>0. /\ pc[t] = "sem_post" /\ pc' = [pc EXCEPT ![t] = b] /\ i' = [i EXCEPT ![t] = @ + 1]
        /\ b \notin Critical /\ b \notin InHand /\ b # "store" /\ b \notin PostStore /\ b \notin PostLoad
        /\ b \notin PreStore /\ b \notin PreLoad
        /\ i[t] \in 0 .. Rounds - 1 /\ (b = "exit" <=> i[t] + 1 = Rounds)
        /\ sem' = [sem EXCEPT ![Posts(t)] = @ + 1]
        /\ UNCHANGED <<buffer, in_i, out_i, total_produced, total_consumed, buf_mtx, val, got>>
    <3>1. pc[t] = "sem_post" /\ i[t] \in 0 .. Rounds - 1
      BY <1>8 DEF SemPost, Step, ControlInv, BaseInv
    <3>2. b = "exit" <=> i[t] + 1 = Rounds
      BY <2>p, <3>1 DEF Loops
    <3>3. /\ b \notin Critical /\ b \notin InHand /\ b # "store" /\ b \notin PostStore
          /\ b \notin PostLoad /\ b \notin PreStore /\ b \notin PreLoad
      BY DEF Critical, InHand, PreStore, PreLoad, PostStore, PostLoad
    <3> QED
      BY <1>8, <2>p, <3>1, <3>2, <3>3 DEF SemPost
  <2>1. BaseInv'
    <3>1. pc' \in [Threads -> {"sem_wait", "lock", "number", "store", "load",
                               "count", "unlock", "sem_post", "exit"}]
      BY <2>0 DEF BaseInv
    <3>2. i' \in [Threads -> 0 .. Rounds]
      BY <2>0 DEF BaseInv
    <3>3. sem' \in [{"empty_slots", "full_slots"} -> Nat]
      BY <2>0 DEF BaseInv, Posts
    <3> QED
      BY <2>0, <3>1, <3>2, <3>3 DEF BaseInv
  <2>2. ControlInv'
    BY <2>0 DEF BaseInv, ControlInv
  <2>3. MutexInv'
    BY <2>0 DEF BaseInv, MutexInv, At, Critical
  <2>a. ASSUME NEW S \in SUBSET Threads, NEW L
        PROVE  Cardinality(At(S, L))' = AtAfter(S, L, t, b)
    <3>1. BaseInv /\ pc' = [pc EXCEPT ![t] = b]
      BY <2>0
    <3> HIDE SemaphoreAssumption DEF IInv, ring, totals
    <3> QED
      BY <3>1, AtStep
  <2>b. ASSUME NEW S \in {Producers, Consumers}, NEW L, "sem_post" \in L, b \notin L
        PROVE  Done(S, L)' = Done(S, L)
    BY <2>0, <2>b, DoneLoop
  <2>6. UNCHANGED <<Made, Taken, InRing>>
    <3>1. Cardinality(At(Producers, {"store"}))' = Cardinality(At(Producers, {"store"}))
      BY <1>0, <2>0, <2>a DEF AtAfter
    <3> QED
      BY <2>0, <3>1 DEF Made, Taken, InRing
  <2>4. TotalsInv'
    BY <2>0, <2>6, <2>b DEF TotalsInv, PostStore, PostLoad
  <2>7. SemInv'
    <3>1. /\ Cardinality(At(Threads, InHand))' = Cardinality(At(Threads, InHand)) - 1
          /\ Cardinality(At(Producers, PreStore))' = Cardinality(At(Producers, PreStore))
          /\ Cardinality(At(Consumers, PreLoad))' = Cardinality(At(Consumers, PreLoad))
      BY <1>0, <2>0, <2>a DEF AtAfter, InHand, PreStore, PreLoad
    <3>3. CASE t \in Producers
      <4>1. /\ Cardinality(At(Producers, PostStore))' = Cardinality(At(Producers, PostStore)) - 1
            /\ Cardinality(At(Consumers, PostLoad))' = Cardinality(At(Consumers, PostLoad))
        BY <1>0, <2>0, <2>a, <3>3 DEF AtAfter, PostStore
      <4>2. /\ sem'["full_slots"] = sem["full_slots"] + 1 /\ sem["full_slots"] \in Nat
            /\ sem'["empty_slots"] = sem["empty_slots"] /\ sem["empty_slots"] \in Nat
        BY <2>0, <3>3 DEF BaseInv, Posts
      <4> QED
        BY <1>a, <1>b, <2>6, <3>1, <4>1, <4>2 DEF SemInv
    <3>4. CASE t \in Consumers
      <4>1. /\ Cardinality(At(Producers, PostStore))' = Cardinality(At(Producers, PostStore))
            /\ Cardinality(At(Consumers, PostLoad))' = Cardinality(At(Consumers, PostLoad)) - 1
        BY <1>0, <2>0, <2>a, <3>4 DEF AtAfter, PostLoad
      <4>2. /\ sem'["empty_slots"] = sem["empty_slots"] + 1 /\ sem["empty_slots"] \in Nat
            /\ sem'["full_slots"] = sem["full_slots"] /\ sem["full_slots"] \in Nat
        BY <1>0, <2>0, <3>4 DEF BaseInv, Posts
      <4> QED
        BY <1>a, <1>b, <2>6, <3>1, <4>1, <4>2 DEF SemInv
    <3> QED
      BY <1>0, <3>3, <3>4
  <2>8. RingInv'
    BY <1>0, <2>0, <2>6 DEF RingInv, BaseInv
  <2> QED
    BY <2>1, <2>2, <2>3, <2>4, <2>7, <2>8
<1>9. ASSUME UNCHANGED vars PROVE IInv'
  <2>1. UNCHANGED <<Made, Taken, InRing>>
    BY <1>9 DEF vars, Made, At, Taken, InRing
  <2>2. BaseInv' /\ ControlInv' /\ MutexInv'
    BY <1>9 DEF vars, BaseInv, ControlInv, MutexInv, At
  <2>3. TotalsInv' /\ SemInv'
    BY <1>9, <2>1 DEF vars, TotalsInv, Done, SemInv, At
  <2>4. RingInv'
    BY <1>9, <2>1 DEF vars, RingInv
  <2> QED
    BY <2>2, <2>3, <2>4
<1> QED
  BY <1>1, <1>2, <1>3, <1>4, <1>5, <1>6, <1>7, <1>8, <1>9 DEF Next, Run, Produce, Consume, Joined

-----------------------------------------------------------------------------
\* Every reachable state satisfies the invariant.
THEOREM Invariance == Spec => []IInv
BY InitInv, NextInv, PTL DEF Spec

\* The indices stay inside buffer[BUFSIZE], the semaphores inside 0 .. BUFSIZE
\* and the totals inside 0 .. NItems, whatever the number of threads.
THEOREM TypeCorrect == Spec => []TypeOK
<1>1. IInv => TypeOK
  BY IInvBounds DEF IInv, BaseInv, TypeOK
<1> QED
  BY <1>1, Invariance, PTL

\* Every slot of the ring is free, full, or in the hands of exactly one thread
\* between its sem_wait and its sem_post.
THEOREM NoSlotLost == Spec => []SlotsConserved
<1>1. IInv => SlotsConserved
  BY DEF IInv, SemInv, SlotsConserved, InHand
<1> QED
  BY <1>1, Invariance, PTL

\* The totals main() prints after the joins are the number of items.
THEOREM TotalsAgree == Spec => []TotalsAtExit
<1>1. IInv => TotalsAtExit
  <2> SUFFICES ASSUME IInv, Exited
               PROVE  /\ total_produced = NItems /\ total_consumed = NItems
                      /\ Len(got) = NItems /\ sem.empty_slots = BUFSIZE
    BY DEF TotalsAtExit
  <2>1. ASSUME NEW S \in {Producers, Consumers}, NEW L PROVE Cardinality(Done(S, L)) = NItems
    <3>1. \A t \in S : i[t] = Rounds
      BY DEF IInv, ControlInv, Exited, Threads
    <3>2. Done(S, L) = S \X (0 .. Rounds - 1)
      BY <3>1, SemaphoreAssumption DEF Done
    <3> QED
      BY <3>2, DoneFinite
  <2>2. ASSUME NEW S \in SUBSET Threads, NEW L, "exit" \notin L PROVE Cardinality(At(S, L)) = 0
    <3>1. At(S, L) = {}
      BY <2>2 DEF At, Exited
    <3> QED
      BY <3>1, FS_EmptySet
  <2>3. total_produced = NItems /\ total_consumed = NItems /\ Taken = NItems
    BY <2>1 DEF IInv, TotalsInv
  <2>4. /\ Cardinality(At(Producers, {"store"})) = 0 /\ Cardinality(At(Producers, PreStore)) = 0
        /\ Cardinality(At(Consumers, PostLoad)) = 0
    BY <2>2 DEF PreStore, PostLoad, Threads
  <2>5. Made = NItems /\ InRing = 0
    BY <2>3, <2>4, IInvBounds DEF Made, InRing
  <2>6. sem["empty_slots"] = BUFSIZE
    <3>1. sem["empty_slots"] \in Nat
      BY DEF IInv, BaseInv
    <3> QED
      BY <2>4, <2>5, <3>1, SemaphoreAssumption DEF IInv, SemInv
  <2> QED
    BY <2>3, <2>6 DEF Taken
<1> QED
  BY <1>1, Invariance, PTL

\* The "got" lines list 0, 1, 2, ... for any number of consumers.
THEOREM GotInOrder == Spec => [](\A k \in 1 .. Len(got) : got[k] = k - 1)
<1>1. IInv => \A k \in 1 .. Len(got) : got[k] = k - 1
  BY DEF IInv, RingInv, Taken
<1> QED
  BY <1>1, Invariance, PTL

-----------------------------------------------------------------------------
(* The ring implements the abstract queue.                                 *)

\* Read from out_i on, the ring is a run of consecutive numbers.
RunOfItems == [k \in 1 .. InRing |-> Taken + k - 1]

\* The refinement mapping Contents is that run.
LEMMA ContentsAre == IInv => Contents = RunOfItems
<1> SUFFICES ASSUME IInv PROVE Contents = RunOfItems
  OBVIOUS
<1>1. InRing \in 0 .. BUFSIZE /\ Taken \in Nat /\ out_i \in Slots
  BY IInvBounds DEF IInv, BaseInv
<1>2. ASSUME NEW k \in 1 .. InRing
      PROVE  buffer[(out_i + k - 1) % BUFSIZE] = Taken + k - 1
  <2>1. k - 1 \in 0 .. BUFSIZE - 1 /\ k - 1 < InRing
    BY <1>1, SemaphoreAssumption
  <2>2. (out_i + k - 1) % BUFSIZE = Wrap(out_i + (k - 1))
    BY <1>1, <2>1, SemaphoreAssumption DEF Wrap, Slots
  <2>3. buffer[Wrap(out_i + (k - 1))] = Taken + (k - 1)
    BY <2>1 DEF IInv, RingInv
  <2> QED
    BY <1>1, <2>1, <2>2, <2>3
<1> QED
  BY <1>2 DEF Contents, RunOfItems, InRing, Taken

\* The sizes of the queue, in a form that can be primed.
Sized == InRing \in 0 .. BUFSIZE /\ Made \in 0 .. NItems

\* The invariant bounds the ring and the items made.
LEMMA SizesAre == IInv => Sized
BY IInvBounds DEF Sized

\* Only the store of a producer and the load of a consumer change the queue.
LEMMA OtherSteps ==
    ASSUME IInv, [Next]_vars, \A p \in Producers : ~ProduceStore(p),
           \A c \in Consumers : ~ConsumeLoad(c)
    PROVE  UNCHANGED <<got, Made>> /\ UNCHANGED <<buffer, out_i>>
<1> USE DEF ring, totals
<1>0. /\ Producers \in SUBSET Threads /\ BaseInv
      /\ total_produced \in Nat /\ Cardinality(At(Producers, {"store"})) \in Nat
  BY AtFinite DEF Threads, IInv, BaseInv
<1>1. ASSUME NEW t \in Threads, NEW b, pc' = [pc EXCEPT ![t] = b]
      PROVE  Cardinality(At(Producers, {"store"}))' = AtAfter(Producers, {"store"}, t, b)
  BY <1>0, <1>1, AtStep
<1>2. ASSUME NEW t \in Threads, Run(t)
      PROVE  UNCHANGED <<got, Made>> /\ UNCHANGED <<buffer, out_i>>
  <2>1. PICK b : b # "store" /\ pc' = [pc EXCEPT ![t] = b]
    BY <1>2 DEF Run, SemWait, Lock, Unlock, SemPost, Step
  <2>2. pc[t] # "store"
    BY <1>2 DEF Run, SemWait, Lock, Unlock, SemPost, Step
  <2>3. Cardinality(At(Producers, {"store"}))' = Cardinality(At(Producers, {"store"}))
    BY <1>1, <2>1, <2>2 DEF AtAfter
  <2> QED
    BY <1>2, <2>3 DEF Run, SemWait, Lock, Unlock, SemPost, Made
<1>3. ASSUME NEW p \in Producers, ProduceNumber(p)
      PROVE  UNCHANGED <<got, Made>> /\ UNCHANGED <<buffer, out_i>>
  <2>1. pc[p] = "number" /\ pc' = [pc EXCEPT ![p] = "store"] /\ total_produced' = total_produced + 1
    BY <1>3 DEF ProduceNumber, Step
  <2>2. Cardinality(At(Producers, {"store"}))' = Cardinality(At(Producers, {"store"})) + 1
    BY <1>0, <1>1, <2>1 DEF AtAfter
  <2>3. Made' = Made
    BY <1>0, <2>1, <2>2 DEF Made
  <2> QED
    BY <1>3, <2>3 DEF ProduceNumber
<1>4. ASSUME NEW c \in Consumers, ConsumeCount(c)
      PROVE  UNCHANGED <<got, Made>> /\ UNCHANGED <<buffer, out_i>>
  <2>1. pc[c] = "count" /\ pc' = [pc EXCEPT ![c] = "unlock"] /\ c \in Threads
    BY <1>4 DEF ConsumeCount, Step, Threads
  <2>2. Cardinality(At(Producers, {"store"}))' = AtAfter(Producers, {"store"}, c, "unlock")
    BY <1>1, <2>1
  <2>3. Cardinality(At(Producers, {"store"}))' = Cardinality(At(Producers, {"store"}))
    BY <2>1, <2>2 DEF AtAfter
  <2> QED
    BY <1>4, <2>3 DEF ConsumeCount, Made
<1>5. CASE UNCHANGED vars
  BY <1>5 DEF vars, Made, At
<1> QED
  BY <1>2, <1>3, <1>4, <1>5 DEF Next, Produce, Consume, Joined

\* Every step of the lab is a Put, a Get or a stutter of the abstract queue.
LEMMA StepSimulation == IInv /\ IInv' /\ [Next]_vars => [Queue!Next]_(Queue!vars)
<1> SUFFICES ASSUME IInv, IInv', [Next]_vars PROVE [Queue!Next]_(Queue!vars)
  OBVIOUS
<1> USE SemaphoreAssumption
<1>1. /\ Contents = [k \in 1 .. InRing |-> Taken + k - 1]
      /\ Contents' = [k \in 1 .. InRing' |-> Taken' + k - 1]
  <2>1. Contents = RunOfItems /\ (Contents = RunOfItems)'
    BY ContentsAre, PTL
  <2> QED
    BY <2>1 DEF RunOfItems
<1>2. /\ InRing \in 0 .. BUFSIZE /\ Taken \in Nat /\ Made = Taken + InRing /\ Made \in 0 .. NItems
      /\ NItems \in Nat
  BY IInvBounds
<1>3. InRing' \in 0 .. BUFSIZE /\ Made' \in 0 .. NItems
  <2>1. Sized /\ Sized'
    BY SizesAre, PTL
  <2> QED
    BY <2>1 DEF Sized
<1>4. ASSUME NEW p \in Producers, ProduceStore(p) PROVE Queue!Next
  <2>1. Made' = Made + 1
    <3>1. /\ pc[p] = "store" /\ pc' = [pc EXCEPT ![p] = "unlock"] /\ p \in Threads
          /\ total_produced' = total_produced /\ BaseInv /\ total_produced \in Nat
      BY <1>4 DEF ProduceStore, Step, totals, Threads, IInv, BaseInv
    <3>2. Cardinality(At(Producers, {"store"}))' = AtAfter(Producers, {"store"}, p, "unlock")
      BY <3>1, AtStep DEF Threads
    <3>3. Cardinality(At(Producers, {"store"})) \in Nat
      BY AtFinite DEF Threads
    <3> QED
      BY <3>1, <3>2, <3>3 DEF AtAfter, Made
  <2>2. Taken' = Taken
    BY <1>4 DEF ProduceStore, Taken
  <2>3. InRing' = InRing + 1
    BY <1>2, <2>1, <2>2 DEF InRing
  <2>4. Contents' = Append(Contents, Made) /\ Len(Contents) = InRing
    BY <1>1, <1>2, <2>2, <2>3
  <2> QED
    <3>1. Made < NItems /\ Len(Contents) < BUFSIZE
      BY <1>2, <1>3, <2>1, <2>3, <2>4
    <3>2. got' = got
      BY <1>4 DEF ProduceStore
    <3> QED
      BY <2>1, <2>4, <3>1, <3>2 DEF Queue!Next, Queue!Put
<1>5. ASSUME NEW c \in Consumers, ConsumeLoad(c) PROVE Queue!Next
  <2>1. Made' = Made
    <3>1. /\ pc[c] = "load" /\ pc' = [pc EXCEPT ![c] = "count"] /\ c \in Threads /\ c \notin Producers
          /\ total_produced' = total_produced /\ BaseInv
      BY <1>5 DEF ConsumeLoad, Step, totals, Threads, IInv
    <3>2. Cardinality(At(Producers, {"store"}))' = AtAfter(Producers, {"store"}, c, "count")
      <4>1. Producers \in SUBSET Threads
        BY DEF Threads
      <4> QED
        BY <3>1, <4>1, AtStep, ZenonT(30)
    <3> QED
      BY <3>1, <3>2 DEF AtAfter, Made
  <2>2. /\ got' = Append(got, buffer[out_i]) /\ got \in Seq(0 .. NItems)
        /\ out_i \in Slots
    BY <1>5 DEF ConsumeLoad, IInv, BaseInv
  <2>3. Taken' = Taken + 1
    BY <2>2 DEF Taken
  <2>4. InRing' = InRing - 1 /\ InRing > 0
    <3>1. InRing' = InRing - 1
      BY <1>2, <2>1, <2>3 DEF InRing
    <3> QED
      BY <1>2, <1>3, <3>1
  <2>5. buffer[out_i] = Taken
    <3>1. 0 \in 0 .. BUFSIZE - 1 /\ 0 < InRing /\ Wrap(out_i + 0) = out_i
      BY <2>2, <2>4 DEF Wrap, Slots
    <3> QED
      BY <1>2, <3>1 DEF IInv, RingInv
  <2>6. Contents \in Seq(Nat) /\ Len(Contents) = InRing /\ Contents[1] = Taken
    BY <1>1, <1>2, <2>4
  <2>7. Contents # <<>> /\ Head(Contents) = Taken
    BY <2>4, <2>6, <1>2
  <2>8. Contents' = Tail(Contents)
    BY <1>1, <1>2, <2>3, <2>4
  <2> QED
    BY <2>1, <2>2, <2>5, <2>7, <2>8 DEF Queue!Next, Queue!Get
<1>6. CASE (\A p \in Producers : ~ProduceStore(p)) /\ \A c \in Consumers : ~ConsumeLoad(c)
  <2>1. UNCHANGED <<got, Made>> /\ UNCHANGED <<buffer, out_i>>
    BY <1>6, OtherSteps
  <2>2. UNCHANGED Contents
    BY <2>1 DEF Contents
  <2> QED
    BY <2>1, <2>2 DEF Queue!vars
<1> QED
  BY <1>4, <1>5, <1>6

\* lab_23 implements a first-in first-out queue of capacity BUFSIZE.
THEOREM Refinement == Spec => Queue!Safety
<1>1. Init => Queue!Init
  <2> SUFFICES ASSUME Init PROVE Queue!Init
    OBVIOUS
  <2>1. At(Producers, {"store"}) = {}
    BY DEF Init, At, Threads
  <2>2. got = <<>> /\ total_produced = 0
    BY DEF Init
  <2>4. Made = 0
    BY <2>1, <2>2, FS_EmptySet DEF Made
  <2>3. Contents = <<>>
    BY <2>2, <2>4 DEF Contents
  <2> QED
    BY <2>2, <2>3, <2>4 DEF Queue!Init
<1> QED
  BY <1>1, Invariance, StepSimulation, PTL DEF Spec, Queue!Safety
=============================================================================
