------------------------ MODULE SharedCountersProofs ------------------------
(***************************************************************************)
(* Proofs about the counters of labs 18 to 21, for every number of         *)
(* threads, iterations and buckets.                                        *)
(***************************************************************************)
EXTENDS SharedCounters, FiniteSetTheorems, TLAPS

\* The disciplines with a lock, and the statements that run under it.
Locked == discipline \notin {"racy", "atomic"}
Critical == {"load", "store", "unlock", "read"}
Holds(t, l) == Locked /\ pc[t] \in Critical /\ LockOf(i[t]) = l

\* The statements of each thread.
LabelsOf(t) ==
    IF t \in Reading
    THEN IF discipline = "rwlock" THEN {"rdlock", "read", "unlock", "exit"} ELSE {"exit"}
    ELSE IF discipline = "racy" THEN {"load", "store", "exit"}
    ELSE IF discipline = "atomic" THEN {"fetch_add", "exit"}
    ELSE {"lock", "load", "store", "unlock", "exit"}

\* The types, without the bounds that follow from the counts.
BaseInv ==
    /\ discipline \in Disciplines
    /\ table \in [Buckets -> Nat]
    /\ holders \in [Buckets -> SUBSET Threads]
    /\ pc \in [Threads -> {"lock", "rdlock", "read", "load", "store", "unlock",
                           "fetch_add", "exit"}]
    /\ \A t \in Threads : pc[t] \in LabelsOf(t)
    /\ i \in [Threads -> 0 .. Iters]
    /\ reg \in [Threads -> Nat]

\* The for loops: a counting thread exits after its last iteration.
LoopInv == \A t \in Threads :
    /\ pc[t] # "exit" => i[t] < Iters
    /\ pc[t] = "exit" /\ t \in Counting => i[t] = Iters

\* A lock's holders are the threads in its critical sections, and whoever
\* counts is alone there.
LockInv ==
    /\ \A l \in Buckets : holders[l] = {t \in Threads : Holds(t, l)}
    /\ \A l \in Buckets : \A t \in Counting : \A u \in Threads : Holds(t, l) /\ Holds(u, l) => t = u

\* A register is used once, and under a lock what it holds stays current.
RegInv == \A t \in Threads :
    /\ pc[t] # "store" => reg[t] = 0
    /\ pc[t] = "store" /\ Locked => reg[t] = table[BucketOf(i[t])]

\* In the race a counter and the values loaded from it count no more than what
\* was stored, and once something is stored nobody loads 0 again.
RaceInv == discipline = "racy" =>
    /\ \A b \in Buckets : table[b] <= Cardinality(Stored(b))
    /\ \A t \in Threads : reg[t] <= Cardinality(Stored(0))
    /\ \A t \in Counting : i[t] > 0 => table[0] > 0
    /\ \A t \in Counting : i[t] > 0 /\ pc[t] = "store" => reg[t] > 0
    /\ Counting # {} /\ Iters > 1 /\ table[0] < 2 => \E t \in Counting : pc[t] # "exit"

\* The inductive invariant.
IInv == BaseInv /\ LoopInv /\ LockInv /\ RegInv /\ RaceInv /\ NothingLost

-----------------------------------------------------------------------------
\* Keys stay inside the table: k % NBUCKETS is a bucket and a lock.
LEMMA InTable ==
    ASSUME NEW k \in Nat
    PROVE  BucketOf(k) \in Buckets /\ LockOf(k) \in Buckets
BY CountersAssumption DEF BucketOf, LockOf, Buckets

\* With one lock for each bucket the lock is the bucket's own; otherwise there
\* is one lock for all.
LEMMA SameLock ==
    ASSUME NEW j \in Nat, NEW k \in Nat, BucketOf(j) = BucketOf(k), Locked
    PROVE  LockOf(j) = LockOf(k)
BY DEF BucketOf, LockOf

\* What was stored is finite and never more than all the iterations.
LEMMA StoredFinite ==
    ASSUME NEW b
    PROVE  /\ IsFiniteSet(Stored(b))
           /\ Cardinality(Stored(b)) \in Nat
           /\ Cardinality(Stored(b)) <= Total
           /\ Total \in Nat
<1> DEFINE All == Counting \X (0 .. Iters - 1)
<1>1. IsFiniteSet(0 .. Iters - 1) /\ Cardinality(0 .. Iters - 1) = Iters
  BY CountersAssumption, FS_Interval
<1>2. IsFiniteSet(All) /\ Cardinality(All) = Cardinality(Counting) * Iters
  BY <1>1, CountersAssumption, FS_Product
<1>3. Cardinality(Counting) \in Nat
  BY CountersAssumption, FS_CardinalityType
<1>4. Stored(b) \in SUBSET All
  BY DEF Stored
<1>5. IsFiniteSet(Stored(b)) /\ Cardinality(Stored(b)) <= Cardinality(All)
  BY <1>2, <1>4, FS_Subset
<1>6. Cardinality(Stored(b)) \in Nat
  BY <1>5, FS_CardinalityType
<1>7. Total = Cardinality(Counting) * Iters /\ Total \in Nat
  BY <1>3, CountersAssumption DEF Total
<1> QED
  BY <1>2, <1>5, <1>6, <1>7

\* The increment of iteration i[t] is counted once, in its own bucket, by the
\* step that stores it.
LEMMA StoredAdds ==
    ASSUME BaseInv, NEW t \in Counting, i[t] < Iters, pc[t] # "unlock", UNCHANGED discipline,
           \/ i' = i /\ pc' = [pc EXCEPT ![t] = "unlock"]
           \/ i' = [i EXCEPT ![t] = @ + 1] /\ \E l : l # "unlock" /\ pc' = [pc EXCEPT ![t] = l],
           NEW b \in Buckets
    PROVE  Cardinality(Stored(b))' = IF b = BucketOf(i[t]) THEN Cardinality(Stored(b)) + 1
                                                           ELSE Cardinality(Stored(b))
<1> DEFINE w == <<t, i[t]>>
<1>1. i[t] \in 0 .. Iters - 1 /\ w \in Counting \X (0 .. Iters - 1)
  BY CountersAssumption DEF BaseInv, Threads
<1>2. w \notin Stored(b)
  BY <1>1 DEF Stored
<1>3. \A k \in Nat : BucketOf(k)' = BucketOf(k)
  BY DEF BucketOf
<1>4. ASSUME NEW x \in Counting \X (0 .. Iters - 1)
      PROVE  x \in Stored(b)' <=> x \in Stored(b) \/ (x = w /\ b = BucketOf(i[t]))
  <2>1. x[1] \in Counting /\ x[2] \in 0 .. Iters - 1 /\ x = <<x[1], x[2]>>
    BY <1>4
  <2>2. BucketOf(x[2])' = BucketOf(x[2])
    BY <2>1, <1>3
  <2>3. CASE x[1] = t
    <3>1. (x[2] < i'[t] \/ (x[2] = i'[t] /\ pc'[t] = "unlock")) <=> x[2] <= i[t]
      BY <1>1, <2>1 DEF BaseInv, Threads
    <3>2. (x[2] < i[t] \/ (x[2] = i[t] /\ pc[t] = "unlock")) <=> x[2] < i[t]
      OBVIOUS
    <3>3. x[2] <= i[t] <=> x[2] < i[t] \/ x = w
      BY <1>1, <2>1, <2>3
    <3> QED
      BY <1>4, <2>1, <2>2, <2>3, <3>1, <3>2, <3>3 DEF Stored
  <2>4. CASE x[1] # t
    <3>1. i'[x[1]] = i[x[1]] /\ pc'[x[1]] = pc[x[1]]
      BY <2>1, <2>4 DEF BaseInv, Threads
    <3> QED
      BY <1>4, <2>1, <2>2, <2>4, <3>1 DEF Stored
  <2> QED
    BY <2>3, <2>4
<1>5. Stored(b)' \subseteq Counting \X (0 .. Iters - 1) /\ Stored(b) \subseteq Counting \X (0 .. Iters - 1)
  BY DEF Stored
<1>6. CASE b = BucketOf(i[t])
  <2>1. Stored(b)' = Stored(b) \cup {w}
    BY <1>1, <1>4, <1>5, <1>6
  <2> QED
    BY <1>2, <1>6, <2>1, StoredFinite, FS_AddElement
<1>7. CASE b # BucketOf(i[t])
  <2>1. Stored(b)' = Stored(b)
    BY <1>4, <1>5, <1>7
  <2> QED
    BY <1>7, <2>1
<1> QED
  BY <1>6, <1>7

\* The other steps store nothing.
LEMMA StoredSame ==
    ASSUME BaseInv, NEW t \in Threads, UNCHANGED discipline,
           \/ /\ pc[t] # "unlock" /\ i' = i
              /\ \E l : l # "unlock" /\ pc' = [pc EXCEPT ![t] = l]
           \/ /\ t \in Reading
              /\ \A u \in Counting : i'[u] = i[u] /\ pc'[u] = pc[u]
           \/ /\ pc[t] = "unlock" /\ i' = [i EXCEPT ![t] = @ + 1]
              /\ \E l : l # "unlock" /\ pc' = [pc EXCEPT ![t] = l],
           NEW b \in Buckets
    PROVE  Stored(b)' = Stored(b)
<1>1. \A k \in Nat : BucketOf(k)' = BucketOf(k)
  BY DEF BucketOf
<1>2. ASSUME NEW x \in Counting \X (0 .. Iters - 1)
      PROVE  x \in Stored(b)' <=> x \in Stored(b)
  <2>1. x[1] \in Counting /\ x[2] \in 0 .. Iters - 1 /\ x[1] \in Threads
    BY <1>2 DEF Threads
  <2>2. BucketOf(x[2])' = BucketOf(x[2])
    BY <2>1, <1>1
  <2>3. (x[2] < i'[x[1]] \/ (x[2] = i'[x[1]] /\ pc'[x[1]] = "unlock"))
        <=> (x[2] < i[x[1]] \/ (x[2] = i[x[1]] /\ pc[x[1]] = "unlock"))
    BY <2>1, CountersAssumption DEF BaseInv
  <2> QED
    BY <1>2, <2>2, <2>3 DEF Stored
<1> QED
  BY <1>2 DEF Stored

\* The threads start with all counters at 0 and no lock held.
LEMMA InitInv == Init => IInv
<1> SUFFICES ASSUME Init PROVE IInv
  OBVIOUS
<1> USE CountersAssumption DEF Init
<1>1. BaseInv
  BY DEF BaseInv, LoopHead, LabelsOf, Disciplines, Threads
<1>2. LoopInv /\ RegInv
  BY DEF LoopInv, RegInv, LoopHead, Threads, Disciplines
<1>3. LockInv
  BY DEF LockInv, Holds, Locked, Critical, LoopHead, Threads, Disciplines
<1>4. \A b \in Buckets : Cardinality(Stored(b)) = 0
  <2>1. \A t \in Counting : i[t] = 0 /\ pc[t] # "unlock"
    BY DEF LoopHead, Threads, Disciplines
  <2>2. \A b \in Buckets : Stored(b) = {}
    BY <2>1 DEF Stored
  <2> QED
    BY <2>2, FS_EmptySet
<1>5. NothingLost
  BY <1>4 DEF NothingLost
<1>6. RaceInv
  <2>1. 0 \in Buckets
    BY DEF Buckets
  <2> QED
    BY <1>4, <2>1 DEF RaceInv, LoopHead, Threads
<1> QED
  BY <1>1, <1>2, <1>3, <1>5, <1>6 DEF IInv

\* Where a thread goes at the end of an iteration.
LEMMA HeadLabels ==
    ASSUME BaseInv, NEW t \in Threads, pc[t] # "exit"
    PROVE  /\ LoopHead(t) \in LabelsOf(t)
           /\ LoopHead(t) \notin {"unlock", "store", "exit", "read"}
           /\ Locked => LoopHead(t) \notin Critical
<1>1. t \in Reading => discipline = "rwlock"
  BY DEF BaseInv, LabelsOf
<1> QED
  BY <1>1 DEF BaseInv, LoopHead, LabelsOf, Locked, Critical, Disciplines

\* Every statement of every thread preserves the invariant.
LEMMA NextInv == IInv /\ [Next]_vars => IInv'
<1> SUFFICES ASSUME IInv, [Next]_vars PROVE IInv'
  OBVIOUS
<1> USE CountersAssumption DEF IInv
<1>0. 0 \in Buckets /\ \A t \in Counting : t \in Threads /\ t \notin Reading
  BY DEF Buckets, Threads
<1>1. ASSUME NEW t \in Threads, Lock(t) PROVE IInv'
  <2>0. /\ pc[t] = "lock" /\ pc' = [pc EXCEPT ![t] = "load"] /\ Locked
        /\ t \in Counting /\ i[t] \in Nat /\ LockOf(i[t]) \in Buckets
        /\ holders[LockOf(i[t])] = {}
        /\ UNCHANGED <<discipline, table, i, reg>>
    BY <1>1, InTable DEF Lock, Step, Exclusive, BaseInv, LabelsOf, Locked, Threads
  <2>1. BaseInv'
    BY <1>1, <2>0 DEF Lock, BaseInv, LabelsOf, Locked, Disciplines
  <2>2. LoopInv' /\ RegInv'
    BY <2>0 DEF BaseInv, LoopInv, RegInv, Locked, BucketOf
  <2>3. LockInv'
    <3>1. \A l \in Buckets : holders'[l] = IF l = LockOf(i[t]) THEN {t} ELSE holders[l]
      BY <1>1, <2>0 DEF Lock, BaseInv
    <3>2. \A k : LockOf(k)' = LockOf(k)
      BY <2>0 DEF LockOf
    <3>3. \A u \in Threads : \A l \in Buckets :
            Holds(u, l)' <=> Holds(u, l) \/ (u = t /\ l = LockOf(i[t]))
      BY <2>0, <3>2 DEF BaseInv, Holds, Locked, Critical
    <3>4. \A u \in Threads : ~Holds(u, LockOf(i[t])) /\ \A l \in Buckets : ~Holds(t, l)
      BY <2>0 DEF LockInv, Holds, Critical
    <3>5. \A l \in Buckets : holders'[l] = {u \in Threads : Holds(u, l)'}
      BY <2>0, <3>1, <3>3, <3>4 DEF LockInv
    <3>6. \A l \in Buckets : \A c \in Counting : \A u \in Threads :
            Holds(c, l)' /\ Holds(u, l)' => c = u
      BY <1>0, <3>3, <3>4 DEF LockInv
    <3> QED
      BY <3>5, <3>6 DEF LockInv
  <2>4. \A b \in Buckets : Stored(b)' = Stored(b)
    BY <2>0, StoredSame
  <2>5. RaceInv' /\ NothingLost'
    BY <2>0, <2>4 DEF RaceInv, NothingLost, Locked
  <2> QED
    BY <2>1, <2>2, <2>3, <2>5
<1>2. ASSUME NEW t \in Threads, ReadLock(t) PROVE IInv'
  <2>0. /\ pc[t] = "rdlock" /\ pc' = [pc EXCEPT ![t] = "read"] /\ Locked
        /\ t \in Reading /\ t \notin Counting /\ LockOf(i[t]) = 0 /\ discipline = "rwlock"
        /\ UNCHANGED <<discipline, table, i, reg>>
    BY <1>2 DEF ReadLock, Step, BaseInv, LabelsOf, LockOf, Locked, Threads
  <2>1. BaseInv'
    BY <1>2, <2>0 DEF ReadLock, BaseInv, LabelsOf
  <2>2. LoopInv' /\ RegInv'
    BY <2>0 DEF BaseInv, LoopInv, RegInv, Locked, BucketOf
  <2>3. LockInv'
    BY <1>0, <1>2, <2>0 DEF ReadLock, BaseInv, LockInv, Holds, Locked, Critical, LockOf
  <2>4. \A b \in Buckets : Stored(b)' = Stored(b)
    BY <2>0, StoredSame
  <2>5. RaceInv' /\ NothingLost'
    BY <2>0, <2>4 DEF RaceInv, NothingLost, Locked
  <2> QED
    BY <2>1, <2>2, <2>3, <2>5
<1>3. ASSUME NEW t \in Threads, Read(t) PROVE IInv'
  <2>0. /\ pc[t] = "read" /\ pc' = [pc EXCEPT ![t] = "unlock"] /\ discipline = "rwlock"
        /\ t \in Reading /\ t \notin Counting
        /\ UNCHANGED <<discipline, table, holders, i, reg>>
    BY <1>3 DEF Read, Step, BaseInv, LabelsOf
  <2>1. BaseInv'
    BY <2>0 DEF BaseInv, LabelsOf
  <2>2. LoopInv' /\ RegInv'
    BY <2>0 DEF BaseInv, LoopInv, RegInv, Locked, BucketOf
  <2>3. LockInv'
    BY <2>0 DEF BaseInv, LockInv, Holds, Locked, Critical, LockOf
  <2>4. \A b \in Buckets : Stored(b)' = Stored(b)
    BY <1>0, <2>0, StoredSame DEF BaseInv
  <2>5. RaceInv' /\ NothingLost'
    BY <2>0, <2>4 DEF RaceInv, NothingLost
  <2> QED
    BY <2>1, <2>2, <2>3, <2>5
<1>4. ASSUME NEW t \in Threads, Load(t) PROVE IInv'
  <2>0. /\ pc[t] = "load" /\ pc' = [pc EXCEPT ![t] = "store"] /\ t \in Counting
        /\ reg' = [reg EXCEPT ![t] = table[BucketOf(i[t])]]
        /\ i[t] \in Nat /\ BucketOf(i[t]) \in Buckets
        /\ discipline = "racy" => BucketOf(i[t]) = 0
        /\ UNCHANGED <<discipline, table, holders, i>>
    BY <1>4, InTable DEF Load, Step, BaseInv, LabelsOf, Threads, BucketOf
  <2>1. BaseInv'
    BY <2>0 DEF BaseInv, LabelsOf
  <2>2. LoopInv' /\ RegInv'
    BY <2>0 DEF BaseInv, LoopInv, RegInv, Locked, BucketOf
  <2>3. LockInv'
    BY <2>0 DEF BaseInv, LockInv, Holds, Locked, Critical, LockOf
  <2>4. \A b \in Buckets : Stored(b)' = Stored(b)
    BY <2>0, StoredSame
  <2>5. NothingLost'
    BY <2>0, <2>4 DEF NothingLost
  <2>6. RaceInv'
    BY <1>0, <2>0, <2>4 DEF RaceInv, BaseInv
  <2> QED
    BY <2>1, <2>2, <2>3, <2>5, <2>6
<1>5. ASSUME NEW t \in Threads, Store(t) PROVE IInv'
  <2> DEFINE b0 == BucketOf(i[t])
  <2>0. /\ pc[t] = "store" /\ t \in Counting /\ i[t] \in Nat /\ i[t] < Iters /\ b0 \in Buckets
        /\ table' = [table EXCEPT ![b0] = reg[t] + 1] /\ reg' = [reg EXCEPT ![t] = 0]
        /\ UNCHANGED <<discipline, holders>>
    BY <1>5, InTable DEF Store, EndIteration, Step, BaseInv, LoopInv, LabelsOf, Threads
  <2>1. CASE discipline = "racy"
    <3>0. /\ i' = [i EXCEPT ![t] = @ + 1] /\ ~Locked /\ b0 = 0
          /\ pc' = [pc EXCEPT ![t] = IF Loops(t) THEN "load" ELSE "exit"]
      BY <1>5, <2>1 DEF Store, EndIteration, Step, LoopHead, Locked, BucketOf
    <3>1. BaseInv'
      BY <2>0, <2>1, <3>0 DEF BaseInv, LabelsOf
    <3>2. LoopInv' /\ RegInv'
      BY <2>0, <2>1, <3>0 DEF BaseInv, LoopInv, RegInv, Loops, Locked
    <3>3. LockInv'
      BY <2>0, <2>1, <3>0 DEF LockInv, Holds, Locked
    <3>4. \A b \in Buckets : Cardinality(Stored(b))' =
            IF b = b0 THEN Cardinality(Stored(b)) + 1 ELSE Cardinality(Stored(b))
      BY <2>0, <3>0, StoredAdds
    <3>5. \A b \in Buckets : Cardinality(Stored(b)) \in Nat
      BY StoredFinite
    <3>6. RaceInv'
      <4>1. \A b \in Buckets : table'[b] <= Cardinality(Stored(b))'
        BY <2>0, <2>1, <3>0, <3>4, <3>5 DEF RaceInv, BaseInv
      <4>2. \A u \in Threads : reg'[u] <= Cardinality(Stored(0))'
        BY <1>0, <2>0, <2>1, <3>0, <3>4, <3>5 DEF RaceInv, BaseInv
      <4>3. table'[0] > 0 /\ (i[t] > 0 => table'[0] > 1)
        BY <1>0, <2>0, <2>1, <3>0 DEF RaceInv, BaseInv
      <4>4. \A u \in Counting : i'[u] > 0 /\ pc'[u] = "store" => reg'[u] > 0
        BY <1>0, <2>0, <2>1, <3>0 DEF RaceInv, BaseInv
      <4>5. Iters > 1 /\ table'[0] < 2 => pc'[t] # "exit"
        BY <1>0, <2>0, <3>0, <4>3 DEF BaseInv, Loops
      <4> QED
        BY <2>0, <4>1, <4>2, <4>3, <4>4, <4>5 DEF RaceInv
    <3>7. NothingLost'
      BY <2>0, <2>1 DEF NothingLost
    <3> QED
      BY <3>1, <3>2, <3>3, <3>6, <3>7
  <2>2. CASE discipline # "racy"
    <3>0. /\ i' = i /\ Locked /\ pc' = [pc EXCEPT ![t] = "unlock"]
          /\ reg[t] = table[b0]
      BY <1>5, <2>0, <2>2 DEF Store, Step, Locked, BaseInv, LabelsOf, RegInv
    <3>1. BaseInv'
      BY <2>0, <2>2, <3>0 DEF BaseInv, LabelsOf, Locked
    <3>2. LoopInv'
      BY <2>0, <3>0 DEF BaseInv, LoopInv
    <3>3. RegInv'
      <4>1. ASSUME NEW u \in Threads, pc'[u] = "store" PROVE reg'[u] = table'[BucketOf(i[u])]
        <5>1. u # t /\ pc[u] = "store" /\ i[u] \in Nat /\ BucketOf(i[u]) \in Buckets
          BY <2>0, <3>0, <4>1, InTable DEF BaseInv
        <5>2. LockOf(i[u]) # LockOf(i[t])
          BY <2>0, <3>0, <5>1, InTable DEF LockInv, Holds, Critical
        <5>3. BucketOf(i[u]) # b0
          BY <2>0, <3>0, <5>1, <5>2, SameLock
        <5> QED
          BY <2>0, <3>0, <5>1, <5>3 DEF RegInv, BaseInv
      <4>2. \A k : BucketOf(k)' = BucketOf(k)
        BY <2>0 DEF BucketOf
      <4> QED
        BY <2>0, <3>0, <4>1, <4>2 DEF RegInv, BaseInv
    <3>4. LockInv'
      BY <2>0, <3>0 DEF BaseInv, LockInv, Holds, Locked, Critical, LockOf
    <3>5. \A b \in Buckets : Cardinality(Stored(b))' =
            IF b = b0 THEN Cardinality(Stored(b)) + 1 ELSE Cardinality(Stored(b))
      BY <2>0, <3>0, StoredAdds
    <3>6. NothingLost'
      BY <2>0, <2>2, <3>0, <3>5 DEF NothingLost, BaseInv
    <3>7. RaceInv'
      BY <2>0, <2>2 DEF RaceInv
    <3> QED
      BY <3>1, <3>2, <3>3, <3>4, <3>6, <3>7
  <2> QED
    BY <2>1, <2>2
<1>6. ASSUME NEW t \in Threads, Unlock(t) PROVE IInv'
  <2> DEFINE l == IF Loops(t) THEN LoopHead(t) ELSE "exit"
  <2>0. /\ pc[t] = "unlock" /\ i[t] \in Nat /\ i[t] < Iters /\ LockOf(i[t]) \in Buckets
        /\ pc' = [pc EXCEPT ![t] = l] /\ i' = [i EXCEPT ![t] = @ + 1] /\ Locked
        /\ holders' = [holders EXCEPT ![LockOf(i[t])] = @ \ {t}]
        /\ UNCHANGED <<discipline, table, reg>>
    BY <1>6, InTable DEF Unlock, EndIteration, Step, Released, BaseInv, LoopInv, LabelsOf, Locked
  <2>1. /\ l \in LabelsOf(t) /\ l \notin Critical /\ l \notin {"unlock", "store"}
        /\ l = "exit" <=> i[t] + 1 = Iters
    BY <2>0, HeadLabels DEF Loops, LabelsOf, Critical, BaseInv, Locked
  <2>2. BaseInv'
    BY <2>0, <2>1 DEF BaseInv, LabelsOf
  <2>3. LoopInv' /\ RegInv'
    BY <2>0, <2>1 DEF BaseInv, LoopInv, RegInv, Locked, BucketOf
  <2>4. LockInv'
    <3>1. \A k \in Buckets : holders'[k] = IF k = LockOf(i[t]) THEN holders[k] \ {t} ELSE holders[k]
      BY <2>0 DEF BaseInv
    <3>2. \A k : LockOf(k)' = LockOf(k)
      BY <2>0 DEF LockOf
    <3>3. \A u \in Threads : \A k \in Buckets : Holds(u, k)' <=> Holds(u, k) /\ u # t
      BY <2>0, <2>1, <3>2 DEF BaseInv, Holds, Locked
    <3>4. \A k \in Buckets : Holds(t, k) => k = LockOf(i[t])
      BY DEF Holds
    <3>5. \A k \in Buckets : holders'[k] = {u \in Threads : Holds(u, k)'}
      BY <2>0, <3>1, <3>3, <3>4 DEF LockInv
    <3>6. \A k \in Buckets : \A c \in Counting : \A u \in Threads :
            Holds(c, k)' /\ Holds(u, k)' => c = u
      BY <1>0, <3>3 DEF LockInv
    <3> QED
      BY <3>5, <3>6 DEF LockInv
  <2>5. \A b \in Buckets : Stored(b)' = Stored(b)
    BY <2>0, <2>1, StoredSame
  <2>6. RaceInv' /\ NothingLost'
    BY <2>0, <2>5 DEF RaceInv, NothingLost, Locked
  <2> QED
    BY <2>2, <2>3, <2>4, <2>6
<1>7. ASSUME NEW t \in Threads, FetchAdd(t) PROVE IInv'
  <2> DEFINE l == IF Loops(t) THEN "fetch_add" ELSE "exit"
  <2>a. /\ pc[t] = "fetch_add" /\ t \in Counting /\ discipline = "atomic"
         /\ i[t] \in Nat /\ i[t] < Iters /\ LoopHead(t) = "fetch_add"
    BY <1>7 DEF FetchAdd, EndIteration, Step, LoopHead, BaseInv, LoopInv, LabelsOf, Threads
  <2>0. /\ pc[t] = "fetch_add" /\ t \in Counting /\ discipline = "atomic" /\ i[t] \in Nat /\ i[t] < Iters
        /\ pc' = [pc EXCEPT ![t] = l] /\ i' = [i EXCEPT ![t] = @ + 1] /\ ~Locked
        /\ table' = [table EXCEPT ![0] = @ + 1] /\ BucketOf(i[t]) = 0
        /\ UNCHANGED <<discipline, holders, reg>>
    BY <1>7, <2>a DEF FetchAdd, EndIteration, Step, Locked, BucketOf
  <2>1. BaseInv'
    BY <1>0, <2>0 DEF BaseInv, LabelsOf
  <2>2. LoopInv' /\ RegInv'
    BY <2>0 DEF BaseInv, LoopInv, RegInv, Locked, Loops
  <2>3. LockInv'
    BY <2>0 DEF LockInv, Holds, Locked
  <2>4. \A b \in Buckets : Cardinality(Stored(b))' =
          IF b = 0 THEN Cardinality(Stored(b)) + 1 ELSE Cardinality(Stored(b))
    BY <2>0, StoredAdds
  <2>5. RaceInv' /\ NothingLost'
    BY <1>0, <2>0, <2>4 DEF RaceInv, NothingLost, BaseInv
  <2> QED
    BY <2>1, <2>2, <2>3, <2>5
<1>8. ASSUME UNCHANGED vars PROVE IInv'
  BY <1>8 DEF vars, BaseInv, LabelsOf, LoopInv, LockInv, Holds, Locked, LockOf, RegInv, BucketOf,
              RaceInv, NothingLost, Stored
<1> QED
  BY <1>1, <1>2, <1>3, <1>4, <1>5, <1>6, <1>7, <1>8 DEF Next, ThreadStep, Joined

-----------------------------------------------------------------------------
\* Every reachable state of every discipline satisfies the invariant.
THEOREM Invariance == Spec => []IInv
BY InitInv, NextInv, PTL DEF Spec

\* TypeOK holds in every reachable state: in particular a lock held for
\* writing has one holder, and no counter or register ever passes Total.
THEOREM CountersTyped == Spec => []TypeOK
<1>1. IInv => TypeOK
  <2> SUFFICES ASSUME IInv PROVE TypeOK
    OBVIOUS
  <2> USE CountersAssumption DEF IInv
  <2>1. \A b \in Buckets : table[b] \in 0 .. Total
    <3>1. \A b \in Buckets : table[b] <= Cardinality(Stored(b))
      BY StoredFinite DEF NothingLost, RaceInv
    <3> QED
      BY <3>1, StoredFinite DEF BaseInv
  <2>2. \A t \in Threads : reg[t] \in 0 .. Total
    <3>1. CASE discipline = "racy"
      BY <3>1, StoredFinite DEF RaceInv, BaseInv
    <3>2. CASE discipline # "racy"
      <4>1. ASSUME NEW t \in Threads PROVE reg[t] = 0 \/ reg[t] = table[BucketOf(i[t])]
        BY <3>2 DEF RegInv, Locked, BaseInv, LabelsOf
      <4>2. \A t \in Threads : BucketOf(i[t]) \in Buckets
        BY InTable DEF BaseInv
      <4> QED
        BY <2>1, <4>1, <4>2, StoredFinite
    <3> QED
      BY <3>1, <3>2
  <2>3. ASSUME NEW l \in Buckets PROVE Cardinality(holders[l]) <= 1 \/ holders[l] \subseteq Reading
    <3>1. CASE \E t \in Counting : t \in holders[l]
      <4>1. PICK t \in Counting : t \in holders[l]
        BY <3>1
      <4>2. holders[l] = {t}
        BY <4>1 DEF LockInv
      <4> QED
        BY <4>2, FS_Singleton
    <3>2. CASE \A t \in Counting : t \notin holders[l]
      BY <3>2 DEF BaseInv, Threads
    <3> QED
      BY <3>1, <3>2
  <2> QED
    BY <2>1, <2>2, <2>3 DEF TypeOK, BaseInv
<1> QED
  BY <1>1, Invariance, PTL

\* Under an atomic or any lock no increment is lost, at any time and in any
\* bucket, for every number of threads and iterations.
THEOREM NoLostUpdate == Spec => []NothingLost
<1>1. IInv => NothingLost
  BY DEF IInv
<1> QED
  BY <1>1, Invariance, PTL

\* The race of lab_18 ends with a counter between 2 and the number of
\* increments, whatever the interleaving of the loads and the stores.
THEOREM RaceBounded == Spec => []RaceBounds
<1>1. IInv => RaceBounds
  <2> SUFFICES ASSUME IInv, discipline = "racy", Exited, Counting # {}, Iters > 1
               PROVE  table[0] \in 2 .. Total
    BY DEF RaceBounds
  <2>1. 0 \in Buckets /\ table[0] \in Nat
    BY CountersAssumption DEF IInv, BaseInv, Buckets
  <2>2. table[0] <= Total
    BY <2>1, StoredFinite DEF IInv, RaceInv
  <2>3. ~(table[0] < 2)
    BY DEF IInv, RaceInv, Exited, Threads
  <2> QED
    BY <2>1, <2>2, <2>3, StoredFinite
<1> QED
  BY <1>1, Invariance, PTL
=============================================================================
