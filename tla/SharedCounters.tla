--------------------------- MODULE SharedCounters ---------------------------
(***************************************************************************)
(* The counting threads of four labs.  Each increments shared counters     *)
(* Iters times under one of the disciplines                                *)
(*    racy    labs/lab_18_concurrency.c, volatile long counter_racy        *)
(*    atomic  labs/lab_18_concurrency.c, atomic_fetch_add                  *)
(*    mutex   labs/lab_19_locking.c, a mutex or a spinlock                 *)
(*    coarse  labs/lab_20_finegrained_lock.c, one lock for all buckets     *)
(*    fine    labs/lab_20_finegrained_lock.c, one lock for each bucket     *)
(*    rwlock  labs/lab_21_lock_variations.c, writers among readers         *)
(* A C increment is a load and a store.  Every lock is a set of holders;   *)
(* only read locks have more than one.                                     *)
(***************************************************************************)
EXTENDS Integers, FiniteSets

CONSTANTS Counting,   \* the incrementing threads
          Reading,    \* the readers of lab_21
          Iters,      \* increments of every thread
          NBUCKETS    \* buckets of lab_20's tables

ASSUME CountersAssumption ==
    /\ IsFiniteSet(Counting) /\ Counting \cap Reading = {}
    /\ Iters \in Nat \ {0} /\ NBUCKETS \in Nat \ {0}

Disciplines == {"racy", "atomic", "mutex", "coarse", "fine", "rwlock"}
Threads == Counting \cup Reading
Buckets == 0 .. NBUCKETS - 1

VARIABLES discipline,
          table,   \* the counter, or the buckets
          holders, \* the threads that hold each lock
          pc, i,   \* every thread's next statement and loop counter
          reg      \* the value every thread has loaded, 0 once it is used

vars == <<discipline, table, holders, pc, i, reg>>

\* What the i-th iteration increments, and which lock it takes.
BucketOf(k) == IF discipline \in {"coarse", "fine"} THEN k % NBUCKETS ELSE 0

\* Mutant: the bucket's lock is chosen from the wrong digit of the key.
LockOfShifted(k) == IF discipline = "fine" THEN k \div NBUCKETS ELSE 0

LockOf(k) == IF discipline = "fine" THEN k % NBUCKETS ELSE 0

\* Where an iteration begins.
LoopHead(t) ==
    CASE discipline = "racy" -> "load"
      [] discipline = "atomic" -> "fetch_add"
      [] OTHER -> IF t \in Reading THEN "rdlock" ELSE "lock"

Init ==
    /\ discipline \in Disciplines
    /\ table = [b \in Buckets |-> 0]
    /\ holders = [l \in Buckets |-> {}]
    /\ pc = [t \in Threads |->
                IF t \in Reading /\ discipline # "rwlock" THEN "exit" ELSE LoopHead(t)]
    /\ i = [t \in Threads |-> 0]
    /\ reg = [t \in Threads |-> 0]

-----------------------------------------------------------------------------
Step(t, from, to) == pc[t] = from /\ pc' = [pc EXCEPT ![t] = to]

\* Mutant: i <= n as the loop condition.
LoopsOneMore(t) == i[t] < Iters
Loops(t) == i[t] + 1 < Iters

\* The end of the body of the for loop.
EndIteration(t, from) ==
    /\ Step(t, from, IF Loops(t) THEN LoopHead(t) ELSE "exit")
    /\ i' = [i EXCEPT ![t] = @ + 1]

\* Mutant: the counting threads take the lock like readers.
ExclusiveShared(l) == holders[l] \cap Reading = {}

\* Whether the lock l can be taken by a thread that counts.
Exclusive(l) == holders[l] = {}

\* pthread_mutex_lock, pthread_spin_lock, pthread_rwlock_wrlock.
Lock(t) ==
    /\ Step(t, "lock", "load")
    /\ Exclusive(LockOf(i[t]))
    /\ holders' = [holders EXCEPT ![LockOf(i[t])] = @ \cup {t}]
    /\ UNCHANGED <<discipline, table, i, reg>>

\* pthread_rwlock_rdlock: no writer holds the lock.
ReadLock(t) ==
    /\ Step(t, "rdlock", "read")
    /\ holders[0] \cap Counting = {}
    /\ holders' = [holders EXCEPT ![0] = @ \cup {t}]
    /\ UNCHANGED <<discipline, table, i, reg>>

\* s += shared_data; the sum is not used.
Read(t) ==
    /\ Step(t, "read", "unlock")
    /\ UNCHANGED <<discipline, table, holders, i, reg>>

\* The load of counter++.
Load(t) ==
    /\ Step(t, "load", "store")
    /\ reg' = [reg EXCEPT ![t] = table[BucketOf(i[t])]]
    /\ UNCHANGED <<discipline, table, holders, i>>

\* The store of counter++; without a lock it ends the iteration.
Store(t) ==
    /\ table' = [table EXCEPT ![BucketOf(i[t])] = reg[t] + 1]
    /\ IF discipline = "racy"
       THEN EndIteration(t, "store")
       ELSE Step(t, "store", "unlock") /\ UNCHANGED i
    /\ reg' = [reg EXCEPT ![t] = 0]
    /\ UNCHANGED <<discipline, holders>>

\* Mutant: the lock is not given back after the last iteration.
ReleasedNotLast(t) == holders[LockOf(i[t])] \ (IF Loops(t) THEN {t} ELSE {})

\* Who is left holding t's lock when t has unlocked it.
Released(t) == holders[LockOf(i[t])] \ {t}

Unlock(t) ==
    /\ EndIteration(t, "unlock")
    /\ holders' = [holders EXCEPT ![LockOf(i[t])] = Released(t)]
    /\ UNCHANGED <<discipline, table, reg>>

\* atomic_fetch_add(&counter_safe, 1);
FetchAdd(t) ==
    /\ EndIteration(t, "fetch_add")
    /\ table' = [table EXCEPT ![0] = @ + 1]
    /\ UNCHANGED <<discipline, holders, reg>>

-----------------------------------------------------------------------------
Exited == \A t \in Threads : pc[t] = "exit"

\* main() has joined the threads and prints the counter.
Joined == Exited /\ UNCHANGED vars

ThreadStep(t) == \/ Lock(t) \/ ReadLock(t) \/ Read(t) \/ Load(t) \/ Store(t)
                 \/ Unlock(t) \/ FetchAdd(t)

Next == (\E t \in Threads : ThreadStep(t)) \/ Joined

\* Every thread that can run does; the loops are finite.
Spec == Init /\ [][Next]_vars /\ \A t \in Threads : WF_vars(ThreadStep(t))

-----------------------------------------------------------------------------
Total == Iters * Cardinality(Counting)

\* The values of the variables; a lock held for writing has one holder.
TypeOK ==
    /\ discipline \in Disciplines
    /\ table \in [Buckets -> 0 .. Total]
    /\ holders \in [Buckets -> SUBSET Threads]
    /\ \A l \in Buckets : Cardinality(holders[l]) <= 1 \/ holders[l] \subseteq Reading
    /\ pc \in [Threads -> {"lock", "rdlock", "read", "load", "store", "unlock",
                           "fetch_add", "exit"}]
    /\ i \in [Threads -> 0 .. Iters]
    /\ reg \in [Threads -> 0 .. Total]

\* The increments that have been stored in bucket b: a thread and its iteration.
Stored(b) ==
    {w \in Counting \X (0 .. Iters - 1) :
        /\ BucketOf(w[2]) = b
        /\ w[2] < i[w[1]] \/ (w[2] = i[w[1]] /\ pc[w[1]] = "unlock")}

\* Except for the race, a counter is at all times the number of increments the
\* threads have made: "correct with atomics", and as correct with any lock.
NothingLost ==
    discipline # "racy" => \A b \in Buckets : table[b] = Cardinality(Stored(b))

\* The race loses updates, yet it can neither invent one nor, when the threads
\* make two increments or more, lose all but one.
RaceBounds ==
    discipline = "racy" /\ Exited /\ Counting # {} /\ Iters > 1 =>
        table[0] \in 2 .. Total

\* All threads return and main() prints the counter.
Termination == <>Exited
=============================================================================
