-------------------------- MODULE SemaphoreBuffer --------------------------
(***************************************************************************)
(* The bounded buffer of labs/lab_23_mpmc_semaphore.c: producers and       *)
(* consumers share a ring of BUFSIZE slots.  The semaphore empty_slots     *)
(* admits producers, full_slots admits consumers, and buf_mtx orders those *)
(* admitted.  The flag stop is never set by the program and is left out of *)
(* the loop conditions.                                                    *)
(***************************************************************************)
EXTENDS Integers, Sequences, FiniteSets

CONSTANTS Producers, Consumers,
          BUFSIZE,   \* slots of the ring (5 in the code)
          Rounds     \* iterations of every thread's loop (10 in the code)

\* main() starts as many producers as consumers.
ASSUME SemaphoreAssumption ==
    /\ BUFSIZE \in Nat \ {0}
    /\ Rounds \in Nat \ {0}
    /\ IsFiniteSet(Producers) /\ IsFiniteSet(Consumers)
    /\ Producers \cap Consumers = {}
    /\ Cardinality(Producers) = Cardinality(Consumers)

Threads == Producers \cup Consumers
Slots == 0 .. BUFSIZE - 1
NItems == Rounds * Cardinality(Producers)

VARIABLES
    buffer, in_i, out_i, total_produced, total_consumed,  \* the globals
    sem,       \* the values of the semaphores empty_slots and full_slots
    buf_mtx,   \* the threads that hold the mutex
    pc,        \* the next statement of every thread
    i,         \* the loop counter of every thread
    val,       \* the local val of every producer
    got        \* the values of the "got" lines, in the order they are printed

ring == <<buffer, in_i, out_i>>
totals == <<total_produced, total_consumed>>
vars == <<ring, totals, sem, buf_mtx, pc, i, val, got>>

\* Mutant: both semaphores start at BUFSIZE.
SemInitBothFull == [empty_slots |-> BUFSIZE, full_slots |-> BUFSIZE]

\* main(): BUFSIZE free slots, no full one.
SemInit == [empty_slots |-> BUFSIZE, full_slots |-> 0]

Init ==
    /\ buffer = [s \in Slots |-> 0]
    /\ in_i = 0 /\ out_i = 0
    /\ total_produced = 0 /\ total_consumed = 0
    /\ sem = SemInit
    /\ buf_mtx = {}
    /\ pc = [t \in Threads |-> "sem_wait"]
    /\ i = [t \in Threads |-> 0]
    /\ val = [p \in Producers |-> 0]
    /\ got = <<>>

-----------------------------------------------------------------------------
Step(t, from, to) == pc[t] = from /\ pc' = [pc EXCEPT ![t] = to]

\* The semaphore a thread waits on, and the one it posts.
Awaits(t) == IF t \in Producers THEN "empty_slots" ELSE "full_slots"

\* Mutant: every thread posts full_slots.
PostsFull(t) == "full_slots"
Posts(t) == IF t \in Producers THEN "full_slots" ELSE "empty_slots"

\* Mutant: sem_wait does not block.
AdmittedAlways(t) == TRUE
Admitted(t) == sem[Awaits(t)] > 0

SemWait(t) ==
    /\ Step(t, "sem_wait", "lock")
    /\ Admitted(t)
    /\ sem' = [sem EXCEPT ![Awaits(t)] = @ - 1]
    /\ UNCHANGED <<ring, totals, buf_mtx, i, val, got>>

\* Mutant: the mutex does not exclude.
MutexIgnored == TRUE
MutexFree == buf_mtx = {}

Lock(t) ==
    /\ Step(t, "lock", IF t \in Producers THEN "number" ELSE "load")
    /\ MutexFree
    /\ buf_mtx' = buf_mtx \cup {t}
    /\ UNCHANGED <<ring, totals, sem, i, val, got>>

\* int val = __sync_fetch_and_add(&total_produced, 1);
ProduceNumber(p) ==
    /\ Step(p, "number", "store")
    /\ val' = [val EXCEPT ![p] = total_produced]
    /\ total_produced' = total_produced + 1
    /\ UNCHANGED <<ring, total_consumed, sem, buf_mtx, i, got>>

ProduceStore(p) ==
    /\ Step(p, "store", "unlock")
    /\ buffer' = [buffer EXCEPT ![in_i] = val[p]]
    /\ in_i' = (in_i + 1) % BUFSIZE
    /\ UNCHANGED <<out_i, totals, sem, buf_mtx, i, val, got>>

ConsumeLoad(c) ==
    /\ Step(c, "load", "count")
    /\ got' = Append(got, buffer[out_i])
    /\ out_i' = (out_i + 1) % BUFSIZE
    /\ UNCHANGED <<buffer, in_i, totals, sem, buf_mtx, i, val>>

\* __sync_fetch_and_add(&total_consumed, 1);
ConsumeCount(c) ==
    /\ Step(c, "count", "unlock")
    /\ total_consumed' = total_consumed + 1
    /\ UNCHANGED <<ring, total_produced, sem, buf_mtx, i, val, got>>

Unlock(t) ==
    /\ Step(t, "unlock", "sem_post")
    /\ buf_mtx' = buf_mtx \ {t}
    /\ UNCHANGED <<ring, totals, sem, i, val, got>>

\* Mutant: i <= 10 as the loop condition.
LoopsOneMore(t) == i[t] < Rounds
Loops(t) == i[t] + 1 < Rounds

\* sem_post, and the end of the loop body.
SemPost(t) ==
    /\ Step(t, "sem_post", IF Loops(t) THEN "sem_wait" ELSE "exit")
    /\ sem' = [sem EXCEPT ![Posts(t)] = @ + 1]
    /\ i' = [i EXCEPT ![t] = @ + 1]
    /\ UNCHANGED <<ring, totals, buf_mtx, val, got>>

-----------------------------------------------------------------------------
Exited == \A t \in Threads : pc[t] = "exit"

\* main() has joined the four threads and prints the totals.
Joined == Exited /\ UNCHANGED vars

Run(t) == SemWait(t) \/ Lock(t) \/ Unlock(t) \/ SemPost(t)
Produce(p) == ProduceNumber(p) \/ ProduceStore(p)
Consume(c) == ConsumeLoad(c) \/ ConsumeCount(c)

Next ==
    \/ \E t \in Threads : Run(t)
    \/ \E p \in Producers : Produce(p)
    \/ \E c \in Consumers : Consume(c)
    \/ Joined

\* Every thread that can run does.  The loops are finite, so nothing stronger
\* is needed of the mutex and the semaphores.
Fairness ==
    /\ \A t \in Threads : WF_vars(Run(t))
    /\ \A p \in Producers : WF_vars(Produce(p))
    /\ \A c \in Consumers : WF_vars(Consume(c))

Spec == Init /\ [][Next]_vars /\ Fairness

-----------------------------------------------------------------------------
At(S, labels) == {t \in S : pc[t] \in labels}

\* The values of the variables; the semaphores count no more than the ring
\* has slots.
TypeOK ==
    /\ buffer \in [Slots -> 0 .. NItems]
    /\ in_i \in Slots /\ out_i \in Slots
    /\ total_produced \in 0 .. NItems
    /\ total_consumed \in 0 .. NItems
    /\ sem \in [{"empty_slots", "full_slots"} -> 0 .. BUFSIZE]
    /\ buf_mtx \in SUBSET Threads
    /\ pc \in [Threads -> {"sem_wait", "lock", "number", "store", "load",
                           "count", "unlock", "sem_post", "exit"}]
    /\ i \in [Threads -> 0 .. Rounds]
    /\ val \in [Producers -> 0 .. NItems]
    /\ got \in Seq(0 .. NItems)

\* Every slot is accounted for: it is free, it is full, or exactly one thread
\* between its sem_wait and its sem_post has it in hand.
SlotsConserved ==
    sem.empty_slots + sem.full_slots
        + Cardinality(At(Threads, {"lock", "number", "store", "load", "count",
                                   "unlock", "sem_post"})) = BUFSIZE

\* When all threads have been joined, "Total produced" and "consumed" are both
\* the number of items, every item was got, and the ring is free again.
TotalsAtExit ==
    Exited => /\ total_produced = NItems /\ total_consumed = NItems
              /\ Len(got) = NItems
              /\ sem.empty_slots = BUFSIZE

Made == total_produced - Cardinality(At(Producers, {"store"}))
Contents == [k \in 1 .. Made - Len(got) |-> buffer[(out_i + k - 1) % BUFSIZE]]

Queue == INSTANCE BoundedQueue WITH Capacity <- BUFSIZE, queue <- Contents,
                                    made <- Made, delivered <- got

\* The lab implements the first-in first-out queue although its threads pass
\* semaphore and mutex in different orders: no slot is overwritten before it
\* is read, and every item is got, in the order of its number.
ImplementsQueue == Queue!Spec

\* All threads return: nobody waits for a slot or an item that never comes.
Termination == <>Exited
=============================================================================
