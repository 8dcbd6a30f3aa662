--------------------------- MODULE CondvarBuffer ---------------------------
(***************************************************************************)
(* The bounded buffer of labs/lab_22_condvar.c: one producer thread and a  *)
(* set of consumer threads share a ring of BUFSIZE slots under the mutex   *)
(* mtx, sleep on the condition variables not_full and not_empty, and stop  *)
(* when the producer has set done.                                         *)
(*                                                                         *)
(* The mutex is the set of threads inside it, a condition variable the set *)
(* of threads asleep on it.  A thread leaves a wait set when it is         *)
(* signalled or woken spuriously, and then competes for the mutex again.   *)
(***************************************************************************)
EXTENDS Integers, Sequences

CONSTANTS Producer,   \* the thread running producer()
          Consumers,  \* the threads running consumer()
          BUFSIZE,    \* slots of the ring (8 in the code)
          NItems      \* items the producer makes (20 in the code)

ASSUME BufferAssumption ==
    /\ BUFSIZE \in Nat \ {0}
    /\ NItems \in Nat \ {0}
    /\ Consumers # {}
    /\ Producer \notin Consumers

Threads == {Producer} \cup Consumers
Slots == 0 .. BUFSIZE - 1
NoItem == -1          \* what consume() returns after the end of the stream

VARIABLES
    buffer, count, in_idx, out_idx, done,  \* the globals of the same names
    mtx,       \* the threads that hold the mutex
    not_full,  \* the threads asleep on not_full
    not_empty, \* the threads asleep on not_empty
    pc,        \* the next statement of every thread
    i,         \* the producer's loop counter
    val,       \* the consumers' local val, or consume()'s -1
    consumed   \* the "[C] consumed" lines, in the order they are printed

ring == <<buffer, count, in_idx, out_idx>>
vars == <<buffer, count, in_idx, out_idx, done, mtx, not_full, not_empty,
          pc, i, val, consumed>>

Init ==
    /\ buffer = [s \in Slots |-> 0]
    /\ count = 0
    /\ in_idx = 0
    /\ out_idx = 0
    /\ done = FALSE
    /\ mtx = {}
    /\ not_full = {}
    /\ not_empty = {}
    /\ pc = [t \in Threads |-> "lock"]
    /\ i = 0
    /\ val = [c \in Consumers |-> 0]
    /\ consumed = <<>>

-----------------------------------------------------------------------------
(* The pthread operations.                                                 *)

Goto(t, label) == pc' = [pc EXCEPT ![t] = label]

\* A thread waits for the mutex at the head of produce() and consume(), at the
\* end of producer(), or inside pthread_cond_wait once it has been woken.
WantsMutex(t) ==
    \/ pc[t] \in {"lock", "lock_done"}
    \/ pc[t] = "wait" /\ t \notin not_full \cup not_empty

\* Mutant: the mutex does not exclude.
MutexIgnored == TRUE
MutexFree == mtx = {}

\* Mutant: "if" for the two "while"s, a woken thread does not test again.
ResumesNoRetest(t) ==
    CASE pc[t] = "lock_done" -> "set_done"
      [] pc[t] = "wait" -> IF t = Producer THEN "put" ELSE "get"
      [] OTHER -> "test"

\* A woken thread goes back to the test of its while loop.
Resumes(t) == IF pc[t] = "lock_done" THEN "set_done" ELSE "test"

\* pthread_mutex_lock, and the reacquisition that ends pthread_cond_wait.
Lock(t) ==
    /\ WantsMutex(t)
    /\ MutexFree
    /\ mtx' = mtx \cup {t}
    /\ Goto(t, Resumes(t))
    /\ UNCHANGED <<ring, done, not_full, not_empty, i, val, consumed>>

\* Mutant: the signal is lost.
SignalledNobody(cv) == {cv}

\* What pthread_cond_signal may leave of the wait set cv: one sleeper fewer.
Signalled(cv) == IF cv = {} THEN {{}} ELSE {cv \ {w} : w \in cv}

\* Mutant: signal instead of broadcast, so only one sleeper learns of done.
BroadcastToOne(cv) == Signalled(cv)

\* What pthread_cond_broadcast leaves of it: nobody.
Broadcast(cv) == {{}}

\* POSIX lets pthread_cond_wait return although nobody signalled.
SpuriousWakeup(t) ==
    /\ t \in not_full \cup not_empty
    /\ not_full' = not_full \ {t}
    /\ not_empty' = not_empty \ {t}
    /\ UNCHANGED <<ring, done, mtx, pc, i, val, consumed>>

-----------------------------------------------------------------------------
(* produce(i) and the end of producer().                                   *)

\* Mutant: count > BUFSIZE as the test for a full ring.
RingFullOffByOne == count > BUFSIZE
RingFull == count = BUFSIZE

\* while (count == BUFSIZE) pthread_cond_wait(&not_full, &mtx);
ProduceTest ==
    /\ pc[Producer] = "test"
    /\ \/ /\ RingFull
          /\ not_full' = not_full \cup {Producer}
          /\ mtx' = mtx \ {Producer}
          /\ Goto(Producer, "wait")
       \/ /\ ~RingFull
          /\ Goto(Producer, "put")
          /\ UNCHANGED <<not_full, mtx>>
    /\ UNCHANGED <<ring, done, not_empty, i, val, consumed>>

ProducePut ==
    /\ pc[Producer] = "put"
    /\ buffer' = [buffer EXCEPT ![in_idx] = i]
    /\ in_idx' = (in_idx + 1) % BUFSIZE
    /\ count' = count + 1
    /\ Goto(Producer, "signal")
    /\ UNCHANGED <<out_idx, done, mtx, not_full, not_empty, i, val, consumed>>

ProduceSignal ==
    /\ pc[Producer] = "signal"
    /\ not_empty' \in Signalled(not_empty)
    /\ Goto(Producer, "unlock")
    /\ UNCHANGED <<ring, done, mtx, not_full, i, val, consumed>>

\* pthread_mutex_unlock, and the for loop of producer().
ProduceUnlock ==
    /\ pc[Producer] = "unlock"
    /\ mtx' = mtx \ {Producer}
    /\ i' = i + 1
    /\ Goto(Producer, IF i + 1 < NItems THEN "lock" ELSE "lock_done")
    /\ UNCHANGED <<ring, done, not_full, not_empty, val, consumed>>

\* done = 1; pthread_cond_broadcast(&not_empty); pthread_mutex_unlock(&mtx);
SetDone ==
    /\ pc[Producer] = "set_done"
    /\ done' = TRUE
    /\ not_empty' \in Broadcast(not_empty)
    /\ mtx' = mtx \ {Producer}
    /\ Goto(Producer, "exit")
    /\ UNCHANGED <<ring, not_full, i, val, consumed>>

-----------------------------------------------------------------------------
(* consume() and the loop of consumer().                                   *)

\* Mutant: line 31 without its count == 0, so done alone ends a consumer.
StreamEndedEarly == done
StreamEnded == count = 0 /\ done

\* Lines 30 and 31: sleep, give up, or go on to take an item.
ConsumeTest(c) ==
    /\ pc[c] = "test"
    /\ \/ /\ count = 0 /\ ~done
          /\ not_empty' = not_empty \cup {c}
          /\ mtx' = mtx \ {c}
          /\ Goto(c, "wait")
          /\ UNCHANGED val
       \/ /\ StreamEnded
          /\ val' = [val EXCEPT ![c] = NoItem]
          /\ Goto(c, "unlock")
          /\ UNCHANGED <<not_empty, mtx>>
       \/ /\ count # 0
          /\ Goto(c, "get")
          /\ UNCHANGED <<not_empty, mtx, val>>
    /\ UNCHANGED <<ring, done, not_full, i, consumed>>

ConsumeGet(c) ==
    /\ pc[c] = "get"
    /\ val' = [val EXCEPT ![c] = buffer[out_idx]]
    /\ consumed' = Append(consumed, buffer[out_idx])
    /\ out_idx' = (out_idx + 1) % BUFSIZE
    /\ count' = count - 1
    /\ Goto(c, "signal")
    /\ UNCHANGED <<buffer, in_idx, done, mtx, not_full, not_empty, i>>

ConsumeSignal(c) ==
    /\ pc[c] = "signal"
    /\ not_full' \in Signalled(not_full)
    /\ Goto(c, "unlock")
    /\ UNCHANGED <<ring, done, mtx, not_empty, i, val, consumed>>

\* pthread_mutex_unlock, and while (consume() >= 0).
ConsumeUnlock(c) ==
    /\ pc[c] = "unlock"
    /\ mtx' = mtx \ {c}
    /\ Goto(c, IF val[c] >= 0 THEN "lock" ELSE "exit")
    /\ UNCHANGED <<ring, done, not_full, not_empty, i, val, consumed>>

-----------------------------------------------------------------------------
Exited == \A t \in Threads : pc[t] = "exit"

\* main() joins the producer and the consumers; nothing is left to run.
Joined == Exited /\ UNCHANGED vars

Produce == ProduceTest \/ ProducePut \/ ProduceSignal \/ ProduceUnlock \/ SetDone
Consume(c) == ConsumeTest(c) \/ ConsumeGet(c) \/ ConsumeSignal(c) \/ ConsumeUnlock(c)

Next ==
    \/ \E t \in Threads : Lock(t) \/ SpuriousWakeup(t)
    \/ Produce
    \/ \E c \in Consumers : Consume(c)
    \/ Joined

\* Threads that can run do run, and a thread that keeps asking for the mutex
\* gets it.  Nothing is assumed of spurious wakeups.
Fairness ==
    /\ \A t \in Threads : SF_vars(Lock(t))
    /\ WF_vars(Produce)
    /\ \A c \in Consumers : WF_vars(Consume(c))

Spec == Init /\ [][Next]_vars /\ Fairness

-----------------------------------------------------------------------------
Labels == {"lock", "test", "wait", "put", "get", "signal", "unlock",
           "lock_done", "set_done", "exit"}

\* The values of the variables: the indices stay inside the ring, the counter
\* inside 0 .. BUFSIZE, and only the producer ever sleeps on not_full.
TypeOK ==
    /\ buffer \in [Slots -> 0 .. NItems]
    /\ count \in 0 .. BUFSIZE
    /\ in_idx \in Slots
    /\ out_idx \in Slots
    /\ done \in BOOLEAN
    /\ mtx \in SUBSET Threads
    /\ not_full \in SUBSET {Producer}
    /\ not_empty \in SUBSET Consumers
    /\ pc \in [Threads -> Labels]
    /\ i \in 0 .. NItems
    /\ val \in [Consumers -> {NoItem} \cup 0 .. NItems]
    /\ consumed \in Seq(Nat)

\* The statements a thread runs while it holds the mutex.
Critical == {"test", "put", "get", "signal", "unlock", "set_done"}

\* At most one thread is between pthread_mutex_lock and the matching unlock or
\* wait, so no two threads are ever in the middle of updating the ring.
MutualExclusion ==
    \A t, u \in Threads : pc[t] \in Critical /\ pc[u] \in Critical => t = u

\* The consumers print the items in exactly the order the producer made them:
\* none is lost, repeated or read from a slot before it is written.
ConsumedInOrder == \A k \in 1 .. Len(consumed) : consumed[k] = k - 1

\* consume() returns -1 only when nothing will ever come: the producer is past
\* its last item and every item has been taken.
EndOfStream ==
    \A c \in Consumers : val[c] = NoItem => Len(consumed) = NItems

\* Nobody sleeps through its wakeup.  If the producer sleeps although the ring
\* has room, a consumer is about to signal it; if all consumers sleep although
\* there is an item, the producer is about to signal one; and once done is set
\* no consumer sleeps.
NoLostWakeup ==
    /\ Producer \in not_full /\ count < BUFSIZE =>
           \E c \in Consumers : pc[c] = "signal"
    /\ count > 0 /\ Consumers \subseteq not_empty => pc[Producer] = "signal"
    /\ done => not_empty = {}

\* The ring read from out_idx on is the abstract queue, and ProducePut and
\* ConsumeGet are the only statements that change it.
Contents == [k \in 1 .. count |-> buffer[(out_idx + k - 1) % BUFSIZE]]
Made == IF pc[Producer] \in {"signal", "unlock"} THEN i + 1 ELSE i

Queue == INSTANCE BoundedQueue WITH Capacity <- BUFSIZE, queue <- Contents,
                                    made <- Made, delivered <- consumed

\* The lab implements the first-in first-out queue, liveness included: every
\* item reaches some consumer.
ImplementsQueue == Queue!Spec

\* All three threads return, so the joins of main() do: whoever sleeps when
\* the producer is done is woken and leaves.
Termination == <>Exited
=============================================================================
