------------------------- MODULE CondvarBufferProofs -------------------------
(***************************************************************************)
(* Proofs about the bounded buffer of labs/lab_22_condvar.c, for every     *)
(* ring size, number of items and set of consumers.                        *)
(***************************************************************************)
EXTENDS CondvarBuffer, TLAPS

\* Position x of the ring, counted from slot 0 and at most once around.
Wrap(x) == IF x < BUFSIZE THEN x ELSE x - BUFSIZE

\* Which statements each thread can be at, and that sleepers are in wait.
ControlInv ==
    /\ pc[Producer] # "get"
    /\ \A c \in Consumers : pc[c] \notin {"put", "lock_done", "set_done"}
    /\ \A t \in not_full \cup not_empty : pc[t] = "wait"

\* The mutex is held by exactly the thread in its critical section.
MutexInv ==
    /\ mtx = {t \in Threads : pc[t] \in Critical}
    /\ MutualExclusion

\* The loop of producer() and its flag.
ProducerInv ==
    /\ pc[Producer] \in {"lock_done", "set_done", "exit"} <=> i = NItems
    /\ done <=> pc[Producer] = "exit"

\* What was tested under the mutex still holds where it is relied upon.
TestedInv ==
    /\ pc[Producer] = "put" => count < BUFSIZE
    /\ \A c \in Consumers : pc[c] = "get" => count > 0
    /\ \A c \in Consumers : val[c] = NoItem => done /\ count = 0

\* The ring holds the items made and not yet taken, oldest at out_idx.
RingInv ==
    /\ Made = Len(consumed) + count
    /\ in_idx = Wrap(out_idx + count)
    /\ \A k \in 0 .. BUFSIZE - 1 :
           k < count => buffer[Wrap(out_idx + k)] = Len(consumed) + k
    /\ ConsumedInOrder

\* The inductive invariant.
IInv == /\ TypeOK /\ ControlInv /\ MutexInv /\ ProducerInv /\ TestedInv
        /\ RingInv /\ NoLostWakeup

-----------------------------------------------------------------------------
\* Advancing an index of the ring by one slot, as lines 23 and 32 do.
LEMMA NextSlot ==
    ASSUME NEW x \in Slots
    PROVE  (x + 1) % BUFSIZE = Wrap(x + 1)
BY BufferAssumption DEF Slots, Wrap

\* The threads start with an empty ring and a free mutex.
LEMMA InitInv == Init => IInv
<1> SUFFICES ASSUME Init PROVE IInv
  OBVIOUS
<1> USE BufferAssumption DEF Init, Threads, Slots
<1>1. TypeOK
  BY DEF TypeOK, Labels
<1>2. ControlInv /\ MutexInv /\ ProducerInv
  BY DEF ControlInv, MutexInv, MutualExclusion, Critical, ProducerInv
<1>3. TestedInv /\ NoLostWakeup
  BY DEF TestedInv, NoLostWakeup, NoItem
<1>4. RingInv
  BY DEF RingInv, ConsumedInOrder, Made, Wrap
<1> QED
  BY <1>1, <1>2, <1>3, <1>4 DEF IInv

\* Every statement of every thread preserves the invariant.
LEMMA NextInv == IInv /\ [Next]_vars => IInv'
<1> SUFFICES ASSUME IInv, [Next]_vars PROVE IInv'
  OBVIOUS
<1> USE BufferAssumption DEF Threads, ring, Goto, IInv
<1>1. ASSUME NEW t \in Threads, Lock(t) PROVE IInv'
  <2>1. TypeOK'
    BY <1>1 DEF Lock, TypeOK, WantsMutex, MutexFree, Resumes, Slots, Labels,
       NoItem
  <2>2. ControlInv'
    BY <1>1 DEF Lock, TypeOK, ControlInv, WantsMutex, MutexFree, Resumes
  <2>3. MutexInv'
    BY <1>1 DEF Lock, TypeOK, ControlInv, MutexInv, MutualExclusion,
       Critical, WantsMutex, MutexFree, Resumes
  <2>4. ProducerInv'
    BY <1>1 DEF Lock, TypeOK, ControlInv, ProducerInv, WantsMutex,
       MutexFree, Resumes
  <2>5. TestedInv'
    BY <1>1 DEF Lock, TypeOK, ControlInv, TestedInv, WantsMutex, MutexFree,
       Resumes, NoItem
  <2>6. RingInv'
    BY <1>1 DEF Lock, TypeOK, RingInv, ConsumedInOrder, Made, ControlInv,
       WantsMutex, MutexFree, Resumes, Slots
  <2>7. NoLostWakeup'
    BY <1>1 DEF Lock, TypeOK, ControlInv, NoLostWakeup, WantsMutex,
       MutexFree, Resumes
  <2> QED
    BY <2>1, <2>2, <2>3, <2>4, <2>5, <2>6, <2>7
<1>2. ASSUME NEW t \in Threads, SpuriousWakeup(t) PROVE IInv'
  <2>1. TypeOK'
    BY <1>2 DEF SpuriousWakeup, TypeOK, Slots, Labels, NoItem
  <2>2. ControlInv'
    BY <1>2 DEF SpuriousWakeup, TypeOK, ControlInv
  <2>3. MutexInv'
    BY <1>2 DEF SpuriousWakeup, TypeOK, ControlInv, MutexInv,
       MutualExclusion, Critical
  <2>4. ProducerInv'
    BY <1>2 DEF SpuriousWakeup, TypeOK, ControlInv, ProducerInv
  <2>5. TestedInv'
    BY <1>2 DEF SpuriousWakeup, TypeOK, ControlInv, TestedInv, NoItem
  <2>6. RingInv'
    BY <1>2 DEF SpuriousWakeup, TypeOK, RingInv, ConsumedInOrder, Made,
       ControlInv, Slots
  <2>7. NoLostWakeup'
    BY <1>2 DEF SpuriousWakeup, TypeOK, ControlInv, NoLostWakeup
  <2> QED
    BY <2>1, <2>2, <2>3, <2>4, <2>5, <2>6, <2>7
<1>3. ASSUME ProduceTest PROVE IInv'
  <2>1. TypeOK'
    BY <1>3 DEF ProduceTest, TypeOK, RingFull, Slots, Labels, NoItem
  <2>2. ControlInv'
    BY <1>3 DEF ProduceTest, TypeOK, ControlInv, RingFull
  <2>3. MutexInv'
    BY <1>3 DEF ProduceTest, TypeOK, ControlInv, MutexInv, MutualExclusion,
       Critical, RingFull
  <2>4. ProducerInv'
    BY <1>3 DEF ProduceTest, TypeOK, ControlInv, ProducerInv, RingFull
  <2>5. TestedInv'
    BY <1>3 DEF ProduceTest, TypeOK, ControlInv, TestedInv, RingFull, NoItem
  <2>6. RingInv'
    BY <1>3 DEF ProduceTest, TypeOK, RingInv, ConsumedInOrder, Made,
       RingFull, Slots
  <2>7. NoLostWakeup'
    BY <1>3 DEF ProduceTest, TypeOK, ControlInv, NoLostWakeup, MutexInv,
       MutualExclusion, Critical, RingFull
  <2> QED
    BY <2>1, <2>2, <2>3, <2>4, <2>5, <2>6, <2>7
<1>4. ASSUME ProducePut PROVE IInv'
  <2>1. TypeOK'
    BY <1>4, NextSlot
       DEF ProducePut, TypeOK, TestedInv, ProducerInv, Slots, Labels, Wrap
  <2>2. ControlInv'
    BY <1>4 DEF ProducePut, TypeOK, ControlInv
  <2>3. MutexInv'
    BY <1>4 DEF ProducePut, TypeOK, ControlInv, MutexInv, MutualExclusion,
       Critical
  <2>4. ProducerInv'
    BY <1>4 DEF ProducePut, TypeOK, ControlInv, ProducerInv
  <2>5. TestedInv'
    BY <1>4 DEF ProducePut, TypeOK, ControlInv, TestedInv, MutexInv,
       MutualExclusion, Critical, ProducerInv, NoItem
  <2>6. RingInv'
    <3>1. /\ Len(consumed) \in Nat /\ count < BUFSIZE /\ count \in Nat
          /\ out_idx \in Slots /\ in_idx \in Slots /\ Made = i
      BY <1>4 DEF ProducePut, TypeOK, TestedInv, Made, Slots
    <3>2. Made' = Len(consumed') + count'
      BY <1>4, <3>1 DEF ProducePut, TypeOK, RingInv, Made
    <3>3. in_idx' = Wrap(out_idx' + count')
      <4>1. count' = count + 1 /\ out_idx' = out_idx /\ in_idx' = (in_idx + 1) % BUFSIZE
        BY <1>4 DEF ProducePut
      <4>2. in_idx' = Wrap(in_idx + 1) /\ in_idx = Wrap(out_idx + count)
        BY <3>1, <4>1, NextSlot DEF RingInv
      <4> QED
        BY <3>1, <4>1, <4>2 DEF Wrap, Slots
    <3>4. ASSUME NEW k \in 0 .. BUFSIZE - 1, k < count'
          PROVE  buffer'[Wrap(out_idx' + k)] = Len(consumed') + k
      <4>1. CASE k = count
        BY <1>4, <3>1, <4>1 DEF ProducePut, TypeOK, RingInv, Made, Wrap, Slots
      <4>2. CASE k < count
        <5>1. Wrap(out_idx + k) \in Slots /\ Wrap(out_idx + k) # in_idx
          BY <3>1, <4>2 DEF RingInv, Wrap, Slots
        <5>2. buffer[Wrap(out_idx + k)] = Len(consumed) + k
          BY <4>2 DEF RingInv
        <5> QED
          BY <1>4, <5>1, <5>2 DEF ProducePut, TypeOK
      <4> QED
        BY <1>4, <3>1, <3>4, <4>1, <4>2 DEF ProducePut
    <3> QED
      BY <1>4, <3>2, <3>3, <3>4 DEF ProducePut, RingInv, ConsumedInOrder
  <2>7. NoLostWakeup'
    BY <1>4 DEF ProducePut, TypeOK, ControlInv, NoLostWakeup, MutexInv,
       MutualExclusion, Critical, ProducerInv
  <2> QED
    BY <2>1, <2>2, <2>3, <2>4, <2>5, <2>6, <2>7
<1>5. ASSUME ProduceSignal PROVE IInv'
  <2>1. TypeOK'
    BY <1>5 DEF ProduceSignal, TypeOK, Signalled, Slots, Labels, NoItem
  <2>2. ControlInv'
    BY <1>5 DEF ProduceSignal, TypeOK, ControlInv, Signalled
  <2>3. MutexInv'
    BY <1>5 DEF ProduceSignal, TypeOK, ControlInv, MutexInv,
       MutualExclusion, Critical, Signalled
  <2>4. ProducerInv'
    BY <1>5 DEF ProduceSignal, TypeOK, ControlInv, ProducerInv, Signalled
  <2>5. TestedInv'
    BY <1>5 DEF ProduceSignal, TypeOK, ControlInv, TestedInv, Signalled,
       NoItem
  <2>6. RingInv'
    BY <1>5 DEF ProduceSignal, TypeOK, RingInv, ConsumedInOrder, Made,
       Signalled, Slots
  <2>7. NoLostWakeup'
    BY <1>5 DEF ProduceSignal, TypeOK, ControlInv, NoLostWakeup,
       ProducerInv, Signalled
  <2> QED
    BY <2>1, <2>2, <2>3, <2>4, <2>5, <2>6, <2>7
<1>6. ASSUME ProduceUnlock PROVE IInv'
  <2>1. TypeOK'
    BY <1>6 DEF ProduceUnlock, TypeOK, ProducerInv, Slots, Labels, NoItem
  <2>2. ControlInv'
    BY <1>6 DEF ProduceUnlock, TypeOK, ControlInv
  <2>3. MutexInv'
    BY <1>6 DEF ProduceUnlock, TypeOK, ControlInv, MutexInv,
       MutualExclusion, Critical
  <2>4. ProducerInv'
    BY <1>6 DEF ProduceUnlock, TypeOK, ControlInv, ProducerInv
  <2>5. TestedInv'
    BY <1>6 DEF ProduceUnlock, TypeOK, ControlInv, TestedInv, NoItem
  <2>6. RingInv'
    BY <1>6 DEF ProduceUnlock, TypeOK, RingInv, ConsumedInOrder, Made, Slots
  <2>7. NoLostWakeup'
    BY <1>6 DEF ProduceUnlock, TypeOK, ControlInv, NoLostWakeup
  <2> QED
    BY <2>1, <2>2, <2>3, <2>4, <2>5, <2>6, <2>7
<1>7. ASSUME SetDone PROVE IInv'
  <2>1. TypeOK'
    BY <1>7 DEF SetDone, TypeOK, Broadcast, Slots, Labels, NoItem
  <2>2. ControlInv'
    BY <1>7 DEF SetDone, TypeOK, ControlInv, Broadcast
  <2>3. MutexInv'
    BY <1>7 DEF SetDone, TypeOK, ControlInv, MutexInv, MutualExclusion,
       Critical, Broadcast
  <2>4. ProducerInv'
    BY <1>7 DEF SetDone, TypeOK, ControlInv, ProducerInv, Broadcast
  <2>5. TestedInv'
    BY <1>7 DEF SetDone, TypeOK, ControlInv, TestedInv, ProducerInv,
       Broadcast, NoItem
  <2>6. RingInv'
    BY <1>7 DEF SetDone, TypeOK, RingInv, ConsumedInOrder, Made, Broadcast,
       Slots
  <2>7. NoLostWakeup'
    BY <1>7 DEF SetDone, TypeOK, ControlInv, NoLostWakeup, Broadcast
  <2> QED
    BY <2>1, <2>2, <2>3, <2>4, <2>5, <2>6, <2>7
<1>8. ASSUME NEW c \in Consumers, ConsumeTest(c) PROVE IInv'
  <2>1. TypeOK'
    BY <1>8 DEF ConsumeTest, TypeOK, StreamEnded, Slots, Labels, NoItem
  <2>2. ControlInv'
    BY <1>8 DEF ConsumeTest, TypeOK, ControlInv, StreamEnded
  <2>3. MutexInv'
    BY <1>8 DEF ConsumeTest, TypeOK, ControlInv, MutexInv, MutualExclusion,
       Critical, StreamEnded
  <2>4. ProducerInv'
    BY <1>8 DEF ConsumeTest, TypeOK, ControlInv, ProducerInv, StreamEnded
  <2>5. TestedInv'
    BY <1>8 DEF ConsumeTest, TypeOK, ControlInv, TestedInv, StreamEnded,
       NoItem
  <2>6. RingInv'
    BY <1>8 DEF ConsumeTest, TypeOK, RingInv, ConsumedInOrder, Made,
       StreamEnded, Slots
  <2>7. NoLostWakeup'
    BY <1>8 DEF ConsumeTest, TypeOK, ControlInv, NoLostWakeup, MutexInv,
       MutualExclusion, Critical, StreamEnded
  <2> QED
    BY <2>1, <2>2, <2>3, <2>4, <2>5, <2>6, <2>7
<1>9. ASSUME NEW c \in Consumers, ConsumeGet(c) PROVE IInv'
  <2>1. TypeOK'
    BY <1>9, NextSlot
       DEF ConsumeGet, TypeOK, TestedInv, Slots, Labels, Wrap, NoItem
  <2>2. ControlInv'
    BY <1>9 DEF ConsumeGet, TypeOK, ControlInv
  <2>3. MutexInv'
    BY <1>9 DEF ConsumeGet, TypeOK, ControlInv, MutexInv, MutualExclusion,
       Critical
  <2>4. ProducerInv'
    BY <1>9 DEF ConsumeGet, TypeOK, ControlInv, ProducerInv
  <2>5. TestedInv'
    BY <1>9 DEF ConsumeGet, TypeOK, ControlInv, TestedInv, MutexInv,
       MutualExclusion, Critical, NoItem
  <2>6. RingInv'
    <3>1. /\ Len(consumed) \in Nat /\ count \in 1 .. BUFSIZE
          /\ out_idx \in Slots /\ out_idx' = Wrap(out_idx + 1)
      BY <1>9, NextSlot DEF ConsumeGet, TypeOK, TestedInv
    <3>2. /\ Len(consumed') = Len(consumed) + 1
          /\ \A k \in 1 .. Len(consumed) : consumed'[k] = consumed[k]
          /\ consumed'[Len(consumed) + 1] = buffer[out_idx]
      BY <1>9, <3>1 DEF ConsumeGet, TypeOK
    <3>3. Made' = Len(consumed') + count'
      <4>1. Made' = Made /\ count' = count - 1
        BY <1>9 DEF ConsumeGet, TypeOK, Made
      <4> QED
        BY <3>1, <3>2, <4>1 DEF RingInv
    <3>4. in_idx' = Wrap(out_idx' + count')
      <4>1. count' = count - 1 /\ in_idx' = in_idx
        BY <1>9 DEF ConsumeGet
      <4>2. Wrap(Wrap(out_idx + 1) + (count - 1)) = Wrap(out_idx + count)
        BY <3>1 DEF Wrap, Slots
      <4> QED
        BY <3>1, <4>1, <4>2 DEF RingInv
    <3>5. ASSUME NEW k \in 0 .. BUFSIZE - 1, k < count'
          PROVE  buffer'[Wrap(out_idx' + k)] = Len(consumed') + k
      <4>1. k + 1 \in 0 .. BUFSIZE - 1 /\ k + 1 < count
        BY <1>9, <3>1, <3>5 DEF ConsumeGet
      <4>2. Wrap(out_idx' + k) = Wrap(out_idx + (k + 1))
        BY <3>1, <4>1 DEF Wrap, Slots
      <4> QED
        BY <1>9, <3>1, <3>2, <4>1, <4>2 DEF ConsumeGet, RingInv
    <3>6. buffer[out_idx] = Len(consumed)
      <4>1. 0 \in 0 .. BUFSIZE - 1 /\ 0 < count /\ Wrap(out_idx + 0) = out_idx
        BY <3>1 DEF Wrap, Slots
      <4> QED
        BY <3>1, <4>1 DEF RingInv
    <3>7. ConsumedInOrder'
      BY <3>1, <3>2, <3>6 DEF RingInv, ConsumedInOrder
    <3> QED
      BY <3>3, <3>4, <3>5, <3>7 DEF RingInv
  <2>7. NoLostWakeup'
    BY <1>9 DEF ConsumeGet, TypeOK, ControlInv, NoLostWakeup, MutexInv,
       MutualExclusion, Critical, TestedInv
  <2> QED
    BY <2>1, <2>2, <2>3, <2>4, <2>5, <2>6, <2>7
<1>10. ASSUME NEW c \in Consumers, ConsumeSignal(c) PROVE IInv'
  <2>1. TypeOK'
    BY <1>10 DEF ConsumeSignal, TypeOK, Signalled, Slots, Labels, NoItem
  <2>2. ControlInv'
    BY <1>10 DEF ConsumeSignal, TypeOK, ControlInv, Signalled
  <2>3. MutexInv'
    BY <1>10 DEF ConsumeSignal, TypeOK, ControlInv, MutexInv,
       MutualExclusion, Critical, Signalled
  <2>4. ProducerInv'
    BY <1>10 DEF ConsumeSignal, TypeOK, ControlInv, ProducerInv, Signalled
  <2>5. TestedInv'
    BY <1>10 DEF ConsumeSignal, TypeOK, ControlInv, TestedInv, Signalled,
       NoItem
  <2>6. RingInv'
    BY <1>10 DEF ConsumeSignal, TypeOK, RingInv, ConsumedInOrder, Made,
       Signalled, Slots
  <2>7. NoLostWakeup'
    BY <1>10 DEF ConsumeSignal, TypeOK, ControlInv, NoLostWakeup, Signalled
  <2> QED
    BY <2>1, <2>2, <2>3, <2>4, <2>5, <2>6, <2>7
<1>11. ASSUME NEW c \in Consumers, ConsumeUnlock(c) PROVE IInv'
  <2>1. TypeOK'
    BY <1>11 DEF ConsumeUnlock, TypeOK, Slots, Labels, NoItem
  <2>2. ControlInv'
    BY <1>11 DEF ConsumeUnlock, TypeOK, ControlInv
  <2>3. MutexInv'
    BY <1>11 DEF ConsumeUnlock, TypeOK, ControlInv, MutexInv,
       MutualExclusion, Critical
  <2>4. ProducerInv'
    BY <1>11 DEF ConsumeUnlock, TypeOK, ControlInv, ProducerInv
  <2>5. TestedInv'
    BY <1>11 DEF ConsumeUnlock, TypeOK, ControlInv, TestedInv, NoItem
  <2>6. RingInv'
    BY <1>11 DEF ConsumeUnlock, TypeOK, RingInv, ConsumedInOrder, Made,
       Slots
  <2>7. NoLostWakeup'
    BY <1>11 DEF ConsumeUnlock, TypeOK, ControlInv, NoLostWakeup
  <2> QED
    BY <2>1, <2>2, <2>3, <2>4, <2>5, <2>6, <2>7
<1>12. ASSUME UNCHANGED vars PROVE IInv'
  BY <1>12 DEF vars, TypeOK, ControlInv, MutexInv, MutualExclusion, ProducerInv,
         TestedInv, RingInv, ConsumedInOrder, NoLostWakeup, Made
<1> QED
  BY <1>1, <1>2, <1>3, <1>4, <1>5, <1>6, <1>7, <1>8, <1>9, <1>10, <1>11, <1>12 DEF Next, Produce, Consume, Joined

\* The inductive invariant holds throughout.
THEOREM Invariance == Spec => []IInv
BY InitInv, NextInv, PTL DEF Spec

\* The counters and indices stay in range whatever the ring size: line 23 never
\* writes and line 32 never reads outside buffer[BUFSIZE].
THEOREM TypeCorrect == Spec => []TypeOK
<1>1. IInv => TypeOK
  BY DEF IInv
<1> QED
  BY <1>1, Invariance, PTL

\* For any number of consumers, the "[C] consumed" lines list 0, 1, 2, ...
THEOREM InOrder == Spec => []ConsumedInOrder
<1>1. IInv => ConsumedInOrder
  BY DEF IInv, RingInv
<1> QED
  BY <1>1, Invariance, PTL

\* consume() returns -1 only after the last item has been taken.
THEOREM EndIsTheEnd == Spec => []EndOfStream
<1>1. ASSUME IInv PROVE EndOfStream
  <2>1. ASSUME NEW c \in Consumers, val[c] = NoItem PROVE Len(consumed) = NItems
    <3>1. pc[Producer] = "exit" /\ i = NItems /\ count = 0
      BY <1>1, <2>1 DEF IInv, TestedInv, ProducerInv
    <3> QED
      BY <1>1, <3>1, BufferAssumption DEF IInv, TypeOK, RingInv, Made
  <2> QED
    BY <2>1 DEF EndOfStream
<1> QED
  BY <1>1, Invariance, PTL

\* One pthread_cond_signal per item is enough with any number of consumers.
THEOREM WakeupsArrive == Spec => []NoLostWakeup
<1>1. IInv => NoLostWakeup
  BY DEF IInv
<1> QED
  BY <1>1, Invariance, PTL

-----------------------------------------------------------------------------
(* The ring implements the abstract queue.                                 *)

\* Read from out_idx on, the ring is a run of consecutive numbers.
Run == [k \in 1 .. count |-> Len(consumed) + k - 1]

\* The refinement mapping Contents is that run.
LEMMA ContentsAre == IInv => Contents = Run
<1> SUFFICES ASSUME IInv, NEW k \in 1 .. count
             PROVE  buffer[(out_idx + k - 1) % BUFSIZE] = Len(consumed) + k - 1
  BY DEF Contents, Run
<1>1. /\ k - 1 \in 0 .. BUFSIZE - 1 /\ k - 1 < count
      /\ out_idx \in Slots /\ Len(consumed) \in Nat
  BY BufferAssumption DEF IInv, TypeOK
<1>2. (out_idx + k - 1) % BUFSIZE = Wrap(out_idx + (k - 1))
  BY <1>1, BufferAssumption DEF Wrap, Slots
<1>3. buffer[Wrap(out_idx + (k - 1))] = Len(consumed) + (k - 1)
  BY <1>1 DEF IInv, RingInv
<1> QED
  BY <1>1, <1>2, <1>3

\* The statements other than lines 23 and 32 leave the abstract queue alone.
LEMMA OtherSteps ==
    ASSUME IInv, Next, ~ProducePut, \A c \in Consumers : ~ConsumeGet(c)
    PROVE  UNCHANGED <<ring, consumed, Made>>
<1> USE BufferAssumption DEF IInv, TypeOK, ControlInv, Threads, Goto, Made, ring
<1>1. ASSUME NEW t \in Threads, Lock(t) PROVE UNCHANGED <<ring, consumed, Made>>
  BY <1>1 DEF Lock, WantsMutex, Resumes
<1>2. ASSUME NEW t \in Threads, SpuriousWakeup(t)
      PROVE  UNCHANGED <<ring, consumed, Made>>
  BY <1>2 DEF SpuriousWakeup
<1>3. CASE Produce
  BY <1>3 DEF Produce, ProduceTest, ProduceSignal, ProduceUnlock, SetDone
<1>4. ASSUME NEW c \in Consumers, Consume(c)
      PROVE  UNCHANGED <<ring, consumed, Made>>
  BY <1>4 DEF Consume, ConsumeTest, ConsumeSignal, ConsumeUnlock
<1>5. CASE Joined
  BY <1>5 DEF Joined, vars
<1> QED
  BY <1>1, <1>2, <1>3, <1>4, <1>5 DEF Next

\* Every step of the lab is a Put, a Get or a stutter of the abstract queue.
LEMMA StepSimulation == IInv /\ IInv' /\ [Next]_vars => [Queue!Next]_(Queue!vars)
<1> SUFFICES ASSUME IInv, IInv', [Next]_vars PROVE [Queue!Next]_(Queue!vars)
  OBVIOUS
<1> USE BufferAssumption
<1>1. /\ Contents = [k \in 1 .. count |-> Len(consumed) + k - 1]
      /\ Contents' = [k \in 1 .. count' |-> Len(consumed') + k - 1]
  <2>1. Contents = Run /\ (Contents = Run)'
    BY ContentsAre, PTL
  <2> QED
    BY <2>1 DEF Run
<1>2. CASE ProducePut
  <2>1. /\ count \in Nat /\ count < BUFSIZE /\ count' = count + 1
        /\ consumed' = consumed /\ Len(consumed) \in Nat /\ i \in Nat
        /\ Made = i /\ Made' = i + 1 /\ i < NItems
    BY <1>2 DEF IInv, ProducePut, TypeOK, TestedInv, ProducerInv, Made, Goto, Threads
  <2>2. Made = Len(consumed) + count
    BY DEF IInv, RingInv
  <2>3. Contents' = Append(Contents, Made)
    BY <1>1, <2>1, <2>2
  <2>4. Len(Contents) = count
    BY <1>1, <2>1
  <2> QED
    BY <2>1, <2>3, <2>4 DEF Queue!Next, Queue!Put
<1>3. ASSUME NEW c \in Consumers, ConsumeGet(c) PROVE Queue!Next
  <2>1. /\ count \in Nat \ {0} /\ count' = count - 1 /\ Made' = Made
        /\ consumed' = Append(consumed, buffer[out_idx])
        /\ consumed \in Seq(Nat) /\ out_idx \in Slots
    BY <1>3 DEF IInv, ConsumeGet, TypeOK, TestedInv, ControlInv, Made, Goto, Threads
  <2>2. Contents # <<>> /\ Head(Contents) = Len(consumed)
    <3>1. Contents \in Seq(Nat) /\ Len(Contents) = count
      BY <1>1, <2>1
    <3>2. Contents[1] = Len(consumed)
      BY <1>1, <2>1
    <3> QED
      BY <2>1, <3>1, <3>2
  <2>3. buffer[out_idx] = Len(consumed)
    <3>1. (out_idx + 1 - 1) % BUFSIZE = out_idx
      <4>1. out_idx \in Slots
        BY <2>1
      <4> QED
        BY <4>1 DEF Slots
    <3>2. Contents[1] = buffer[out_idx]
      BY <2>1, <3>1 DEF Contents
    <3> QED
      BY <1>1, <2>1, <3>2
  <2>4. Len(consumed') = Len(consumed) + 1
    BY <2>1, <2>3
  <2>5. Contents' = Tail(Contents)
    BY <1>1, <2>1, <2>4
  <2> QED
    BY <2>1, <2>2, <2>3, <2>5 DEF Queue!Next, Queue!Get
<1>4. CASE ~ProducePut /\ \A c \in Consumers : ~ConsumeGet(c)
  <2>1. UNCHANGED <<ring, consumed, Made>>
    BY <1>4, OtherSteps DEF vars, ring, Made
  <2>2. UNCHANGED Contents
    BY <2>1 DEF ring, Contents
  <2> QED
    BY <2>1, <2>2 DEF Queue!vars
<1> QED
  BY <1>2, <1>3, <1>4

\* lab_22 implements a first-in first-out queue of capacity BUFSIZE.
THEOREM Refinement == Spec => Queue!Safety
<1>1. Init => Queue!Init
  <2> SUFFICES ASSUME Init PROVE Queue!Init
    OBVIOUS
  <2>1. count = 0 /\ consumed = <<>> /\ Made = 0
    BY DEF Init, Made, Threads
  <2>2. Contents = <<>>
    BY <2>1 DEF Contents
  <2> QED
    BY <2>1, <2>2 DEF Queue!Init
<1> QED
  BY <1>1, Invariance, StepSimulation, PTL DEF Spec, Queue!Safety

=============================================================================
