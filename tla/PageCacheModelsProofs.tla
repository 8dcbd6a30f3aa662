----------------------- MODULE PageCacheModelsProofs -----------------------
(***************************************************************************)
(* Proofs about labs/page_cache_models.c, for every command line, file and *)
(* buffer size, and number of failures: in a round without a failure every *)
(* byte is read once, a worker's fault count is its own plus at most that  *)
(* of its siblings, no summary leaves a zombie behind, and the checksum of *)
(* every summary is the sum of those of the workers it covers.             *)
(***************************************************************************)
EXTENDS PageCacheModels, FiniteSetTheorems, NaturalsInduction, WellFoundedInduction, TLAPS

-----------------------------------------------------------------------------
(* The slices divide the file, for every file size and every number of     *)
(* workers, sizes that do not divide evenly and files with fewer bytes     *)
(* than there are workers included.                                        *)

\* Whole multiples of a slice are ordered like their factors.
LEMMA Multiples ==
    ASSUME NEW s \in Nat, NEW i \in Nat, NEW j \in Nat, i <= j
    PROVE  i * s \in Nat /\ j * s \in Nat /\ i * s <= j * s
<1>1. PICK d \in Nat : j = i + d
  <2>1. j - i \in Nat /\ j = i + (j - i)
    OBVIOUS
  <2> QED
    BY <2>1
<1>2. j * s = (i * s) + (d * s) /\ d * s \in Nat /\ i * s \in Nat
  BY <1>1
<1> QED
  BY <1>2

\* size / total_workers, rounded down.
LEMMA SliceFits ==
    ASSUME NEW size \in Nat, NEW n \in Nat \ {0}
    PROVE  Slice(size, n) \in Nat /\ n * Slice(size, n) <= size
<1>1. size = n * (size \div n) + (size % n) /\ size % n \in 0 .. n - 1 /\ size \div n \in Int
  OBVIOUS
<1>2. size \div n >= 0
  OBVIOUS
<1> QED
  BY <1>1, <1>2 DEF Slice

\* No slice starts before 0, ends before it starts, or ends after the file.
THEOREM SliceBounds ==
    ASSUME NEW size \in Nat, NEW n \in Nat \ {0}, NEW w \in 0 .. n - 1
    PROVE  /\ SliceStart(size, n, w) \in 0 .. size
           /\ SliceEnd(size, n, w) \in SliceStart(size, n, w) .. size
<1> DEFINE s == Slice(size, n)
<1>1. s \in Nat /\ n * s <= size
  BY SliceFits
<1> HIDE DEF s
<1>2. /\ w * s \in Nat /\ (w + 1) * s \in Nat
      /\ w * s <= (w + 1) * s /\ (w + 1) * s <= n * s
  BY <1>1, Multiples
<1>3. SliceStart(size, n, w) = w * s
  BY DEF SliceStart, s
<1>4. SliceEnd(size, n, w) = IF w = n - 1 THEN size ELSE (w + 1) * s
  BY DEF SliceEnd, s
<1>5. n * s \in Nat
  BY <1>1
<1> QED
  BY <1>1, <1>2, <1>3, <1>4, <1>5

\* Every byte of the file is in the slice of exactly one worker, so that the
\* workers of a round read the file once between them.
THEOREM SlicesPartition ==
    ASSUME NEW size \in Nat, NEW n \in Nat \ {0}, NEW b \in 0 .. size - 1
    PROVE  \E w \in 0 .. n - 1 : OwnersOf(size, n, b) = {w}
<1> DEFINE s == Slice(size, n)
           Last == n - 1
<1>1. s \in Nat /\ n * s <= size
  BY SliceFits
<1>s. \A w \in 0 .. n - 1 :
        /\ SliceStart(size, n, w) = w * s
        /\ SliceEnd(size, n, w) = IF w = Last THEN size ELSE (w + 1) * s
  BY DEF SliceStart, SliceEnd
<1> HIDE DEF s
<1>2. ASSUME NEW w \in 0 .. n - 1, NEW v \in 0 .. n - 1,
             w \in OwnersOf(size, n, b), v \in OwnersOf(size, n, b)
      PROVE  ~(w < v)
  <2> SUFFICES ASSUME w < v PROVE FALSE
    OBVIOUS
  <2>1. w # Last /\ b < (w + 1) * s
    BY <1>2, <1>s DEF OwnersOf
  <2>2. v * s <= b
    BY <1>2, <1>s DEF OwnersOf
  <2>3. (w + 1) * s <= v * s /\ (w + 1) * s \in Nat /\ v * s \in Nat
    BY <1>1, Multiples
  <2> QED
    BY <2>1, <2>2, <2>3
<1>3. \E w \in 0 .. n - 1 : w \in OwnersOf(size, n, b)
  <2>1. CASE b >= Last * s
    <3>1. Last \in 0 .. n - 1
      OBVIOUS
    <3> QED
      BY <2>1, <3>1, <1>s DEF OwnersOf
  <2>2. CASE b < Last * s
    <3>1. s \in Nat \ {0}
      BY <1>1, <2>2
    <3> DEFINE w == b \div s
    <3>2. w \in Nat /\ w * s <= b /\ b < (w + 1) * s
      <4>1. b = s * (b \div s) + (b % s) /\ b % s \in 0 .. s - 1
        BY <3>1
      <4>2. b \div s \in Int /\ b \div s >= 0
        BY <3>1
      <4> QED
        BY <3>1, <4>1, <4>2
    <3> HIDE DEF w
    <3>3. w < Last
      <4> SUFFICES ASSUME Last <= w PROVE FALSE
        BY <3>2
      <4>1. Last * s <= w * s /\ Last * s \in Nat /\ w * s \in Nat
        BY <3>1, <3>2, Multiples
      <4> QED
        BY <2>2, <3>2, <4>1
    <3>4. w \in 0 .. n - 1 /\ w # Last
      BY <3>2, <3>3
    <3> QED
      BY <3>2, <3>4, <1>s DEF OwnersOf
  <2> QED
    BY <1>1, <2>1, <2>2
<1>4. PICK w \in 0 .. n - 1 : w \in OwnersOf(size, n, b)
  BY <1>3
<1>5. ASSUME NEW v \in OwnersOf(size, n, b) PROVE v = w
  <2>1. v \in 0 .. n - 1
    BY DEF OwnersOf
  <2>2. ~(w < v) /\ ~(v < w)
    BY <1>2, <1>4, <2>1
  <2> QED
    BY <2>1, <2>2
<1>6. OwnersOf(size, n, b) = {w}
  BY <1>4, <1>5
<1> QED
  BY <1>4, <1>6

-----------------------------------------------------------------------------
(* The inductive invariant.                                                *)

Start(w) == SliceStart(FileSize, TotalWorkers, w)
End(w) == SliceEnd(FileSize, TotalWorkers, w)

BaseInv ==
    /\ cmd \in Commands
    /\ mpc \in {"arguments", "create", "join", "fork", "close", "scan", "wait", "summary", "done", "failed"}
    /\ mpc \notin {"arguments", "failed"} => ArgumentsOk
    /\ idx \in Nat
    /\ cpc \in [Children -> {"none", "create", "join", "report", "exit", "zombie", "reaped"}]
    /\ cidx \in [Children -> Nat]
    /\ wpc \in [Workers -> {"none", "start", "read", "done", "null", "dead"}]
    /\ pos \in [Workers -> Int] /\ min0 \in [Workers -> Int] /\ took \in [Workers -> {0, 1}]
    /\ DOMAIN res = Workers /\ \A w \in Workers : "minflt" \in DOMAIN res[w]
    /\ faults \in [Children \cup {Main} -> Int]
    /\ fsize \in 0 .. FileSize /\ failures \in Nat

\* The loops of main() stay within their bounds.
MainInv ==
    /\ mpc \in {"create", "join"} => Threaded /\ idx < TotalWorkers
    /\ mpc \in {"fork", "close", "scan", "wait"} => ~Threaded /\ idx < NProcs
    /\ mpc \in {"arguments", "summary"} => idx = 0

\* The arguments were accepted and the mode is one that forks.
Forking == ~Threaded /\ mpc \notin {"arguments", "failed"}

\* A child that was not forked in this round.
Fresh(p) == cpc[p] \in {"none", "reaped"}
Reaped == {p \in 0 .. NProcs - 1 : cpc[p] = "reaped"}

\* Which children there are, by where the parent is.
ChildInv ==
    mpc # "failed" =>
        \A p \in Children :
            /\ mpc = "arguments" \/ Threaded \/ p >= NProcs => cpc[p] = "none"
            /\ mpc = "fork" => (Fresh(p) <=> p >= idx)
            /\ mpc = "close" => (Fresh(p) <=> p > idx)
            /\ mpc = "scan" /\ p < NProcs => ~Fresh(p)
            /\ mpc = "wait" /\ p < NProcs => cpc[p] # "none"
            /\ mpc \in {"summary", "done"} => Fresh(p)
            /\ mpc \in {"summary", "done"} /\ ~Threaded /\ p < NProcs => cpc[p] = "reaped"
            /\ cpc[p] \in {"create", "join"} => cidx[p] < NThreads

\* The parent has waited as often as children are reaped.
WaitInv == mpc = "wait" => Cardinality(Reaped) = idx

\* Which workers have been started: those the creating loop has passed.
StartedInv ==
    \A w \in Workers : wpc[w] # "none" =>
        /\ ArgumentsOk /\ w \in Active /\ mpc # "arguments"
        /\ mpc = "create" => w < idx
        /\ Forking =>
               /\ mpc \in {"fork", "close"} => ~Fresh(ProcOf(w))
               /\ cpc[ProcOf(w)] = "create" => w < GlobalId(ProcOf(w), cidx[ProcOf(w)])

\* How far a worker is in its slice, and that only its first read may fault.
WorkerInv ==
    \A w \in Workers :
        /\ wpc[w] \in {"none", "start"} => took[w] = 0
        /\ wpc[w] = "start" => pos[w] = Start(w)
        /\ wpc[w] \in {"read", "done"} => pos[w] \in Start(w) .. End(w)
        /\ wpc[w] = "read" /\ pos[w] = Start(w) => took[w] = 0

\* The workers of process q that took a fault in this round.
TookOf(q) == {v \in ThreadsOf(q) : took[v] = 1}

\* The process's count has grown since the worker began by no less than its
\* own faults and by no more than those of all workers of its process.
FaultInv ==
    \A w \in Workers :
        /\ wpc[w] = "read" => faults[ProcOf(w)] - min0[w] \in took[w] .. Cardinality(TookOf(ProcOf(w)))
        /\ wpc[w] = "done" => res[w].minflt \in took[w] .. Cardinality(TookOf(ProcOf(w)))

\* Who has been joined is done; a child outlives its threads.
JoinInv ==
    /\ mpc = "join" => \A w \in Active : w < idx => wpc[w] = "done"
    /\ mpc = "summary" /\ Threaded => \A w \in Active : wpc[w] = "done"
    /\ Forking =>
           \A w \in Active :
               /\ cpc[ProcOf(w)] = "join" /\ w < GlobalId(ProcOf(w), cidx[ProcOf(w)]) => wpc[w] = "done"
               /\ cpc[ProcOf(w)] \in {"report", "exit"} => wpc[w] = "done"
               /\ wpc[w] \in {"start", "read"} => cpc[ProcOf(w)] \in {"create", "join"}

\* While nothing has failed a worker that is done has read its slice to the
\* end, and a child that has exited had joined all its workers.
ReadInv ==
    failures = 0 =>
        /\ fsize = FileSize
        /\ \A w \in Workers : /\ wpc[w] \notin {"null", "dead"}
                              /\ wpc[w] = "done" => pos[w] = End(w)
        /\ Forking =>
               \A w \in Active :
                   /\ cpc[ProcOf(w)] = "zombie" => wpc[w] = "done"
                   /\ cpc[ProcOf(w)] = "reaped" /\ mpc \in {"wait", "summary"} => wpc[w] = "done"

IInv ==
    /\ BaseInv /\ MainInv /\ ChildInv /\ WaitInv
    /\ StartedInv /\ WorkerInv /\ FaultInv /\ JoinInv /\ ReadInv

-----------------------------------------------------------------------------
(* Counts of processes and threads.                                        *)

\* Worker p * t + k is one of process p's, of n processes of t threads.
LEMMA Rows ==
    ASSUME NEW n \in Nat, NEW t \in Nat \ {0}
    PROVE  /\ \A p \in 0 .. n - 1, k \in 0 .. t - 1 :
                  p * t + k \in 0 .. n * t - 1 /\ (p * t + k) \div t = p
           /\ \A w \in 0 .. n * t - 1 :
                  w \div t \in 0 .. n - 1 /\ w \in (w \div t) * t .. (w \div t) * t + t - 1
<1>1. ASSUME NEW p \in 0 .. n - 1, NEW k \in 0 .. t - 1
      PROVE  p * t + k \in 0 .. n * t - 1 /\ (p * t + k) \div t = p
      <2>1. p * t \in Nat /\ (p + 1) * t = p * t + t
            BY Multiples
      <2>2. (p + 1) * t <= n * t /\ n * t \in Nat
            BY Multiples
      <2>3. (p * t + k) \div t = p
            OBVIOUS
      <2> QED BY <2>1, <2>2, <2>3
<1>2. ASSUME NEW w \in 0 .. n * t - 1
      PROVE  w \div t \in 0 .. n - 1 /\ w \in (w \div t) * t .. (w \div t) * t + t - 1
      <2>1. n * t \in Nat
            BY Multiples
      <2> DEFINE d == w \div t
      <2>2. d \in Int /\ w = t * d + (w % t) /\ w % t \in 0 .. t - 1
            BY <2>1
      <2>3. d >= 0
            BY <2>1
      <2>4. t * d = d * t /\ d * t \in Nat
            BY <2>2, <2>3
      <2> HIDE DEF d
      <2>5. d < n
            <3>1. SUFFICES ASSUME d >= n PROVE FALSE
                  BY <2>2
            <3>2. n * t <= d * t
                  BY <2>2, <3>1, Multiples
            <3> QED BY <2>1, <2>2, <2>4, <3>2
      <2> QED BY <2>2, <2>3, <2>4, <2>5 DEF d
<1> QED BY <1>1, <1>2

\* What the checks of main() on its arguments give.
LEMMA Sizes ==
    ASSUME cmd \in Commands, ArgumentsOk
    PROVE  /\ NProcs \in Nat \ {0} /\ NThreads \in Nat \ {0} /\ TotalWorkers \in Nat \ {0}
           /\ ~Threaded => 0 .. NProcs - 1 \subseteq Children
           /\ Active \subseteq Workers
<1>1. cmd.procs \in Nat \ {0} /\ cmd.threads \in Nat \ {0}
      <2> DEFINE S == 1 .. 1024
      <2>1. cmd.procs \in S /\ cmd.threads \in S
            BY ZenonT(30) DEF ArgumentsOk
      <2>2. \A n \in S : n \in Nat \ {0}
            OBVIOUS
      <2> HIDE DEF S
      <2> QED BY <2>1, <2>2, Zenon
<1> DEFINE a == cmd.procs
           b == cmd.threads
<1>2. a * b \in Nat \ {0} /\ a <= a * b /\ b <= a * b /\ 1 <= a * b
      <2> HIDE DEF a, b
      <2> SUFFICES ASSUME a \in Nat \ {0}, b \in Nat \ {0}
                   PROVE  a * b \in Nat \ {0} /\ a <= a * b /\ b <= a * b /\ 1 <= a * b
          BY <1>1 DEF a, b
      <2>1. 1 * b <= a * b /\ a * b \in Nat
            BY Multiples
      <2>2. 1 * a <= b * a /\ b * a = a * b
            BY Multiples
      <2> QED BY <2>1, <2>2
<1>3. /\ NProcs \in Nat \ {0} /\ NThreads \in Nat \ {0}
      /\ TotalWorkers \in 1 .. a * b
      BY <1>1, <1>2 DEF NProcs, NThreads, TotalWorkers
<1>4. ASSUME ~Threaded
      PROVE  0 .. NProcs - 1 \subseteq Children
      BY <1>4 DEF NProcs, Children
<1>5. Active \subseteq Workers
      <2>1. Active \subseteq 0 .. a * b - 1
            BY <1>2, <1>3 DEF Active
      <2>2. 0 .. a * b - 1 \subseteq Workers
            BY DEF Workers
      <2> QED BY <2>1, <2>2
<1> QED BY <1>2, <1>3, <1>4, <1>5

\* Children and workers have natural numbers.
LEMMA Numbered == Children \subseteq Nat /\ Workers \subseteq Nat /\ Main \notin Children
<1>1. \A c \in Commands : 0 .. c.procs - 1 \subseteq Nat /\ 0 .. c.procs * c.threads - 1 \subseteq Nat
      BY ArgumentAssumption
<1> QED BY <1>1 DEF Children, Workers, Main

\* The workers of a child are NThreads in a row.
LEMMA Grid ==
    ASSUME cmd \in Commands, ArgumentsOk, ~Threaded
    PROVE  /\ \A p \in 0 .. NProcs - 1, t \in 0 .. NThreads - 1 :
                  /\ GlobalId(p, t) \in Active /\ GlobalId(p, t) \in Workers
                  /\ ProcOf(GlobalId(p, t)) = p
           /\ \A w \in Active :
                  /\ ProcOf(w) \in 0 .. NProcs - 1 /\ ProcOf(w) \in Children
                  /\ w \in GlobalId(ProcOf(w), 0) .. GlobalId(ProcOf(w), 0) + NThreads - 1
           /\ \A p \in 0 .. NProcs - 1, t \in 0 .. NThreads :
                  GlobalId(p, t) \in Nat /\ GlobalId(p, t) = GlobalId(p, 0) + t
<1>1. NProcs \in Nat \ {0} /\ NThreads \in Nat \ {0}
      BY Sizes
<1>2. Active \subseteq Workers /\ 0 .. NProcs - 1 \subseteq Children
      BY Sizes
<1>3. \A p \in 0 .. NProcs - 1 : p * NThreads \in Nat
      BY <1>1, Multiples
<1>4. /\ \A p \in 0 .. NProcs - 1, k \in 0 .. NThreads - 1 :
             p * NThreads + k \in 0 .. NProcs * NThreads - 1 /\ (p * NThreads + k) \div NThreads = p
      /\ \A w \in 0 .. NProcs * NThreads - 1 :
             /\ w \div NThreads \in 0 .. NProcs - 1
             /\ w \in (w \div NThreads) * NThreads .. (w \div NThreads) * NThreads + NThreads - 1
      BY <1>1, Rows
<1>5. \A p, t : GlobalId(p, t) = p * NThreads + t
      BY DEF GlobalId
<1>6. \A w : ProcOf(w) = w \div NThreads
      BY DEF ProcOf
<1>7. \A p \in 0 .. NProcs - 1, t \in 0 .. NThreads :
          GlobalId(p, t) \in Nat /\ GlobalId(p, t) = GlobalId(p, 0) + t
      BY <1>1, <1>3, <1>5
<1>8. ASSUME NEW w \in Active
      PROVE  /\ ProcOf(w) \in 0 .. NProcs - 1 /\ ProcOf(w) \in Children
             /\ w \in GlobalId(ProcOf(w), 0) .. GlobalId(ProcOf(w), 0) + NThreads - 1
      <2>1. w \in 0 .. NProcs * NThreads - 1
            BY DEF Active, TotalWorkers
      <2>2. /\ w \div NThreads \in 0 .. NProcs - 1
            /\ w \in (w \div NThreads) * NThreads .. (w \div NThreads) * NThreads + NThreads - 1
            BY <1>4, <2>1
      <2>3. GlobalId(ProcOf(w), 0) = (w \div NThreads) * NThreads
            BY <1>3, <1>5, <1>6, <2>2
      <2> QED BY <1>2, <1>6, <2>2, <2>3
<1>9. ASSUME NEW p \in 0 .. NProcs - 1, NEW t \in 0 .. NThreads - 1
      PROVE  /\ GlobalId(p, t) \in Active /\ GlobalId(p, t) \in Workers
             /\ ProcOf(GlobalId(p, t)) = p
      <2>1. p * NThreads + t \in 0 .. NProcs * NThreads - 1 /\ (p * NThreads + t) \div NThreads = p
            BY <1>4
      <2>2. p * NThreads + t \in Active
            BY <2>1 DEF Active, TotalWorkers
      <2> QED BY <1>2, <1>5, <1>6, <2>1, <2>2
<1> QED BY <1>7, <1>8, <1>9

\* In the threaded modes every worker belongs to the parent.
LEMMA ThreadedProc == Threaded => \A w : ProcOf(w) = Main
BY DEF ProcOf

\* The command line, and all that depends on it only, never changes.
LEMMA Same ==
    ASSUME cmd' = cmd
    PROVE  /\ NProcs' = NProcs /\ NThreads' = NThreads /\ TotalWorkers' = TotalWorkers
           /\ Active' = Active /\ (Threaded' <=> Threaded) /\ (ArgumentsOk' <=> ArgumentsOk)
           /\ \A w : ProcOf(w)' = ProcOf(w) /\ Start(w)' = Start(w) /\ End(w)' = End(w)
           /\ \A p, t : GlobalId(p, t)' = GlobalId(p, t)
           /\ \A q : ThreadsOf(q)' = ThreadsOf(q)
<1>1. /\ Threaded' <=> Threaded
      /\ NProcs' = NProcs /\ NThreads' = NThreads
      /\ ArgumentsOk' <=> ArgumentsOk
      BY DEF Threaded, NProcs, NThreads, ArgumentsOk
<1>2. TotalWorkers' = TotalWorkers /\ Active' = Active
      BY <1>1 DEF TotalWorkers, Active
<1>3. \A w : ProcOf(w)' = ProcOf(w) /\ Start(w)' = Start(w) /\ End(w)' = End(w)
      BY <1>1, <1>2 DEF ProcOf, Start, End
<1>4. \A p, t : GlobalId(p, t)' = GlobalId(p, t)
      BY <1>1 DEF GlobalId
<1>5. \A q : ThreadsOf(q)' = ThreadsOf(q)
      BY <1>2, <1>3 DEF ThreadsOf
<1> QED BY <1>1, <1>2, <1>3, <1>4, <1>5

\* A worker belongs to the parent or to one of its children.
LEMMA ProcTyped ==
    ASSUME cmd \in Commands, ArgumentsOk, NEW w \in Active
    PROVE  ProcOf(w) \in Children \cup {Main} /\ (~Threaded => ProcOf(w) \in Children)
BY Grid, ThreadedProc

\* A slice is a part of the file.
LEMMA SliceTyped ==
    ASSUME cmd \in Commands, ArgumentsOk, NEW w \in Active
    PROVE  Start(w) \in 0 .. FileSize /\ End(w) \in Start(w) .. FileSize
<1>1. TotalWorkers \in Nat \ {0} /\ w \in 0 .. TotalWorkers - 1
      BY Sizes DEF Active
<1> QED BY <1>1, SliceBounds, ArgumentAssumption DEF Start, End

\* The smaller of two numbers.
LEMMA MinOfTwo ==
    ASSUME NEW a \in Int, NEW b \in Int
    PROVE  Min({a, b}) = IF a <= b THEN a ELSE b
<1>1. \E x \in {a, b} : \A y \in {a, b} : x =< y
      OBVIOUS
<1>2. Min({a, b}) \in {a, b} /\ \A y \in {a, b} : Min({a, b}) =< y
      BY <1>1 DEF Min
<1> QED BY <1>2

\* A step of a worker that is no exit leaves the parent and the children alone.
LEMMA OthersStay ==
    ASSUME IInv, UNCHANGED <<mainVars, childVars>>
    PROVE  MainInv' /\ ChildInv' /\ WaitInv'
<1>1. cmd' = cmd /\ mpc' = mpc /\ idx' = idx /\ cpc' = cpc /\ cidx' = cidx
      BY DEF mainVars, childVars
<1>2. MainInv'
      BY <1>1, Same DEF IInv, MainInv
<1>3. ChildInv'
      BY <1>1, Same DEF IInv, ChildInv, Fresh
<1>4. WaitInv'
      BY <1>1, Same DEF IInv, WaitInv, Reaped
<1> QED BY <1>2, <1>3, <1>4

\* The workers that took a fault are a finite set.
LEMMA TookFinite ==
    ASSUME cmd \in Commands, ArgumentsOk, NEW q
    PROVE  IsFiniteSet(TookOf(q)) /\ Cardinality(TookOf(q)) \in Nat
<1>1. IsFiniteSet(Active)
      BY Sizes, FS_Interval DEF Active
<1>2. TookOf(q) \subseteq Active
      BY DEF TookOf, ThreadsOf
<1> QED BY <1>1, <1>2, FS_Subset, FS_CardinalityType

-----------------------------------------------------------------------------
(* Steps of a worker.                                                      *)

\* The worker takes the first fault count.
LEMMA BeginStep == ASSUME IInv, NEW w \in Workers, WorkerBegin(w) PROVE IInv'
<1> BaseInv /\ MainInv /\ ChildInv /\ WaitInv /\ StartedInv /\ WorkerInv /\ FaultInv /\ JoinInv /\ ReadInv
    BY DEF IInv
<1>1. /\ wpc[w] = "start" /\ wpc' = [wpc EXCEPT ![w] = "read"]
      /\ min0' = [min0 EXCEPT ![w] = faults[ProcOf(w)]]
      /\ UNCHANGED <<mainVars, childVars, pos, res, took, faults, fsize, failures>>
      /\ UNCHANGED <<cmd, mpc, idx, cpc, cidx>>
      BY DEF WorkerBegin, Baseline, mainVars, childVars
<1>2. ArgumentsOk /\ w \in Active
      BY <1>1 DEF StartedInv
<1>3. ProcOf(w) \in Children \cup {Main}
      BY <1>2, ProcTyped DEF BaseInv
<1>4. BaseInv'
      BY <1>1, <1>3, Same DEF BaseInv
<1>5. MainInv' /\ ChildInv' /\ WaitInv'
      BY <1>1, OthersStay
<1>6. \A v \in Workers : v # w => wpc'[v] = wpc[v] /\ min0'[v] = min0[v]
      BY <1>1 DEF BaseInv
<1>7. wpc'[w] = "read" /\ min0'[w] = faults[ProcOf(w)]
      BY <1>1 DEF BaseInv
<1>8. StartedInv'
      BY <1>1, <1>6, Same DEF StartedInv, Forking, Fresh
<1>9. WorkerInv'
      BY <1>1, <1>2, <1>6, <1>7, Same, SliceTyped DEF WorkerInv, BaseInv
<1>10. FaultInv'
      <2>1. \A q : TookOf(q)' = TookOf(q)
            BY <1>1, Same DEF TookOf
      <2>2. ASSUME NEW v \in Workers, v # w
            PROVE  /\ wpc'[v] = "read" => faults'[ProcOf(v)'] - min0'[v] \in took'[v] .. Cardinality(TookOf(ProcOf(v))')
                   /\ wpc'[v] = "done" => res'[v].minflt \in took'[v] .. Cardinality(TookOf(ProcOf(v))')
            BY <1>1, <1>6, <2>1, <2>2, Same DEF FaultInv
      <2>3. faults'[ProcOf(w)'] - min0'[w] \in took'[w] .. Cardinality(TookOf(ProcOf(w))')
            <3>1. took[w] = 0
                  BY <1>1 DEF WorkerInv
            <3>2. Cardinality(TookOf(ProcOf(w))) \in Nat
                  BY <1>2, TookFinite DEF BaseInv
            <3>3. faults[ProcOf(w)] \in Int
                  BY <1>3 DEF BaseInv
            <3> QED BY <1>1, <1>7, <2>1, <3>1, <3>2, <3>3, Same
      <2> QED BY <1>7, <2>2, <2>3 DEF FaultInv
<1>11. JoinInv'
      BY <1>1, <1>2, <1>6, <1>7, Same, Sizes DEF JoinInv, Forking, BaseInv
<1>12. ReadInv'
      BY <1>1, <1>2, <1>6, <1>7, Same, Sizes DEF ReadInv, Forking, BaseInv
<1> QED BY <1>4, <1>5, <1>8, <1>9, <1>10, <1>11, <1>12 DEF IInv

\* The worker's malloc fails and it ends with a NULL result.
LEMMA NoResultStep == ASSUME IInv, NEW w \in Workers, WorkerNoResult(w) PROVE IInv'
<1> BaseInv /\ MainInv /\ ChildInv /\ WaitInv /\ StartedInv /\ WorkerInv /\ FaultInv /\ JoinInv /\ ReadInv
    BY DEF IInv
<1>1. /\ wpc[w] = "start" /\ wpc' = [wpc EXCEPT ![w] = "null"] /\ failures' = failures + 1
      /\ UNCHANGED <<mainVars, childVars, pos, min0, res, took, faults, fsize>>
      /\ UNCHANGED <<cmd, mpc, idx, cpc, cidx>>
      BY DEF WorkerNoResult, Fails, mainVars, childVars
<1>2. ArgumentsOk /\ w \in Active
      BY <1>1 DEF StartedInv
<1>3. BaseInv'
      BY <1>1, Same DEF BaseInv
<1>4. MainInv' /\ ChildInv' /\ WaitInv'
      BY <1>1, OthersStay
<1>5. wpc'[w] = "null" /\ \A v \in Workers : v # w => wpc'[v] = wpc[v]
      BY <1>1 DEF BaseInv
<1>6. StartedInv'
      BY <1>1, <1>5, Same DEF StartedInv, Forking, Fresh
<1>7. WorkerInv'
      BY <1>1, <1>5, Same DEF WorkerInv
<1>8. FaultInv'
      <2>1. \A q : TookOf(q)' = TookOf(q)
            BY <1>1, Same DEF TookOf
      <2> QED BY <1>1, <1>5, <2>1, Same DEF FaultInv
<1>9. JoinInv'
      BY <1>1, <1>2, <1>5, Same, Sizes DEF JoinInv, Forking, BaseInv
<1>10. ReadInv'
      BY <1>1 DEF ReadInv, BaseInv
<1> QED BY <1>3, <1>4, <1>6, <1>7, <1>8, <1>9, <1>10 DEF IInv

\* One read() of a worker, which may be the first to touch its buffer.
LEMMA ReadStep == ASSUME IInv, NEW w \in Workers, WorkerRead(w) PROVE IInv'
<1> BaseInv /\ MainInv /\ ChildInv /\ WaitInv /\ StartedInv /\ WorkerInv /\ FaultInv /\ JoinInv /\ ReadInv
    BY DEF IInv
<1> DEFINE n == Min({Chunk(w), fsize - pos[w]})
           sum == res[w].checksum + MapThenSumSet(Byte, Sampled(pos[w], n))
<1>1. PICK f \in {0, 1} :
          /\ f = 1 => pos[w] = Start(w)
          /\ faults' = [faults EXCEPT ![ProcOf(w)] = faults[ProcOf(w)] + f]
          /\ took' = [took EXCEPT ![w] = took[w] + f]
      <2>1. PICK g \in IF pos[w] = Start(w) THEN {0, 1} ELSE {0} :
                /\ faults' = [faults EXCEPT ![ProcOf(w)] = faults[ProcOf(w)] + g]
                /\ took' = [took EXCEPT ![w] = took[w] + g]
            BY Zenon DEF WorkerRead, Start
      <2>2. g \in {0, 1} /\ (g = 1 => pos[w] = Start(w))
            OBVIOUS
      <2> QED BY <2>1, <2>2, Zenon
<1>2. /\ wpc[w] = "read" /\ Remaining(w) > 0 /\ n > 0
      /\ pos' = [pos EXCEPT ![w] = pos[w] + n]
      /\ UNCHANGED <<mainVars, childVars, wpc, min0, fsize, failures>>
      /\ UNCHANGED <<cmd, mpc, idx, cpc, cidx>>
      BY DEF WorkerRead, mainVars, childVars
<1>3. ArgumentsOk /\ w \in Active
      BY <1>2 DEF StartedInv
<1>4. ProcOf(w) \in Children \cup {Main}
      BY <1>3, ProcTyped DEF BaseInv
<1>5. n \in 1 .. End(w) - pos[w] /\ pos[w] \in Start(w) .. End(w) /\ Start(w) \in Int /\ End(w) \in Int
      <2>1. Start(w) \in Int /\ End(w) \in Int /\ pos[w] \in Start(w) .. End(w)
            BY <1>2, <1>3, SliceTyped DEF WorkerInv, BaseInv
      <2>2. Remaining(w) = End(w) - pos[w] /\ BufSize \in Int /\ fsize \in Int
            BY ArgumentAssumption DEF Remaining, End, BaseInv
      <2>3. Remaining(w) \in Int
            BY <2>1, <2>2
      <2>4. Chunk(w) \in Int /\ Chunk(w) <= Remaining(w)
            BY <2>2, <2>3, MinOfTwo DEF Chunk
      <2>5. n \in Int /\ n <= Chunk(w)
            <3>1. fsize - pos[w] \in Int
                  BY <2>1, <2>2
            <3> QED BY <2>4, <3>1, MinOfTwo
      <2> HIDE DEF n
      <2> QED BY <1>2, <2>1, <2>2, <2>4, <2>5
<1>6. DOMAIN res' = Workers /\ (\A v \in Workers : v # w => res'[v] = res[v])
      /\ \A v \in Workers : "minflt" \in DOMAIN res'[v]
      <2>1. res' = [res EXCEPT ![w] = [res[w] EXCEPT !.checksum = sum]]
            BY DEF WorkerRead
      <2> HIDE DEF sum
      <2> QED BY <2>1 DEF BaseInv
<1> HIDE DEF n
<1>7. took[w] + f \in {0, 1}
      BY <1>1, <1>2 DEF WorkerInv, BaseInv
<1>8. BaseInv'
      <2>1. faults' \in [Children \cup {Main} -> Int]
            BY <1>1, <1>4 DEF BaseInv
      <2>2. took' \in [Workers -> {0, 1}]
            BY <1>1, <1>7 DEF BaseInv
      <2>3. pos' \in [Workers -> Int]
            BY <1>2, <1>5 DEF BaseInv
      <2> QED BY <1>2, <1>6, <2>1, <2>2, <2>3, Same DEF BaseInv
<1>9. MainInv' /\ ChildInv' /\ WaitInv'
      BY <1>2, OthersStay
<1>10. /\ \A v \in Workers : v # w => pos'[v] = pos[v] /\ took'[v] = took[v]
       /\ pos'[w] = pos[w] + n /\ took'[w] = took[w] + f
      BY <1>1, <1>2 DEF BaseInv
<1>11. StartedInv'
      BY <1>2, Same DEF StartedInv, Forking, Fresh
<1>12. WorkerInv'
      <2>1. ASSUME NEW v \in Workers, v # w
            PROVE  /\ wpc'[v] \in {"none", "start"} => took'[v] = 0
                   /\ wpc'[v] = "start" => pos'[v] = Start(v)'
                   /\ wpc'[v] \in {"read", "done"} => pos'[v] \in Start(v)' .. End(v)'
                   /\ wpc'[v] = "read" /\ pos'[v] = Start(v)' => took'[v] = 0
            BY <1>2, <1>10, <2>1, Same DEF WorkerInv
      <2>2. pos'[w] \in Start(w) .. End(w) /\ pos'[w] # Start(w)
            BY <1>5, <1>10
      <2> QED BY <1>2, <2>1, <2>2, Same DEF WorkerInv
<1>13. FaultInv'
      <2>1. ASSUME NEW q, q # ProcOf(w) PROVE TookOf(q)' = TookOf(q)
            <3>1. \A v \in ThreadsOf(q) : v \in Workers /\ v # w
                  BY <1>3, <2>1, Sizes DEF ThreadsOf, BaseInv
            <3>2. \A v \in ThreadsOf(q) : took'[v] = took[v]
                  BY <1>10, <3>1
            <3>3. ThreadsOf(q)' = ThreadsOf(q)
                  BY <1>2, Same
            <3> QED BY <3>2, <3>3 DEF TookOf
      <2>2. /\ Cardinality(TookOf(ProcOf(w))) \in Nat
            /\ Cardinality(TookOf(ProcOf(w))') = Cardinality(TookOf(ProcOf(w))) + f
            <3>1. w \in ThreadsOf(ProcOf(w)) /\ ThreadsOf(ProcOf(w)) \subseteq Workers
                  BY <1>3, Sizes DEF ThreadsOf, BaseInv
            <3>2. IsFiniteSet(TookOf(ProcOf(w))) /\ Cardinality(TookOf(ProcOf(w))) \in Nat
                  BY <1>3, TookFinite DEF BaseInv
            <3>3. CASE f = 0
                  <4>1. took' = took
                        BY <1>1, <3>3 DEF BaseInv
                  <4>2. TookOf(ProcOf(w))' = TookOf(ProcOf(w))
                        BY <1>2, <4>1, Same DEF TookOf
                  <4> QED BY <3>2, <3>3, <4>2
            <3>4. CASE f = 1
                  <4>1. took[w] = 0 /\ took'[w] = 1
                        BY <1>1, <1>2, <1>10, <3>4 DEF WorkerInv
                  <4>2. w \notin TookOf(ProcOf(w))
                        BY <4>1 DEF TookOf
                  <4>3. TookOf(ProcOf(w))' = TookOf(ProcOf(w)) \cup {w}
                        BY <1>2, <1>10, <3>1, <4>1, Same DEF TookOf
                  <4> QED BY <3>2, <3>4, <4>2, <4>3, FS_AddElement
            <3> QED BY <3>3, <3>4
      <2>3. faults'[ProcOf(w)] = faults[ProcOf(w)] + f /\ \A q \in Children \cup {Main} : q # ProcOf(w) => faults'[q] = faults[q]
            BY <1>1, <1>4 DEF BaseInv
      <2>4. ASSUME NEW v \in Workers, wpc[v] = "read"
            PROVE  faults'[ProcOf(v)] - min0'[v] \in took'[v] .. Cardinality(TookOf(ProcOf(v))')
            <3>1. ProcOf(v) \in Children \cup {Main}
                  BY <2>4, ProcTyped DEF BaseInv, StartedInv
            <3>2. /\ faults[ProcOf(v)] - min0[v] \in took[v] .. Cardinality(TookOf(ProcOf(v)))
                  /\ faults[ProcOf(v)] \in Int /\ min0[v] \in Int /\ took[v] \in Int
                  BY <2>4, <3>1 DEF FaultInv, BaseInv
            <3>3. took'[v] \in Int /\ took'[v] <= took[v] + f
                  BY <1>10, <3>2
            <3>4. CASE ProcOf(v) = ProcOf(w)
                  <4>1. CASE v = w
                        BY <1>2, <1>10, <2>2, <2>3, <3>2, <4>1
                  <4>2. CASE v # w
                        BY <1>2, <1>10, <2>2, <2>3, <3>2, <3>4, <4>2, Same
                  <4> QED BY <4>1, <4>2
            <3>5. CASE ProcOf(v) # ProcOf(w)
                  BY <1>2, <1>10, <2>1, <2>3, <3>1, <3>2, <3>5, Same
            <3> QED BY <3>4, <3>5
      <2>5. ASSUME NEW v \in Workers, wpc[v] = "done"
            PROVE  res'[v].minflt \in took'[v] .. Cardinality(TookOf(ProcOf(v))')
            <3>1. v # w /\ res'[v] = res[v] /\ took'[v] = took[v]
                  BY <1>2, <1>6, <1>10, <2>5
            <3>2. res[v].minflt \in took[v] .. Cardinality(TookOf(ProcOf(v))) /\ took[v] \in Int
                  BY <2>5 DEF FaultInv, BaseInv
            <3>3. CASE ProcOf(v) = ProcOf(w)
                  BY <1>2, <2>2, <3>1, <3>2, <3>3, Same
            <3>4. CASE ProcOf(v) # ProcOf(w)
                  BY <1>2, <2>1, <3>1, <3>2, <3>4, Same
            <3> QED BY <3>3, <3>4
      <2> QED BY <1>2, <2>4, <2>5, Same DEF FaultInv
<1>14. JoinInv'
      BY <1>2, Same DEF JoinInv, Forking
<1>15. ReadInv'
      BY <1>2, <1>10, Same DEF ReadInv, Forking
<1> QED BY <1>8, <1>9, <1>11, <1>12, <1>13, <1>14, <1>15 DEF IInv

\* The worker's loop ends and it takes the second fault count.
LEMMA EndStep == ASSUME IInv, NEW w \in Workers, WorkerEnd(w) PROVE IInv'
<1> BaseInv /\ MainInv /\ ChildInv /\ WaitInv /\ StartedInv /\ WorkerInv /\ FaultInv /\ JoinInv /\ ReadInv
    BY DEF IInv
<1> DEFINE delta == faults[ProcOf(w)] - min0[w]
<1>1. /\ wpc[w] = "read" /\ wpc' = [wpc EXCEPT ![w] = "done"]
      /\ pos[w] >= Min({End(w), fsize})
      /\ UNCHANGED <<mainVars, childVars, pos, min0, took, faults, fsize, failures>>
      /\ UNCHANGED <<cmd, mpc, idx, cpc, cidx>>
      BY DEF WorkerEnd, End, mainVars, childVars
<1>2. ArgumentsOk /\ w \in Active
      BY <1>1 DEF StartedInv
<1>3. /\ DOMAIN res' = Workers /\ \A v \in Workers : "minflt" \in DOMAIN res'[v]
      /\ res'[w].minflt = delta /\ \A v \in Workers : v # w => res'[v] = res[v]
      <2>1. res' = [res EXCEPT ![w] = [res[w] EXCEPT !.minflt = delta]]
            BY DEF WorkerEnd
      <2> HIDE DEF delta
      <2> QED BY <2>1 DEF BaseInv
<1>4. BaseInv'
      BY <1>1, <1>3, Same DEF BaseInv
<1>5. MainInv' /\ ChildInv' /\ WaitInv'
      BY <1>1, OthersStay
<1>6. wpc'[w] = "done" /\ \A v \in Workers : v # w => wpc'[v] = wpc[v]
      BY <1>1 DEF BaseInv
<1>7. StartedInv'
      BY <1>1, <1>6, Same DEF StartedInv, Forking, Fresh
<1>8. WorkerInv'
      BY <1>1, <1>6, Same DEF WorkerInv
<1>9. FaultInv'
      <2>1. \A q : TookOf(q)' = TookOf(q)
            BY <1>1, Same DEF TookOf
      <2> QED BY <1>1, <1>3, <1>6, <2>1, Same DEF FaultInv
<1>10. JoinInv'
      BY <1>1, <1>2, <1>6, Same, Sizes DEF JoinInv, Forking, BaseInv
<1>11. ReadInv'
      <2>1. failures = 0 => pos[w] = End(w)
            <3> SUFFICES ASSUME failures = 0 PROVE pos[w] = End(w)
                OBVIOUS
            <3>1. fsize = FileSize /\ pos[w] \in Start(w) .. End(w)
                  BY <1>1 DEF ReadInv, WorkerInv
            <3>2. Start(w) \in Int /\ End(w) \in Int /\ End(w) <= FileSize /\ FileSize \in Int
                  BY <1>2, SliceTyped, ArgumentAssumption DEF BaseInv
            <3>3. Min({End(w), fsize}) = End(w)
                  BY <3>1, <3>2, MinOfTwo
            <3> QED BY <1>1, <3>1, <3>2, <3>3
      <2> QED BY <1>1, <1>2, <1>6, <2>1, Same, Sizes DEF ReadInv, Forking, BaseInv
<1> QED BY <1>4, <1>5, <1>7, <1>8, <1>9, <1>10, <1>11 DEF IInv

-----------------------------------------------------------------------------
(* A process exits.                                                        *)

\* The threads of a process die with it, and only they.
LEMMA Deaths ==
    ASSUME BaseInv, NEW q, ThreadsDie(q)
    PROVE  /\ wpc' \in [Workers -> {"none", "start", "read", "done", "null", "dead"}]
           /\ \A w \in Workers :
                  \/ wpc'[w] = wpc[w] /\ ~(w \in ThreadsOf(q) /\ wpc[w] \in {"start", "read"})
                  \/ wpc'[w] = "dead" /\ w \in ThreadsOf(q) /\ wpc[w] \in {"start", "read"}
BY DEF BaseInv, ThreadsDie

\* The parent gives up; without a failure it does so only on its arguments.
LEMMA MainFailsStep ==
    ASSUME IInv, MainFails, failures' \in Nat,
           failures' = 0 => failures = 0 /\ mpc = "arguments"
    PROVE  IInv'
<1> BaseInv /\ MainInv /\ ChildInv /\ WaitInv /\ StartedInv /\ WorkerInv /\ FaultInv /\ JoinInv /\ ReadInv
    BY DEF IInv
<1>1. /\ mpc' = "failed"
      /\ UNCHANGED <<cmd, idx, cpc, cidx, pos, min0, res, took, faults, fsize>>
      BY DEF MainFails, childVars
<1>2. /\ wpc' \in [Workers -> {"none", "start", "read", "done", "null", "dead"}]
      /\ \A w \in Workers :
             \/ wpc'[w] = wpc[w]
             \/ wpc'[w] = "dead" /\ wpc[w] \in {"start", "read"}
      BY Deaths DEF MainFails
<1>3. BaseInv'
      BY <1>1, <1>2 DEF BaseInv
<1>4. MainInv' /\ ChildInv' /\ WaitInv' /\ JoinInv'
      BY <1>1 DEF MainInv, ChildInv, WaitInv, JoinInv, Forking
<1>5. StartedInv'
      BY <1>1, <1>2, Same DEF StartedInv, Forking
<1>6. WorkerInv'
      BY <1>1, <1>2, Same DEF WorkerInv
<1>7. FaultInv'
      <2>1. \A q : TookOf(q)' = TookOf(q)
            BY <1>1, Same DEF TookOf
      <2> QED BY <1>1, <1>2, <2>1, Same DEF FaultInv
<1>8. ReadInv'
      <2>1. failures' = 0 => \A w \in Workers : wpc'[w] = wpc[w]
            BY <1>2 DEF StartedInv
      <2> QED BY <1>1, <2>1, Same DEF ReadInv, Forking
<1> QED BY <1>3, <1>4, <1>5, <1>6, <1>7, <1>8 DEF IInv

\* A child exits; without a failure it does so only at its end.
LEMMA ChildExitsStep ==
    ASSUME IInv, NEW p \in Children, ChildExits(p), mpc # "failed", ~Fresh(p), cpc[p] # "zombie",
           failures' \in Nat, failures' = 0 => failures = 0 /\ cpc[p] = "exit"
    PROVE  IInv'
<1> BaseInv /\ MainInv /\ ChildInv /\ WaitInv /\ StartedInv /\ WorkerInv /\ FaultInv /\ JoinInv /\ ReadInv
    BY DEF IInv
<1>1. /\ cpc' = [cpc EXCEPT ![p] = "zombie"]
      /\ UNCHANGED <<cmd, mpc, idx, cidx, pos, min0, res, took, faults, fsize>>
      BY DEF ChildExits, mainVars
<1>2. /\ wpc' \in [Workers -> {"none", "start", "read", "done", "null", "dead"}]
      /\ \A w \in Workers :
             \/ wpc'[w] = wpc[w] /\ ~(w \in ThreadsOf(p) /\ wpc[w] \in {"start", "read"})
             \/ wpc'[w] = "dead" /\ w \in ThreadsOf(p) /\ wpc[w] \in {"start", "read"}
      BY Deaths DEF ChildExits
<1>3. ~Threaded /\ p < NProcs /\ mpc \notin {"arguments", "summary", "done"}
      BY Numbered, Sizes DEF ChildInv, Fresh, BaseInv
<1>4. Forking /\ ArgumentsOk /\ Active \subseteq Workers
      BY <1>3, Sizes DEF Forking, BaseInv
<1>5. BaseInv'
      BY <1>1, <1>2, Same DEF BaseInv
<1>6. MainInv'
      BY <1>1, Same DEF MainInv
<1>7. cpc'[p] = "zombie" /\ \A q \in Children : q # p => cpc'[q] = cpc[q]
      BY <1>1 DEF BaseInv
<1>8. ChildInv'
      BY <1>1, <1>3, <1>7, Same DEF ChildInv, Fresh
<1>9. WaitInv'
      <2>1. Reaped' = Reaped
            <3>1. 0 .. NProcs - 1 \subseteq Children
                  BY <1>3, <1>4, Sizes DEF BaseInv
            <3> QED BY <1>1, <1>7, <3>1, Same DEF Reaped, Fresh
      <2> QED BY <1>1, <2>1 DEF WaitInv
<1>10. \A w \in Active : ProcOf(w) \in Children /\ (w \in ThreadsOf(p) <=> ProcOf(w) = p)
      BY <1>3, <1>4, Grid DEF ThreadsOf, BaseInv
<1>11. StartedInv'
      BY <1>1, <1>2, <1>7, <1>10, Same DEF StartedInv, Forking, Fresh
<1>12. WorkerInv'
      BY <1>1, <1>2, Same DEF WorkerInv
<1>13. FaultInv'
      <2>1. \A q : TookOf(q)' = TookOf(q)
            BY <1>1, Same DEF TookOf
      <2> QED BY <1>1, <1>2, <2>1, Same DEF FaultInv
<1>14. JoinInv'
      <2>1. mpc \notin {"join", "summary"}
            BY <1>3 DEF MainInv
      <2>2. ASSUME NEW w \in Active
            PROVE  /\ cpc'[ProcOf(w)] = "join" /\ w < GlobalId(ProcOf(w), cidx[ProcOf(w)]) => wpc'[w] = "done"
                   /\ cpc'[ProcOf(w)] \in {"report", "exit"} => wpc'[w] = "done"
                   /\ wpc'[w] \in {"start", "read"} => cpc'[ProcOf(w)] \in {"create", "join"}
            BY <1>2, <1>4, <1>7, <1>10 DEF JoinInv
      <2> QED BY <1>1, <2>1, <2>2, Same DEF JoinInv, Forking
<1>15. ReadInv'
      <2> SUFFICES ASSUME failures' = 0 PROVE ReadInv'
          BY DEF ReadInv
      <2>1. failures = 0 /\ cpc[p] = "exit"
            OBVIOUS
      <2>2. \A w \in Active : w \in ThreadsOf(p) => wpc[w] = "done"
            BY <1>4, <1>10, <2>1 DEF JoinInv
      <2>3. \A w \in Workers : wpc'[w] = wpc[w]
            BY <1>2, <2>2 DEF ThreadsOf
      <2> QED BY <1>1, <1>4, <1>7, <1>10, <2>1, <2>2, <2>3, Same DEF ReadInv, Forking
<1> QED BY <1>5, <1>6, <1>8, <1>9, <1>11, <1>12, <1>13, <1>14, <1>15 DEF IInv

\* A worker calls exit(1): its process is gone, the other threads included.
LEMMA WorkerExitsStep ==
    ASSUME IInv, NEW w \in Workers, WorkerExits(w), ~Ended
    PROVE  IInv'
<1> BaseInv /\ StartedInv /\ JoinInv
    BY DEF IInv
<1>1. wpc[w] \in {"start", "read"} /\ failures' = failures + 1 /\ failures' \in Nat /\ failures' # 0
      BY DEF WorkerExits, Fails, BaseInv
<1>2. mpc # "failed"
      BY DEF Ended
<1>3. ArgumentsOk /\ w \in Active /\ mpc # "arguments"
      BY <1>1 DEF StartedInv
<1>4. CASE Threaded
      <2>1. MainFails
            BY <1>4, ThreadedProc DEF WorkerExits, ProcessExits
      <2> QED BY <1>1, <2>1, MainFailsStep
<1>5. CASE ~Threaded
      <2>1. ProcOf(w) \in Children /\ ProcOf(w) # Main
            BY <1>3, <1>5, ProcTyped, Numbered DEF BaseInv
      <2>2. cpc[ProcOf(w)] \in {"create", "join"}
            BY <1>1, <1>2, <1>3, <1>5 DEF JoinInv, Forking
      <2>3. PICK p \in Children : p = ProcOf(w)
            BY <2>1
      <2>4. ChildExits(p)
            BY <2>1, <2>3 DEF WorkerExits, ProcessExits
      <2> QED BY <1>1, <1>2, <2>2, <2>3, <2>4, ChildExitsStep DEF Fresh
<1> QED BY <1>4, <1>5

-----------------------------------------------------------------------------
(* Steps of the parent.                                                    *)

\* The arguments are accepted or refused.
LEMMA ArgumentsStep == ASSUME IInv, MainArguments PROVE IInv'
<1> BaseInv /\ MainInv /\ ChildInv /\ WaitInv /\ StartedInv /\ WorkerInv /\ FaultInv /\ JoinInv /\ ReadInv
    BY DEF IInv
<1>1. mpc = "arguments" /\ failures \in Nat
      BY DEF MainArguments, BaseInv
<1>2. CASE MainFails /\ failures' = failures
      BY <1>1, <1>2, MainFailsStep
<1>3. CASE Fails /\ MainFails
      BY <1>1, <1>3, MainFailsStep DEF Fails
<1>4. CASE /\ ArgumentsOk /\ mpc' = RoundHead
           /\ UNCHANGED <<cmd, round, idx, total, childVars, workerVars, pipeVars, faults, fsize, failures>>
      <2>1. UNCHANGED <<cmd, idx, cpc, cidx, wpc, pos, min0, res, took, faults, fsize, failures>>
            BY <1>4 DEF childVars, workerVars
      <2>2. mpc' = IF Threaded THEN "create" ELSE "fork"
            BY <1>4 DEF RoundHead
      <2>3. idx = 0 /\ (\A p \in Children : cpc[p] = "none") /\ \A w \in Workers : wpc[w] = "none"
            BY <1>1 DEF MainInv, ChildInv, StartedInv
      <2>4. NProcs \in Nat \ {0} /\ TotalWorkers \in Nat \ {0} /\ Active \subseteq Workers /\ Children \subseteq Nat
            BY <1>4, Sizes, Numbered DEF BaseInv
      <2>5. BaseInv'
            BY <1>4, <2>1, <2>2, Same DEF BaseInv
      <2>6. MainInv'
            BY <2>1, <2>2, <2>3, <2>4, Same DEF MainInv
      <2>7. ChildInv' /\ WaitInv'
            BY <2>1, <2>2, <2>3, <2>4, Same DEF ChildInv, WaitInv, Fresh
      <2>8. StartedInv' /\ WorkerInv'
            BY <2>1, <2>3, Same DEF StartedInv, WorkerInv
      <2>9. FaultInv' /\ JoinInv'
            <3>1. \A p \in Children : cpc'[p] = "none"
                  BY <2>1, <2>3
            <3>2. ~Threaded => \A w \in Active : ProcOf(w) \in Children
                  BY <1>4, Grid DEF BaseInv
            <3> QED BY <2>1, <2>2, <2>3, <2>4, <3>1, <3>2, Same DEF FaultInv, JoinInv, Forking
      <2>10. ReadInv'
            <3>1. ~Threaded => \A w \in Active : ProcOf(w) \in Children
                  BY <1>4, Grid DEF BaseInv
            <3> QED BY <2>1, <2>2, <2>3, <2>4, <3>1, Same DEF ReadInv, Forking
      <2> QED BY <2>5, <2>6, <2>7, <2>8, <2>9, <2>10 DEF IInv
<1> QED BY <1>2, <1>3, <1>4 DEF MainArguments

\* A worker that pthread_create starts was not started before.
LEMMA StartStep ==
    ASSUME IInv, NEW w \in Workers, Started(w), wpc[w] = "none", w \in Active, ArgumentsOk,
           UNCHANGED <<cmd, min0, took, faults, fsize, failures>>
    PROVE  /\ wpc' \in [Workers -> {"none", "start", "read", "done", "null", "dead"}]
           /\ pos' \in [Workers -> Int]
           /\ DOMAIN res' = Workers /\ \A v \in Workers : "minflt" \in DOMAIN res'[v]
           /\ WorkerInv' /\ FaultInv'
           /\ wpc'[w] = "start" /\ \A v \in Workers : v # w => wpc'[v] = wpc[v] /\ pos'[v] = pos[v]
<1> BaseInv /\ WorkerInv /\ FaultInv
    BY DEF IInv
<1>1. /\ wpc' = [wpc EXCEPT ![w] = "start"] /\ pos' = [pos EXCEPT ![w] = Start(w)]
      /\ res' = [res EXCEPT ![w] = Zero]
      BY DEF Started, Start
<1>2. Start(w) \in Int
      BY SliceTyped DEF BaseInv
<1>3. /\ wpc' \in [Workers -> {"none", "start", "read", "done", "null", "dead"}]
      /\ pos' \in [Workers -> Int]
      BY <1>1, <1>2 DEF BaseInv
<1>4. /\ DOMAIN res' = Workers /\ \A v \in Workers : "minflt" \in DOMAIN res'[v]
      /\ \A v \in Workers : v # w => res'[v] = res[v]
      <2>1. "minflt" \in DOMAIN Zero
            BY DEF Zero
      <2> QED BY <1>1, <2>1 DEF BaseInv
<1>5. /\ wpc'[w] = "start" /\ pos'[w] = Start(w)
      /\ \A v \in Workers : v # w => wpc'[v] = wpc[v] /\ pos'[v] = pos[v]
      BY <1>1 DEF BaseInv
<1>6. WorkerInv'
      BY <1>5, Same DEF WorkerInv
<1>7. FaultInv'
      <2>1. \A q : TookOf(q)' = TookOf(q)
            BY Same DEF TookOf
      <2> QED BY <1>4, <1>5, <2>1, Same DEF FaultInv
<1> QED BY <1>3, <1>4, <1>5, <1>6, <1>7

\* The parent starts a thread.
LEMMA CreateStep == ASSUME IInv, MainCreate PROVE IInv'
<1> BaseInv /\ MainInv /\ ChildInv /\ WaitInv /\ StartedInv /\ WorkerInv /\ FaultInv /\ JoinInv /\ ReadInv
    BY DEF IInv
<1>1. mpc = "create" /\ ArgumentsOk /\ failures \in Nat
      BY DEF MainCreate, BaseInv
<1>2. CASE Fails /\ MainFails
      BY <1>1, <1>2, MainFailsStep DEF Fails
<1>3. CASE /\ Started(idx)
           /\ MainLoop(TotalWorkers, "create", "join")
           /\ UNCHANGED <<cmd, round, total, childVars, min0, took, pipeVars, faults, fsize, failures>>
      <2>1. UNCHANGED <<cmd, cpc, cidx, min0, took, faults, fsize, failures>>
            BY <1>3 DEF childVars
      <2>2. TotalWorkers \in Nat \ {0} /\ Active \subseteq Workers /\ Threaded /\ idx \in Nat /\ idx < TotalWorkers
            BY <1>1, Sizes DEF MainInv, BaseInv
      <2>3. \/ idx + 1 < TotalWorkers /\ idx' = idx + 1 /\ mpc' = "create"
            \/ idx + 1 >= TotalWorkers /\ idx' = 0 /\ mpc' = "join"
            BY <1>3, <2>2 DEF MainLoop
      <2>4. idx \in Active /\ idx \in Workers
            BY <2>2 DEF Active
      <2>5. wpc[idx] = "none"
            BY <1>1, <2>2, <2>4 DEF StartedInv
      <2>6. PICK w \in Workers : w = idx
            BY <2>4
      <2>7. /\ wpc' \in [Workers -> {"none", "start", "read", "done", "null", "dead"}]
            /\ pos' \in [Workers -> Int]
            /\ DOMAIN res' = Workers /\ \A v \in Workers : "minflt" \in DOMAIN res'[v]
            /\ WorkerInv' /\ FaultInv'
            /\ wpc'[w] = "start" /\ \A v \in Workers : v # w => wpc'[v] = wpc[v] /\ pos'[v] = pos[v]
            BY <1>1, <1>3, <2>1, <2>4, <2>5, <2>6, StartStep
      <2>8. BaseInv'
            BY <1>1, <2>1, <2>3, <2>2, <2>7, Same DEF BaseInv
      <2>9. MainInv' /\ ChildInv' /\ WaitInv'
            BY <2>1, <2>2, <2>3, <1>1, Same DEF MainInv, ChildInv, WaitInv
      <2>10. StartedInv'
            BY <1>1, <2>1, <2>2, <2>3, <2>4, <2>6, <2>7, Same DEF StartedInv, Forking
      <2>11. JoinInv'
            BY <2>1, <2>2, <2>3, Same DEF JoinInv, Forking, Active
      <2>12. ReadInv'
            BY <2>1, <2>2, <2>7, Same DEF ReadInv, Forking
      <2> QED BY <2>7, <2>8, <2>9, <2>10, <2>11, <2>12 DEF IInv
<1> QED BY <1>2, <1>3 DEF MainCreate

\* The parent joins a thread.
LEMMA JoinStep == ASSUME IInv, MainJoin PROVE IInv'
<1> BaseInv /\ MainInv /\ ChildInv /\ WaitInv /\ StartedInv /\ WorkerInv /\ FaultInv /\ JoinInv /\ ReadInv
    BY DEF IInv
<1>1. mpc = "join" /\ ArgumentsOk /\ failures \in Nat
      BY DEF MainJoin, BaseInv
<1>2. TotalWorkers \in Nat \ {0} /\ Active \subseteq Workers /\ Threaded /\ idx \in Nat /\ idx < TotalWorkers
      BY <1>1, Sizes DEF MainInv, BaseInv
<1>3. idx \in Active /\ idx \in Workers
      BY <1>2 DEF Active
<1>4. CASE wpc[idx] = "null" /\ MainFails /\ failures' = failures
      <2>1. failures # 0
            BY <1>3, <1>4 DEF ReadInv
      <2> QED BY <1>1, <1>4, <2>1, MainFailsStep
<1>5. CASE /\ wpc[idx] = "done"
           /\ MainLoop(TotalWorkers, "join", "summary")
           /\ UNCHANGED <<cmd, round, childVars, workerVars, pipeVars, faults, fsize, failures>>
      <2>1. UNCHANGED <<cmd, cpc, cidx, wpc, pos, min0, res, took, faults, fsize, failures>>
            BY <1>5 DEF childVars, workerVars
      <2>2. \/ idx + 1 < TotalWorkers /\ idx' = idx + 1 /\ mpc' = "join"
            \/ idx + 1 >= TotalWorkers /\ idx' = 0 /\ mpc' = "summary"
            BY <1>2, <1>5 DEF MainLoop
      <2>3. BaseInv'
            BY <1>1, <1>2, <2>1, <2>2, Same DEF BaseInv
      <2>4. MainInv' /\ WaitInv'
            BY <1>2, <2>1, <2>2, Same DEF MainInv, WaitInv
      <2>5. ChildInv'
            BY <1>1, <1>2, <2>1, <2>2, Same DEF ChildInv, Fresh
      <2>6. StartedInv' /\ WorkerInv'
            BY <1>1, <1>2, <2>1, <2>2, Same DEF StartedInv, WorkerInv, Forking
      <2>7. FaultInv'
            <3>1. \A q : TookOf(q)' = TookOf(q)
                  BY <2>1, Same DEF TookOf
            <3> QED BY <2>1, <3>1, Same DEF FaultInv
      <2>8. JoinInv'
            BY <1>1, <1>2, <1>5, <2>1, <2>2, Same DEF JoinInv, Forking, Active
      <2>9. ReadInv'
            BY <1>2, <2>1, <2>2, Same DEF ReadInv, Forking
      <2> QED BY <2>3, <2>4, <2>5, <2>6, <2>7, <2>8, <2>9 DEF IInv
<1> QED BY <1>4, <1>5 DEF MainJoin

\* The parent forks a child, whose threads do not exist yet.
LEMMA ForkStep == ASSUME IInv, MainFork PROVE IInv'
<1> BaseInv /\ MainInv /\ ChildInv /\ WaitInv /\ StartedInv /\ WorkerInv /\ FaultInv /\ JoinInv /\ ReadInv
    BY DEF IInv
<1>1. mpc = "fork" /\ ArgumentsOk /\ failures \in Nat
      BY DEF MainFork, BaseInv
<1>2. CASE Fails /\ MainFails
      BY <1>1, <1>2, MainFailsStep DEF Fails
<1>3. CASE ~(Fails /\ MainFails)
      <2>1. /\ mpc' = "close" /\ cpc' = [cpc EXCEPT ![idx] = "create"]
            /\ cidx' = [cidx EXCEPT ![idx] = 0] /\ faults' = [faults EXCEPT ![idx] = 0]
            /\ UNCHANGED <<cmd, idx, wpc, pos, min0, res, took, fsize, failures>>
            BY <1>3 DEF MainFork, workerVars
      <2>2. /\ ~Threaded /\ idx \in 0 .. NProcs - 1 /\ idx \in Children
            /\ NThreads \in Nat \ {0} /\ NProcs \in Nat \ {0} /\ Active \subseteq Workers
            BY <1>1, Sizes DEF MainInv, BaseInv
      <2>3. Fresh(idx) /\ Forking
            BY <1>1, <2>2 DEF ChildInv, Forking
      <2>4. /\ cpc'[idx] = "create" /\ \A p \in Children : p # idx => cpc'[p] = cpc[p]
            /\ cidx'[idx] = 0 /\ \A p \in Children : p # idx => cidx'[p] = cidx[p]
            /\ \A q \in Children \cup {Main} : q # idx => faults'[q] = faults[q]
            BY <2>1, <2>2 DEF BaseInv
      <2>5. \A w \in Workers : wpc[w] # "none" => ProcOf(w) \in Children /\ ProcOf(w) # idx
            BY <1>1, <2>2, <2>3, Grid DEF StartedInv, BaseInv
      <2>6. \A w \in Active : ProcOf(w) \in Children
            BY <1>1, <2>2, Grid DEF BaseInv
      <2>7. BaseInv'
            BY <1>1, <2>1, <2>2, Same DEF BaseInv
      <2>8. MainInv' /\ WaitInv'
            BY <2>1, <2>2, Same DEF MainInv, WaitInv
      <2>9. ChildInv'
            BY <1>1, <2>1, <2>2, <2>4, Same, Numbered DEF ChildInv, Fresh
      <2>10. StartedInv'
            BY <1>1, <2>1, <2>3, <2>4, <2>5, Same DEF StartedInv, Forking, Fresh
      <2>11. WorkerInv'
            BY <2>1, Same DEF WorkerInv
      <2>12. FaultInv'
            <3>1. \A q : TookOf(q)' = TookOf(q)
                  BY <2>1, Same DEF TookOf
            <3> QED BY <2>1, <2>4, <2>5, <3>1, Same DEF FaultInv
      <2>13. JoinInv'
            <3>1. ASSUME NEW w \in Active
                  PROVE  /\ cpc'[ProcOf(w)] = "join" /\ w < GlobalId(ProcOf(w), cidx'[ProcOf(w)]) => wpc[w] = "done"
                         /\ cpc'[ProcOf(w)] \in {"report", "exit"} => wpc[w] = "done"
                         /\ wpc[w] \in {"start", "read"} => cpc'[ProcOf(w)] \in {"create", "join"}
                  <4>1. CASE ProcOf(w) = idx
                        BY <2>4, <4>1
                  <4>2. CASE ProcOf(w) # idx
                        BY <2>3, <2>4, <2>6, <4>2 DEF JoinInv
                  <4> QED BY <4>1, <4>2
            <3> QED BY <2>1, <3>1, Same DEF JoinInv, Forking
      <2>14. ReadInv'
            <3>1. ASSUME failures = 0, NEW w \in Active
                  PROVE  cpc'[ProcOf(w)] = "zombie" => wpc[w] = "done"
                  BY <2>3, <2>4, <2>6, <3>1 DEF ReadInv
            <3> QED BY <2>1, <3>1, Same DEF ReadInv, Forking
      <2> QED BY <2>7, <2>8, <2>9, <2>10, <2>11, <2>12, <2>13, <2>14 DEF IInv
<1> QED BY <1>2, <1>3

\* What a step that moves only the parent, in a mode that forks, preserves.
LEMMA ParentMoves ==
    ASSUME IInv, Forking, cmd' = cmd, mpc' \in {"fork", "scan", "wait", "summary", "done"},
           UNCHANGED <<cidx, wpc, pos, min0, res, took, faults, fsize, failures>>,
           \A p \in Children : cpc'[p] = cpc[p] \/ (cpc[p] = "zombie" /\ cpc'[p] = "reaped"),
           \A p \in Children : mpc' \in {"fork", "close"} /\ Fresh(p)' => mpc \in {"fork", "close"} /\ Fresh(p),
           mpc' \in {"wait", "summary"} => \A p \in Children : cpc[p] = "reaped" => mpc \in {"wait", "summary"}
    PROVE  StartedInv' /\ WorkerInv' /\ FaultInv' /\ JoinInv' /\ ReadInv'
<1> BaseInv /\ StartedInv /\ WorkerInv /\ FaultInv /\ JoinInv /\ ReadInv
    BY DEF IInv
<1>1. ArgumentsOk /\ ~Threaded
      BY DEF Forking, BaseInv
<1>2. \A w \in Active : ProcOf(w) \in Children
      BY <1>1, Grid DEF BaseInv
<1>3. StartedInv'
      <2>1. ASSUME NEW w \in Workers, wpc'[w] # "none"
            PROVE  /\ ArgumentsOk /\ w \in Active
                   /\ mpc' \in {"fork", "close"} => ~Fresh(ProcOf(w))'
                   /\ cpc'[ProcOf(w)] = "create" => w < GlobalId(ProcOf(w), cidx[ProcOf(w)])
            <3>1. /\ ArgumentsOk /\ w \in Active
                  /\ mpc \in {"fork", "close"} => ~Fresh(ProcOf(w))
                  /\ cpc[ProcOf(w)] = "create" => w < GlobalId(ProcOf(w), cidx[ProcOf(w)])
                  BY <2>1 DEF StartedInv
            <3>2. ProcOf(w) \in Children
                  BY <1>2, <3>1
            <3>3. PICK p \in Children : p = ProcOf(w)
                  BY <3>2
            <3>4. mpc' \in {"fork", "close"} => ~Fresh(p)'
                  BY <3>1, <3>3
            <3>5. ProcOf(w)' = p
                  BY <3>3, Same
            <3> QED BY <3>1, <3>3, <3>4, <3>5 DEF Fresh
      <2>2. mpc' \notin {"arguments", "create"}
            BY <1>1, Same DEF Forking
      <2> QED BY <2>1, <2>2, Same DEF StartedInv
<1>4. WorkerInv'
      BY Same DEF WorkerInv
<1>5. FaultInv'
      <2>1. \A q : TookOf(q)' = TookOf(q)
            BY Same DEF TookOf
      <2> QED BY <2>1, Same DEF FaultInv
<1>6. JoinInv'
      <2>1. ASSUME NEW w \in Active
            PROVE  /\ cpc'[ProcOf(w)] = "join" /\ w < GlobalId(ProcOf(w), cidx[ProcOf(w)]) => wpc[w] = "done"
                   /\ cpc'[ProcOf(w)] \in {"report", "exit"} => wpc[w] = "done"
                   /\ wpc[w] \in {"start", "read"} => cpc'[ProcOf(w)] \in {"create", "join"}
            BY <1>2 DEF JoinInv
      <2> QED BY <1>1, <2>1, Same DEF JoinInv, Forking
<1>7. ReadInv'
      BY <1>2, Same DEF ReadInv, Forking
<1> QED BY <1>3, <1>4, <1>5, <1>6, <1>7

\* The parent closes its write end and goes on to the next child.
LEMMA CloseStep == ASSUME IInv, MainClose PROVE IInv'
<1> BaseInv /\ MainInv /\ ChildInv /\ WaitInv
    BY DEF IInv
<1>1. mpc = "close" /\ ArgumentsOk
      BY DEF MainClose, BaseInv
<1>2. UNCHANGED <<cmd, cpc, cidx, wpc, pos, min0, res, took, faults, fsize, failures>>
      BY DEF MainClose, childVars, workerVars
<1>3. ~Threaded /\ idx \in Nat /\ idx < NProcs /\ NProcs \in Nat \ {0} /\ Forking /\ Children \subseteq Nat
      BY <1>1, Sizes, Numbered DEF MainInv, BaseInv, Forking
<1>4. \/ idx + 1 < NProcs /\ idx' = idx + 1 /\ mpc' = "fork"
      \/ idx + 1 >= NProcs /\ idx' = 0 /\ mpc' = "scan"
      BY <1>3 DEF MainClose, MainLoop
<1>5. BaseInv'
      BY <1>1, <1>2, <1>3, <1>4, Same DEF BaseInv
<1>6. MainInv' /\ WaitInv'
      BY <1>2, <1>3, <1>4, Same DEF MainInv, WaitInv
<1>7. ChildInv'
      BY <1>1, <1>2, <1>3, <1>4, Same DEF ChildInv, Fresh
<1>8. StartedInv' /\ WorkerInv' /\ FaultInv' /\ JoinInv' /\ ReadInv'
      BY <1>1, <1>2, <1>3, <1>4, ParentMoves DEF Fresh
<1> QED BY <1>5, <1>6, <1>7, <1>8 DEF IInv

\* The parent reads a child's line, or the end of its pipe.
LEMMA ScanStep == ASSUME IInv, MainScan PROVE IInv'
<1> BaseInv /\ MainInv /\ ChildInv /\ WaitInv
    BY DEF IInv
<1>1. mpc = "scan" /\ ArgumentsOk /\ failures \in Nat
      BY DEF MainScan, BaseInv
<1>2. CASE Fails /\ MainFails
      BY <1>1, <1>2, MainFailsStep DEF Fails
<1>3. CASE /\ MainLoop(NProcs, "scan", "wait")
           /\ UNCHANGED <<cmd, round, childVars, workerVars, pipeVars, faults, fsize, failures>>
      <2>1. UNCHANGED <<cmd, cpc, cidx, wpc, pos, min0, res, took, faults, fsize, failures>>
            BY <1>3 DEF childVars, workerVars
      <2>2. /\ ~Threaded /\ idx \in Nat /\ idx < NProcs /\ NProcs \in Nat \ {0} /\ Forking
            /\ 0 .. NProcs - 1 \subseteq Children
            BY <1>1, Sizes DEF MainInv, BaseInv, Forking
      <2>3. \/ idx + 1 < NProcs /\ idx' = idx + 1 /\ mpc' = "scan"
            \/ idx + 1 >= NProcs /\ idx' = 0 /\ mpc' = "wait"
            BY <1>3, <2>2 DEF MainLoop
      <2>4. \A p \in Children : cpc[p] # "reaped"
            BY <1>1, <2>2, Numbered DEF ChildInv, Fresh
      <2>5. BaseInv'
            BY <1>1, <2>1, <2>2, <2>3, Same DEF BaseInv
      <2>6. MainInv'
            BY <2>1, <2>2, <2>3, Same DEF MainInv
      <2>7. ChildInv'
            BY <1>1, <2>1, <2>2, <2>3, Same DEF ChildInv, Fresh
      <2>8. WaitInv'
            <3>1. Reaped' = {}
                  BY <2>1, <2>2, <2>4, Same DEF Reaped
            <3> QED BY <2>3, <3>1, FS_EmptySet DEF WaitInv
      <2>9. StartedInv' /\ WorkerInv' /\ FaultInv' /\ JoinInv' /\ ReadInv'
            BY <1>1, <2>1, <2>2, <2>3, <2>4, ParentMoves DEF Fresh
      <2> QED BY <2>5, <2>6, <2>7, <2>8, <2>9 DEF IInv
<1> QED BY <1>2, <1>3 DEF MainScan

\* wait() reaps a child; after as many as there are children none is left.
LEMMA WaitStep == ASSUME IInv, MainWait PROVE IInv'
<1> BaseInv /\ MainInv /\ ChildInv /\ WaitInv
    BY DEF IInv
<1>1. mpc = "wait" /\ ArgumentsOk
      BY DEF MainWait, BaseInv
<1>2. UNCHANGED <<cmd, cidx, wpc, pos, min0, res, took, faults, fsize, failures>>
      BY DEF MainWait, workerVars
<1>3. /\ ~Threaded /\ idx \in Nat /\ idx < NProcs /\ NProcs \in Nat \ {0} /\ Forking
      /\ 0 .. NProcs - 1 \subseteq Children /\ Children \subseteq Nat
      BY <1>1, Sizes, Numbered DEF MainInv, BaseInv, Forking
<1>4. \/ idx + 1 < NProcs /\ idx' = idx + 1 /\ mpc' = "wait"
      \/ idx + 1 >= NProcs /\ idx' = 0 /\ mpc' = "summary"
      BY <1>3 DEF MainWait, MainLoop, Waits
<1>5. PICK p \in Children : cpc[p] = "zombie" /\ cpc' = [cpc EXCEPT ![p] = "reaped"]
      BY DEF MainWait
<1>6. cpc'[p] = "reaped" /\ \A q \in Children : q # p => cpc'[q] = cpc[q]
      BY <1>5 DEF BaseInv
<1>7. p \in 0 .. NProcs - 1
      BY <1>1, <1>3, <1>5 DEF ChildInv
<1>8. /\ IsFiniteSet(0 .. NProcs - 1) /\ Cardinality(0 .. NProcs - 1) = NProcs
      /\ IsFiniteSet(Reaped)
      /\ Reaped' \subseteq 0 .. NProcs - 1 /\ Cardinality(Reaped') = idx + 1
      <2>1. IsFiniteSet(0 .. NProcs - 1) /\ Cardinality(0 .. NProcs - 1) = NProcs
            BY <1>3, FS_Interval
      <2>2. Reaped \subseteq 0 .. NProcs - 1
            BY DEF Reaped
      <2>3. IsFiniteSet(Reaped)
            BY <2>1, <2>2, FS_Subset
      <2>4. p \notin Reaped /\ Reaped' = Reaped \cup {p}
            BY <1>2, <1>3, <1>5, <1>6, <1>7, Same DEF Reaped
      <2>5. Cardinality(Reaped) = idx
            BY <1>1 DEF WaitInv
      <2>6. Cardinality(Reaped \cup {p}) = idx + 1
            BY <2>3, <2>4, <2>5, FS_AddElement
      <2> QED BY <1>7, <2>1, <2>2, <2>3, <2>4, <2>6
<1>9. mpc' = "summary" => \A q \in 0 .. NProcs - 1 : cpc'[q] = "reaped"
      <2>1. mpc' = "summary" => Cardinality(Reaped') = NProcs
            BY <1>3, <1>4, <1>8
      <2>2. mpc' = "summary" => Reaped' = 0 .. NProcs - 1
            BY <1>8, <2>1, FS_Subset
      <2> QED BY <2>2 DEF Reaped
<1>10. BaseInv'
      <2>1. cpc' \in [Children -> {"none", "create", "join", "report", "exit", "zombie", "reaped"}]
            BY <1>5 DEF BaseInv
      <2> QED BY <1>1, <1>2, <1>3, <1>4, <2>1, Same DEF BaseInv
<1>11. MainInv' /\ WaitInv'
      BY <1>2, <1>3, <1>4, <1>8, Same DEF MainInv, WaitInv
<1>12. ChildInv'
      BY <1>1, <1>2, <1>3, <1>4, <1>6, <1>7, <1>9, Same DEF ChildInv, Fresh
<1>13. StartedInv' /\ WorkerInv' /\ FaultInv' /\ JoinInv' /\ ReadInv'
      BY <1>1, <1>2, <1>3, <1>4, <1>5, <1>6, ParentMoves
<1> QED BY <1>10, <1>11, <1>12, <1>13 DEF IInv

\* The summary line; the next round starts with no worker.
LEMMA SummaryStep == ASSUME IInv, MainSummary PROVE IInv'
<1> BaseInv /\ MainInv /\ ChildInv /\ WaitInv /\ StartedInv /\ WorkerInv /\ FaultInv /\ JoinInv /\ ReadInv
    BY DEF IInv
<1>1. mpc = "summary" /\ ArgumentsOk /\ idx = 0
      BY DEF MainSummary, BaseInv, MainInv
<1>2. UNCHANGED <<cmd, idx, cpc, cidx, faults, fsize, failures>>
      BY DEF MainSummary, childVars
<1>3. NProcs \in Nat \ {0} /\ TotalWorkers \in Nat \ {0} /\ Active \subseteq Workers /\ Children \subseteq Nat
      BY <1>1, Sizes, Numbered DEF BaseInv
<1>4. CASE mpc' = "done" /\ UNCHANGED <<round, total, workerVars, line>>
      <2>1. UNCHANGED <<wpc, pos, min0, res, took>>
            BY <1>4 DEF workerVars
      <2>2. BaseInv'
            BY <1>1, <1>2, <1>4, <2>1, Same DEF BaseInv
      <2>3. MainInv' /\ WaitInv'
            BY <1>2, <1>4, Same DEF MainInv, WaitInv
      <2>4. ChildInv'
            BY <1>1, <1>2, <1>4, Same DEF ChildInv, Fresh
      <2>5. StartedInv' /\ WorkerInv'
            BY <1>1, <1>2, <1>4, <2>1, Same DEF StartedInv, WorkerInv, Forking
      <2>6. FaultInv'
            <3>1. \A q : TookOf(q)' = TookOf(q)
                  BY <1>2, <2>1, Same DEF TookOf
            <3> QED BY <1>2, <2>1, <3>1, Same DEF FaultInv
      <2>7. JoinInv' /\ ReadInv'
            BY <1>1, <1>2, <1>4, <2>1, Same DEF JoinInv, ReadInv, Forking
      <2> QED BY <2>2, <2>3, <2>4, <2>5, <2>6, <2>7 DEF IInv
<1>5. CASE mpc' # "done"
      <2>1. /\ mpc' = IF Threaded THEN "create" ELSE "fork"
            /\ wpc' = [w \in Workers |-> "none"] /\ pos' = [w \in Workers |-> 0]
            /\ min0' = [w \in Workers |-> 0] /\ res' = [w \in Workers |-> Zero]
            /\ took' = [w \in Workers |-> 0]
            BY <1>5 DEF MainSummary, RoundHead
      <2>2. \A w \in Workers : wpc'[w] = "none" /\ took'[w] = 0
            BY <2>1
      <2>3. ~Threaded => \A w \in Active : ProcOf(w) \in Children
            BY <1>1, Grid DEF BaseInv
      <2>4. BaseInv'
            <3>1. "minflt" \in DOMAIN Zero
                  BY DEF Zero
            <3> QED BY <1>1, <1>2, <2>1, <3>1, Same DEF BaseInv
      <2>5. MainInv' /\ WaitInv'
            BY <1>1, <1>2, <1>3, <2>1, Same DEF MainInv, WaitInv
      <2>6. ChildInv'
            BY <1>1, <1>2, <1>3, <2>1, Same DEF ChildInv, Fresh
      <2>7. StartedInv' /\ WorkerInv' /\ FaultInv'
            BY <2>2 DEF StartedInv, WorkerInv, FaultInv
      <2>8. ~Threaded => \A p \in Children : cpc[p] \in {"none", "reaped"}
            BY <1>1 DEF ChildInv, Fresh
      <2>9. /\ mpc' \in {"create", "fork"}
            /\ \A w \in Active : wpc'[w] = "none" /\ (~Threaded => cpc'[ProcOf(w)] \in {"none", "reaped"})
            BY <1>2, <1>3, <2>1, <2>2, <2>3, <2>8
      <2>10. JoinInv'
            <3>1. ASSUME ~Threaded, NEW w \in Active
                  PROVE  /\ cpc'[ProcOf(w)] = "join" /\ w < GlobalId(ProcOf(w), cidx[ProcOf(w)]) => wpc'[w] = "done"
                         /\ cpc'[ProcOf(w)] \in {"report", "exit"} => wpc'[w] = "done"
                         /\ wpc'[w] \in {"start", "read"} => cpc'[ProcOf(w)] \in {"create", "join"}
                  BY <2>9, <3>1
            <3> QED BY <1>2, <2>9, <3>1, Same DEF JoinInv, Forking
      <2>11. ReadInv'
            <3>1. failures' = 0 => fsize' = FileSize
                  BY <1>2 DEF ReadInv
            <3>2. ASSUME ~Threaded, NEW w \in Active
                  PROVE  cpc'[ProcOf(w)] = "zombie" => wpc'[w] = "done"
                  BY <2>9, <3>2
            <3> QED BY <1>2, <2>2, <2>9, <3>1, <3>2, Same DEF ReadInv, Forking
      <2> QED BY <2>4, <2>5, <2>6, <2>7, <2>10, <2>11 DEF IInv
<1> QED BY <1>4, <1>5 DEF MainSummary, RoundHead

-----------------------------------------------------------------------------
(* Steps of a child.                                                       *)

\* A child that runs was forked in this round, in a mode that forks.
LEMMA ChildRuns ==
    ASSUME IInv, ~Ended, NEW p \in Children, cpc[p] \in {"create", "join", "report", "exit"}
    PROVE  /\ Forking /\ ~Threaded /\ ArgumentsOk /\ p \in 0 .. NProcs - 1 /\ ~Fresh(p)
           /\ mpc \in {"fork", "close", "scan", "wait"}
           /\ NThreads \in Nat \ {0} /\ Active \subseteq Workers
           /\ \A w \in Active : ProcOf(w) \in Children
<1> BaseInv /\ MainInv /\ ChildInv
    BY DEF IInv
<1>1. mpc \notin {"done", "failed"}
      BY DEF Ended
<1>2. mpc \notin {"arguments", "summary"} /\ ~Threaded
      BY <1>1 DEF ChildInv, Fresh
<1>3. ArgumentsOk /\ Forking
      BY <1>1, <1>2 DEF BaseInv, Forking
<1>4. NProcs \in Nat \ {0} /\ NThreads \in Nat \ {0} /\ Active \subseteq Workers
      BY <1>3, Sizes DEF BaseInv
<1>5. p \in 0 .. NProcs - 1
      BY <1>1, <1>4, Numbered DEF ChildInv
<1>6. mpc \in {"fork", "close", "scan", "wait"}
      BY <1>1, <1>2 DEF BaseInv, MainInv
<1>7. \A w \in Active : ProcOf(w) \in Children
      BY <1>2, <1>3, Grid DEF BaseInv
<1> QED BY <1>2, <1>3, <1>4, <1>5, <1>6, <1>7 DEF Fresh

\* A child starts a thread.
LEMMA ChildCreateStep == ASSUME IInv, ~Ended, NEW p \in Children, ChildCreate(p) PROVE IInv'
<1> BaseInv /\ MainInv /\ ChildInv /\ WaitInv /\ StartedInv /\ WorkerInv /\ FaultInv /\ JoinInv /\ ReadInv
    BY DEF IInv
<1>1. cpc[p] = "create" /\ failures \in Nat /\ mpc # "failed"
      BY DEF ChildCreate, BaseInv, Ended
<1>2. /\ Forking /\ ~Threaded /\ ArgumentsOk /\ p \in 0 .. NProcs - 1 /\ ~Fresh(p)
      /\ mpc \in {"fork", "close", "scan", "wait"}
      /\ NThreads \in Nat \ {0} /\ Active \subseteq Workers
      /\ \A w \in Active : ProcOf(w) \in Children
      BY <1>1, ChildRuns
<1>3. CASE Fails /\ ChildExits(p)
      BY <1>1, <1>2, <1>3, ChildExitsStep DEF Fails
<1>4. CASE /\ Started(GlobalId(p, cidx[p]))
           /\ ChildLoop(p, "join")
           /\ UNCHANGED <<mainVars, ctotal, min0, took, pipeVars, faults, fsize, failures>>
      <2>1. UNCHANGED <<cmd, mpc, idx, min0, took, faults, fsize, failures>>
            BY <1>4 DEF mainVars
      <2>2. PICK t \in 0 .. NThreads - 1 : t = cidx[p]
            BY <1>1, <1>2 DEF ChildInv, BaseInv
      <2>3. GlobalId(p, t) \in Active /\ GlobalId(p, t) \in Workers /\ ProcOf(GlobalId(p, t)) = p
            BY <1>2, Grid DEF BaseInv
      <2>4. PICK w \in Workers : w = GlobalId(p, t)
            BY <2>3
      <2>5. w \in Active /\ ProcOf(w) = p /\ Started(w)
            BY <1>4, <2>2, <2>3, <2>4
      <2>6. wpc[w] = "none"
            <3>1. wpc[w] # "none" => w < GlobalId(p, t)
                  BY <1>1, <1>2, <2>2, <2>5 DEF StartedInv
            <3> QED BY <2>4, <3>1, Numbered
      <2>7. /\ wpc' \in [Workers -> {"none", "start", "read", "done", "null", "dead"}]
            /\ pos' \in [Workers -> Int]
            /\ DOMAIN res' = Workers /\ \A v \in Workers : "minflt" \in DOMAIN res'[v]
            /\ WorkerInv' /\ FaultInv'
            /\ wpc'[w] = "start" /\ \A v \in Workers : v # w => wpc'[v] = wpc[v] /\ pos'[v] = pos[v]
            BY <1>2, <2>1, <2>5, <2>6, StartStep
      <2>8. \/ t + 1 < NThreads /\ cidx' = [cidx EXCEPT ![p] = t + 1] /\ cpc' = cpc
            \/ t + 1 >= NThreads /\ cidx' = [cidx EXCEPT ![p] = 0] /\ cpc' = [cpc EXCEPT ![p] = "join"]
            BY <1>2, <1>4, <2>2 DEF ChildLoop
      <2>9. /\ \/ t + 1 < NThreads /\ cidx'[p] = t + 1 /\ cpc'[p] = "create"
               \/ t + 1 >= NThreads /\ cidx'[p] = 0 /\ cpc'[p] = "join"
            /\ \A q \in Children : q # p => cidx'[q] = cidx[q] /\ cpc'[q] = cpc[q]
            BY <1>1, <2>8 DEF BaseInv
      <2>10. BaseInv'
            <3>1. cidx' \in [Children -> Nat]
                  BY <2>8 DEF BaseInv
            <3>2. cpc' \in [Children -> {"none", "create", "join", "report", "exit", "zombie", "reaped"}]
                  BY <2>8 DEF BaseInv
            <3> QED BY <2>1, <2>7, <3>1, <3>2, Same DEF BaseInv
      <2>11. MainInv'
            BY <2>1, Same DEF MainInv
      <2>12. ChildInv'
            BY <1>1, <1>2, <2>1, <2>9, Same DEF ChildInv, Fresh
      <2>13. WaitInv'
            <3>1. Reaped' = Reaped
                  <4>1. 0 .. NProcs - 1 \subseteq Children
                        BY <1>2, Sizes DEF BaseInv
                  <4> QED BY <1>1, <2>1, <2>9, <4>1, Same DEF Reaped
            <3> QED BY <2>1, <3>1 DEF WaitInv
      <2>14. /\ GlobalId(p, t) \in Nat /\ GlobalId(p, t + 1) = GlobalId(p, t) + 1
            BY <1>2, Grid DEF BaseInv
      <2>15. StartedInv'
            <3>1. ASSUME NEW v \in Workers, wpc'[v] # "none"
                  PROVE  /\ v \in Active
                         /\ mpc \in {"fork", "close"} => cpc'[ProcOf(v)] \notin {"none", "reaped"}
                         /\ cpc'[ProcOf(v)] = "create" => v < GlobalId(ProcOf(v), cidx'[ProcOf(v)])
                  <4>1. CASE v = w
                        BY <2>4, <2>5, <2>9, <2>14, <4>1
                  <4>2. CASE v # w
                        <5>1. /\ v \in Active
                              /\ mpc \in {"fork", "close"} => cpc[ProcOf(v)] \notin {"none", "reaped"}
                              /\ cpc[ProcOf(v)] = "create" => v < GlobalId(ProcOf(v), cidx[ProcOf(v)])
                              BY <1>2, <2>7, <3>1, <4>2 DEF StartedInv, Fresh
                        <5>2. CASE ProcOf(v) = p
                              BY <1>1, <2>2, <2>9, <2>14, <5>1, <5>2, Numbered
                        <5>3. CASE ProcOf(v) # p
                              BY <1>2, <2>9, <5>1, <5>3
                        <5> QED BY <5>2, <5>3
                  <4> QED BY <4>1, <4>2
            <3> QED BY <1>2, <2>1, <3>1, Same DEF StartedInv, Forking, Fresh
      <2>16. JoinInv'
            <3>1. ASSUME NEW v \in Active
                  PROVE  /\ cpc'[ProcOf(v)] = "join" /\ v < GlobalId(ProcOf(v), cidx'[ProcOf(v)]) => wpc'[v] = "done"
                         /\ cpc'[ProcOf(v)] \in {"report", "exit"} => wpc'[v] = "done"
                         /\ wpc'[v] \in {"start", "read"} => cpc'[ProcOf(v)] \in {"create", "join"}
                  <4>1. CASE ProcOf(v) = p
                        <5>1. v >= GlobalId(p, 0) /\ v \in Nat /\ GlobalId(p, 0) \in Nat
                              BY <1>2, <4>1, Grid, Numbered DEF BaseInv
                        <5> QED BY <2>9, <4>1, <5>1
                  <4>2. CASE ProcOf(v) # p
                        <5>1. v # w /\ v \in Workers
                              BY <1>2, <2>5, <4>2
                        <5>2. /\ cpc[ProcOf(v)] = "join" /\ v < GlobalId(ProcOf(v), cidx[ProcOf(v)]) => wpc[v] = "done"
                              /\ cpc[ProcOf(v)] \in {"report", "exit"} => wpc[v] = "done"
                              /\ wpc[v] \in {"start", "read"} => cpc[ProcOf(v)] \in {"create", "join"}
                              BY <1>2 DEF JoinInv
                        <5>3. wpc'[v] = wpc[v] /\ cpc'[ProcOf(v)] = cpc[ProcOf(v)] /\ cidx'[ProcOf(v)] = cidx[ProcOf(v)]
                              BY <1>2, <2>7, <2>9, <4>2, <5>1
                        <5> QED BY <5>2, <5>3
                  <4> QED BY <4>1, <4>2
            <3> QED BY <1>2, <2>1, <3>1, Same DEF JoinInv, Forking
      <2>17. ReadInv'
            <3>1. ASSUME failures = 0, NEW v \in Active
                  PROVE  /\ cpc'[ProcOf(v)] = "zombie" => wpc'[v] = "done"
                         /\ cpc'[ProcOf(v)] = "reaped" /\ mpc \in {"wait", "summary"} => wpc'[v] = "done"
                  <4>1. CASE ProcOf(v) = p
                        BY <2>9, <4>1
                  <4>2. CASE ProcOf(v) # p
                        <5>1. v # w /\ v \in Workers
                              BY <1>2, <2>5, <4>2
                        <5> QED BY <1>2, <2>7, <2>9, <3>1, <4>2, <5>1 DEF ReadInv
                  <4> QED BY <4>1, <4>2
            <3>2. ASSUME failures = 0, NEW v \in Workers
                  PROVE  wpc'[v] \notin {"null", "dead"} /\ (wpc'[v] = "done" => pos'[v] = End(v))
                  BY <2>7, <3>2 DEF ReadInv
            <3>3. failures = 0 => fsize = FileSize
                  BY DEF ReadInv
            <3> QED BY <1>2, <2>1, <3>1, <3>2, <3>3, Same DEF ReadInv, Forking
      <2> QED BY <2>7, <2>10, <2>11, <2>12, <2>13, <2>15, <2>16, <2>17 DEF IInv
<1> QED BY <1>3, <1>4 DEF ChildCreate

\* A child moves on, after a join or to its exit.
LEMMA ChildMoves ==
    ASSUME IInv, ~Ended, NEW p \in Children, cpc[p] \in {"join", "report"},
           UNCHANGED <<cmd, mpc, idx, wpc, pos, min0, res, took, faults, fsize>>,
           failures' \in Nat, failures' = 0 => failures = 0,
           NEW at \in {"join", "report", "exit"}, cpc' = [cpc EXCEPT ![p] = at],
           NEW t \in Nat, cidx' = [cidx EXCEPT ![p] = t],
           at = "join" => t < NThreads,
           \A v \in Active : ProcOf(v) = p =>
               /\ at = "join" /\ v < GlobalId(p, t) => wpc[v] = "done"
               /\ at \in {"report", "exit"} => wpc[v] = "done"
    PROVE  IInv'
<1> BaseInv /\ MainInv /\ ChildInv /\ WaitInv /\ StartedInv /\ WorkerInv /\ FaultInv /\ JoinInv /\ ReadInv
    BY DEF IInv
<1>1. /\ Forking /\ ~Threaded /\ ArgumentsOk /\ p \in 0 .. NProcs - 1 /\ ~Fresh(p)
      /\ mpc \in {"fork", "close", "scan", "wait"}
      /\ NThreads \in Nat \ {0} /\ Active \subseteq Workers
      /\ \A w \in Active : ProcOf(w) \in Children
      BY ChildRuns
<1>2. /\ cpc'[p] = at /\ cidx'[p] = t
      /\ \A q \in Children : q # p => cidx'[q] = cidx[q] /\ cpc'[q] = cpc[q]
      BY DEF BaseInv
<1>3. BaseInv'
      <2>1. cidx' \in [Children -> Nat]
            BY DEF BaseInv
      <2>2. cpc' \in [Children -> {"none", "create", "join", "report", "exit", "zombie", "reaped"}]
            BY DEF BaseInv
      <2> QED BY <2>1, <2>2, Same DEF BaseInv
<1>4. MainInv'
      BY Same DEF MainInv
<1>5. ChildInv'
      BY <1>1, <1>2, Same DEF ChildInv, Fresh
<1>6. WaitInv'
      <2>1. Reaped' = Reaped
            <3>1. 0 .. NProcs - 1 \subseteq Children
                  BY <1>1, Sizes DEF BaseInv
            <3> QED BY <1>2, <3>1, Same DEF Reaped
      <2> QED BY <2>1 DEF WaitInv
<1>7. StartedInv'
      <2>1. ASSUME NEW v \in Workers, wpc[v] # "none"
            PROVE  /\ v \in Active
                   /\ mpc \in {"fork", "close"} => cpc'[ProcOf(v)] \notin {"none", "reaped"}
                   /\ cpc'[ProcOf(v)] = "create" => v < GlobalId(ProcOf(v), cidx'[ProcOf(v)])
            <3>1. /\ v \in Active
                  /\ mpc \in {"fork", "close"} => cpc[ProcOf(v)] \notin {"none", "reaped"}
                  /\ cpc[ProcOf(v)] = "create" => v < GlobalId(ProcOf(v), cidx[ProcOf(v)])
                  BY <1>1, <2>1 DEF StartedInv, Fresh
            <3> QED BY <1>1, <1>2, <3>1
      <2> QED BY <1>1, <2>1, Same DEF StartedInv, Forking, Fresh
<1>8. WorkerInv'
      BY Same DEF WorkerInv
<1>9. FaultInv'
      <2>1. \A q : TookOf(q)' = TookOf(q)
            BY Same DEF TookOf
      <2> QED BY <2>1, Same DEF FaultInv
<1>10. JoinInv'
      <2>1. ASSUME NEW v \in Active
            PROVE  /\ cpc'[ProcOf(v)] = "join" /\ v < GlobalId(ProcOf(v), cidx'[ProcOf(v)]) => wpc[v] = "done"
                   /\ cpc'[ProcOf(v)] \in {"report", "exit"} => wpc[v] = "done"
                   /\ wpc[v] \in {"start", "read"} => cpc'[ProcOf(v)] \in {"create", "join"}
            <3>1. CASE ProcOf(v) = p
                  BY <1>2, <3>1
            <3>2. CASE ProcOf(v) # p
                  BY <1>1, <1>2, <3>2 DEF JoinInv
            <3> QED BY <3>1, <3>2
      <2> QED BY <1>1, <2>1, Same DEF JoinInv, Forking
<1>11. ReadInv'
      <2>1. ASSUME failures = 0, NEW v \in Active
            PROVE  /\ cpc'[ProcOf(v)] = "zombie" => wpc[v] = "done"
                   /\ cpc'[ProcOf(v)] = "reaped" /\ mpc \in {"wait", "summary"} => wpc[v] = "done"
            BY <1>1, <1>2, <2>1 DEF ReadInv
      <2> QED BY <1>1, <2>1, Same DEF ReadInv, Forking
<1> QED BY <1>3, <1>4, <1>5, <1>6, <1>7, <1>8, <1>9, <1>10, <1>11 DEF IInv

\* A child joins a thread; a NULL result ends it.
LEMMA ChildJoinStep == ASSUME IInv, ~Ended, NEW p \in Children, ChildJoin(p) PROVE IInv'
<1> BaseInv /\ ChildInv /\ JoinInv /\ ReadInv
    BY DEF IInv
<1>1. cpc[p] = "join" /\ failures \in Nat /\ mpc # "failed"
      BY DEF ChildJoin, BaseInv, Ended
<1>2. /\ Forking /\ ~Threaded /\ ArgumentsOk /\ p \in 0 .. NProcs - 1 /\ ~Fresh(p)
      /\ NThreads \in Nat \ {0} /\ Active \subseteq Workers
      BY <1>1, ChildRuns
<1>3. PICK t \in 0 .. NThreads - 1 : t = cidx[p]
      BY <1>1, <1>2 DEF ChildInv, BaseInv
<1>4. GlobalId(p, t) \in Active /\ GlobalId(p, t) \in Workers /\ ProcOf(GlobalId(p, t)) = p
      BY <1>2, Grid DEF BaseInv
<1>5. CASE wpc[GlobalId(p, t)] = "null" /\ ChildExits(p) /\ failures' = failures
      <2>1. failures # 0
            BY <1>4, <1>5 DEF ReadInv
      <2> QED BY <1>1, <1>2, <1>5, <2>1, ChildExitsStep
<1>6. CASE /\ wpc[GlobalId(p, t)] = "done"
           /\ ChildLoop(p, "report")
           /\ UNCHANGED <<mainVars, workerVars, pipeVars, faults, fsize, failures>>
      <2>1. UNCHANGED <<cmd, mpc, idx, wpc, pos, min0, res, took, faults, fsize>> /\ failures' = failures
            BY <1>6 DEF mainVars, workerVars
      <2>2. /\ \A k \in 0 .. NThreads : GlobalId(p, k) \in Nat /\ GlobalId(p, k) = GlobalId(p, 0) + k
            /\ \A v \in Active : ProcOf(v) = p => v \in GlobalId(p, 0) .. GlobalId(p, 0) + NThreads - 1
            BY <1>2, Grid DEF BaseInv
      <2>3. /\ GlobalId(p, 0) \in Nat
            /\ GlobalId(p, t) = GlobalId(p, 0) + t /\ GlobalId(p, t + 1) = GlobalId(p, 0) + t + 1
            BY <1>2, <2>2
      <2>4. \A v \in Active : ProcOf(v) = p /\ v < GlobalId(p, t) => wpc[v] = "done"
            BY <1>1, <1>2, <1>3 DEF JoinInv
      <2>5. \A v \in Active : ProcOf(v) = p /\ v < GlobalId(p, t + 1) => wpc[v] = "done"
            BY <1>6, <2>2, <2>3, <2>4
      <2>6. CASE t + 1 < NThreads
            <3>1. cidx' = [cidx EXCEPT ![p] = t + 1] /\ cpc' = [cpc EXCEPT ![p] = "join"]
                  BY <1>1, <1>3, <1>6, <2>6 DEF ChildLoop, BaseInv
            <3>2. PICK k \in Nat : k = t + 1
                  OBVIOUS
            <3> QED BY <1>1, <2>1, <2>5, <2>6, <3>1, <3>2, ChildMoves
      <2>7. CASE t + 1 >= NThreads
            <3>1. cidx' = [cidx EXCEPT ![p] = 0] /\ cpc' = [cpc EXCEPT ![p] = "report"]
                  BY <1>2, <1>3, <1>6, <2>7 DEF ChildLoop
            <3>2. \A v \in Active : ProcOf(v) = p => wpc[v] = "done"
                  BY <1>2, <2>2, <2>3, <2>5, <2>7
            <3> QED BY <1>1, <2>1, <3>1, <3>2, ChildMoves
      <2> QED BY <1>2, <2>6, <2>7
<1> QED BY <1>3, <1>5, <1>6 DEF ChildJoin

\* A child writes its line, or fails to.
LEMMA ChildReportStep == ASSUME IInv, ~Ended, NEW p \in Children, ChildReport(p) PROVE IInv'
<1> BaseInv /\ JoinInv
    BY DEF IInv
<1>1. /\ cpc[p] = "report" /\ cpc' = [cpc EXCEPT ![p] = "exit"]
      /\ UNCHANGED <<cmd, mpc, idx, cidx, wpc, pos, min0, res, took, faults, fsize>>
      /\ failures' \in Nat /\ (failures' = 0 => failures = 0)
      BY DEF ChildReport, mainVars, workerVars, Fails, BaseInv
<1>2. Forking
      BY <1>1, ChildRuns
<1>3. \A v \in Active : ProcOf(v) = p => wpc[v] = "done"
      BY <1>1, <1>2 DEF JoinInv
<1>4. cidx[p] \in Nat /\ cidx' = [cidx EXCEPT ![p] = cidx[p]]
      BY <1>1 DEF BaseInv
<1>5. PICK t \in Nat : cidx' = [cidx EXCEPT ![p] = t]
      BY <1>4
<1> QED BY <1>1, <1>3, <1>5, ChildMoves

\* A child ends after its report.
LEMMA ChildExitStep == ASSUME IInv, ~Ended, NEW p \in Children, ChildExit(p) PROVE IInv'
<1>1. cpc[p] = "exit" /\ ChildExits(p) /\ failures' = failures /\ failures \in Nat /\ mpc # "failed"
      BY DEF ChildExit, IInv, BaseInv, Ended
<1> QED BY <1>1, ChildExitsStep DEF Fresh

-----------------------------------------------------------------------------
(* The invariant.                                                          *)

\* Another program cuts the file short.
LEMMA TruncateStep == ASSUME IInv, Truncate PROVE IInv'
<1> BaseInv /\ StartedInv /\ WorkerInv /\ FaultInv /\ JoinInv
    BY DEF IInv
<1>1. /\ UNCHANGED <<mainVars, childVars>>
      /\ UNCHANGED <<cmd, mpc, idx, cpc, cidx, wpc, pos, min0, res, took, faults>>
      /\ failures' \in Nat /\ failures' # 0
      BY DEF Truncate, Fails, BaseInv, mainVars, childVars, workerVars
<1>2. fsize' \in 0 .. FileSize
      BY ArgumentAssumption DEF Truncate
<1>3. BaseInv'
      BY <1>1, <1>2, Same DEF BaseInv
<1>4. MainInv' /\ ChildInv' /\ WaitInv'
      BY <1>1, OthersStay
<1>5. StartedInv' /\ WorkerInv' /\ JoinInv'
      BY <1>1, Same DEF StartedInv, WorkerInv, JoinInv, Forking, Fresh
<1>6. FaultInv'
      <2>1. \A q : TookOf(q)' = TookOf(q)
            BY <1>1, Same DEF TookOf
      <2> QED BY <1>1, <2>1, Same DEF FaultInv
<1>7. ReadInv'
      BY <1>1 DEF ReadInv
<1> QED BY <1>3, <1>4, <1>5, <1>6, <1>7 DEF IInv

\* A step that changes nothing.
LEMMA StutterStep == ASSUME IInv, UNCHANGED vars PROVE IInv'
<1> BaseInv /\ StartedInv /\ WorkerInv /\ FaultInv /\ JoinInv /\ ReadInv
    BY DEF IInv
<1>1. /\ UNCHANGED <<mainVars, childVars>>
      /\ UNCHANGED <<cmd, mpc, idx, cpc, cidx, wpc, pos, min0, res, took, faults, fsize, failures>>
      BY DEF vars, mainVars, childVars, workerVars
<1>2. BaseInv'
      BY <1>1, Same DEF BaseInv
<1>3. MainInv' /\ ChildInv' /\ WaitInv'
      BY <1>1, OthersStay
<1>4. StartedInv' /\ WorkerInv' /\ JoinInv' /\ ReadInv'
      BY <1>1, Same DEF StartedInv, WorkerInv, JoinInv, ReadInv, Forking, Fresh
<1>5. FaultInv'
      <2>1. \A q : TookOf(q)' = TookOf(q)
            BY <1>1, Same DEF TookOf
      <2> QED BY <1>1, <2>1, Same DEF FaultInv
<1> QED BY <1>2, <1>3, <1>4, <1>5 DEF IInv

\* The inductive invariant holds in every state the program reaches.
THEOREM Invariance == Spec => []IInv
<1>1. Init => IInv
      <2> SUFFICES ASSUME Init PROVE IInv
          OBVIOUS
      <2>1. "minflt" \in DOMAIN Zero
            BY DEF Zero
      <2>2. FileSize \in Nat
            BY ArgumentAssumption
      <2>3. BaseInv
            BY <2>1, <2>2 DEF Init, BaseInv
      <2>4. MainInv /\ ChildInv /\ WaitInv
            BY Numbered DEF Init, MainInv, ChildInv, WaitInv, Fresh
      <2>5. StartedInv /\ WorkerInv /\ FaultInv
            BY DEF Init, StartedInv, WorkerInv, FaultInv
      <2>6. JoinInv /\ ReadInv
            BY DEF Init, JoinInv, ReadInv, Forking
      <2> QED BY <2>3, <2>4, <2>5, <2>6 DEF IInv
<1>2. IInv /\ [Next]_vars => IInv'
      <2> SUFFICES ASSUME IInv, [Next]_vars PROVE IInv'
          OBVIOUS
      <2>1. CASE MainStep
            BY <2>1, ArgumentsStep, CreateStep, JoinStep, ForkStep, CloseStep, ScanStep, WaitStep, SummaryStep
            DEF MainStep
      <2>2. ASSUME NEW p \in Children, ChildStep(p) PROVE IInv'
            BY <2>2, ChildCreateStep, ChildJoinStep, ChildReportStep, ChildExitStep DEF ChildStep
      <2>3. ASSUME NEW w \in Workers, WorkerStep(w) PROVE IInv'
            BY <2>3, BeginStep, NoResultStep, WorkerExitsStep, ReadStep, EndStep DEF WorkerStep
      <2>4. CASE Truncate
            BY <2>4, TruncateStep
      <2>5. CASE UNCHANGED vars
            BY <2>5, StutterStep
      <2> QED BY <2>1, <2>2, <2>3, <2>4, <2>5 DEF Next, ProgramStep, Finished
<1> QED BY <1>1, <1>2, PTL DEF Spec

\* A round of page_cache_models that had no failure has read every byte of the
\* file exactly once, in every mode and for every number of processes and
\* threads, however the file divides.
THEOREM ReadOnce == Spec => []EveryByteOnce
<1>1. IInv => EveryByteOnce
      <2> SUFFICES ASSUME IInv, mpc = "summary", failures = 0, NEW b \in Offsets
                   PROVE  Cardinality({w \in Active : /\ SliceStart(FileSize, TotalWorkers, w) <= b
                                                      /\ b < pos[w]}) = 1
          BY DEF EveryByteOnce
      <2> BaseInv /\ ChildInv /\ JoinInv /\ ReadInv
          BY DEF IInv
      <2>1. ArgumentsOk /\ Forking = ~Threaded
            BY DEF BaseInv, Forking
      <2>2. TotalWorkers \in Nat \ {0} /\ Active \subseteq Workers /\ NProcs \in Nat \ {0}
            BY <2>1, Sizes DEF BaseInv
      <2>3. ASSUME NEW w \in Active PROVE wpc[w] = "done"
            <3>1. CASE Threaded
                  BY <3>1 DEF JoinInv
            <3>2. CASE ~Threaded
                  <4>1. ProcOf(w) \in Children /\ ProcOf(w) \in 0 .. NProcs - 1
                        BY <2>1, <3>2, Grid DEF BaseInv
                  <4>2. ProcOf(w) < NProcs
                        BY <2>2, <4>1
                  <4>3. cpc[ProcOf(w)] = "reaped"
                        BY <3>2, <4>1, <4>2 DEF ChildInv
                  <4> QED BY <3>2, <4>3 DEF ReadInv, Forking
            <3> QED BY <3>1, <3>2
      <2>4. \A w \in Active : pos[w] = SliceEnd(FileSize, TotalWorkers, w)
            BY <2>2, <2>3 DEF ReadInv, End
      <2>5. {w \in Active : SliceStart(FileSize, TotalWorkers, w) <= b /\ b < pos[w]}
                = OwnersOf(FileSize, TotalWorkers, b)
            BY <2>4 DEF Active, OwnersOf
      <2>6. PICK v \in 0 .. TotalWorkers - 1 : OwnersOf(FileSize, TotalWorkers, b) = {v}
            BY <2>2, SlicesPartition, ArgumentAssumption DEF Offsets
      <2> QED BY <2>5, <2>6, FS_Singleton
<1> QED BY <1>1, Invariance, PTL

\* The fault count a worker reports covers its own faults and at most those of
\* the workers of its own process in the same round.
THEOREM FaultsBounded == Spec => []FaultDelta
<1>1. IInv => FaultDelta
      <2> SUFFICES ASSUME IInv, NEW w \in Workers, wpc[w] = "done"
                   PROVE  /\ took[w] <= res[w].minflt
                          /\ res[w].minflt <= Cardinality({v \in ThreadsOf(ProcOf(w)) : took[v] = 1})
          BY DEF FaultDelta
      <2>1. res[w].minflt \in took[w] .. Cardinality(TookOf(ProcOf(w)))
            BY DEF IInv, FaultInv
      <2>2. took[w] \in Int /\ Cardinality(TookOf(ProcOf(w))) \in Int
            <3>1. ArgumentsOk /\ cmd \in Commands /\ took[w] \in {0, 1}
                  BY DEF IInv, StartedInv, BaseInv
            <3>2. Cardinality(TookOf(ProcOf(w))) \in Nat
                  BY <3>1, TookFinite
            <3> QED BY <3>1, <3>2
      <2> QED BY <2>1, <2>2 DEF TookOf
<1> QED BY <1>1, Invariance, PTL

\* When a summary is printed, and when the program returns 0, every child that
\* was forked has been reaped, however many failed.
THEOREM AllReaped == Spec => []NoZombiesLeft
<1>1. IInv => NoZombiesLeft
      BY DEF IInv, ChildInv, NoZombiesLeft, Fresh
<1> QED BY <1>1, Invariance, PTL
-----------------------------------------------------------------------------
(* Sums over finite sets.                                                  *)

\* A nonempty set of natural numbers has a least element.
LEMMA LeastNat ==
    ASSUME NEW T, T \subseteq Nat, T # {}
    PROVE  \E m \in T : \A n \in T : ~(n < m)
<1>1. PICK m \in T : \A n \in T : ~(<<n, m>> \in OpToRel(<, Nat))
      BY NatLessThanWellFounded, WFMin
<1>2. \A n \in T : n < m => <<n, m>> \in OpToRel(<, Nat)
      BY DEF OpToRel
<1> QED BY <1>1, <1>2

\* The sum of f over S, and the element the community module's fold takes first.
SumOf(f, S) == MapThenSumSet(LAMBDA x : f[x], S)
First(s) == CHOOSE x \in s : TRUE

\* f has an integer for every element of S.
IntegerOn(f, S) == \A x \in S : f[x] \in Int

\* g is the fold of f on all the sets in C, which is closed under removal.
Adds(g, C, f) ==
    g = [s \in C |-> IF s = {} THEN 0 ELSE f[First(s)] + g[s \ {First(s)}]]

\* The subsets of a finite set, by size.
UpTo(S, n) == {s \in SUBSET S : Cardinality(s) <= n}

\* The first element is one of the set; without it there is one element less.
LEMMA WithoutFirst ==
    ASSUME NEW S, IsFiniteSet(S), NEW x \in S
    PROVE  /\ First(S) \in S
           /\ IsFiniteSet(S \ {x}) /\ Cardinality(S \ {x}) = Cardinality(S) - 1
           /\ Cardinality(S) \in Nat \ {0}
<1>1. First(S) \in S
      BY DEF First
<1> QED BY <1>1, FS_RemoveElement, FS_CardinalityType, FS_EmptySet

\* The fold is defined on the sets of at most n elements.
LEMMA FoldUpTo ==
    ASSUME NEW S, IsFiniteSet(S), NEW f, IntegerOn(f, S), NEW n \in Nat
    PROVE  \E g \in [UpTo(S, n) -> Int] : Adds(g, UpTo(S, n), f)
<1> DEFINE T == {m \in Nat : ~\E g \in [UpTo(S, m) -> Int] : Adds(g, UpTo(S, m), f)}
<1> SUFFICES ASSUME T # {} PROVE FALSE
    OBVIOUS
<1>1. PICK m \in T : \A k \in T : ~(k < m)
      BY LeastNat
<1>2. \A s \in SUBSET S : IsFiniteSet(s) /\ Cardinality(s) \in Nat
      BY FS_Subset, FS_CardinalityType
<1>3. CASE m = 0
      <2> DEFINE g == [s \in UpTo(S, 0) |-> 0]
      <2>1. \A s \in UpTo(S, 0) : s = {}
            BY <1>2, FS_EmptySet DEF UpTo
      <2>2. g \in [UpTo(S, 0) -> Int]
            OBVIOUS
      <2>3. g = [s \in UpTo(S, 0) |-> IF s = {} THEN 0 ELSE f[First(s)] + g[s \ {First(s)}]]
            BY <2>1
      <2>4. Adds(g, UpTo(S, 0), f)
            BY <2>3 DEF Adds
      <2> QED BY <1>3, <2>2, <2>4
<1>4. CASE m # 0
      <2>1. m - 1 \in Nat /\ m - 1 \notin T
            BY <1>1, <1>4
      <2>2. PICK h \in [UpTo(S, m - 1) -> Int] : Adds(h, UpTo(S, m - 1), f)
            BY <2>1
      <2> DEFINE val(s) == IF s = {} THEN 0 ELSE f[First(s)] + h[s \ {First(s)}]
                 g == [s \in UpTo(S, m) |-> val(s)]
      <2>3. ASSUME NEW s \in UpTo(S, m), s # {}
            PROVE  First(s) \in S /\ s \ {First(s)} \in UpTo(S, m - 1)
            <3>1. s \in SUBSET S /\ IsFiniteSet(s) /\ Cardinality(s) <= m
                  BY <1>2 DEF UpTo
            <3>2. PICK x \in s : x = First(s)
                  BY <2>3, <3>1, WithoutFirst
            <3>3. Cardinality(s \ {x}) = Cardinality(s) - 1 /\ Cardinality(s) \in Nat
                  BY <3>1, WithoutFirst
            <3> QED BY <3>1, <3>2, <3>3 DEF UpTo
      <2>4. \A s \in UpTo(S, m) : val(s) \in Int
            <3>1. ASSUME NEW s \in UpTo(S, m), s # {} PROVE f[First(s)] + h[s \ {First(s)}] \in Int
                  <4>1. f[First(s)] \in Int /\ h[s \ {First(s)}] \in Int
                        BY <2>2, <2>3, <3>1 DEF IntegerOn
                  <4> QED BY <4>1
            <3>2. 0 \in Int
                  OBVIOUS
            <3> QED BY <3>1, <3>2, Zenon
      <2>5. \A s \in UpTo(S, m - 1) : h[s] = val(s)
            BY <2>2, Zenon DEF Adds
      <2>6. \A s \in UpTo(S, m - 1) : s \in UpTo(S, m)
            BY <1>2, <2>1 DEF UpTo
      <2>7. \A s \in UpTo(S, m) : val(s) = IF s = {} THEN 0 ELSE f[First(s)] + g[s \ {First(s)}]
            <3>1. ASSUME NEW s \in UpTo(S, m), s # {} PROVE g[s \ {First(s)}] = h[s \ {First(s)}]
                  <4>1. PICK r \in UpTo(S, m - 1) : r = s \ {First(s)}
                        BY <2>3, <3>1
                  <4>2. g[r] = val(r)
                        BY <2>6, Zenon
                  <4>3. g[r] = h[r]
                        BY <2>5, <4>2, Zenon
                  <4> QED BY <4>1, <4>3, Zenon
            <3> QED BY <3>1, Zenon
      <2>8. g = [s \in UpTo(S, m) |-> IF s = {} THEN 0 ELSE f[First(s)] + g[s \ {First(s)}]]
            BY <2>7, Zenon
      <2>9. g \in [UpTo(S, m) -> Int]
            <3> HIDE DEF val
            <3> QED BY <2>4
      <2>10. Adds(g, UpTo(S, m), f)
            <3> HIDE DEF g
            <3> QED BY <2>8 DEF Adds
      <2> HIDE DEF g
      <2> QED BY <2>9, <2>10
<1> QED BY <1>3, <1>4

\* On the subsets of a finite set there is one fold.
LEMMA FoldUnique ==
    ASSUME NEW S, IsFiniteSet(S), NEW f, NEW g, NEW h,
           Adds(g, SUBSET S, f), Adds(h, SUBSET S, f)
    PROVE  g = h
<1> DEFINE D == {s \in SUBSET S : g[s] # h[s]}
           T == {Cardinality(s) : s \in D}
<1>1. \A s \in SUBSET S : IsFiniteSet(s) /\ Cardinality(s) \in Nat
      BY FS_Subset, FS_CardinalityType
<1>2. CASE D = {}
      <2>1. \A s \in SUBSET S : g[s] = h[s]
            BY <1>2
      <2>2. g = [s \in SUBSET S |-> g[s]] /\ h = [s \in SUBSET S |-> h[s]]
            BY Zenon DEF Adds
      <2> QED BY <2>1, <2>2, Zenon
<1>3. CASE D # {}
      <2>1. T \subseteq Nat /\ T # {}
            BY <1>1, <1>3
      <2>2. PICK m \in T : \A k \in T : ~(k < m)
            BY <2>1, LeastNat
      <2>3. PICK s \in D : Cardinality(s) = m
            BY <2>2
      <2>4. \A r \in SUBSET S : g[r] = IF r = {} THEN 0 ELSE f[First(r)] + g[r \ {First(r)}]
            BY Zenon DEF Adds
      <2>5. \A r \in SUBSET S : h[r] = IF r = {} THEN 0 ELSE f[First(r)] + h[r \ {First(r)}]
            BY Zenon DEF Adds
      <2>6. s # {}
            BY <2>4, <2>5
      <2>7. PICK x \in s : x = First(s)
            BY <1>1, <2>6, WithoutFirst
      <2>8. s \ {x} \in SUBSET S /\ Cardinality(s \ {x}) < m
            BY <1>1, <2>3, WithoutFirst
      <2>9. g[s \ {x}] = h[s \ {x}]
            BY <2>2, <2>8
      <2> QED BY <2>4, <2>5, <2>7, <2>9
<1> QED BY <1>2, <1>3

\* The fold of f on all subsets of a finite set.
LEMMA FoldExists ==
    ASSUME NEW S, IsFiniteSet(S), NEW f, IntegerOn(f, S)
    PROVE  \E g \in [SUBSET S -> Int] : Adds(g, SUBSET S, f)
<1>1. \A s \in SUBSET S : Cardinality(s) <= Cardinality(S)
      BY FS_Subset
<1>2. UpTo(S, Cardinality(S)) = SUBSET S
      BY <1>1 DEF UpTo
<1>3. Cardinality(S) \in Nat
      BY FS_CardinalityType
<1>4. \E g \in [UpTo(S, Cardinality(S)) -> Int] : Adds(g, UpTo(S, Cardinality(S)), f)
      BY <1>3, FoldUpTo
<1> QED BY <1>2, <1>4

\* SumOf is the value of the fold.
LEMMA SumOfIs ==
    ASSUME NEW S, IsFiniteSet(S), NEW f, NEW g, Adds(g, SUBSET S, f)
    PROVE  SumOf(f, S) = g[S]
<1> DEFINE it == CHOOSE h : h = [s \in SUBSET S |-> IF s = {} THEN 0 ELSE f[First(s)] + h[s \ {First(s)}]]
<1>1. Adds(it, SUBSET S, f)
      BY Zenon DEF Adds
<1>2. SumOf(f, S) = it[S]
      BY Zenon DEF SumOf, MapThenSumSet, MapThenFoldSet, First
<1> HIDE DEF it
<1>3. it = g
      BY <1>1, FoldUnique
<1> QED BY <1>2, <1>3

\* One fold gives the sums over all subsets of a set.
LEMMA SumOfPart ==
    ASSUME NEW S, IsFiniteSet(S), NEW f, NEW g, Adds(g, SUBSET S, f), NEW R \in SUBSET S
    PROVE  SumOf(f, R) = g[R]
<1> DEFINE h == [s \in SUBSET R |-> g[s]]
<1>1. \A s \in SUBSET S : g[s] = IF s = {} THEN 0 ELSE f[First(s)] + g[s \ {First(s)}]
      BY Zenon DEF Adds
<1>2. \A s \in SUBSET R : g[s] = IF s = {} THEN 0 ELSE f[First(s)] + h[s \ {First(s)}]
      <2>1. \A s \in SUBSET R : s \in SUBSET S /\ s \ {First(s)} \in SUBSET R
            OBVIOUS
      <2>2. \A s \in SUBSET R : h[s \ {First(s)}] = g[s \ {First(s)}]
            BY <2>1, Zenon
      <2> QED BY <1>1, <2>1, <2>2, Zenon
<1>3. h = [s \in SUBSET R |-> IF s = {} THEN 0 ELSE f[First(s)] + h[s \ {First(s)}]]
      BY <1>2, Zenon
<1>4. h[R] = g[R]
      OBVIOUS
<1> HIDE DEF h
<1>5. Adds(h, SUBSET R, f)
      BY <1>3 DEF Adds
<1>6. IsFiniteSet(R)
      BY FS_Subset
<1> QED BY <1>4, <1>5, <1>6, SumOfIs

\* A sum of integers is one; the empty sum is 0; a sum is that of its first
\* element and the others.
LEMMA SumFirst ==
    ASSUME NEW S, IsFiniteSet(S), NEW f, IntegerOn(f, S)
    PROVE  /\ SumOf(f, S) \in Int
           /\ S = {} => SumOf(f, S) = 0
           /\ S # {} => SumOf(f, S) = f[First(S)] + SumOf(f, S \ {First(S)})
<1>1. PICK g \in [SUBSET S -> Int] : Adds(g, SUBSET S, f)
      BY FoldExists
<1>2. g[S] = IF S = {} THEN 0 ELSE f[First(S)] + g[S \ {First(S)}]
      <2>1. S \in SUBSET S
            OBVIOUS
      <2> QED BY <1>1, <2>1, Zenon DEF Adds
<1>3. S \in SUBSET S /\ S \ {First(S)} \in SUBSET S
      OBVIOUS
<1>4. SumOf(f, S) = g[S] /\ SumOf(f, S \ {First(S)}) = g[S \ {First(S)}]
      BY <1>1, <1>3, SumOfPart
<1>5. g[S] \in Int
      BY <1>1, <1>3
<1> QED BY <1>2, <1>4, <1>5

\* Functions that agree on a set have the same sum.
LEMMA SumSame ==
    ASSUME NEW S, IsFiniteSet(S), NEW f, IntegerOn(f, S), NEW h, \A x \in S : h[x] = f[x]
    PROVE  SumOf(h, S) = SumOf(f, S)
<1>1. PICK g \in [SUBSET S -> Int] : Adds(g, SUBSET S, f)
      BY FoldExists
<1>2. \A s \in SUBSET S : s # {} => First(s) \in S
      <2>1. \A s \in SUBSET S : s # {} => First(s) \in s
            BY Zenon DEF First
      <2> QED BY <2>1
<1>3. \A s \in SUBSET S : (IF s = {} THEN 0 ELSE f[First(s)] + g[s \ {First(s)}])
                            = (IF s = {} THEN 0 ELSE h[First(s)] + g[s \ {First(s)}])
      BY <1>2, Zenon
<1>4. g = [s \in SUBSET S |-> IF s = {} THEN 0 ELSE h[First(s)] + g[s \ {First(s)}]]
      BY <1>1, <1>3, Zenon DEF Adds
<1>5. Adds(g, SUBSET S, h)
      BY <1>4 DEF Adds
<1> QED BY <1>1, <1>5, SumOfIs

\* Any element may be taken out of a sum.
LEMMA SumRemove ==
    ASSUME NEW S, IsFiniteSet(S), NEW f, IntegerOn(f, S), NEW x \in S
    PROVE  SumOf(f, S) = f[x] + SumOf(f, S \ {x})
<1> DEFINE D == {s \in SUBSET S : \E y \in s : SumOf(f, s) # f[y] + SumOf(f, s \ {y})}
           T == {Cardinality(s) : s \in D}
<1>1. \A s \in SUBSET S : IsFiniteSet(s) /\ Cardinality(s) \in Nat /\ IntegerOn(f, s)
      BY FS_Subset, FS_CardinalityType DEF IntegerOn
<1> SUFFICES ASSUME D # {} PROVE FALSE
    OBVIOUS
<1>2. T \subseteq Nat /\ T # {}
      BY <1>1
<1>3. PICK m \in T : \A k \in T : ~(k < m)
      BY <1>2, LeastNat
<1>4. PICK s \in D : Cardinality(s) = m
      BY <1>3
<1>5. PICK y \in s : SumOf(f, s) # f[y] + SumOf(f, s \ {y})
      BY <1>4
<1>6. PICK c \in s : c = First(s)
      BY <1>1, <1>5, WithoutFirst
<1>7. SumOf(f, s) = f[c] + SumOf(f, s \ {c})
      BY <1>1, <1>6, SumFirst
<1>8. c # y
      BY <1>5, <1>7
<1>9. /\ s \ {c} \in SUBSET S /\ Cardinality(s \ {c}) < m
      /\ s \ {y} \in SUBSET S /\ Cardinality(s \ {y}) < m
      BY <1>1, <1>4, WithoutFirst
<1>10. SumOf(f, s \ {c}) = f[y] + SumOf(f, (s \ {c}) \ {y})
      <2>1. s \ {c} \notin D /\ y \in s \ {c}
            BY <1>3, <1>8, <1>9
      <2> QED BY <1>9, <2>1
<1>11. SumOf(f, s \ {y}) = f[c] + SumOf(f, (s \ {y}) \ {c})
      <2>1. s \ {y} \notin D /\ c \in s \ {y}
            BY <1>3, <1>8, <1>9
      <2> QED BY <1>9, <2>1
<1>12. (s \ {c}) \ {y} = (s \ {y}) \ {c}
      OBVIOUS
<1>13. PICK r \in SUBSET S : r = (s \ {y}) \ {c}
      OBVIOUS
<1>14. SumOf(f, r) \in Int /\ f[c] \in Int /\ f[y] \in Int
      BY <1>1, <1>13, SumFirst DEF IntegerOn
<1> QED BY <1>5, <1>7, <1>10, <1>11, <1>12, <1>13, <1>14

\* A sum with one more element.
LEMMA SumAdd ==
    ASSUME NEW S, IsFiniteSet(S), NEW x, x \notin S, NEW f, IntegerOn(f, S \cup {x})
    PROVE  SumOf(f, S \cup {x}) = f[x] + SumOf(f, S) /\ SumOf(f, S) \in Int
<1>1. IsFiniteSet(S \cup {x}) /\ (S \cup {x}) \ {x} = S /\ x \in S \cup {x} /\ IntegerOn(f, S)
      BY FS_AddElement DEF IntegerOn
<1>2. PICK R : R = S \cup {x}
      OBVIOUS
<1>3. SumOf(f, R) = f[x] + SumOf(f, R \ {x})
      BY <1>1, <1>2, SumRemove
<1>4. SumOf(f, S) \in Int
      BY <1>1, SumFirst
<1> QED BY <1>1, <1>2, <1>3, <1>4

\* The sum over two sets without a common element.
LEMMA SumUnion ==
    ASSUME NEW A, IsFiniteSet(A), NEW B, IsFiniteSet(B), A \cap B = {}, NEW f, IntegerOn(f, A \cup B)
    PROVE  SumOf(f, A \cup B) = SumOf(f, A) + SumOf(f, B)
<1> DEFINE D == {b \in SUBSET B : SumOf(f, A \cup b) # SumOf(f, A) + SumOf(f, b)}
           T == {Cardinality(b) : b \in D}
<1>1. \A b \in SUBSET B : /\ IsFiniteSet(b) /\ Cardinality(b) \in Nat /\ IntegerOn(f, b)
                          /\ IsFiniteSet(A \cup b) /\ IntegerOn(f, A \cup b)
      BY FS_Subset, FS_CardinalityType, FS_Union DEF IntegerOn
<1>2. IntegerOn(f, A)
      BY DEF IntegerOn
<1> SUFFICES ASSUME D # {} PROVE FALSE
    OBVIOUS
<1>3. T \subseteq Nat /\ T # {}
      BY <1>1
<1>4. PICK m \in T : \A k \in T : ~(k < m)
      BY <1>3, LeastNat
<1>5. PICK b \in D : Cardinality(b) = m
      BY <1>4
<1>6. SumOf(f, A) \in Int
      BY <1>2, SumFirst
<1>7. CASE b = {}
      <2>1. A \cup b = A /\ SumOf(f, b) = 0
            BY <1>1, <1>7, SumFirst
      <2> QED BY <1>5, <1>6, <2>1
<1>8. CASE b # {}
      <2>1. PICK y : y \in b
            BY <1>8
      <2>2. b \ {y} \in SUBSET B /\ Cardinality(b \ {y}) < m
            <3>1. IsFiniteSet(b) /\ y \in b
                  BY <1>1, <2>1
            <3>2. Cardinality(b \ {y}) = Cardinality(b) - 1 /\ Cardinality(b) \in Nat
                  BY <3>1, WithoutFirst
            <3> QED BY <1>5, <3>2
      <2>3. SumOf(f, A \cup (b \ {y})) = SumOf(f, A) + SumOf(f, b \ {y})
            BY <1>4, <2>2
      <2>4. SumOf(f, b) = f[y] + SumOf(f, b \ {y})
            BY <1>1, <2>1, SumRemove
      <2>5. SumOf(f, A \cup b) = f[y] + SumOf(f, (A \cup b) \ {y})
            BY <1>1, <2>1, SumRemove
      <2>6. (A \cup b) \ {y} = A \cup (b \ {y})
            BY <2>1
      <2>7. f[y] \in Int /\ SumOf(f, b \ {y}) \in Int
            <3>1. y \in A \cup B /\ IsFiniteSet(b \ {y}) /\ IntegerOn(f, b \ {y})
                  BY <1>1, <2>1, <2>2
            <3> QED BY <3>1, SumFirst DEF IntegerOn
      <2>8. PICK u \in Int, v \in Int, z \in Int :
                u = SumOf(f, A) /\ v = SumOf(f, b \ {y}) /\ z = f[y]
            BY <1>6, <2>7
      <2>9. SumOf(f, A \cup b) = z + (u + v) /\ SumOf(f, b) = z + v
            BY <2>3, <2>4, <2>5, <2>6, <2>8, Zenon
      <2>10. SumOf(f, A \cup b) # u + SumOf(f, b)
            BY <1>5, <2>8, Zenon
      <2> QED BY <2>9, <2>10
<1> QED BY <1>7, <1>8

-----------------------------------------------------------------------------
(* The sums of checksums.  Every total in the program is the sum over a    *)
(* set of workers that are done, whose results no longer change.           *)

\* Every worker's checksum.
Check == [w \in Workers |-> res[w].checksum]

\* The workers in S are done and v is the sum of their checksums.
Sums(v, S) == (\A w \in S : wpc[w] = "done") /\ v = SumOf(Check, S)

\* The workers of the first n children whose line is in its pipe.
Heard(n) == {w \in Active : ProcOf(w) < n /\ line[ProcOf(w)] # {}}

\* The workers of process p with a number below n.
Below(p, n) == {w \in ThreadsOf(p) : w < n}

\* The shapes of the results and totals.
ShapeInv ==
    /\ res \in [Workers -> [checksum : Int, minflt : Int]]
    /\ DOMAIN ctotal = Children /\ DOMAIN writers = Children /\ DOMAIN line = Children
    /\ ctotal = [p \in Children |-> ctotal[p]] /\ line = [p \in Children |-> line[p]]

\* What main() has added up so far.
TotalInv ==
    /\ mpc \in {"arguments", "create", "fork", "close"} => total.checksum = 0
    /\ mpc = "join" => Sums(total.checksum, {w \in Active : w < idx})
    /\ mpc = "summary" /\ Threaded => Sums(total.checksum, Active)
    /\ mpc = "scan" => Sums(total.checksum, Heard(idx))
    /\ mpc \in {"wait", "summary"} /\ ~Threaded => Sums(total.checksum, Heard(NProcs))

\* What a child has added up so far; a line holds the sum of its child's
\* workers, and a child keeps the write end of its pipe to its end.
ChildSum(p) ==
    /\ cpc[p] = "create" => ctotal[p].checksum = 0
    /\ cpc[p] = "join" => Sums(ctotal[p].checksum, Below(p, GlobalId(p, cidx[p])))
    /\ cpc[p] = "report" => Sums(ctotal[p].checksum, ThreadsOf(p))
    /\ line[p] # {} => /\ cpc[p] \in {"exit", "zombie", "reaped"}
                       /\ \E r : line[p] = {r} /\ Sums(r.checksum, ThreadsOf(p))
    /\ cpc[p] \in {"create", "join", "report", "exit"} => p \in writers[p]
ChildSumInv == Forking => \A p \in 0 .. NProcs - 1 : ChildSum(p)

\* A child the parent has passed has written its line or will write none.
SettledInv ==
    /\ mpc = "arguments" => \A p \in Children : line[p] = {}
    /\ Forking => \A p \in 0 .. NProcs - 1 :
           (mpc = "scan" /\ p < idx) \/ mpc = "wait" => line[p] # {} \/ cpc[p] \in {"zombie", "reaped"}

SumInv == ShapeInv /\ TotalInv /\ ChildSumInv /\ SettledInv

\* What a step leaves alone: a worker that is done stays so, with its checksum.
Frozen ==
    \A w \in Workers : wpc[w] = "done" => wpc'[w] = "done" /\ res'[w].checksum = res[w].checksum

-----------------------------------------------------------------------------
(* What the folds of the model compute.                                    *)

\* The sum of the summary is that of Check.
LEMMA MapIsSum ==
    ASSUME NEW S \in SUBSET Workers, IsFiniteSet(S), IntegerOn(Check, S)
    PROVE  MapThenSumSet(LAMBDA w : res[w].checksum, S) = SumOf(Check, S)
<1> DEFINE it == CHOOSE h : h = [s \in SUBSET S |-> IF s = {} THEN 0
                                                     ELSE res[First(s)].checksum + h[s \ {First(s)}]]
<1>1. MapThenSumSet(LAMBDA w : res[w].checksum, S) = it[S]
      BY Zenon DEF MapThenSumSet, MapThenFoldSet, First
<1>2. PICK g \in [SUBSET S -> Int] : Adds(g, SUBSET S, Check)
      BY FoldExists
<1>3. \A s \in SUBSET S : s # {} => Check[First(s)] = res[First(s)].checksum
      <2>1. \A s \in SUBSET S : s # {} => First(s) \in s
            BY Zenon DEF First
      <2>2. \A s \in SUBSET S : s # {} => First(s) \in Workers
            BY <2>1
      <2> QED BY <2>2, Zenon DEF Check
<1>4. ASSUME NEW h
      PROVE  h = [s \in SUBSET S |-> IF s = {} THEN 0 ELSE res[First(s)].checksum + h[s \ {First(s)}]]
                <=> Adds(h, SUBSET S, Check)
      <2>1. [s \in SUBSET S |-> IF s = {} THEN 0 ELSE res[First(s)].checksum + h[s \ {First(s)}]]
                = [s \in SUBSET S |-> IF s = {} THEN 0 ELSE Check[First(s)] + h[s \ {First(s)}]]
            BY <1>3, Zenon
      <2> QED BY <2>1, Zenon DEF Adds
<1>5. it = [s \in SUBSET S |-> IF s = {} THEN 0 ELSE res[First(s)].checksum + it[s \ {First(s)}]]
      BY <1>2, <1>4, Zenon
<1> HIDE DEF it
<1>6. Adds(it, SUBSET S, Check)
      BY <1>4, <1>5
<1> QED BY <1>1, <1>6, SumOfIs

\* What fscanf reads from one pipe is added once, or nothing is.
LEMMA FoldLine ==
    ASSUME NEW t, NEW r
    PROVE  FoldSet(Plus, t, {}) = t /\ FoldSet(Plus, t, {r}) = Plus(r, t)
<1>1. FoldSet(Plus, t, {}) = t
      <2> DEFINE val(h, s) == IF s = {} THEN t ELSE Plus(First(s), h[s \ {First(s)}])
                 it == CHOOSE h : h = [s \in SUBSET {} |-> val(h, s)]
                 g == [s \in SUBSET {} |-> t]
      <2>1. FoldSet(Plus, t, {}) = it[{}]
            BY Zenon DEF FoldSet, MapThenFoldSet, First
      <2>2. \A s \in SUBSET {} : s = {}
            OBVIOUS
      <2>3. g = [s \in SUBSET {} |-> val(g, s)]
            BY <2>2, Zenon
      <2>4. it = [s \in SUBSET {} |-> val(it, s)]
            BY <2>3, Zenon
      <2>5. {} \in SUBSET {}
            OBVIOUS
      <2>6. it[{}] = val(it, {})
            BY <2>4, <2>5, Zenon
      <2> QED BY <2>1, <2>6, Zenon
<1>2. FoldSet(Plus, t, {r}) = Plus(r, t)
      <2> DEFINE val(h, s) == IF s = {} THEN t ELSE Plus(First(s), h[s \ {First(s)}])
                 it == CHOOSE h : h = [s \in SUBSET {r} |-> val(h, s)]
                 g == [s \in SUBSET {r} |-> IF s = {} THEN t ELSE Plus(r, t)]
      <2>1. FoldSet(Plus, t, {r}) = it[{r}]
            BY Zenon DEF FoldSet, MapThenFoldSet, First
      <2>2. \A s \in SUBSET {r} : s = {} \/ s = {r}
            OBVIOUS
      <2>3. First({r}) = r /\ {r} \ {r} = {} /\ {r} # {}
            BY Zenon DEF First
      <2>4. {} \in SUBSET {r} /\ {r} \in SUBSET {r}
            OBVIOUS
      <2>5. g[{}] = t
            BY <2>4, Zenon
      <2>6. val(g, {r}) = Plus(r, t)
            BY <2>3, <2>5, Zenon
      <2>7. \A s \in SUBSET {r} : val(g, s) = IF s = {} THEN t ELSE Plus(r, t)
            BY <2>2, <2>6, Zenon
      <2>8. g = [s \in SUBSET {r} |-> val(g, s)]
            BY <2>7, Zenon
      <2>9. it = [s \in SUBSET {r} |-> val(it, s)]
            BY <2>8, Zenon
      <2>10. it[{}] = t /\ it[{r}] = val(it, {r})
            BY <2>4, <2>9, Zenon
      <2>11. val(it, {r}) = Plus(r, it[{}])
            BY <2>3, Zenon
      <2> QED BY <2>1, <2>10, <2>11, Zenon
<1> QED BY <1>1, <1>2

\* The bytes one turn of the loop adds.
LEMMA BytesSum ==
    ASSUME NEW S \in SUBSET Nat, IsFiniteSet(S)
    PROVE  MapThenSumSet(Byte, S) \in Int
<1> DEFINE f == [b \in S |-> Byte(b)]
           it == CHOOSE h : h = [s \in SUBSET S |-> IF s = {} THEN 0 ELSE Byte(First(s)) + h[s \ {First(s)}]]
<1>1. MapThenSumSet(Byte, S) = it[S]
      BY Zenon DEF MapThenSumSet, MapThenFoldSet, First
<1>2. IntegerOn(f, S)
      <2>1. \A b \in Nat : Byte(b) \in Int
            BY DEF Byte
      <2> QED BY <2>1 DEF IntegerOn
<1>3. \A s \in SUBSET S : s # {} => f[First(s)] = Byte(First(s))
      <2>1. \A s \in SUBSET S : s # {} => First(s) \in s
            BY Zenon DEF First
      <2>2. \A s \in SUBSET S : s # {} => First(s) \in S
            BY <2>1
      <2> QED BY <2>2, Zenon
<1>4. ASSUME NEW h
      PROVE  h = [s \in SUBSET S |-> IF s = {} THEN 0 ELSE Byte(First(s)) + h[s \ {First(s)}]]
                <=> Adds(h, SUBSET S, f)
      <2> HIDE DEF f
      <2>1. [s \in SUBSET S |-> IF s = {} THEN 0 ELSE Byte(First(s)) + h[s \ {First(s)}]]
                = [s \in SUBSET S |-> IF s = {} THEN 0 ELSE f[First(s)] + h[s \ {First(s)}]]
            BY <1>3, Zenon
      <2> QED BY <2>1, Zenon DEF Adds
<1> HIDE DEF f
<1>5. PICK g \in [SUBSET S -> Int] : Adds(g, SUBSET S, f)
      BY <1>2, FoldExists
<1>6. it = [s \in SUBSET S |-> IF s = {} THEN 0 ELSE Byte(First(s)) + it[s \ {First(s)}]]
      BY <1>4, <1>5, Zenon
<1> HIDE DEF it
<1>7. Adds(it, SUBSET S, f)
      BY <1>4, <1>6
<1>8. it = g
      BY <1>5, <1>7, FoldUnique
<1> QED BY <1>1, <1>5, <1>8

-----------------------------------------------------------------------------
(* What stays as it is.                                                    *)

\* Sums over active workers are sums of integers over a finite set.
LEMMA ActiveSums ==
    ASSUME cmd \in Commands, ArgumentsOk, res \in [Workers -> [checksum : Int, minflt : Int]],
           NEW S \in SUBSET Active
    PROVE  IsFiniteSet(S) /\ S \in SUBSET Workers /\ IntegerOn(Check, S)
<1>1. IsFiniteSet(Active)
      BY Sizes, FS_Interval DEF Active
<1>2. S \in SUBSET Workers
      BY Sizes
<1>3. \A w \in Workers : Check[w] \in Int
      BY DEF Check
<1> QED BY <1>1, <1>2, <1>3, FS_Subset DEF IntegerOn

\* A sum over workers that are done stays.
LEMMA SumsStay ==
    ASSUME cmd \in Commands, ArgumentsOk, res \in [Workers -> [checksum : Int, minflt : Int]], Frozen,
           NEW S \in SUBSET Active, NEW v, Sums(v, S)
    PROVE  Sums(v, S)'
<1>1. IsFiniteSet(S) /\ S \in SUBSET Workers /\ IntegerOn(Check, S)
      BY ActiveSums
<1>2. \A w \in S : wpc'[w] = "done" /\ res'[w].checksum = res[w].checksum
      BY <1>1 DEF Sums, Frozen
<1>3. \A w \in S : Check'[w] = Check[w]
      BY <1>1, <1>2 DEF Check
<1>4. PICK c, d : c = Check /\ d = Check'
      OBVIOUS
<1>5. SumOf(d, S) = SumOf(c, S)
      BY <1>1, <1>3, <1>4, SumSame
<1> QED BY <1>2, <1>4, <1>5 DEF Sums

\* The sum over no workers.
LEMMA SumsNone == Sums(0, {})
<1>1. IsFiniteSet({}) /\ IntegerOn(Check, {})
      BY FS_EmptySet DEF IntegerOn
<1>2. SumOf(Check, {}) = 0
      BY <1>1, SumFirst
<1> QED BY <1>2 DEF Sums

\* One more worker that is done.
LEMMA SumsMore ==
    ASSUME cmd \in Commands, ArgumentsOk, res \in [Workers -> [checksum : Int, minflt : Int]],
           NEW S \in SUBSET Active, NEW v, Sums(v, S), NEW w \in Active, w \notin S, wpc[w] = "done"
    PROVE  Sums(v + res[w].checksum, S \cup {w})
<1>1. S \cup {w} \in SUBSET Active
      OBVIOUS
<1>2. IsFiniteSet(S) /\ IntegerOn(Check, S \cup {w}) /\ S \cup {w} \in SUBSET Workers
      BY <1>1, ActiveSums
<1>3. SumOf(Check, S \cup {w}) = Check[w] + SumOf(Check, S) /\ SumOf(Check, S) \in Int
      BY <1>2, SumAdd
<1>4. Check[w] = res[w].checksum /\ Check[w] \in Int
      BY <1>2 DEF Check
<1>5. SumOf(Check, S \cup {w}) = v + res[w].checksum
      BY <1>3, <1>4 DEF Sums
<1> QED BY <1>5 DEF Sums

\* Two sums of different workers.
LEMMA SumsBoth ==
    ASSUME cmd \in Commands, ArgumentsOk, res \in [Workers -> [checksum : Int, minflt : Int]],
           NEW A \in SUBSET Active, NEW B \in SUBSET Active, A \cap B = {},
           NEW u, NEW v, Sums(u, A), Sums(v, B)
    PROVE  Sums(u + v, A \cup B)
<1>1. A \cup B \in SUBSET Active
      OBVIOUS
<1>2. IsFiniteSet(A) /\ IsFiniteSet(B) /\ IntegerOn(Check, A \cup B)
      BY <1>1, ActiveSums
<1>3. SumOf(Check, A \cup B) = SumOf(Check, A) + SumOf(Check, B)
      BY <1>2, SumUnion
<1> QED BY <1>3 DEF Sums

\* What a child has added up stays when nothing of it changes, whatever the
\* parent does.
LEMMA ChildKept ==
    ASSUME cmd \in Commands, ArgumentsOk, res \in [Workers -> [checksum : Int, minflt : Int]], Frozen,
           cmd' = cmd, NEW p, ChildSum(p),
           cpc'[p] = cpc[p], cidx'[p] = cidx[p], ctotal'[p] = ctotal[p], line'[p] = line[p],
           p \in writers[p] => p \in writers'[p]
    PROVE  ChildSum(p)'
<1>1. \A q : ThreadsOf(q)' = ThreadsOf(q) /\ ThreadsOf(q) \in SUBSET Active
      BY Same DEF ThreadsOf
<1>2. PICK n : n = GlobalId(p, cidx[p])
      OBVIOUS
<1>3. GlobalId(p, cidx[p])' = n
      BY <1>2, Same DEF GlobalId
<1>4. PICK B \in SUBSET Active : B = Below(p, n)
      BY <1>1 DEF Below
<1>5. Below(p, GlobalId(p, cidx[p]))' = B
      BY <1>1, <1>3, <1>4 DEF Below
<1>6. PICK c : c = ctotal[p].checksum
      OBVIOUS
<1>7. cpc[p] = "join" => Sums(c, B)'
      BY <1>2, <1>4, <1>6, SumsStay DEF ChildSum
<1>8. PICK A \in SUBSET Active : A = ThreadsOf(p) /\ A = ThreadsOf(p)'
      BY <1>1
<1>9. cpc[p] = "report" => Sums(c, A)'
      BY <1>6, <1>8, SumsStay DEF ChildSum
<1>10. line[p] # {} => \E r : line'[p] = {r} /\ Sums(r.checksum, A)'
      <2>1. SUFFICES ASSUME line[p] # {} PROVE \E r : line'[p] = {r} /\ Sums(r.checksum, A)'
            OBVIOUS
      <2>2. PICK r : line[p] = {r} /\ Sums(r.checksum, A)
            BY <1>8, <2>1 DEF ChildSum
      <2>3. PICK v : v = r.checksum
            OBVIOUS
      <2>4. Sums(v, A)'
            BY <2>2, <2>3, SumsStay
      <2> QED BY <2>2, <2>3, <2>4
<1>11. Sums(ctotal[p].checksum, Below(p, GlobalId(p, cidx[p])))' <=> Sums(c, B)'
      BY <1>5, <1>6 DEF Sums
<1>12. Sums(ctotal[p].checksum, ThreadsOf(p))' <=> Sums(c, A)'
      BY <1>6, <1>8 DEF Sums
<1>13. ASSUME NEW r PROVE Sums(r.checksum, ThreadsOf(p))' <=> Sums(r.checksum, A)'
      BY <1>8 DEF Sums
<1> QED BY <1>7, <1>9, <1>10, <1>11, <1>12, <1>13 DEF ChildSum

\* A child ends, or is reaped: its line stays.
LEMMA ChildGone ==
    ASSUME cmd \in Commands, ArgumentsOk, res \in [Workers -> [checksum : Int, minflt : Int]], Frozen,
           cmd' = cmd, NEW p, ChildSum(p), line'[p] = line[p], cpc'[p] \in {"zombie", "reaped"}
    PROVE  ChildSum(p)'
<1>1. PICK A \in SUBSET Active : A = ThreadsOf(p) /\ A = ThreadsOf(p)'
      BY Same DEF ThreadsOf
<1>2. line[p] # {} => \E r : line'[p] = {r} /\ Sums(r.checksum, A)'
      <2>1. SUFFICES ASSUME line[p] # {} PROVE \E r : line'[p] = {r} /\ Sums(r.checksum, A)'
            OBVIOUS
      <2>2. PICK r : line[p] = {r} /\ Sums(r.checksum, A)
            BY <1>1, <2>1 DEF ChildSum
      <2>3. PICK v : v = r.checksum
            OBVIOUS
      <2>4. Sums(v, A)'
            BY <2>2, <2>3, SumsStay
      <2> QED BY <2>2, <2>3, <2>4
<1>3. ASSUME NEW r PROVE Sums(r.checksum, ThreadsOf(p))' <=> Sums(r.checksum, A)'
      BY <1>1 DEF Sums
<1> QED BY <1>2, <1>3 DEF ChildSum

\* What main() has added up stays when it does not move and no line that
\* counts appears.
LEMMA TotalKept ==
    ASSUME BaseInv, MainInv, ShapeInv, TotalInv, Frozen, UNCHANGED <<cmd, mpc, idx, total>>,
           mpc = "scan" => Heard(idx)' = Heard(idx),
           mpc \in {"wait", "summary"} /\ ~Threaded => Heard(NProcs)' = Heard(NProcs)
    PROVE  TotalInv'
<1>1. PICK c, n, m : c = total.checksum /\ n = idx /\ m = NProcs
      OBVIOUS
<1>2. ASSUME NEW S \in SUBSET Active, mpc \notin {"arguments", "failed"}, Sums(c, S) PROVE Sums(c, S)'
      <2>1. /\ cmd \in Commands /\ ArgumentsOk /\ res \in [Workers -> [checksum : Int, minflt : Int]]
            BY <1>2 DEF BaseInv, ShapeInv
      <2> QED BY <1>2, <2>1, SumsStay
<1>3. mpc = "join" => Sums(total.checksum, {w \in Active : w < idx})'
      <2> SUFFICES ASSUME mpc = "join" PROVE Sums(total.checksum, {w \in Active : w < idx})'
          OBVIOUS
      <2>1. PICK S \in SUBSET Active : S = {w \in Active : w < idx}
            OBVIOUS
      <2>2. Sums(c, S)'
            BY <1>1, <1>2, <2>1 DEF TotalInv
      <2>3. {w \in Active : w < idx}' = S
            BY <2>1, Same
      <2> QED BY <1>1, <2>2, <2>3 DEF Sums
<1>4. mpc = "summary" /\ Threaded => Sums(total.checksum, Active)'
      <2> SUFFICES ASSUME mpc = "summary", Threaded PROVE Sums(total.checksum, Active)'
          OBVIOUS
      <2>1. PICK S \in SUBSET Active : S = Active /\ S = Active'
            BY Same
      <2>2. Sums(c, S)'
            BY <1>1, <1>2, <2>1 DEF TotalInv
      <2> QED BY <1>1, <2>1, <2>2 DEF Sums
<1>5. mpc = "scan" => Sums(total.checksum, Heard(idx))'
      <2> SUFFICES ASSUME mpc = "scan" PROVE Sums(total.checksum, Heard(idx))'
          OBVIOUS
      <2>1. PICK S \in SUBSET Active : S = Heard(idx) /\ S = Heard(idx)'
            BY DEF Heard
      <2>2. Sums(c, S)'
            BY <1>1, <1>2, <2>1 DEF TotalInv
      <2> QED BY <1>1, <2>1, <2>2 DEF Sums
<1>6. mpc \in {"wait", "summary"} /\ ~Threaded => Sums(total.checksum, Heard(NProcs))'
      <2> SUFFICES ASSUME mpc \in {"wait", "summary"}, ~Threaded PROVE Sums(total.checksum, Heard(NProcs))'
          OBVIOUS
      <2>1. PICK S \in SUBSET Active : S = Heard(NProcs) /\ S = Heard(NProcs)'
            BY DEF Heard
      <2>2. Sums(c, S)'
            BY <1>1, <1>2, <2>1 DEF TotalInv
      <2> QED BY <1>1, <2>1, <2>2 DEF Sums
<1>7. Threaded' <=> Threaded
      BY Same
<1> QED BY <1>3, <1>4, <1>5, <1>6, <1>7 DEF TotalInv

-----------------------------------------------------------------------------
(* Steps that add nothing up.                                              *)

\* The parent fails: nothing is printed any more.
LEMMA SumFails ==
    ASSUME ShapeInv, mpc' = "failed", UNCHANGED <<res, ctotal, writers, line>>
    PROVE  SumInv'
<1>1. ShapeInv'
      BY DEF ShapeInv
<1> QED BY <1>1 DEF SumInv, TotalInv, ChildSumInv, SettledInv, Forking

\* The parent does not move and no line is written; children may end.
LEMMA SumQuiet ==
    ASSUME IInv, SumInv, Frozen, res' \in [Workers -> [checksum : Int, minflt : Int]],
           UNCHANGED <<cmd, mpc, idx, total, cidx, ctotal, line>>, DOMAIN writers' = Children,
           \A p \in Children : \/ cpc'[p] = cpc[p] /\ (p \in writers[p] => p \in writers'[p])
                               \/ cpc'[p] = "zombie"
    PROVE  SumInv'
<1> BaseInv /\ MainInv /\ ShapeInv /\ TotalInv /\ ChildSumInv /\ SettledInv
    BY DEF IInv, SumInv
<1>1. ShapeInv'
      BY DEF ShapeInv
<1>2. \A n : Heard(n)' = Heard(n)
      BY Same DEF Heard
<1>3. TotalInv'
      <2>1. mpc = "scan" => Heard(idx)' = Heard(idx)
            BY <1>2 DEF Heard
      <2>2. Heard(NProcs)' = Heard(NProcs)
            BY <1>2, Same DEF Heard
      <2> QED BY <2>1, <2>2, TotalKept
<1>4. ASSUME Forking, NEW p \in 0 .. NProcs - 1
      PROVE  ChildSum(p)' /\ (cpc[p] \in {"zombie", "reaped"} => cpc'[p] \in {"zombie", "reaped"})
      <2>1. /\ cmd \in Commands /\ ArgumentsOk /\ res \in [Workers -> [checksum : Int, minflt : Int]]
            /\ ChildSum(p) /\ p \in Children
            BY <1>4, Sizes DEF BaseInv, ShapeInv, Forking, ChildSumInv
      <2>2. CASE cpc'[p] = cpc[p] /\ (p \in writers[p] => p \in writers'[p])
            BY <2>1, <2>2, ChildKept
      <2>3. CASE cpc'[p] = "zombie"
            BY <2>1, <2>3, ChildGone
      <2> QED BY <2>1, <2>2, <2>3
<1>5. Forking' <=> Forking
      BY Same DEF Forking
<1>6. ChildSumInv'
      BY <1>4, <1>5, Same DEF ChildSumInv
<1>7. SettledInv'
      BY <1>4, <1>5, Same DEF SettledInv
<1> QED BY <1>1, <1>3, <1>6, <1>7 DEF SumInv

\* The worker begins, or has no result.
LEMMA BeginSums ==
    ASSUME IInv, SumInv, NEW w \in Workers, WorkerBegin(w) \/ WorkerNoResult(w)
    PROVE  SumInv'
<1>1. /\ UNCHANGED <<cmd, mpc, idx, total, cidx, ctotal, line, cpc, writers, res>>
      /\ wpc[w] = "start" /\ \E s : wpc' = [wpc EXCEPT ![w] = s]
      BY DEF WorkerBegin, WorkerNoResult, mainVars, childVars, pipeVars
<1>2. Frozen
      BY <1>1 DEF Frozen, IInv, BaseInv
<1> QED BY <1>1, <1>2, SumQuiet DEF SumInv, ShapeInv

\* Threads that die were not done.
LEMMA DeathsFrozen ==
    ASSUME NEW q, ThreadsDie(q), res' = res PROVE Frozen
BY Zenon DEF ThreadsDie, Frozen

\* A child ends, with its threads.
LEMMA ChildExitsSums ==
    ASSUME IInv, SumInv, NEW p \in Children, ChildExits(p) PROVE SumInv'
<1>1. /\ UNCHANGED <<cmd, mpc, idx, total, cidx, ctotal, line, res>>
      /\ cpc' = [cpc EXCEPT ![p] = "zombie"] /\ writers' = [q \in Children |-> writers[q] \ {p}]
      BY DEF ChildExits, mainVars
<1>2. Frozen
      BY <1>1, DeathsFrozen DEF ChildExits
<1>3. \A q \in Children : \/ cpc'[q] = cpc[q] /\ (q \in writers[q] => q \in writers'[q])
                          \/ cpc'[q] = "zombie"
      BY <1>1 DEF IInv, BaseInv
<1>4. DOMAIN writers' = Children
      BY <1>1
<1> QED BY <1>1, <1>2, <1>3, <1>4, SumQuiet DEF SumInv, ShapeInv

\* A call of main() fails.
LEMMA MainFailsSums == ASSUME SumInv, MainFails PROVE SumInv'
<1>1. mpc' = "failed" /\ UNCHANGED <<res, ctotal, writers, line>>
      BY DEF MainFails, childVars, pipeVars
<1> QED BY <1>1, SumFails DEF SumInv

\* A worker ends its process.
LEMMA WorkerExitsSums ==
    ASSUME IInv, SumInv, NEW w \in Workers, WorkerExits(w) PROVE SumInv'
<1>1. ProcOf(w) \in Children \cup {Main}
      <2>1. cmd \in Commands /\ ArgumentsOk /\ w \in Active
            BY DEF IInv, BaseInv, StartedInv, WorkerExits
      <2> QED BY <2>1, ProcTyped
<1>2. CASE ProcOf(w) = Main
      BY <1>2, MainFailsSums DEF WorkerExits, ProcessExits
<1>3. CASE ProcOf(w) # Main
      <2>1. PICK p \in Children : p = ProcOf(w)
            BY <1>1, <1>3
      <2>2. ChildExits(p)
            BY <1>3, <2>1 DEF WorkerExits, ProcessExits
      <2> QED BY <2>2, ChildExitsSums
<1> QED BY <1>2, <1>3

\* One turn of a worker's loop adds to its own checksum only.
LEMMA ReadSums == ASSUME IInv, SumInv, NEW w \in Workers, WorkerRead(w) PROVE SumInv'
<1> BaseInv /\ WorkerInv /\ StartedInv /\ ShapeInv
    BY DEF IInv, SumInv
<1> DEFINE n == Min({Chunk(w), fsize - pos[w]})
           add == MapThenSumSet(Byte, Sampled(pos[w], n))
           sum == res[w].checksum + add
<1>1. /\ UNCHANGED <<cmd, mpc, idx, total, cidx, ctotal, line, cpc, writers, wpc>>
      /\ wpc[w] = "read" /\ n > 0
      BY DEF WorkerRead, mainVars, childVars, pipeVars
<1>2. res' = [res EXCEPT ![w] = [res[w] EXCEPT !.checksum = sum]]
      BY DEF WorkerRead
<1>3. pos[w] \in Nat /\ n \in Int
      <2>1. ArgumentsOk /\ w \in Active
            BY <1>1 DEF StartedInv
      <2>2. /\ Start(w) \in Nat /\ End(w) \in Nat /\ pos[w] \in Start(w) .. End(w)
            BY <1>1, <2>1, SliceTyped DEF WorkerInv, BaseInv
      <2>3. Remaining(w) \in Int /\ BufSize \in Int /\ fsize \in Int
            BY <2>2, ArgumentAssumption DEF Remaining, End, BaseInv
      <2>4. Chunk(w) \in Int
            BY <2>3, MinOfTwo DEF Chunk
      <2>5. fsize - pos[w] \in Int
            BY <2>2, <2>3
      <2>6. n \in Int
            BY <2>4, <2>5, MinOfTwo
      <2> HIDE DEF n
      <2> QED BY <2>2, <2>6
<1> HIDE DEF n
<1>4. Sampled(pos[w], n) \in SUBSET Nat /\ IsFiniteSet(Sampled(pos[w], n))
      <2>1. PICK m \in Nat : m = (n - 1) \div Stride
            <3>1. PICK k \in Nat : k = n - 1
                  BY <1>1, <1>3
            <3>2. k \div Stride \in Nat
                  BY ArgumentAssumption
            <3> QED BY <3>1, <3>2
      <2>2. Sampled(pos[w], n) = {pos[w] + Stride * j : j \in 0 .. m}
            BY <2>1 DEF Sampled
      <2>3. IsFiniteSet(0 .. m)
            BY FS_Interval
      <2>4. IsFiniteSet({pos[w] + Stride * j : j \in 0 .. m})
            <3> DEFINE f == [j \in 0 .. m |-> pos[w] + Stride * j]
            <3>1. f \in Surjection(0 .. m, {pos[w] + Stride * j : j \in 0 .. m})
                  BY DEF Surjection
            <3> QED BY <2>3, <3>1, FS_Surjection
      <2>5. \A j \in 0 .. m : pos[w] + Stride * j \in Nat
            <3>1. \A j \in Nat : Stride * j \in Nat
                  BY ArgumentAssumption
            <3> QED BY <1>3, <3>1
      <2> QED BY <2>2, <2>4, <2>5
<1>5. add \in Int
      BY <1>4, BytesSum
<1> HIDE DEF add
<1>6. sum \in Int
      BY <1>5 DEF ShapeInv
<1> HIDE DEF sum
<1>7. res' \in [Workers -> [checksum : Int, minflt : Int]]
      <2>1. [res[w] EXCEPT !.checksum = sum] \in [checksum : Int, minflt : Int]
            BY <1>6 DEF ShapeInv
      <2> QED BY <1>2, <2>1 DEF ShapeInv
<1>8. Frozen
      BY <1>1, <1>2 DEF Frozen, ShapeInv
<1> QED BY <1>1, <1>7, <1>8, SumQuiet DEF ShapeInv

\* The worker's loop ends.
LEMMA EndSums == ASSUME IInv, SumInv, NEW w \in Workers, WorkerEnd(w) PROVE SumInv'
<1> BaseInv /\ StartedInv /\ ShapeInv
    BY DEF IInv, SumInv
<1>1. /\ UNCHANGED <<cmd, mpc, idx, total, cidx, ctotal, line, cpc, writers>>
      /\ wpc[w] = "read" /\ wpc' = [wpc EXCEPT ![w] = "done"]
      BY DEF WorkerEnd, mainVars, childVars, pipeVars
<1>2. PICK d : d = faults[ProcOf(w)] - min0[w] /\ res' = [res EXCEPT ![w] = [res[w] EXCEPT !.minflt = d]]
      BY DEF WorkerEnd
<1>3. d \in Int
      <2>1. ProcOf(w) \in Children \cup {Main}
            BY <1>1, ProcTyped DEF BaseInv, StartedInv
      <2> QED BY <1>2, <2>1 DEF BaseInv
<1>4. res' \in [Workers -> [checksum : Int, minflt : Int]]
      <2>1. [res[w] EXCEPT !.minflt = d] \in [checksum : Int, minflt : Int]
            BY <1>3 DEF ShapeInv
      <2> QED BY <1>2, <2>1 DEF ShapeInv
<1>5. Frozen
      BY <1>1, <1>2 DEF Frozen, ShapeInv, BaseInv
<1> QED BY <1>1, <1>4, <1>5, SumQuiet DEF ShapeInv

\* The file is cut short, or nothing happens.
LEMMA IdleSums == ASSUME IInv, SumInv, Truncate \/ UNCHANGED vars PROVE SumInv'
<1>1. UNCHANGED <<cmd, mpc, idx, total, cidx, ctotal, line, cpc, writers, wpc, res>>
      BY DEF Truncate, vars, mainVars, childVars, pipeVars, workerVars
<1>2. Frozen
      BY <1>1 DEF Frozen
<1> QED BY <1>1, <1>2, SumQuiet DEF SumInv, ShapeInv

-----------------------------------------------------------------------------
(* Steps of main().                                                        *)

\* A worker is started anew.
LEMMA StartFrozen ==
    ASSUME BaseInv, ShapeInv, NEW w \in Workers, wpc[w] = "none", Started(w)
    PROVE  Frozen /\ res' \in [Workers -> [checksum : Int, minflt : Int]]
<1>1. wpc' = [wpc EXCEPT ![w] = "start"] /\ res' = [res EXCEPT ![w] = Zero]
      BY DEF Started
<1>2. Zero \in [checksum : Int, minflt : Int]
      BY DEF Zero
<1>3. res' \in [Workers -> [checksum : Int, minflt : Int]]
      BY <1>1, <1>2 DEF ShapeInv
<1>4. Frozen
      BY <1>1 DEF Frozen, ShapeInv, BaseInv
<1> QED BY <1>3, <1>4

\* The arguments are accepted: no child has run and nothing was added.
LEMMA ArgumentsSums == ASSUME IInv, SumInv, MainArguments PROVE SumInv'
<1> BaseInv /\ ChildInv /\ ShapeInv /\ TotalInv /\ SettledInv
    BY DEF IInv, SumInv
<1>1. CASE MainFails
      BY <1>1, MainFailsSums
<1>2. CASE /\ ArgumentsOk /\ mpc' = RoundHead
           /\ UNCHANGED <<cmd, round, idx, total, childVars, workerVars, pipeVars, faults, fsize, failures>>
      <2>1. /\ mpc = "arguments" /\ mpc' \in {"create", "fork"}
            /\ UNCHANGED <<cmd, idx, total, cpc, cidx, ctotal, writers, line, res, wpc>>
            BY <1>2 DEF MainArguments, RoundHead, childVars, workerVars, pipeVars
      <2>2. ShapeInv' /\ TotalInv'
            BY <2>1 DEF ShapeInv, TotalInv
      <2>3. ASSUME ~Threaded, NEW p \in 0 .. NProcs - 1 PROVE ChildSum(p)'
            <3>1. p \in Children
                  BY <1>2, <2>3, Sizes DEF BaseInv
            <3>2. cpc'[p] = "none" /\ line'[p] = {}
                  BY <2>1, <3>1 DEF ChildInv, SettledInv
            <3> QED BY <3>2 DEF ChildSum
      <2>4. ChildSumInv'
            BY <2>1, <2>3, Same DEF ChildSumInv, Forking
      <2>5. SettledInv'
            BY <2>1 DEF SettledInv
      <2> QED BY <2>2, <2>4, <2>5 DEF SumInv
<1> QED BY <1>1, <1>2 DEF MainArguments

\* A thread is created.
LEMMA CreateSums == ASSUME IInv, SumInv, MainCreate PROVE SumInv'
<1> BaseInv /\ MainInv /\ StartedInv /\ ShapeInv /\ TotalInv
    BY DEF IInv, SumInv
<1>1. CASE MainFails
      BY <1>1, MainFailsSums
<1>2. CASE /\ Started(idx)
           /\ MainLoop(TotalWorkers, "create", "join")
           /\ UNCHANGED <<cmd, round, total, childVars, min0, took, pipeVars, faults, fsize, failures>>
      <2>1. /\ mpc = "create" /\ Threaded /\ ArgumentsOk /\ idx < TotalWorkers
            /\ UNCHANGED <<cmd, total, ctotal, writers, line>>
            BY <1>2 DEF MainCreate, MainInv, BaseInv, childVars, pipeVars
      <2>2. idx \in Active /\ idx \in Workers
            BY <2>1, Sizes DEF Active, BaseInv
      <2>3. wpc[idx] = "none"
            BY <2>1, <2>2 DEF StartedInv, BaseInv
      <2>4. PICK w \in Workers : w = idx
            BY <2>2
      <2>5. res' \in [Workers -> [checksum : Int, minflt : Int]]
            BY <1>2, <2>3, <2>4, StartFrozen
      <2>6. ShapeInv'
            BY <2>1, <2>5 DEF ShapeInv
      <2>7. mpc' = "create" \/ (mpc' = "join" /\ idx' = 0)
            BY <1>2, <2>1 DEF MainLoop
      <2>8. {v \in Active : v < 0} = {}
            BY <2>1, Sizes DEF Active, BaseInv
      <2>9. TotalInv'
            <3>1. Sums(0, {})'
                  BY SumsNone, PTL
            <3>2. mpc' = "join" => {v \in Active : v < idx}' = {}
                  BY <2>1, <2>7, <2>8, Same
            <3>3. total'.checksum = 0
                  BY <2>1 DEF TotalInv
            <3>4. mpc' = "join" => Sums(total.checksum, {v \in Active : v < idx})'
                  BY <3>1, <3>2, <3>3 DEF Sums
            <3> QED BY <2>7, <3>3, <3>4 DEF TotalInv
      <2>10. ChildSumInv' /\ SettledInv'
            BY <2>1, <2>7, Same DEF ChildSumInv, SettledInv, Forking
      <2> QED BY <2>6, <2>9, <2>10 DEF SumInv
<1> QED BY <1>1, <1>2 DEF MainCreate

\* A thread is joined.
LEMMA JoinSums == ASSUME IInv, SumInv, MainJoin PROVE SumInv'
<1> BaseInv /\ MainInv /\ ShapeInv /\ TotalInv
    BY DEF IInv, SumInv
<1>1. CASE MainFails
      BY <1>1, MainFailsSums
<1>2. CASE /\ wpc[idx] = "done" /\ total' = Plus(total, res[idx])
           /\ MainLoop(TotalWorkers, "join", "summary")
           /\ UNCHANGED <<cmd, round, childVars, workerVars, pipeVars, faults, fsize, failures>>
      <2>1. /\ mpc = "join" /\ Threaded /\ ArgumentsOk /\ idx < TotalWorkers
            /\ UNCHANGED <<cmd, ctotal, writers, line, wpc, res>>
            BY <1>2 DEF MainJoin, MainInv, BaseInv, childVars, pipeVars, workerVars
      <2>2. idx \in Active /\ TotalWorkers \in Nat \ {0} /\ idx \in Nat
            BY <2>1, Sizes DEF Active, BaseInv
      <2>3. PICK c, n, v : c = total.checksum /\ n = idx /\ v = total'.checksum
            OBVIOUS
      <2>4. PICK S \in SUBSET Active : S = {w \in Active : w < idx}
            OBVIOUS
      <2>5. Sums(c + res[n].checksum, S \cup {n})
            <3>1. Sums(c, S)
                  BY <2>1, <2>3, <2>4 DEF TotalInv
            <3>2. n \in Active /\ n \notin S /\ wpc[n] = "done"
                  BY <1>2, <2>2, <2>3, <2>4
            <3>3. res \in [Workers -> [checksum : Int, minflt : Int]] /\ cmd \in Commands
                  BY DEF ShapeInv, BaseInv
            <3> QED BY <2>1, <3>1, <3>2, <3>3, SumsMore
      <2>6. v = c + res[n].checksum
            BY <1>2, <2>3 DEF Plus
      <2>7. S \cup {n} = {w \in Active : w < n + 1}
            BY <2>2, <2>3, <2>4 DEF Active
      <2>8. PICK R \in SUBSET Active : R = S \cup {n}
            BY <2>2, <2>3
      <2>9. Sums(v, R)'
            <3>1. Sums(v, R)
                  BY <2>5, <2>6, <2>8
            <3> QED BY <2>1, <3>1 DEF Sums, Check
      <2>10. \/ mpc' = "join" /\ idx' = n + 1
             \/ mpc' = "summary" /\ n + 1 >= TotalWorkers
            BY <1>2, <2>2, <2>3 DEF MainLoop
      <2>11. mpc' = "join" => {w \in Active : w < idx}' = R
            BY <2>1, <2>7, <2>8, <2>10, Same
      <2>12. mpc' = "summary" => Active' = R
            <3>1. n + 1 >= TotalWorkers => Active = {w \in Active : w < n + 1}
                  BY <2>2, <2>3 DEF Active
            <3> QED BY <2>1, <2>7, <2>8, <2>10, <3>1, Same
      <2>13. TotalInv'
            <3>1. mpc' = "join" => Sums(total.checksum, {w \in Active : w < idx})'
                  BY <2>3, <2>9, <2>11 DEF Sums
            <3>2. mpc' = "summary" => Sums(total.checksum, Active)'
                  BY <2>3, <2>9, <2>12 DEF Sums
            <3> QED BY <2>1, <2>10, <3>1, <3>2, Same DEF TotalInv
      <2>14. ShapeInv' /\ ChildSumInv' /\ SettledInv'
            BY <2>1, <2>10, Same DEF ShapeInv, ChildSumInv, SettledInv, Forking
      <2> QED BY <2>13, <2>14 DEF SumInv
<1> QED BY <1>1, <1>2 DEF MainJoin

\* A child is forked.
LEMMA ForkSums == ASSUME IInv, SumInv, MainFork PROVE SumInv'
<1> BaseInv /\ MainInv /\ ShapeInv /\ TotalInv /\ ChildSumInv
    BY DEF IInv, SumInv
<1>1. CASE MainFails
      BY <1>1, MainFailsSums
<1>2. CASE mpc' # "failed"
      <2>1. /\ mpc = "fork" /\ mpc' = "close"
            /\ writers' = [q \in Children |->
                            IF q = idx THEN {Main, idx}
                            ELSE IF Main \in writers[q] THEN writers[q] \cup {idx}
                            ELSE writers[q]]
            /\ cpc' = [cpc EXCEPT ![idx] = "create"]
            /\ cidx' = [cidx EXCEPT ![idx] = 0]
            /\ ctotal' = [ctotal EXCEPT ![idx] = Zero]
            /\ line' = [line EXCEPT ![idx] = {}]
            /\ UNCHANGED <<cmd, idx, total, wpc, res>>
            BY <1>2 DEF MainFork, MainFails, workerVars
      <2>2. ~Threaded /\ ArgumentsOk /\ Forking /\ idx \in 0 .. NProcs - 1 /\ 0 .. NProcs - 1 \subseteq Children
            BY <2>1, Sizes DEF MainInv, BaseInv, Forking
      <2>3. ShapeInv'
            BY <2>1 DEF ShapeInv
      <2>4. TotalInv'
            BY <2>1 DEF TotalInv
      <2>5. Frozen
            BY <2>1 DEF Frozen
      <2>6. ASSUME NEW p \in 0 .. NProcs - 1 PROVE ChildSum(p)'
            <3>1. p \in Children
                  BY <2>2
            <3>2. CASE p = idx
                  <4>1. /\ cpc'[p] = "create" /\ ctotal'[p] = Zero /\ line'[p] = {} /\ p \in writers'[p]
                        BY <2>1, <3>1, <3>2 DEF BaseInv, ShapeInv
                  <4> QED BY <4>1 DEF ChildSum, Zero
            <3>3. CASE p # idx
                  <4>1. /\ cpc'[p] = cpc[p] /\ cidx'[p] = cidx[p] /\ ctotal'[p] = ctotal[p]
                        /\ line'[p] = line[p] /\ (p \in writers[p] => p \in writers'[p])
                        BY <2>1, <3>1, <3>3 DEF BaseInv, ShapeInv
                  <4>2. ChildSum(p) /\ cmd \in Commands /\ res \in [Workers -> [checksum : Int, minflt : Int]]
                        BY <2>2 DEF ChildSumInv, BaseInv, ShapeInv
                  <4> QED BY <2>1, <2>2, <2>5, <4>1, <4>2, ChildKept
            <3> QED BY <3>2, <3>3
      <2>7. ChildSumInv'
            BY <2>1, <2>6, Same DEF ChildSumInv
      <2>8. SettledInv'
            BY <2>1 DEF SettledInv
      <2> QED BY <2>3, <2>4, <2>7, <2>8 DEF SumInv
<1> QED BY <1>1, <1>2 DEF MainFork

\* What the children have added up stays while the parent alone moves.
LEMMA ChildrenKept ==
    ASSUME BaseInv, ShapeInv, ChildSumInv, Forking, UNCHANGED <<cmd, cpc, cidx, ctotal, line, wpc, res>>,
           \A p \in Children : p \in writers[p] => p \in writers'[p]
    PROVE  \A p \in 0 .. NProcs - 1 : ChildSum(p)'
<1>1. /\ cmd \in Commands /\ ArgumentsOk /\ res \in [Workers -> [checksum : Int, minflt : Int]]
      /\ 0 .. NProcs - 1 \subseteq Children
      BY Sizes DEF BaseInv, ShapeInv, Forking
<1>2. Frozen
      BY DEF Frozen
<1>3. ASSUME NEW p \in 0 .. NProcs - 1 PROVE ChildSum(p)'
      <2>1. ChildSum(p) /\ (p \in writers[p] => p \in writers'[p])
            BY <1>1 DEF ChildSumInv
      <2> QED BY <1>1, <1>2, <2>1, ChildKept
<1> QED BY <1>3

\* The parent closes its write end.
LEMMA CloseSums == ASSUME IInv, SumInv, MainClose PROVE SumInv'
<1> BaseInv /\ MainInv /\ ShapeInv /\ TotalInv /\ ChildSumInv
    BY DEF IInv, SumInv
<1>1. /\ mpc = "close" /\ writers' = [writers EXCEPT ![idx] = writers[idx] \ {Main}]
      /\ UNCHANGED <<cmd, total, cpc, cidx, ctotal, line, wpc, res>>
      /\ mpc' = "fork" \/ (mpc' = "scan" /\ idx' = 0)
      BY DEF MainClose, ParentCloses, MainLoop, childVars, workerVars
<1>2. ~Threaded /\ ArgumentsOk /\ Forking /\ cmd \in Commands
      BY <1>1 DEF MainInv, BaseInv, Forking
<1>3. ShapeInv'
      BY <1>1 DEF ShapeInv
<1>4. \A p \in Children : p \in writers[p] => p \in writers'[p]
      BY <1>1, Numbered DEF ShapeInv
<1>5. ChildSumInv'
      <2>1. \A p \in 0 .. NProcs - 1 : ChildSum(p)'
            BY <1>1, <1>2, <1>4, ChildrenKept
      <2> QED BY <1>1, <2>1, Same DEF ChildSumInv
<1>6. TotalInv'
      <2>1. Sums(0, {})'
            BY SumsNone, PTL
      <2>2. mpc' = "scan" => Heard(idx)' = {}
            <3>1. \A w \in Active : ~(ProcOf(w) < 0)
                  <4>1. \A w \in Active : ProcOf(w) \in 0 .. NProcs - 1
                        BY <1>2, Grid
                  <4> QED BY <4>1, <1>2, Sizes
            <3> QED BY <1>1, <3>1, Same DEF Heard
      <2>3. total'.checksum = 0
            BY <1>1 DEF TotalInv
      <2>4. mpc' = "scan" => Sums(total.checksum, Heard(idx))'
            BY <2>1, <2>2, <2>3 DEF Sums
      <2> QED BY <1>1, <2>3, <2>4 DEF TotalInv
<1>7. SettledInv'
      <2>1. \A p \in 0 .. NProcs - 1 : ~(p < 0)
            BY <1>2, Sizes
      <2> QED BY <1>1, <2>1, Same DEF SettledInv
<1> QED BY <1>3, <1>5, <1>6, <1>7 DEF SumInv

\* The parent has read one pipe: the child's line, or the end of the file
\* because the child is gone.
LEMMA ScanSums == ASSUME IInv, SumInv, MainScan PROVE SumInv'
<1> BaseInv /\ MainInv /\ ChildInv /\ ShapeInv /\ TotalInv /\ ChildSumInv /\ SettledInv
    BY DEF IInv, SumInv
<1>1. CASE MainFails
      BY <1>1, MainFailsSums
<1>2. CASE /\ line[idx] # {} \/ writers[idx] = {}
           /\ total' = FoldSet(Plus, total, Scanned(idx))
           /\ MainLoop(NProcs, "scan", "wait")
           /\ UNCHANGED <<cmd, round, childVars, workerVars, pipeVars, faults, fsize, failures>>
      <2>1. /\ mpc = "scan"
            /\ UNCHANGED <<cmd, cpc, cidx, ctotal, writers, line, wpc, res>>
            BY <1>2 DEF MainScan, childVars, workerVars, pipeVars
      <2>2. /\ ~Threaded /\ ArgumentsOk /\ Forking /\ idx \in 0 .. NProcs - 1
            /\ 0 .. NProcs - 1 \subseteq Children /\ NProcs \in Nat \ {0} /\ cmd \in Commands
            /\ res \in [Workers -> [checksum : Int, minflt : Int]]
            BY <2>1, Sizes DEF MainInv, BaseInv, Forking, ShapeInv
      <2>3. PICK n \in 0 .. NProcs - 1 : n = idx
            BY <2>2
      <2>4. ChildSum(n)
            BY <2>2 DEF ChildSumInv
      <2>5. /\ \A w \in Active : ProcOf(w) \in 0 .. NProcs - 1
            BY <2>2, Grid
      <2>6. PICK c, v : c = total.checksum /\ v = total'.checksum
            OBVIOUS
      <2>7. PICK H \in SUBSET Active, T \in SUBSET Active, R \in SUBSET Active :
                H = Heard(n) /\ T = ThreadsOf(n) /\ R = Heard(n + 1)
            BY DEF Heard, ThreadsOf
      <2>8. Sums(c, H)
            BY <2>1, <2>3, <2>6, <2>7 DEF TotalInv
      <2>9. Sums(v, R)
            <3>1. CASE line[n] = {}
                  <4>1. total' = total
                        BY <1>2, <2>3, <3>1, FoldLine DEF Scanned
                  <4>2. R = H
                        BY <2>2, <2>5, <2>7, <3>1 DEF Heard
                  <4> QED BY <2>6, <2>8, <4>1, <4>2
            <3>2. CASE line[n] # {}
                  <4>1. PICK r : line[n] = {r} /\ Sums(r.checksum, T)
                        BY <2>4, <2>7, <3>2 DEF ChildSum
                  <4>2. total' = Plus(r, total)
                        BY <1>2, <2>3, <4>1, FoldLine DEF Scanned
                  <4>3. PICK u : u = r.checksum
                        OBVIOUS
                  <4>4. v = u + c
                        BY <2>6, <4>2, <4>3 DEF Plus
                  <4>5. H \cap T = {} /\ R = T \cup H
                        BY <2>2, <2>5, <2>7, <3>2 DEF Heard, ThreadsOf
                  <4>6. Sums(u + c, T \cup H)
                        BY <2>2, <2>8, <4>1, <4>3, <4>5, SumsBoth
                  <4> QED BY <4>4, <4>5, <4>6
            <3> QED BY <3>1, <3>2
      <2>10. Sums(v, R)'
            BY <2>1, <2>9 DEF Sums, Check
      <2>11. \/ mpc' = "scan" /\ idx' = n + 1
             \/ mpc' = "wait" /\ n + 1 = NProcs
            BY <1>2, <2>2, <2>3 DEF MainLoop
      <2>12. TotalInv'
            <3>1. mpc' = "scan" => Heard(idx)' = R
                  BY <2>1, <2>7, <2>11, Same DEF Heard
            <3>2. mpc' = "wait" => Heard(NProcs)' = R
                  BY <2>1, <2>7, <2>11, Same DEF Heard
            <3>3. mpc' = "scan" => Sums(total.checksum, Heard(idx))'
                  BY <2>6, <2>10, <3>1 DEF Sums
            <3>4. mpc' = "wait" => Sums(total.checksum, Heard(NProcs))'
                  BY <2>6, <2>10, <3>2 DEF Sums
            <3> QED BY <2>11, <3>3, <3>4 DEF TotalInv
      <2>13. ShapeInv'
            BY <2>1 DEF ShapeInv
      <2>14. ChildSumInv'
            <3>1. \A p \in 0 .. NProcs - 1 : ChildSum(p)'
                  BY <2>1, <2>2, ChildrenKept
            <3> QED BY <2>1, <3>1, Same DEF ChildSumInv
      <2>15. line[n] # {} \/ cpc[n] \in {"zombie", "reaped"}
            <3>1. n \in Children /\ n < NProcs
                  BY <2>2
            <3>2. ~Fresh(n)
                  BY <2>1, <3>1 DEF ChildInv
            <3>3. cpc[n] \in {"none", "create", "join", "report", "exit", "zombie", "reaped"}
                  BY <3>1 DEF BaseInv
            <3> QED BY <1>2, <2>3, <2>4, <3>2, <3>3 DEF ChildSum, Fresh
      <2>16. \A p \in 0 .. NProcs - 1 : p < n + 1 => line[p] # {} \/ cpc[p] \in {"zombie", "reaped"}
            <3>1. \A p \in 0 .. NProcs - 1 : p < n => line[p] # {} \/ cpc[p] \in {"zombie", "reaped"}
                  BY <2>1, <2>2, <2>3 DEF SettledInv
            <3>2. \A p \in 0 .. NProcs - 1 : p < n + 1 => p < n \/ p = n
                  BY <2>2
            <3> QED BY <2>15, <3>1, <3>2
      <2>17. SettledInv'
            <3>1. mpc' = "wait" => \A p \in 0 .. NProcs - 1 : p < n + 1
                  BY <2>2, <2>11
            <3> QED BY <2>1, <2>11, <2>16, <3>1, Same DEF SettledInv
      <2> QED BY <2>12, <2>13, <2>14, <2>17 DEF SumInv
<1> QED BY <1>1, <1>2 DEF MainScan

\* A child is reaped.
LEMMA WaitSums == ASSUME IInv, SumInv, MainWait PROVE SumInv'
<1> BaseInv /\ MainInv /\ ShapeInv /\ TotalInv /\ ChildSumInv /\ SettledInv
    BY DEF IInv, SumInv
<1>1. /\ mpc = "wait" /\ mpc' \in {"wait", "summary"}
      /\ UNCHANGED <<cmd, total, cidx, ctotal, writers, line, wpc, res>>
      BY DEF MainWait, MainLoop, workerVars, pipeVars
<1>2. PICK q \in Children : cpc[q] = "zombie" /\ cpc' = [cpc EXCEPT ![q] = "reaped"]
      BY DEF MainWait
<1>3. /\ ~Threaded /\ ArgumentsOk /\ Forking /\ cmd \in Commands
      /\ res \in [Workers -> [checksum : Int, minflt : Int]] /\ 0 .. NProcs - 1 \subseteq Children
      BY <1>1, Sizes DEF MainInv, BaseInv, Forking, ShapeInv
<1>4. Frozen
      BY <1>1 DEF Frozen
<1>5. ShapeInv'
      BY <1>1 DEF ShapeInv
<1>6. ASSUME NEW p \in 0 .. NProcs - 1
      PROVE  ChildSum(p)' /\ (cpc[p] \in {"zombie", "reaped"} => cpc'[p] \in {"zombie", "reaped"})
      <2>1. ChildSum(p) /\ p \in Children
            BY <1>3 DEF ChildSumInv
      <2>2. CASE p = q
            <3>1. cpc'[p] = "reaped"
                  BY <1>2, <2>2 DEF BaseInv
            <3> QED BY <1>1, <1>3, <1>4, <2>1, <3>1, ChildGone
      <2>3. CASE p # q
            <3>1. cpc'[p] = cpc[p]
                  BY <1>2, <2>1, <2>3 DEF BaseInv
            <3> QED BY <1>1, <1>3, <1>4, <2>1, <3>1, ChildKept
      <2> QED BY <2>2, <2>3
<1>7. ChildSumInv'
      BY <1>1, <1>6, Same DEF ChildSumInv
<1>8. SettledInv'
      BY <1>1, <1>3, <1>6, Same DEF SettledInv
<1>9. TotalInv'
      <2>1. PICK c : c = total.checksum
            OBVIOUS
      <2>2. PICK S \in SUBSET Active : S = Heard(NProcs) /\ S = Heard(NProcs)'
            <3>1. Heard(NProcs)' = Heard(NProcs)
                  BY <1>1, Same DEF Heard
            <3>2. Heard(NProcs) \in SUBSET Active
                  BY DEF Heard
            <3> QED BY <3>1, <3>2
      <2>3. Sums(c, S)
            BY <1>1, <1>3, <2>1, <2>2 DEF TotalInv
      <2>4. Sums(c, S)'
            BY <1>1, <2>3 DEF Sums, Check
      <2>5. Sums(total.checksum, Heard(NProcs))'
            BY <1>1, <2>1, <2>2, <2>4 DEF Sums
      <2> QED BY <1>1, <1>3, <2>5, Same DEF TotalInv
<1> QED BY <1>5, <1>7, <1>8, <1>9 DEF SumInv

\* The next round, or the end.
LEMMA SummarySums == ASSUME IInv, SumInv, MainSummary PROVE SumInv'
<1> BaseInv /\ MainInv /\ ChildInv /\ ShapeInv /\ ChildSumInv
    BY DEF IInv, SumInv
<1>1. mpc = "summary" /\ ArgumentsOk /\ UNCHANGED <<cmd, cpc, cidx, ctotal, writers>>
      BY DEF MainSummary, BaseInv, childVars
<1>2. CASE mpc' = "done" /\ UNCHANGED <<round, total, workerVars, line>>
      <2>1. UNCHANGED <<line, wpc, res>>
            BY <1>2 DEF workerVars
      <2>2. ShapeInv' /\ TotalInv' /\ SettledInv'
            BY <1>1, <1>2, <2>1 DEF ShapeInv, TotalInv, SettledInv
      <2>3. ChildSumInv'
            <3>1. Forking => \A p \in 0 .. NProcs - 1 : ChildSum(p)'
                  BY <1>1, <2>1, ChildrenKept
            <3>2. Forking' => Forking
                  BY <1>1, Same DEF Forking
            <3> QED BY <1>1, <3>1, <3>2, Same DEF ChildSumInv
      <2> QED BY <2>2, <2>3 DEF SumInv
<1>3. CASE mpc' # "done"
      <2>1. /\ mpc' \in {"create", "fork"} /\ total' = Zero
            /\ res' = [w \in Workers |-> Zero] /\ line' = [p \in Children |-> {}]
            BY <1>3 DEF MainSummary, RoundHead
      <2>2. ShapeInv'
            <3>1. Zero \in [checksum : Int, minflt : Int]
                  BY DEF Zero
            <3> QED BY <1>1, <2>1, <3>1 DEF ShapeInv
      <2>3. TotalInv'
            BY <2>1 DEF TotalInv, Zero
      <2>4. SettledInv'
            BY <2>1 DEF SettledInv
      <2>5. ASSUME ~Threaded, NEW p \in 0 .. NProcs - 1 PROVE ChildSum(p)'
            <3>1. p \in Children /\ p < NProcs
                  BY <1>1, <2>5, Sizes DEF BaseInv
            <3>2. cpc'[p] = "reaped" /\ line'[p] = {}
                  BY <1>1, <2>1, <2>5, <3>1 DEF ChildInv
            <3> QED BY <3>2 DEF ChildSum
      <2>6. ChildSumInv'
            BY <1>1, <2>5, Same DEF ChildSumInv, Forking
      <2> QED BY <2>2, <2>3, <2>4, <2>6 DEF SumInv
<1> QED BY <1>2, <1>3 DEF MainSummary, RoundHead

-----------------------------------------------------------------------------
(* Steps of a child.                                                       *)

\* One child moves: the others and the parent keep what they have.
LEMMA ChildSums ==
    ASSUME IInv, SumInv, ~Ended, NEW p \in Children, cpc[p] \in {"create", "join", "report"}, Frozen,
           res' \in [Workers -> [checksum : Int, minflt : Int]], UNCHANGED <<cmd, mpc, idx, total, writers>>,
           NEW at \in {"create", "join", "report", "exit"}, cpc' = [cpc EXCEPT ![p] = at],
           NEW t, cidx' = [cidx EXCEPT ![p] = t], NEW s, ctotal' = [ctotal EXCEPT ![p] = s],
           NEW l, line' = [line EXCEPT ![p] = l],
           at = "create" => s.checksum = 0,
           at = "join" => Sums(s.checksum, Below(p, GlobalId(p, t)))',
           at = "report" => Sums(s.checksum, ThreadsOf(p))',
           l # {} => at = "exit" /\ \E r : l = {r} /\ Sums(r.checksum, ThreadsOf(p))'
    PROVE  SumInv'
<1> BaseInv /\ MainInv /\ ChildInv /\ ShapeInv /\ TotalInv /\ ChildSumInv /\ SettledInv
    BY DEF IInv, SumInv
<1>1. /\ Forking /\ ~Threaded /\ ArgumentsOk /\ p \in 0 .. NProcs - 1 /\ cmd \in Commands
      /\ res \in [Workers -> [checksum : Int, minflt : Int]] /\ 0 .. NProcs - 1 \subseteq Children
      /\ mpc \in {"fork", "close", "scan", "wait"}
      BY ChildRuns, Sizes DEF BaseInv, ShapeInv
<1>2. /\ cpc'[p] = at /\ cidx'[p] = t /\ ctotal'[p] = s /\ line'[p] = l
      /\ \A q \in Children : q # p => /\ cpc'[q] = cpc[q] /\ cidx'[q] = cidx[q]
                                      /\ ctotal'[q] = ctotal[q] /\ line'[q] = line[q]
      BY DEF BaseInv, ShapeInv
<1>3. ShapeInv'
      BY DEF ShapeInv
<1>4. ChildSum(p)'
      <2>1. p \in writers'[p]
            BY <1>1 DEF ChildSumInv, ChildSum
      <2>2. Sums(s.checksum, Below(p, GlobalId(p, t)))'
                <=> Sums(ctotal[p].checksum, Below(p, GlobalId(p, cidx[p])))'
            BY <1>2 DEF Sums, Below, GlobalId
      <2>3. Sums(s.checksum, ThreadsOf(p))' <=> Sums(ctotal[p].checksum, ThreadsOf(p))'
            BY <1>2 DEF Sums
      <2> QED BY <1>2, <2>1, <2>2, <2>3 DEF ChildSum
<1>5. ASSUME NEW q \in 0 .. NProcs - 1, q # p PROVE ChildSum(q)'
      <2>1. ChildSum(q) /\ q \in Children
            BY <1>1 DEF ChildSumInv
      <2> QED BY <1>1, <1>2, <1>5, <2>1, ChildKept
<1>6. ChildSumInv'
      BY <1>4, <1>5, Same DEF ChildSumInv
<1>7. line[p] = {} /\ mpc # "wait" /\ (mpc = "scan" => ~(p < idx))
      <2>1. line[p] = {}
            BY <1>1 DEF ChildSumInv, ChildSum
      <2> QED BY <1>1, <2>1 DEF SettledInv
<1>8. SettledInv'
      <2>1. ASSUME NEW q \in 0 .. NProcs - 1, mpc = "scan", q < idx
            PROVE  line'[q] # {} \/ cpc'[q] \in {"zombie", "reaped"}
            BY <1>1, <1>2, <1>7, <2>1 DEF SettledInv
      <2> QED BY <1>1, <1>7, <2>1, Same DEF SettledInv
<1>9. TotalInv'
      <2>1. mpc = "scan" => Heard(idx)' = Heard(idx)
            <3> SUFFICES ASSUME mpc = "scan" PROVE Heard(idx)' = Heard(idx)
                OBVIOUS
            <3>1. \A w \in Active : ProcOf(w) \in Children /\ (ProcOf(w) < idx => ProcOf(w) # p)
                  BY <1>1, <1>7, Grid
            <3>2. \A w \in Active : ProcOf(w) < idx => line'[ProcOf(w)] = line[ProcOf(w)]
                  BY <1>2, <3>1
            <3> QED BY <3>2, Same DEF Heard
      <2> QED BY <1>1, <1>7, <2>1, TotalKept
<1> QED BY <1>3, <1>6, <1>8, <1>9 DEF SumInv

\* A child creates a thread.
LEMMA ChildCreateSums ==
    ASSUME IInv, SumInv, ~Ended, NEW p \in Children, ChildCreate(p) PROVE SumInv'
<1> BaseInv /\ ChildInv /\ StartedInv /\ ShapeInv /\ ChildSumInv
    BY DEF IInv, SumInv
<1>1. CASE ChildExits(p)
      BY <1>1, ChildExitsSums
<1>2. CASE /\ Started(GlobalId(p, cidx[p]))
           /\ ChildLoop(p, "join")
           /\ UNCHANGED <<mainVars, ctotal, min0, took, pipeVars, faults, fsize, failures>>
      <2>1. cpc[p] = "create" /\ UNCHANGED <<cmd, mpc, idx, total, ctotal, writers, line>> /\ mpc # "failed"
            BY <1>2 DEF ChildCreate, mainVars, pipeVars, Ended
      <2>2. /\ Forking /\ ~Threaded /\ ArgumentsOk /\ p \in 0 .. NProcs - 1 /\ NThreads \in Nat \ {0}
            BY <2>1, ChildRuns
      <2>3. PICK t \in 0 .. NThreads - 1 : t = cidx[p]
            BY <2>1, <2>2 DEF ChildInv, BaseInv
      <2>4. PICK w \in Workers : w = GlobalId(p, t) /\ w \in Active /\ ProcOf(w) = p
            BY <2>2, Grid DEF BaseInv
      <2>5. wpc[w] = "none"
            <3>1. w \in Nat
                  BY Numbered
            <3> QED BY <2>1, <2>2, <2>3, <2>4, <3>1 DEF StartedInv
      <2>6. Frozen /\ res' \in [Workers -> [checksum : Int, minflt : Int]]
            BY <1>2, <2>3, <2>4, <2>5, StartFrozen
      <2>7. ctotal[p].checksum = 0 /\ line[p] = {}
            BY <2>1, <2>2 DEF ChildSumInv, ChildSum
      <2>8. PICK s, l : s = ctotal[p] /\ l = line[p]
            OBVIOUS
      <2>9. ctotal' = [ctotal EXCEPT ![p] = s] /\ line' = [line EXCEPT ![p] = l]
            BY <2>1, <2>8 DEF ShapeInv
      <2>10. CASE t + 1 < NThreads
            <3>1. PICK k : k = t + 1
                  OBVIOUS
            <3>2. cidx' = [cidx EXCEPT ![p] = k] /\ cpc' = [cpc EXCEPT ![p] = "create"]
                  BY <1>2, <2>1, <2>3, <2>10, <3>1 DEF ChildLoop, BaseInv
            <3> QED BY <2>1, <2>6, <2>7, <2>8, <2>9, <3>2, ChildSums
      <2>11. CASE ~(t + 1 < NThreads)
            <3>1. cidx' = [cidx EXCEPT ![p] = 0] /\ cpc' = [cpc EXCEPT ![p] = "join"]
                  BY <1>2, <2>3, <2>11 DEF ChildLoop
            <3>2. Below(p, GlobalId(p, 0))' = {}
                  <4>1. \A v \in ThreadsOf(p) : ~(v < GlobalId(p, 0))
                        <5>1. GlobalId(p, 0) \in Nat
                              BY <2>2, Grid DEF BaseInv
                        <5>2. \A v \in ThreadsOf(p) : v \in GlobalId(p, 0) .. GlobalId(p, 0) + NThreads - 1
                              BY <2>2, Grid DEF BaseInv, ThreadsOf
                        <5> QED BY <2>2, <5>1, <5>2
                  <4>2. Below(p, GlobalId(p, 0)) = {}
                        BY <4>1 DEF Below
                  <4> QED BY <2>1, <4>2, Same DEF Below
            <3>3. Sums(0, {})'
                  BY SumsNone, PTL
            <3>4. Sums(s.checksum, Below(p, GlobalId(p, 0)))'
                  BY <2>7, <2>8, <3>2, <3>3 DEF Sums
            <3> QED BY <2>1, <2>6, <2>7, <2>8, <2>9, <3>1, <3>4, ChildSums
      <2> QED BY <2>10, <2>11
<1> QED BY <1>1, <1>2 DEF ChildCreate

\* A child joins a thread.
LEMMA ChildJoinSums ==
    ASSUME IInv, SumInv, ~Ended, NEW p \in Children, ChildJoin(p) PROVE SumInv'
<1> BaseInv /\ ChildInv /\ ShapeInv /\ ChildSumInv
    BY DEF IInv, SumInv
<1>1. CASE ChildExits(p)
      BY <1>1, ChildExitsSums
<1>2. CASE /\ wpc[GlobalId(p, cidx[p])] = "done"
           /\ ctotal' = [ctotal EXCEPT ![p] = Plus(ctotal[p], res[GlobalId(p, cidx[p])])]
           /\ ChildLoop(p, "report")
           /\ UNCHANGED <<mainVars, workerVars, pipeVars, faults, fsize, failures>>
      <2>1. /\ cpc[p] = "join" /\ mpc # "failed"
            /\ UNCHANGED <<cmd, mpc, idx, total, writers, line, wpc, res>>
            BY <1>2 DEF ChildJoin, mainVars, workerVars, pipeVars, Ended
      <2>2. /\ Forking /\ ~Threaded /\ ArgumentsOk /\ p \in 0 .. NProcs - 1 /\ NThreads \in Nat \ {0}
            /\ cmd \in Commands /\ res \in [Workers -> [checksum : Int, minflt : Int]]
            BY <2>1, ChildRuns DEF BaseInv, ShapeInv
      <2>3. PICK t \in 0 .. NThreads - 1 : t = cidx[p]
            BY <2>1, <2>2 DEF ChildInv, BaseInv
      <2>4. PICK w \in Active : w = GlobalId(p, t) /\ ProcOf(w) = p
            BY <2>2, Grid
      <2>5. PICK c, s, l : c = ctotal[p].checksum /\ s = Plus(ctotal[p], res[w]) /\ l = line[p]
            OBVIOUS
      <2>6. line' = [line EXCEPT ![p] = l] /\ l = {} /\ ctotal' = [ctotal EXCEPT ![p] = s]
            BY <1>2, <2>1, <2>2, <2>3, <2>4, <2>5 DEF ShapeInv, ChildSumInv, ChildSum
      <2>7. s.checksum = c + res[w].checksum
            BY <2>5 DEF Plus
      <2>8. PICK B \in SUBSET Active : B = Below(p, w)
            BY DEF Below, ThreadsOf
      <2>9. Sums(c, B)
            BY <2>1, <2>2, <2>3, <2>4, <2>5, <2>8 DEF ChildSumInv, ChildSum
      <2>10. w \in Nat /\ Active \subseteq Nat
            BY <2>2, Sizes, Numbered
      <2>11. w \notin B /\ wpc[w] = "done"
            BY <1>2, <2>3, <2>4, <2>8, <2>10 DEF Below
      <2>12. Sums(c + res[w].checksum, B \cup {w})
            BY <2>2, <2>9, <2>11, SumsMore
      <2>13. PICK v : v = s.checksum
            OBVIOUS
      <2>14. Sums(v, B \cup {w})'
            <3>1. Sums(v, B \cup {w})
                  BY <2>7, <2>12, <2>13
            <3> QED BY <2>1, <3>1 DEF Sums, Check
      <2>15. B \cup {w} = Below(p, w + 1)
            <3>1. \A u \in Active : u < w + 1 <=> u < w \/ u = w
                  BY <2>10
            <3>2. w \in ThreadsOf(p) /\ ThreadsOf(p) \subseteq Active
                  BY <2>4 DEF ThreadsOf
            <3> QED BY <2>8, <3>1, <3>2 DEF Below
      <2>16. Frozen
            BY <2>1 DEF Frozen
      <2>17. /\ GlobalId(p, t + 1) = w + 1 /\ GlobalId(p, 0) \in Nat /\ w = GlobalId(p, 0) + t
             /\ \A u \in ThreadsOf(p) : u \in GlobalId(p, 0) .. GlobalId(p, 0) + NThreads - 1
            <3>1. \A k \in 0 .. NThreads : GlobalId(p, k) \in Nat /\ GlobalId(p, k) = GlobalId(p, 0) + k
                  BY <2>2, Grid
            <3>2. \A u \in ThreadsOf(p) : u \in GlobalId(p, 0) .. GlobalId(p, 0) + NThreads - 1
                  BY <2>2, Grid DEF ThreadsOf
            <3>3. t + 1 \in 0 .. NThreads /\ 0 \in 0 .. NThreads /\ t \in 0 .. NThreads
                  BY <2>2
            <3>4. /\ GlobalId(p, t + 1) = GlobalId(p, 0) + (t + 1)
                  /\ GlobalId(p, 0) \in Nat /\ GlobalId(p, t) = GlobalId(p, 0) + t
                  BY <3>1, <3>3
            <3> QED BY <2>4, <3>2, <3>4
      <2>18. CASE t + 1 < NThreads
            <3>1. PICK k : k = t + 1
                  OBVIOUS
            <3>2. cidx' = [cidx EXCEPT ![p] = k] /\ cpc' = [cpc EXCEPT ![p] = "join"]
                  BY <1>2, <2>1, <2>3, <2>18, <3>1 DEF ChildLoop, BaseInv
            <3>3. Below(p, GlobalId(p, k))' = B \cup {w}
                  <4>1. Below(p, GlobalId(p, k)) = B \cup {w}
                        BY <2>15, <2>17, <3>1
                  <4> QED BY <2>1, <4>1, Same DEF Below
            <3>4. Sums(s.checksum, Below(p, GlobalId(p, k)))'
                  BY <2>13, <2>14, <3>3 DEF Sums
            <3> QED BY <2>1, <2>2, <2>6, <2>16, <3>2, <3>4, ChildSums
      <2>19. CASE ~(t + 1 < NThreads)
            <3>1. cidx' = [cidx EXCEPT ![p] = 0] /\ cpc' = [cpc EXCEPT ![p] = "report"]
                  BY <1>2, <2>3, <2>19 DEF ChildLoop
            <3>2. ThreadsOf(p)' = B \cup {w}
                  <4>1. \A u \in ThreadsOf(p) : u < w + 1
                        BY <2>2, <2>17, <2>19
                  <4>2. ThreadsOf(p) = B \cup {w}
                        BY <2>15, <4>1 DEF Below
                  <4> QED BY <2>1, <4>2, Same
            <3>3. Sums(s.checksum, ThreadsOf(p))'
                  BY <2>13, <2>14, <3>2 DEF Sums
            <3> QED BY <2>1, <2>2, <2>6, <2>16, <3>1, <3>3, ChildSums
      <2> QED BY <2>18, <2>19
<1> QED BY <1>1, <1>2 DEF ChildJoin

\* A child writes its line, or fails to.
LEMMA ChildReportSums ==
    ASSUME IInv, SumInv, ~Ended, NEW p \in Children, ChildReport(p) PROVE SumInv'
<1> BaseInv /\ ShapeInv /\ ChildSumInv
    BY DEF IInv, SumInv
<1>1. /\ cpc[p] = "report" /\ cpc' = [cpc EXCEPT ![p] = "exit"]
      /\ UNCHANGED <<cmd, mpc, idx, total, cidx, ctotal, writers, wpc, res>>
      /\ line' = [line EXCEPT ![p] = {ctotal[p]}] \/ line' = line
      BY DEF ChildReport, mainVars, workerVars
<1>2. /\ Forking /\ ArgumentsOk /\ p \in 0 .. NProcs - 1 /\ cmd \in Commands
      /\ res \in [Workers -> [checksum : Int, minflt : Int]]
      BY <1>1, ChildRuns DEF BaseInv, ShapeInv
<1>3. Frozen
      BY <1>1 DEF Frozen
<1>4. PICK s, t : s = ctotal[p] /\ t = cidx[p]
      OBVIOUS
<1>5. ctotal' = [ctotal EXCEPT ![p] = s] /\ cidx' = [cidx EXCEPT ![p] = t]
      BY <1>1, <1>4 DEF ShapeInv, BaseInv
<1>6. Sums(s.checksum, ThreadsOf(p))'
      <2>1. Sums(s.checksum, ThreadsOf(p)) /\ ThreadsOf(p)' = ThreadsOf(p)
            BY <1>1, <1>2, <1>4, Same DEF ChildSumInv, ChildSum
      <2> QED BY <1>1, <2>1 DEF Sums, Check
<1>7. CASE line' = [line EXCEPT ![p] = {ctotal[p]}]
      <2>1. PICK l : l = {s} /\ line' = [line EXCEPT ![p] = l]
            BY <1>4, <1>7
      <2>2. \E r : l = {r} /\ Sums(r.checksum, ThreadsOf(p))'
            BY <1>6, <2>1
      <2> QED BY <1>1, <1>2, <1>3, <1>5, <2>1, <2>2, ChildSums
<1>8. CASE line' = line
      <2>1. line' = [line EXCEPT ![p] = {}]
            BY <1>1, <1>2, <1>8 DEF ChildSumInv, ChildSum, ShapeInv
      <2>2. PICK l : l = {} /\ line' = [line EXCEPT ![p] = l]
            BY <2>1
      <2> QED BY <1>1, <1>2, <1>3, <1>5, <2>2, ChildSums
<1> QED BY <1>1, <1>7, <1>8

-----------------------------------------------------------------------------
\* The sums are what they should be in every state the program reaches.
THEOREM SumInvariance == Spec => []SumInv
<1>1. Init => SumInv
      <2> SUFFICES ASSUME Init PROVE SumInv
          OBVIOUS
      <2>1. Zero \in [checksum : Int, minflt : Int] /\ Zero.checksum = 0
            BY DEF Zero
      <2>2. ShapeInv
            BY <2>1 DEF Init, ShapeInv
      <2>3. TotalInv /\ ChildSumInv /\ SettledInv
            BY <2>1 DEF Init, TotalInv, ChildSumInv, SettledInv, Forking
      <2> QED BY <2>2, <2>3 DEF SumInv
<1>2. IInv /\ SumInv /\ [Next]_vars => SumInv'
      <2> SUFFICES ASSUME IInv, SumInv, [Next]_vars PROVE SumInv'
          OBVIOUS
      <2>1. CASE MainStep
            BY <2>1, ArgumentsSums, CreateSums, JoinSums, ForkSums, CloseSums, ScanSums, WaitSums, SummarySums
            DEF MainStep
      <2>2. ASSUME NEW p \in Children, ChildStep(p) PROVE SumInv'
            BY <2>2, ChildCreateSums, ChildJoinSums, ChildReportSums, ChildExitsSums DEF ChildStep, ChildExit
      <2>3. ASSUME NEW w \in Workers, WorkerStep(w) PROVE SumInv'
            BY <2>3, BeginSums, WorkerExitsSums, ReadSums, EndSums DEF WorkerStep
      <2>4. CASE Truncate \/ UNCHANGED vars
            BY <2>4, IdleSums
      <2> QED BY <2>1, <2>2, <2>3, <2>4 DEF Next, ProgramStep, Finished
<1> QED BY <1>1, <1>2, Invariance, PTL DEF Spec

\* The checksum of every summary of page_cache_models is the sum of the
\* workers' checksums, each counted once: of all workers in the threaded modes,
\* and of those of the children whose line arrived in the forking ones, however
\* the children and threads interleave and whichever of them fail.
THEOREM SummaryRight == Spec => []SummaryAddsUp
<1>1. IInv /\ SumInv => SummaryAddsUp
      <2> SUFFICES ASSUME IInv, SumInv, mpc = "summary" PROVE SummaryAddsUp
          BY DEF SummaryAddsUp
      <2> BaseInv /\ MainInv /\ ShapeInv /\ TotalInv
          BY DEF IInv, SumInv
      <2> DEFINE counted == IF Threaded THEN Active ELSE {w \in Active : ProcOf(w) \in Counted}
      <2>1. ArgumentsOk /\ cmd \in Commands /\ res \in [Workers -> [checksum : Int, minflt : Int]]
            BY DEF BaseInv, ShapeInv
      <2>2. Sums(total.checksum, counted)
            <3>1. CASE Threaded
                  BY <3>1 DEF TotalInv
            <3>2. CASE ~Threaded
                  <4>1. \A w \in Active : ProcOf(w) \in 0 .. NProcs - 1
                        BY <2>1, <3>2, Grid
                  <4>2. NProcs \in Nat
                        BY <2>1, Sizes
                  <4>3. counted = Heard(NProcs)
                        BY <3>2, <4>1, <4>2 DEF Counted, Heard
                  <4> QED BY <3>2, <4>3 DEF TotalInv
            <3> QED BY <3>1, <3>2
      <2>3. PICK S \in SUBSET Active : S = counted
            OBVIOUS
      <2>4. S \in SUBSET Workers /\ IsFiniteSet(S) /\ IntegerOn(Check, S)
            BY <2>1, ActiveSums
      <2>5. MapThenSumSet(LAMBDA w : res[w].checksum, S) = SumOf(Check, S)
            BY <2>4, MapIsSum
      <2>6. total.checksum = MapThenSumSet(LAMBDA w : res[w].checksum, counted)
            BY <2>2, <2>3, <2>5, Zenon DEF Sums
      <2>7. \A w \in counted : wpc[w] = "done"
            BY <2>2 DEF Sums
      <2> QED BY <2>6, <2>7, Zenon DEF SummaryAddsUp
<1> QED BY <1>1, Invariance, SumInvariance, PTL
=============================================================================
