-------------------------- MODULE MemoryLabsProofs --------------------------
(***************************************************************************)
(* Proofs about labs/demand_paging.c and scripts/monitor.sh beside it, for *)
(* every number of chunks, every size of a chunk and every number of       *)
(* failing calls: the program's reports are what it announces, it is never *)
(* killed, it gives its memory back, and the monitor's rows are consistent *)
(* with each other although each is read while the program runs on.        *)
(***************************************************************************)
EXTENDS PagingMonitor, SequenceTheorems, FiniteSetTheorems, TLAPS

-----------------------------------------------------------------------------
(* The program, step by step.                                              *)

\* The chunks' part of the program: mark, fill the chunk, tell the faults.
Filling == [k \in 1 .. 3 * Chunks |->
               CASE k % 3 = 1 -> Mark
                 [] k % 3 = 2 -> Memset("a", (k \div 3) * ChunkPages, ChunkPages, k \div 3 + 1)
                 [] OTHER -> Tell("faults", ChunkPages)]
Before == <<Mark, Or("ret", Mmap("a", Size)), Tell("rss", 0), Tell("faults", 0),
            Scan("a", Size, ChunkPages), Tell("sum", 0), Tell("rss", 0)>>
After == <<Mark, Scan("a", Size, 1), Tell("sum", ChunkPages * ((Chunks * (Chunks + 1)) \div 2)),
           Tell("faults", 0), Or("ret", Munmap("a")), Tell("rss", -Size), Do("ret")>>

LEMMA SizeType == Chunks \in Nat \ {0} /\ ChunkPages \in Nat \ {0} /\ Size \in Nat \ {0}
  BY MemoryAssumption DEF Size

LEMMA FillingSteps ==
    ASSUME NEW c \in 0 .. Chunks - 1
    PROVE  /\ Filling[3 * c + 1] = Mark
           /\ Filling[3 * c + 2] = Memset("a", c * ChunkPages, ChunkPages, c + 1)
           /\ Filling[3 * c + 3] = Tell("faults", ChunkPages)
<1>1. /\ 3 * c + 1 \in 1 .. 3 * Chunks /\ (3 * c + 1) % 3 = 1
      /\ 3 * c + 2 \in 1 .. 3 * Chunks /\ (3 * c + 2) % 3 = 2 /\ (3 * c + 2) \div 3 = c
      /\ 3 * c + 3 \in 1 .. 3 * Chunks /\ (3 * c + 3) % 3 = 0
      /\ 2 # 1 /\ 0 # 1 /\ 0 # 2
  BY SizeType
<1> DEFINE D == 1 .. 3 * Chunks
           fill(k) == Memset("a", (k \div 3) * ChunkPages, ChunkPages, k \div 3 + 1)
           item(k) == CASE k % 3 = 1 -> Mark
                        [] k % 3 = 2 -> fill(k)
                        [] OTHER -> Tell("faults", ChunkPages)
<1>2. Filling = [k \in D |-> item(k)]
  BY Zenon DEF Filling
<1>3. 3 * c + 1 \in D /\ 3 * c + 2 \in D /\ 3 * c + 3 \in D
  BY <1>1
<1>4. item(3 * c + 1) = Mark
  BY <1>1, Zenon
<1>5. item(3 * c + 2) = Memset("a", c * ChunkPages, ChunkPages, c + 1)
  BY <1>1, Zenon
<1>6. item(3 * c + 3) = Tell("faults", ChunkPages)
  BY <1>1, Zenon
<1> HIDE DEF D, item, fill
<1>7. Filling[3 * c + 1] = item(3 * c + 1) /\ Filling[3 * c + 2] = item(3 * c + 2) /\ Filling[3 * c + 3] = item(3 * c + 3)
  BY <1>2, <1>3, Zenon
<1> QED
  BY <1>4, <1>5, <1>6, <1>7, Zenon

\* What three sequences one after the other hold.
Joined(s, t, u) ==
    /\ Len((s \o t) \o u) = Len(s) + Len(t) + Len(u)
    /\ DOMAIN ((s \o t) \o u) = 1 .. Len(s) + Len(t) + Len(u)
    /\ \A k \in 1 .. Len(s) : ((s \o t) \o u)[k] = s[k]
    /\ \A k \in 1 .. Len(t) : ((s \o t) \o u)[Len(s) + k] = t[k]
    /\ \A k \in 1 .. Len(u) : ((s \o t) \o u)[Len(s) + Len(t) + k] = u[k]
LEMMA ThreeParts ==
    ASSUME NEW S, NEW s \in Seq(S), NEW t \in Seq(S), NEW u \in Seq(S)
    PROVE  Joined(s, t, u)
<1> DEFINE a == Len(s)
           b == Len(t)
           c == Len(u)
<1>0. a \in Nat /\ b \in Nat /\ c \in Nat
  OBVIOUS
<1>1. /\ s \o t \in Seq(S) /\ Len(s \o t) = a + b
      /\ \A k \in 1 .. a + b : (s \o t)[k] = IF k <= a THEN s[k] ELSE t[k - a]
  BY ConcatProperties
<1>2. PICK v \in Seq(S) : v = s \o t
  BY <1>1
<1>3. /\ v \o u \in Seq(S) /\ Len(v \o u) = a + b + c
      /\ \A k \in 1 .. a + b + c : (v \o u)[k] = IF k <= a + b THEN v[k] ELSE u[k - (a + b)]
  <2>1. /\ v \o u \in Seq(S) /\ Len(v \o u) = Len(v) + Len(u)
        /\ \A k \in 1 .. Len(v) + Len(u) : (v \o u)[k] = IF k <= Len(v) THEN v[k] ELSE u[k - Len(v)]
    BY ConcatProperties
  <2>2. Len(v) = a + b
    BY <1>1, <1>2
  <2> QED
    BY <2>1, <2>2
<1>4. DOMAIN (v \o u) = 1 .. a + b + c
  BY <1>3
<1>5. /\ \A k \in 1 .. a : (v \o u)[k] = s[k]
      /\ \A k \in 1 .. b : (v \o u)[a + k] = t[k]
      /\ \A k \in 1 .. c : (v \o u)[a + b + k] = u[k]
  BY <1>0, <1>1, <1>2, <1>3
<1> QED
  BY <1>2, <1>3, <1>4, <1>5, Zenon DEF Joined

\* The program is its three parts one after the other.
LEMMA ProgramSteps ==
    /\ Len(demand_paging) = 3 * Chunks + 14 /\ DOMAIN demand_paging = 1 .. 3 * Chunks + 14
    /\ \A k \in 1 .. 7 : demand_paging[k] = Before[k]
    /\ \A k \in 1 .. 3 * Chunks : demand_paging[7 + k] = Filling[k]
    /\ \A k \in 1 .. 7 : demand_paging[3 * Chunks + 7 + k] = After[k]
<1> DEFINE S == {Before[k] : k \in 1 .. 7} \cup {Filling[k] : k \in 1 .. 3 * Chunks} \cup {After[k] : k \in 1 .. 7}
<1>1. Before \in Seq(S) /\ Len(Before) = 7
  BY SMT DEF Before
<1>2. After \in Seq(S) /\ Len(After) = 7
  BY SMT DEF After
<1>3. Filling \in Seq(S) /\ Len(Filling) = 3 * Chunks
  <2> DEFINE item(k) == CASE k % 3 = 1 -> Mark
                          [] k % 3 = 2 -> Memset("a", (k \div 3) * ChunkPages, ChunkPages, k \div 3 + 1)
                          [] OTHER -> Tell("faults", ChunkPages)
  <2>1. Filling = [k \in 1 .. 3 * Chunks |-> item(k)]
    BY Zenon DEF Filling
  <2> HIDE DEF item
  <2>2. Filling \in [1 .. 3 * Chunks -> S]
    BY <2>1
  <2>3. 3 * Chunks \in Nat
    BY SizeType
  <2> HIDE DEF S
  <2> QED
    BY <2>2, <2>3
<1>4. demand_paging = (Before \o Filling) \o After
  BY Zenon DEF demand_paging, Before, Filling, After
<1> HIDE DEF S
<1>5. /\ Len((Before \o Filling) \o After) = 7 + 3 * Chunks + 7
      /\ DOMAIN ((Before \o Filling) \o After) = 1 .. 7 + 3 * Chunks + 7
      /\ \A k \in 1 .. 7 : ((Before \o Filling) \o After)[k] = Before[k]
      /\ \A k \in 1 .. 3 * Chunks : ((Before \o Filling) \o After)[7 + k] = Filling[k]
      /\ \A k \in 1 .. 7 : ((Before \o Filling) \o After)[7 + 3 * Chunks + k] = After[k]
  <2>1. Joined(Before, Filling, After)
    BY <1>1, <1>2, <1>3, ThreeParts, Zenon
  <2>2. Len(Before) = 7 /\ Len(Filling) = 3 * Chunks /\ Len(After) = 7
    BY <1>1, <1>2, <1>3
  <2> QED
    BY <2>1, <2>2, Zenon DEF Joined
<1>6. 7 + 3 * Chunks + 7 = 3 * Chunks + 14 /\ \A k \in 1 .. 7 : 7 + 3 * Chunks + k = 3 * Chunks + 7 + k
  BY SizeType
<1> QED
  BY <1>4, <1>5, <1>6, Zenon

-----------------------------------------------------------------------------
(* The inductive invariant.  demand_paging maps the top of the arena and   *)
(* fills it from its first page on: after w pages the first w are its own, *)
(* the others are untouched or the zero page.                              *)

Base == Max({Size, 4}) - Size + 1
Shape(m) == DOMAIN m = {"addr", "vma", "pte", "val", "flt"}

MemType ==
    /\ Shape(mem)
    /\ mem.addr \in [Regions -> Int] /\ mem.vma \in [Arena -> {"no", "rw"}] /\ mem.pte \in [Arena -> {"no", "zero", "own"}]
    /\ mem.val \in [Arena -> Int] /\ mem.flt \in Nat

EmptyMem == mem.addr["a"] <= 0 /\ \A p \in Arena : mem.vma[p] = "no" /\ mem.pte[p] = "no"

\* The first w pages of the mapping are written, each with one fault at least.
FilledMem(w) ==
    /\ mem.addr["a"] = Base /\ w <= mem.flt
    /\ \A p \in Arena :
          /\ mem.vma[p] = IF p >= Base THEN "rw" ELSE "no"
          /\ p >= Base /\ p < Base + w => mem.pte[p] = "own" /\ mem.val[p] = (p - Base) \div ChunkPages + 1
          /\ p >= Base + w => mem.pte[p] \in {"no", "zero"} /\ mem.val[p] = 0
          /\ p < Base => mem.pte[p] = "no"

\* Twice the sum of the first k pages once every chunk is filled.
TwiceSum(k) ==
    LET q == k \div ChunkPages
        r == k % ChunkPages
    IN  ChunkPages * (q * (q + 1)) + 2 * (r * (q + 1))

\* Where the program is: before and after mmap, in chunk c, after the chunks.
End == 8 + 3 * Chunks
Starting ==
    /\ pc \in {1, 2} /\ status = "run" /\ i = 0 /\ EmptyMem /\ mem.flt = 0
    /\ pc = 2 => mark.faults = 0 /\ mark.rss = 0 /\ sum = 0
Looking ==
    /\ pc \in 3 .. 7 /\ status = "run" /\ FilledMem(0) /\ mark.rss = 0
    /\ IF pc = 5 THEN i \in 0 .. Size - 1 ELSE i = 0
    /\ pc \in {3, 4} => mem.flt = 0 /\ mark.faults = 0
    /\ pc # 7 => sum = 0
InChunk(c) ==
    /\ status = "run"
    /\ \/ pc = 8 + 3 * c /\ i = 0 /\ FilledMem(c * ChunkPages)
       \/ /\ pc = 9 + 3 * c /\ i \in 0 .. ChunkPages - 1
          /\ FilledMem(c * ChunkPages + i) /\ mark.faults \in Nat /\ mem.flt = mark.faults + i
       \/ /\ pc = 10 + 3 * c /\ i = 0
          /\ FilledMem((c + 1) * ChunkPages) /\ mark.faults \in Nat /\ mem.flt = mark.faults + ChunkPages
Scanning ==
    /\ pc \in End .. End + 4 /\ status = "run" /\ FilledMem(Size)
    /\ IF pc = End + 1 THEN i \in 0 .. Size - 1 ELSE i = 0
    /\ pc # End => mark.rss = Size
    /\ pc \in End + 1 .. End + 3 => mem.flt = mark.faults
    /\ pc = End + 1 => 2 * sum = TwiceSum(i)
    /\ pc = End + 2 => 2 * sum = TwiceSum(Size)
Ending ==
    \/ pc = End + 5 /\ status = "run" /\ i = 0 /\ EmptyMem /\ mark.rss = Size
    \/ pc = End + 6 /\ status \in {"run", "done"} /\ (EmptyMem \/ (FilledMem(Size) /\ End + 4 \in failed))

Told == told \in Seq([at : Int, got : Int, said : Int]) /\ \A k \in DOMAIN told : told[k].got = told[k].said

Paging ==
    /\ MemType /\ sum \in Int /\ file = {} /\ Told
    /\ Starting \/ Looking \/ (\E c \in 0 .. Chunks - 1 : InChunk(c)) \/ Scanning \/ Ending

\* What the monitor has read is never more than what it can still read, as
\* long as the process is there.
Watching ==
    /\ proc \in {"none", "live", "zombie", "gone"}
    /\ proc = "none" => mpc \in {"off", "search", "given"} /\ mem.flt = 0
    /\ prev \in Nat /\ rss \in Nat /\ rates = prev
    /\ row.total = prev /\ row.rate \in Int /\ row.rss \in Nat
    /\ proc # "gone" => prev <= mem.flt /\ rss <= mem.flt /\ row.rate >= 0 /\ row.rss <= row.total

IInv == IF prog = "demand_paging" THEN Paging /\ Watching
        ELSE mpc = "off" /\ row = NoRow /\ rates = 0

-----------------------------------------------------------------------------
(* What the next step is.                                                  *)

LEMMA PlainFields == Mark.op = "mark" /\ Do("ret").op = "ret"
  BY Zenon DEF Mark, Do, Step
LEMMA TellFields ==
    \A what, v : Tell(what, v).op = "tell" /\ Tell(what, v).arg = what /\ Tell(what, v).val = v
  BY Zenon DEF Tell, Step
LEMMA MmapFields ==
    \A r, n : /\ Or("ret", Mmap(r, n)).op = "mmap" /\ Or("ret", Mmap(r, n)).r = r /\ Or("ret", Mmap(r, n)).n = n
              /\ Or("ret", Mmap(r, n)).arg = "anon" /\ Or("ret", Mmap(r, n)).err = "ret"
  BY Zenon DEF Or, Mmap, Step
LEMMA MunmapFields ==
    \A r : Or("ret", Munmap(r)).op = "munmap" /\ Or("ret", Munmap(r)).r = r /\ Or("ret", Munmap(r)).err = "ret"
  BY Zenon DEF Or, Munmap, Step
LEMMA MemsetFields ==
    \A r, lo, n, v : /\ Memset(r, lo, n, v).op = "write" /\ Memset(r, lo, n, v).r = r
                     /\ Memset(r, lo, n, v).lo = lo /\ Memset(r, lo, n, v).n = n /\ Memset(r, lo, n, v).val = v
<1>1. \A r, lo, n, v : Memset(r, lo, n, v).op = "write" /\ Memset(r, lo, n, v).r = r
  BY Zenon DEF Memset, Step
<1>2. \A r, lo, n, v : Memset(r, lo, n, v).lo = lo /\ Memset(r, lo, n, v).n = n
  BY Zenon DEF Memset, Step
<1>3. \A r, lo, n, v : Memset(r, lo, n, v).val = v
  BY Zenon DEF Memset, Step
<1> QED
  BY <1>1, <1>2, <1>3
LEMMA ScanFields ==
    \A r, n, stride : /\ Scan(r, n, stride).op = "read" /\ Scan(r, n, stride).r = r /\ Scan(r, n, stride).lo = 0
                      /\ Scan(r, n, stride).n = n /\ Scan(r, n, stride).val = stride - 1
  BY Zenon DEF Scan, Step

\* The op of each step of demand_paging, and what else is looked at.
Total == ChunkPages * ((Chunks * (Chunks + 1)) \div 2)
LEMMA DemandPagingSteps ==
    /\ demand_paging[1].op = "mark"
    /\ /\ demand_paging[2].op = "mmap" /\ demand_paging[2].r = "a" /\ demand_paging[2].n = Size
       /\ demand_paging[2].arg = "anon" /\ demand_paging[2].err = "ret"
    /\ demand_paging[3].op = "tell" /\ demand_paging[3].arg = "rss" /\ demand_paging[3].val = 0
    /\ demand_paging[4].op = "tell" /\ demand_paging[4].arg = "faults" /\ demand_paging[4].val = 0
    /\ /\ demand_paging[5].op = "read" /\ demand_paging[5].r = "a" /\ demand_paging[5].lo = 0
       /\ demand_paging[5].n = Size /\ demand_paging[5].val = ChunkPages - 1
    /\ demand_paging[6].op = "tell" /\ demand_paging[6].arg = "sum" /\ demand_paging[6].val = 0
    /\ demand_paging[7].op = "tell" /\ demand_paging[7].arg = "rss" /\ demand_paging[7].val = 0
    /\ \A c \in 0 .. Chunks - 1 :
          /\ demand_paging[8 + 3 * c].op = "mark"
          /\ /\ demand_paging[9 + 3 * c].op = "write" /\ demand_paging[9 + 3 * c].r = "a"
             /\ demand_paging[9 + 3 * c].lo = c * ChunkPages /\ demand_paging[9 + 3 * c].n = ChunkPages
             /\ demand_paging[9 + 3 * c].val = c + 1
          /\ /\ demand_paging[10 + 3 * c].op = "tell" /\ demand_paging[10 + 3 * c].arg = "faults"
             /\ demand_paging[10 + 3 * c].val = ChunkPages
    /\ demand_paging[End].op = "mark"
    /\ /\ demand_paging[End + 1].op = "read" /\ demand_paging[End + 1].r = "a" /\ demand_paging[End + 1].lo = 0
       /\ demand_paging[End + 1].n = Size /\ demand_paging[End + 1].val = 1 - 1
    /\ demand_paging[End + 2].op = "tell" /\ demand_paging[End + 2].arg = "sum" /\ demand_paging[End + 2].val = Total
    /\ demand_paging[End + 3].op = "tell" /\ demand_paging[End + 3].arg = "faults" /\ demand_paging[End + 3].val = 0
    /\ demand_paging[End + 4].op = "munmap" /\ demand_paging[End + 4].r = "a" /\ demand_paging[End + 4].err = "ret"
    /\ demand_paging[End + 5].op = "tell" /\ demand_paging[End + 5].arg = "rss" /\ demand_paging[End + 5].val = -Size
    /\ demand_paging[End + 6].op = "ret"
    /\ Len(demand_paging) = End + 6 /\ DOMAIN demand_paging = 1 .. End + 6
<1>1. /\ Before[1] = Mark /\ Before[2] = Or("ret", Mmap("a", Size)) /\ Before[3] = Tell("rss", 0)
      /\ Before[4] = Tell("faults", 0) /\ Before[5] = Scan("a", Size, ChunkPages) /\ Before[6] = Tell("sum", 0)
      /\ Before[7] = Tell("rss", 0)
  BY SMT DEF Before
<1>2. /\ After[1] = Mark /\ After[2] = Scan("a", Size, 1) /\ After[3] = Tell("sum", Total)
      /\ After[4] = Tell("faults", 0) /\ After[5] = Or("ret", Munmap("a")) /\ After[6] = Tell("rss", -Size)
      /\ After[7] = Do("ret")
  BY SMT DEF After, Total
<1>3. /\ demand_paging[1] = Mark /\ demand_paging[2] = Or("ret", Mmap("a", Size)) /\ demand_paging[3] = Tell("rss", 0)
      /\ demand_paging[4] = Tell("faults", 0) /\ demand_paging[5] = Scan("a", Size, ChunkPages)
      /\ demand_paging[6] = Tell("sum", 0) /\ demand_paging[7] = Tell("rss", 0)
  BY <1>1, ProgramSteps, SMT
<1>4. /\ demand_paging[End] = Mark /\ demand_paging[End + 1] = Scan("a", Size, 1)
      /\ demand_paging[End + 2] = Tell("sum", Total) /\ demand_paging[End + 3] = Tell("faults", 0)
      /\ demand_paging[End + 4] = Or("ret", Munmap("a")) /\ demand_paging[End + 5] = Tell("rss", -Size)
      /\ demand_paging[End + 6] = Do("ret")
  <2>1. \A k \in 1 .. 7 : demand_paging[End + (k - 1)] = After[k]
    <3>1. ASSUME NEW k \in 1 .. 7 PROVE End + (k - 1) = 3 * Chunks + 7 + k
      BY SizeType DEF End
    <3> QED
      BY <3>1, ProgramSteps, Zenon
  <2> QED
    BY <1>2, <2>1, SizeType DEF End
<1>5. ASSUME NEW c \in 0 .. Chunks - 1
      PROVE  /\ demand_paging[8 + 3 * c] = Mark
             /\ demand_paging[9 + 3 * c] = Memset("a", c * ChunkPages, ChunkPages, c + 1)
             /\ demand_paging[10 + 3 * c] = Tell("faults", ChunkPages)
  <2>1. /\ 8 + 3 * c = 7 + (3 * c + 1) /\ 3 * c + 1 \in 1 .. 3 * Chunks
        /\ 9 + 3 * c = 7 + (3 * c + 2) /\ 3 * c + 2 \in 1 .. 3 * Chunks
        /\ 10 + 3 * c = 7 + (3 * c + 3) /\ 3 * c + 3 \in 1 .. 3 * Chunks
    BY SizeType
  <2>2. /\ demand_paging[7 + (3 * c + 1)] = Filling[3 * c + 1]
        /\ demand_paging[7 + (3 * c + 2)] = Filling[3 * c + 2]
        /\ demand_paging[7 + (3 * c + 3)] = Filling[3 * c + 3]
    BY <2>1, ProgramSteps, Zenon
  <2>3. /\ Filling[3 * c + 1] = Mark
        /\ Filling[3 * c + 2] = Memset("a", c * ChunkPages, ChunkPages, c + 1)
        /\ Filling[3 * c + 3] = Tell("faults", ChunkPages)
    BY FillingSteps, Zenon
  <2> QED
    BY <2>1, <2>2, <2>3, Zenon
<1>6. Len(demand_paging) = End + 6 /\ DOMAIN demand_paging = 1 .. End + 6
  BY ProgramSteps, SizeType DEF End
<1>7. demand_paging[1].op = "mark" /\ demand_paging[End].op = "mark" /\ demand_paging[End + 6].op = "ret"
  BY <1>3, <1>4, PlainFields, SMT
<1>8. /\ demand_paging[2].op = "mmap" /\ demand_paging[2].r = "a" /\ demand_paging[2].n = Size
      /\ demand_paging[2].arg = "anon" /\ demand_paging[2].err = "ret"
  BY <1>3, MmapFields, SMT
<1>9. /\ demand_paging[3].op = "tell" /\ demand_paging[3].arg = "rss" /\ demand_paging[3].val = 0
      /\ demand_paging[4].op = "tell" /\ demand_paging[4].arg = "faults" /\ demand_paging[4].val = 0
      /\ demand_paging[6].op = "tell" /\ demand_paging[6].arg = "sum" /\ demand_paging[6].val = 0
      /\ demand_paging[7].op = "tell" /\ demand_paging[7].arg = "rss" /\ demand_paging[7].val = 0
  BY <1>3, TellFields, SMT
<1>10. /\ demand_paging[5].op = "read" /\ demand_paging[5].r = "a" /\ demand_paging[5].lo = 0
       /\ demand_paging[5].n = Size /\ demand_paging[5].val = ChunkPages - 1
  BY <1>3, ScanFields, SMT
<1>11. ASSUME NEW c \in 0 .. Chunks - 1
       PROVE  /\ demand_paging[8 + 3 * c].op = "mark"
              /\ /\ demand_paging[9 + 3 * c].op = "write" /\ demand_paging[9 + 3 * c].r = "a"
                 /\ demand_paging[9 + 3 * c].lo = c * ChunkPages /\ demand_paging[9 + 3 * c].n = ChunkPages
                 /\ demand_paging[9 + 3 * c].val = c + 1
              /\ /\ demand_paging[10 + 3 * c].op = "tell" /\ demand_paging[10 + 3 * c].arg = "faults"
                 /\ demand_paging[10 + 3 * c].val = ChunkPages
  <2>1. /\ demand_paging[8 + 3 * c] = Mark
        /\ demand_paging[9 + 3 * c] = Memset("a", c * ChunkPages, ChunkPages, c + 1)
        /\ demand_paging[10 + 3 * c] = Tell("faults", ChunkPages)
    BY <1>5
  <2> QED
    BY <2>1, PlainFields, MemsetFields, TellFields, SMT
<1>12. /\ demand_paging[End + 1].op = "read" /\ demand_paging[End + 1].r = "a" /\ demand_paging[End + 1].lo = 0
       /\ demand_paging[End + 1].n = Size /\ demand_paging[End + 1].val = 1 - 1
  BY <1>4, ScanFields, SMT
<1>13. /\ demand_paging[End + 2].op = "tell" /\ demand_paging[End + 2].arg = "sum" /\ demand_paging[End + 2].val = Total
       /\ demand_paging[End + 3].op = "tell" /\ demand_paging[End + 3].arg = "faults" /\ demand_paging[End + 3].val = 0
       /\ demand_paging[End + 5].op = "tell" /\ demand_paging[End + 5].arg = "rss" /\ demand_paging[End + 5].val = -Size
  BY <1>4, TellFields, SMT
<1>14. demand_paging[End + 4].op = "munmap" /\ demand_paging[End + 4].r = "a" /\ demand_paging[End + 4].err = "ret"
  BY <1>4, MunmapFields, SMT
<1> QED
  BY <1>6, <1>7, <1>8, <1>9, <1>10, <1>11, <1>12, <1>13, <1>14

LEMMA ProgramIs ==
    ASSUME prog = "demand_paging"
    PROVE  Steps = demand_paging /\ Now = demand_paging[pc]
  BY Zenon DEF Steps, Now, Programs

\* Each kind of step has its own action.
LEMMA Dispatch ==
    ASSUME Next
    PROVE  /\ status = "run"
           /\ Now.op = "mark" => TakeMark
           /\ Now.op = "tell" => Report
           /\ Now.op = "mmap" => MmapOk \/ Fails
           /\ Now.op = "munmap" => MunmapOk \/ Fails
           /\ Now.op \in {"read", "write"} => Access \/ Trapped
           /\ Now.op = "ret" => Return
<1>1. /\ MmapOk => At("mmap")
      /\ MunmapOk => At("munmap")
      /\ MprotectOk => At("mprotect")
      /\ MadviseOk => At("madvise")
      /\ FileOk => At("open") \/ At("mkstemp") \/ At("extend") \/ At("truncate") \/ At("close") \/ At("unlink")
      /\ TestBoth => At("both")
      /\ Access => At("read") \/ At("write")
      /\ Trapped => At("trap") \/ At("read") \/ At("write")
      /\ Fork => At("fork")
      /\ ChildExit => At("_exit")
      /\ TakeMark => At("mark")
      /\ Report => At("tell")
      /\ Return => At("ret")
  BY Zenon DEF MmapOk, MunmapOk, MprotectOk, MadviseOk, FileOk, TestBoth, Access, Trapped, Fork, ChildExit,
               TakeMark, Report, Return
<1>2. /\ Fails => /\ status = "run"
                  /\ Now.op \in {"mmap", "munmap", "mprotect", "madvise", "open", "mkstemp", "extend", "truncate", "unlink",
                                "fork"}
      /\ Plain => status = "run" /\ Now.op \in {"sigaction", "setjmp", "join", "never", "kill"}
  BY Zenon DEF Fails, Plain
<1>3. \/ MmapOk \/ MunmapOk \/ MprotectOk \/ MadviseOk \/ FileOk \/ TestBoth \/ Fails
      \/ Access \/ Trapped \/ Plain \/ Fork \/ ChildExit \/ TakeMark \/ Report \/ Return
  BY Zenon DEF Next
<1> QED
  BY <1>1, <1>2, <1>3, SMT DEF At

\* Every step is in one of the parts; mmap comes once, and return at the end.
LEMMA StepKinds ==
    ASSUME NEW j \in 1 .. End + 6
    PROVE  (demand_paging[j].op = "mmap" <=> j = 2) /\ (demand_paging[j].op = "ret" <=> j = End + 6)
<1>1. CASE j <= 7
  <2>1. j \in {1, 2, 3, 4, 5, 6, 7} /\ j # End + 6
    BY <1>1, SizeType DEF End
  <2> QED
    BY <2>1, DemandPagingSteps
<1>2. CASE 8 <= j /\ j < End
  <2> DEFINE c == (j - 8) \div 3
  <2>1. c \in 0 .. Chunks - 1 /\ j \in {8 + 3 * c, 9 + 3 * c, 10 + 3 * c} /\ j # 2 /\ j # End + 6
    BY <1>2, SizeType DEF End
  <2> HIDE DEF c
  <2>2. /\ demand_paging[8 + 3 * c].op = "mark" /\ demand_paging[9 + 3 * c].op = "write"
        /\ demand_paging[10 + 3 * c].op = "tell"
    BY <2>1, DemandPagingSteps
  <2> QED
    BY <2>1, <2>2
<1>3. CASE End <= j
  <2>1. j \in {End, End + 1, End + 2, End + 3, End + 4, End + 5, End + 6} /\ j # 2
    BY <1>3, SizeType DEF End
  <2>2. End + 5 # End + 6 /\ End + 4 # End + 6 /\ End + 3 # End + 6 /\ End + 2 # End + 6 /\ End + 1 # End + 6
        /\ End # End + 6
    BY SizeType DEF End
  <2>3. /\ demand_paging[End].op = "mark" /\ demand_paging[End + 1].op = "read" /\ demand_paging[End + 2].op = "tell"
        /\ demand_paging[End + 3].op = "tell" /\ demand_paging[End + 4].op = "munmap"
        /\ demand_paging[End + 5].op = "tell" /\ demand_paging[End + 6].op = "ret"
    BY DemandPagingSteps, Zenon
  <2> QED
    BY <2>1, <2>2, <2>3
<1> QED
  BY <1>1, <1>2, <1>3, SizeType DEF End

\* The greatest and the least of a set of numbers, once one is known.
LEMMA MaxIs ==
    ASSUME NEW S \in SUBSET Int, NEW x \in S, \A y \in S : x >= y
    PROVE  Max(S) = x
<1>1. PICK m : m = Max(S)
  OBVIOUS
<1>2. m \in S /\ \A y \in S : m >= y
  BY <1>1, Zenon DEF Max
<1>3. m \in Int /\ x \in Int /\ m >= x /\ x >= m
  BY <1>2
<1>4. m = x
  BY <1>3
<1> QED
  BY <1>1, <1>4
LEMMA MinIs ==
    ASSUME NEW S \in SUBSET Int, NEW x \in S, \A y \in S : x <= y
    PROVE  Min(S) = x
<1>1. PICK m : m = Min(S)
  OBVIOUS
<1>2. m \in S /\ \A y \in S : m <= y
  BY <1>1, Zenon DEF Min
<1>3. m \in Int /\ x \in Int /\ m <= x /\ x <= m
  BY <1>2
<1>4. m = x
  BY <1>3
<1> QED
  BY <1>1, <1>4

LEMMA NextReturn ==
    ASSUME prog = "demand_paging", NEW k \in 1 .. End + 5
    PROVE  NextOf("ret", k) = End + 6
<1> DEFINE S == {j \in DOMAIN Steps : j > k /\ Steps[j].op = "ret"}
<1>1. DOMAIN Steps = 1 .. End + 6 /\ \A j \in 1 .. End + 6 : Steps[j].op = "ret" <=> j = End + 6
  BY ProgramIs, DemandPagingSteps, StepKinds
<1>2. End \in Nat
  BY SizeType DEF End
<1>3. S = {End + 6}
  BY <1>1, <1>2
<1>4. Min({End + 6}) = End + 6
  BY <1>2, MinIs
<1> QED
  BY <1>3, <1>4, Zenon DEF NextOf

LEMMA SizeOfMapping ==
    ASSUME prog = "demand_paging", pc = End + 4
    PROVE  SizeOf("a") = Size
<1>0. End \in Nat /\ End > 8
  BY SizeType DEF End
<1>1. \A k \in 1 .. pc : Steps[k].op = "mmap" <=> k = 2
  BY <1>0, ProgramIs, StepKinds
<1>2. Steps[2].r = "a" /\ Steps[2].n = Size /\ 2 \in 1 .. pc
  BY <1>0, ProgramIs, DemandPagingSteps
<1>3. {k \in 1 .. pc : Steps[k].op = "mmap" /\ Steps[k].r = "a"} = {2}
  BY <1>1, <1>2
<1>4. Max({2}) = 2
  BY MaxIs
<1> QED
  BY <1>2, <1>3, <1>4, Zenon DEF SizeOf

-----------------------------------------------------------------------------
(* The arena and the resident pages in it.                                 *)

LEMMA ArenaIs ==
    /\ Base \in Nat \ {0} /\ Arena = 1 .. Base + Size - 1 /\ IsFiniteSet(Arena)
    /\ Max(Arena) = Base + Size - 1
<1>1. Max({Size, 4}) = IF Size >= 4 THEN Size ELSE 4
  <2>1. CASE Size >= 4
    BY <2>1, MaxIs, SizeType
  <2>2. CASE ~(Size >= 4)
    BY <2>2, MaxIs, SizeType
  <2> QED
    BY <2>1, <2>2
<1>2. Base \in Nat \ {0} /\ Arena = 1 .. Base + Size - 1
  BY <1>1, SizeType DEF Base, Arena
<1>3. IsFiniteSet(Arena) /\ Arena \in SUBSET Int
  BY <1>2, SizeType, FS_Interval
<1>4. Max(Arena) = Base + Size - 1
  <2>1. Base + Size - 1 \in Arena /\ \A y \in Arena : Base + Size - 1 >= y
    BY <1>2, SizeType
  <2> QED
    BY <1>3, <2>1, MaxIs
<1> QED
  BY <1>2, <1>3, <1>4

LEMMA ResidentFilled ==
    ASSUME MemType, NEW w \in 0 .. Size, FilledMem(w)
    PROVE  Resident(mem) = w
<1>1. {p \in Arena : mem.pte[p] \in {"own", "cow", "file"}} = Base .. Base + w - 1
  BY ArenaIs, SizeType DEF FilledMem
<1>2. Cardinality(Base .. Base + w - 1) = w
  BY ArenaIs, FS_Interval
<1> QED
  BY <1>1, <1>2, Zenon DEF Resident

LEMMA ResidentEmpty ==
    ASSUME EmptyMem
    PROVE  Resident(mem) = 0
<1>1. {p \in Arena : mem.pte[p] \in {"own", "cow", "file"}} = {}
  BY SMT DEF EmptyMem
<1> QED
  BY <1>1, FS_EmptySet, Zenon DEF Resident

-----------------------------------------------------------------------------
(* What the actions do.                                                    *)

LEMMA MarkStep ==
    ASSUME TakeMark
    PROVE  /\ mark'.faults = mem.flt /\ mark'.rss = Resident(mem) /\ sum' = 0 /\ pc' = pc + 1 /\ i' = 0
           /\ prog' = prog /\ mem' = mem /\ told' = told /\ file' = file /\ failed' = failed /\ status' = status
  BY Zenon DEF TakeMark, Marked, Snapshot, Advance, fixed

LEMMA ReportStep ==
    ASSUME Report
    PROVE  /\ told' = Append(told, [at |-> pc, got |-> Measured(Now.arg), said |-> Now.val])
           /\ pc' = pc + 1 /\ i' = 0 /\ prog' = prog /\ mem' = mem /\ mark' = mark /\ sum' = sum
           /\ file' = file /\ failed' = failed /\ status' = status
  BY Zenon DEF Report, Advance, fixed

LEMMA MeasuredIs ==
    /\ Measured("sum") = sum
    /\ Measured("faults") = mem.flt - mark.faults
    /\ Measured("rss") = Resident(mem) - mark.rss
<1>1. "faults" # "sum" /\ "faults" # "caught" /\ "faults" # "area" /\ "rss" # "sum" /\ "rss" # "caught" /\ "rss" # "area"
  BY SMT
<1>2. Snapshot["faults"] = mem.flt /\ Snapshot["rss"] = Resident(mem)
  BY Zenon DEF Snapshot
<1> QED
  BY <1>1, <1>2, Zenon DEF Measured

\* A report of what was announced is one more true report.
LEMMA TrueReport ==
    ASSUME Told, Report, pc \in Int, NEW got \in Int, Measured(Now.arg) = got, Now.val = got
    PROVE  Told'
<1> DEFINE new == [at |-> pc, got |-> got, said |-> got]
<1>1. told' = Append(told, new)
  BY ReportStep
<1>2. new \in [at : Int, got : Int, said : Int] /\ new.got = new.said
  OBVIOUS
<1> HIDE DEF new
<1>3. /\ told \in Seq([at : Int, got : Int, said : Int])
      /\ \A k \in DOMAIN told : told[k].got = told[k].said
  BY DEF Told
<1>4. /\ Append(told, new) \in Seq([at : Int, got : Int, said : Int])
      /\ \A k \in DOMAIN Append(told, new) : Append(told, new)[k].got = Append(told, new)[k].said
  BY <1>2, <1>3, SMT
<1> QED
  BY <1>1, <1>4, Zenon DEF Told

\* The page a loop over the mapping is at, and what touching it does.
LEMMA TouchStep ==
    ASSUME Access \/ Trapped, MemType, NEW w, FilledMem(w),
           Now.r = "a", Now.op \in {"read", "write"}, Now.lo \in Int, i \in Int, Now.lo + i \in 0 .. Size - 1
    PROVE  /\ Access /\ Page = Base + (Now.lo + i) /\ Page \in Arena
           /\ mem.vma[Page] = "rw"
<1>1. Page = Base + (Now.lo + i)
  <2>1. Mapped("a")
    BY ArenaIs DEF FilledMem, Mapped
  <2>2. Page = mem.addr["a"] + Now.lo + i
    BY <2>1, Zenon DEF Page
  <2> QED
    BY <2>2, ArenaIs DEF FilledMem
<1>2. Page \in Arena /\ Page >= Base
  BY <1>1, ArenaIs, SizeType
<1>3. mem.vma[Page] = "rw"
  BY <1>2 DEF FilledMem
<1>4. Allowed(Page)
  BY <1>2, <1>3 DEF Allowed
<1>5. ~Beyond(Page)
  BY <1>3 DEF Beyond
<1>6. ~At("trap")
  BY DEF At
<1>7. ~Trapped
  BY <1>4, <1>5, <1>6, Zenon DEF Trapped
<1> QED
  BY <1>1, <1>2, <1>3, <1>7

LEMMA AccessFields ==
    ASSUME Access, Shape(mem)
    PROVE  /\ Shape(mem') /\ mem'.addr = mem.addr /\ mem'.vma = mem.vma
           /\ mem'.pte = [mem.pte EXCEPT ![Page] = Touched(Page)]
           /\ mem'.val = [mem.val EXCEPT ![Page] = IF At("write") THEN Now.val ELSE mem.val[Page]]
           /\ mem'.flt = IF Faults(Page) THEN mem.flt + 1 ELSE mem.flt
           /\ sum' = IF At("read") THEN sum + mem.val[Page] ELSE sum
           /\ prog' = prog /\ mark' = mark /\ told' = told /\ file' = file /\ failed' = failed /\ status' = status
           /\ IF i + Stride < Now.n THEN i' = i + Stride /\ pc' = pc ELSE pc' = pc + 1 /\ i' = 0
<1>1. /\ mem' = [mem EXCEPT !.pte[Page] = Touched(Page),
                            !.val[Page] = IF At("write") THEN Now.val ELSE @,
                            !.flt = IF Faults(Page) THEN @ + 1 ELSE @]
      /\ sum' = IF At("read") THEN sum + mem.val[Page] ELSE sum
      /\ prog' = prog /\ mark' = mark /\ told' = told /\ file' = file /\ failed' = failed /\ status' = status
      /\ IF i + Stride < Now.n THEN i' = i + Stride /\ pc' = pc ELSE pc' = pc + 1 /\ i' = 0
  BY Zenon DEF Access, Advance, fixed
<1> DEFINE v == Touched(Page)
           x == Now.val
           q == Page
           c == At("write")
           k == Faults(Page)
<1>2. mem' = [mem EXCEPT !.pte[q] = v, !.val[q] = IF c THEN x ELSE @, !.flt = IF k THEN @ + 1 ELSE @]
  BY <1>1, Zenon
<1> HIDE DEF v, x, q, c, k
<1>3. /\ Shape(mem') /\ mem'.addr = mem.addr /\ mem'.vma = mem.vma
      /\ mem'.pte = [mem.pte EXCEPT ![q] = v]
      /\ mem'.val = [mem.val EXCEPT ![q] = IF c THEN x ELSE mem.val[q]]
      /\ mem'.flt = IF k THEN mem.flt + 1 ELSE mem.flt
  BY <1>2, Zenon DEF Shape
<1> USE DEF v, x, q, c, k
<1>4. /\ mem'.pte = [mem.pte EXCEPT ![Page] = Touched(Page)]
      /\ mem'.val = [mem.val EXCEPT ![Page] = IF At("write") THEN Now.val ELSE mem.val[Page]]
      /\ mem'.flt = IF Faults(Page) THEN mem.flt + 1 ELSE mem.flt
  BY <1>3, Zenon
<1> QED
  BY <1>1, <1>3, <1>4, Zenon

\* A read maps the zero page at most: what is filled stays as it is.
LEMMA ReadStep ==
    ASSUME Access \/ Trapped, MemType, NEW w \in 0 .. Size, FilledMem(w), status = "run",
           Now.r = "a", Now.op = "read", Now.lo = 0, i \in 0 .. Size - 1
    PROVE  /\ Access /\ MemType' /\ FilledMem(w)' /\ sum' = sum + mem.val[Base + i] /\ Base + i \in Arena
           /\ i < w => mem'.flt = mem.flt
<1>0. Now.lo \in Int /\ i \in Int /\ Now.lo + i \in 0 .. Size - 1 /\ Now.op \in {"read", "write"} /\ Now.lo + i = i
  BY SizeType
<1>1. Access /\ Page = Base + i /\ Page \in Arena /\ mem.vma[Page] = "rw"
  BY <1>0, TouchStep
<1>2. At("read") /\ ~At("write")
  BY DEF At
<1>3. Shape(mem)
  BY DEF MemType
<1>4. /\ Shape(mem') /\ mem'.addr = mem.addr /\ mem'.vma = mem.vma
      /\ mem'.pte = [mem.pte EXCEPT ![Page] = Touched(Page)]
      /\ mem'.val = [mem.val EXCEPT ![Page] = IF At("write") THEN Now.val ELSE mem.val[Page]]
      /\ mem'.flt = IF Faults(Page) THEN mem.flt + 1 ELSE mem.flt
      /\ sum' = IF At("read") THEN sum + mem.val[Page] ELSE sum
  BY <1>1, <1>3, AccessFields, Zenon
<1>5. Touched(Page) = IF mem.pte[Page] = "no" THEN "zero" ELSE mem.pte[Page]
  <2>1. mem.vma[Page] # "file"
    BY <1>1
  <2> QED
    BY <1>2, <2>1, Zenon DEF Touched
<1>6. Faults(Page) <=> mem.pte[Page] = "no"
  BY <1>2 DEF Faults
<1>7. PICK q : q = Page
  OBVIOUS
<1>8. /\ q = Base + i /\ q \in Arena
      /\ mem'.pte = [mem.pte EXCEPT ![q] = IF mem.pte[q] = "no" THEN "zero" ELSE mem.pte[q]]
      /\ mem'.val = mem.val
      /\ mem'.flt = IF mem.pte[q] = "no" THEN mem.flt + 1 ELSE mem.flt
      /\ sum' = sum + mem.val[q]
  <2>1. mem'.pte = [mem.pte EXCEPT ![q] = IF mem.pte[q] = "no" THEN "zero" ELSE mem.pte[q]]
    BY <1>4, <1>5, <1>7, Zenon
  <2>2. mem'.flt = IF mem.pte[q] = "no" THEN mem.flt + 1 ELSE mem.flt
    BY <1>4, <1>6, <1>7, Zenon
  <2>3. mem'.val = [mem.val EXCEPT ![q] = mem.val[q]] /\ sum' = sum + mem.val[q]
    BY <1>2, <1>4, <1>7, Zenon
  <2>4. mem.val \in [Arena -> Int]
    BY DEF MemType
  <2>5. mem'.val = mem.val
    BY <2>3, <2>4, Zenon
  <2> QED
    BY <1>1, <1>7, <2>1, <2>2, <2>3, <2>5
<1>9. MemType'
  <2>1. mem'.pte \in [Arena -> {"no", "zero", "own"}] /\ mem'.flt \in Nat
    BY <1>8 DEF MemType
  <2>2. Shape(mem)' /\ (mem.addr \in [Regions -> Int])' /\ (mem.vma \in [Arena -> {"no", "rw"}])' /\ (mem.val \in [Arena -> Int])'
    BY <1>4, <1>8 DEF MemType, Shape
  <2> QED
    BY <2>1, <2>2 DEF MemType
<1>10. FilledMem(w)'
  <2> SUFFICES ASSUME NEW p \in Arena
               PROVE  /\ mem'.vma[p] = IF p >= Base THEN "rw" ELSE "no"
                      /\ p >= Base /\ p < Base + w =>
                             mem'.pte[p] = "own" /\ mem'.val[p] = (p - Base) \div ChunkPages + 1
                      /\ p >= Base + w => mem'.pte[p] \in {"no", "zero"} /\ mem'.val[p] = 0
                      /\ p < Base => mem'.pte[p] = "no"
    <3>1. mem'.addr["a"] = Base /\ w <= mem'.flt
      BY <1>4, <1>8, SizeType DEF FilledMem, MemType
    <3> QED
      BY <3>1 DEF FilledMem
  <2>1. mem'.vma[p] = mem.vma[p] /\ mem'.val[p] = mem.val[p]
    BY <1>4, <1>8, Zenon
  <2>2. mem'.pte[p] = IF p = q /\ mem.pte[p] = "no" THEN "zero" ELSE mem.pte[p]
    BY <1>8 DEF MemType
  <2> HIDE DEF MemType
  <2> QED
    BY <1>8, <2>1, <2>2, ArenaIs, SizeType, SMT DEF FilledMem
<1>11. i < w => mem'.flt = mem.flt
  BY <1>8, ArenaIs, SizeType, SMT DEF FilledMem
<1> QED
  BY <1>1, <1>8, <1>9, <1>10, <1>11

\* The first write to a page costs one fault and makes it the process's own.
LEMMA WriteStep ==
    ASSUME Access \/ Trapped, MemType, NEW w \in 0 .. Size - 1, FilledMem(w), status = "run",
           Now.r = "a", Now.op = "write", Now.lo \in Int, i \in Int, Now.lo + i = w,
           Now.val = w \div ChunkPages + 1
    PROVE  Access /\ MemType' /\ FilledMem(w + 1)' /\ mem'.flt = mem.flt + 1 /\ sum' = sum
<1>0. Now.lo + i \in 0 .. Size - 1 /\ Now.op \in {"read", "write"}
  OBVIOUS
<1>1. Access /\ Page = Base + (Now.lo + i) /\ Page \in Arena /\ mem.vma[Page] = "rw"
  BY <1>0, TouchStep
<1>2. At("write") /\ ~At("read")
  BY DEF At
<1>3. Shape(mem)
  BY DEF MemType
<1>4. /\ Shape(mem') /\ mem'.addr = mem.addr /\ mem'.vma = mem.vma
      /\ mem'.pte = [mem.pte EXCEPT ![Page] = Touched(Page)]
      /\ mem'.val = [mem.val EXCEPT ![Page] = IF At("write") THEN Now.val ELSE mem.val[Page]]
      /\ mem'.flt = IF Faults(Page) THEN mem.flt + 1 ELSE mem.flt
      /\ sum' = IF At("read") THEN sum + mem.val[Page] ELSE sum
  BY <1>1, <1>3, AccessFields, Zenon
<1>5. Touched(Page) = "own"
  <2>1. mem.vma[Page] # "file"
    BY <1>1
  <2> QED
    BY <1>2, <2>1, Zenon DEF Touched
<1>6. Page = Base + w
  BY <1>1
<1>7. Faults(Page)
  <2>1. mem.pte[Page] \in {"no", "zero"}
    BY <1>1, <1>6, ArenaIs, SizeType DEF FilledMem
  <2> QED
    BY <1>2, <2>1 DEF Faults
<1>8. PICK q : q = Page
  OBVIOUS
<1>9. /\ q = Base + w /\ q \in Arena /\ mem'.pte = [mem.pte EXCEPT ![q] = "own"]
      /\ mem'.val = [mem.val EXCEPT ![q] = w \div ChunkPages + 1]
      /\ mem'.flt = mem.flt + 1 /\ sum' = sum
  BY <1>1, <1>2, <1>4, <1>5, <1>6, <1>7, <1>8, Zenon
<1>10. w \div ChunkPages \in Int
  BY SizeType
<1>11. MemType'
  <2>1. mem'.pte \in [Arena -> {"no", "zero", "own"}] /\ mem'.flt \in Nat /\ mem'.val \in [Arena -> Int]
    BY <1>9, <1>10 DEF MemType
  <2>2. Shape(mem)' /\ (mem.addr \in [Regions -> Int])' /\ (mem.vma \in [Arena -> {"no", "rw"}])'
    BY <1>4 DEF MemType, Shape
  <2> QED
    BY <2>1, <2>2 DEF MemType
<1>12. FilledMem(w + 1)'
  <2> SUFFICES ASSUME NEW p \in Arena
               PROVE  /\ mem'.vma[p] = IF p >= Base THEN "rw" ELSE "no"
                      /\ p >= Base /\ p < Base + (w + 1) =>
                             mem'.pte[p] = "own" /\ mem'.val[p] = (p - Base) \div ChunkPages + 1
                      /\ p >= Base + (w + 1) => mem'.pte[p] \in {"no", "zero"} /\ mem'.val[p] = 0
                      /\ p < Base => mem'.pte[p] = "no"
    <3>1. mem'.addr["a"] = Base /\ w + 1 <= mem'.flt
      BY <1>4, <1>9, SizeType DEF FilledMem, MemType
    <3> QED
      BY <3>1 DEF FilledMem
  <2>1. mem'.vma[p] = mem.vma[p]
    BY <1>4, Zenon
  <2>2. /\ mem'.pte[p] = IF p = q THEN "own" ELSE mem.pte[p]
        /\ mem'.val[p] = IF p = q THEN w \div ChunkPages + 1 ELSE mem.val[p]
    BY <1>9 DEF MemType
  <2>3. p \in Int /\ Base \in Nat \ {0} /\ (p = q => p - Base = w)
    BY <1>9, ArenaIs, SizeType
  <2> HIDE DEF MemType
  <2>4. CASE p = q
    BY <1>9, <2>1, <2>2, <2>3, <2>4, SMT DEF FilledMem
  <2>5. CASE p # q
    BY <1>9, <2>1, <2>2, <2>3, <2>5, SMT DEF FilledMem
  <2> QED
    BY <2>4, <2>5
<1> QED
  BY <1>1, <1>9, <1>11, <1>12

\* mmap takes the top of the empty arena.
LEMMA MmapStep ==
    ASSUME MmapOk, MemType, EmptyMem, mem.flt = 0, Now.r = "a", Now.n = Size, Now.arg = "anon"
    PROVE  /\ MemType' /\ FilledMem(0)' /\ mem'.flt = 0
           /\ pc' = pc + 1 /\ i' = 0 /\ prog' = prog /\ mark' = mark /\ sum' = sum /\ told' = told
           /\ file' = file /\ failed' = failed /\ status' = status
<1> DEFINE G == {b \in Arena : b + Size - 1 \in Arena /\ \A p \in b .. b + Size - 1 : mem.vma[p] = "no"}
           new == Base .. Base + Size - 1
<1>1. Gaps(Size) = G
  BY Zenon DEF Gaps
<1>2. Max(G) = Base
  <2>1. Base \in G /\ G \in SUBSET Int /\ \A b \in G : Base >= b
    BY ArenaIs, SizeType DEF EmptyMem
  <2> HIDE DEF G
  <2> QED
    BY <2>1, MaxIs
<1>3. Max(Gaps(Now.n)) = Base
  BY <1>1, <1>2, Zenon
<1>4. /\ mem' = [mem EXCEPT !.addr["a"] = Base,
                            !.vma = [p \in Arena |-> IF p \notin new THEN @[p]
                                                     ELSE IF Now.arg = "file" THEN "file" ELSE "rw"],
                            !.val = [p \in Arena |-> IF p \in new THEN 0 ELSE @[p]]]
      /\ pc' = pc + 1 /\ i' = 0 /\ prog' = prog /\ mark' = mark /\ sum' = sum /\ told' = told
      /\ file' = file /\ failed' = failed /\ status' = status
  BY <1>3, Zenon DEF MmapOk, Advance, fixed, printed
<1>5. Shape(mem) /\ mem.addr \in [Regions -> Int] /\ mem.val \in [Arena -> Int] /\ mem.flt \in Nat
      /\ mem.pte \in [Arena -> {"no", "zero", "own"}]
  BY DEF MemType
<1> HIDE DEF new
<1>6. /\ Shape(mem') /\ mem'.addr = [mem.addr EXCEPT !["a"] = Base] /\ mem'.pte = mem.pte /\ mem'.flt = mem.flt
      /\ mem'.vma = [p \in Arena |-> IF p \notin new THEN mem.vma[p] ELSE IF Now.arg = "file" THEN "file" ELSE "rw"]
      /\ mem'.val = [p \in Arena |-> IF p \in new THEN 0 ELSE mem.val[p]]
  BY <1>4, <1>5, Zenon DEF Shape
<1>7. \A p \in Arena : p \in new <=> p >= Base
  BY ArenaIs, SizeType DEF new
<1>8. \A p \in Arena : mem'.vma[p] = IF p >= Base THEN "rw" ELSE "no"
  BY <1>6, <1>7 DEF EmptyMem
<1>9. mem'.addr["a"] = Base /\ mem'.addr \in [Regions -> Int]
  BY <1>5, <1>6, ArenaIs DEF Regions
<1>10. MemType'
  <2>1. mem'.vma \in [Arena -> {"no", "rw"}] /\ mem'.val \in [Arena -> Int]
    BY <1>5, <1>6, <1>8
  <2> QED
    BY <1>5, <1>6, <1>9, <2>1, Zenon DEF MemType
<1>11. FilledMem(0)'
  <2>1. \A p \in Arena : /\ p >= Base => mem'.val[p] = 0
                         /\ mem'.pte[p] = "no"
    BY <1>6, <1>7 DEF EmptyMem
  <2>2. \A p \in Arena : p \in Int
    BY ArenaIs, SizeType
  <2> QED
    BY <1>5, <1>6, <1>8, <1>9, <2>1, <2>2, ArenaIs DEF FilledMem
<1> QED
  BY <1>4, <1>6, <1>10, <1>11

\* munmap gives the whole mapping back.
LEMMA MunmapStep ==
    ASSUME MunmapOk, MemType, FilledMem(Size), prog = "demand_paging", pc = End + 4, Now.r = "a"
    PROVE  /\ MemType' /\ EmptyMem' /\ mem'.flt = mem.flt
           /\ pc' = pc + 1 /\ i' = 0 /\ prog' = prog /\ mark' = mark /\ sum' = sum /\ told' = told
           /\ file' = file /\ failed' = failed /\ status' = status
<1> DEFINE gone == Base + 0 .. Base + 0 + Size - 1
<1>1. Mapped("a") /\ mem.addr["a"] = Base
  BY ArenaIs DEF FilledMem, Mapped
<1>2. Unmapped("a") = gone
  BY <1>1, SizeOfMapping, Zenon DEF Unmapped, Span
<1>3. /\ mem' = [mem EXCEPT !.addr["a"] = 0,
                            !.vma = [p \in Arena |-> IF p \in gone THEN "no" ELSE @[p]],
                            !.pte = [p \in Arena |-> IF p \in gone THEN "no" ELSE @[p]]]
      /\ pc' = pc + 1 /\ i' = 0 /\ prog' = prog /\ mark' = mark /\ sum' = sum /\ told' = told
      /\ file' = file /\ failed' = failed /\ status' = status
  BY <1>1, <1>2, Zenon DEF MunmapOk, Advance, fixed, printed
<1>4. /\ Shape(mem) /\ mem.addr \in [Regions -> Int] /\ mem.val \in [Arena -> Int] /\ mem.flt \in Nat
      /\ mem.vma \in [Arena -> {"no", "rw"}] /\ mem.pte \in [Arena -> {"no", "zero", "own"}]
  BY DEF MemType
<1> HIDE DEF gone
<1>5. /\ Shape(mem') /\ mem'.addr = [mem.addr EXCEPT !["a"] = 0] /\ mem'.val = mem.val /\ mem'.flt = mem.flt
      /\ mem'.vma = [p \in Arena |-> IF p \in gone THEN "no" ELSE mem.vma[p]]
      /\ mem'.pte = [p \in Arena |-> IF p \in gone THEN "no" ELSE mem.pte[p]]
  BY <1>3, <1>4, Zenon DEF Shape
<1>6. \A p \in Arena : p \in gone <=> p >= Base
  BY ArenaIs, SizeType DEF gone
<1>7. mem'.addr["a"] = 0 /\ mem'.addr \in [Regions -> Int]
  BY <1>4, <1>5 DEF Regions
<1>8. \A p \in Arena : mem'.vma[p] = "no" /\ mem'.pte[p] = "no"
  <2>1. \A p \in Arena : p \in Int /\ (p < Base \/ p >= Base)
    BY ArenaIs, SizeType
  <2> QED
    BY <1>5, <1>6, <2>1 DEF FilledMem
<1>9. mem'.vma \in [Arena -> {"no", "rw"}] /\ mem'.pte \in [Arena -> {"no", "zero", "own"}]
  BY <1>5, <1>8
<1>10. MemType'
  BY <1>4, <1>5, <1>7, <1>9, Zenon DEF MemType
<1>11. EmptyMem'
  BY <1>7, <1>8 DEF EmptyMem
<1> QED
  BY <1>3, <1>5, <1>10, <1>11

\* A call that fails is followed by the return; mmap has stored MAP_FAILED.
LEMMA FailStep ==
    ASSUME Fails, prog = "demand_paging", pc \in 1 .. End + 5, Now.err = "ret", Now.r = "a",
           Now.op \in {"mmap", "munmap"}, MemType
    PROVE  /\ pc' = End + 6 /\ failed' = failed \cup {pc} /\ MemType'
           /\ prog' = prog /\ mark' = mark /\ sum' = sum /\ told' = told /\ file' = file /\ status' = status
           /\ Now.op = "mmap" /\ EmptyMem => EmptyMem' /\ mem'.flt = mem.flt
           /\ Now.op = "munmap" => mem' = mem
<1>1. /\ mem' = IF Now.op = "mmap" THEN [mem EXCEPT !.addr["a"] = -1] ELSE mem
      /\ pc' = IF Now.err = "go" THEN pc + 1 ELSE NextOf("ret", pc)
      /\ failed' = failed \cup {pc}
      /\ prog' = prog /\ mark' = mark /\ sum' = sum /\ told' = told /\ file' = file /\ status' = status
  BY Zenon DEF Fails, fixed, printed, Failed
<1>2. "ret" # "go" /\ "munmap" # "mmap"
  BY SMT
<1>3. pc' = End + 6
  BY <1>1, <1>2, NextReturn, Zenon
<1>4. CASE Now.op = "mmap"
  <2>1. mem' = [mem EXCEPT !.addr["a"] = -1]
    BY <1>1, <1>4, Zenon
  <2>2. Shape(mem) /\ mem.addr \in [Regions -> Int] /\ "a" \in Regions /\ -1 \in Int
    BY DEF MemType, Regions
  <2>3. /\ Shape(mem') /\ mem'.vma = mem.vma /\ mem'.pte = mem.pte /\ mem'.val = mem.val /\ mem'.flt = mem.flt
        /\ mem'.addr = [mem.addr EXCEPT !["a"] = -1]
    BY <2>1, <2>2, Zenon DEF Shape
  <2>4. mem'.addr \in [Regions -> Int] /\ mem'.addr["a"] <= 0
    BY <2>2, <2>3
  <2>5. MemType'
    BY <2>3, <2>4, Zenon DEF MemType
  <2>6. EmptyMem => EmptyMem'
    BY <2>3, <2>4, Zenon DEF EmptyMem
  <2> QED
    BY <1>1, <1>2, <1>3, <1>4, <2>3, <2>5, <2>6
<1>5. CASE Now.op = "munmap"
  <2>1. mem' = mem
    BY <1>1, <1>2, <1>5, Zenon
  <2>2. MemType'
    BY <2>1, Zenon DEF MemType, Shape
  <2> QED
    BY <1>1, <1>2, <1>3, <1>5, <2>1, <2>2
<1> QED
  BY <1>4, <1>5

LEMMA ReturnStep ==
    ASSUME Return, prog = "demand_paging", pc = End + 6
    PROVE  /\ status' = "done" /\ pc' = pc
           /\ prog' = prog /\ mem' = mem /\ mark' = mark /\ sum' = sum /\ told' = told /\ file' = file /\ failed' = failed
<1>1. pc = Len(Steps)
  BY ProgramIs, DemandPagingSteps
<1> QED
  BY <1>1, Zenon DEF Return, fixed, printed

-----------------------------------------------------------------------------
(* Arithmetic of chunks.                                                   *)

LEMMA ProductOrder ==
    ASSUME NEW a \in Nat, NEW b \in Nat, NEW n \in Nat, a <= b
    PROVE  a * n \in Nat /\ b * n \in Nat /\ a * n <= b * n
<1>1. b - a \in Nat /\ b = a + (b - a)
  OBVIOUS
<1>2. PICK d \in Nat : b = a + d
  BY <1>1
<1>3. b * n = a * n + d * n /\ d * n \in Nat /\ a * n \in Nat
  BY <1>2
<1> QED
  BY <1>3

\* Page c * n + r is the r-th page of chunk c.
LEMMA ChunkOf ==
    ASSUME NEW c \in Nat, NEW n \in Nat \ {0}, NEW r \in 0 .. n - 1
    PROVE  (c * n + r) \div n = c /\ (c * n + r) % n = r
<1> DEFINE k == c * n + r
           q == k \div n
           s == k % n
<1>1. c * n \in Nat /\ k \in Nat
  BY ProductOrder
<1>2. k = n * q + s /\ s \in 0 .. n - 1 /\ q \in Int
  BY <1>1
<1>3. q \in Nat /\ n * q = q * n
  BY <1>1, <1>2
<1>4. k = q * n + s /\ k = c * n + r
  BY <1>2, <1>3
<1> HIDE DEF k, q, s
<1>5. ~(q < c)
  <2> SUFFICES ASSUME q < c PROVE FALSE
    OBVIOUS
  <2>1. (q + 1) * n <= c * n /\ q * n \in Nat
    BY <1>3, ProductOrder
  <2>2. (q + 1) * n = q * n + n
    BY <1>3
  <2> QED
    BY <1>1, <1>2, <1>4, <2>1, <2>2
<1>6. ~(c < q)
  <2> SUFFICES ASSUME c < q PROVE FALSE
    OBVIOUS
  <2>1. (c + 1) * n <= q * n /\ q * n \in Nat
    BY <1>3, ProductOrder
  <2>2. (c + 1) * n = c * n + n
    OBVIOUS
  <2> QED
    BY <1>1, <1>2, <1>4, <2>1, <2>2
<1>7. q = c
  BY <1>3, <1>5, <1>6
<1>8. s = r
  BY <1>1, <1>2, <1>4, <1>7
<1> QED
  BY <1>7, <1>8 DEF k, q, s

\* The chunks make up the mapping.
LEMMA ChunkBounds ==
    ASSUME NEW c \in 0 .. Chunks - 1
    PROVE  /\ c * ChunkPages \in Nat /\ (c + 1) * ChunkPages = c * ChunkPages + ChunkPages
           /\ (c + 1) * ChunkPages <= Size
           /\ c + 1 = Chunks => (c + 1) * ChunkPages = Size
<1>1. c \in Nat /\ c + 1 \in Nat /\ c + 1 <= Chunks /\ Chunks \in Nat /\ ChunkPages \in Nat
  BY SizeType
<1>2. c * ChunkPages \in Nat /\ (c + 1) * ChunkPages <= Chunks * ChunkPages
  BY <1>1, ProductOrder
<1>3. (c + 1) * ChunkPages = c * ChunkPages + ChunkPages
  BY <1>1
<1> QED
  BY <1>2, <1>3, <1>1 DEF Size

\* One more page adds the number of its chunk.
LEMMA TwiceSumStep ==
    ASSUME NEW k \in 0 .. Size - 1
    PROVE  TwiceSum(k + 1) = TwiceSum(k) + 2 * (k \div ChunkPages + 1)
<1> DEFINE n == ChunkPages
           q == k \div n
           r == k % n
<1>1. n \in Nat \ {0} /\ k \in Nat
  BY SizeType
<1>2. k = n * q + r /\ r \in 0 .. n - 1 /\ q \in Int
  BY <1>1
<1>3. q \in Nat /\ k = q * n + r
  BY <1>1, <1>2
<1>4. TwiceSum(k) = n * (q * (q + 1)) + 2 * (r * (q + 1))
  BY Zenon DEF TwiceSum
<1> HIDE DEF n, q, r
<1>5. CASE r + 1 < n
  <2>1. k + 1 = q * n + (r + 1) /\ r + 1 \in 0 .. n - 1
    BY <1>1, <1>2, <1>3, <1>5
  <2>2. (k + 1) \div n = q /\ (k + 1) % n = r + 1
    <3>1. (q * n + (r + 1)) \div n = q /\ (q * n + (r + 1)) % n = r + 1
      BY <1>1, <1>3, <2>1, ChunkOf
    <3> QED
      BY <2>1, <3>1, Zenon
  <2>3. TwiceSum(k + 1) = n * (q * (q + 1)) + 2 * ((r + 1) * (q + 1))
    BY <2>2, Zenon DEF TwiceSum, n
  <2>4. (r + 1) * (q + 1) = r * (q + 1) + (q + 1)
    BY <1>2, <1>3
  <2>5. r * (q + 1) \in Int /\ n * (q * (q + 1)) \in Int
    BY <1>1, <1>2, <1>3
  <2>6. TwiceSum(k + 1) = TwiceSum(k) + 2 * (q + 1)
    BY <1>3, <1>4, <2>3, <2>4, <2>5
  <2> QED
    BY <2>6, Zenon DEF q, n
<1>6. CASE r + 1 = n
  <2>1. k + 1 = (q + 1) * n + 0 /\ 0 \in 0 .. n - 1 /\ q + 1 \in Nat
    BY <1>1, <1>2, <1>3, <1>6
  <2>2. (k + 1) \div n = q + 1 /\ (k + 1) % n = 0
    <3>1. ((q + 1) * n + 0) \div n = q + 1 /\ ((q + 1) * n + 0) % n = 0
      BY <1>1, <2>1, ChunkOf
    <3> QED
      BY <2>1, <3>1, Zenon
  <2>3. TwiceSum(k + 1) = n * ((q + 1) * ((q + 1) + 1)) + 2 * (0 * ((q + 1) + 1))
    BY <2>2, Zenon DEF TwiceSum, n
  <2>4. (q + 1) * ((q + 1) + 1) = q * (q + 1) + 2 * (q + 1)
    BY <1>3
  <2>5. PICK a \in Int, b \in Int : a = q * (q + 1) /\ b = q + 1
    BY <1>3
  <2>6. TwiceSum(k + 1) = n * (a + 2 * b)
    BY <1>1, <2>3, <2>4, <2>5
  <2>7. n * (a + 2 * b) = n * a + 2 * (n * b) /\ n * b = (r * b) + b
    BY <1>1, <1>2, <1>6, <2>5
  <2>8. TwiceSum(k) = n * a + 2 * (r * b)
    BY <1>4, <2>5
  <2>9. n * a \in Int /\ r * b \in Int /\ n * b \in Int
    BY <1>1, <1>2, <2>5
  <2>10. TwiceSum(k + 1) = TwiceSum(k) + 2 * b
    BY <2>5, <2>6, <2>7, <2>8, <2>9
  <2> QED
    BY <2>5, <2>10, Zenon DEF q, n
<1> QED
  BY <1>1, <1>2, <1>5, <1>6

LEMMA TwiceSumEnds == TwiceSum(0) = 0 /\ TwiceSum(Size) = 2 * Total /\ Total \in Int
<1> DEFINE n == ChunkPages
           m == Chunks
<1>1. n \in Nat \ {0} /\ m \in Nat \ {0}
  BY SizeType
<1> HIDE DEF n, m
<1>2. 0 = 0 * n + 0 /\ 0 \in 0 .. n - 1
  BY <1>1
<1>3. 0 \div n = 0 /\ 0 % n = 0
  BY <1>1, <1>2, ChunkOf
<1>4. TwiceSum(0) = n * (0 * (0 + 1)) + 2 * (0 * (0 + 1))
  BY <1>3, Zenon DEF TwiceSum, n
<1>5. Size = m * n + 0
  BY <1>1 DEF Size, m, n
<1>6. Size \div n = m /\ Size % n = 0
  BY <1>1, <1>2, <1>5, ChunkOf
<1>7. TwiceSum(Size) = n * (m * (m + 1)) + 2 * (0 * (m + 1))
  BY <1>6, Zenon DEF TwiceSum, n
<1> DEFINE h == (m * (m + 1)) \div 2
<1>8. m * (m + 1) = 2 * h /\ h \in Int
  <2>1. PICK a \in Nat : m = 2 * a \/ m = 2 * a + 1
    <3>1. m = 2 * (m \div 2) + (m % 2) /\ m % 2 \in {0, 1} /\ m \div 2 \in Nat
      BY <1>1
    <3> QED
      BY <3>1
  <2>2. CASE m = 2 * a
    <3>1. m * (m + 1) = 2 * (a * (m + 1)) /\ a * (m + 1) \in Int
      BY <1>1, <2>2
    <3>2. PICK x \in Int : x = a * (m + 1)
      BY <3>1
    <3>3. (2 * x) \div 2 = x
      BY <3>2
    <3> QED
      BY <3>1, <3>2, <3>3
  <2>3. CASE m = 2 * a + 1
    <3>1. m + 1 = 2 * (a + 1)
      BY <2>3
    <3>2. m * (m + 1) = 2 * (m * (a + 1)) /\ m * (a + 1) \in Int
      BY <1>1, <3>1
    <3>3. PICK x \in Int : x = m * (a + 1)
      BY <3>2
    <3>4. (2 * x) \div 2 = x
      BY <3>3
    <3> QED
      BY <3>2, <3>3, <3>4
  <2> QED
    BY <2>1, <2>2, <2>3
<1>9. Total = n * h
  BY Zenon DEF Total, n, h, m
<1> HIDE DEF h
<1>10. n * (2 * h) = 2 * (n * h) /\ n * h \in Int
  BY <1>1, <1>8
<1>11. TwiceSum(Size) = n * (2 * h)
  BY <1>1, <1>7, <1>8, <1>10
<1>12. TwiceSum(0) = 0
  BY <1>1, <1>4
<1> QED
  BY <1>9, <1>10, <1>11, <1>12

-----------------------------------------------------------------------------
(* The invariant is kept at every place of the program.                    *)

Common == prog = "demand_paging" /\ MemType /\ sum \in Int /\ file = {} /\ Told
Onward == Paging' /\ prog' = prog /\ mem.flt <= mem'.flt

LEMMA SameMem ==
    ASSUME mem' = mem
    PROVE  /\ MemType => MemType'
           /\ EmptyMem => EmptyMem'
           /\ \A w : FilledMem(w) => FilledMem(w)'
           /\ MemType => mem.flt <= mem'.flt
<1>1. MemType => MemType'
  BY Zenon DEF MemType, Shape
<1>2. EmptyMem => EmptyMem'
  BY Zenon DEF EmptyMem
<1>3. \A w : FilledMem(w) => FilledMem(w)'
  BY Zenon DEF FilledMem
<1>4. MemType => mem.flt <= mem'.flt
  BY DEF MemType
<1> QED
  BY <1>1, <1>2, <1>3, <1>4

LEMMA SameTold ==
    ASSUME told' = told, Told
    PROVE  Told'
  BY Zenon DEF Told

LEMMA FltType == ASSUME MemType PROVE mem.flt \in Nat
  BY Zenon DEF MemType

LEMMA AtStart ==
    ASSUME Common, Starting, Next
    PROVE  Onward
<1>0. MemType /\ sum \in Int /\ file = {} /\ Told /\ prog = "demand_paging" /\ EmptyMem /\ mem.flt = 0
  BY Zenon DEF Common, Starting
<1>1. CASE pc = 1
  <2>1. TakeMark
    BY <1>0, <1>1, Dispatch, ProgramIs, DemandPagingSteps
  <2>2. /\ mark'.faults = mem.flt /\ mark'.rss = Resident(mem) /\ sum' = 0 /\ pc' = pc + 1 /\ i' = 0
        /\ prog' = prog /\ mem' = mem /\ told' = told /\ file' = file /\ status' = status
    BY <2>1, MarkStep, Zenon
  <2>3. MemType' /\ EmptyMem' /\ Told' /\ mem.flt <= mem'.flt
    BY <1>0, <2>2, SameMem, SameTold, Zenon
  <2>4. Starting'
    BY <1>0, <1>1, <2>2, <2>3, ResidentEmpty DEF Starting
  <2> QED
    BY <1>0, <2>2, <2>3, <2>4 DEF Onward, Paging
<1>2. CASE pc = 2
  <2>1. /\ Now.op = "mmap" /\ Now.r = "a" /\ Now.n = Size /\ Now.arg = "anon" /\ Now.err = "ret"
    BY <1>0, <1>2, ProgramIs, DemandPagingSteps
  <2>2. MmapOk \/ Fails
    BY <2>1, Dispatch
  <2>3. CASE MmapOk
    <3>1. /\ MemType' /\ FilledMem(0)' /\ mem'.flt = 0
          /\ pc' = pc + 1 /\ i' = 0 /\ prog' = prog /\ mark' = mark /\ sum' = sum /\ told' = told
          /\ file' = file /\ failed' = failed /\ status' = status
      BY <1>0, <2>1, <2>3, MmapStep, Zenon
    <3>2. Told'
      BY <1>0, <3>1, SameTold, Zenon
    <3>3. Looking'
      BY <1>2, <3>1 DEF Looking, Starting
    <3> QED
      BY <1>0, <3>1, <3>2, <3>3 DEF Onward, Paging
  <2>4. CASE Fails
    <3>0. pc \in 1 .. End + 5 /\ Now.op \in {"mmap", "munmap"}
      BY <1>2, <2>1, SizeType DEF End
    <3>1. /\ pc' = End + 6 /\ MemType' /\ EmptyMem' /\ mem'.flt = mem.flt
          /\ prog' = prog /\ sum' = sum /\ told' = told /\ file' = file /\ status' = status
      BY <1>0, <2>1, <2>4, <3>0, FailStep, Zenon
    <3>2. Told'
      BY <1>0, <3>1, SameTold, Zenon
    <3>3. Ending'
      BY <3>1 DEF Ending, Starting
    <3> QED
      BY <1>0, <3>1, <3>2, <3>3 DEF Onward, Paging
  <2> QED
    BY <2>2, <2>3, <2>4
<1> QED
  BY <1>1, <1>2 DEF Starting

\* A report at a place of the program that is true.
LEMMA Reporting ==
    ASSUME Common, Report, pc \in Int, NEW got \in Int, Measured(Now.arg) = got, Now.val = got
    PROVE  /\ MemType' /\ sum' \in Int /\ file' = {} /\ Told' /\ prog' = prog /\ mem.flt <= mem'.flt
           /\ mem' = mem /\ mark' = mark /\ sum' = sum /\ failed' = failed /\ status' = status
           /\ pc' = pc + 1 /\ i' = 0
           /\ EmptyMem => EmptyMem'
           /\ \A w : FilledMem(w) => FilledMem(w)'
<1>1. /\ pc' = pc + 1 /\ i' = 0 /\ prog' = prog /\ mem' = mem /\ mark' = mark /\ sum' = sum
      /\ file' = file /\ failed' = failed /\ status' = status
  BY ReportStep
<1>2. Told'
  BY TrueReport DEF Common
<1>3. MemType' /\ mem.flt <= mem'.flt /\ (EmptyMem => EmptyMem') /\ \A w : FilledMem(w) => FilledMem(w)'
  BY <1>1, SameMem, Zenon DEF Common
<1> QED
  BY <1>1, <1>2, <1>3 DEF Common

LEMMA WhileLooking ==
    ASSUME Common, Looking, Next
    PROVE  Onward
<1>0. /\ MemType /\ sum \in Int /\ file = {} /\ Told /\ prog = "demand_paging" /\ FilledMem(0) /\ mem.flt \in Nat
      /\ mark.rss = 0 /\ status = "run" /\ pc \in 3 .. 7
  BY FltType DEF Common, Looking
<1>1. Resident(mem) = 0
  BY <1>0, ResidentFilled, SizeType
<1>2. pc # 5 => /\ Report /\ Measured(Now.arg) = 0 /\ Now.val = 0
  <2>1. CASE pc = 3
    BY <1>0, <1>1, <2>1, ProgramIs, DemandPagingSteps, Dispatch, MeasuredIs
  <2>2. CASE pc = 4
    <3>1. mem.flt = 0 /\ mark.faults = 0
      BY <2>2 DEF Looking
    <3> QED
      BY <1>0, <2>2, <3>1, ProgramIs, DemandPagingSteps, Dispatch, MeasuredIs
  <2>3. CASE pc = 6
    <3>1. sum = 0
      BY <2>3 DEF Looking
    <3> QED
      BY <1>0, <2>3, <3>1, ProgramIs, DemandPagingSteps, Dispatch, MeasuredIs
  <2>4. CASE pc = 7
    BY <1>0, <1>1, <2>4, ProgramIs, DemandPagingSteps, Dispatch, MeasuredIs
  <2> QED
    BY <1>0, <2>1, <2>2, <2>3, <2>4
<1>3. CASE pc # 5
  <2>1. /\ MemType' /\ sum' \in Int /\ file' = {} /\ Told' /\ prog' = prog /\ mem.flt <= mem'.flt
        /\ mem' = mem /\ mark' = mark /\ sum' = sum /\ status' = status /\ pc' = pc + 1 /\ i' = 0
        /\ FilledMem(0)'
    <3>1. Report /\ Measured(Now.arg) = 0 /\ Now.val = 0 /\ 0 \in Int /\ pc \in Int
      BY <1>0, <1>2, <1>3
    <3> QED
      BY <1>0, <3>1, Reporting, Zenon
  <2>2. CASE pc = 7
    <3>1. 0 \in 0 .. Chunks - 1 /\ 0 * ChunkPages = 0 /\ pc' = 8 + 3 * 0
      BY <2>1, <2>2, SizeType
    <3>2. FilledMem(0 * ChunkPages)'
      BY <2>1, <3>1
    <3>3. InChunk(0)'
      BY <1>0, <2>1, <3>1, <3>2 DEF InChunk
    <3> QED
      BY <2>1, <3>1, <3>3 DEF Onward, Paging
  <2>3. CASE pc # 7
    <3>1. Looking'
      <4>1. pc' \in 4 .. 7 /\ (pc' = 4 => pc = 3) /\ pc' # 3
        BY <1>0, <1>3, <2>1, <2>3
      <4>2. sum = 0
        BY <2>3 DEF Looking
      <4> QED
        BY <1>0, <2>1, <4>1, <4>2, SizeType DEF Looking
    <3> QED
      BY <2>1, <3>1 DEF Onward, Paging
  <2> QED
    BY <2>2, <2>3
<1>4. CASE pc = 5
  <2>1. /\ Now.op = "read" /\ Now.r = "a" /\ Now.lo = 0 /\ Now.n = Size /\ Now.val = ChunkPages - 1
        /\ i \in 0 .. Size - 1 /\ sum = 0 /\ 0 \in 0 .. Size
    BY <1>0, <1>4, ProgramIs, DemandPagingSteps, SizeType DEF Looking
  <2>2. Access \/ Trapped
    BY <2>1, Dispatch
  <2>3. /\ Access /\ MemType' /\ FilledMem(0)' /\ sum' = sum + mem.val[Base + i] /\ Base + i \in Arena
    BY <1>0, <2>1, <2>2, ReadStep, Zenon
  <2>4. mem.val[Base + i] = 0
    <3>1. Base + i >= Base + 0
      BY <2>1, ArenaIs
    <3> QED
      BY <1>0, <2>3, <3>1 DEF FilledMem
  <2>5. Stride = ChunkPages
    <3>1. At("read")
      BY <1>0, <2>1 DEF At
    <3> QED
      BY <2>1, <3>1, SizeType DEF Stride
  <2>6. /\ prog' = prog /\ mark' = mark /\ told' = told /\ file' = file /\ status' = status
        /\ IF i + ChunkPages < Size THEN i' = i + ChunkPages /\ pc' = pc ELSE pc' = pc + 1 /\ i' = 0
        /\ mem'.flt = IF Faults(Page) THEN mem.flt + 1 ELSE mem.flt
    <3>1. Shape(mem)
      BY <1>0 DEF MemType
    <3> QED
      BY <2>1, <2>3, <2>5, <3>1, AccessFields, Zenon
  <2>7. Told' /\ sum' = 0 /\ mem.flt <= mem'.flt
    BY <1>0, <2>1, <2>3, <2>4, <2>6, SameTold
  <2>8. Looking'
    BY <1>0, <1>4, <2>1, <2>3, <2>6, <2>7, SizeType DEF Looking
  <2> QED
    BY <1>0, <2>3, <2>6, <2>7, <2>8 DEF Onward, Paging
<1> QED
  BY <1>3, <1>4

LEMMA WithinChunk ==
    ASSUME Common, NEW c \in 0 .. Chunks - 1, InChunk(c), Next
    PROVE  Onward
<1>0. /\ MemType /\ sum \in Int /\ file = {} /\ Told /\ prog = "demand_paging" /\ mem.flt \in Nat
      /\ status = "run" /\ c \in Nat
  BY FltType DEF Common, InChunk
<1>1. /\ c * ChunkPages \in Nat /\ (c + 1) * ChunkPages = c * ChunkPages + ChunkPages
      /\ (c + 1) * ChunkPages <= Size /\ (c + 1 = Chunks => (c + 1) * ChunkPages = Size)
  BY ChunkBounds
<1>2. CASE pc = 8 + 3 * c /\ i = 0 /\ FilledMem(c * ChunkPages)
  <2>1. TakeMark
    BY <1>0, <1>2, Dispatch, ProgramIs, DemandPagingSteps
  <2>2. /\ mark'.faults = mem.flt /\ sum' = 0 /\ pc' = pc + 1 /\ i' = 0
        /\ prog' = prog /\ mem' = mem /\ told' = told /\ file' = file /\ status' = status
    BY <2>1, MarkStep, Zenon
  <2>3. MemType' /\ FilledMem(c * ChunkPages)' /\ Told' /\ mem.flt <= mem'.flt
    BY <1>0, <1>2, <2>2, SameMem, SameTold, Zenon
  <2>4. pc' = 9 + 3 * c /\ i' \in 0 .. ChunkPages - 1 /\ mark'.faults \in Nat /\ mem'.flt = mark'.faults + i'
        /\ c * ChunkPages + i' = c * ChunkPages
    BY <1>0, <1>1, <1>2, <2>2, SizeType
  <2>5. FilledMem(c * ChunkPages + i)'
    BY <2>3, <2>4, Zenon DEF FilledMem
  <2>6. InChunk(c)'
    BY <1>0, <2>2, <2>4, <2>5, Zenon DEF InChunk
  <2> QED
    BY <1>0, <2>2, <2>3, <2>6 DEF Onward, Paging
<1>3. CASE /\ pc = 9 + 3 * c /\ i \in 0 .. ChunkPages - 1
           /\ FilledMem(c * ChunkPages + i) /\ mark.faults \in Nat /\ mem.flt = mark.faults + i
  <2>0. PICK w \in Nat : w = c * ChunkPages + i
    BY <1>0, <1>1, <1>3, SizeType
  <2>1. /\ Now.op = "write" /\ Now.r = "a" /\ Now.lo = c * ChunkPages /\ Now.n = ChunkPages /\ Now.val = c + 1
    BY <1>0, <1>3, ProgramIs, DemandPagingSteps
  <2>2. Access \/ Trapped
    BY <2>1, Dispatch
  <2>3. w \in 0 .. Size - 1 /\ Now.lo \in Int /\ i \in Int /\ Now.lo + i = w
    BY <1>0, <1>1, <1>3, <2>0, <2>1, SizeType
  <2>4. w \div ChunkPages = c
    BY <1>0, <1>3, <2>0, ChunkOf, SizeType
  <2>5. Now.val = w \div ChunkPages + 1 /\ FilledMem(w)
    BY <1>3, <2>0, <2>1, <2>4
  <2>6. Access /\ MemType' /\ FilledMem(w + 1)' /\ mem'.flt = mem.flt + 1 /\ sum' = sum
    BY <1>0, <2>1, <2>2, <2>3, <2>5, WriteStep, Zenon
  <2>7. Stride = 1
    <3>1. ~At("read")
      BY <2>1 DEF At
    <3> QED
      BY <3>1, Zenon DEF Stride
  <2>8. /\ prog' = prog /\ mark' = mark /\ told' = told /\ file' = file /\ status' = status
        /\ IF i + 1 < ChunkPages THEN i' = i + 1 /\ pc' = pc ELSE pc' = pc + 1 /\ i' = 0
    <3>1. Shape(mem)
      BY <1>0 DEF MemType
    <3> QED
      BY <2>1, <2>6, <2>7, <3>1, AccessFields, Zenon
  <2>9. Told' /\ mem.flt <= mem'.flt
    BY <1>0, <2>6, <2>8, SameTold
  <2>10. CASE i + 1 < ChunkPages
    <3>1. /\ i' = i + 1 /\ pc' = 9 + 3 * c /\ i' \in 0 .. ChunkPages - 1 /\ w + 1 = c * ChunkPages + i'
          /\ mark'.faults \in Nat /\ mem'.flt = mark'.faults + i'
      BY <1>0, <1>1, <1>3, <2>6, <2>0, <2>8, <2>10, SizeType
    <3>2. FilledMem(c * ChunkPages + i)'
      BY <2>6, <3>1, Zenon DEF FilledMem
    <3>3. InChunk(c)'
      BY <1>0, <2>8, <3>1, <3>2, Zenon DEF InChunk
    <3> QED
      BY <1>0, <2>6, <2>8, <2>9, <3>3 DEF Onward, Paging
  <2>11. CASE ~(i + 1 < ChunkPages)
    <3>1. /\ i' = 0 /\ pc' = 10 + 3 * c /\ w + 1 = (c + 1) * ChunkPages
          /\ mark'.faults \in Nat /\ mem'.flt = mark'.faults + ChunkPages
      BY <1>0, <1>1, <1>3, <2>6, <2>0, <2>8, <2>11, SizeType
    <3>2. FilledMem((c + 1) * ChunkPages)'
      BY <2>6, <3>1, Zenon DEF FilledMem
    <3>3. InChunk(c)'
      BY <1>0, <2>8, <3>1, <3>2, Zenon DEF InChunk
    <3> QED
      BY <1>0, <2>6, <2>8, <2>9, <3>3 DEF Onward, Paging
  <2> QED
    BY <2>10, <2>11
<1>4. CASE /\ pc = 10 + 3 * c /\ i = 0
           /\ FilledMem((c + 1) * ChunkPages) /\ mark.faults \in Nat /\ mem.flt = mark.faults + ChunkPages
  <2>1. Now.op = "tell" /\ Now.arg = "faults" /\ Now.val = ChunkPages
    BY <1>0, <1>4, ProgramIs, DemandPagingSteps
  <2>2. Report /\ Measured(Now.arg) = ChunkPages /\ ChunkPages \in Int /\ pc \in Int
    <3>1. Report
      BY <2>1, Dispatch
    <3>2. Measured(Now.arg) = mem.flt - mark.faults
      BY <2>1, MeasuredIs
    <3> QED
      BY <1>0, <1>4, <3>1, <3>2, SizeType
  <2>3. /\ MemType' /\ sum' \in Int /\ file' = {} /\ Told' /\ prog' = prog /\ mem.flt <= mem'.flt
        /\ status' = status /\ pc' = pc + 1 /\ i' = 0
        /\ FilledMem((c + 1) * ChunkPages)'
    BY <1>4, <2>1, <2>2, Reporting, Zenon
  <2>4. CASE c + 1 < Chunks
    <3>1. c + 1 \in 0 .. Chunks - 1 /\ pc' = 8 + 3 * (c + 1)
      BY <1>0, <1>4, <2>3, <2>4, SizeType
    <3>2. InChunk(c + 1)'
      BY <1>0, <2>3, <3>1, Zenon DEF InChunk
    <3> QED
      BY <2>3, <3>1, <3>2 DEF Onward, Paging
  <2>5. CASE ~(c + 1 < Chunks)
    <3>1. c + 1 = Chunks /\ pc' = End
      BY <1>0, <1>4, <2>3, <2>5, SizeType DEF End
    <3>2. FilledMem(Size)'
      BY <1>1, <2>3, <3>1, Zenon DEF FilledMem
    <3>3. Scanning'
      <4>1. /\ pc' \in End .. End + 4 /\ pc' # End + 1 /\ pc' \notin End + 1 .. End + 3 /\ pc' # End + 2
        BY <3>1, SizeType DEF End
      <4> QED
        BY <1>0, <2>3, <3>1, <3>2, <4>1 DEF Scanning
    <3> QED
      BY <2>3, <3>3 DEF Onward, Paging
  <2> QED
    BY <2>4, <2>5
<1> QED
  BY <1>2, <1>3, <1>4 DEF InChunk

LEMMA WhileScanning ==
    ASSUME Common, Scanning, Next
    PROVE  Onward
<1>0. /\ MemType /\ sum \in Int /\ file = {} /\ Told /\ prog = "demand_paging" /\ mem.flt \in Nat
      /\ status = "run" /\ FilledMem(Size) /\ pc \in End .. End + 4 /\ End \in Nat
  BY FltType, SizeType DEF Common, Scanning, End
<1>1. Resident(mem) = Size
  BY <1>0, ResidentFilled, SizeType
<1>2. CASE pc = End
  <2>1. TakeMark
    BY <1>0, <1>2, Dispatch, ProgramIs, DemandPagingSteps
  <2>2. /\ mark'.faults = mem.flt /\ mark'.rss = Size /\ sum' = 0 /\ pc' = End + 1 /\ i' = 0
        /\ prog' = prog /\ mem' = mem /\ told' = told /\ file' = file /\ status' = status
    BY <1>1, <1>2, <2>1, MarkStep, Zenon
  <2>3. MemType' /\ FilledMem(Size)' /\ Told' /\ mem.flt <= mem'.flt
    BY <1>0, <2>2, SameMem, SameTold, Zenon
  <2>4. 2 * sum' = TwiceSum(0) /\ 0 \in 0 .. Size - 1 /\ End + 1 \in End .. End + 4 /\ End + 1 # End + 2
    BY <1>0, <2>2, TwiceSumEnds, SizeType
  <2>5. (2 * sum = TwiceSum(i))'
    BY <2>2, <2>4, Zenon DEF TwiceSum
  <2>6. Scanning'
    BY <1>0, <2>2, <2>3, <2>4, <2>5 DEF Scanning
  <2> QED
    BY <1>0, <2>2, <2>3, <2>6 DEF Onward, Paging
<1>3. CASE pc = End + 1
  <2>1. /\ Now.op = "read" /\ Now.r = "a" /\ Now.lo = 0 /\ Now.n = Size /\ Now.val = 0
        /\ i \in 0 .. Size - 1 /\ 2 * sum = TwiceSum(i) /\ mem.flt = mark.faults /\ mark.rss = Size
        /\ Size \in 0 .. Size /\ i < Size
    <3>1. /\ Now.op = "read" /\ Now.r = "a" /\ Now.lo = 0 /\ Now.n = Size /\ Now.val = 1 - 1
      <4>1. Now = demand_paging[End + 1]
        BY <1>0, <1>3, ProgramIs
      <4> QED
        BY <4>1, DemandPagingSteps, Zenon
    <3>2. pc # End /\ pc \in End + 1 .. End + 3
      BY <1>0, <1>3
    <3>3. i \in 0 .. Size - 1 /\ 2 * sum = TwiceSum(i) /\ mem.flt = mark.faults /\ mark.rss = Size
      BY <1>3, <3>2, Zenon DEF Scanning
    <3> QED
      BY <3>1, <3>3, SizeType
  <2>2. Access \/ Trapped
    BY <2>1, Dispatch
  <2>3. /\ Access /\ MemType' /\ FilledMem(Size)' /\ sum' = sum + mem.val[Base + i] /\ Base + i \in Arena
        /\ mem'.flt = mem.flt
    BY <1>0, <2>1, <2>2, ReadStep, Zenon
  <2>4. mem.val[Base + i] = i \div ChunkPages + 1
    <3>1. Base + i >= Base /\ Base + i < Base + Size /\ (Base + i) - Base = i
      BY <2>1, ArenaIs
    <3> QED
      BY <1>0, <2>3, <3>1 DEF FilledMem
  <2>5. Stride = 1
    <3>1. At("read")
      BY <1>0, <2>1 DEF At
    <3> QED
      BY <2>1, <3>1 DEF Stride
  <2>6. /\ prog' = prog /\ mark' = mark /\ told' = told /\ file' = file /\ status' = status
        /\ IF i + 1 < Size THEN i' = i + 1 /\ pc' = pc ELSE pc' = pc + 1 /\ i' = 0
    <3>1. Shape(mem)
      BY <1>0 DEF MemType
    <3> QED
      BY <2>1, <2>3, <2>5, <3>1, AccessFields, Zenon
  <2>7. Told' /\ mem.flt <= mem'.flt
    BY <1>0, <2>3, <2>6, SameTold
  <2>8. sum' \in Int /\ 2 * sum' = TwiceSum(i + 1)
    <3>1. i \div ChunkPages \in Int
      BY <2>1, SizeType
    <3>2. TwiceSum(i + 1) = TwiceSum(i) + 2 * (i \div ChunkPages + 1)
      BY <2>1, TwiceSumStep
    <3> QED
      BY <1>0, <2>1, <2>3, <2>4, <3>1, <3>2
  <2>9. CASE i + 1 < Size
    <3>1. i' = i + 1 /\ pc' = End + 1 /\ i' \in 0 .. Size - 1 /\ End + 1 \in End .. End + 4 /\ End + 1 # End + 2
      BY <1>0, <1>3, <2>1, <2>6, <2>9, SizeType
    <3>2. (2 * sum = TwiceSum(i))'
      BY <2>8, <3>1, Zenon DEF TwiceSum
    <3>3. Scanning'
      BY <1>0, <2>1, <2>3, <2>6, <3>1, <3>2 DEF Scanning
    <3> QED
      BY <1>0, <2>3, <2>6, <2>7, <2>8, <3>3 DEF Onward, Paging
  <2>10. CASE ~(i + 1 < Size)
    <3>1. i' = 0 /\ pc' = End + 2 /\ i + 1 = Size /\ End + 2 \in End .. End + 4 /\ End + 2 # End + 1
      BY <1>0, <1>3, <2>1, <2>6, <2>10, SizeType
    <3>2. (2 * sum = TwiceSum(Size))'
      BY <2>8, <3>1, Zenon DEF TwiceSum
    <3>3. Scanning'
      BY <1>0, <2>1, <2>3, <2>6, <3>1, <3>2 DEF Scanning
    <3> QED
      BY <1>0, <2>3, <2>6, <2>7, <2>8, <3>3 DEF Onward, Paging
  <2> QED
    BY <2>9, <2>10
<1>4. CASE pc = End + 2 \/ pc = End + 3
  <2>1. PICK got \in Int : Now.op = "tell" /\ Now.val = got /\ Measured(Now.arg) = got
    <3>1. CASE pc = End + 2
      <4>1. Now.op = "tell" /\ Now.arg = "sum" /\ Now.val = Total
        BY <1>0, <3>1, ProgramIs, DemandPagingSteps, Zenon
      <4>2. 2 * sum = TwiceSum(Size)
        BY <3>1, Zenon DEF Scanning
      <4>3. sum = Total /\ Total \in Int
        BY <1>0, <4>2, TwiceSumEnds
      <4>4. Measured(Now.arg) = Total
        BY <4>1, <4>3, MeasuredIs, Zenon
      <4> QED
        BY <4>1, <4>3, <4>4, Zenon
    <3>2. CASE pc = End + 3
      <4>1. Now.op = "tell" /\ Now.arg = "faults" /\ Now.val = 0 /\ mem.flt = mark.faults
        BY <1>0, <3>2, ProgramIs, DemandPagingSteps DEF Scanning
      <4>2. Measured(Now.arg) = 0
        BY <1>0, <4>1, MeasuredIs
      <4> QED
        BY <4>1, <4>2
    <3> QED
      BY <1>4, <3>1, <3>2
  <2>2. Report /\ pc \in Int
    BY <1>0, <2>1, Dispatch
  <2>3. /\ MemType' /\ sum' \in Int /\ file' = {} /\ Told' /\ prog' = prog /\ mem.flt <= mem'.flt
        /\ mem' = mem /\ mark' = mark /\ status' = status /\ pc' = pc + 1 /\ i' = 0 /\ FilledMem(Size)'
    BY <1>0, <2>1, <2>2, Reporting, Zenon
  <2>4. Scanning'
    <3>1. /\ pc' \in End + 3 .. End + 4 /\ pc' # End /\ pc' # End + 1 /\ pc' # End + 2 /\ pc' \in End .. End + 4
          /\ pc # End /\ pc \in End + 1 .. End + 3
      BY <1>0, <1>4, <2>3
    <3>2. mark.rss = Size /\ mem.flt = mark.faults
      BY <3>1 DEF Scanning
    <3> QED
      BY <1>0, <2>3, <3>1, <3>2 DEF Scanning
  <2> QED
    BY <2>3, <2>4 DEF Onward, Paging
<1>5. CASE pc = End + 4
  <2>1. Now.op = "munmap" /\ Now.r = "a" /\ Now.err = "ret" /\ mark.rss = Size
    BY <1>0, <1>5, ProgramIs, DemandPagingSteps DEF Scanning
  <2>2. MunmapOk \/ Fails
    BY <2>1, Dispatch
  <2>3. CASE MunmapOk
    <3>1. /\ MemType' /\ EmptyMem'
          /\ pc' = pc + 1 /\ i' = 0 /\ prog' = prog /\ mark' = mark /\ sum' = sum /\ told' = told
          /\ file' = file /\ failed' = failed /\ status' = status
          /\ mem'.flt = mem.flt
      BY <1>0, <1>5, <2>1, <2>3, MunmapStep, Zenon
    <3>2. Told'
      BY <1>0, <3>1, SameTold, Zenon
    <3>3. Ending'
      BY <1>0, <1>5, <2>1, <3>1 DEF Ending
    <3> QED
      BY <1>0, <3>1, <3>2, <3>3 DEF Onward, Paging
  <2>4. CASE Fails
    <3>0. pc \in 1 .. End + 5 /\ Now.op \in {"mmap", "munmap"}
      BY <1>0, <1>5, <2>1, SizeType DEF End
    <3>1. /\ pc' = End + 6 /\ failed' = failed \cup {pc} /\ MemType' /\ mem' = mem
          /\ prog' = prog /\ sum' = sum /\ told' = told /\ file' = file /\ status' = status
      BY <1>0, <2>1, <2>4, <3>0, FailStep, Zenon
    <3>2. Told' /\ FilledMem(Size)' /\ mem.flt <= mem'.flt
      BY <1>0, <3>1, SameTold, SameMem, Zenon
    <3>3. Ending'
      BY <1>0, <1>5, <3>1, <3>2 DEF Ending
    <3> QED
      BY <1>0, <3>1, <3>2, <3>3 DEF Onward, Paging
  <2> QED
    BY <2>2, <2>3, <2>4
<1> QED
  BY <1>0, <1>2, <1>3, <1>4, <1>5

LEMMA AtEnd ==
    ASSUME Common, Ending, Next
    PROVE  Onward
<1>0. /\ MemType /\ sum \in Int /\ file = {} /\ Told /\ prog = "demand_paging" /\ mem.flt \in Nat /\ End \in Nat
  BY FltType, SizeType DEF Common, End
<1>1. CASE pc = End + 5 /\ status = "run" /\ i = 0 /\ EmptyMem /\ mark.rss = Size
  <2>1. Now.op = "tell" /\ Now.arg = "rss" /\ Now.val = -Size
    BY <1>0, <1>1, ProgramIs, DemandPagingSteps
  <2>2. Report /\ Measured(Now.arg) = Resident(mem) - mark.rss
    BY <2>1, Dispatch, MeasuredIs
  <2>3. Resident(mem) - mark.rss = -Size /\ -Size \in Int /\ pc \in Int
    BY <1>0, <1>1, ResidentEmpty, SizeType
  <2>4. /\ MemType' /\ sum' \in Int /\ file' = {} /\ Told' /\ prog' = prog /\ mem.flt <= mem'.flt
        /\ status' = status /\ pc' = pc + 1 /\ i' = 0 /\ EmptyMem'
    BY <1>1, <2>1, <2>2, <2>3, Reporting, Zenon
  <2>5. Ending'
    <3>1. pc' = End + 6
      BY <1>0, <1>1, <2>4
    <3> QED
      BY <1>1, <2>4, <3>1 DEF Ending
  <2> QED
    BY <2>4, <2>5 DEF Onward, Paging
<1>2. CASE pc = End + 6 /\ (EmptyMem \/ (FilledMem(Size) /\ End + 4 \in failed))
  <2>1. Return
    BY <1>0, <1>2, Dispatch, ProgramIs, DemandPagingSteps
  <2>2. /\ status' = "done" /\ pc' = pc
        /\ prog' = prog /\ mem' = mem /\ sum' = sum /\ told' = told /\ file' = file /\ failed' = failed
    BY <1>0, <1>2, <2>1, ReturnStep, Zenon
  <2>3. /\ MemType' /\ Told' /\ mem.flt <= mem'.flt
        /\ EmptyMem' \/ (FilledMem(Size)' /\ End + 4 \in failed')
    BY <1>0, <1>2, <2>2, SameMem, SameTold, Zenon
  <2>4. Ending'
    BY <1>2, <2>2, <2>3 DEF Ending
  <2> QED
    BY <1>0, <2>2, <2>3, <2>4 DEF Onward, Paging
<1> QED
  BY <1>1, <1>2 DEF Ending

LEMMA PagingStep ==
    ASSUME prog = "demand_paging", Paging, Next
    PROVE  Onward
<1>1. Common
  BY DEF Common, Paging
<1>2. Starting \/ Looking \/ (\E c \in 0 .. Chunks - 1 : InChunk(c)) \/ Scanning \/ Ending
  BY Zenon DEF Paging
<1> QED
  BY <1>1, <1>2, AtStart, WhileLooking, WithinChunk, WhileScanning, AtEnd, Zenon

\* No page is resident that did not cost a fault.
LEMMA ResidentFaulted ==
    ASSUME Paging
    PROVE  Resident(mem) \in Nat /\ Resident(mem) <= mem.flt
<1>0. MemType /\ mem.flt \in Nat
  BY FltType DEF Paging
<1>1. ASSUME NEW w \in 0 .. Size, FilledMem(w)
      PROVE  Resident(mem) \in Nat /\ Resident(mem) <= mem.flt
  <2>1. Resident(mem) = w /\ w <= mem.flt
    BY <1>0, <1>1, ResidentFilled DEF FilledMem
  <2> QED
    BY <2>1, SizeType
<1>2. ASSUME EmptyMem
      PROVE  Resident(mem) \in Nat /\ Resident(mem) <= mem.flt
  BY <1>0, <1>2, ResidentEmpty
<1>3. EmptyMem \/ \E w \in 0 .. Size : FilledMem(w)
  <2>0. 0 \in 0 .. Size /\ Size \in 0 .. Size
    BY SizeType
  <2>1. Starting \/ Ending \/ Looking \/ Scanning => EmptyMem \/ FilledMem(0) \/ FilledMem(Size)
    BY Zenon DEF Starting, Ending, Looking, Scanning
  <2>2. ASSUME NEW c \in 0 .. Chunks - 1, InChunk(c)
        PROVE  \E w \in 0 .. Size : FilledMem(w)
    <3>1. /\ c * ChunkPages \in 0 .. Size /\ (c + 1) * ChunkPages \in 0 .. Size
          /\ i \in 0 .. ChunkPages - 1 => c * ChunkPages + i \in 0 .. Size
      BY ChunkBounds, SizeType
    <3> QED
      BY <2>2, <3>1, Zenon DEF InChunk
  <2> QED
    BY <2>0, <2>1, <2>2, Zenon DEF Paging
<1> QED
  BY <1>1, <1>2, <1>3

-----------------------------------------------------------------------------
(* The process and the script beside it.                                   *)

LEMMA ProgKept ==
    ASSUME Next
    PROVE  prog' = prog
<1>1. /\ MmapOk => prog' = prog
      /\ MunmapOk => prog' = prog
      /\ MprotectOk => prog' = prog
      /\ MadviseOk => prog' = prog
      /\ FileOk => prog' = prog
      /\ TestBoth => prog' = prog
      /\ Fails => prog' = prog
      /\ Access => prog' = prog
      /\ Trapped => prog' = prog
      /\ Plain => prog' = prog
      /\ Fork => prog' = prog
      /\ ChildExit => prog' = prog
      /\ TakeMark => prog' = prog
      /\ Report => prog' = prog
      /\ Return => prog' = prog
  BY Zenon DEF MmapOk, MunmapOk, MprotectOk, MadviseOk, FileOk, TestBoth, Fails, Access, Trapped, Plain, Fork,
               ChildExit, TakeMark, Report, Return, fixed
<1> QED
  BY <1>1, Zenon DEF Next

LEMMA Unmoved ==
    ASSUME UNCHANGED vars
    PROVE  prog' = prog /\ mem' = mem /\ (Paging => Paging')
<1>1. /\ prog' = prog /\ mem' = mem /\ pc' = pc /\ i' = i /\ mark' = mark /\ sum' = sum /\ told' = told
      /\ file' = file /\ failed' = failed /\ status' = status
  BY Zenon DEF vars
<1>2. SUFFICES ASSUME Paging PROVE Paging'
  BY <1>1
<1>3. MemType' /\ Told' /\ sum' \in Int /\ file' = {}
  BY <1>1, <1>2, SameMem, SameTold, Zenon DEF Paging
<1>4. (EmptyMem => EmptyMem') /\ \A w : FilledMem(w) => FilledMem(w)'
  BY <1>1, <1>2, SameMem, Zenon DEF Paging
<1>5. CASE Starting
  BY <1>1, <1>3, <1>4, <1>5, Zenon DEF Paging, Starting
<1>6. CASE Looking
  BY <1>1, <1>3, <1>4, <1>6, Zenon DEF Paging, Looking
<1>7. ASSUME NEW c \in 0 .. Chunks - 1, InChunk(c)
      PROVE  Paging'
  <2>1. FilledMem(c * ChunkPages + i) => FilledMem(c * ChunkPages + i)'
    BY <1>1, Zenon DEF FilledMem
  <2>2. InChunk(c)'
    BY <1>1, <1>4, <1>7, <2>1, Zenon DEF InChunk
  <2> QED
    BY <1>3, <2>2, Zenon DEF Paging
<1>8. CASE Scanning
  <2>1. 2 * sum = TwiceSum(i) => (2 * sum = TwiceSum(i))'
    BY <1>1, Zenon DEF TwiceSum
  <2>2. 2 * sum = TwiceSum(Size) => (2 * sum = TwiceSum(Size))'
    BY <1>1, Zenon DEF TwiceSum
  <2>3. Scanning'
    BY <1>1, <1>4, <1>8, <2>1, <2>2, Zenon DEF Scanning
  <2> QED
    BY <1>3, <2>3, Zenon DEF Paging
<1>9. CASE Ending
  BY <1>1, <1>3, <1>4, <1>9, Zenon DEF Paging, Ending
<1> QED
  BY <1>2, <1>5, <1>6, <1>7, <1>8, <1>9, Zenon DEF Paging

\* While the program runs on, what was read stays below what can be read.
LEMMA WatchingRun ==
    ASSUME Watching, Paging, mem' = mem \/ Onward, UNCHANGED monitor,
           \/ proc' = proc /\ (proc = "none" => mem' = mem)
           \/ proc = "none" /\ proc' = "live"
           \/ proc = "live" /\ proc' = "zombie"
           \/ proc = "zombie" /\ proc' = "gone"
    PROVE  Watching'
<1>1. mpc' = mpc /\ rss' = rss /\ prev' = prev /\ row' = row /\ rates' = rates
  BY Zenon DEF monitor
<1>2. mem.flt \in Nat /\ mem.flt <= mem'.flt
  BY FltType, SameMem DEF Paging, Onward
<1>2a. mem'.flt \in Nat
  <2>1. CASE mem' = mem
    BY <1>2, <2>1
  <2>2. CASE Onward
    <3>1. MemType'
      BY <2>2, Zenon DEF Onward, Paging
    <3> QED
      BY <3>1, Zenon DEF MemType
  <2> QED
    BY <2>1, <2>2
<1>3. /\ proc' \in {"none", "live", "zombie", "gone"}
      /\ proc' = "none" => proc = "none" /\ mem' = mem
      /\ proc' # "gone" => proc # "gone"
  BY SMT DEF Watching
<1>4. /\ proc = "none" => mpc \in {"off", "search", "given"} /\ mem.flt = 0
      /\ prev \in Nat /\ rss \in Nat /\ rates = prev
      /\ row.total = prev /\ row.rate \in Int /\ row.rss \in Nat
      /\ proc # "gone" => prev <= mem.flt /\ rss <= mem.flt /\ row.rate >= 0 /\ row.rss <= row.total
  BY Zenon DEF Watching
<1>5. proc' # "gone" => prev <= mem'.flt /\ rss <= mem'.flt
  BY <1>2, <1>2a, <1>3, <1>4
<1>6. proc' = "none" => mem'.flt = 0
  BY <1>3, <1>4
<1> QED
  BY <1>1, <1>3, <1>4, <1>5, <1>6, Zenon DEF Watching

\* What the script reads of the process is there, and it goes back to no
\* process.
LEMMA WatchingScript ==
    ASSUME Watching, Paging, Script
    PROVE  Watching' /\ UNCHANGED vars
<1>0. /\ proc \in {"none", "live", "zombie", "gone"}
      /\ proc = "none" => mpc \in {"off", "search", "given"} /\ mem.flt = 0
      /\ prev \in Nat /\ rss \in Nat /\ rates = prev
      /\ row.total = prev /\ row.rate \in Int /\ row.rss \in Nat
      /\ proc # "gone" => prev <= mem.flt /\ rss <= mem.flt /\ row.rate >= 0 /\ row.rss <= row.total
  BY Zenon DEF Watching
<1>1. mem.flt \in Nat
  BY FltType DEF Paging
<1>2. ASSUME NEW label, Goto(label), proc = "none" => label \in {"off", "search", "given"}
      PROVE  Watching' /\ UNCHANGED vars
  <2>1. /\ proc' = proc /\ mpc' = label /\ rss' = rss /\ prev' = prev /\ row' = row /\ rates' = rates
        /\ UNCHANGED vars
    BY <1>2, Zenon DEF Goto
  <2>2. mem' = mem
    BY <2>1, Zenon DEF vars
  <2> QED
    BY <1>0, <1>2, <2>1, <2>2, Zenon DEF Watching
<1>3. CASE TakePid \/ Search \/ TestStatus \/ GrepFails
  <2>1. CASE TakePid
    <3>1. Goto(IF Readable THEN "test" ELSE "not found") /\ proc # "none"
      BY <2>1, Zenon DEF TakePid
    <3> QED
      BY <1>2, <3>1, Zenon
  <2>2. CASE Search
    <3>1. Goto(IF Readable THEN "test" ELSE "search")
      BY <2>2, Zenon DEF Search
    <3>2. proc = "none" => (IF Readable THEN "test" ELSE "search") \in {"off", "search", "given"}
      BY SMT DEF Readable
    <3> QED
      BY <1>2, <3>1, <3>2, Zenon
  <2>3. CASE TestStatus
    <3>1. Goto(IF Readable THEN "size" ELSE "has exited") /\ mpc = "test"
      BY <2>3, Zenon DEF TestStatus
    <3>2. proc # "none"
      BY <1>0, <3>1
    <3> QED
      BY <1>2, <3>1, <3>2, Zenon
  <2>4. CASE GrepFails
    <3>1. Goto("aborted") /\ mpc \in {"size", "rss"}
      BY <2>4, Zenon DEF GrepFails
    <3>2. proc # "none"
      BY <1>0, <3>1
    <3> QED
      BY <1>2, <3>1, <3>2, Zenon
  <2> QED
    BY <1>3, <2>1, <2>2, <2>3, <2>4
<1>4. CASE GrepSize
  <2>1. /\ proc = "live" /\ proc' = proc /\ rss' = rss /\ prev' = prev /\ row' = row /\ rates' = rates
        /\ UNCHANGED vars
    BY <1>4, Zenon DEF GrepSize
  <2>2. mem' = mem /\ proc' # "none"
    BY <2>1 DEF vars
  <2> QED
    BY <1>0, <2>1, <2>2, Zenon DEF Watching
<1>5. CASE GrepRss
  <2>1. /\ proc = "live" /\ proc' = proc /\ rss' = Resident(mem) /\ prev' = prev /\ row' = row /\ rates' = rates
        /\ UNCHANGED vars
    BY <1>5, Zenon DEF GrepRss
  <2>2. mem' = mem /\ proc' # "none"
    BY <2>1 DEF vars
  <2>3. rss' \in Nat /\ rss' <= mem.flt
    BY <2>1, ResidentFaulted, Zenon
  <2> QED
    BY <1>0, <2>1, <2>2, <2>3, Zenon DEF Watching
<1>6. CASE PrintRow
  <2>1. PICK cur : /\ cur = IF Readable THEN mem.flt ELSE 0
                   /\ row' = [size |-> size, rss |-> rss, rate |-> cur - prev, total |-> cur]
                   /\ prev' = cur /\ rates' = rates + cur - prev
                   /\ mpc = "faults" /\ proc' = proc /\ rss' = rss /\ UNCHANGED vars
    BY <1>6, Zenon DEF PrintRow, PrevMinflt
  <2>2. mem' = mem
    BY <2>1, Zenon DEF vars
  <2>3. row'.rss = rss /\ row'.rate = cur - prev /\ row'.total = cur
    BY <2>1, Zenon
  <2>4. proc # "none" /\ cur \in Nat
    BY <1>0, <1>1, <2>1
  <2>5. proc # "gone" => cur = mem.flt
    BY <1>0, <2>1, <2>4 DEF Readable
  <2>6. /\ rates' = prev' /\ row'.rate \in Int /\ prev' \in Nat
        /\ proc # "gone" => prev' <= mem.flt /\ row'.rate >= 0 /\ row'.rss <= row'.total
    BY <1>0, <1>1, <2>1, <2>3, <2>4, <2>5
  <2> QED
    BY <1>0, <2>1, <2>2, <2>3, <2>4, <2>6, Zenon DEF Watching
<1> QED
  BY <1>3, <1>4, <1>5, <1>6, Zenon DEF Script

LEMMA IInvInit ==
    ASSUME MInit
    PROVE  IInv
<1>1. /\ pc = 1 /\ i = 0 /\ sum = 0 /\ told = <<>> /\ file = {} /\ status = "run"
      /\ mem = [addr |-> [r \in Regions |-> 0], vma |-> [p \in Arena |-> "no"], pte |-> [p \in Arena |-> "no"],
                val |-> [p \in Arena |-> 0], flt |-> 0]
      /\ rss = 0 /\ prev = 0 /\ row = NoRow /\ rates = 0
      /\ IF prog = "demand_paging" THEN proc = "none" /\ mpc \in {"off", "search", "given"} ELSE mpc = "off"
  BY Zenon DEF MInit, Init
<1>2. /\ Shape(mem) /\ mem.addr = [r \in Regions |-> 0] /\ mem.vma = [p \in Arena |-> "no"]
      /\ mem.pte = [p \in Arena |-> "no"] /\ mem.val = [p \in Arena |-> 0] /\ mem.flt = 0
  BY <1>1, Zenon DEF Shape
<1>3. row.total = 0 /\ row.rate = 0 /\ row.rss = 0
  BY <1>1, Zenon DEF NoRow
<1>4. MemType
  BY <1>2 DEF MemType
<1>5. EmptyMem
  BY <1>2 DEF EmptyMem, Regions
<1>6. Told
  BY <1>1 DEF Told
<1>7. Starting
  BY <1>1, <1>2, <1>5 DEF Starting
<1>8. prog = "demand_paging" => Paging
  BY <1>1, <1>4, <1>6, <1>7 DEF Paging
<1>9. prog = "demand_paging" => Watching
  BY <1>1, <1>2, <1>3 DEF Watching
<1> QED
  BY <1>1, <1>8, <1>9, Zenon DEF IInv

LEMMA IInvStep ==
    ASSUME IInv, [MNext]_allvars
    PROVE  IInv'
<1>1. CASE prog = "demand_paging"
  <2>0. Paging /\ Watching
    BY <1>1, Zenon DEF IInv
  <2> SUFFICES Paging' /\ Watching' /\ prog' = prog
    BY <1>1, Zenon DEF IInv
  <2>1. CASE Run
    <3>1. proc = "live" /\ Next /\ proc' = proc /\ UNCHANGED monitor
      BY <2>1, Zenon DEF Run
    <3>2. Onward /\ "live" # "none"
      BY <1>1, <2>0, <3>1, PagingStep
    <3>3. Watching'
      BY <2>0, <3>1, <3>2, WatchingRun, Zenon
    <3> QED
      BY <3>2, <3>3, Zenon DEF Onward
  <2>2. CASE Start \/ Exit \/ Reap
    <3>1. UNCHANGED vars /\ UNCHANGED monitor
      BY <2>2, Zenon DEF Start, Exit, Reap
    <3>2. \/ proc = "none" /\ proc' = "live"
          \/ proc = "live" /\ proc' = "zombie"
          \/ proc = "zombie" /\ proc' = "gone"
      BY <2>2, Zenon DEF Start, Exit, Reap
    <3>3. prog' = prog /\ mem' = mem /\ Paging'
      BY <2>0, <3>1, Unmoved, Zenon
    <3> QED
      BY <2>0, <3>1, <3>2, <3>3, WatchingRun, Zenon
  <2>3. CASE Script
    BY <2>0, <2>3, WatchingScript, Unmoved, Zenon
  <2>4. CASE Over \/ UNCHANGED allvars
    <3>1. UNCHANGED vars /\ UNCHANGED monitor /\ proc' = proc
      BY <2>4, Zenon DEF Over, allvars
    <3>2. prog' = prog /\ mem' = mem /\ Paging'
      BY <2>0, <3>1, Unmoved, Zenon
    <3> QED
      BY <2>0, <3>1, <3>2, WatchingRun, Zenon
  <2> QED
    BY <2>1, <2>2, <2>3, <2>4, Zenon DEF MNext
<1>2. CASE prog # "demand_paging"
  <2>0. mpc = "off" /\ row = NoRow /\ rates = 0
    BY <1>2, Zenon DEF IInv
  <2>1. ~Script
    <3>1. /\ Script => mpc \in {"given", "search", "test", "size", "rss", "faults"}
      BY Zenon DEF Script, TakePid, Search, TestStatus, GrepSize, GrepRss, GrepFails, PrintRow
    <3> QED
      BY <2>0, <3>1
  <2>2. CASE Run
    <3>1. Next /\ UNCHANGED monitor
      BY <2>2, Zenon DEF Run
    <3>2. prog' = prog /\ mpc' = mpc /\ row' = row /\ rates' = rates
      BY <3>1, ProgKept, Zenon DEF monitor
    <3> QED
      BY <1>2, <2>0, <3>2, Zenon DEF IInv
  <2>3. CASE Start \/ Exit \/ Reap \/ Over \/ UNCHANGED allvars
    <3>1. UNCHANGED vars /\ UNCHANGED monitor
      BY <2>3, Zenon DEF Start, Exit, Reap, Over, allvars
    <3>2. prog' = prog /\ mpc' = mpc /\ row' = row /\ rates' = rates
      BY <3>1, Zenon DEF monitor, vars
    <3> QED
      BY <1>2, <2>0, <3>2, Zenon DEF IInv
  <2> QED
    BY <2>1, <2>2, <2>3, Zenon DEF MNext
<1> QED
  BY <1>1, <1>2

LEMMA IInvAlways == MSpec => []IInv
<1>1. MInit => IInv
  BY IInvInit
<1>2. IInv /\ [MNext]_allvars => IInv'
  BY IInvStep
<1> QED
  BY <1>1, <1>2, PTL DEF MSpec

-----------------------------------------------------------------------------
(* The theorems.                                                           *)

\* Whatever the interleaving of scripts/monitor.sh with the steps, the exit and
\* the reaping of the process it reads, the MinFlt/s column adds up to the last
\* MinFlt total; a negative rate, or more resident pages of the mapped region
\* than faults of it, is only printed once the process is gone (the loop of
\* monitor.sh, lines 65 to 80).
THEOREM MonitorRowsAlways == MSpec => []MonitorRows
<1>1. IInv => MonitorRows
  <2>1. CASE prog = "demand_paging"
    <3>1. IInv => Watching
      BY <2>1, Zenon DEF IInv
    <3>2. Watching => MonitorRows
      <4> SUFFICES ASSUME Watching PROVE MonitorRows
        OBVIOUS
      <4>1. /\ prev \in Nat /\ rates = prev /\ row.total = prev /\ row.rate \in Int /\ row.rss \in Nat
            /\ proc # "gone" => row.rate >= 0 /\ row.rss <= row.total
        BY Zenon DEF Watching
      <4> QED
        BY <4>1, SMT DEF MonitorRows
    <3> QED
      BY <3>1, <3>2
  <2>2. CASE prog # "demand_paging"
    <3>1. IInv => row = NoRow /\ rates = 0
      BY <2>2, Zenon DEF IInv
    <3>2. NoRow.total = 0 /\ NoRow.rate = 0 /\ NoRow.rss = 0
      BY Zenon DEF NoRow
    <3> QED
      BY <3>1, <3>2, SMT DEF MonitorRows
  <2> QED
    BY <2>1, <2>2
<1> QED
  BY <1>1, IInvAlways, PTL

\* Everything labs/demand_paging.c prints is what it says to expect, for every
\* number and size of its chunks: no fault and no resident page after mmap, no
\* resident page after the reads, exactly the pages of a chunk as faults for
\* each chunk written, none for the warm scan, whose checksum is the sum of the
\* values written, and the whole mapping given back by munmap.
THEOREM DemandPagingReports == MSpec => [](prog = "demand_paging" => ReportsAsTold)
<1>1. IInv => (prog = "demand_paging" => ReportsAsTold)
  <2>1. "demand_paging" \notin DOMAIN Real
    BY SMT DEF Real
  <2>2. prog = "demand_paging" => \A k : Truly(told[k]) = told[k].said
    BY <2>1, Zenon DEF Truly
  <2> QED
    BY <2>2, Zenon DEF IInv, Paging, Told, ReportsAsTold
<1> QED
  BY <1>1, IInvAlways, PTL

\* demand_paging touches only pages it has mapped, in every iteration of its
\* loops: it is never killed, whichever call fails.
THEOREM DemandPagingSurvives ==
    MSpec => [](prog = "demand_paging" => status \in {"run", "done"} /\ DiesOnlyUnchecked)
<1>1. IInv => (prog = "demand_paging" => status \in {"run", "done"})
  BY Zenon DEF IInv, Paging, Starting, Looking, InChunk, Scanning, Ending
<1>2. status \in {"run", "done"} => DiesOnlyUnchecked
  BY SMT DEF DiesOnlyUnchecked
<1> QED
  BY <1>1, <1>2, IInvAlways, PTL

\* demand_paging ends with nothing mapped, on its early return after mmap too;
\* only a munmap that failed leaves its pages behind.
THEOREM DemandPagingReturnsAll == MSpec => [](prog = "demand_paging" => MappingsReturned)
<1>1. IInv => (prog = "demand_paging" => MappingsReturned)
  <2> SUFFICES ASSUME IInv, prog = "demand_paging", status = "done" PROVE MappingsReturned
    BY Zenon DEF MappingsReturned
  <2>1. file = {} /\ (EmptyMem \/ End + 4 \in failed)
    <3>1. Paging
      BY Zenon DEF IInv
    <3>2. "done" # "run"
      BY SMT
    <3> QED
      BY <3>1, <3>2, Zenon DEF Paging, Starting, Looking, InChunk, Scanning, Ending
  <2>2. Steps[End + 4].op = "munmap"
    BY ProgramIs, DemandPagingSteps
  <2> QED
    BY <2>1, <2>2, Zenon DEF MappingsReturned, EmptyMem
<1> QED
  BY <1>1, IInvAlways, PTL
=============================================================================
