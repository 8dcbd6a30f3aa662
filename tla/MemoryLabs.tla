----------------------------- MODULE MemoryLabs -----------------------------
(***************************************************************************)
(* The labs that map memory, touch it and print how many faults, resident  *)
(* pages or areas that cost, and the ones that survive traps by jumping    *)
(* out of a signal handler.  Each is a list of steps; one machine runs     *)
(* them over a small arena of pages.                                       *)
(*                                                                         *)
(* The kernel maps pages on first touch: a read of untouched anonymous     *)
(* memory maps the shared zero page, a write takes a page of its own.      *)
(* Transparent huge pages and reclaim are off.                             *)
(***************************************************************************)
EXTENDS Integers, Sequences, FiniteSetsExt

CONSTANTS Chunks, ChunkPages,   \* of demand_paging: 10 chunks of 2560 pages
          MaxFailures           \* how many system calls fail in a run

ASSUME MemoryAssumption == Chunks \in Nat \ {0} /\ ChunkPages \in Nat \ {0} /\ MaxFailures \in Nat

-----------------------------------------------------------------------------
(* Steps.  A step that fails is followed by the next one ("go") or by the  *)
(* next step of the kind err names.                                        *)

Step(op, r) == [op |-> op, r |-> r, lo |-> 0, n |-> 1, arg |-> "unset", val |-> 0, err |-> "go"]
Or(err, s) == [s EXCEPT !.err = err]
Size == Chunks * ChunkPages
Mmap(r, n) == [Step("mmap", r) EXCEPT !.n = n, !.arg = "anon"]
MmapFile(r, n) == [Mmap(r, n) EXCEPT !.arg = "file"]
Munmap(r) == Step("munmap", r)
Memset(r, lo, n, v) == [Step("write", r) EXCEPT !.lo = lo, !.n = n, !.val = v]
Read(r, lo, n) == [Step("read", r) EXCEPT !.lo = lo, !.n = n]
\* One byte of every stride pages of a region.
Scan(r, n, stride) == [Step("read", r) EXCEPT !.n = n, !.val = stride - 1]
Mprotect(r, lo, n, prot) == [Step("mprotect", r) EXCEPT !.lo = lo, !.n = n, !.arg = prot]
DontNeed(r, n) == [Step("madvise", r) EXCEPT !.n = n]
Mark == Step("mark", "unset")
\* The program prints what happened since Mark and says how much it expects.
Tell(what, v) == [Step("tell", "unset") EXCEPT !.arg = what, !.val = v]
\* What it says is not what it prints (see Truly).
Claim(what, v) == [Tell(what, v) EXCEPT !.r = "claim"]
Do(op) == Step(op, "unset")
Trap(sig) == [Do("trap") EXCEPT !.arg = sig]
Repeat(s, k) == [i \in 1 .. k |-> s]

\* demand_paging: reads touch the zero page only, each chunk written costs as
\* many faults as it has pages, a warm scan none.
demand_paging ==
    <<Mark, Or("ret", Mmap("a", Size)), Tell("rss", 0), Tell("faults", 0),
      Scan("a", Size, ChunkPages), Tell("sum", 0), Tell("rss", 0)>>
    \o [k \in 1 .. 3 * Chunks |->
          CASE k % 3 = 1 -> Mark
            [] k % 3 = 2 -> Memset("a", (k \div 3) * ChunkPages, ChunkPages, k \div 3 + 1)
            [] OTHER -> Tell("faults", ChunkPages)]
    \o <<Mark, Scan("a", Size, 1), Tell("sum", ChunkPages * ((Chunks * (Chunks + 1)) \div 2)),
         Tell("faults", 0), Or("ret", Munmap("a")), Tell("rss", -Size), Do("ret")>>

\* Lab 9, phases 2 to 4.
demo_fault_counting ==
    <<Mark, Mmap("a", 3), Tell("faults", 0), Mark, Memset("a", 0, 3, 1), Tell("faults", 3),
      Mark, Memset("a", 0, 3, 2), Tell("faults", 0), Munmap("a"), Do("ret")>>
demo_smaps == <<Mmap("a", 2), Memset("a", 0, 2, 1), Tell("area", 1), Munmap("a"), Do("ret")>>
demo_madvise_dontneed ==
    <<Or("ret", Mmap("a", 3)), Memset("a", 0, 3, 1), Mark, DontNeed("a", 3), Tell("rss", -3), Mark,
      Memset("a", 0, 3, 0), Tell("faults", 3), Munmap("a"), Do("ret")>>

\* Lab 26, phases 1 and 3: a signal to itself, then demand paging; lab 28,
\* phase 1, whose random loop is one more scan of resident pages.
signal_delivery == <<Do("kill"), Tell("caught", 1)>>
demand_paging_intro ==
    signal_delivery
    \o <<Mark, Mmap("a", 3), Tell("faults", 0), Memset("a", 0, 3, 1), Tell("faults", 3), Munmap("a"), Do("ret")>>
working_set == <<Mmap("a", 3), Memset("a", 0, 3, 1)>> \o Repeat(Scan("a", 3, 1), 4) \o <<Munmap("a"), Do("ret")>>

\* The exercises 2, 3, 4 and 6.  The two faults that the sample output of
\* exercise 3 shows after mmap are of the program's own pages, not the region's;
\* the 0 it shows for the read scan is not what mapping the zero page costs.
ex_mm_struct ==
    <<Or("ret", Mmap("a", 2)), Memset("a", 0, 2, 1), Tell("area", 1), Munmap("a"), Do("ret")>>
ex_page_fault_lifecycle ==
    <<Mark, Or("ret", Mmap("a", 3)), Tell("faults", 0), Mark, Scan("a", 3, 1), Claim("faults", 0), Tell("sum", 0),
      Tell("rss", 0), Mark, Memset("a", 0, 3, 1), Tell("faults", 3), Tell("rss", 3), Mark, Memset("a", 0, 3, 2),
      Tell("faults", 0), Mark, DontNeed("a", 3), Tell("rss", -3), Munmap("a"), Do("ret")>>
ex_mmap_types ==
    <<Mmap("a", 1), Or("join", Do("open")), MmapFile("b", 1), Do("close"), Do("join"), Mmap("c", 1),
      Memset("c", 0, 1, 42), Munmap("a"), Munmap("b"), Munmap("c"), Do("ret")>>
ex_huge_pages_scan ==
    <<Or("ret", Mmap("a", 2)), Memset("a", 0, 2, 1), Scan("a", 2, 1), Memset("a", 0, 2, 2), Scan("a", 2, 1),
      Munmap("a"), Do("ret")>>

\* Lab 8, phase 4: both results are tested together.
demo_page_alignment ==
    <<Mmap("a", 1), Mmap("b", 1), Or("ret", Do("both")), Memset("a", 0, 1, 1), Memset("b", 0, 1, 1),
      Or("join", Mmap("c", 2)), Munmap("c"), Do("join"), Munmap("a"), Munmap("b"), Do("ret")>>

\* Lab 10: areas appear, split, merge and go; a page is copied on write.
demo_vma_growth ==
    <<Mark, Mmap("a", 1), Claim("areas", 1), Mmap("b", 1), Claim("areas", 2), Mmap("c", 1), Claim("areas", 3),
      Munmap("a"), Munmap("b"), Munmap("c"), Tell("areas", 0), Do("ret")>>
demo_mprotect_split ==
    <<Mmap("a", 4), Mark, Mprotect("a", 1, 2, "r"), Tell("areas", 2), Munmap("a"), Do("ret")>>
demo_cow_after_fork ==
    <<Mmap("a", 1), Memset("a", 0, 1, 100), Or("join", Do("fork")), Mark, Read("a", 0, 1), Tell("sum", 100),
      Memset("a", 0, 1, 999), Mark, Read("a", 0, 1), Tell("sum", 999), Do("_exit"), Do("join"),
      Mark, Read("a", 0, 1), Tell("sum", 100), Munmap("a"), Do("ret")>>
demo_maps_before_after_mmap ==
    <<Or("ret", Mmap("a", 4)), Tell("area", 1), Mark, Mprotect("a", 1, 1, "r"), Tell("areas", 2), Mark,
      Mprotect("a", 1, 1, "rw"), Tell("areas", -2), Munmap("a"), Do("ret")>>

\* Lab 11: two benchmarks, and a huge page if there is one.
demo_tlb_pressure ==
    <<Or("ret", Mmap("a", 3)), Memset("a", 0, 3, 1), Scan("a", 3, 1), Scan("a", 3, 1), Munmap("a"), Do("ret")>>
demo_hugepages == <<Or("ret", Mmap("a", 2)), Memset("a", 0, 2, 1), Munmap("a"), Do("ret")>>
demo_strided_benchmark ==
    <<Or("ret", Mmap("a", 4)), Memset("a", 0, 4, 1)>> \o Repeat(Scan("a", 4, 1), 3)
    \o <<Scan("a", 4, 2), Munmap("a"), Do("ret")>>

\* Lab 13, phase 1.  The first count of the child starts from the parent's.
fork_and_cow ==
    <<Mmap("a", 2), Memset("a", 0, 2, 1), Mark, Or("join", Do("fork")), Claim("faults", 0), Mark,
      Memset("a", 0, 2, 2), Tell("faults", 2), Do("_exit"), Do("join"), Mark, Read("a", 0, 1), Tell("sum", 1),
      Munmap("a"), Do("ret")>>

\* Lab 40, phase 6: large blocks of malloc are mappings.
pinned_memory ==
    <<Or("ret", Mmap("a", 2)), Memset("a", 0, 2, 1), Or("join", Mmap("b", 2)), Read("a", 0, 2),
      Memset("b", 0, 2, 1), Munmap("b"), Do("join"), Munmap("a"), Do("ret")>>

\* Lab 5.  A trap after sigsetjmp comes back at the next join.
demo_null_deref == <<Do("setjmp"), Trap("SEGV"), Do("never"), Do("join"), Do("ret")>>
demo_guard_page ==
    <<Or("ret", Mmap("a", 1)), Memset("a", 0, 1, 1), Or("ret", Mprotect("a", 0, 1, "none")), Do("setjmp"),
      Read("a", 0, 1), Do("never"), Do("join"), Munmap("a"), Do("ret")>>
demo_write_protect ==
    <<Mmap("a", 1), Memset("a", 0, 1, 1), Mprotect("a", 0, 1, "r"), Do("setjmp"), Memset("a", 0, 1, 2),
      Do("never"), Do("join"), Munmap("a"), Do("ret")>>
demo_bus_error_sim ==
    <<Or("ret", Do("mkstemp")), Do("extend"), Do("extend"), Or("close", MmapFile("a", 2)), Read("a", 0, 1),
      Do("truncate"), Do("setjmp"), Read("a", 1, 1), Do("never"), Do("join"), Munmap("a"), Do("close"),
      Do("unlink"), Do("ret")>>
lab_05 == <<Do("sigaction")>> \o demo_null_deref \o demo_guard_page \o demo_write_protect
          \o demo_bus_error_sim \o <<Tell("caught", 4), Do("ret")>>

\* Lab 6: a division by zero, a breakpoint and a read of a wild address.
Trapping(sig) == <<Do("setjmp"), Trap(sig), Do("never"), Do("join"), Do("ret")>>
demo_div_zero == Trapping("FPE")
demo_breakpoint == Trapping("TRAP")
demo_fault_address_handler == Trapping("SEGV")
lab_06 == <<Do("sigaction")>> \o demo_div_zero \o demo_breakpoint \o demo_fault_address_handler

Programs == [
    demand_paging |-> demand_paging, demo_fault_counting |-> demo_fault_counting, demo_smaps |-> demo_smaps,
    demo_madvise_dontneed |-> demo_madvise_dontneed, demand_paging_intro |-> demand_paging_intro,
    working_set |-> working_set, ex_mm_struct |-> ex_mm_struct, ex_mmap_types |-> ex_mmap_types,
    ex_page_fault_lifecycle |-> ex_page_fault_lifecycle, ex_huge_pages_scan |-> ex_huge_pages_scan,
    demo_page_alignment |-> demo_page_alignment, demo_vma_growth |-> demo_vma_growth,
    demo_mprotect_split |-> demo_mprotect_split, demo_cow_after_fork |-> demo_cow_after_fork,
    demo_maps_before_after_mmap |-> demo_maps_before_after_mmap, demo_tlb_pressure |-> demo_tlb_pressure,
    demo_hugepages |-> demo_hugepages, demo_strided_benchmark |-> demo_strided_benchmark,
    fork_and_cow |-> fork_and_cow, pinned_memory |-> pinned_memory, lab_05 |-> lab_05, lab_06 |-> lab_06]

-----------------------------------------------------------------------------
Arena == 1 .. Max({Size, 4})
Regions == {"a", "b", "c"}
Failed == -1       \* MAP_FAILED

VARIABLES prog, above,   \* above: the arena ends at an area it can merge with
          pc, i,         \* the next step, and the page its loop is at
          mem,           \* addresses of the regions, areas, page tables, contents, fault count
          parent,        \* the parent's mem while the child of fork runs
          mark, sum, told,         \* the last Mark, the checksum, what was printed
          file, fsize,             \* the file is open, has a name; its size in pages
          handled, jump, blocked,  \* signal handler, where sigsetjmp was called, blocked signals
          caught, failed, status

vars == <<prog, above, pc, i, mem, parent, mark, sum, told, file, fsize, handled, jump, blocked,
          caught, failed, status>>
printed == <<mark, sum, told>>
signals == <<handled, jump, blocked, caught>>
fixed == <<prog, above>>

Steps == Programs[prog]
Now == Steps[pc]
Resident(m) == Cardinality({p \in Arena : m.pte[p] \in {"own", "cow", "file"}})
\* Areas of the arena; the topmost may be part of the area above it.
EndsArea(m, p) ==
    m.vma[p] # "no" /\ IF p = Max(Arena) THEN ~(above /\ m.vma[p] = "rw") ELSE m.vma[p + 1] # m.vma[p]
Areas(m) == Cardinality({p \in Arena : EndsArea(m, p)})
Snapshot == [faults |-> mem.flt, rss |-> Resident(mem), areas |-> Areas(mem)]
NoMark == [faults |-> 0, rss |-> 0, areas |-> 0]

Init ==
    /\ prog \in DOMAIN Programs /\ above \in BOOLEAN
    /\ pc = 1 /\ i = 0
    /\ mem = [addr |-> [r \in Regions |-> 0], vma |-> [p \in Arena |-> "no"], pte |-> [p \in Arena |-> "no"],
              val |-> [p \in Arena |-> 0], flt |-> 0]
    /\ parent = <<>> /\ mark = NoMark /\ sum = 0 /\ told = <<>>
    /\ file = {} /\ fsize = 0
    /\ handled = FALSE /\ jump = 0 /\ blocked = {} /\ caught = 0 /\ failed = {} /\ status = "run"

At(op) == status = "run" /\ Now.op = op
NextOf(op, k) == Min({j \in DOMAIN Steps : j > k /\ Steps[j].op = op})
Advance == pc' = pc + 1 /\ i' = 0

\* mmap: the kernel takes the highest gap that is large enough.
Gaps(n) == {b \in Arena : b + n - 1 \in Arena /\ \A p \in b .. b + n - 1 : mem.vma[p] = "no"}
MmapOk ==
    /\ At("mmap") /\ Gaps(Now.n) # {}
    /\ LET b == Max(Gaps(Now.n))
           new == b .. b + Now.n - 1
       IN  mem' = [mem EXCEPT !.addr[Now.r] = b,
                              !.vma = [p \in Arena |-> IF p \notin new THEN @[p]
                                                       ELSE IF Now.arg = "file" THEN "file" ELSE "rw"],
                              !.val = [p \in Arena |-> IF p \in new THEN 0 ELSE @[p]]]
    /\ Advance
    /\ UNCHANGED <<fixed, parent, printed, file, fsize, signals, failed, status>>

\* The pages of region r from lo on, n of them.
Span(r, lo, n) == mem.addr[r] + lo .. mem.addr[r] + lo + n - 1
SizeOf(r) == Steps[Max({k \in 1 .. pc : Steps[k].op = "mmap" /\ Steps[k].r = r})].n
Mapped(r) == mem.addr[r] > 0

\* Mutant: munmap with the size of one page less.
UnmappedShort(r) == Span(r, 0, SizeOf(r) - 1)
\* The pages munmap is called for.
Unmapped(r) == Span(r, 0, SizeOf(r))

\* munmap, free; on MAP_FAILED or an address that is not set it does nothing.
MunmapOk ==
    /\ At("munmap")
    /\ mem' = IF ~Mapped(Now.r) THEN mem
              ELSE LET gone == Unmapped(Now.r) IN
                   [mem EXCEPT !.addr[Now.r] = 0,
                               !.vma = [p \in Arena |-> IF p \in gone THEN "no" ELSE @[p]],
                               !.pte = [p \in Arena |-> IF p \in gone THEN "no" ELSE @[p]]]
    /\ Advance
    /\ UNCHANGED <<fixed, parent, printed, file, fsize, signals, failed, status>>

MprotectOk ==
    /\ At("mprotect") /\ Mapped(Now.r)
    /\ mem' = [mem EXCEPT !.vma = [p \in Arena |-> IF p \in Span(Now.r, Now.lo, Now.n) THEN Now.arg ELSE @[p]]]
    /\ Advance
    /\ UNCHANGED <<fixed, parent, printed, file, fsize, signals, failed, status>>

\* MADV_DONTNEED gives the pages back, the area stays.
MadviseOk ==
    /\ At("madvise") /\ Mapped(Now.r)
    /\ LET gone == Span(Now.r, 0, Now.n)
       IN  mem' = [mem EXCEPT !.pte = [p \in Arena |-> IF p \in gone THEN "no" ELSE @[p]],
                              !.val = [p \in Arena |-> IF p \in gone THEN 0 ELSE @[p]]]
    /\ Advance
    /\ UNCHANGED <<fixed, parent, printed, file, fsize, signals, failed, status>>

\* The calls about the file that succeed; close releases the descriptor
\* whatever it returns.
FileOk ==
    /\ At("open") \/ At("mkstemp") \/ At("extend") \/ At("truncate") \/ At("close") \/ At("unlink")
    /\ file' = CASE At("open") -> {"open"} [] At("mkstemp") -> {"open", "named"}
                 [] At("close") -> file \ {"open"} [] At("unlink") -> file \ {"named"} [] OTHER -> file
    /\ fsize' = CASE At("open") -> 1 [] At("extend") -> fsize + 1 [] At("truncate") -> 0 [] OTHER -> fsize
    /\ Advance
    /\ UNCHANGED <<fixed, mem, parent, printed, signals, failed, status>>

\* if (p1 == MAP_FAILED || p2 == MAP_FAILED) return.
TestBoth ==
    /\ At("both")
    /\ pc' = IF Mapped("a") /\ Mapped("b") THEN pc + 1 ELSE NextOf(Now.err, pc)
    /\ UNCHANGED <<fixed, i, mem, parent, printed, file, fsize, signals, failed, status>>

\* A call fails, and the program goes on or to where it handles that.
Fails ==
    /\ Now.op \in {"mmap", "munmap", "mprotect", "madvise", "open", "mkstemp", "extend", "truncate", "unlink", "fork"}
    /\ status = "run"
    /\ \/ Cardinality(failed) < MaxFailures
       \/ Now.op \in {"mprotect", "madvise"} /\ ~Mapped(Now.r)
    /\ mem' = IF Now.op = "mmap" THEN [mem EXCEPT !.addr[Now.r] = Failed] ELSE mem
    /\ pc' = IF Now.err = "go" THEN pc + 1 ELSE NextOf(Now.err, pc)
    /\ failed' = failed \cup {pc}
    /\ UNCHANGED <<fixed, i, parent, printed, file, fsize, signals, status>>

-----------------------------------------------------------------------------
(* Touching memory.                                                        *)

Page == IF Mapped(Now.r) THEN mem.addr[Now.r] + Now.lo + i ELSE 0
Allowed(p) == p \in Arena /\ (mem.vma[p] \in {"rw", "file"} \/ (At("read") /\ mem.vma[p] = "r"))
Beyond(p) == p \in Arena /\ mem.vma[p] = "file" /\ Now.lo + i >= fsize
Stride == IF At("read") THEN Now.val + 1 ELSE 1

\* A minor fault: the page is not there, or is not the process's own to write.
Faults(p) == mem.pte[p] = "no" \/ (At("write") /\ mem.pte[p] \in {"zero", "cow"})
Touched(p) == IF mem.vma[p] = "file" THEN "file"
              ELSE IF At("write") THEN "own"
              ELSE IF mem.pte[p] = "no" THEN "zero" ELSE mem.pte[p]

Access ==
    /\ At("read") \/ At("write")
    /\ Allowed(Page) /\ ~Beyond(Page)
    /\ mem' = [mem EXCEPT !.pte[Page] = Touched(Page),
                          !.val[Page] = IF At("write") THEN Now.val ELSE @,
                          !.flt = IF Faults(Page) THEN @ + 1 ELSE @]
    /\ sum' = IF At("read") THEN sum + mem.val[Page] ELSE sum
    /\ IF i + Stride < Now.n THEN i' = i + Stride /\ UNCHANGED pc ELSE Advance
    /\ UNCHANGED <<fixed, parent, mark, told, file, fsize, signals, failed, status>>

\* Mutant: sigsetjmp(buf, 0) does not save the signal mask.
MaskAfterNotSaved(sig) == blocked \cup {sig}
\* The signals that are blocked after siglongjmp: sigsetjmp(buf, 1) saved the mask.
MaskAfter(sig) == blocked

FrameOf(k) == Cardinality({j \in 1 .. k - 1 : Steps[j].op = "ret"})
SignalOf == IF At("trap") THEN Now.arg ELSE IF Allowed(Page) THEN "BUS" ELSE "SEGV"

\* The handler counts and jumps to where sigsetjmp was called last, which is
\* undefined when that function has returned; without a handler, or with the
\* signal blocked, the process dies.
Trapped ==
    /\ \/ At("trap")
       \/ (At("read") \/ At("write")) /\ (~Allowed(Page) \/ Beyond(Page))
    /\ LET live == handled /\ SignalOf \notin blocked
       IN  IF live /\ jump > 0 /\ FrameOf(jump) = FrameOf(pc)
           THEN /\ pc' = NextOf("join", jump) /\ blocked' = MaskAfter(SignalOf)
                /\ UNCHANGED status
           ELSE /\ status' = (IF live THEN "wild" ELSE "killed")
                /\ UNCHANGED <<pc, blocked>>
    /\ caught' = IF handled /\ SignalOf \notin blocked THEN caught + 1 ELSE caught
    /\ i' = 0
    /\ UNCHANGED <<fixed, mem, parent, printed, file, fsize, handled, jump, failed>>

\* sigaction, sigsetjmp returning 0, and steps that only print.  "kill" is
\* lab 26 sending itself SIGUSR1: its handler has run when kill returns.
Plain ==
    /\ status = "run" /\ Now.op \in {"sigaction", "setjmp", "join", "never", "kill"}
    /\ handled' = (handled \/ At("sigaction"))
    /\ jump' = IF At("setjmp") THEN pc ELSE jump
    /\ told' = IF At("never") THEN Append(told, [at |-> pc, got |-> 1, said |-> 0]) ELSE told
    /\ caught' = IF At("kill") THEN caught + 1 ELSE caught
    /\ Advance
    /\ UNCHANGED <<fixed, mem, parent, mark, sum, file, fsize, blocked, failed, status>>

-----------------------------------------------------------------------------
\* fork: both processes share their pages until one writes; the child counts
\* its faults from 0.  The parent waits, so the child runs first.
Fork ==
    /\ At("fork")
    /\ LET shared == [mem EXCEPT !.pte = [p \in Arena |-> IF @[p] = "own" THEN "cow" ELSE @[p]]]
       IN  parent' = <<shared>> /\ mem' = [shared EXCEPT !.flt = 0]
    /\ Advance
    /\ UNCHANGED <<fixed, printed, file, fsize, signals, failed, status>>

\* _exit(0) of the child; wait returns in the parent.
ChildExit ==
    /\ At("_exit")
    /\ mem' = parent[1] /\ parent' = <<>> /\ pc' = NextOf("join", pc) /\ i' = 0
    /\ UNCHANGED <<fixed, printed, file, fsize, signals, failed, status>>

\* Mutant: min0 is not taken again.
MarkedOnce == IF mark = NoMark THEN Snapshot ELSE mark
\* get_faults, count_vmas or VmRSS before a phase.
Marked == Snapshot
TakeMark ==
    /\ At("mark") /\ mark' = Marked /\ sum' = 0 /\ Advance
    /\ UNCHANGED <<fixed, mem, parent, told, file, fsize, signals, failed, status>>

\* Does a line of maps or smaps begin with the address p?
StartsArea(p) == mem.vma[p] # "no" /\ (p = 1 \/ mem.vma[p - 1] # mem.vma[p])
\* The difference that is printed after a phase.
Measured(what) ==
    CASE what = "sum" -> sum
      [] what = "caught" -> caught
      [] what = "area" -> IF Mapped("a") /\ StartsArea(mem.addr["a"]) THEN 1 ELSE 0
      [] OTHER -> Snapshot[what] - mark[what]
Report ==
    /\ At("tell") /\ told' = Append(told, [at |-> pc, got |-> Measured(Now.arg), said |-> Now.val])
    /\ Advance
    /\ UNCHANGED <<fixed, mem, parent, mark, sum, file, fsize, signals, failed, status>>

\* The function returns; after the last one the program is done.
Return ==
    /\ At("ret")
    /\ IF pc = Len(Steps) THEN status' = "done" /\ UNCHANGED <<pc, i>> ELSE Advance /\ UNCHANGED status
    /\ UNCHANGED <<fixed, mem, parent, printed, file, fsize, signals, failed>>

Ended == status # "run" /\ UNCHANGED vars

Next ==
    \/ MmapOk \/ MunmapOk \/ MprotectOk \/ MadviseOk \/ FileOk \/ TestBoth \/ Fails
    \/ Access \/ Trapped \/ Plain \/ Fork \/ ChildExit \/ TakeMark \/ Report \/ Return

Spec == Init /\ [][Next \/ Ended]_vars

-----------------------------------------------------------------------------
\* A call failed and its result was not looked at.
Unnoticed == \E k \in failed : Steps[k].err = "go"

\* What is printed where the labs say something else: a read scan costs a fault
\* for every page, although none is allocated; mappings next to each other are
\* one area, and none when they merge with the one above; the child of lab 13
\* subtracts its parent's two faults from its own none.
Real == [ex_page_fault_lifecycle |-> 3, demo_vma_growth |-> IF above THEN 0 ELSE 1, fork_and_cow |-> -2]
Truly(t) == IF prog \in DOMAIN Real /\ Steps[t.at].r = "claim" THEN Real[prog] ELSE t.said

\* What the labs print is what they say to expect: the fault counts of first
\* touches, rewrites and copies on write, the resident set, the checksums, the
\* areas split and merged, the traps caught (fewer when a function of lab 5 gave
\* up early).  Where they say what is not so, they print exactly what Truly says.
ReportsAsTold ==
    \A k \in DOMAIN told :
        \/ told[k].got = Truly(told[k])
        \/ Unnoticed
        \/ Steps[told[k].at].arg = "caught" /\ failed # {} /\ told[k].got < told[k].said

\* A process is killed by a signal, or a handler jumps into a function that has
\* returned, only in a function that has not looked at the failure of its own
\* mmap or of a write that extends its file: every other trap of labs 5 and 6
\* finds its handler, the signal unblocked and its own sigsetjmp, whatever
\* failed before.
DiesOnlyUnchecked ==
    status \in {"killed", "wild"} =>
        \E k \in failed : /\ Steps[k].err = "go" /\ Steps[k].op \in {"mmap", "extend"}
                          /\ FrameOf(k) = FrameOf(pc)

\* A program that ends has unmapped everything, closed its file and removed its
\* name, unless munmap or unlink failed.  Two early returns leave a page mapped:
\* lab 5 when mprotect fails, lab 8 when one of two mappings fails.
MappingsReturned ==
    status = "done" =>
        \/ file = {} /\ \A p \in Arena : mem.vma[p] = "no" /\ mem.pte[p] = "no"
        \/ \E k \in failed : Steps[k].op \in {"munmap", "unlink"}
        \/ prog = "lab_05" /\ \E k \in failed : Steps[k].op = "mprotect" /\ Steps[k].err = "ret"
        \/ prog = "demo_page_alignment" /\ \E k \in failed : k < 3
=============================================================================
