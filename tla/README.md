# TLA+ specification of linux_page_cache-lab

The repository is a set of operating-system labs in C with the scripts that
build and run them. Some run threads and processes against shared state; others
map and touch memory, raise and survive traps, write files, or print parts of
`/proc` and `/sys`. This project models those, checks the models with TLC and
proves with TLAPS, for every value of the constants, what can be proved of those
whose sizes are not fixed. Source paths are relative to the
repository; labs are called by their numbers, the exercises are those of
`labs/process_memory_exercises.c`.

## Inventory

| Part | State | Operations | What is hard | What makes it correct |
|---|---|---|---|---|
| lab 22 | ring, counter, `done`, a mutex, two condition variables | produce, consume, end of stream | spurious wakeups, one signal for many sleepers, `done` set while items remain | order kept, no lost wakeup, -1 only at the end, all threads return |
| lab 23 | ring, two semaphores, a mutex, totals | put, get | several threads admitted at once, semaphores and mutex taken in different orders | slots conserved, FIFO order, equal totals, all threads return |
| `page_cache_models.c` | workers, results, children, pipes, process-wide fault counters | four execution modes, slices, read loop, pipe protocol, wait | children or threads that die, file truncated, write ends inherited over fork | every byte read once, sums complete, end of file reached, no zombies |
| labs 18 to 21 | counters or buckets, mutex, spinlock, bucket locks, read-write lock | increments under six disciplines | lost updates, lock chosen for the wrong bucket | no increment lost under a lock; how much a race can lose |
| lab 24 | linked stack, heap nodes | push, pop, compare-and-swap retry | stale top, spurious failure, free after pop | linearizable, list intact, every item popped |
| `scripts/*.sh`, `Makefile` | `bin/`, `testdata.bin`, sources | build, run, clean | commands in any order, failing compilations, stale binaries, relative paths | the right program, in its present version, on the right file |
| `demand_paging.c`, labs 08 to 11, 13, 26, 28, 40, exercises 2, 3, 4, 6 | mappings, areas, page tables, fault counts | mmap, touch, mprotect, madvise, fork, munmap | unchecked calls, zero page, copy on write, areas that merge | the counts printed are those announced, everything is unmapped |
| `scripts/monitor.sh` | the last sample | search, sample, print a row | the process runs on between the reads and exits under it | rows consistent, the script stops |
| labs 05, 06 | signal handler and mask, saved context | trap, handler, `siglongjmp` | mask left blocked, jump to a function that has returned | every trap is survived and counted |
| labs 01, 13, 14, 15, 25, exercise 9 | processes, threads, pipes, stdio buffers, a futex word | fork, exec, `_exit`, wait, create, join, futex wait and wake | wake between test and sleep, buffers copied by fork, forks that fail | true values shown, no line written twice, all end |
| labs 29 to 32 | inodes and directory, in memory and on disk | write, fsync, rename, link, copy, pread | crash between any two steps, write-back in any order, short writes | old or new contents, whole copies, nothing left behind |
| labs 01, 02, 04, 07 to 17, 28 to 30, 33 to 40, exercises 1, 2, 4, 5, 7 to 10 | a file, a buffer, a counter | `fgets` loops that select lines | limits, lines longer than the buffer, files that are missing or empty | exactly the announced lines, true messages |
| lab 03, lab 36, environments | none that outlives a statement, or one thread only | | | not modelled |

The labs share nothing with each other at run time; inside a lab, threads share
globals and processes share pipes and files. Two parts meet across programs:
`monitor.sh` reads the `/proc` files of `demand_paging` while it runs, and the
scripts decide which program, built from which source, runs on which file.

## Modules

`BoundedQueue`, `AtomicStack` and `AtomicUpdate` are the abstract
specifications: a FIFO queue of limited capacity, an atomic stack, and a file
that at every instant has the old or the new contents and is not removed before
it has had the new ones. The others model code:

* **`CondvarBuffer`** (lab 22). One action per statement that touches shared
  state: `Lock` is `pthread_mutex_lock` and the end of `pthread_cond_wait`;
  `ProduceTest`, `ProducePut`, `ProduceSignal`, `ProduceUnlock` are lines 22 to
  26 with the loop of line 38, `SetDone` is line 39; the `Consume` actions are
  lines 30 to 36 and 40. A condition variable is its set of sleepers; a signal
  removes one of them, `SpuriousWakeup` any. `consumed` records the printed
  items. Refines `BoundedQueue`.
* **`SemaphoreBuffer`** (lab 23). The two loops, statement by statement; `sem`
  holds the two semaphores. Refines `BoundedQueue`.
* **`PageCacheModels`** (page_cache_models.c), with **`Slices`** for the division
  of the file. `main()`, the children and the workers each have a program
  counter. `Fails` marks a failing library call: in a worker it ends the whole
  process (`exit(1)` in `read_range`), except the `malloc` of the result, which
  ends the thread alone. `writers` tracks who holds the write end of each pipe,
  so that end of file happens exactly when the last copy is closed. The byte at
  offset b has the value 8^b, which makes a checksum say which bytes it holds.
  Of the page faults only those of a worker's first read are modelled, zero or
  one. Major faults and times follow the same path as minor faults and are left
  out. Children that outlive a failed parent are not followed.
* **`SharedCounters`** (labs 18 to 21). The counting loops under `discipline`, an
  increment being a load and a store (`counter_racy` is volatile, so every
  iteration really does both).
* **`LockFreeStack`** (lab 24). Load, compare-and-swap and retry of `push()` and
  `pop()`; a weak compare-and-swap may fail for no reason. Memory order is
  sequentially consistent, as the default of C11's atomics is. Refines
  `AtomicStack`.
* **`LabScripts`** (scripts, Makefile). A command is one action, taken from its
  first to its last line; sources have versions and may be broken by an edit.
  One numbered lab stands for the thirty-nine, since they are treated alike;
  the number 27 is apart.

The remaining modules cover many short, straight routines. Each routine is a
value (a sequence of steps named after the C function, or a record) and one
machine with an action per kind of step runs any of them. `Init` chooses the
routine.

* **`FileLabs`** (labs 29 to 32). A routine is a list of system calls; a call
  says where the code goes when it fails, or that the result is not looked at
  (`faulty` records that this has ever happened, `damaged` that it was a write or
  the fsync of the temporary file, `failed` which calls of the present run
  failed). Inodes and the directory exist in memory and on disk;
  `WriteBack` copies any of them at any time, `Fsync` at once, and `Crash` keeps
  the disk and runs the lab again. Every call may fail each time it is made,
  unlink included (`CallFails`, `ReadFails`, `CleanupFails`), and a write may
  fail or be cut short (`WriteFails`). Two results nobody looks at change
  nothing: `close` gives the descriptor up even when it reports an error, and of
  a `pread` that fails only the bytes are missing, which lab 29 does not use.
  Refines `AtomicUpdate` with the contents on disk under the final name: the
  name goes only after it had the new contents, or when lab 32 could not rename
  its file or could not open or sync the directory (`Missed`), and goes on without.
* **`MemoryLabs`** (demand_paging.c and the labs that map memory or trap). `mem`
  holds the mapped areas, the page tables, the contents and the fault count;
  `Access` is one page of a loop that reads or writes. Reading an untouched page
  maps the shared zero page, writing takes an own page, `Fork` makes pages
  copy-on-write. A step `Tell` is a printed difference with the value the lab
  tells its reader to expect; a `Claim` is one where the lab's text is wrong, and
  `Truly` says what is printed then. `Trapped` is the handler of labs 05 and 06: it
  returns to the last `sigsetjmp`, or ends the process if the signal is blocked,
  nothing is installed, or that function has returned. `Fails` may hit any
  system call, an unchecked munmap or unlink too. The kernel places mappings top down and merges equal neighbours;
  `above` chooses whether the first has such a neighbour. Loops of several
  passes over the same pages (random and strided ones included) are scans of the
  pages, since page tables do not tell the orders apart. Fault counts, resident
  pages and areas are those of the region the program maps: what its own code,
  stack and libraries cost is left out, such as the two faults that the sample
  output of exercise 3 shows after mmap (line 702).
* **`PagingMonitor`** composes `MemoryLabs` with `scripts/monitor.sh`: the
  monitored process starts, runs, becomes a zombie and is reaped, while the
  script tests `/proc/PID`, greps VmSize and VmRSS and reads the fault count in
  separate steps. The columns are the mapped region's part of what is printed:
  "no more resident pages than faults" holds of it and not of the whole VmRSS
  column, which starts with the pages of libraries, many of them to a fault.
* **`TaskLabs`** (labs 01, 13, 14, 15, 25, exercise 9, the output of
  `page_cache_models`). A routine gives each task, a process or a thread, its
  list of steps. `mem` and `buf` belong to processes and are copied by `ForkOk`;
  `out` is the bag of lines that were really written. `FutexWait` compares the
  word again before the task sleeps; `Interrupted` wakes a sleeper for no
  reason.
* **`TextReaders`** (the `fgets` loops that print or count lines). A loop is a
  record: which lines it picks (by prefix, by a word inside, or from the line of
  an address on), when it stops (at a limit, after so many lines, at VmFlags, at
  a blank line), what it says afterwards, what it does about a missing file.
  The walk of lab 17 up its parents is not one of them: each file it reads is
  named by a number found in the one before. A line is one bufferful or two. `Contents` and `Lists`
  enumerate files for a loop: empty, missing, short ones with all combinations
  of matching pieces, and ones about as long as its limit.

Where a `main()` only starts threads, joins them and prints, its thread
creation is part of `Init` and everything after the joins is the step `Joined`
or `Finished`.

Definitions marked "Mutant" are faulty variants of the definition that follows
them. They are not part of any specification; each shows that some property
fails when the code is changed that way.

## Runs

| Run | Checks | Bounds |
|---|---|---|
| `condvar` | `TypeOK`, `ConsumedInOrder`, `EndOfStream`, `NoLostWakeup`, `ImplementsQueue`, `Termination` | 3 consumers (main() has 2), ring of 2, 5 items |
| `semaphore` | `TypeOK`, `SlotsConserved`, `TotalsAtExit`, `ImplementsQueue`, `Termination` | 2 producers, 2 consumers, ring of 2, 3 rounds |
| `page_cache` | `EveryByteOnce`, `SummaryAddsUp`, `FaultDelta`, `NoZombiesLeft`, `Terminates` | the command lines of `MCCommands`, 5 bytes, 2 bytes per read, 1 failure or truncation |
| `counters` | `TypeOK`, `NothingLost`, `RaceBounds`, `Termination` | 3 counting threads, 2 readers, 3 iterations, 2 buckets |
| `stack` | `ListIntact`, `EachThreadReversed`, `ImplementsStack`, `PopsEverything` | 3 pushers of 2 items |
| `lab_scripts` | `NumberedLabRuns`, `MakeLabIsCurrent` | 2 edits of each source |
| `files` | `TidyAtExit`, `TransfersWhole`, `ImplementsAtomicUpdate` | files of 1 and 4 pages, 2 crashes, one failing write in a loop of writes (`MayFail`) |
| `readers` | `ShowsExactly`, `ListsComplete`, `MessagesTrue` | lists of 2 files or groups of files; other files of 0 to 2 lines, or about as many as the loop's limit |
| `memory` | `ReportsAsTold`, `DiesOnlyUnchecked`, `MappingsReturned`, `MonitorRows`, `MonitorStops` | 2 chunks of 2 pages (demand_paging has 10 of 2560), 2 failing calls |
| `tasks` | `ReportsTrue`, `WrittenOnce`, `Termination` | 2 round trips in lab 15 |
| `lab_27_first_try` | `Lab27Runs`, violated | |
| `documented_path` | `DocumentedCommandRuns`, violated | |

What they show:

* The two buffers and the stack do what their abstract specifications promise,
  and their threads return. `page_cache_models` reads every byte once in all
  modes and accounts for its children although any one call fails. The locked
  counters lose nothing; the racy one ends at 2 at worst.
* `files`: lab 32 leaves the old or the whole new contents at every instant,
  however the kernel orders its writes, although the lab is run again after a
  crash and whichever of its calls fail but two: nothing is promised once a write
  or the fsync of the temporary file has failed (`AtomicUpdate.Spoil`), for the
  code looks at neither result and renames what it has. Every path of every lab
  closes its descriptors and removes its names, lab 32's final one included; a
  name stays only for the reasons `Excused` lists, each the failure of the very
  call that removes it or of the one that would have led there. The copy of
  lab 31 is complete; the sequential and strided loops of lab 29 read each page
  once.
* `readers`: every loop prints exactly the pieces it looks for, in order, each
  once, up to its limits; a missing or empty file never makes another one
  unread, except where a loop is meant to stop there, and what is printed in its
  place is exactly the `Substitute` of that file; "truncated" and "not found" are
  true, with the exceptions the properties name.
* `memory`: fault counts, resident sizes, checksums and areas are what the labs
  announce, or in three places exactly what `Truly` says instead; every
  trap is survived, but in a function that did not look at its own failed mmap or
  file extension; nothing stays mapped, open or named, unless the call that
  releases it failed or at the two early returns `MappingsReturned` names. `monitor.sh` prints rates
  that add up to the total and always stops.
* `tasks`: the values beside the texts are right in every interleaving, output
  is lost or repeated only when it does not go to a terminal and only where
  `WrittenOnce` says, no wake of the futex is missed.

Why these bounds reach the interesting cases: the rings are smaller than the
number of items, so indices wrap more than once and both "full" and "empty" are
waited for; three consumers leave two asleep after a signal; the five bytes do
not divide among two or four workers, and one process, two processes and two
threads per process all occur with every single failure; three iterations on two
buckets bring a thread back to a bucket it has left, and `RaceBounds` is tight
(a final counter of 2 is reached); a push can be overtaken by pushes of one
other thread or of two. The first crash of `files` leaves any mixture of the
versions on disk, the second happens to a run that starts from such a mixture;
1 and 4 are powers of two like the page count of lab 29, which the stride needs
(the theorem `WholeTransfers` covers the others), and a file of one page can also
stay empty.
Two files are enough for the lists, whose files are independent; at limit - 1,
limit, limit + 1 and limit + 2 lines the loops end in all their ways. Two
failures let an unchecked failure meet a second one on an error path. A region
of two chunks of two pages has a first and a last page of a first and of a last
chunk. The second round trip starts with the pipes as the first left them.

Deadlock is checked in every run. Programs that have ended take a stuttering
step (`Joined`, `Finished`, `Ended`, `Over`, `Done`, `Exit` of `FileLabs`), so a
deadlock is a real one. One program can really block: lab 15 when its fork
fails (`Hangs`), see below.

### Fairness

Threads that can run do run (weak fairness). In `CondvarBuffer` the mutex must
not starve a thread for ever (strong fairness of `Lock`), which the finite
number of items nearly gives and spurious wakeups could otherwise spoil; nothing
is assumed of spurious wakeups. In `LockFreeStack` a compare-and-swap that could
succeed again and again does not fail spuriously for ever (strong fairness of
`PushCas` and `PopCas`), as the C standard's forward-progress advice asks. In
`PageCacheModels` it is enough that some thread of the program runs. In
`TaskLabs` every task that can run is scheduled, and nothing is assumed of
`Interrupted`. In `PagingMonitor` the monitored program, its exit, the shell that
reaps it and the script go on; the program need never be started. `LabScripts`,
`FileLabs` and `TextReaders` have no liveness property and no fairness.

### Findings

* `run_lab.sh 27` on a fresh checkout builds everything and then reports
  "binary not found after build": line 37 looks for `bin/lab_27`, while the
  build makes `bin/demand_paging`. The same command works the second time, and
  `make lab N=27` always does (`MakeLabIsCurrent`).
* `steps/02-page-cache-lab.md` tells the reader to run
  `./run_page_cache_lab.sh ../testdata.bin` in `scripts/`. The script changes to
  the root first, so the path names a file above the checkout; so does its
  default path. `testdata.bin` is the argument that works.

### Observations

What else the modelling brought up. The properties above name the exceptions
among these that they meet; the others are outside what the models follow.

* Unchecked calls: in lab 05 (lines 112 and 165) a trap after a failed call
  makes the handler jump into a function that has returned
  (`DiesOnlyUnchecked`); early returns keep a page mapped in lab 05 (line 90)
  and lab 08 (line 112); lab 14 (line 33) prints an uninitialised status, and
  lab 15 hangs holding both ends of its pipes, when a fork has failed.
* Lab 32 prints "After crash: either old file OR new file, never half-written"
  (line 81) of calls whose write (line 69) and fsync (line 72) it does not check:
  a write cut short is renamed over the old file (`ImplementsAtomicUpdate` says
  that no other failing call does this).
* Counts (`Truly` has what is printed). The sample output of exercise 3 shows no
  fault for the read scan (line 703); the count of line 226 is one for every page,
  each of which faults on the zero page. Lab 10 prints the areas after each mmap
  (line 36) and then "Each mmap creates a new VMA" (line 40); mappings next to
  each other are one area, and may be one with an area that was there before (the
  expected output at line 145 does say "if non-adjacent"). The child of lab 13
  (line 53) subtracts its parent's faults from its own and prints a negative
  number where line 32 says "minor=0 or very small".
* Lab 02 prints the fields of two processors, up to the second blank line of
  `/proc/cpuinfo` (line 249), under a comment that says the first block, up to
  the first blank line (line 247).
* Output: what a child prints before `_exit` or exec is lost when the output is
  not a terminal (labs 01, 13, 14, exercise 9), and a worker of
  `page_cache_models` that calls `exit(1)` in a child repeats the lines the
  child inherited. Exercise 9 says "already gone" only when fork failed, and
  "child has exited" before that is sure.
* Limits: labs 01 (line 122) and 02 (line 232) say "truncated" at exactly the
  limit too; a line longer than the buffer is counted twice (lab 10 line 23,
  lab 01 line 185) and can hide `la57` (lab 08 line 150); a gap in the node
  numbers hides the later nodes (lab 40 line 64).
* Buffers printed unfilled: lab 02 (line 122) shows the cache type as the size
  of a cache without one; exercise 5 (line 375) an uninitialised array.
* Messages: labs 11 (line 81), 12 (line 45) and 33 (line 18) report a missing
  command only when `popen` fails, which a missing command does not cause.
* `monitor.sh` ends without its message when the process becomes a zombie
  between the test and a grep, and may print a last row with a negative rate.

## Proofs

A module `XProofs` holds the theorems about module `X`. Each follows the same
plan: an inductive invariant `IInv`, a conjunction of named parts that TLC has
checked too, the theorem `Invariance` (`Spec => []IInv`) with one step or lemma
for every action, and the properties as consequences. Nothing is assumed but the
named `ASSUME`s of the modules, which only give the constants their types.

* **`CondvarBufferProofs`**: for every ring size, every number of items and every
  non-empty set of consumers, `TypeOK`, `ConsumedInOrder`, `EndOfStream`,
  `NoLostWakeup`, and the safety part of `BoundedQueue` (`Refinement`). `IInv`
  adds where each thread can be (`ControlInv`), that the mutex is held by exactly
  the thread in its critical section (`MutexInv`, with `MutualExclusion`), how the
  producer's loop counter and `done` depend on its position (`ProducerInv`), that
  what was tested under the mutex still holds at the statement that relies on it
  (`TestedInv`), and that the ring from `out_idx` on is the run of items made but
  not taken (`RingInv`). `NoLostWakeup` needs the mutex: between a sleeper's
  condition becoming true and the signal nobody else can get in. For the
  refinement, `ContentsAre` says that the ring is a run of consecutive numbers,
  `OtherSteps` that all statements but lines 23 and 32 leave the queue alone, and
  `StepSimulation` that those two are `Put` and `Get`.
* **`SemaphoreBufferProofs`**: for every ring size, number of rounds and equal
  finite sets of producers and consumers, `TypeOK`, `SlotsConserved`,
  `TotalsAtExit`, the order of the items over all consumers (`GotInOrder`) and the
  safety part of `BoundedQueue` (`Refinement`). The argument counts threads:
  `SemInv` says how far each semaphore is behind the ring, by the threads between
  `sem_wait` and the access and between the access and `sem_post`; `TotalsInv`
  makes the totals the numbers of rounds that have passed their statement. From
  these a producer that may store finds a free slot, although many are admitted
  at once. `RingInv` is the run of consecutive numbers again, and needs
  `MutexInv`. The lemmas on `At` and `Done` say what one thread's move does to
  the cardinalities.
* **`SharedCountersProofs`**: for any finite set of counting threads, any readers,
  iterations and buckets, `TypeOK`, `NothingLost` and `RaceBounds`. Under a lock,
  what a thread loaded stays current until it stores (`RegInv`), since who holds
  a lock is exactly who is in its critical section and a counting thread is alone
  there (`LockInv`), and since equal buckets have equal locks (`SameLock`).
  `Stored(b)` is the set of pairs of a thread and an iteration that have stored
  into bucket b, so counting increments is a cardinality. For the race, `RaceInv`
  says that nobody loads 0 after anything was stored, and that as long as the
  counter is below 2 some thread has not made its last store.
* **`LockFreeStackProofs`**: for any finite set of pushers and any number of
  pushes, `ListIntact`, `EachThreadReversed` and that the program is linearizable
  (`Linearizable`: `Spec => ImplementsStack`, all of `AtomicStack`). The list is
  described by `Chain`, the nodes reached from the top; `ListInv` says that it
  holds exactly the live nodes, each once, and how any one thread's nodes are
  ordered on it. A node's link is written only while the node is private, so a
  stale top costs a retry and nothing else. `Chain` is a recursive function, and
  what it computes is proved with the least counterexample (`LeastNat`, from
  `WFMin`) in place of induction.
* **`FileLabsProofs`**: for any page counts and any number of crashes,
  `TidyAtExit` and that lab 32 implements `AtomicUpdate` on disk (`AtomicOnDisk`:
  `Spec => ImplementsAtomicUpdate`). `FdInv` and `NameInv` say which descriptors
  and names can exist at each call of each routine, whatever failed before; a
  name that is there when its routine is past removing it is an excused one.
  `UpdateInv` is about lab 32 until a write or the fsync of the temporary file has
  failed; a rename, an open, an fsync of the directory or an unlink that fails is
  covered, and a failed creat makes the write that follows fail. The temporary
  file is never the final one, on disk or in memory (`Apart`); every file with
  the final name is whole and already on disk (`Whole`), which is what makes the
  order fsync, rename, fsync of the directory right; `Progress` is where the
  temporary file stands at each call, so that what is renamed was synced. The
  directory may reach the disk at any time, hence `Whole` speaks of both.
  `WholeTransfers` is `TransfersWhole` for page counts that are 1 or a multiple of
  4 (`Divisible`). `CopyInv` is how much of the copy of lab 31 has been written,
  `PreadInv` which pages the two loops of lab 29 have read. The strided loop reads
  page `(i * (npages / 2 + 1)) % npages`; for `npages = 4j` the multiplier is its
  own inverse modulo `npages` (`StrideBack`), so no page is read twice. For 2 or 6
  pages it is not and the loop skips pages, so the hypothesis is needed; lab 29's
  file of 4 MiB meets it with every page size up to 1 MiB, and with 4 MiB.
* **`PageCacheModelsProofs`**: for all command lines, file and buffer sizes and
  any number of failures, `EveryByteOnce` (`ReadOnce`), `FaultDelta`
  (`FaultsBounded`), `NoZombiesLeft` (`AllReaped`) and `SummaryAddsUp`
  (`SummaryRight`). It starts with the slices: they stay inside the file
  (`SliceBounds`) and every byte is in exactly one (`SlicesPartition`), for every
  size and number of workers, a file smaller than the number of workers included.
  `MainInv` and `ChildInv` bound the loops and say which children exist by where
  the parent is; `WaitInv` counts the reaped ones, so that after `NProcs` waits
  there is no other; `StartedInv` says which workers the creating loops have
  reached, so that none is started twice; `JoinInv` that a joined worker is done
  and a child outlives its threads; `FaultInv` is `FaultDelta` for a worker that
  is still reading; `ReadInv` that without a failure a worker that is done is at
  the end of its slice. `Grid` and `Rows` connect `global_id` with process and
  thread numbers.
  The summary has a second invariant, `SumInv`, proved from the first: every total
  is the sum over a set of workers that are done (`Sums`), whose results no step
  changes (`Frozen`). `TotalInv` names that set at each point of `main()`,
  `ChildSum` the set of a child and of the line it wrote. What the parent's loop
  over the pipes needs is in `SettledInv`: a child keeps the write end of its own
  pipe until it exits, so a pipe at its end belongs to a child that will write no
  line later, and the workers counted are the same when the summary is printed.
  The sums are the folds of the community modules; that such a fold exists, is
  unique and does not depend on the order is proved by least counterexamples on
  the size of the set (`FoldUpTo`, `FoldUnique`, `SumRemove`, `SumUnion`).
* **`MemoryLabsProofs`**: about `demand_paging.c` with `monitor.sh` beside it
  (`MSpec`), for any number and size of chunks and any number of failing calls:
  `MonitorRows` (`MonitorRowsAlways`), and for that program `ReportsAsTold`
  (`DemandPagingReports`), `DiesOnlyUnchecked` (`DemandPagingSurvives`, which says
  more: it never dies at all) and `MappingsReturned` (`DemandPagingReturnsAll`).
  `Paging` says what the page table is at every statement: empty, mapped and
  untouched, filled up to the page the loop has reached, full, and empty again
  (`Starting`, `Looking`, `InChunk`, `Scanning`, `Ending`). From it come the faults
  of a chunk, none in the warm scan, and the checksum, which `TwiceSum` gives in
  closed form. `Watching` relates the monitor's copies to the process it reads: as
  long as the process is there they are no more than its present count of faults,
  which only grows. `DemandPagingSteps` reads the program's list of steps, whose
  length depends on the number of chunks, once for all.
* **`LabScriptsProofs`**: for any number of edits, `NumberedLabRuns` and
  `MakeLabIsCurrent`. Both are about the last command, so they are inductive
  together with the fact that what is in `bin/` is a version (`SourcesInv`);
  `BuildAllCurrent` says what a build leaves there.

Only model-checked:

* all liveness (`Termination`, `Terminates`, `PopsEverything`, `MonitorStops`, the
  fairness part of `ImplementsQueue`), which the prover does not reach;
* `TransfersWhole` for page counts that are not `Divisible`: false for some of
  them, and TLC checks it for those of its configuration;
* the programs of `MemoryLabs` other than `demand_paging`, and `TaskLabs`: their
  sizes are fixed in the source, so that TLC examines every behaviour there is, up
  to the number of failing calls in the first and of round trips of lab 15 in the
  second, whose routine reports no values;
* `TextReaders`: the files are short ones made for the loop that reads them, which
  TLC exhausts; what `FlattenSeq` and `SelectSeq` compute for every file would be
  an induction over sequences for each kind of loop.

Two definitions of `MemoryLabs` (`Touched` and `SignalOf`) were first written
with overlapping cases of a `CASE`, which TLA+ leaves unspecified; the proof of
`MemoryLabsProofs` did not go through until they became nested conditions in the
order the kernel tests them.

## Plan

The modules and the proofs of the plan are written. Worth doing next:

1. `TaskLabs`: that a line of a terminal is never written twice (`WrittenOnce`)
   for arbitrary routines, from what `buf` holds after a fork.
2. `TextReaders`: `ListsComplete` for lists of any length, by the place in the
   list the loop has reached.

## Not modelled

* Lab 03: inline assembly, calling conventions and cycle counts.
* Lab 36 (RCU) and lab 21's seqlock, trylock and recursive mutex, lab 25's
  acquire/release pair: called in turn by one thread, so the program has no
  interleaving to examine.
* In the readers, lab 17's walk up its parents, the values converted by `sscanf`
  elsewhere, binary files, `readlink`, `access` and the benchmarks between them.
* Clocks, addresses, transparent huge pages, reclaim and swap. Process numbers
  are not used again while a program runs.
* `pthread_create` is taken to succeed where nothing is said of it; `malloc` in
  lab 24 too.
* Containers, virtual machines and `test-vm.sh`: provisioning.
