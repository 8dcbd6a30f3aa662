-------------------------- MODULE PageCacheModels --------------------------
(***************************************************************************)
(* labs/page_cache_models.c: a file is read once per round by workers that *)
(* are threads of one process (modes single and threads) or threads of     *)
(* forked children (modes processes and hybrid), whose results come back   *)
(* through one pipe per child.                                             *)
(*                                                                         *)
(* The byte at offset b has the value 8^b, so that a checksum tells which  *)
(* bytes were added to it and how often (up to seven times).  Of the page  *)
(* faults only those of the first read() into a worker's buffer are        *)
(* modelled: one, or none when malloc hands out touched memory again.  Any *)
(* library call that can fail may fail, and another program may truncate   *)
(* the file, MaxFailures times in all.                                     *)
(***************************************************************************)
EXTENDS Integers, FiniteSets, FiniteSetsExt, Slices

CONSTANTS Commands,      \* command lines: records mode, procs, threads, rounds
          FileSize,      \* size of the file at start, in bytes
          BufSize,       \* BUF_SIZE
          Stride,        \* 4096, the step of the checksum loop
          MaxFailures    \* bound: failing calls and truncations in one run

ASSUME ArgumentAssumption ==
    /\ \A c \in Commands : c.procs \in Int /\ c.threads \in Int /\ c.rounds \in Int
    /\ FileSize \in Nat
    /\ BufSize \in Nat \ {0} /\ Stride \in Nat \ {0}
    /\ MaxFailures \in Nat

Modes == {"single", "threads", "processes", "hybrid"}
Main == -1                        \* the parent among the processes
Children == UNION {0 .. c.procs - 1 : c \in Commands}
Workers == UNION {0 .. c.procs * c.threads - 1 : c \in Commands}
Offsets == 0 .. FileSize - 1

VARIABLES
    cmd, round,   \* the command line, and the round
    mpc, idx,     \* main(): next statement and the index of its current loop
    total,        \* main(): total_min and checksum of the round
    cpc, cidx,    \* the same for every child
    ctotal,
    wpc,          \* every worker: "none" before pthread_create, "dead" when
                  \* its process exited under it
    pos,          \* its file offset
    min0,         \* the process's fault count when its loop began
    res,          \* its worker_result_t
    faults,       \* ru_minflt of every process
    took,         \* the faults of that count each worker took in this round
    writers,      \* processes that hold the write end of each child's pipe
    line,         \* the line in each pipe, a set of at most one record
    fsize,        \* present size of the file
    failures      \* library calls that have failed, and truncations

mainVars == <<cmd, round, mpc, idx, total>>
childVars == <<cpc, cidx, ctotal>>
workerVars == <<wpc, pos, min0, res, took>>
pipeVars == <<writers, line>>
vars == <<mainVars, childVars, workerVars, pipeVars, faults, fsize, failures>>

\* The checks of main() on its arguments.
ArgumentsOk ==
    /\ cmd.procs \in 1 .. 1024 /\ cmd.threads \in 1 .. 1024
    /\ cmd.rounds > 0
    /\ cmd.mode \in Modes

\* The mode decides which of the counts are used.
Threaded == cmd.mode \in {"single", "threads"}
NProcs == IF Threaded THEN 1 ELSE cmd.procs
NThreads == IF cmd.mode \in {"single", "processes"} THEN 1 ELSE cmd.threads
TotalWorkers == NProcs * NThreads
Active == 0 .. TotalWorkers - 1

\* The process a worker belongs to: global_id = p * thread_count + t.
ProcOf(w) == IF Threaded THEN Main ELSE w \div NThreads
GlobalId(p, t) == p * NThreads + t
ThreadsOf(q) == {w \in Active : ProcOf(w) = q}

Byte(b) == 8 ^ b
Zero == [checksum |-> 0, minflt |-> 0]
Plus(r, s) == [checksum |-> r.checksum + s.checksum,
               minflt |-> r.minflt + s.minflt]

Init ==
    /\ cmd \in Commands
    /\ round = 1
    /\ mpc = "arguments"
    /\ idx = 0 /\ total = Zero
    /\ cpc = [p \in Children |-> "none"]
    /\ cidx = [p \in Children |-> 0]
    /\ ctotal = [p \in Children |-> Zero]
    /\ wpc = [w \in Workers |-> "none"]
    /\ pos = [w \in Workers |-> 0]
    /\ min0 = [w \in Workers |-> 0]
    /\ res = [w \in Workers |-> Zero]
    /\ took = [w \in Workers |-> 0]
    /\ faults = [q \in Children \cup {Main} |-> 0]
    /\ writers = [p \in Children |-> {}]
    /\ line = [p \in Children |-> {}]
    /\ fsize = FileSize
    /\ failures = 0

-----------------------------------------------------------------------------
(* Process exit.                                                           *)

\* A library call fails (or the file is cut short).
Fails == failures < MaxFailures /\ failures' = failures + 1

\* The threads of process q die with it.
ThreadsDie(q) ==
    wpc' = [w \in Workers |-> IF w \in ThreadsOf(q) /\ wpc[w] \in {"start", "read"}
                              THEN "dead" ELSE wpc[w]]

\* exit(1) or return 1 in the parent.
MainFails ==
    /\ mpc' = "failed"
    /\ ThreadsDie(Main)
    /\ UNCHANGED <<cmd, round, idx, total, childVars, pos, min0, res, took,
                   pipeVars, faults, fsize>>

\* _exit() or exit() in child p: it is a zombie and its descriptors are closed.
ChildExits(p) ==
    /\ cpc' = [cpc EXCEPT ![p] = "zombie"]
    /\ writers' = [q \in Children |-> writers[q] \ {p}]
    /\ ThreadsDie(p)
    /\ UNCHANGED <<mainVars, cidx, ctotal, pos, min0, res, took, line, faults,
                   fsize>>

ProcessExits(q) == IF q = Main THEN MainFails ELSE ChildExits(q)

-----------------------------------------------------------------------------
(* thread_worker() and read_range().                                       *)

\* pthread_create has started worker w.
Started(w) ==
    /\ wpc' = [wpc EXCEPT ![w] = "start"]
    /\ pos' = [pos EXCEPT ![w] = SliceStart(FileSize, TotalWorkers, w)]
    /\ res' = [res EXCEPT ![w] = Zero]

\* Mutant: the first get_faults is missing.
BaselineZero(w) == 0
Baseline(w) == faults[ProcOf(w)]

\* malloc of the result, open, lseek, malloc of the buffer, first get_faults.
WorkerBegin(w) ==
    /\ wpc[w] = "start"
    /\ wpc' = [wpc EXCEPT ![w] = "read"]
    /\ min0' = [min0 EXCEPT ![w] = Baseline(w)]
    /\ UNCHANGED <<mainVars, childVars, pos, res, took, pipeVars, faults, fsize,
                   failures>>

\* malloc of the result fails: the thread alone ends, with a NULL result.
WorkerNoResult(w) ==
    /\ wpc[w] = "start"
    /\ Fails
    /\ wpc' = [wpc EXCEPT ![w] = "null"]
    /\ UNCHANGED <<mainVars, childVars, pos, min0, res, took, pipeVars, faults,
                   fsize>>

\* open, lseek, malloc of the buffer, getrusage or read fails: exit(1) ends
\* the whole process, the other threads included.
WorkerExits(w) ==
    /\ wpc[w] \in {"start", "read"}
    /\ Fails
    /\ ProcessExits(ProcOf(w))

\* The offsets added to the checksum for n bytes read at offset at.
Sampled(at, n) == {at + Stride * j : j \in 0 .. (n - 1) \div Stride}

Remaining(w) == SliceEnd(FileSize, TotalWorkers, w) - pos[w]

\* Mutant: the size of a read is not cut at the end of the slice.
ChunkWhole(w) == BufSize
Chunk(w) == Min({BufSize, Remaining(w)})

\* One turn of the loop: read() returns what is left of the chunk and the file.
WorkerRead(w) ==
    LET n == Min({Chunk(w), fsize - pos[w]})
        first == pos[w] = SliceStart(FileSize, TotalWorkers, w)
    IN  /\ wpc[w] = "read"
        /\ Remaining(w) > 0
        /\ n > 0
        /\ pos' = [pos EXCEPT ![w] = @ + n]
        /\ res' = [res EXCEPT ![w].checksum =
                          @ + MapThenSumSet(Byte, Sampled(pos[w], n))]
        /\ \E f \in IF first THEN {0, 1} ELSE {0} :
              /\ faults' = [faults EXCEPT ![ProcOf(w)] = @ + f]
              /\ took' = [took EXCEPT ![w] = @ + f]
        /\ UNCHANGED <<mainVars, childVars, wpc, min0, pipeVars, fsize, failures>>

\* The loop ends, at the end of the slice or at an early end of the file; the
\* result holds the difference of the process's fault counts.
WorkerEnd(w) ==
    /\ wpc[w] = "read"
    /\ pos[w] >= Min({SliceEnd(FileSize, TotalWorkers, w), fsize})
    /\ wpc' = [wpc EXCEPT ![w] = "done"]
    /\ res' = [res EXCEPT ![w].minflt = faults[ProcOf(w)] - min0[w]]
    /\ UNCHANGED <<mainVars, childVars, pos, min0, took, pipeVars, faults, fsize,
                   failures>>

-----------------------------------------------------------------------------
(* main() in the modes single and threads.                                 *)

\* The end of the body of a for loop of main() that runs n times.
MainLoop(n, again, after) ==
    IF idx + 1 < n THEN idx' = idx + 1 /\ mpc' = again
                   ELSE idx' = 0 /\ mpc' = after

\* The head of the loop over the rounds.
RoundHead == IF Threaded THEN "create" ELSE "fork"

\* The arguments are checked and the file is stat()ed.
MainArguments ==
    /\ mpc = "arguments"
    /\ \/ /\ ArgumentsOk
          /\ mpc' = RoundHead
          /\ UNCHANGED <<cmd, round, idx, total, childVars, workerVars, pipeVars,
                         faults, fsize, failures>>
       \/ ~ArgumentsOk /\ MainFails /\ UNCHANGED failures
       \/ ArgumentsOk /\ Fails /\ MainFails

MainCreate ==
    /\ mpc = "create"
    /\ \/ /\ Started(idx)
          /\ MainLoop(TotalWorkers, "create", "join")
          /\ UNCHANGED <<cmd, round, total, childVars, min0, took, pipeVars,
                         faults, fsize, failures>>
       \/ Fails /\ MainFails

\* pthread_join in order; a NULL result ends the program.
MainJoin ==
    /\ mpc = "join"
    /\ \/ /\ wpc[idx] = "done"
          /\ total' = Plus(total, res[idx])
          /\ MainLoop(TotalWorkers, "join", "summary")
          /\ UNCHANGED <<cmd, round, childVars, workerVars, pipeVars, faults,
                         fsize, failures>>
       \/ wpc[idx] = "null" /\ MainFails /\ UNCHANGED failures

-----------------------------------------------------------------------------
(* main() in the modes processes and hybrid.                               *)

\* pipe() and fork(): the child has every write end the parent holds.
MainFork ==
    /\ mpc = "fork"
    /\ \/ /\ mpc' = "close"
          /\ writers' = [q \in Children |->
                            IF q = idx THEN {Main, idx}
                            ELSE IF Main \in writers[q] THEN writers[q] \cup {idx}
                            ELSE writers[q]]
          /\ cpc' = [cpc EXCEPT ![idx] = "create"]
          /\ cidx' = [cidx EXCEPT ![idx] = 0]
          /\ ctotal' = [ctotal EXCEPT ![idx] = Zero]
          /\ faults' = [faults EXCEPT ![idx] = 0]
          /\ line' = [line EXCEPT ![idx] = {}]
          /\ UNCHANGED <<cmd, round, idx, total, workerVars, fsize, failures>>
       \/ Fails /\ MainFails

\* Mutant: the parent keeps its write ends.
ParentKeeps(p) == writers[p]

\* Who still holds the write end of pipes[p] after the parent's close().
ParentCloses(p) == writers[p] \ {Main}

MainClose ==
    /\ mpc = "close"
    /\ writers' = [writers EXCEPT ![idx] = ParentCloses(idx)]
    /\ MainLoop(NProcs, "fork", "scan")
    /\ UNCHANGED <<cmd, round, total, childVars, workerVars, line, faults,
                   fsize, failures>>

\* Mutant: the result of fscanf is not checked, and the variables still hold
\* what the previous child reported.
ScannedStale(p) ==
    IF line[p] = {} /\ p > 0 THEN line[p - 1] ELSE line[p]

\* The records fscanf converts from pipe p: the child's line, or none.
Scanned(p) == line[p]

\* fscanf returns at the child's line, or at end of file when the last write
\* end is closed: then the child's part is missing and nothing is said.
MainScan ==
    /\ mpc = "scan"
    /\ \/ /\ line[idx] # {} \/ writers[idx] = {}
          /\ total' = FoldSet(Plus, total, Scanned(idx))
          /\ MainLoop(NProcs, "scan", "wait")
          /\ UNCHANGED <<cmd, round, childVars, workerVars, pipeVars, faults,
                         fsize, failures>>
       \/ Fails /\ MainFails

\* Mutant: one wait() too few.
WaitsOneLess == NProcs - 1
Waits == NProcs

\* wait(NULL) reaps whichever child is a zombie.
MainWait ==
    /\ mpc = "wait"
    /\ \E p \in Children : /\ cpc[p] = "zombie"
                           /\ cpc' = [cpc EXCEPT ![p] = "reaped"]
    /\ MainLoop(Waits, "wait", "summary")
    /\ UNCHANGED <<cmd, round, total, cidx, ctotal, workerVars, pipeVars,
                   faults, fsize, failures>>

MoreRounds == round < cmd.rounds

\* The summary line and the free()s, then the next round or the quiz.
MainSummary ==
    /\ mpc = "summary"
    /\ IF MoreRounds
       THEN /\ round' = round + 1
            /\ mpc' = RoundHead
            /\ total' = Zero
            /\ wpc' = [w \in Workers |-> "none"]
            /\ pos' = [w \in Workers |-> 0]
            /\ min0' = [w \in Workers |-> 0]
            /\ res' = [w \in Workers |-> Zero]
            /\ took' = [w \in Workers |-> 0]
            /\ line' = [p \in Children |-> {}]
       ELSE mpc' = "done" /\ UNCHANGED <<round, total, workerVars, line>>
    /\ UNCHANGED <<cmd, idx, childVars, writers, faults, fsize, failures>>

-----------------------------------------------------------------------------
(* A child.                                                                *)

\* The end of the body of a for loop of child p over its threads.
ChildLoop(p, after) ==
    IF cidx[p] + 1 < NThreads
    THEN cidx' = [cidx EXCEPT ![p] = @ + 1] /\ UNCHANGED cpc
    ELSE cidx' = [cidx EXCEPT ![p] = 0] /\ cpc' = [cpc EXCEPT ![p] = after]

\* calloc and pthread_create; a failure is _exit(1).
ChildCreate(p) ==
    /\ cpc[p] = "create"
    /\ \/ /\ Started(GlobalId(p, cidx[p]))
          /\ ChildLoop(p, "join")
          /\ UNCHANGED <<mainVars, ctotal, min0, took, pipeVars, faults, fsize,
                         failures>>
       \/ Fails /\ ChildExits(p)

ChildJoin(p) ==
    LET w == GlobalId(p, cidx[p])
    IN  /\ cpc[p] = "join"
        /\ \/ /\ wpc[w] = "done"
              /\ ctotal' = [ctotal EXCEPT ![p] = Plus(@, res[w])]
              /\ ChildLoop(p, "report")
              /\ UNCHANGED <<mainVars, workerVars, pipeVars, faults, fsize, failures>>
           \/ wpc[w] = "null" /\ ChildExits(p) /\ UNCHANGED failures

\* dprintf of the totals: one line, well under PIPE_BUF, so written at once.
\* Nobody looks at its result: if it fails there is no line.
ChildReport(p) ==
    /\ cpc[p] = "report"
    /\ \/ line' = [line EXCEPT ![p] = {ctotal[p]}] /\ UNCHANGED failures
       \/ Fails /\ UNCHANGED line
    /\ cpc' = [cpc EXCEPT ![p] = "exit"]
    /\ UNCHANGED <<mainVars, cidx, ctotal, workerVars, writers, faults, fsize>>

\* close(pipes[p][1]) and _exit(0).
ChildExit(p) == cpc[p] = "exit" /\ ChildExits(p) /\ UNCHANGED failures

-----------------------------------------------------------------------------
Ended == mpc \in {"done", "failed"}

\* Another program cuts the file short.
Truncate ==
    /\ ~Ended
    /\ fsize = FileSize /\ FileSize > 0
    /\ Fails
    /\ fsize' \in {0, FileSize - 1}
    /\ UNCHANGED <<mainVars, childVars, workerVars, pipeVars, faults>>

\* The program has ended.  Children that it left behind are not followed.
Finished == Ended /\ UNCHANGED vars

MainStep == \/ MainArguments \/ MainCreate \/ MainJoin \/ MainFork \/ MainClose \/ MainScan
            \/ MainWait \/ MainSummary
ChildStep(p) ==
    /\ ~Ended
    /\ ChildCreate(p) \/ ChildJoin(p) \/ ChildReport(p) \/ ChildExit(p)
WorkerStep(w) ==
    /\ ~Ended
    /\ \/ WorkerBegin(w) \/ WorkerNoResult(w) \/ WorkerExits(w)
       \/ WorkerRead(w) \/ WorkerEnd(w)

ProgramStep ==
    \/ MainStep
    \/ \E p \in Children : ChildStep(p)
    \/ \E w \in Workers : WorkerStep(w)

Next == ProgramStep \/ Truncate \/ Finished

\* As long as some thread of the program can run, one does.  Every loop is
\* finite, so it does not matter which.
Spec == Init /\ [][Next]_vars /\ WF_vars(ProgramStep)

-----------------------------------------------------------------------------
\* The children whose line the parent has counted in this round.
Counted == {p \in 0 .. NProcs - 1 : line[p] # {}}

\* In a round with no failure the workers read every byte of the file exactly
\* once, whatever the mode and however the file divides.
EveryByteOnce ==
    mpc = "summary" /\ failures = 0 =>
        \A b \in Offsets :
            Cardinality({w \in Active : /\ SliceStart(FileSize, TotalWorkers, w) <= b
                                        /\ b < pos[w]}) = 1

\* The summary adds up each worker's checksum exactly once: all of them in the
\* threaded modes, and those of the children whose line arrived in the others;
\* a child that failed is left out whole.
SummaryAddsUp ==
    mpc = "summary" =>
        LET counted == IF Threaded THEN Active
                       ELSE {w \in Active : ProcOf(w) \in Counted}
        IN  /\ total.checksum = MapThenSumSet(LAMBDA w : res[w].checksum, counted)
            /\ \A w \in counted : wpc[w] = "done"

\* A worker's minflt is the difference of process-wide counters: it covers the
\* worker's own fault and at most those of the threads of its own process in
\* the same round, never those of another process or an earlier round.
FaultDelta ==
    \A w \in Workers : wpc[w] = "done" =>
        /\ took[w] <= res[w].minflt
        /\ res[w].minflt <= Cardinality({v \in ThreadsOf(ProcOf(w)) : took[v] = 1})

\* When a summary is printed every child of the round has been reaped: the
\* program never starts a round, or returns 0, with zombies behind it.
NoZombiesLeft ==
    mpc \in {"summary", "done"} =>
        \A p \in Children : cpc[p] \in {"none", "reaped"}

\* The program comes to an end, even when a child dies without a word: the
\* parent's fscanf sees end of file, and a NULL result ends its joins.
Terminates == <>Ended
=============================================================================
