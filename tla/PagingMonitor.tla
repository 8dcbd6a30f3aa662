--------------------------- MODULE PagingMonitor ---------------------------
(***************************************************************************)
(* scripts/monitor.sh beside a running demand_paging: two processes, one   *)
(* reading /proc files of the other while it maps, touches and exits.      *)
(* The programs of MemoryLabs that nobody monitors run alone.              *)
(***************************************************************************)
EXTENDS MemoryLabs

VARIABLES proc,          \* /proc/PID of demand_paging: "none", "live", "zombie", "gone"
          mpc,           \* where the script is
          size, rss,     \* vm_size, vm_rss: the mapped region's part of them
          prev, row,     \* prev_minflt, the last row printed
          rates          \* the sum of the MinFlt/s column

monitor == <<mpc, size, rss, prev, row, rates>>
allvars == <<vars, proc, monitor>>

NoRow == [size |-> 0, rss |-> 0, rate |-> 0, total |-> 0]
Readable == proc \in {"live", "zombie"}

MInit ==
    /\ Init
    /\ IF prog = "demand_paging" THEN proc = "none" /\ mpc \in {"off", "search", "given"}
                                 ELSE proc = "live" /\ mpc = "off"
    /\ size = 0 /\ rss = 0 /\ prev = 0 /\ row = NoRow /\ rates = 0

\* demand_paging starts, takes its steps, exits, and is reaped by its shell.
Start == proc = "none" /\ proc' = "live" /\ UNCHANGED <<vars, monitor>>
Run == proc = "live" /\ Next /\ UNCHANGED <<proc, monitor>>
Exit == proc = "live" /\ status # "run" /\ proc' = "zombie" /\ UNCHANGED <<vars, monitor>>
Reap == proc = "zombie" /\ proc' = "gone" /\ UNCHANGED <<vars, monitor>>

Goto(label) == mpc' = label /\ UNCHANGED <<vars, proc, size, rss, prev, row, rates>>

\* With a PID, the script stops unless there is such a process.
TakePid == mpc = "given" /\ proc # "none" /\ Goto(IF Readable THEN "test" ELSE "not found")
\* Without one, it asks pgrep once a second until the process is there.
Search == mpc = "search" /\ Goto(IF Readable THEN "test" ELSE "search")

\* while [[ -r "$STATUS" ]], and the message after the loop.
TestStatus == mpc = "test" /\ Goto(IF Readable THEN "size" ELSE "has exited")

\* Sizes and faults are those of the region demand_paging maps, in pages.  What
\* the program and its libraries have mapped before, fault-around included, is
\* the same in every row and left out.
GrepSize ==
    /\ mpc = "size" /\ proc = "live" /\ mpc' = "rss"
    /\ size' = Cardinality({p \in Arena : mem.vma[p] # "no"})
    /\ UNCHANGED <<vars, proc, rss, prev, row, rates>>
GrepRss ==
    /\ mpc = "rss" /\ proc = "live" /\ mpc' = "faults"
    /\ rss' = Resident(mem)
    /\ UNCHANGED <<vars, proc, size, prev, row, rates>>
\* Mutant: grep is tried until it finds the line.
GrepAgain == mpc \in {"size", "rss"} /\ proc # "live" /\ Goto(mpc)
\* A process that has exited has no Vm lines: grep fails and set -e ends the script.
GrepFails == mpc \in {"size", "rss"} /\ proc # "live" /\ Goto("aborted")

\* Mutant: prev_minflt stays 0.
PrevKept(cur) == prev
\* prev_minflt=$cur_minflt
PrevMinflt(cur) == cur
\* awk on /proc/PID/stat; nothing is read when the process is gone, which the
\* arithmetic takes for 0.  The row is printed and the script sleeps.
PrintRow ==
    /\ mpc = "faults"
    /\ LET cur == IF Readable THEN mem.flt ELSE 0
       IN  /\ row' = [size |-> size, rss |-> rss, rate |-> cur - prev, total |-> cur]
           /\ prev' = PrevMinflt(cur)
           /\ rates' = rates + cur - prev
    /\ mpc' = "test"
    /\ UNCHANGED <<vars, proc, size, rss>>

Script == TakePid \/ Search \/ TestStatus \/ GrepSize \/ GrepRss \/ GrepFails \/ PrintRow
Stopped == mpc \in {"off", "not found", "has exited", "aborted"}
Over == Stopped /\ proc \in {"live", "gone"} /\ status # "run" /\ UNCHANGED allvars

MNext == Start \/ Run \/ Exit \/ Reap \/ Script \/ Over

\* The process and its shell go on once started (the user presses Enter); the
\* script is a process of its own.
MSpec == MInit /\ [][MNext]_allvars /\ WF_allvars(Run) /\ WF_allvars(Exit) /\ WF_allvars(Reap) /\ WF_allvars(Script)

-----------------------------------------------------------------------------
\* A row is made of four reads of a process that runs on.  The rates always
\* add up to the total, a rate is negative only in a row read after the process
\* is gone, and in no other row has the mapped region more resident pages than it
\* has cost faults.  (Of the whole process the VmRSS column may well show more:
\* pages of libraries come many to a fault.)
MonitorRows ==
    /\ rates = row.total
    /\ row.rate < 0 \/ row.rss > row.total => proc = "gone"

\* The script stops once the process it monitors exits, with or without its
\* last message.
MonitorStops == (mpc \in {"test", "size", "rss", "faults"} /\ proc = "zombie") ~> Stopped
=============================================================================
