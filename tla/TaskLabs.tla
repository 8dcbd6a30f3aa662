------------------------------ MODULE TaskLabs ------------------------------
(***************************************************************************)
(* The labs that make processes and threads: fork, exec, _exit and wait,   *)
(* pthread_create and join, pipes between the two, a futex.  Each routine  *)
(* is a list of steps that one task runs; the tasks interleave.            *)
(*                                                                         *)
(* Every process has its own memory and its own stdio buffer, both copied  *)
(* by fork.  On a terminal each line is written at once; into a pipe or a  *)
(* file the buffer is written when the process calls exit() or returns     *)
(* from main, and is lost with _exit() and exec.                           *)
(***************************************************************************)
EXTENDS Integers, SequencesExt, Bags

CONSTANT Rounds   \* round trips through the pipes of lab 15 (100000 there)

ASSUME RoundsAssumption == Rounds \in Nat \ {0}

Unsaid == -1   \* a value nobody is told to expect

Step(op) == [op |-> op, who |-> "", var |-> "", val |-> Unsaid]
Line == Step("print")
Show(var, v) == [Line EXCEPT !.var = var, !.val = v]
Set(var, v) == [Step("set") EXCEPT !.var = var, !.val = v]
Add(var, v) == [Step("add") EXCEPT !.var = var, !.val = v]
Fork(c) == [Step("fork") EXCEPT !.who = c]
\* fork whose failure ends main.
ForkOrReturn(c) == [Fork(c) EXCEPT !.val = 1]
Create(t) == [Step("create") EXCEPT !.who = t]
Join(t) == [Step("join") EXCEPT !.who = t]
UnderscoreExit(v) == [Step("_exit") EXCEPT !.val = v]
Pipe(op, p) == [Step(op) EXCEPT !.who = p]
Return == Step("return")
Times(n, s) == FlattenSeq([i \in 1 .. n |-> s])

\* Lab 1: three threads add to two variables of the process, a child process
\* changes its own copy.
thread_func == <<Line, Add("x", 1), Add("y", 10), Line, Return>>
demo_threads_shared_space ==
    [main |-> <<Set("x", 42), Set("y", 100), Line, Create("a"), Create("b"), Create("c"), Join("a"), Join("b"),
                Join("c"), Show("x", 45), Show("y", 130), Return>>,
     a |-> thread_func, b |-> thread_func, c |-> thread_func]
demo_process_isolation ==
    [main |-> <<Set("x", 500), Line, Fork("a"), Step("wait"), Show("x", 500), Return>>,
     a |-> <<Set("x", 999), Show("x", 999), Line, UnderscoreExit(0)>>]

\* Lab 13, phase 4: x is the number of areas, which the child inherits.
vma_counts == [main |-> <<Set("x", 7), Line, Fork("a"), Step("wait"), Line, Return>>,
               a |-> <<Show("x", 7), UnderscoreExit(0)>>]

\* Lab 14: three children, the last of which becomes ls; then one zombie.
fork_exec_wait ==
    [main |-> <<Line, Fork("a"), Fork("b"), Fork("c"), Step("wait"), Step("reaped"), Step("wait"), Step("reaped"),
                Step("wait"), Step("reaped"), Return>>,
     a |-> <<Line, UnderscoreExit(0)>>, b |-> <<Line, UnderscoreExit(1)>>,
     c |-> <<Line, Line, Step("exec"), UnderscoreExit(2)>>]
zombie == [main |-> <<Fork("a"), Line, Step("wait"), Line, Return>>, a |-> <<UnderscoreExit(0)>>]

\* Lab 15: one byte goes to and fro.
demo_ctx_switch_cost ==
    [main |-> <<Line, Fork("a")>> \o Times(Rounds, <<Pipe("write", "p1"), Pipe("read", "p2")>>)
              \o <<Step("wait"), Line, Return>>,
     a |-> Times(Rounds, <<Pipe("read", "p1"), Pipe("write", "p2")>>) \o <<UnderscoreExit(0)>>]
demo_thread_switch ==
    [main |-> <<Line, Create("a")>> \o Times(Rounds, <<Pipe("write", "p1"), Pipe("read", "p2")>>)
              \o <<Join("a"), Line, Return>>,
     a |-> Times(Rounds, <<Pipe("read", "p1"), Pipe("write", "p2")>>) \o <<Return>>]

\* Mutant: main wakes the sleeper before it sets the word.
futex_main_swapped == <<Create("a"), Line, Step("futex_wake"), Set("x", 1), Join("a"), Return>>
\* Lab 25: x is futex_val.
futex_main == <<Create("a"), Line, Set("x", 1), Step("futex_wake"), Join("a"), Return>>
sleeper == <<Line, Step("while0"), Step("futex_wait"), Show("x", 1), Return>>
futex == [main |-> futex_main, a |-> sleeper]

\* Exercise 9: the parent looks at the child's /proc entry before waitpid.
ex_process_lineage ==
    [main |-> <<Line, Fork("a"), Line, Step("peek"), Step("wait"), Show("status", 42), Return>>,
     a |-> <<Line, Line, UnderscoreExit(42)>>]

\* page_cache_models, procs: a worker that cannot open the file calls exit(1).
page_cache_procs ==
    [main |-> <<Line, ForkOrReturn("a"), ForkOrReturn("b"), Step("wait"), Step("wait"), Line, Return>>,
     a |-> <<Step("read_range"), UnderscoreExit(0)>>, b |-> <<Step("read_range"), UnderscoreExit(0)>>]

Programs == [demo_threads_shared_space |-> demo_threads_shared_space,
             demo_process_isolation |-> demo_process_isolation, vma_counts |-> vma_counts,
             fork_exec_wait |-> fork_exec_wait, zombie |-> zombie, demo_ctx_switch_cost |-> demo_ctx_switch_cost,
             demo_thread_switch |-> demo_thread_switch, futex |-> futex,
             ex_process_lineage |-> ex_process_lineage, page_cache_procs |-> page_cache_procs]

-----------------------------------------------------------------------------
Tasks == {"main", "a", "b", "c"}
Garbage == 77   \* an uninitialised status

VARIABLES prog, tty,
          st, pc,        \* of each task: "none", "run", "asleep", "zombie", "gone"
          home,          \* the process a task belongs to, named after its first task
          mem, buf, code,   \* of each process: variables, stdio buffer, exit status
          pipes, out,    \* bytes in the pipes, the lines that were written
          told, said,    \* values shown with those expected, lines printed by printf
          nofork         \* a fork failed

vars == <<prog, tty, st, pc, home, mem, buf, code, pipes, out, told, said, nofork>>
stdio == <<buf, out, told, said>>

Init ==
    /\ prog \in DOMAIN Programs /\ tty \in BOOLEAN
    /\ st = [t \in Tasks |-> IF t = "main" THEN "run" ELSE "none"]
    /\ pc = [t \in Tasks |-> 1] /\ home = [t \in Tasks |-> "main"]
    /\ mem = [t \in Tasks |-> [x |-> 0, y |-> 0, status |-> Garbage]]
    /\ buf = [t \in Tasks |-> {}] /\ code = [t \in Tasks |-> Unsaid]
    /\ pipes = [p \in {"p1", "p2"} |-> 0] /\ out = EmptyBag
    /\ told = {} /\ said = {} /\ nofork = FALSE

Code(t) == Programs[prog][t]
Now(t) == Code(t)[pc[t]]
At(t, op) == st[t] = "run" /\ Now(t).op = op
Advance(t) == pc' = [pc EXCEPT ![t] = @ + 1]
Var(t, v) == mem[home[t]][v]

\* printf: written at once on a terminal, otherwise buffered.
Says(t, shows) ==
    LET line == <<t, pc[t]>>
    IN  /\ said' = said \cup {line} /\ told' = told \cup shows
        /\ IF tty THEN out' = out (+) SetToBag({line}) /\ UNCHANGED buf
           ELSE buf' = [buf EXCEPT ![home[t]] = @ \cup {line}] /\ UNCHANGED out
        /\ Advance(t)
        /\ UNCHANGED <<prog, tty, st, home, mem, code, pipes, nofork>>
Printf(t) ==
    /\ At(t, "print")
    /\ Says(t, IF Now(t).val = Unsaid THEN {} ELSE {[got |-> Var(t, Now(t).var), told |-> Now(t).val]})

\* if (WIFEXITED(status)) printf("Reaped ..."): y is the child wait returned.
ReapedLine(t) ==
    /\ At(t, "reaped")
    /\ Says(t, {[got |-> Var(t, "status"), told |-> Var(t, "y")]})

\* The state of the child as its /proc entry shows it, if it has one.
Peek(t) ==
    /\ At(t, "peek")
    /\ Says(t, {[got |-> IF st["a"] \in {"none", "gone"} THEN 0 ELSE 1, told |-> 1]})

\* A plain or an atomic assignment.
Assign(t) ==
    /\ At(t, "set") \/ At(t, "add")
    /\ mem' = [mem EXCEPT ![home[t]][Now(t).var] = IF At(t, "set") THEN Now(t).val ELSE @ + Now(t).val]
    /\ Advance(t)
    /\ UNCHANGED <<prog, tty, st, home, code, pipes, stdio, nofork>>

\* The child starts with copies of the parent's memory and of its buffer.
ForkOk(t) ==
    /\ At(t, "fork")
    /\ LET c == Now(t).who
       IN  /\ st' = [st EXCEPT ![c] = "run"] /\ home' = [home EXCEPT ![c] = c]
           /\ mem' = [mem EXCEPT ![c] = mem[home[t]]] /\ buf' = [buf EXCEPT ![c] = buf[home[t]]]
    /\ Advance(t)
    /\ UNCHANGED <<prog, tty, code, pipes, out, told, said, nofork>>
ForkFails(t) ==
    /\ At(t, "fork") /\ nofork' = TRUE
    /\ pc' = [pc EXCEPT ![t] = IF Now(t).val = 1 THEN Len(Code(t)) ELSE @ + 1]
    /\ UNCHANGED <<prog, tty, st, home, mem, code, pipes, stdio>>
ThreadCreate(t) ==
    /\ At(t, "create")
    /\ st' = [st EXCEPT ![Now(t).who] = "run"] /\ home' = [home EXCEPT ![Now(t).who] = home[t]]
    /\ Advance(t)
    /\ UNCHANGED <<prog, tty, mem, code, pipes, stdio, nofork>>

\* Mutant: children leave with exit().
FlushesAlways(op) == op \in {"exit", "_exit", "return"}
\* What ends a process and writes its buffer.
Flushes(op) == op \in {"exit", "return"}
Ends(t, op, v) ==
    LET flushed == IF home[t] = t /\ Flushes(op) THEN buf[t] ELSE {}
    IN  /\ st' = [st EXCEPT ![t] = IF home[t] = t /\ t # "main" THEN "zombie" ELSE "gone"]
        /\ code' = [code EXCEPT ![t] = v]
        /\ out' = out (+) SetToBag(flushed) /\ buf' = IF home[t] = t THEN [buf EXCEPT ![t] = {}] ELSE buf
        /\ UNCHANGED <<prog, tty, pc, home, mem, pipes, told, said, nofork>>
Exit(t) ==
    \/ At(t, "_exit") /\ Ends(t, "_exit", Now(t).val)
    \/ At(t, "return") /\ Ends(t, "return", 0)
    \/ At(t, "exec") /\ Ends(t, "exec", 0)
    \/ At(t, "read_range") /\ Ends(t, "exit", 1)
\* execl fails, or the worker of page_cache_models does not.
GoesOn(t) ==
    /\ At(t, "exec") \/ At(t, "read_range")
    /\ Advance(t) /\ UNCHANGED <<prog, tty, st, home, mem, code, pipes, stdio, nofork>>

Zombies == {c \in Tasks : st[c] = "zombie"}
Children == {c \in Tasks \ {"main"} : home[c] = c /\ st[c] \in {"run", "asleep", "zombie"}}
\* Mutant: wait with WNOHANG.
WaitAtOnce == TRUE
\* wait returns when a child is a zombie, or at once when there is none.
WaitReturns == Zombies # {} \/ Children = {}
Wait(t) ==
    /\ At(t, "wait") /\ WaitReturns
    /\ IF Zombies # {}
       THEN \E c \in Zombies : /\ st' = [st EXCEPT ![c] = "gone"]
                               /\ mem' = [mem EXCEPT ![t].status = code[c], ![t].y = code[c]]
       ELSE \E s \in {mem[t].status, Garbage} : mem' = [mem EXCEPT ![t].status = s, ![t].y = Unsaid] /\ UNCHANGED st
    /\ Advance(t)
    /\ UNCHANGED <<prog, tty, home, code, pipes, stdio, nofork>>
ThreadJoin(t) ==
    /\ At(t, "join") /\ st[Now(t).who] = "gone" /\ Advance(t)
    /\ UNCHANGED <<prog, tty, st, home, mem, code, pipes, stdio, nofork>>

PipeIO(t) ==
    /\ At(t, "write") \/ (At(t, "read") /\ pipes[Now(t).who] > 0)
    /\ pipes' = [pipes EXCEPT ![Now(t).who] = IF At(t, "write") THEN @ + 1 ELSE @ - 1]
    /\ Advance(t)
    /\ UNCHANGED <<prog, tty, st, home, mem, code, stdio, nofork>>

-----------------------------------------------------------------------------
\* while (atomic_load(&futex_val) == 0) futex_wait(&futex_val, 0): the kernel
\* compares the word again before the task sleeps.
WhileZero(t) ==
    /\ At(t, "while0") /\ pc' = [pc EXCEPT ![t] = IF Var(t, "x") = 0 THEN @ + 1 ELSE @ + 2]
    /\ UNCHANGED <<prog, tty, st, home, mem, code, pipes, stdio, nofork>>
FutexWait(t) ==
    /\ At(t, "futex_wait") /\ pc' = [pc EXCEPT ![t] = @ - 1]
    /\ st' = IF Var(t, "x") = 0 THEN [st EXCEPT ![t] = "asleep"] ELSE st
    /\ UNCHANGED <<prog, tty, home, mem, code, pipes, stdio, nofork>>
Sleepers == {t \in Tasks : st[t] = "asleep"}
FutexWake(t) ==
    /\ At(t, "futex_wake")
    /\ IF Sleepers = {} THEN UNCHANGED st ELSE \E s \in Sleepers : st' = [st EXCEPT ![s] = "run"]
    /\ Advance(t)
    /\ UNCHANGED <<prog, tty, home, mem, code, pipes, stdio, nofork>>
\* FUTEX_WAIT is interrupted.
Interrupted ==
    /\ \E s \in Sleepers : st' = [st EXCEPT ![s] = "run"]
    /\ UNCHANGED <<prog, tty, pc, home, mem, code, pipes, stdio, nofork>>

TaskStep(t) ==
    \/ Printf(t) \/ ReapedLine(t) \/ Peek(t) \/ Assign(t) \/ ForkOk(t) \/ ForkFails(t) \/ ThreadCreate(t)
    \/ Exit(t) \/ GoesOn(t) \/ Wait(t) \/ ThreadJoin(t) \/ PipeIO(t)
    \/ WhileZero(t) \/ FutexWait(t) \/ FutexWake(t)

\* Without its child the parent of lab 15 holds both ends of the pipes: its
\* read never returns.
Hangs == prog = "demo_ctx_switch_cost" /\ nofork /\ At("main", "read") /\ pipes["p2"] = 0
Ended == (st["main"] = "gone" \/ Hangs) /\ UNCHANGED vars

Next == (\E t \in Tasks : TaskStep(t)) \/ Interrupted \/ Ended

\* Every task that can take a step is scheduled some time.
Spec == Init /\ [][Next]_vars /\ \A t \in Tasks : WF_vars(TaskStep(t))

-----------------------------------------------------------------------------
\* The values that are shown are those of the text beside them: the threads'
\* sums after the joins, the parent's copy and the child's after fork, the
\* status of the child that was reaped, an entry in /proc that is there until
\* waitpid.  A fork that fails is noticed by none of them.
ReportsTrue == \A r \in told : r.got = r.told \/ nofork

FromChild(line) == home[line[1]] # "main"

\* No line is written twice, except those the worker of page_cache_models
\* writes again with the buffer it inherited when its process calls exit(1).
\* On a terminal no line is lost; otherwise what a child prints is.
WrittenOnce ==
    /\ \A line \in BagToSet(out) :
           CopiesIn(line, out) > 1 => prog = "page_cache_procs" /\ ~tty /\ \E c \in Tasks : code[c] = 1
    /\ st["main"] = "gone" => \A line \in said : BagIn(line, out) \/ (~tty /\ FromChild(line))

\* Every program comes to its end, whoever runs first: no wake of the futex is
\* missed and no pipe or wait blocks for ever, unless lab 15 could not fork.
Termination == <>(st["main"] = "gone" \/ Hangs)
=============================================================================
