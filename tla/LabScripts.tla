----------------------------- MODULE LabScripts -----------------------------
(***************************************************************************)
(* The shell scripts and make targets that build and run the labs:         *)
(* scripts/build_all.sh, build.sh, run_lab.sh, run_demand_paging_lab.sh,   *)
(* run_page_cache_lab.sh, setup_testdata.sh, and make lab, testdata and    *)
(* clean.  One numbered lab stands for labs 01 to 40 without 27.  A user   *)
(* edits sources and gives commands in any order; a command runs to its    *)
(* end before the next.                                                    *)
(*                                                                         *)
(* A source is a version and whether it compiles; a binary is the version  *)
(* it was built from.  When cc fails the old binary stays.                 *)
(***************************************************************************)
EXTENDS Integers

CONSTANT MaxEdits   \* bound: edits of each source

ASSUME EditsAssumption == MaxEdits \in Nat

Program == {"lab", "demand_paging", "page_cache_models"}
Labs == {"01", "27"}
None == -1          \* no binary

\* The directory a path names, seen from a directory of the checkout.
Dirs == {"scripts", "root", "parent"}
Up(dir) == IF dir = "scripts" THEN "root" ELSE "parent"

VARIABLES src,       \* every program's source: version, and if it compiles
          bin,       \* every program's binary under bin/
          testdata,  \* the directories that hold a testdata.bin
          out        \* the last command and how it ended

vars == <<src, bin, testdata, out>>

\* How a command ended.
Ran(cmd, arg, p, ver) ==
    [cmd |-> cmd, arg |-> arg, status |-> "ran", prog |-> p, ver |-> ver]
Failed(cmd, arg, why) ==
    [cmd |-> cmd, arg |-> arg, status |-> why, prog |-> "none", ver |-> None]
Said(cmd) == Failed(cmd, "none", "said")

\* A fresh checkout: bin/ and testdata.bin are not under version control.
Init ==
    /\ src = [p \in Program |-> [ver |-> 0, ok |-> TRUE]]
    /\ bin = [p \in Program |-> None]
    /\ testdata = {}
    /\ out = Said("none")

-----------------------------------------------------------------------------
(* What the scripts do to bin/.                                            *)

Compiled(p, b) == IF src[p].ok THEN [b EXCEPT ![p] = src[p].ver] ELSE b

\* build_all.sh: every program, a failure is reported and passed over.  There
\* is no bin/lab_27; lab 27 is bin/demand_paging.
BuildAll(b) == Compiled("lab", Compiled("page_cache_models", Compiled("demand_paging", b)))

\* build.sh under set -e: the first failure ends the script.
BuildTwo(b) ==
    IF src["demand_paging"].ok
    THEN Compiled("page_cache_models", Compiled("demand_paging", b)) ELSE b

BuildTwoOk == src["demand_paging"].ok /\ src["page_cache_models"].ok

\* The binary run_lab.sh looks for in its second part: bin/lab_NN.  There is
\* none for lab 27.
BinOfLab(n, b) == IF n = "27" THEN None ELSE b["lab"]

\* Mutant: build when the binary is there instead of when it is missing.
RunLabBinInverted(n, b) ==
    IF n = "27" /\ b["demand_paging"] # None THEN b
    ELSE IF BinOfLab(n, b) # None THEN BuildAll(b) ELSE b

\* What run_lab.sh n leaves and says, started with the binaries b.
RunLabBin(n, b) ==
    IF n = "27" /\ b["demand_paging"] # None THEN b
    ELSE IF BinOfLab(n, b) = None THEN BuildAll(b) ELSE b

RunLabOut(cmd, n, b) ==
    LET after == RunLabBin(n, b)
    IN  IF n = "27" /\ b["demand_paging"] # None
        THEN Ran(cmd, n, "demand_paging", b["demand_paging"])
        ELSE IF BinOfLab(n, after) # None
        THEN Ran(cmd, n, "lab", after["lab"])
        ELSE Failed(cmd, n, "binary not found after build")

-----------------------------------------------------------------------------
\* The user changes a source, for better or worse.
Edit(p) ==
    /\ src[p].ver < MaxEdits
    /\ \E ok \in BOOLEAN : src' = [src EXCEPT ![p] = [ver |-> @.ver + 1, ok |-> ok]]
    /\ out' = Said("edit")
    /\ UNCHANGED <<bin, testdata>>

\* ./scripts/run_lab.sh n
RunLab(n) ==
    /\ bin' = RunLabBin(n, bin)
    /\ out' = RunLabOut("run_lab", n, bin)
    /\ UNCHANGED <<src, testdata>>

\* Mutant: the target does not depend on build.
MakeLabNoBuild(n) ==
    /\ bin' = RunLabBin(n, bin)
    /\ out' = RunLabOut("make lab", n, bin)
    /\ UNCHANGED <<src, testdata>>

\* make lab N=n: the target depends on build, which never fails.
MakeLab(n) ==
    /\ bin' = RunLabBin(n, BuildAll(bin))
    /\ out' = RunLabOut("make lab", n, BuildAll(bin))
    /\ UNCHANGED <<src, testdata>>

MakeBuild ==
    /\ bin' = BuildAll(bin)
    /\ out' = Said("make build")
    /\ UNCHANGED <<src, testdata>>

\* make clean: rm -rf bin/*
MakeClean ==
    /\ bin' = [p \in Program |-> None]
    /\ out' = Said("make clean")
    /\ UNCHANGED <<src, testdata>>

\* ./scripts/build.sh
BuildSh ==
    /\ bin' = BuildTwo(bin)
    /\ out' = Said("build.sh")
    /\ UNCHANGED <<src, testdata>>

\* ./scripts/run_demand_paging_lab.sh
RunDemandPaging ==
    LET missing == bin["demand_paging"] = None
        after == IF missing THEN BuildTwo(bin) ELSE bin
    IN  /\ bin' = after
        /\ out' = IF missing /\ ~BuildTwoOk
                  THEN Failed("run_demand_paging_lab", "27", "build failed")
                  ELSE Ran("run_demand_paging_lab", "27", "demand_paging", after["demand_paging"])
        /\ UNCHANGED <<src, testdata>>

\* ./scripts/setup_testdata.sh and make testdata: both in the root of the
\* checkout, wherever they are called from.
SetupTestdata ==
    /\ testdata' = testdata \cup {"root"}
    /\ out' = Said("setup_testdata")
    /\ UNCHANGED <<src, bin>>

\* Where run_page_cache_lab.sh looks for its file: line 6 has changed to the
\* root before line 11 tests the path, whose default is ../testdata.bin.
FileDir(path, cwd) == IF path = "../testdata.bin" THEN Up("root") ELSE "root"

\* run_page_cache_lab.sh [path], called in directory cwd.
RunPageCache(path, cwd) ==
    LET missing == bin["page_cache_models"] = None
        after == IF missing THEN BuildTwo(bin) ELSE bin
    IN  /\ bin' = after
        /\ out' = IF missing /\ ~BuildTwoOk
                  THEN Failed("run_page_cache_lab", <<cwd, path>>, "build failed")
                  ELSE IF FileDir(path, cwd) \notin testdata
                  THEN Failed("run_page_cache_lab", <<cwd, path>>, "test file not found")
                  ELSE Ran("run_page_cache_lab", <<cwd, path>>, "page_cache_models",
                           after["page_cache_models"])
        /\ UNCHANGED <<src, testdata>>

Next ==
    \/ \E p \in Program : Edit(p)
    \/ \E n \in Labs : RunLab(n) \/ MakeLab(n)
    \/ MakeBuild \/ MakeClean \/ BuildSh \/ RunDemandPaging \/ SetupTestdata
    \/ \E path \in {"testdata.bin", "../testdata.bin"}, cwd \in {"scripts", "root"} :
          RunPageCache(path, cwd)

Spec == Init /\ [][Next]_vars

-----------------------------------------------------------------------------
ProgramOf(n) == IF n = "27" THEN "demand_paging" ELSE "lab"
IsRun(cmd) == out.cmd = cmd /\ out.status = "ran"

\* run_lab.sh builds what is missing: it runs any lab but 27 whose source
\* compiles, whatever was built, edited or cleaned before.
NumberedLabRuns ==
    out.cmd = "run_lab" /\ out.arg = "01" /\ src["lab"].ok => IsRun("run_lab")

\* make lab N=... never shows an old version of a lab whose present source
\* compiles, 27 included.
MakeLabIsCurrent ==
    out.cmd = "make lab" /\ src[ProgramOf(out.arg)].ok =>
        /\ IsRun("make lab")
        /\ out.prog = ProgramOf(out.arg)
        /\ out.ver = src[out.prog].ver

\* run_lab.sh:15 and README.md:43: "./scripts/run_lab.sh 27" runs demand paging.
\* The script promises to build what is missing, for 27 like for any lab.
Lab27Runs ==
    out.cmd = "run_lab" /\ out.arg = "27" /\ src["demand_paging"].ok => IsRun("run_lab")

\* steps/02-page-cache-lab.md:14-26: after setup_testdata.sh, in scripts/, run
\* "./run_page_cache_lab.sh ../testdata.bin".
DocumentedCommandRuns ==
      /\ out.cmd = "run_page_cache_lab" /\ out.arg = <<"scripts", "../testdata.bin">>
      /\ "root" \in testdata /\ BuildTwoOk
    => IsRun("run_page_cache_lab")
=============================================================================
