-------------------------- MODULE LabScriptsProofs --------------------------
(***************************************************************************)
(* Proofs about the scripts and make targets, for any number of edits:     *)
(* whatever was built, edited, broken or cleaned before, run_lab.sh runs a *)
(* numbered lab that compiles and make lab runs its present version.       *)
(***************************************************************************)
EXTENDS LabScripts, TLAPS

-----------------------------------------------------------------------------
(* The inductive invariant.  The two properties are about the outcome of   *)
(* the last command and the present sources; what they need of the past is *)
(* that a binary is a version, never the mark for a missing one.           *)

Versions == Nat \cup {None}

SourcesInv ==
    /\ src \in [Program -> [ver : Nat, ok : BOOLEAN]]
    /\ bin \in [Program -> Versions]

IInv == SourcesInv /\ NumberedLabRuns /\ MakeLabIsCurrent

-----------------------------------------------------------------------------
(* What a build leaves in bin/.                                            *)

\* cc replaces one binary, by the present version, or none.
LEMMA CompiledOne ==
    ASSUME SourcesInv, NEW b \in [Program -> Versions], NEW p \in Program
    PROVE  /\ Compiled(p, b) \in [Program -> Versions]
           /\ src[p].ok => Compiled(p, b)[p] = src[p].ver
           /\ \A q \in Program : q # p => Compiled(p, b)[q] = b[q]
BY DEF SourcesInv, Compiled, Versions

\* After build_all.sh every source that compiles has its present binary.
LEMMA BuildAllCurrent ==
    ASSUME SourcesInv, NEW b \in [Program -> Versions]
    PROVE  /\ BuildAll(b) \in [Program -> Versions]
           /\ \A p \in Program : src[p].ok => BuildAll(b)[p] = src[p].ver
<1> DEFINE one == Compiled("demand_paging", b)
           two == Compiled("page_cache_models", one)
<1>1. "demand_paging" \in Program /\ "page_cache_models" \in Program /\ "lab" \in Program
      BY DEF Program
<1>2. /\ one \in [Program -> Versions]
      /\ src["demand_paging"].ok => one["demand_paging"] = src["demand_paging"].ver
      BY <1>1, CompiledOne
<1> HIDE DEF one
<1>3. /\ two \in [Program -> Versions]
      /\ src["page_cache_models"].ok => two["page_cache_models"] = src["page_cache_models"].ver
      /\ two["demand_paging"] = one["demand_paging"]
      BY <1>1, <1>2, CompiledOne
<1> HIDE DEF two
<1>4. BuildAll(b) = Compiled("lab", two)
      BY DEF BuildAll, one, two
<1>5. /\ BuildAll(b) \in [Program -> Versions]
      /\ src["lab"].ok => BuildAll(b)["lab"] = src["lab"].ver
      /\ BuildAll(b)["demand_paging"] = two["demand_paging"]
      /\ BuildAll(b)["page_cache_models"] = two["page_cache_models"]
      BY <1>1, <1>3, <1>4, CompiledOne
<1> QED BY <1>2, <1>3, <1>5 DEF Program

\* build.sh leaves versions in bin/.
LEMMA BuildTwoTyped ==
    ASSUME SourcesInv
    PROVE  BuildTwo(bin) \in [Program -> Versions]
<1>1. "demand_paging" \in Program /\ "page_cache_models" \in Program
      BY DEF Program
<1>2. bin \in [Program -> Versions]
      BY DEF SourcesInv
<1>3. Compiled("demand_paging", bin) \in [Program -> Versions]
      BY <1>1, <1>2, CompiledOne
<1>4. Compiled("page_cache_models", Compiled("demand_paging", bin)) \in [Program -> Versions]
      BY <1>1, <1>3, CompiledOne
<1> QED BY <1>2, <1>4 DEF BuildTwo

\* run_lab.sh leaves versions in bin/, and runs lab 01 if its source compiles.
LEMMA RunLabEffect ==
    ASSUME SourcesInv, NEW b \in [Program -> Versions], NEW n \in Labs, NEW cmd
    PROVE  /\ RunLabBin(n, b) \in [Program -> Versions]
           /\ RunLabOut(cmd, n, b).cmd = cmd /\ RunLabOut(cmd, n, b).arg = n
           /\ n = "01" /\ src["lab"].ok => RunLabOut(cmd, n, b).status = "ran"
<1>1. /\ BuildAll(b) \in [Program -> Versions]
      /\ src["lab"].ok => BuildAll(b)["lab"] = src["lab"].ver
      BY BuildAllCurrent DEF Program
<1>2. RunLabBin(n, b) \in [Program -> Versions]
      BY <1>1 DEF RunLabBin
<1>3. RunLabOut(cmd, n, b).cmd = cmd /\ RunLabOut(cmd, n, b).arg = n
      BY DEF RunLabOut, Ran, Failed
<1>4. ASSUME n = "01", src["lab"].ok PROVE RunLabOut(cmd, n, b).status = "ran"
      <2>1. src["lab"].ver # None
            BY DEF SourcesInv, Program, None
      <2>2. RunLabBin(n, b)["lab"] # None
            BY <1>1, <1>4, <2>1 DEF RunLabBin, BinOfLab
      <2> QED BY <1>4, <2>2 DEF RunLabOut, BinOfLab, Ran
<1> QED BY <1>2, <1>3, <1>4

-----------------------------------------------------------------------------
(* The commands.                                                           *)

\* A command that is neither run_lab.sh nor make lab.
LEMMA OtherCommand ==
    ASSUME out'.cmd \notin {"run_lab", "make lab"}
    PROVE  NumberedLabRuns' /\ MakeLabIsCurrent'
BY DEF NumberedLabRuns, MakeLabIsCurrent

\* run_lab.sh n
LEMMA RunLabStep == ASSUME IInv, NEW n \in Labs, RunLab(n) PROVE IInv'
<1>1. SourcesInv /\ src' = src /\ bin' = RunLabBin(n, bin) /\ out' = RunLabOut("run_lab", n, bin)
      BY DEF IInv, RunLab
<1>2. bin \in [Program -> Versions]
      BY <1>1 DEF SourcesInv
<1>3. /\ bin' \in [Program -> Versions]
      /\ out'.cmd = "run_lab" /\ out'.arg = n
      /\ n = "01" /\ src["lab"].ok => out'.status = "ran"
      BY <1>1, <1>2, RunLabEffect
<1>4. SourcesInv'
      BY <1>1, <1>3 DEF SourcesInv
<1>5. NumberedLabRuns' /\ MakeLabIsCurrent'
      BY <1>1, <1>3 DEF NumberedLabRuns, MakeLabIsCurrent, IsRun
<1> QED BY <1>4, <1>5 DEF IInv

\* make lab N=n: the build makes the lab's binary current, and run_lab.sh
\* finds it.
LEMMA MakeLabStep == ASSUME IInv, NEW n \in Labs, MakeLab(n) PROVE IInv'
<1> DEFINE b == BuildAll(bin)
<1>1. SourcesInv /\ src' = src /\ bin' = RunLabBin(n, b) /\ out' = RunLabOut("make lab", n, b)
      BY DEF IInv, MakeLab
<1>2. /\ b \in [Program -> Versions]
      /\ \A p \in Program : src[p].ok => b[p] = src[p].ver
      BY <1>1, BuildAllCurrent DEF SourcesInv
<1> HIDE DEF b
<1>3. \A p \in Program : src[p].ver # None
      <2>1. \A v \in Nat : v # None
            BY DEF None
      <2>2. \A p \in Program : src[p].ver \in Nat
            BY <1>1 DEF SourcesInv
      <2> QED BY <2>1, <2>2
<1>4. /\ bin' \in [Program -> Versions]
      /\ out'.cmd = "make lab" /\ out'.arg = n
      <2>1. \A cmd : /\ RunLabBin(n, b) \in [Program -> Versions]
                      /\ RunLabOut(cmd, n, b).cmd = cmd /\ RunLabOut(cmd, n, b).arg = n
            <3>1. SourcesInv
                  BY <1>1, Zenon
            <3> QED BY <1>2, <3>1, RunLabEffect
      <2> QED BY <1>1, <2>1, Zenon
<1>5. SourcesInv'
      BY <1>1, <1>4 DEF SourcesInv
<1>6. ASSUME src[ProgramOf(n)].ok
      PROVE  out'.status = "ran" /\ out'.prog = ProgramOf(n) /\ out'.ver = src[ProgramOf(n)].ver
      <2>1. CASE n = "27"
            <3>1. ProgramOf(n) = "demand_paging" /\ ProgramOf(n) \in Program
                  BY <2>1 DEF ProgramOf, Program
            <3>2. b["demand_paging"] = src["demand_paging"].ver /\ b["demand_paging"] # None
                  BY <1>2, <1>3, <1>6, <3>1
            <3>3. out' = Ran("make lab", n, "demand_paging", b["demand_paging"])
                  BY <1>1, <2>1, <3>2 DEF RunLabOut
            <3> QED BY <3>1, <3>2, <3>3 DEF Ran
      <2>2. CASE n # "27"
            <3>1. ProgramOf(n) = "lab" /\ ProgramOf(n) \in Program
                  BY <2>2 DEF ProgramOf, Program
            <3>2. b["lab"] = src["lab"].ver /\ b["lab"] # None
                  BY <1>2, <1>3, <1>6, <3>1
            <3>3. RunLabBin(n, b) = b
                  BY <2>2, <3>2 DEF RunLabBin, BinOfLab
            <3>4. out' = Ran("make lab", n, "lab", b["lab"])
                  BY <1>1, <2>2, <3>2, <3>3 DEF RunLabOut, BinOfLab
            <3> QED BY <3>1, <3>2, <3>4 DEF Ran
      <2> QED BY <2>1, <2>2
<1>7. NumberedLabRuns'
      BY <1>4 DEF NumberedLabRuns
<1>8. MakeLabIsCurrent'
      <2>1. ProgramOf(out'.arg) = ProgramOf(n)
            BY <1>4
      <2> QED BY <1>1, <1>4, <1>6, <2>1 DEF MakeLabIsCurrent, IsRun, ProgramOf
<1> QED BY <1>5, <1>7, <1>8 DEF IInv

\* The inductive invariant holds after every sequence of edits and commands.
THEOREM Invariance == Spec => []IInv
<1>1. Init => IInv
      <2> SUFFICES ASSUME Init PROVE IInv
          OBVIOUS
      <2>1. SourcesInv
            BY DEF Init, SourcesInv, Versions
      <2>2. NumberedLabRuns /\ MakeLabIsCurrent
            BY DEF Init, NumberedLabRuns, MakeLabIsCurrent, Said, Failed
      <2> QED BY <2>1, <2>2 DEF IInv
<1>2. IInv /\ [Next]_vars => IInv'
      <2> SUFFICES ASSUME IInv, [Next]_vars PROVE IInv'
          OBVIOUS
      <2> SourcesInv
          BY DEF IInv
      <2>1. ASSUME NEW p \in Program, Edit(p) PROVE IInv'
            <3>1. SourcesInv'
                  <4>1. PICK ok \in BOOLEAN : src' = [src EXCEPT ![p] = [ver |-> src[p].ver + 1, ok |-> ok]]
                        BY <2>1 DEF Edit
                  <4> QED BY <2>1, <4>1 DEF Edit, SourcesInv
            <3>2. out'.cmd \notin {"run_lab", "make lab"}
                  BY <2>1 DEF Edit, Said, Failed
            <3> QED BY <3>1, <3>2, OtherCommand DEF IInv
      <2>2. ASSUME NEW n \in Labs, RunLab(n) PROVE IInv'
            BY <2>2, RunLabStep
      <2>3. ASSUME NEW n \in Labs, MakeLab(n) PROVE IInv'
            BY <2>3, MakeLabStep
      <2>4. CASE MakeBuild
            <3>1. SourcesInv'
                  BY <2>4, BuildAllCurrent DEF MakeBuild, SourcesInv
            <3>2. out'.cmd \notin {"run_lab", "make lab"}
                  BY <2>4 DEF MakeBuild, Said, Failed
            <3> QED BY <3>1, <3>2, OtherCommand DEF IInv
      <2>5. CASE MakeClean
            <3>1. SourcesInv'
                  BY <2>5 DEF MakeClean, SourcesInv, Versions
            <3>2. out'.cmd \notin {"run_lab", "make lab"}
                  BY <2>5 DEF MakeClean, Said, Failed
            <3> QED BY <3>1, <3>2, OtherCommand DEF IInv
      <2>6. CASE BuildSh
            <3>1. SourcesInv'
                  BY <2>6, BuildTwoTyped DEF BuildSh, SourcesInv
            <3>2. out'.cmd \notin {"run_lab", "make lab"}
                  BY <2>6 DEF BuildSh, Said, Failed
            <3> QED BY <3>1, <3>2, OtherCommand DEF IInv
      <2>7. CASE RunDemandPaging
            <3>1. SourcesInv'
                  BY <2>7, BuildTwoTyped DEF RunDemandPaging, SourcesInv
            <3>2. out'.cmd \notin {"run_lab", "make lab"}
                  BY <2>7 DEF RunDemandPaging, Ran, Failed
            <3> QED BY <3>1, <3>2, OtherCommand DEF IInv
      <2>8. CASE SetupTestdata
            <3>1. SourcesInv'
                  BY <2>8 DEF SetupTestdata, SourcesInv
            <3>2. out'.cmd \notin {"run_lab", "make lab"}
                  BY <2>8 DEF SetupTestdata, Said, Failed
            <3> QED BY <3>1, <3>2, OtherCommand DEF IInv
      <2>9. ASSUME NEW path, NEW cwd, RunPageCache(path, cwd) PROVE IInv'
            <3>1. SourcesInv'
                  BY <2>9, BuildTwoTyped DEF RunPageCache, SourcesInv
            <3>2. out'.cmd \notin {"run_lab", "make lab"}
                  BY <2>9 DEF RunPageCache, Ran, Failed
            <3> QED BY <3>1, <3>2, OtherCommand DEF IInv
      <2>10. CASE UNCHANGED vars
            BY <2>10 DEF vars, IInv, SourcesInv, NumberedLabRuns, MakeLabIsCurrent, IsRun, ProgramOf
      <2> QED BY <2>1, <2>2, <2>3, <2>4, <2>5, <2>6, <2>7, <2>8, <2>9, <2>10 DEF Next
<1> QED BY <1>1, <1>2, PTL DEF Spec

\* run_lab.sh runs every lab but 27 whose present source compiles, whatever
\* was built, edited, broken or cleaned before.
THEOREM LabRuns == Spec => []NumberedLabRuns
BY Invariance, PTL DEF IInv

\* make lab N=... runs the present version of a lab whose source compiles,
\* lab 27 included, whatever stale binaries there were.
THEOREM LabIsCurrent == Spec => []MakeLabIsCurrent
BY Invariance, PTL DEF IInv
=============================================================================
