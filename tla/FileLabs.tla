------------------------------ MODULE FileLabs ------------------------------
(***************************************************************************)
(* The file programs of labs 29 to 32: each is a list of system calls.     *)
(* Most of their results are not looked at, so a call that fails is        *)
(* followed by the next one; a checked call names where it goes instead.   *)
(* Every call may fail, each time it is made.                              *)
(*                                                                         *)
(* The kernel keeps every inode and the directory twice, in memory and on  *)
(* disk.  Anything may be written back at any time and in any order; only  *)
(* fsync waits for it.  A crash keeps what is on disk, and the lab is run  *)
(* again.                                                                  *)
(***************************************************************************)
EXTENDS Integers, Sequences

CONSTANTS PageCounts,   \* sizes, in pages, of lab 29's file
          MaxCrashes

ASSUME FileAssumption == PageCounts \subseteq Nat \ {0} /\ MaxCrashes \in Nat

\* A call: its operation, the file it is about, the call that follows when it
\* fails (0: the next one, the result is not looked at).
Call(op, file) == [op |-> op, file |-> file, err |-> 0]
Checked(op, file, target) == [op |-> op, file |-> file, err |-> target]

\* Lab 32, phase 2: a fixed name for the temporary file, nothing is checked.
fsync_ordering_demo ==
    << Call("creat", "tmp"), Call("write", "tmp"), Call("fsync", "tmp"), Call("close", "tmp"),
       Call("rename", "tmp"), Call("open", "dir"), Call("fsync", "dir"), Call("close", "dir"),
       Call("unlink", "final"), Call("exit", "none") >>

\* Mutant: the final file is left behind when the demonstration is over.
final_kept ==
    << Checked("mkstemp", "tmp", 9), Call("write", "tmp"), Call("fsync", "tmp"), Call("close", "tmp"),
       Call("rename", "tmp"), Checked("open", "dir", 9), Call("fsync", "dir"), Call("close", "dir"),
       Call("exit", "none") >>
\* Lab 32, phase 4: only mkstemp and the open of the directory are checked.
crash_recovery_scenario ==
    << Checked("mkstemp", "tmp", 10), Call("write", "tmp"), Call("fsync", "tmp"), Call("close", "tmp"),
       Call("rename", "tmp"), Checked("open", "dir", 9), Call("fsync", "dir"), Call("close", "dir"),
       Call("unlink", "final"), Call("exit", "none") >>

\* Lab 31, phase 1.
open_write_fsync ==
    << Call("creat", "tmp"), Call("fill", "tmp"), Call("fsync", "tmp"), Call("close", "tmp"),
       Call("unlink", "tmp"), Call("exit", "none") >>

\* Lab 31, phase 4: both files are opened before either is tested; cleanup31
\* is call 8, and closes and unlinks what was opened.
file_copy ==
    << Call("mkstemp", "tmp"), Call("mkstemp", "dst"), Checked("opened", "both", 8), Call("fill", "tmp"),
       Call("fsync", "tmp"), Call("copy", "dst"), Call("fsync", "dst"), Call("cleanup", "tmp"),
       Call("cleanup", "dst"), Call("exit", "none") >>

\* Lab 29, phase 5: every failure before the reads closes and unlinks.
pread_latency ==
    << Checked("mkstemp", "tmp", 10), Checked("malloc", "wbuf", 8), Call("fill", "tmp"),
       Call("fsync", "tmp"), Checked("malloc", "rbuf", 8), Call("pread", "sequential"),
       Call("pread", "strided"), Call("close", "tmp"), Call("unlink", "tmp"), Call("exit", "none") >>

\* Lab 30, phase 4: a second name for the inode, if link succeeds.
inode_information ==
    << Checked("mkstemp", "tmp", 7), Call("write", "tmp"), Call("close", "tmp"),
       Checked("link", "dst", 6), Call("unlink", "dst"), Call("unlink", "tmp"), Call("exit", "none") >>

Programs == [fsync_ordering_demo |-> fsync_ordering_demo,
             crash_recovery_scenario |-> crash_recovery_scenario,
             open_write_fsync |-> open_write_fsync, file_copy |-> file_copy,
             pread_latency |-> pread_latency, inode_information |-> inode_information]

-----------------------------------------------------------------------------
\* Contents are sequences of blocks; the n-th block of a loop of writes is n.
OldData == <<0>>
NewData == <<1>>
Partial == -1
NoFile == <<-2>>   \* what a reader sees under a name that does not exist

Names == {"tmp", "dst", "final"}
Inodes == 1 .. 8

VARIABLES prog, npages,
          pc, i,           \* the next call, and the iterations of its loop
          fd,              \* the inode each file is open on, 0 when it is not
          dir, data,       \* the directory and the inodes in memory
          diskDir, disk,   \* the same on disk
          seen,            \* how often each page was read by pread
          failed,          \* the calls of this run that failed, by operation and file
          faulty,          \* ever, a call failed and its result was not looked at
          damaged,         \* ever, that was a write, or the fsync of the temporary file
          crashes

vars == <<prog, npages, pc, i, fd, dir, data, diskDir, disk, seen, failed, faulty, damaged, crashes>>
kernel == <<fd, dir, data, diskDir, disk>>
idle == <<prog, npages, crashes>>
errors == <<failed, faulty, damaged>>

Closed == [f \in Names \cup {"dir"} |-> 0]
NotSeen == [p \in 0 .. npages - 1 |-> 0]
Uses(op) == \E k \in DOMAIN Programs[prog] : Programs[prog][k].op = op

Init ==
    /\ prog \in DOMAIN Programs /\ npages \in PageCounts
    /\ pc = 1 /\ i = 0 /\ fd = Closed
    /\ \E old \in IF Uses("rename") THEN {0, 1} ELSE {0} :
           dir = [n \in Names |-> IF n = "final" THEN old ELSE 0]
    /\ data = [n \in Inodes |-> IF n = dir["final"] THEN OldData ELSE <<>>]
    /\ diskDir = dir /\ disk = data
    /\ seen = NotSeen /\ failed = {} /\ faulty = FALSE /\ damaged = FALSE /\ crashes = 0

-----------------------------------------------------------------------------
Current == Programs[prog][pc]
At(op) == Current.op = op
Advance == pc' = pc + 1 /\ i' = 0
\* One more round of the loop the call stands for, or the end of it.
Loop(more) == IF more THEN pc' = pc /\ i' = i + 1 ELSE Advance

InUse == (UNION {{dir[n], diskDir[n], fd[n]} : n \in Names}) \ {0}
FreeInode == CHOOSE n \in Inodes : n \notin InUse

Failed(op, f) == failed' = failed \cup {<<op, f>>}

\* Bound: of the rounds of one loop of writes a single one fails on its own.
MayFail == <<"write", Current.file>> \notin failed

\* mkstemp, or open with O_CREAT | O_TRUNC: a name mkstemp returns is new.
Create ==
    /\ At("mkstemp") \/ At("creat")
    /\ LET f == Current.file
           n == IF dir[f] # 0 THEN dir[f] ELSE FreeInode
       IN  /\ dir' = [dir EXCEPT ![f] = n]
           /\ fd' = [fd EXCEPT ![f] = n]
           /\ data' = [data EXCEPT ![n] = <<>>]
           /\ disk' = IF dir[f] # 0 THEN disk ELSE [disk EXCEPT ![n] = <<>>]
    /\ Advance
    /\ UNCHANGED <<idle, diskDir, seen, errors>>

\* open("/tmp", O_RDONLY); its descriptor is any number but 0.
OpenDir ==
    /\ At("open") /\ fd' = [fd EXCEPT !["dir"] = 1] /\ Advance
    /\ UNCHANGED <<idle, dir, data, diskDir, disk, seen, errors>>

\* The block that the current round of a call writes, and where it goes.
\* Round i of a loop of writes, or of reads each followed by a write.
Block == IF At("copy") THEN data[fd["tmp"]][i + 1] ELSE i + 1
Writing == At("write") \/ At("fill") \/ (At("copy") /\ i < Len(data[fd["tmp"]]))

\* A further round of the loop is left.
MoreToWrite == i + 1 < IF At("copy") THEN Len(data[fd["tmp"]])
                       ELSE IF At("fill") THEN npages ELSE 1

\* write(fd, buf, n): everything is written.
Write ==
    /\ Writing /\ fd[Current.file] # 0
    /\ data' = [data EXCEPT ![fd[Current.file]] = Append(@, Block)]
    /\ Loop(MoreToWrite)
    /\ UNCHANGED <<idle, fd, dir, diskDir, disk, seen, errors>>

\* A write that fails or is cut short; nobody compares its result.
WriteFails ==
    /\ Writing /\ (MayFail \/ fd[Current.file] = 0)
    /\ data' \in {data} \cup (IF fd[Current.file] = 0 THEN {}
                              ELSE {[data EXCEPT ![fd[Current.file]] = Append(@, Partial)]})
    /\ Failed("write", Current.file) /\ faulty' = TRUE /\ damaged' = TRUE
    /\ Loop(MoreToWrite)
    /\ UNCHANGED <<idle, fd, dir, diskDir, disk, seen>>

\* Nothing to read: the copy's loop is not entered.
EmptyCopy ==
    /\ At("copy") /\ data[fd["tmp"]] = <<>> /\ Advance
    /\ UNCHANGED <<idle, kernel, seen, errors>>

\* A read that fails ends the copy's loop as the end of the file does.
ReadFails ==
    /\ At("copy") /\ Failed("read", "tmp") /\ faulty' = TRUE /\ Advance
    /\ UNCHANGED <<idle, kernel, seen, damaged>>

\* Mutant: fsync is forgotten, the data is left to be written back some day.
SyncedLater(n) == disk
\* The disk after fsync of the inode n.
Synced(n) == [disk EXCEPT ![n] = data[n]]

Fsync ==
    /\ At("fsync") /\ fd[Current.file] # 0
    /\ IF Current.file = "dir" THEN diskDir' = dir /\ UNCHANGED disk
       ELSE disk' = Synced(fd[Current.file]) /\ UNCHANGED diskDir
    /\ Advance
    /\ UNCHANGED <<idle, fd, dir, data, seen, errors>>

Rename ==
    /\ At("rename") /\ dir["tmp"] # 0
    /\ dir' = [dir EXCEPT !["final"] = dir["tmp"], !["tmp"] = 0] /\ Advance
    /\ UNCHANGED <<idle, fd, data, diskDir, disk, seen, errors>>

\* link(tmpfile, link_name).
Link ==
    /\ At("link") /\ dir["tmp"] # 0
    /\ dir' = [dir EXCEPT ![Current.file] = dir["tmp"]] /\ Advance
    /\ UNCHANGED <<idle, fd, data, diskDir, disk, seen, errors>>

Malloc == At("malloc") /\ Advance /\ UNCHANGED <<idle, kernel, seen, errors>>

\* Any other call fails: the program goes to its error path, or does not notice.
\* It must when its descriptor is not open or its name does not exist.
CallFails ==
    /\ Current.op \in {"mkstemp", "creat", "open", "fsync", "rename", "link", "malloc", "unlink"}
    /\ pc' = IF Current.err = 0 THEN pc + 1 ELSE Current.err
    /\ Failed(Current.op, Current.file)
    /\ faulty' = (faulty \/ Current.err = 0)
    /\ damaged' = (damaged \/ (At("fsync") /\ Current.file = "tmp"))
    /\ UNCHANGED <<idle, i, kernel, seen>>

\* if (sfd < 0 || dfd < 0) goto cleanup31.
TestOpened ==
    /\ At("opened")
    /\ pc' = IF fd["tmp"] # 0 /\ fd["dst"] # 0 THEN pc + 1 ELSE Current.err
    /\ UNCHANGED <<idle, i, kernel, seen, errors>>

\* close releases the descriptor whatever it returns, and nobody looks at that.
Close ==
    /\ At("close") /\ fd' = [fd EXCEPT ![Current.file] = 0] /\ Advance
    /\ UNCHANGED <<idle, dir, data, diskDir, disk, seen, errors>>

Unlink ==
    /\ At("unlink") /\ dir[Current.file] # 0
    /\ dir' = [dir EXCEPT ![Current.file] = 0] /\ Advance
    /\ UNCHANGED <<idle, fd, data, diskDir, disk, seen, errors>>

\* Mutant: the file is unlinked only when both were opened.
CleanedBoth(f) == fd["tmp"] # 0 /\ fd["dst"] # 0
\* cleanup31: a file that was opened is closed and unlinked.
Cleaned(f) == fd[f] # 0
Cleanup ==
    /\ At("cleanup")
    /\ LET f == Current.file IN
       IF Cleaned(f) THEN fd' = [fd EXCEPT ![f] = 0] /\ dir' = [dir EXCEPT ![f] = 0]
       ELSE UNCHANGED <<fd, dir>>
    /\ Advance
    /\ UNCHANGED <<idle, data, diskDir, disk, seen, errors>>

\* The unlink of cleanup31 fails: the file is closed and keeps its name.
CleanupFails ==
    /\ At("cleanup") /\ Cleaned(Current.file)
    /\ fd' = [fd EXCEPT ![Current.file] = 0]
    /\ Failed("unlink", Current.file) /\ faulty' = TRUE /\ Advance
    /\ UNCHANGED <<idle, dir, data, diskDir, disk, seen, damaged>>

\* Mutant: half the file as the stride.
StrideEven(k, n) == (k * (n \div 2)) % n
\* The page read in round k of the strided loop over n pages.
Stride(k, n) == (k * (n \div 2 + 1)) % n

Pread ==
    /\ At("pread")
    /\ LET page == IF Current.file = "strided" THEN Stride(i, npages) ELSE i
       IN  seen' = [seen EXCEPT ![page] = @ + 1]
    /\ Loop(i + 1 < npages)
    /\ UNCHANGED <<idle, kernel, errors>>

\* The phase is over; the later phases of the labs touch no file.
Exit == At("exit") /\ UNCHANGED vars

-----------------------------------------------------------------------------
\* The kernel writes an inode, or the directory, back on its own.
WriteBack ==
    /\ \/ \E n \in InUse : disk[n] # data[n] /\ disk' = [disk EXCEPT ![n] = data[n]] /\ UNCHANGED diskDir
       \/ diskDir # dir /\ diskDir' = dir /\ UNCHANGED disk
    /\ UNCHANGED <<idle, pc, i, fd, dir, data, seen, errors>>

\* The machine stops and the lab is started again.  A name made by mkstemp
\* is not used by a later run.
Crash ==
    /\ crashes < MaxCrashes /\ crashes' = crashes + 1
    /\ LET gone == IF Uses("mkstemp") THEN {"tmp", "dst"} ELSE {}
           kept == [n \in Names |-> IF n \in gone THEN 0 ELSE diskDir[n]]
       IN  dir' = kept /\ diskDir' = kept
    /\ data' = disk /\ fd' = Closed
    /\ pc' = 1 /\ i' = 0 /\ seen' = NotSeen /\ failed' = {}
    /\ UNCHANGED <<prog, npages, disk, faulty, damaged>>

Next ==
    \/ Create \/ OpenDir \/ Write \/ WriteFails \/ EmptyCopy \/ ReadFails \/ Fsync \/ Rename
    \/ Link \/ Malloc \/ CallFails \/ TestOpened \/ Close \/ Unlink \/ Cleanup \/ CleanupFails
    \/ Pread \/ Exit
    \/ WriteBack \/ Crash

Spec == Init /\ [][Next]_vars

-----------------------------------------------------------------------------
\* What is found under the final name if the machine stops now.
OnDisk == IF diskDir["final"] = 0 THEN NoFile ELSE disk[diskDir["final"]]

\* The new file was not renamed, or the directory was not synced after it was.
Missed == failed \cap {<<"rename", "tmp">>, <<"open", "dir">>, <<"fsync", "dir">>} # {}

Update == INSTANCE AtomicUpdate WITH
    Absent <- NoFile, Old <- OldData, New <- NewData, contents <- OnDisk, missed <- Missed

\* Lab 32 replaces the file atomically, "either old file OR new file, never
\* half-written": whenever the machine stops, in whatever order the kernel writes
\* back and whichever calls fail, the final name has the old contents, the whole
\* new contents or does not exist, and it stops existing only after it had the
\* new contents or when rename or the sync of the directory failed.  Only a
\* write, or the fsync of the temporary file, that fails unseen spoils this.
ImplementsAtomicUpdate == Update!Spec

\* Why a name may be there still when its program has ended: its unlink failed,
\* lab 32's rename left the temporary file, or its phase 4 could not make one
\* and ended at once, leaving the final file of an interrupted run.
Excused(n) ==
    \/ <<"unlink", n>> \in failed
    \/ n = "tmp" /\ <<"rename", "tmp">> \in failed
    \/ n = "final" /\ <<"mkstemp", "tmp">> \in failed

\* Every program that runs to its end has closed its descriptors and removed
\* every name it made or renamed, on its error paths too and whatever an earlier
\* crashed run left under the names it uses; only the failure of the call that
\* would have removed the name leaves it there.
TidyAtExit == At("exit") => fd = Closed /\ \A n \in Names : dir[n] # 0 => Excused(n)

\* Lab 31 copies the whole file, and lab 29's sequential and strided loops read
\* every page exactly once each.
TransfersWhole ==
    /\ prog = "file_copy" /\ pc > 6 /\ fd["tmp"] # 0 /\ fd["dst"] # 0 /\ ~faulty
           => data[fd["dst"]] = data[fd["tmp"]] /\ Len(data[fd["dst"]]) = npages
    /\ prog = "pread_latency" /\ At("close") /\ i = 0
           => \A p, q \in DOMAIN seen : seen[p] = seen[q]
=============================================================================
