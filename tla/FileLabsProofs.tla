--------------------------- MODULE FileLabsProofs ---------------------------
(***************************************************************************)
(* Proofs about the file programs of labs 29 to 32, for every number of    *)
(* pages and of crashes: what they leave behind when they end, that lab    *)
(* 32's update of a file is atomic on disk, and that lab 31 copies and lab *)
(* 29 reads the whole file.                                                *)
(***************************************************************************)
EXTENDS FileLabs, SequenceTheorems, TLAPS

Renaming == {"fsync_ordering_demo", "crash_recovery_scenario"}
Stemming == {"crash_recovery_scenario", "file_copy", "pread_latency", "inode_information"}

\* The number of the last call, exit.
Last == IF prog = "open_write_fsync" THEN 6 ELSE IF prog = "inode_information" THEN 7 ELSE 10


-----------------------------------------------------------------------------
(* The inductive invariant.                                                *)

BaseInv ==
    /\ prog \in Renaming \cup Stemming \cup {"open_write_fsync"}
    /\ npages \in Nat \ {0} /\ pc \in 1 .. Last /\ i \in Nat
    /\ fd \in [Names \cup {"dir"} -> 0 .. 8]
    /\ dir \in [Names -> 0 .. 8] /\ diskDir \in [Names -> 0 .. 8]
    /\ data \in [Inodes -> Seq(Int)] /\ disk \in [Inodes -> Seq(Int)]
    /\ faulty \in BOOLEAN /\ damaged \in BOOLEAN

\* Which descriptors are open, by the next call.
FdInv ==
    /\ fd["final"] = 0
    /\ fd["dir"] # 0 => prog \in Renaming /\ pc \in {7, 8}
    /\ fd["dst"] # 0 => prog = "file_copy" /\ pc \in 3 .. 9
    /\ fd["tmp"] # 0 => /\ pc \in 2 .. 8
                        /\ prog = "inode_information" => pc <= 3
                        /\ prog \in Renaming \cup {"open_write_fsync"} => pc <= 4
    /\ prog = "file_copy" /\ pc \in 4 .. 7 => fd["tmp"] # 0 /\ fd["dst"] # 0

\* Which names exist, by the next call, and which failure explains it.
NameInv ==
    /\ dir["dst"] # 0 => \/ prog = "file_copy" /\ pc \in 3 .. 9 /\ fd["dst"] # 0
                         \/ prog = "inode_information" /\ pc = 5
                         \/ <<"unlink", "dst">> \in failed /\ pc > 5
    /\ diskDir["dst"] # 0 => prog \in Stemming
    /\ dir["dst"] # 0 => prog \in Stemming
    /\ dir["tmp"] # 0 => /\ prog \in Stemming => pc > 1
                         /\ prog \in Renaming /\ pc > 5 => faulty /\ <<"rename", "tmp">> \in failed
                         /\ prog \notin Renaming /\ pc = Last => <<"unlink", "tmp">> \in failed
                         /\ prog = "file_copy" => fd["tmp"] # 0 \/ <<"unlink", "tmp">> \in failed
    /\ dir["final"] # 0 /\ pc = Last => \/ <<"unlink", "final">> \in failed
                                         \/ <<"mkstemp", "tmp">> \in failed
    /\ prog \notin Renaming => dir["final"] = 0 /\ diskDir["final"] = 0

\* The temporary file is never the final one, in memory or on disk.
Apart ==
    /\ dir["tmp"] # 0 => dir["tmp"] # dir["final"] /\ dir["tmp"] # diskDir["final"]
    /\ diskDir["tmp"] # 0 => diskDir["tmp"] # diskDir["final"]

\* A file with the final name is whole, and on disk whichever directory the
\* disk has; if the directories differ, the one in memory has the new file, or
\* it has none and the disk has the new one.
Whole ==
    /\ \A n \in {dir["final"], diskDir["final"]} \ {0} :
           disk[n] = data[n] /\ data[n] \in {OldData, NewData}
    /\ dir["final"] # diskDir["final"] /\ dir["final"] # 0 => data[dir["final"]] = NewData
    /\ dir["final"] = 0 /\ diskDir["final"] # 0 /\ ~Missed => data[diskDir["final"]] = NewData

\* How far the update is.
Progress ==
    /\ pc \in {2, 3} /\ fd["tmp"] # 0 => fd["tmp"] = dir["tmp"]
    /\ pc = 2 /\ fd["tmp"] # 0 => data[dir["tmp"]] = <<>> /\ i = 0
    /\ pc = 3 => fd["tmp"] # 0 /\ data[dir["tmp"]] = NewData
    /\ pc \in {4, 5} => dir["tmp"] # 0 /\ data[dir["tmp"]] = NewData /\ disk[dir["tmp"]] = NewData
    /\ pc \in 6 .. 9 /\ ~Missed => dir["final"] # 0 /\ data[dir["final"]] = NewData
    /\ pc \in {8, 9} /\ ~Missed => diskDir["final"] = dir["final"]

\* Lab 32 while its new contents were written and synced, whatever else failed.
UpdateInv == prog \in Renaming /\ ~damaged => Apart /\ Whole /\ Progress

IInv == BaseInv /\ FdInv /\ NameInv /\ UpdateInv

-----------------------------------------------------------------------------
(* Where in which program each call is.                                    *)

\* The calls of lab 32, phase 2, one by one.
LEMMA FsyncOrderingCalls ==
    ASSUME prog = "fsync_ordering_demo"
    PROVE  /\ pc = 1 => Current = Call("creat", "tmp")
           /\ pc = 2 => Current = Call("write", "tmp")
           /\ pc = 3 => Current = Call("fsync", "tmp")
           /\ pc = 4 => Current = Call("close", "tmp")
           /\ pc = 5 => Current = Call("rename", "tmp")
           /\ pc = 6 => Current = Call("open", "dir")
           /\ pc = 7 => Current = Call("fsync", "dir")
           /\ pc = 8 => Current = Call("close", "dir")
           /\ pc = 9 => Current = Call("unlink", "final")
           /\ pc = 10 => Current = Call("exit", "none")
<1>1. Programs[prog] = fsync_ordering_demo
      BY DEF Programs
<1>2. /\ fsync_ordering_demo[1] = Call("creat", "tmp")
      /\ fsync_ordering_demo[2] = Call("write", "tmp")
      /\ fsync_ordering_demo[3] = Call("fsync", "tmp")
      /\ fsync_ordering_demo[4] = Call("close", "tmp")
      /\ fsync_ordering_demo[5] = Call("rename", "tmp")
      /\ fsync_ordering_demo[6] = Call("open", "dir")
      /\ fsync_ordering_demo[7] = Call("fsync", "dir")
      /\ fsync_ordering_demo[8] = Call("close", "dir")
      /\ fsync_ordering_demo[9] = Call("unlink", "final")
      /\ fsync_ordering_demo[10] = Call("exit", "none")
      BY DEF fsync_ordering_demo
<1> QED BY <1>1, <1>2 DEF Current

\* The calls of lab 32, phase 4, one by one.
LEMMA CrashRecoveryCalls ==
    ASSUME prog = "crash_recovery_scenario"
    PROVE  /\ pc = 1 => Current = Checked("mkstemp", "tmp", 10)
           /\ pc = 2 => Current = Call("write", "tmp")
           /\ pc = 3 => Current = Call("fsync", "tmp")
           /\ pc = 4 => Current = Call("close", "tmp")
           /\ pc = 5 => Current = Call("rename", "tmp")
           /\ pc = 6 => Current = Checked("open", "dir", 9)
           /\ pc = 7 => Current = Call("fsync", "dir")
           /\ pc = 8 => Current = Call("close", "dir")
           /\ pc = 9 => Current = Call("unlink", "final")
           /\ pc = 10 => Current = Call("exit", "none")
<1>1. Programs[prog] = crash_recovery_scenario
      BY DEF Programs
<1>2. /\ crash_recovery_scenario[1] = Checked("mkstemp", "tmp", 10)
      /\ crash_recovery_scenario[2] = Call("write", "tmp")
      /\ crash_recovery_scenario[3] = Call("fsync", "tmp")
      /\ crash_recovery_scenario[4] = Call("close", "tmp")
      /\ crash_recovery_scenario[5] = Call("rename", "tmp")
      /\ crash_recovery_scenario[6] = Checked("open", "dir", 9)
      /\ crash_recovery_scenario[7] = Call("fsync", "dir")
      /\ crash_recovery_scenario[8] = Call("close", "dir")
      /\ crash_recovery_scenario[9] = Call("unlink", "final")
      /\ crash_recovery_scenario[10] = Call("exit", "none")
      BY DEF crash_recovery_scenario
<1> QED BY <1>1, <1>2 DEF Current

\* The calls of lab 31, phase 1, one by one.
LEMMA OpenWriteFsyncCalls ==
    ASSUME prog = "open_write_fsync"
    PROVE  /\ pc = 1 => Current = Call("creat", "tmp")
           /\ pc = 2 => Current = Call("fill", "tmp")
           /\ pc = 3 => Current = Call("fsync", "tmp")
           /\ pc = 4 => Current = Call("close", "tmp")
           /\ pc = 5 => Current = Call("unlink", "tmp")
           /\ pc = 6 => Current = Call("exit", "none")
<1>1. Programs[prog] = open_write_fsync
      BY DEF Programs
<1>2. /\ open_write_fsync[1] = Call("creat", "tmp")
      /\ open_write_fsync[2] = Call("fill", "tmp")
      /\ open_write_fsync[3] = Call("fsync", "tmp")
      /\ open_write_fsync[4] = Call("close", "tmp")
      /\ open_write_fsync[5] = Call("unlink", "tmp")
      /\ open_write_fsync[6] = Call("exit", "none")
      BY DEF open_write_fsync
<1> QED BY <1>1, <1>2 DEF Current

\* The calls of lab 31, phase 4, one by one.
LEMMA FileCopyCalls ==
    ASSUME prog = "file_copy"
    PROVE  /\ pc = 1 => Current = Call("mkstemp", "tmp")
           /\ pc = 2 => Current = Call("mkstemp", "dst")
           /\ pc = 3 => Current = Checked("opened", "both", 8)
           /\ pc = 4 => Current = Call("fill", "tmp")
           /\ pc = 5 => Current = Call("fsync", "tmp")
           /\ pc = 6 => Current = Call("copy", "dst")
           /\ pc = 7 => Current = Call("fsync", "dst")
           /\ pc = 8 => Current = Call("cleanup", "tmp")
           /\ pc = 9 => Current = Call("cleanup", "dst")
           /\ pc = 10 => Current = Call("exit", "none")
<1>1. Programs[prog] = file_copy
      BY DEF Programs
<1>2. /\ file_copy[1] = Call("mkstemp", "tmp")
      /\ file_copy[2] = Call("mkstemp", "dst")
      /\ file_copy[3] = Checked("opened", "both", 8)
      /\ file_copy[4] = Call("fill", "tmp")
      /\ file_copy[5] = Call("fsync", "tmp")
      /\ file_copy[6] = Call("copy", "dst")
      /\ file_copy[7] = Call("fsync", "dst")
      /\ file_copy[8] = Call("cleanup", "tmp")
      /\ file_copy[9] = Call("cleanup", "dst")
      /\ file_copy[10] = Call("exit", "none")
      BY DEF file_copy
<1> QED BY <1>1, <1>2 DEF Current

\* The calls of lab 29, phase 5, one by one.
LEMMA PreadLatencyCalls ==
    ASSUME prog = "pread_latency"
    PROVE  /\ pc = 1 => Current = Checked("mkstemp", "tmp", 10)
           /\ pc = 2 => Current = Checked("malloc", "wbuf", 8)
           /\ pc = 3 => Current = Call("fill", "tmp")
           /\ pc = 4 => Current = Call("fsync", "tmp")
           /\ pc = 5 => Current = Checked("malloc", "rbuf", 8)
           /\ pc = 6 => Current = Call("pread", "sequential")
           /\ pc = 7 => Current = Call("pread", "strided")
           /\ pc = 8 => Current = Call("close", "tmp")
           /\ pc = 9 => Current = Call("unlink", "tmp")
           /\ pc = 10 => Current = Call("exit", "none")
<1>1. Programs[prog] = pread_latency
      BY DEF Programs
<1>2. /\ pread_latency[1] = Checked("mkstemp", "tmp", 10)
      /\ pread_latency[2] = Checked("malloc", "wbuf", 8)
      /\ pread_latency[3] = Call("fill", "tmp")
      /\ pread_latency[4] = Call("fsync", "tmp")
      /\ pread_latency[5] = Checked("malloc", "rbuf", 8)
      /\ pread_latency[6] = Call("pread", "sequential")
      /\ pread_latency[7] = Call("pread", "strided")
      /\ pread_latency[8] = Call("close", "tmp")
      /\ pread_latency[9] = Call("unlink", "tmp")
      /\ pread_latency[10] = Call("exit", "none")
      BY DEF pread_latency
<1> QED BY <1>1, <1>2 DEF Current

\* The calls of lab 30, phase 4, one by one.
LEMMA InodeInformationCalls ==
    ASSUME prog = "inode_information"
    PROVE  /\ pc = 1 => Current = Checked("mkstemp", "tmp", 7)
           /\ pc = 2 => Current = Call("write", "tmp")
           /\ pc = 3 => Current = Call("close", "tmp")
           /\ pc = 4 => Current = Checked("link", "dst", 6)
           /\ pc = 5 => Current = Call("unlink", "dst")
           /\ pc = 6 => Current = Call("unlink", "tmp")
           /\ pc = 7 => Current = Call("exit", "none")
<1>1. Programs[prog] = inode_information
      BY DEF Programs
<1>2. /\ inode_information[1] = Checked("mkstemp", "tmp", 7)
      /\ inode_information[2] = Call("write", "tmp")
      /\ inode_information[3] = Call("close", "tmp")
      /\ inode_information[4] = Checked("link", "dst", 6)
      /\ inode_information[5] = Call("unlink", "dst")
      /\ inode_information[6] = Call("unlink", "tmp")
      /\ inode_information[7] = Call("exit", "none")
      BY DEF inode_information
<1> QED BY <1>1, <1>2 DEF Current

\* The calls that make or remove names, by their operation.
LEMMA NameOps ==
    ASSUME BaseInv
    PROVE  /\ At("creat") <=> prog \in {"fsync_ordering_demo", "open_write_fsync"} /\ pc = 1
           /\ At("mkstemp") <=> \/ prog \in Stemming /\ pc = 1
                                \/ prog = "file_copy" /\ pc = 2
           /\ At("link") <=> prog = "inode_information" /\ pc = 4
           /\ At("rename") <=> prog \in Renaming /\ pc = 5
           /\ At("unlink") <=> \/ prog \in Renaming /\ pc = 9
                               \/ prog = "open_write_fsync" /\ pc = 5
                               \/ prog = "pread_latency" /\ pc = 9
                               \/ prog = "inode_information" /\ pc \in {5, 6}
<1> USE DEF Last, Renaming, Stemming, At, Call, Checked
<1> prog \in Renaming \cup Stemming \cup {"open_write_fsync"} /\ pc \in 1 .. Last
    BY DEF BaseInv
<1>1. CASE prog = "fsync_ordering_demo" BY <1>1, FsyncOrderingCalls
<1>2. CASE prog = "crash_recovery_scenario" BY <1>2, CrashRecoveryCalls
<1>3. CASE prog = "open_write_fsync" BY <1>3, OpenWriteFsyncCalls
<1>4. CASE prog = "file_copy" BY <1>4, FileCopyCalls
<1>5. CASE prog = "pread_latency" BY <1>5, PreadLatencyCalls
<1>6. CASE prog = "inode_information" BY <1>6, InodeInformationCalls
<1> QED BY <1>1, <1>2, <1>3, <1>4, <1>5, <1>6

\* The calls that write files or wait for the disk.
LEMMA DataOps ==
    ASSUME BaseInv
    PROVE  /\ At("write") <=> prog \in Renaming \cup {"inode_information"} /\ pc = 2
           /\ At("fill") <=> \/ prog = "open_write_fsync" /\ pc = 2
                             \/ prog = "file_copy" /\ pc = 4
                             \/ prog = "pread_latency" /\ pc = 3
           /\ At("copy") <=> prog = "file_copy" /\ pc = 6
           /\ At("fsync") <=> \/ prog \in Renaming /\ pc \in {3, 7}
                              \/ prog = "open_write_fsync" /\ pc = 3
                              \/ prog = "file_copy" /\ pc \in {5, 7}
                              \/ prog = "pread_latency" /\ pc = 4
<1> USE DEF Last, Renaming, Stemming, At, Call, Checked
<1> prog \in Renaming \cup Stemming \cup {"open_write_fsync"} /\ pc \in 1 .. Last
    BY DEF BaseInv
<1>1. CASE prog = "fsync_ordering_demo" BY <1>1, FsyncOrderingCalls
<1>2. CASE prog = "crash_recovery_scenario" BY <1>2, CrashRecoveryCalls
<1>3. CASE prog = "open_write_fsync" BY <1>3, OpenWriteFsyncCalls
<1>4. CASE prog = "file_copy" BY <1>4, FileCopyCalls
<1>5. CASE prog = "pread_latency" BY <1>5, PreadLatencyCalls
<1>6. CASE prog = "inode_information" BY <1>6, InodeInformationCalls
<1> QED BY <1>1, <1>2, <1>3, <1>4, <1>5, <1>6

\* The other calls.
LEMMA OtherOps ==
    ASSUME BaseInv
    PROVE  /\ At("open") <=> prog \in Renaming /\ pc = 6
           /\ At("opened") <=> prog = "file_copy" /\ pc = 3
           /\ At("close") <=> \/ prog \in Renaming /\ pc \in {4, 8}
                              \/ prog = "open_write_fsync" /\ pc = 4
                              \/ prog = "pread_latency" /\ pc = 8
                              \/ prog = "inode_information" /\ pc = 3
           /\ At("cleanup") <=> prog = "file_copy" /\ pc \in {8, 9}
           /\ At("malloc") <=> prog = "pread_latency" /\ pc \in {2, 5}
           /\ At("pread") <=> prog = "pread_latency" /\ pc \in {6, 7}
<1> USE DEF Last, Renaming, Stemming, At, Call, Checked
<1> prog \in Renaming \cup Stemming \cup {"open_write_fsync"} /\ pc \in 1 .. Last
    BY DEF BaseInv
<1>1. CASE prog = "fsync_ordering_demo" BY <1>1, FsyncOrderingCalls
<1>2. CASE prog = "crash_recovery_scenario" BY <1>2, CrashRecoveryCalls
<1>3. CASE prog = "open_write_fsync" BY <1>3, OpenWriteFsyncCalls
<1>4. CASE prog = "file_copy" BY <1>4, FileCopyCalls
<1>5. CASE prog = "pread_latency" BY <1>5, PreadLatencyCalls
<1>6. CASE prog = "inode_information" BY <1>6, InodeInformationCalls
<1> QED BY <1>1, <1>2, <1>3, <1>4, <1>5, <1>6

\* A program ends where its list of calls does.
LEMMA ExitAt ==
    ASSUME BaseInv
    PROVE  At("exit") <=> pc = Last
<1> USE DEF Last, Renaming, Stemming, At, Call, Checked
<1> prog \in Renaming \cup Stemming \cup {"open_write_fsync"} /\ pc \in 1 .. Last
    BY DEF BaseInv
<1>1. CASE prog = "fsync_ordering_demo" BY <1>1, FsyncOrderingCalls
<1>2. CASE prog = "crash_recovery_scenario" BY <1>2, CrashRecoveryCalls
<1>3. CASE prog = "open_write_fsync" BY <1>3, OpenWriteFsyncCalls
<1>4. CASE prog = "file_copy" BY <1>4, FileCopyCalls
<1>5. CASE prog = "pread_latency" BY <1>5, PreadLatencyCalls
<1>6. CASE prog = "inode_information" BY <1>6, InodeInformationCalls
<1> QED BY <1>1, <1>2, <1>3, <1>4, <1>5, <1>6

\* The file each call is about.
LEMMA FileAt ==
    ASSUME BaseInv
    PROVE  /\ Current.file = "tmp" <=> \/ prog \in Renaming \cup {"open_write_fsync"} /\ pc <= 5
                                       \/ prog = "file_copy" /\ pc \in {1, 4, 5, 8}
                                       \/ prog = "pread_latency" /\ pc \in {1, 3, 4, 8, 9}
                                       \/ prog = "inode_information" /\ pc \in {1, 2, 3, 6}
           /\ Current.file = "dst" <=> \/ prog = "file_copy" /\ pc \in {2, 6, 7, 9}
                                       \/ prog = "inode_information" /\ pc \in {4, 5}
           /\ Current.file = "dir" <=> prog \in Renaming /\ pc \in 6 .. 8
           /\ Current.file = "final" <=> prog \in Renaming /\ pc = 9
<1> USE DEF BaseInv, Last, Renaming, Stemming, Call, Checked
<1>1. CASE prog = "fsync_ordering_demo" BY <1>1, FsyncOrderingCalls
<1>2. CASE prog = "crash_recovery_scenario" BY <1>2, CrashRecoveryCalls
<1>3. CASE prog = "open_write_fsync" BY <1>3, OpenWriteFsyncCalls
<1>4. CASE prog = "file_copy" BY <1>4, FileCopyCalls
<1>5. CASE prog = "pread_latency" BY <1>5, PreadLatencyCalls
<1>6. CASE prog = "inode_information" BY <1>6, InodeInformationCalls
<1> QED BY <1>1, <1>2, <1>3, <1>4, <1>5, <1>6

\* The calls whose result is looked at, and where their error paths lead.
LEMMA ErrAt ==
    ASSUME BaseInv
    PROVE  Current.err = IF prog \in {"crash_recovery_scenario", "pread_latency"} /\ pc = 1 THEN 10
                         ELSE IF prog = "crash_recovery_scenario" /\ pc = 6 THEN 9
                         ELSE IF prog = "file_copy" /\ pc = 3 THEN 8
                         ELSE IF prog = "pread_latency" /\ pc \in {2, 5} THEN 8
                         ELSE IF prog = "inode_information" /\ pc = 1 THEN 7
                         ELSE IF prog = "inode_information" /\ pc = 4 THEN 6
                         ELSE 0
<1> USE DEF BaseInv, Last, Renaming, Stemming, Call, Checked
<1>1. CASE prog = "fsync_ordering_demo" BY <1>1, FsyncOrderingCalls
<1>2. CASE prog = "crash_recovery_scenario" BY <1>2, CrashRecoveryCalls
<1>3. CASE prog = "open_write_fsync" BY <1>3, OpenWriteFsyncCalls
<1>4. CASE prog = "file_copy" BY <1>4, FileCopyCalls
<1>5. CASE prog = "pread_latency" BY <1>5, PreadLatencyCalls
<1>6. CASE prog = "inode_information" BY <1>6, InodeInformationCalls
<1> QED BY <1>1, <1>2, <1>3, <1>4, <1>5, <1>6

\* Which programs rename, and which take a name from mkstemp.
LEMMA UsesOf ==
    ASSUME BaseInv
    PROVE  /\ Uses("rename") <=> prog \in Renaming
           /\ Uses("mkstemp") <=> prog \in Stemming
<1> USE DEF Renaming, Stemming, Uses, Programs, Call, Checked
<1> prog \in Renaming \cup Stemming \cup {"open_write_fsync"}
    BY DEF BaseInv
<1>1. CASE prog = "fsync_ordering_demo" BY <1>1 DEF fsync_ordering_demo
<1>2. CASE prog = "crash_recovery_scenario" BY <1>2 DEF crash_recovery_scenario
<1>3. CASE prog = "open_write_fsync" BY <1>3 DEF open_write_fsync
<1>4. CASE prog = "file_copy" BY <1>4 DEF file_copy
<1>5. CASE prog = "pread_latency" BY <1>5 DEF pread_latency
<1>6. CASE prog = "inode_information" BY <1>6 DEF inode_information
<1> QED BY <1>1, <1>2, <1>3, <1>4, <1>5, <1>6

-----------------------------------------------------------------------------
(* Inodes.                                                                 *)

\* Seven numbers are not all eight inodes.
LEMMA OneOfEight ==
    ASSUME NEW a, NEW b, NEW c, NEW d, NEW e, NEW f, NEW g
    PROVE  \E n \in Inodes : n \notin {a, b, c, d, e, f, g}
<1>1. ~({1, 2, 3, 4, 5, 6, 7, 8} \subseteq {a, b, c, d, e, f, g})
      OBVIOUS
<1> QED BY <1>1 DEF Inodes

\* When a file is created there is an inode that nothing refers to: neither
\* directory, nor an open descriptor.
LEMMA FreeInodeIsFree ==
    ASSUME BaseInv, FdInv, NEW f \in {"tmp", "dst"}, dir[f] = 0
    PROVE  /\ FreeInode \in Inodes
           /\ \A n \in Names : FreeInode \notin {dir[n], diskDir[n], fd[n]}
<1>1. FreeInode \in Inodes /\ FreeInode \notin InUse
      <2>1. \E n \in Inodes : n \notin InUse
            <3>1. PICK n \in Inodes :
                      n \notin {dir[IF f = "tmp" THEN "dst" ELSE "tmp"], dir["final"], diskDir["tmp"],
                                diskDir["dst"], diskDir["final"], fd["tmp"], fd["dst"]}
                  BY OneOfEight
            <3>2. n # 0
                  BY DEF Inodes
            <3>3. \A m \in Names : n \notin {dir[m], diskDir[m], fd[m]}
                  BY <3>1, <3>2 DEF FdInv, Names
            <3> QED BY <3>3 DEF InUse
      <2> QED BY <2>1 DEF FreeInode
<1>2. FreeInode # 0
      BY <1>1 DEF Inodes
<1>3. ASSUME NEW m \in Names, NEW x \in {dir[m], diskDir[m], fd[m]}, x # 0
      PROVE  x \in InUse
      <2>1. \E S \in {{dir[k], diskDir[k], fd[k]} : k \in Names} : x \in S
            BY <1>3, Zenon
      <2>2. x \in UNION {{dir[k], diskDir[k], fd[k]} : k \in Names}
            BY <2>1, Zenon
      <2> QED BY <1>3, <2>2, Zenon DEF InUse
<1> QED BY <1>1, <1>2, <1>3

\* A name refers to an inode or to nothing.
LEMMA NamesTyped ==
    ASSUME BaseInv
    PROVE  \A m \in Names : dir[m] \in Inodes \cup {0} /\ diskDir[m] \in Inodes \cup {0}
<1>1. dir \in [Names -> 0 .. 8] /\ diskDir \in [Names -> 0 .. 8]
      BY DEF BaseInv
<1> QED BY <1>1 DEF Inodes

-----------------------------------------------------------------------------
(* Every action preserves the invariant.                                   *)

\* mkstemp and creat.
LEMMA CreateStep == IInv /\ Create => IInv'
<1> SUFFICES ASSUME IInv, Create PROVE IInv'
    OBVIOUS
<1> DEFINE f == Current.file
           n == IF dir[f] # 0 THEN dir[f] ELSE FreeInode
<1> BaseInv /\ FdInv /\ NameInv /\ UpdateInv
    BY DEF IInv
<1>1. \/ f = "tmp" /\ pc = 1
      \/ f = "dst" /\ pc = 2 /\ prog = "file_copy"
      BY NameOps, FileAt DEF Create, Stemming, Renaming
<1>2. /\ n \in Inodes
      /\ dir[f] = 0 => \A m \in Names : n \notin {dir[m], diskDir[m], fd[m]}
      <2>1. CASE dir[f] = 0
            BY <1>1, <2>1, FreeInodeIsFree
      <2>2. CASE dir[f] # 0
            BY <1>1, <2>2, NamesTyped DEF Names
      <2> QED BY <2>1, <2>2
<1> HIDE DEF n
<1>3. /\ dir' = [dir EXCEPT ![f] = n] /\ fd' = [fd EXCEPT ![f] = n]
      /\ data' = [data EXCEPT ![n] = <<>>]
      /\ disk' = IF dir[f] # 0 THEN disk ELSE [disk EXCEPT ![n] = <<>>]
      /\ pc' = pc + 1 /\ i' = 0
      /\ UNCHANGED <<prog, npages, diskDir, failed, faulty, damaged>>
      BY DEF Create, Advance, idle, errors, n
<1> HIDE DEF f
<1>4. BaseInv'
      <2>1. data' \in [Inodes -> Seq(Int)] /\ disk' \in [Inodes -> Seq(Int)]
            BY <1>2, <1>3 DEF BaseInv
      <2>2. pc' \in 1 .. Last'
            BY <1>1, <1>3 DEF BaseInv, Last
      <2>3. dir' \in [Names -> 0 .. 8] /\ fd' \in [Names \cup {"dir"} -> 0 .. 8]
            <3>1. dir \in [Names -> 0 .. 8] /\ fd \in [Names \cup {"dir"} -> 0 .. 8]
                  BY DEF BaseInv
            <3>2. n \in Inodes
                  BY <1>2
            <3>3. n \in 0 .. 8
                  BY <3>2 DEF Inodes
            <3> QED BY <1>3, <3>1, <3>3
      <2> QED BY <1>3, <2>1, <2>2, <2>3 DEF BaseInv
<1>5. FdInv'
      BY <1>1, <1>2, <1>3 DEF FdInv, BaseInv, Names, Renaming
<1>6. NameInv'
      <2>1. n # 0
            BY <1>2 DEF Inodes
      <2>2. CASE f = "tmp" /\ pc = 1
            BY <1>3, <2>1, <2>2 DEF NameInv, BaseInv, FdInv, Names, Renaming, Last
      <2>3. CASE f = "dst" /\ pc = 2 /\ prog = "file_copy"
            BY <1>3, <2>1, <2>3 DEF NameInv, BaseInv, Names, Renaming, Last
      <2> QED BY <1>1, <2>2, <2>3
<1>7. ASSUME prog \in Renaming, ~damaged
      PROVE  (Apart /\ Whole /\ Progress)'
      <2>1. Apart /\ Whole /\ Progress
            BY <1>7 DEF UpdateInv
      <2>2. f = "tmp" /\ pc = 1
            BY <1>1, <1>7 DEF Renaming
      <2>3. n # dir["final"] /\ n # diskDir["final"] /\ n # 0
            BY <1>2, <2>1, <2>2 DEF Apart, Names, Inodes, n
      <2>4. Apart'
            BY <1>3, <2>1, <2>2, <2>3, <1>2 DEF Apart, BaseInv, Names
      <2>5. Whole'
            <3>1. \A m \in Inodes \ {n} : data'[m] = data[m] /\ disk'[m] = disk[m]
                  BY <1>3 DEF BaseInv
            <3>2. {dir["final"], diskDir["final"]} \ {0} \subseteq Inodes \ {n}
                  BY <2>3, NamesTyped DEF Names
            <3>3. dir'["final"] = dir["final"] /\ diskDir' = diskDir
                  BY <1>3, <2>2 DEF BaseInv, Names
            <3> QED BY <1>3, <2>1, <3>1, <3>2, <3>3 DEF Whole, Missed
      <2>6. Progress'
            BY <1>2, <1>3, <2>2, <2>3 DEF Progress, Missed, BaseInv, Names, Inodes
      <2> QED BY <2>4, <2>5, <2>6
<1> QED BY <1>3, <1>4, <1>5, <1>6, <1>7 DEF IInv, UpdateInv

\* A call that opens the directory.
LEMMA OpenDirStep == IInv /\ OpenDir => IInv'
<1> SUFFICES ASSUME IInv, OpenDir PROVE IInv'
    OBVIOUS
<1> BaseInv /\ FdInv /\ NameInv /\ UpdateInv
    BY DEF IInv
<1>1. prog \in Renaming /\ pc = 6
      BY OtherOps DEF OpenDir
<1>2. /\ fd' = [fd EXCEPT !["dir"] = 1] /\ pc' = 7 /\ i' = 0
      /\ UNCHANGED <<prog, npages, dir, data, diskDir, disk, failed, faulty, damaged>>
      BY <1>1 DEF OpenDir, Advance, idle, errors
<1>3. BaseInv'
      BY <1>1, <1>2 DEF BaseInv, Last, Renaming
<1>4. FdInv' /\ NameInv'
      BY <1>1, <1>2 DEF FdInv, NameInv, BaseInv, Names, Renaming, Stemming, Last
<1>5. UpdateInv'
      BY <1>1, <1>2 DEF UpdateInv, Apart, Whole, Progress, Missed
<1> QED BY <1>3, <1>4, <1>5 DEF IInv

\* A loop goes round again or goes on, whatever its condition.
LEMMA LoopStep ==
    ASSUME BaseInv, NEW more, Loop(more)
    PROVE  pc' \in {pc, pc + 1} /\ i' \in Nat
BY DEF BaseInv, Loop, Advance

\* Where a program writes: to a file, before its last call.
LEMMA WritingAt ==
    ASSUME BaseInv, Writing
    PROVE  /\ Current.file \in {"tmp", "dst"}
           /\ \/ prog \in Renaming \cup {"inode_information", "open_write_fsync"} /\ pc = 2
              \/ prog = "file_copy" /\ pc \in {4, 6}
              \/ prog = "pread_latency" /\ pc = 3
           /\ prog \in Renaming => Current.file = "tmp" /\ ~At("copy") /\ ~At("fill")
BY DataOps, FileAt DEF Writing, Renaming

\* A write.
LEMMA WriteStep == IInv /\ Write => IInv'
<1> SUFFICES ASSUME IInv, Write PROVE IInv'
    OBVIOUS
<1> DEFINE m == fd[Current.file]
<1> BaseInv /\ FdInv /\ NameInv /\ UpdateInv
    BY DEF IInv
<1>1. /\ Current.file \in {"tmp", "dst"}
      /\ \/ prog \in Renaming \cup {"inode_information", "open_write_fsync"} /\ pc = 2
         \/ prog = "file_copy" /\ pc \in {4, 6}
         \/ prog = "pread_latency" /\ pc = 3
      /\ prog \in Renaming => Current.file = "tmp" /\ ~At("copy") /\ ~At("fill")
      BY WritingAt DEF Write
<1>2. m \in Inodes
      <2>1. fd \in [Names \cup {"dir"} -> 0 .. 8] /\ fd[Current.file] # 0
            BY DEF Write, BaseInv
      <2> QED BY <1>1, <2>1 DEF Inodes, Names
<1>3. Block \in Int
      <2>1. CASE At("copy")
            <3>1. prog = "file_copy" /\ i < Len(data[fd["tmp"]])
                  BY <2>1, DataOps DEF Write, Writing
            <3>2. fd["tmp"] \in Inodes /\ i + 1 \in 1 .. Len(data[fd["tmp"]])
                  BY <2>1, <3>1, DataOps DEF FdInv, BaseInv, Names, Inodes
            <3>3. data[fd["tmp"]] \in Seq(Int)
                  BY <3>2 DEF BaseInv
            <3> QED BY <2>1, <3>2, <3>3 DEF Block
      <2>2. CASE ~At("copy")
            BY <2>2 DEF Block, BaseInv
      <2> QED BY <2>1, <2>2
<1>4. /\ data' = [data EXCEPT ![m] = Append(data[m], Block)]
      /\ UNCHANGED <<prog, npages, fd, dir, diskDir, disk, failed, faulty, damaged>>
      BY DEF Write, idle, errors
<1>5. pc' \in {pc, pc + 1} /\ i' \in Nat
      BY LoopStep DEF Write
<1>6. BaseInv'
      <2>1. data \in [Inodes -> Seq(Int)]
            BY DEF BaseInv
      <2>2. data' \in [Inodes -> Seq(Int)]
            <3> HIDE DEF m
            <3> QED BY <1>2, <1>3, <1>4, <2>1
      <2>3. pc' \in 1 .. Last'
            BY <1>1, <1>4, <1>5 DEF BaseInv, Last, Renaming
      <2> QED BY <1>4, <1>5, <2>2, <2>3 DEF BaseInv
<1>7. FdInv' /\ NameInv'
      BY <1>1, <1>4, <1>5 DEF FdInv, NameInv, BaseInv, Renaming, Stemming, Last
<1>8. ASSUME prog \in Renaming, ~damaged
      PROVE  (Apart /\ Whole /\ Progress)'
      <2>1. Apart /\ Whole /\ Progress
            BY <1>8 DEF UpdateInv
      <2>2. /\ pc = 2 /\ m = dir["tmp"] /\ i = 0 /\ data[m] = <<>> /\ dir["tmp"] # 0
            /\ fd["tmp"] = dir["tmp"]
            BY <1>1, <1>8, <2>1 DEF Write, Progress, Renaming
      <2>3. pc' = 3
            BY <1>1, <1>8, <2>2 DEF Write, Loop, MoreToWrite, Advance
      <2>4. Block = 1
            BY <1>1, <1>8, <2>2 DEF Block
      <2>5. data'[m] = NewData
            <3>1. data'[m] = Append(<<>>, 1)
                  BY <1>2, <1>4, <2>2, <2>4 DEF BaseInv
            <3> QED BY <3>1 DEF NewData
      <2>6. \A n \in Inodes \ {m} : data'[n] = data[n]
            BY <1>4 DEF BaseInv
      <2>7. {dir["final"], diskDir["final"]} \ {0} \subseteq Inodes \ {m}
            BY <2>1, <2>2, NamesTyped DEF Apart, Names
      <2> HIDE DEF m
      <2>8. Apart'
            BY <1>4, <2>1 DEF Apart
      <2>9. Whole'
            BY <1>4, <2>1, <2>6, <2>7 DEF Whole, Missed
      <2>10. Progress'
            BY <1>4, <2>1, <2>2, <2>3, <2>5 DEF Progress, Missed
      <2> QED BY <2>8, <2>9, <2>10
<1> QED BY <1>4, <1>6, <1>7, <1>8 DEF IInv, UpdateInv

\* A write that fails or is cut short.
LEMMA WriteFailsStep == IInv /\ WriteFails => IInv'
<1> SUFFICES ASSUME IInv, WriteFails PROVE IInv'
    OBVIOUS
<1> DEFINE m == fd[Current.file]
<1> BaseInv /\ FdInv /\ NameInv
    BY DEF IInv
<1>1. /\ Current.file \in {"tmp", "dst"}
      /\ \/ prog \in Renaming \cup {"inode_information", "open_write_fsync"} /\ pc = 2
         \/ prog = "file_copy" /\ pc \in {4, 6}
         \/ prog = "pread_latency" /\ pc = 3
      BY WritingAt DEF WriteFails
<1>2. /\ faulty' = TRUE /\ damaged' = TRUE /\ failed \subseteq failed'
      /\ UNCHANGED <<prog, npages, fd, dir, diskDir, disk>>
      BY DEF WriteFails, Failed, idle
<1>3. pc' \in {pc, pc + 1} /\ i' \in Nat
      BY LoopStep DEF WriteFails
<1>4. BaseInv'
      <2>1. data \in [Inodes -> Seq(Int)] /\ fd \in [Names \cup {"dir"} -> 0 .. 8]
            BY DEF BaseInv
      <2>2. ASSUME m # 0, data' = [data EXCEPT ![m] = Append(data[m], Partial)]
            PROVE  data' \in [Inodes -> Seq(Int)]
            <3>1. m \in Inodes
                  BY <1>1, <2>1, <2>2 DEF Inodes, Names
            <3>2. Partial \in Int
                  BY DEF Partial
            <3> HIDE DEF m
            <3> QED BY <2>1, <2>2, <3>1, <3>2
      <2>3. data' \in [Inodes -> Seq(Int)]
            BY <2>1, <2>2 DEF WriteFails
      <2>4. pc' \in 1 .. Last'
            BY <1>1, <1>2, <1>3 DEF BaseInv, Last, Renaming
      <2> QED BY <1>2, <1>3, <2>3, <2>4 DEF BaseInv
<1>5. FdInv' /\ NameInv'
      BY <1>1, <1>2, <1>3 DEF FdInv, NameInv, BaseInv, Renaming, Stemming, Last
<1> QED BY <1>2, <1>4, <1>5 DEF IInv, UpdateInv

\* A read of the copy's loop that fails.
LEMMA ReadFailsStep == IInv /\ ReadFails => IInv'
<1> SUFFICES ASSUME IInv, ReadFails PROVE IInv'
    OBVIOUS
<1> BaseInv /\ FdInv /\ NameInv
    BY DEF IInv
<1>1. prog = "file_copy" /\ pc = 6
      BY DataOps DEF ReadFails
<1>2. /\ faulty' = TRUE /\ failed \subseteq failed' /\ pc' = 7 /\ i' = 0
      /\ UNCHANGED <<prog, npages, fd, dir, data, diskDir, disk, damaged>>
      BY <1>1 DEF ReadFails, Failed, Advance, idle, kernel
<1>3. BaseInv'
      BY <1>1, <1>2 DEF BaseInv, Last
<1>4. FdInv' /\ NameInv'
      BY <1>1, <1>2 DEF FdInv, NameInv, Renaming, Stemming, Last
<1> QED BY <1>1, <1>2, <1>3, <1>4 DEF IInv, UpdateInv, Renaming

\* fsync of a file or of the directory.
LEMMA FsyncStep == IInv /\ Fsync => IInv'
<1> SUFFICES ASSUME IInv, Fsync PROVE IInv'
    OBVIOUS
<1> DEFINE m == fd[Current.file]
<1> BaseInv /\ FdInv /\ NameInv /\ UpdateInv
    BY DEF IInv
<1>1. \/ prog \in Renaming /\ pc = 3 /\ Current.file = "tmp"
      \/ prog \in Renaming /\ pc = 7 /\ Current.file = "dir"
      \/ prog = "open_write_fsync" /\ pc = 3 /\ Current.file = "tmp"
      \/ prog = "file_copy" /\ pc \in {5, 7} /\ Current.file \in {"tmp", "dst"}
      \/ prog = "pread_latency" /\ pc = 4 /\ Current.file = "tmp"
      BY DataOps, FileAt DEF Fsync, Renaming
<1>2. /\ pc' = pc + 1 /\ i' = 0 /\ m # 0
      /\ UNCHANGED <<prog, npages, fd, dir, data, failed, faulty, damaged>>
      BY DEF Fsync, Advance, idle, errors
<1>3. CASE Current.file = "dir"
      <2>1. /\ prog \in Renaming /\ pc = 7
            /\ diskDir' = dir /\ disk' = disk
            BY <1>1, <1>3 DEF Fsync
      <2>2. BaseInv'
            BY <1>2, <2>1 DEF BaseInv, Last, Renaming
      <2>3. FdInv' /\ NameInv'
            BY <1>2, <2>1 DEF FdInv, NameInv, BaseInv, Renaming, Stemming, Last
      <2>4. UpdateInv'
            BY <1>2, <2>1 DEF UpdateInv, Apart, Whole, Progress, Missed
      <2> QED BY <2>2, <2>3, <2>4 DEF IInv
<1>4. CASE Current.file # "dir"
      <2>1. diskDir' = diskDir /\ disk' = [disk EXCEPT ![m] = data[m]]
            BY <1>4 DEF Fsync, Synced
      <2>2. m \in Inodes
            <3>1. fd \in [Names \cup {"dir"} -> 0 .. 8] /\ m # 0
                  BY <1>2 DEF BaseInv
            <3> QED BY <1>1, <1>4, <3>1 DEF Inodes, Names
      <2>3. BaseInv'
            <3>1. data \in [Inodes -> Seq(Int)] /\ disk \in [Inodes -> Seq(Int)]
                  BY DEF BaseInv
            <3>2. disk' \in [Inodes -> Seq(Int)]
                  <4> HIDE DEF m
                  <4> QED BY <2>1, <2>2, <3>1
            <3>3. pc' \in 1 .. Last'
                  BY <1>1, <1>2 DEF BaseInv, Last, Renaming
            <3> QED BY <1>2, <2>1, <3>2, <3>3 DEF BaseInv
      <2>4. FdInv' /\ NameInv'
            BY <1>1, <1>2, <1>4, <2>1 DEF FdInv, NameInv, BaseInv, Renaming, Stemming, Last
      <2>5. ASSUME prog \in Renaming, ~damaged
            PROVE  (Apart /\ Whole /\ Progress)'
            <3>1. Apart /\ Whole /\ Progress
                  BY <2>5 DEF UpdateInv
            <3>2. pc = 3 /\ m = dir["tmp"] /\ data[m] = NewData /\ dir["tmp"] # 0
                  BY <1>1, <1>4, <2>5, <3>1 DEF Progress, Renaming
            <3>3. disk'[m] = NewData /\ \A n \in Inodes \ {m} : disk'[n] = disk[n]
                  BY <2>1, <2>2, <3>2 DEF BaseInv
            <3>4. {dir["final"], diskDir["final"]} \ {0} \subseteq Inodes \ {m}
                  BY <3>1, <3>2, NamesTyped DEF Apart, Names
            <3> HIDE DEF m
            <3>5. Apart' /\ Progress'
                  BY <1>2, <2>1, <3>1, <3>2, <3>3 DEF Apart, Progress, Missed
            <3>6. Whole'
                  BY <1>2, <2>1, <3>1, <3>3, <3>4 DEF Whole, Missed
            <3> QED BY <3>5, <3>6
      <2> QED BY <1>2, <2>3, <2>4, <2>5 DEF IInv, UpdateInv
<1> QED BY <1>3, <1>4

\* rename: the temporary file, by now whole and on disk, becomes the final one.
LEMMA RenameStep == IInv /\ Rename => IInv'
<1> SUFFICES ASSUME IInv, Rename PROVE IInv'
    OBVIOUS
<1> BaseInv /\ FdInv /\ NameInv /\ UpdateInv
    BY DEF IInv
<1>1. prog \in Renaming /\ pc = 5 /\ dir["tmp"] # 0
      BY NameOps DEF Rename
<1>2. /\ dir' = [dir EXCEPT !["final"] = dir["tmp"], !["tmp"] = 0] /\ pc' = 6 /\ i' = 0
      /\ UNCHANGED <<prog, npages, fd, data, diskDir, disk, failed, faulty, damaged>>
      BY <1>1 DEF Rename, Advance, idle, errors
<1>3. dir \in [Names -> 0 .. 8]
      BY DEF BaseInv
<1>4. /\ dir' \in [Names -> 0 .. 8]
      /\ dir'["tmp"] = 0 /\ dir'["final"] = dir["tmp"] /\ dir'["dst"] = dir["dst"]
      BY <1>2, <1>3 DEF Names
<1>5. BaseInv'
      BY <1>1, <1>2, <1>4 DEF BaseInv, Last, Renaming
<1>6. FdInv' /\ NameInv'
      BY <1>1, <1>2, <1>4 DEF FdInv, NameInv, Renaming, Stemming, Last
<1>7. UpdateInv'
      <2> SUFFICES ASSUME ~damaged PROVE (Apart /\ Whole /\ Progress)'
          BY <1>2 DEF UpdateInv
      <2>1. Apart /\ Whole /\ Progress
            BY <1>1 DEF UpdateInv
      <2>2. data[dir["tmp"]] = NewData /\ disk[dir["tmp"]] = NewData
            BY <1>1, <2>1 DEF Progress, Missed
      <2>3. Apart'
            BY <1>1, <1>2, <1>4, <2>1 DEF Apart
      <2>4. Whole'
            BY <1>1, <1>2, <1>4, <2>1, <2>2 DEF Apart, Whole
      <2>5. Progress'
            BY <1>1, <1>2, <1>4, <2>2 DEF Progress
      <2> QED BY <2>3, <2>4, <2>5
<1> QED BY <1>5, <1>6, <1>7 DEF IInv

\* link.
LEMMA LinkStep == IInv /\ Link => IInv'
<1> SUFFICES ASSUME IInv, Link PROVE IInv'
    OBVIOUS
<1> BaseInv /\ FdInv /\ NameInv
    BY DEF IInv
<1>1. prog = "inode_information" /\ pc = 4 /\ Current.file = "dst"
      BY NameOps, FileAt DEF Link
<1>2. /\ dir' = [dir EXCEPT !["dst"] = dir["tmp"]] /\ pc' = 5 /\ i' = 0
      /\ UNCHANGED <<prog, npages, fd, data, diskDir, disk, failed, faulty, damaged>>
      BY <1>1 DEF Link, Advance, idle, errors
<1>3. dir \in [Names -> 0 .. 8]
      BY DEF BaseInv
<1>4. /\ dir' \in [Names -> 0 .. 8]
      /\ dir'["tmp"] = dir["tmp"] /\ dir'["final"] = dir["final"]
      BY <1>2, <1>3 DEF Names
<1>5. BaseInv'
      BY <1>1, <1>2, <1>4 DEF BaseInv, Last
<1>6. FdInv' /\ NameInv'
      BY <1>1, <1>2, <1>4 DEF FdInv, NameInv, Renaming, Stemming, Last
<1> QED BY <1>1, <1>2, <1>5, <1>6 DEF IInv, UpdateInv, Renaming

\* The steps that change neither files nor descriptors: an empty copy, malloc,
\* the test of both descriptors, pread, exit.
LEMMA QuietStep == IInv /\ (EmptyCopy \/ Malloc \/ TestOpened \/ Pread \/ Exit \/ UNCHANGED vars) => IInv'
<1> SUFFICES ASSUME IInv, EmptyCopy \/ Malloc \/ TestOpened \/ Pread \/ Exit \/ UNCHANGED vars
             PROVE  IInv'
    OBVIOUS
<1> BaseInv /\ FdInv /\ NameInv /\ UpdateInv
    BY DEF IInv
<1>1. CASE Exit \/ UNCHANGED vars
      <2>1. UNCHANGED vars
            BY <1>1 DEF Exit
      <2> QED BY <2>1 DEF vars, IInv, BaseInv, FdInv, NameInv, UpdateInv, Apart, Whole, Progress, Missed, Last
<1>2. CASE EmptyCopy \/ Malloc \/ TestOpened \/ Pread
      <2>1. UNCHANGED <<prog, npages, fd, dir, data, diskDir, disk, failed, faulty, damaged>>
            BY <1>2 DEF EmptyCopy, Malloc, TestOpened, Pread, kernel, idle, errors
      <2>2. /\ i' \in Nat
            /\ \/ prog = "file_copy" /\ pc = 6 /\ pc' = 7
               \/ prog = "file_copy" /\ pc = 3 /\ pc' = 4 /\ fd["tmp"] # 0 /\ fd["dst"] # 0
               \/ prog = "file_copy" /\ pc = 3 /\ pc' = 8
               \/ prog = "pread_latency" /\ pc \in {2, 5} /\ pc' = pc + 1
               \/ prog = "pread_latency" /\ pc \in {6, 7} /\ pc' \in {pc, pc + 1}
            <3>1. CASE EmptyCopy
                  BY <3>1, DataOps DEF EmptyCopy, Advance
            <3>2. CASE Malloc
                  BY <3>2, OtherOps DEF Malloc, Advance
            <3>3. CASE TestOpened
                  BY <3>3, OtherOps, ErrAt DEF TestOpened, BaseInv
            <3>4. CASE Pread
                  BY <3>4, OtherOps, LoopStep DEF Pread
            <3> QED BY <1>2, <3>1, <3>2, <3>3, <3>4
      <2>3. BaseInv'
            BY <2>1, <2>2 DEF BaseInv, Last
      <2>4. FdInv' /\ NameInv'
            BY <2>1, <2>2 DEF FdInv, NameInv, Last, Renaming, Stemming
      <2>5. UpdateInv'
            BY <2>1, <2>2 DEF UpdateInv, Renaming
      <2> QED BY <2>3, <2>4, <2>5 DEF IInv
<1> QED BY <1>1, <1>2

\* A call that fails: only the fsync of the temporary file takes the promise of
\* lab 32 away.  Without a descriptor the write that follows fails too; the
\* failure of an unlink, of the rename or of mkstemp is what explains a name.
LEMMA CallFailsStep == IInv /\ CallFails => IInv'
<1> SUFFICES ASSUME IInv, CallFails PROVE IInv'
    OBVIOUS
<1> BaseInv /\ FdInv /\ NameInv /\ UpdateInv
    BY DEF IInv
<1>1. UNCHANGED <<prog, npages, i, fd, dir, data, diskDir, disk>>
      BY DEF CallFails, kernel, idle
<1>2. /\ pc' = IF Current.err = 0 THEN pc + 1 ELSE Current.err
      /\ faulty' = (faulty \/ Current.err = 0)
      /\ damaged' = (damaged \/ (At("fsync") /\ Current.file = "tmp"))
      /\ failed' = failed \cup {<<Current.op, Current.file>>}
      BY DEF CallFails, Failed
<1>3. \/ At("creat") \/ At("mkstemp") \/ At("open") \/ At("fsync")
      \/ At("rename") \/ At("link") \/ At("malloc") \/ At("unlink")
      BY DEF CallFails, At
<1>4. \/ pc = 1
      \/ prog \in Renaming /\ pc \in {3, 5, 6, 7, 9}
      \/ prog = "open_write_fsync" /\ pc \in {3, 5}
      \/ prog = "file_copy" /\ pc \in {2, 5, 7}
      \/ prog = "pread_latency" /\ pc \in {2, 4, 5, 9}
      \/ prog = "inode_information" /\ pc \in {4, 5, 6}
      BY <1>3, NameOps, DataOps, OtherOps
<1>5. prog \in Renaming \cup Stemming \cup {"open_write_fsync"} /\ pc \in 1 .. Last
      BY DEF BaseInv
<1>6. /\ pc' \in pc + 1 .. Last
      /\ prog = "inode_information" => pc' = IF pc = 1 THEN 7 ELSE IF pc = 4 THEN 6 ELSE pc + 1
      /\ prog = "open_write_fsync" => pc' = pc + 1
      /\ prog = "file_copy" => pc' = pc + 1
      /\ prog = "pread_latency" => pc' \in {5, 8, 10}
      /\ pc' = 10 => pc \in {1, 9}
      /\ prog \in Renaming => \/ pc' = pc + 1 /\ Current.err = 0
                              \/ pc = 1 /\ pc' = 10 /\ prog \in Stemming
                              \/ pc = 6 /\ pc' = 9
      BY <1>2, <1>4, <1>5, ErrAt DEF Last, Renaming, Stemming
<1>7. /\ failed \subseteq failed'
      /\ prog \in Renaming /\ pc = 5 => <<"rename", "tmp">> \in failed'
      /\ prog \in Renaming /\ pc = 6 => <<"open", "dir">> \in failed'
      /\ prog \in Renaming /\ pc = 7 => <<"fsync", "dir">> \in failed'
      /\ prog \in Renaming /\ pc = 9 => <<"unlink", "final">> \in failed'
      /\ prog \in Stemming /\ pc = 1 => <<"mkstemp", "tmp">> \in failed'
      /\ prog = "inode_information" /\ pc = 5 => <<"unlink", "dst">> \in failed'
      /\ \/ prog = "open_write_fsync" /\ pc = 5
         \/ prog = "pread_latency" /\ pc = 9
         \/ prog = "inode_information" /\ pc = 6
         => <<"unlink", "tmp">> \in failed'
      <2>1. failed \subseteq failed' /\ <<Current.op, Current.file>> \in failed'
            BY <1>2
      <2>2. /\ prog \in Renaming /\ pc = 5 => Current.op = "rename" /\ Current.file = "tmp"
            /\ prog \in Renaming /\ pc = 6 => Current.op = "open" /\ Current.file = "dir"
            /\ prog \in Renaming /\ pc = 7 => Current.op = "fsync" /\ Current.file = "dir"
            /\ prog \in Renaming /\ pc = 9 => Current.op = "unlink" /\ Current.file = "final"
            /\ prog \in Stemming /\ pc = 1 => Current.op = "mkstemp" /\ Current.file = "tmp"
            /\ prog = "inode_information" /\ pc = 5 => Current.op = "unlink" /\ Current.file = "dst"
            /\ \/ prog = "open_write_fsync" /\ pc = 5
               \/ prog = "pread_latency" /\ pc = 9
               \/ prog = "inode_information" /\ pc = 6
               => Current.op = "unlink" /\ Current.file = "tmp"
            BY NameOps, DataOps, OtherOps, FileAt DEF At, Renaming, Stemming
      <2> QED BY <2>1, <2>2
<1>8. BaseInv'
      BY <1>1, <1>2, <1>5, <1>6 DEF BaseInv, Last
<1>9. FdInv'
      BY <1>1, <1>4, <1>5, <1>6 DEF FdInv, Renaming, Stemming
<1>10. NameInv'
      <2>1. (faulty => faulty') /\ (Current.err = 0 => faulty')
            BY <1>2, Zenon
      <2>2. CASE prog \in Renaming
            BY <1>1, <1>4, <1>6, <1>7, <2>1, <2>2 DEF NameInv, Last, Renaming, Stemming
      <2>3. CASE prog \notin Renaming
            BY <1>1, <1>4, <1>5, <1>6, <1>7, <2>3 DEF NameInv, Last, Renaming, Stemming
      <2> QED BY <2>2, <2>3
<1>11. ASSUME prog \in Renaming, ~damaged'
      PROVE  (Apart /\ Whole /\ Progress)'
      <2>1. ~damaged /\ pc # 3
            <3>1. ~damaged /\ ~(At("fsync") /\ Current.file = "tmp")
                  BY <1>2, <1>11, Zenon
            <3> QED BY <1>11, <3>1, DataOps, FileAt DEF BaseInv
      <2>2. Missed => Missed'
            BY <1>7 DEF Missed
      <2>3. pc \in {5, 6, 7} => Missed'
            BY <1>7, <1>11 DEF Missed
      <2>4. Apart /\ Whole /\ Progress
            BY <1>11, <2>1 DEF UpdateInv
      <2>5. Apart' /\ Whole'
            BY <1>1, <2>2, <2>4 DEF Apart, Whole
      <2>6. \/ pc = 1 /\ pc' \in {2, 10} /\ fd["tmp"] = 0
            \/ pc' \in 6 .. 9 /\ Missed'
            \/ pc' = 10
            <3>1. pc \in {1, 5, 6, 7, 9}
                  BY <1>4, <1>11, <2>1 DEF Renaming
            <3>2. pc = 1 => fd["tmp"] = 0
                  BY DEF FdInv
            <3> QED BY <1>6, <1>11, <2>3, <3>1, <3>2
      <2>7. Progress'
            BY <1>1, <2>6 DEF Progress
      <2> QED BY <2>5, <2>7
<1> QED BY <1>1, <1>8, <1>9, <1>10, <1>11 DEF IInv, UpdateInv

\* close.
LEMMA CloseStep == IInv /\ Close => IInv'
<1> SUFFICES ASSUME IInv, Close PROVE IInv'
    OBVIOUS
<1> BaseInv /\ FdInv /\ NameInv /\ UpdateInv
    BY DEF IInv
<1>1. \/ prog \in Renaming \cup {"open_write_fsync"} /\ pc = 4 /\ Current.file = "tmp"
      \/ prog \in Renaming /\ pc = 8 /\ Current.file = "dir"
      \/ prog = "pread_latency" /\ pc = 8 /\ Current.file = "tmp"
      \/ prog = "inode_information" /\ pc = 3 /\ Current.file = "tmp"
      BY OtherOps, FileAt DEF Close
<1>2. /\ fd' = [fd EXCEPT ![Current.file] = 0] /\ pc' = pc + 1 /\ i' = 0
      /\ UNCHANGED <<prog, npages, dir, data, diskDir, disk, failed, faulty, damaged>>
      BY DEF Close, Advance, idle, errors
<1>3. /\ fd' \in [Names \cup {"dir"} -> 0 .. 8] /\ fd'[Current.file] = 0
      /\ \A m \in Names \cup {"dir"} : fd'[m] \in {0, fd[m]}
      <2>1. fd \in [Names \cup {"dir"} -> 0 .. 8] /\ Current.file \in Names \cup {"dir"}
            BY <1>1 DEF BaseInv, Names
      <2> QED BY <1>2, <2>1
<1>4. BaseInv'
      BY <1>1, <1>2, <1>3 DEF BaseInv, Last, Renaming
<1>5. FdInv'
      BY <1>1, <1>2, <1>3 DEF FdInv, Names, Renaming, Stemming
<1>6. NameInv'
      BY <1>1, <1>2, <1>3 DEF NameInv, Renaming, Stemming, Last
<1>7. UpdateInv'
      BY <1>1, <1>2 DEF UpdateInv, Apart, Whole, Progress, Missed, Renaming
<1> QED BY <1>4, <1>5, <1>6, <1>7 DEF IInv

\* unlink.
LEMMA UnlinkStep == IInv /\ Unlink => IInv'
<1> SUFFICES ASSUME IInv, Unlink PROVE IInv'
    OBVIOUS
<1> BaseInv /\ FdInv /\ NameInv /\ UpdateInv
    BY DEF IInv
<1>1. \/ prog \in Renaming /\ pc = 9 /\ Current.file = "final"
      \/ prog = "open_write_fsync" /\ pc = 5 /\ Current.file = "tmp"
      \/ prog = "pread_latency" /\ pc = 9 /\ Current.file = "tmp"
      \/ prog = "inode_information" /\ pc = 5 /\ Current.file = "dst"
      \/ prog = "inode_information" /\ pc = 6 /\ Current.file = "tmp"
      BY NameOps, FileAt DEF Unlink
<1>2. /\ dir' = [dir EXCEPT ![Current.file] = 0] /\ pc' = pc + 1 /\ i' = 0
      /\ UNCHANGED <<prog, npages, fd, data, diskDir, disk, failed, faulty, damaged>>
      BY DEF Unlink, Advance, idle, errors
<1>3. /\ dir' \in [Names -> 0 .. 8] /\ dir'[Current.file] = 0
      /\ \A m \in Names \ {Current.file} : dir'[m] = dir[m]
      <2>1. dir \in [Names -> 0 .. 8] /\ Current.file \in Names
            BY <1>1 DEF BaseInv, Names
      <2> QED BY <1>2, <2>1
<1>4. BaseInv'
      BY <1>1, <1>2, <1>3 DEF BaseInv, Last, Renaming
<1>5. FdInv'
      BY <1>1, <1>2 DEF FdInv, Renaming, Stemming
<1>6. NameInv'
      BY <1>1, <1>2, <1>3 DEF NameInv, Renaming, Stemming, Last, Names
<1>7. UpdateInv'
      BY <1>1, <1>2, <1>3 DEF UpdateInv, Apart, Whole, Progress, Missed, Renaming, Names
<1> QED BY <1>4, <1>5, <1>6, <1>7 DEF IInv

\* Both halves of cleanup31; the unlink in them may fail.
LEMMA CleanupStep == IInv /\ (Cleanup \/ CleanupFails) => IInv'
<1> SUFFICES ASSUME IInv, Cleanup \/ CleanupFails PROVE IInv'
    OBVIOUS
<1> DEFINE f == Current.file
<1> BaseInv /\ FdInv /\ NameInv
    BY DEF IInv
<1>1. (pc = 8 /\ f = "tmp") \/ (pc = 9 /\ f = "dst")
      BY OtherOps, FileAt DEF Cleanup, CleanupFails
<1>2. /\ pc' = pc + 1 /\ i' = 0 /\ prog = "file_copy" /\ failed \subseteq failed'
      /\ UNCHANGED <<prog, npages, data, diskDir, disk>>
      BY OtherOps DEF Cleanup, CleanupFails, Failed, Advance, idle, errors
<1>3. faulty' \in BOOLEAN /\ damaged' \in BOOLEAN
      <2>1. faulty \in BOOLEAN /\ damaged \in BOOLEAN
            BY DEF BaseInv
      <2>2. CASE Cleanup
            BY <2>1, <2>2 DEF Cleanup, errors
      <2>3. CASE CleanupFails
            BY <2>1, <2>3 DEF CleanupFails
      <2> QED BY <2>2, <2>3
<1>4. /\ dir' \in [Names -> 0 .. 8] /\ fd' \in [Names \cup {"dir"} -> 0 .. 8]
      /\ fd'[f] = 0 /\ (dir'[f] # 0 => <<"unlink", f>> \in failed')
      /\ \A m \in Names \cup {"dir"} : m # f => fd'[m] = fd[m]
      /\ \A m \in Names : m # f => dir'[m] = dir[m]
      <2>1. dir \in [Names -> 0 .. 8] /\ fd \in [Names \cup {"dir"} -> 0 .. 8] /\ f \in Names
            BY <1>1 DEF BaseInv, Names
      <2>2. CASE Cleanup /\ fd[f] # 0
            <3>1. fd' = [fd EXCEPT ![f] = 0] /\ dir' = [dir EXCEPT ![f] = 0]
                  BY <2>2 DEF Cleanup, Cleaned
            <3> HIDE DEF f
            <3> QED BY <2>1, <3>1
      <2>3. CASE Cleanup /\ fd[f] = 0
            <3>1. fd' = fd /\ dir' = dir
                  BY <2>3 DEF Cleanup, Cleaned
            <3>2. dir[f] # 0 => <<"unlink", f>> \in failed
                  BY <1>1, <1>2, <2>3 DEF NameInv
            <3> HIDE DEF f
            <3> QED BY <1>2, <2>1, <2>3, <3>1, <3>2
      <2>4. CASE CleanupFails
            <3>1. fd' = [fd EXCEPT ![f] = 0] /\ dir' = dir /\ <<"unlink", f>> \in failed'
                  BY <2>4 DEF CleanupFails, Failed
            <3> HIDE DEF f
            <3> QED BY <2>1, <3>1
      <2> QED BY <2>2, <2>3, <2>4
<1> HIDE DEF f
<1>5. BaseInv'
      BY <1>1, <1>2, <1>3, <1>4 DEF BaseInv, Last
<1>6. FdInv'
      BY <1>1, <1>2, <1>4 DEF FdInv, Names, Renaming, Stemming, Last
<1>7. NameInv'
      <2>1. /\ dir["final"] = 0 /\ diskDir["final"] = 0 /\ dir'["final"] = 0
            BY <1>1, <1>2, <1>4 DEF NameInv, Names, Renaming
      <2>2. CASE pc = 8 /\ f = "tmp"
            BY <1>2, <1>4, <2>1, <2>2 DEF NameInv, Names, Renaming, Stemming, Last
      <2>3. CASE pc = 9 /\ f = "dst"
            BY <1>2, <1>4, <2>1, <2>3 DEF NameInv, FdInv, Names, Renaming, Stemming, Last
      <2> QED BY <1>1, <2>2, <2>3
<1> QED BY <1>2, <1>5, <1>6, <1>7 DEF IInv, UpdateInv, Renaming

\* The kernel writes an inode or the directory back, at any time.
LEMMA WriteBackStep == IInv /\ WriteBack => IInv'
<1> SUFFICES ASSUME IInv, WriteBack PROVE IInv'
    OBVIOUS
<1> BaseInv /\ FdInv /\ NameInv /\ UpdateInv
    BY DEF IInv
<1>1. UNCHANGED <<prog, npages, pc, i, fd, dir, data, failed, faulty, damaged>>
      BY DEF WriteBack, idle, errors
<1>2. CASE diskDir' = dir /\ disk' = disk
      <2>1. BaseInv'
            BY <1>1, <1>2 DEF BaseInv, Last
      <2>2. FdInv' /\ NameInv'
            BY <1>1, <1>2 DEF FdInv, NameInv, Renaming, Stemming, Last
      <2>3. UpdateInv'
            BY <1>1, <1>2 DEF UpdateInv, Apart, Whole, Progress, Missed
      <2> QED BY <2>1, <2>2, <2>3 DEF IInv
<1>3. ASSUME NEW n \in InUse, disk' = [disk EXCEPT ![n] = data[n]], diskDir' = diskDir
      PROVE  IInv'
      <2>1. n \in Inodes => data[n] \in Seq(Int)
            BY DEF BaseInv
      <2>2. disk' \in [Inodes -> Seq(Int)]
            BY <1>3, <2>1 DEF BaseInv
      <2>3. BaseInv'
            BY <1>1, <1>3, <2>2 DEF BaseInv, Last
      <2>4. FdInv' /\ NameInv'
            BY <1>1, <1>3 DEF FdInv, NameInv, Renaming, Stemming, Last
      <2>5. \A m \in Inodes : disk'[m] \in {disk[m], data[m]}
            BY <1>3 DEF BaseInv
      <2>6. ASSUME prog \in Renaming, ~damaged
            PROVE  (Apart /\ Whole /\ Progress)'
            <3>1. Apart /\ Whole /\ Progress
                  BY <2>6 DEF UpdateInv
            <3>2. \A m \in Inodes : disk[m] = data[m] => disk'[m] = data[m]
                  BY <2>5
            <3>3. Apart' /\ Whole'
                  BY <1>1, <1>3, <3>1, <3>2, NamesTyped DEF Apart, Whole, Missed, Names
            <3>4. Progress'
                  BY <1>1, <1>3, <3>1, <3>2, NamesTyped DEF Progress, Missed, Names
            <3> QED BY <3>3, <3>4
      <2> QED BY <1>1, <2>3, <2>4, <2>6 DEF IInv, UpdateInv
<1> QED BY <1>2, <1>3 DEF WriteBack

\* The machine stops; the next run starts from what the disk holds.
LEMMA CrashStep == IInv /\ Crash => IInv'
<1> SUFFICES ASSUME IInv, Crash PROVE IInv'
    OBVIOUS
<1> BaseInv /\ FdInv /\ NameInv /\ UpdateInv
    BY DEF IInv
<1> DEFINE gone == IF Uses("mkstemp") THEN {"tmp", "dst"} ELSE {}
           kept == [n \in Names |-> IF n \in gone THEN 0 ELSE diskDir[n]]
<1>1. /\ dir' = kept /\ diskDir' = kept
      /\ data' = disk /\ fd' = Closed /\ pc' = 1 /\ i' = 0
      /\ UNCHANGED <<prog, npages, disk, faulty, damaged>> /\ failed' = {}
      BY DEF Crash
<1>2. /\ kept \in [Names -> 0 .. 8]
      /\ kept["final"] = diskDir["final"]
      /\ kept["tmp"] \in {0, diskDir["tmp"]} /\ kept["dst"] \in {0, diskDir["dst"]}
      /\ prog \in Stemming => kept["tmp"] = 0 /\ kept["dst"] = 0
      <2>1. diskDir \in [Names -> 0 .. 8]
            BY DEF BaseInv
      <2>2. prog \in Stemming => gone = {"tmp", "dst"}
            BY UsesOf
      <2>3. gone \subseteq {"tmp", "dst"}
            OBVIOUS
      <2> HIDE DEF gone
      <2> QED BY <2>1, <2>2, <2>3 DEF Names
<1> HIDE DEF kept
<1>3. Closed \in [Names \cup {"dir"} -> 0 .. 8] /\ \A m \in Names \cup {"dir"} : Closed[m] = 0
      BY DEF Closed
<1>4. BaseInv'
      BY <1>1, <1>2, <1>3 DEF BaseInv, Last
<1>5. FdInv'
      BY <1>1, <1>3 DEF FdInv, Names
<1>6. NameInv'
      BY <1>1, <1>2 DEF NameInv, BaseInv, Last, Renaming, Stemming
<1>7. UpdateInv'
      BY <1>1, <1>2 DEF UpdateInv, Apart, Whole, Progress, Missed
<1> QED BY <1>4, <1>5, <1>6, <1>7 DEF IInv

\* A fresh checkout, or an older version of the final file.
LEMMA InitInv == Init => IInv
<1> SUFFICES ASSUME Init PROVE IInv
    OBVIOUS
<1>1. prog \in Renaming \cup Stemming \cup {"open_write_fsync"}
      BY DEF Init, Programs, Renaming, Stemming
<1>2. npages \in Nat \ {0}
      BY FileAssumption DEF Init
<1>3. PICK old \in {0, 1} : /\ dir = [n \in Names |-> IF n = "final" THEN old ELSE 0]
                            /\ old # 0 => Uses("rename")
      BY DEF Init
<1>4. /\ dir \in [Names -> 0 .. 8]
      /\ dir["tmp"] = 0 /\ dir["dst"] = 0 /\ dir["final"] = old
      BY <1>3 DEF Names
<1>5. /\ pc = 1 /\ i = 0 /\ fd = Closed /\ diskDir = dir /\ disk = data /\ failed = {} /\ faulty = FALSE /\ damaged = FALSE
      /\ data = [n \in Inodes |-> IF n = dir["final"] THEN OldData ELSE <<>>]
      BY DEF Init
<1>6. data \in [Inodes -> Seq(Int)]
      <2>1. OldData \in Seq(Int) /\ <<>> \in Seq(Int)
            BY DEF OldData
      <2> QED BY <1>5, <2>1
<1>7. /\ Closed \in [Names \cup {"dir"} -> 0 .. 8]
      /\ Closed["tmp"] = 0 /\ Closed["dst"] = 0 /\ Closed["final"] = 0 /\ Closed["dir"] = 0
      BY DEF Closed, Names
<1>8. BaseInv
      <2>1. pc \in 1 .. Last /\ i \in Nat
            <3>1. pc = 1 /\ i = 0
                  BY <1>5
            <3> QED BY <3>1 DEF Last
      <2>2. faulty \in BOOLEAN /\ damaged \in BOOLEAN
            BY <1>5, Zenon
      <2> QED BY <1>1, <1>2, <1>4, <1>5, <1>6, <1>7, <2>1, <2>2 DEF BaseInv
<1>9. FdInv
      BY <1>5, <1>7 DEF FdInv
<1>10. NameInv
      BY <1>3, <1>4, <1>5, <1>8, UsesOf DEF NameInv, Last
<1>11. UpdateInv
      <2>1. Apart /\ Progress
            BY <1>4, <1>5 DEF Apart, Progress, Missed
      <2>2. dir["final"] # 0 => data[dir["final"]] = OldData
            BY <1>3, <1>4, <1>5 DEF Inodes
      <2> QED BY <1>5, <2>1, <2>2 DEF UpdateInv, Whole
<1> QED BY <1>8, <1>9, <1>10, <1>11 DEF IInv

\* Every step, of a program, of the kernel or of the machine, preserves it.
LEMMA NextInv == IInv /\ [Next]_vars => IInv'
<1> SUFFICES ASSUME IInv, [Next]_vars PROVE IInv'
    OBVIOUS
<1>1. CASE Create BY <1>1, CreateStep
<1>2. CASE OpenDir BY <1>2, OpenDirStep
<1>3. CASE Write BY <1>3, WriteStep
<1>4. CASE WriteFails BY <1>4, WriteFailsStep
<1>5. CASE Fsync BY <1>5, FsyncStep
<1>6. CASE Rename BY <1>6, RenameStep
<1>7. CASE Link BY <1>7, LinkStep
<1>8. CASE EmptyCopy \/ Malloc \/ TestOpened \/ Pread \/ Exit \/ UNCHANGED vars
      BY <1>8, QuietStep
<1>9. CASE CallFails BY <1>9, CallFailsStep
<1>10. CASE Close BY <1>10, CloseStep
<1>11. CASE Unlink BY <1>11, UnlinkStep
<1>12. CASE Cleanup \/ CleanupFails BY <1>12, CleanupStep
<1>13. CASE WriteBack BY <1>13, WriteBackStep
<1>14. CASE Crash BY <1>14, CrashStep
<1>15. CASE ReadFails BY <1>15, ReadFailsStep
<1> QED BY <1>1, <1>2, <1>3, <1>4, <1>5, <1>6, <1>7, <1>8, <1>9, <1>10, <1>11, <1>12, <1>13,
           <1>14, <1>15 DEF Next

\* The invariant holds in every state, whatever fails and however often the
\* machine stops.
THEOREM Invariance == Spec => []IInv
BY InitInv, NextInv, PTL DEF Spec

-----------------------------------------------------------------------------
(* What follows from it.                                                   *)

\* A program that ran to its end, over its error paths too, has closed its
\* descriptors, and has removed the temporary files, the second name and the
\* final file: a name is left only by the failure of the unlink in cleanup31 or
\* at the end of labs 29, 30 and 32, of lab 32's rename or of its mkstemp.
THEOREM Tidy == Spec => []TidyAtExit
<1>1. IInv => TidyAtExit
      <2> SUFFICES ASSUME IInv, At("exit")
                   PROVE  fd = Closed /\ \A n \in Names : dir[n] # 0 => Excused(n)
          BY DEF TidyAtExit
      <2> BaseInv /\ FdInv /\ NameInv
          BY DEF IInv
      <2>1. pc = Last /\ prog \in Renaming \cup Stemming \cup {"open_write_fsync"}
            BY ExitAt DEF BaseInv
      <2>2. \A f \in Names \cup {"dir"} : fd[f] = 0
            BY <2>1 DEF FdInv, Last, Names, Renaming, Stemming
      <2>3. fd = Closed
            BY <2>2 DEF BaseInv, Closed
      <2>4. dir["dst"] # 0 => Excused("dst")
            BY <2>1 DEF NameInv, Last, Excused
      <2>5. dir["tmp"] # 0 => Excused("tmp")
            BY <2>1 DEF NameInv, Last, Renaming, Excused
      <2>6. dir["final"] # 0 => Excused("final")
            BY <2>1 DEF NameInv, Excused
      <2> QED BY <2>3, <2>4, <2>5, <2>6 DEF Names
<1> QED BY <1>1, Invariance, PTL

\* While lab 32 goes well, a step leaves the file the disk has under the final
\* name alone, or gives the disk the directory that is in memory.
LEMMA DiskStep ==
    ASSUME IInv, Next, prog \in Renaming, ~damaged
    PROVE  \/ /\ diskDir'["final"] = diskDir["final"]
              /\ diskDir["final"] # 0 => disk'[diskDir["final"]] = disk[diskDir["final"]]
           \/ diskDir' = dir /\ disk' = disk
<1> BaseInv /\ FdInv /\ NameInv /\ Apart /\ Whole /\ Progress
    BY DEF IInv, UpdateInv
<1>1. CASE Create
      <2>1. Current.file = "tmp"
            BY <1>1, NameOps, FileAt DEF Create, Renaming
      <2>2. dir["tmp"] = 0 => FreeInode # diskDir["final"]
            BY FreeInodeIsFree DEF Names
      <2>3. diskDir["final"] # 0 => diskDir["final"] \in Inodes
            BY NamesTyped DEF Names
      <2> QED BY <1>1, <2>1, <2>2, <2>3 DEF Create, BaseInv
<1>2. CASE Fsync
      <2>1. \/ Current.file = "dir"
            \/ Current.file = "tmp" /\ pc = 3
            BY <1>2, DataOps, FileAt DEF Fsync, Renaming
      <2>2. CASE Current.file = "dir"
            BY <1>2, <2>2 DEF Fsync
      <2>3. CASE Current.file = "tmp" /\ pc = 3
            <3>1. fd["tmp"] # diskDir["final"]
                  BY <2>3 DEF Progress, Apart
            <3>2. disk' = [disk EXCEPT ![fd["tmp"]] = data[fd["tmp"]]] /\ diskDir' = diskDir
                  BY <1>2, <2>3 DEF Fsync, Synced
            <3>3. diskDir["final"] # 0 => diskDir["final"] \in Inodes
                  BY NamesTyped DEF Names
            <3> QED BY <3>1, <3>2, <3>3 DEF BaseInv
      <2> QED BY <2>1, <2>2, <2>3
<1>3. CASE WriteBack
      <2>1. CASE diskDir' = dir /\ disk' = disk
            BY <2>1
      <2>2. ASSUME NEW n \in InUse, disk' = [disk EXCEPT ![n] = data[n]], diskDir' = diskDir
            PROVE  /\ diskDir'["final"] = diskDir["final"]
                   /\ diskDir["final"] # 0 => disk'[diskDir["final"]] = disk[diskDir["final"]]
            BY <2>2, NamesTyped DEF Whole, BaseInv, Names
      <2> QED BY <1>3, <2>1, <2>2 DEF WriteBack
<1>4. CASE Crash
      <2>1. disk' = disk /\ diskDir'["final"] = diskDir["final"]
            BY <1>4 DEF Crash, Names
      <2> QED BY <2>1
<1>5. CASE ~(Create \/ Fsync \/ WriteBack \/ Crash)
      <2>1. disk' = disk /\ diskDir' = diskDir
            BY <1>5 DEF Next, OpenDir, Write, WriteFails, EmptyCopy, ReadFails, Rename, Link, Malloc, CallFails,
                        TestOpened, Close, Unlink, Cleanup, CleanupFails, Pread, Exit, kernel, vars
      <2> QED BY <2>1
<1> QED BY <1>1, <1>2, <1>3, <1>4, <1>5

\* Only a write or an fsync that fails changes damaged, and leaves the disk alone.
LEMMA DamageStep ==
    ASSUME BaseInv, Next
    PROVE  \/ damaged' = damaged
           \/ damaged' = TRUE /\ disk' = disk /\ diskDir' = diskDir
<1>1. CASE WriteFails \/ CallFails
      <2>1. disk' = disk /\ diskDir' = diskDir
            BY <1>1 DEF WriteFails, CallFails, kernel
      <2>2. damaged' \in {TRUE, damaged}
            <3>1. damaged = TRUE \/ damaged = FALSE
                  BY DEF BaseInv
            <3> QED BY <1>1, <3>1 DEF WriteFails, CallFails
      <2> QED BY <2>1, <2>2
<1>2. CASE ~(WriteFails \/ CallFails)
      BY <1>2 DEF Next, Create, OpenDir, Write, EmptyCopy, ReadFails, Fsync, Rename, Link, Malloc, TestOpened,
                  Close, Unlink, Cleanup, CleanupFails, Pread, Exit, WriteBack, Crash, vars, errors
<1> QED BY <1>1, <1>2

\* Only a failed call and a restart change what failed in this run, and the file
\* the disk has under the final name stays as it is.
LEMMA FailedStep ==
    ASSUME BaseInv, Next
    PROVE  \/ failed' = failed
           \/ diskDir'["final"] = diskDir["final"] /\ disk' = disk
<1>1. CASE WriteFails \/ ReadFails \/ CallFails \/ CleanupFails
      BY <1>1 DEF WriteFails, ReadFails, CallFails, CleanupFails, kernel
<1>2. CASE Crash
      BY <1>2 DEF Crash, Names
<1>3. CASE ~(WriteFails \/ ReadFails \/ CallFails \/ CleanupFails \/ Crash)
      BY <1>3 DEF Next, Create, OpenDir, Write, EmptyCopy, Fsync, Rename, Link, Malloc, TestOpened,
                  Close, Unlink, Cleanup, Pread, Exit, WriteBack, vars, errors
<1> QED BY <1>1, <1>2, <1>3

\* Lab 32 replaces the file atomically: whenever the machine stops, in whatever
\* order the kernel writes back and whichever calls fail, the disk has the old
\* contents, the whole new contents or no file, and loses the file only when it
\* had the new contents or when the rename or the sync of the directory failed.
\* The promise ends with a write or an fsync of the temporary file that fails.
THEOREM AtomicOnDisk == Spec => ImplementsAtomicUpdate
<1>1. Init => Update!Init
      <2> SUFFICES ASSUME Init PROVE OnDisk \in {NoFile, OldData} /\ damaged = FALSE /\ Missed = FALSE
          BY DEF Update!Init
      <2>1. damaged = FALSE /\ failed = {} /\ diskDir = dir /\ disk = data
            BY DEF Init
      <2>2. dir["final"] \in {0, 1} /\ data = [n \in Inodes |-> IF n = dir["final"] THEN OldData ELSE <<>>]
            BY DEF Init, Names
      <2>3. OnDisk \in {NoFile, OldData}
            BY <2>1, <2>2 DEF OnDisk, Inodes
      <2>4. Missed = FALSE
            BY <2>1 DEF Missed
      <2> QED BY <2>1, <2>3, <2>4
<1>2. IInv /\ IInv' /\ [Next]_vars => [Update!Next]_<<OnDisk, damaged, Missed>>
      <2> SUFFICES ASSUME IInv, IInv', [Next]_vars PROVE [Update!Next]_<<OnDisk, damaged, Missed>>
          OBVIOUS
      <2>1. CASE UNCHANGED vars
            BY <2>1 DEF vars, OnDisk, Missed
      <2>2. CASE Next
            <3>1. CASE damaged' # damaged
                  <4>1. damaged' = TRUE /\ OnDisk' = OnDisk
                        BY <2>2, <3>1, DamageStep DEF IInv, OnDisk
                  <4> QED BY <4>1 DEF Update!Next, Update!Damage
            <3>2. CASE damaged' = damaged /\ damaged
                  BY <3>2 DEF Update!Next, Update!Spoil
            <3>3. CASE damaged' = damaged /\ failed' # failed
                  <4>1. OnDisk' = OnDisk
                        BY <2>2, <3>3, FailedStep DEF IInv, OnDisk
                  <4>2. Missed' = TRUE \/ Missed' = FALSE
                        BY DEF Missed
                  <4> QED BY <3>3, <4>1, <4>2 DEF Update!Next, Update!Miss, Update!Restart
            <3>4. CASE damaged' = damaged /\ failed' = failed /\ ~damaged /\ prog \notin Renaming
                  <4>1. diskDir["final"] = 0 /\ diskDir'["final"] = 0
                        <5>1. prog' = prog
                              BY <2>2 DEF Next, Create, OpenDir, Write, WriteFails, EmptyCopy, ReadFails, Fsync,
                                 Rename, Link, Malloc, CallFails, TestOpened, Close, Unlink, Cleanup,
                                 CleanupFails, Pread, Exit, WriteBack, Crash, vars, idle
                        <5> QED BY <3>4, <5>1 DEF IInv, NameInv
                  <4> QED BY <3>4, <4>1 DEF OnDisk, Missed
            <3>5. CASE damaged' = damaged /\ failed' = failed /\ ~damaged /\ prog \in Renaming
                  <4>0. Missed' = Missed
                        BY <3>5 DEF Missed
                  <4>1. CASE /\ diskDir'["final"] = diskDir["final"]
                             /\ diskDir["final"] # 0 => disk'[diskDir["final"]] = disk[diskDir["final"]]
                        BY <3>5, <4>0, <4>1 DEF OnDisk
                  <4>2. CASE diskDir' = dir /\ disk' = disk
                        <5>1. \/ OnDisk' = OnDisk \/ OnDisk' = NewData
                              \/ OnDisk' = NoFile /\ (OnDisk = NewData \/ Missed)
                              BY <3>5, <4>2 DEF IInv, UpdateInv, Whole, OnDisk
                        <5> QED BY <3>5, <4>0, <5>1 DEF Update!Next, Update!Replace, Update!Remove
                  <4> QED BY <2>2, <3>5, <4>1, <4>2, DiskStep
            <3> QED BY <3>1, <3>2, <3>3, <3>4, <3>5
      <2> QED BY <2>1, <2>2
<1> QED BY <1>1, <1>2, Invariance, PTL DEF Spec, ImplementsAtomicUpdate, Update!Spec
-----------------------------------------------------------------------------
(* Whole transfers.  The strided loop of lab 29 visits every page when the *)
(* file has 4 * j pages, for 2 * j + 1 is then its own inverse; 4 MiB are  *)
(* that for every page size up to 1 MiB.  One page is no loop at all.      *)

Divisible == {1} \cup {4 * j : j \in Nat \ {0}}

\* What lab 31 has written so far: pages, then as many copied blocks.
CopyInv ==
    prog = "file_copy" /\ ~faulty =>
        /\ pc \in 2 .. 8 => fd["tmp"] # 0
        /\ pc \in 3 .. 8 => fd["dst"] # 0 /\ fd["tmp"] # fd["dst"]
        /\ pc \notin {4, 6} => i = 0
        /\ pc \in {2, 3} => data[fd["tmp"]] = <<>>
        /\ pc \in 3 .. 5 => data[fd["dst"]] = <<>>
        /\ pc = 4 => i < npages /\ Len(data[fd["tmp"]]) = i
        /\ pc \in 5 .. 8 => Len(data[fd["tmp"]]) = npages
        /\ pc = 6 => /\ i < npages /\ Len(data[fd["dst"]]) = i
                     /\ \A k \in 1 .. i : data[fd["dst"]][k] = data[fd["tmp"]][k]
        /\ pc \in {7, 8} => data[fd["dst"]] = data[fd["tmp"]]

\* What lab 29 has read so far.
PreadInv ==
    prog = "pread_latency" =>
        /\ npages \in PageCounts /\ seen \in [0 .. npages - 1 -> Int]
        /\ pc \in {1, 2, 4, 5} => i = 0
        /\ pc <= 5 => \A p \in 0 .. npages - 1 : seen[p] = 0
        /\ pc = 6 => i < npages /\ \A p \in 0 .. npages - 1 : seen[p] = IF p < i THEN 1 ELSE 0
        /\ pc = 7 => i < npages /\ \A p \in 0 .. npages - 1 : seen[p] = IF Stride(p, npages) < i THEN 2 ELSE 1
        /\ pc >= 8 => \A p, q \in 0 .. npages - 1 : seen[p] = seen[q]

\* The remainder of a number written as a multiple and a rest.
LEMMA RemainderIs ==
    ASSUME NEW n \in Nat \ {0}, NEW c \in Int, NEW r \in 0 .. n - 1, NEW x \in Nat, x = n * c + r
    PROVE  x % n = r
<1> DEFINE q == x \div n
           s == x % n
<1>1. x = n * q + s /\ s \in 0 .. n - 1 /\ q \in Int
      OBVIOUS
<1> HIDE DEF q, s
<1>2. PICK d \in Int : d = q - c
      BY <1>1
<1>3. n * q = n * c + n * d /\ n * d \in Int /\ n * c \in Int
      BY <1>1, <1>2
<1>4. n * d = r - s
      BY <1>1, <1>3
<1>5. d = 0
      <2>1. ~(d >= 1)
            <3> SUFFICES ASSUME d >= 1 PROVE FALSE
                OBVIOUS
            <3>1. PICK e \in Nat : d = 1 + e
                  <4>1. d - 1 \in Nat /\ d = 1 + (d - 1)
                        BY <1>2
                  <4> QED BY <4>1
            <3>2. n * d = n + n * e /\ n * e \in Nat
                  BY <3>1
            <3> QED BY <1>1, <1>4, <3>2
      <2>2. ~(d <= -1)
            <3> SUFFICES ASSUME d <= -1 PROVE FALSE
                OBVIOUS
            <3>1. PICK e \in Nat : d = -1 - e
                  <4>1. -1 - d \in Nat /\ d = -1 - (-1 - d)
                        BY <1>2
                  <4> QED BY <4>1
            <3>2. n * d = -n - n * e /\ n * e \in Nat
                  BY <3>1
            <3> QED BY <1>1, <1>4, <3>2
      <2> QED BY <1>2, <2>1, <2>2
<1>6. s = r
      BY <1>1, <1>4, <1>5
<1> QED BY <1>6 DEF s

\* The stride takes page p to a page that it takes back to p.
LEMMA StrideBack ==
    ASSUME NEW n \in Divisible, NEW p \in 0 .. n - 1
    PROVE  /\ n \in Nat \ {0}
           /\ Stride(p, n) \in 0 .. n - 1 /\ Stride(Stride(p, n), n) = p
<1>1. CASE n = 1
      <2>1. p = 0 /\ (0 * (1 \div 2 + 1)) % 1 = 0
            BY <1>1
      <2> QED BY <1>1, <2>1 DEF Stride
<1>2. CASE n # 1
      <2>1. PICK j \in Nat \ {0} : n = 4 * j
            BY <1>2 DEF Divisible
      <2>2. PICK m \in Nat : m = 2 * j + 1 /\ n \div 2 + 1 = m
            BY <2>1
      <2>3. m * m = n * (j + 1) + 1
            <3>1. (2 * j + 1) * (2 * j + 1) = (4 * j) * (j + 1) + 1
                  BY <2>1
            <3> QED BY <2>1, <2>2, <3>1
      <2>4. n \in Nat \ {0} /\ p \in Nat
            BY <2>1
      <2> DEFINE x == p * m
                 q == x \div n
                 r == x % n
      <2>5. x \in Nat
            BY <2>2, <2>4
      <2>6. x = n * q + r /\ r \in 0 .. n - 1 /\ q \in Int
            <3> HIDE DEF x
            <3> QED BY <2>4, <2>5
      <2>7. Stride(p, n) = r /\ Stride(r, n) = (r * m) % n
            BY <2>2, Zenon DEF Stride
      <2> HIDE DEF q, r
      <2>8. r * m = n * (p * (j + 1) - q * m) + p
            <3>1. r = p * m - n * q
                  BY <2>2, <2>4, <2>6
            <3>2. r * m = p * (m * m) - n * (q * m)
                  BY <2>2, <2>4, <2>6, <3>1
            <3>3. PICK a \in Int, b \in Int : a = j + 1 /\ b = q * m
                  BY <2>2, <2>6
            <3>4. p * (n * a + 1) = n * (p * a) + p
                  BY <2>4, <3>3
            <3>5. n * (p * a - b) = n * (p * a) - n * b
                  BY <2>4, <3>3
            <3>6. n * (p * a) \in Int /\ n * b \in Int
                  BY <2>4, <3>3
            <3>7. r * m = p * (n * a + 1) - n * b
                  BY <2>3, <3>2, <3>3
            <3>8. r * m = n * (p * a - b) + p
                  BY <2>4, <3>4, <3>5, <3>6, <3>7
            <3> QED BY <3>3, <3>8
      <2>9. PICK c \in Int : c = p * (j + 1) - q * m
            BY <2>2, <2>4, <2>6
      <2>10. r * m \in Nat
            BY <2>2, <2>6
      <2>11. PICK y \in Nat : y = r * m
            BY <2>10
      <2>12. y = n * c + p
            BY <2>8, <2>9, <2>11
      <2>13. y % n = p
            BY <2>4, <2>12, RemainderIs
      <2> QED BY <2>4, <2>6, <2>7, <2>11, <2>13
<1> QED BY <1>1, <1>2

\* Which steps lab 29 takes, and what they leave alone.
LEMMA PreadMoves ==
    ASSUME BaseInv, Next, prog = "pread_latency", ~Pread, ~Crash
    PROVE  /\ UNCHANGED <<prog, npages, seen>>
           /\ \/ pc' = pc /\ (i' = i \/ pc = 3)
              \/ pc \in 1 .. 5 /\ pc' = pc + 1 /\ (i' = 0 \/ (pc # 3 /\ i' = i))
              \/ pc \in {1, 2, 5} /\ pc' \in {8, 10}
              \/ pc \in {8, 9} /\ pc' = pc + 1
<1>1. ~At("creat") /\ ~At("open") /\ ~At("link") /\ ~At("rename") /\ ~At("copy") /\ ~At("write") /\ ~At("opened")
      /\ ~At("cleanup")
      BY NameOps, DataOps, OtherOps DEF Renaming
<1>2. ~OpenDir /\ ~Rename /\ ~Link /\ ~EmptyCopy /\ ~ReadFails /\ ~TestOpened /\ ~Cleanup /\ ~CleanupFails
      BY <1>1 DEF OpenDir, Rename, Link, EmptyCopy, ReadFails, TestOpened, Cleanup, CleanupFails
<1>3. CASE Create
      <2>1. pc = 1
            BY <1>1, <1>3, NameOps DEF Create
      <2> QED BY <1>3, <2>1 DEF Create, Advance, idle, errors
<1>4. CASE Write \/ WriteFails
      <2>1. pc = 3
            BY <1>1, <1>4, DataOps DEF Write, WriteFails, Writing
      <2> QED BY <1>4, <2>1 DEF Write, WriteFails, Loop, Advance, idle, errors
<1>5. CASE Fsync
      <2>1. pc = 4
            BY <1>5, DataOps DEF Fsync, Renaming
      <2> QED BY <1>5, <2>1 DEF Fsync, Advance, idle, errors
<1>6. CASE Malloc
      <2>1. pc \in {2, 5}
            BY <1>6, OtherOps DEF Malloc
      <2> QED BY <1>6, <2>1 DEF Malloc, Advance, idle, errors
<1>7. CASE CallFails
      <2>1. At("mkstemp") \/ At("fsync") \/ At("malloc") \/ At("unlink")
            BY <1>1, <1>7 DEF CallFails, At
      <2>2. pc \in {1, 2, 4, 5, 9}
            BY <2>1, NameOps, DataOps, OtherOps DEF Renaming
      <2>3. Current.err = IF pc = 1 THEN 10 ELSE IF pc \in {2, 5} THEN 8 ELSE 0
            BY <2>2, ErrAt
      <2> QED BY <1>7, <2>2, <2>3 DEF CallFails, idle, errors
<1>8. CASE Close \/ Unlink
      <2>1. pc \in {8, 9}
            BY <1>8, NameOps, OtherOps DEF Close, Unlink, Renaming
      <2> QED BY <1>8, <2>1 DEF Close, Unlink, Advance, idle, errors
<1>9. CASE Exit \/ WriteBack
      BY <1>9 DEF Exit, WriteBack, vars, idle, errors
<1> QED BY <1>2, <1>3, <1>4, <1>5, <1>6, <1>7, <1>8, <1>9 DEF Next

\* One page more is read, by the sequential or by the strided loop.
LEMMA PreadStep ==
    ASSUME BaseInv, PreadInv, Pread, PageCounts \subseteq Divisible
    PROVE  PreadInv'
<1>0. prog = "pread_latency" /\ pc \in {6, 7} /\ i \in Nat
      BY OtherOps DEF Pread, BaseInv
<1>1. /\ npages \in PageCounts /\ seen \in [0 .. npages - 1 -> Int] /\ i < npages
      /\ pc = 6 => \A p \in 0 .. npages - 1 : seen[p] = IF p < i THEN 1 ELSE 0
      /\ pc = 7 => \A p \in 0 .. npages - 1 : seen[p] = IF Stride(p, npages) < i THEN 2 ELSE 1
      BY <1>0 DEF PreadInv
<1>2. /\ \A p \in 0 .. npages - 1 : Stride(p, npages) \in 0 .. npages - 1 /\ Stride(Stride(p, npages), npages) = p
      /\ npages \in Nat \ {0}
      <2>1. npages \in Divisible
            BY <1>1
      <2>2. npages \in Nat \ {0}
            BY DEF BaseInv
      <2> QED BY <2>1, <2>2, StrideBack
<1>3. UNCHANGED <<prog, npages>> /\ (IF i + 1 < npages THEN pc' = pc /\ i' = i + 1 ELSE pc' = pc + 1 /\ i' = 0)
      BY DEF Pread, Loop, Advance, idle, errors
<1>4. CASE pc = 6
      <2>1. Current.file = "sequential"
            BY <1>0, <1>4, PreadLatencyCalls DEF Call
      <2>2. seen' = [seen EXCEPT ![i] = @ + 1]
            BY <2>1 DEF Pread
      <2>3. seen' \in [0 .. npages - 1 -> Int]
            <3>1. i \in 0 .. npages - 1
                  BY <1>0, <1>1, <1>2
            <3> QED BY <1>1, <2>2, <3>1
      <2>4. \A p \in 0 .. npages - 1 : seen'[p] = IF p < i + 1 THEN 1 ELSE 0
            BY <1>0, <1>1, <1>4, <2>2
      <2>5. CASE i + 1 < npages
            BY <1>0, <1>1, <1>3, <1>4, <2>3, <2>4, <2>5 DEF PreadInv
      <2>6. CASE ~(i + 1 < npages)
            <3>1. pc' = 7 /\ i' = 0 /\ i + 1 = npages
                  BY <1>0, <1>1, <1>2, <1>3, <1>4, <2>6
            <3>2. \A p \in 0 .. npages - 1 : seen'[p] = 1 /\ ~(Stride(p, npages) < 0)
                  BY <1>0, <1>2, <2>4, <3>1
            <3> QED BY <1>0, <1>1, <1>2, <1>3, <2>3, <3>1, <3>2 DEF PreadInv
      <2> QED BY <2>5, <2>6
<1>5. CASE pc = 7
      <2>0. PICK s : s = Stride(i, npages)
            OBVIOUS
      <2>1. Current.file = "strided"
            BY <1>0, <1>5, PreadLatencyCalls DEF Call
      <2>2. seen' = [seen EXCEPT ![s] = @ + 1] /\ s \in 0 .. npages - 1 /\ Stride(s, npages) = i
            <3>1. i \in 0 .. npages - 1
                  BY <1>0, <1>1, <1>2
            <3> QED BY <1>2, <2>0, <2>1, <3>1 DEF Pread
      <2>3. seen' \in [0 .. npages - 1 -> Int]
            BY <1>1, <2>2
      <2>4. \A p \in 0 .. npages - 1 : seen'[p] = IF Stride(p, npages) < i + 1 THEN 2 ELSE 1
            <3> SUFFICES ASSUME NEW p \in 0 .. npages - 1
                         PROVE  seen'[p] = IF Stride(p, npages) < i + 1 THEN 2 ELSE 1
                OBVIOUS
            <3>1. p # s => Stride(p, npages) # i
                  BY <1>2, <2>0, <2>2
            <3>2. Stride(p, npages) \in Int
                  BY <1>2
            <3>3. seen[p] = IF Stride(p, npages) < i THEN 2 ELSE 1
                  BY <1>1, <1>5
            <3>4. CASE p = s
                  BY <1>0, <1>1, <2>2, <3>3, <3>4
            <3>5. CASE p # s
                  BY <1>0, <1>1, <2>2, <3>1, <3>2, <3>3, <3>5
            <3> QED BY <3>4, <3>5
      <2>5. CASE i + 1 < npages
            <3>1. pc' = 7 /\ i' = i + 1
                  BY <1>3, <1>5, <2>5
            <3> QED BY <1>0, <1>1, <1>3, <2>3, <2>4, <2>5, <3>1 DEF PreadInv
      <2>6. CASE ~(i + 1 < npages)
            <3>1. pc' = 8 /\ i + 1 = npages
                  BY <1>0, <1>1, <1>2, <1>3, <1>5, <2>6
            <3>2. \A p \in 0 .. npages - 1 : seen'[p] = 2
                  BY <1>2, <2>4, <3>1
            <3> QED BY <1>0, <1>1, <1>3, <2>3, <3>1, <3>2 DEF PreadInv
      <2> QED BY <2>5, <2>6
<1> QED BY <1>0, <1>4, <1>5

LEMMA PreadInvStep ==
    ASSUME BaseInv, PreadInv, [Next]_vars, PageCounts \subseteq Divisible
    PROVE  PreadInv'
<1>1. CASE Pread
      BY <1>1, PreadStep
<1>2. CASE Crash
      <2>1. UNCHANGED <<prog, npages>> /\ pc' = 1 /\ i' = 0 /\ seen' = [p \in 0 .. npages - 1 |-> 0]
            BY <1>2 DEF Crash, NotSeen
      <2> QED BY <2>1 DEF PreadInv
<1>3. CASE Next /\ ~Pread /\ ~Crash /\ prog = "pread_latency"
      <2>1. /\ UNCHANGED <<prog, npages, seen>>
            /\ \/ pc' = pc /\ (i' = i \/ pc = 3)
               \/ pc \in 1 .. 5 /\ pc' = pc + 1 /\ (i' = 0 \/ (pc # 3 /\ i' = i))
               \/ pc \in {1, 2, 5} /\ pc' \in {8, 10}
               \/ pc \in {8, 9} /\ pc' = pc + 1
            BY <1>3, PreadMoves
      <2>2. pc \in Int /\ npages \in Nat \ {0}
            BY DEF BaseInv
      <2>3. CASE pc' = pc /\ (i' = i \/ pc = 3)
            BY <1>3, <2>1, <2>3 DEF PreadInv
      <2>4. CASE pc \in 1 .. 5 /\ pc' = pc + 1 /\ (i' = 0 \/ (pc # 3 /\ i' = i))
            <3>1. i' = 0 /\ \A p \in 0 .. npages - 1 : seen[p] = 0
                  BY <1>3, <2>2, <2>4 DEF PreadInv
            <3> QED BY <1>3, <2>1, <2>2, <2>4, <3>1 DEF PreadInv
      <2>5. CASE pc \in {1, 2, 5} /\ pc' \in {8, 10}
            BY <1>3, <2>1, <2>5 DEF PreadInv
      <2>6. CASE pc \in {8, 9} /\ pc' = pc + 1
            BY <1>3, <2>1, <2>6 DEF PreadInv
      <2> QED BY <2>1, <2>3, <2>4, <2>5, <2>6
<1>4. CASE UNCHANGED vars
      BY <1>4 DEF vars, PreadInv
<1>5. CASE prog # "pread_latency" /\ Next
      <2>1. prog' = prog
            BY <1>5 DEF Next, Create, OpenDir, Write, WriteFails, EmptyCopy, ReadFails, Fsync, Rename, Link, Malloc, CallFails,
                        TestOpened, Close, Unlink, Cleanup, CleanupFails, Pread, Exit, WriteBack, Crash, idle, errors, vars
      <2> QED BY <1>5, <2>1 DEF PreadInv
<1> QED BY <1>1, <1>2, <1>3, <1>4, <1>5

\* mkstemp of lab 31 opens an empty file that nothing else refers to.
LEMMA CopyCreate ==
    ASSUME IInv, CopyInv, Create, prog = "file_copy", ~faulty
    PROVE  CopyInv'
<1> BaseInv /\ FdInv /\ NameInv
    BY DEF IInv
<1>1. pc \in {1, 2} /\ Current.file = IF pc = 1 THEN "tmp" ELSE "dst"
      BY NameOps, FileAt DEF Create, Stemming
<1>2. dir[Current.file] = 0
      BY <1>1 DEF NameInv, Stemming
<1>3. PICK n : n = FreeInode
      OBVIOUS
<1>4. n \in Inodes /\ n # 0 /\ n # fd["tmp"] /\ n # fd["dst"]
      <2>1. Current.file \in {"tmp", "dst"}
            BY <1>1
      <2>2. FreeInode \in Inodes /\ \A m \in Names : FreeInode \notin {dir[m], diskDir[m], fd[m]}
            BY <1>2, <2>1, FreeInodeIsFree
      <2> QED BY <1>3, <2>2 DEF Names, Inodes
<1>5. /\ fd' = [fd EXCEPT ![Current.file] = n] /\ data' = [data EXCEPT ![n] = <<>>]
      /\ pc' = pc + 1 /\ i' = 0 /\ UNCHANGED <<prog, npages, failed, faulty>>
      BY <1>2, <1>3 DEF Create, Advance, idle, errors
<1>6. fd \in [Names \cup {"dir"} -> 0 .. 8] /\ data \in [Inodes -> Seq(Int)]
      BY DEF BaseInv
<1>7. CASE pc = 1
      <2>1. fd'["tmp"] = n /\ data'[n] = <<>>
            BY <1>1, <1>4, <1>5, <1>6, <1>7 DEF Names
      <2> QED BY <1>4, <1>5, <1>7, <2>1 DEF CopyInv
<1>8. CASE pc = 2
      <2>1. fd["tmp"] # 0 /\ data[fd["tmp"]] = <<>> /\ fd["tmp"] \in Inodes
            BY <1>6, <1>8 DEF CopyInv, Names, Inodes
      <2>2. fd'["dst"] = n /\ fd'["tmp"] = fd["tmp"] /\ data'[n] = <<>> /\ data'[fd["tmp"]] = data[fd["tmp"]]
            BY <1>1, <1>4, <1>5, <1>6, <1>8, <2>1 DEF Names
      <2> QED BY <1>4, <1>5, <1>8, <2>1, <2>2 DEF CopyInv
<1> QED BY <1>1, <1>7, <1>8

\* A page is written, or the next block of what was written is copied.
LEMMA CopyWrite ==
    ASSUME IInv, CopyInv, Write, prog = "file_copy", ~faulty
    PROVE  CopyInv'
<1> BaseInv /\ FdInv
    BY DEF IInv
<1>0. fd \in [Names \cup {"dir"} -> 0 .. 8] /\ data \in [Inodes -> Seq(Int)] /\ i \in Nat /\ npages \in Nat \ {0}
      BY DEF BaseInv
<1>1. pc \in {4, 6} /\ Current.file = (IF pc = 4 THEN "tmp" ELSE "dst") /\ (At("copy") <=> pc = 6) /\ (At("fill") <=> pc = 4)
      BY DataOps, FileAt DEF Write, Writing, Renaming
<1>2. PICK t \in Inodes, d \in Inodes : t = fd["tmp"] /\ d = fd["dst"] /\ t # d /\ t # 0 /\ d # 0
      <2>1. fd["tmp"] # 0 /\ fd["dst"] # 0 /\ fd["tmp"] # fd["dst"]
            BY <1>1 DEF CopyInv
      <2>2. fd["tmp"] \in Inodes /\ fd["dst"] \in Inodes
            BY <1>0, <2>1 DEF Names, Inodes
      <2> QED BY <2>1, <2>2
<1>3. fd' = fd /\ UNCHANGED <<prog, npages, failed, faulty>> /\ Loop(MoreToWrite)
      BY DEF Write, idle, errors
<1>4. CASE pc = 4
      <2>1. data' = [data EXCEPT ![t] = Append(@, i + 1)]
            BY <1>1, <1>2, <1>4 DEF Write, Block
      <2>2. i < npages /\ Len(data[t]) = i /\ data[d] = <<>>
            BY <1>2, <1>4 DEF CopyInv
      <2>3. data'[d] = <<>> /\ Len(data'[t]) = i + 1
            <3>1. data'[t] = Append(data[t], i + 1) /\ data'[d] = data[d] /\ data[t] \in Seq(Int)
                  BY <1>0, <1>2, <2>1
            <3> QED BY <1>0, <2>2, <3>1
      <2>4. IF i + 1 < npages THEN pc' = pc /\ i' = i + 1 ELSE pc' = pc + 1 /\ i' = 0
            BY <1>1, <1>3, <1>4 DEF Loop, MoreToWrite, Advance
      <2>5. CASE i + 1 < npages
            BY <1>2, <1>3, <1>4, <2>3, <2>4, <2>5 DEF CopyInv
      <2>6. CASE ~(i + 1 < npages)
            <3>1. i + 1 = npages /\ pc' = 5 /\ i' = 0
                  BY <1>0, <1>4, <2>2, <2>4, <2>6
            <3> QED BY <1>2, <1>3, <2>3, <3>1 DEF CopyInv
      <2> QED BY <2>5, <2>6
<1>5. CASE pc = 6
      <2>2. /\ i < npages /\ Len(data[d]) = i /\ Len(data[t]) = npages
            /\ \A k \in 1 .. i : data[d][k] = data[t][k]
            BY <1>2, <1>5 DEF CopyInv
      <2>1. data' = [data EXCEPT ![d] = Append(@, data[t][i + 1])]
            BY <1>1, <1>2, <1>5 DEF Write, Block
      <2>3. /\ data'[t] = data[t] /\ Len(data'[d]) = i + 1
            /\ \A k \in 1 .. i + 1 : data'[d][k] = data[t][k]
            <3>0. data[t] \in Seq(Int) /\ data[d] \in Seq(Int) /\ i + 1 \in 1 .. Len(data[t])
                  BY <1>0, <1>2, <2>2
            <3>1. data'[d] = Append(data[d], data[t][i + 1]) /\ data'[t] = data[t]
                  BY <1>0, <1>2, <2>1
            <3> QED BY <1>0, <2>2, <3>0, <3>1
      <2>4. IF i + 1 < npages THEN pc' = pc /\ i' = i + 1 ELSE pc' = pc + 1 /\ i' = 0
            BY <1>1, <1>2, <1>3, <1>5, <2>2 DEF Loop, MoreToWrite, Advance
      <2>5. CASE i + 1 < npages
            BY <1>2, <1>3, <1>5, <2>2, <2>3, <2>4, <2>5 DEF CopyInv
      <2>6. CASE ~(i + 1 < npages)
            <3>1. i + 1 = npages /\ pc' = 7 /\ i' = 0
                  BY <1>0, <1>5, <2>2, <2>4, <2>6
            <3>2. data'[d] = data'[t]
                  <4>1. data'[d] \in Seq(Int) /\ data'[t] \in Seq(Int)
                        <5>1. BaseInv'
                              BY WriteStep DEF IInv
                        <5> QED BY <1>2, <5>1 DEF BaseInv
                  <4>2. Len(data'[d]) = Len(data'[t])
                        BY <2>2, <2>3, <3>1
                  <4>3. PICK a \in Seq(Int), b \in Seq(Int) : a = data'[d] /\ b = data'[t]
                        BY <4>1
                  <4>4. \A k \in 1 .. Len(a) : a[k] = b[k]
                        BY <2>3, <4>3
                  <4> QED BY <4>2, <4>3, <4>4, SeqEqual
            <3> QED BY <1>2, <1>3, <2>2, <2>3, <3>1, <3>2 DEF CopyInv
      <2> QED BY <2>5, <2>6
<1> QED BY <1>1, <1>4, <1>5

LEMMA CopyInvStep ==
    ASSUME IInv, CopyInv, [Next]_vars
    PROVE  CopyInv'
<1> BaseInv /\ FdInv
    BY DEF IInv
<1>0. UNCHANGED prog
      BY DEF Next, Create, OpenDir, Write, WriteFails, EmptyCopy, ReadFails, Fsync, Rename, Link, Malloc, CallFails,
             TestOpened, Close, Unlink, Cleanup, CleanupFails, Pread, Exit, WriteBack, Crash, idle, errors, vars
<1> SUFFICES ASSUME prog = "file_copy", ~faulty' PROVE CopyInv'
    BY <1>0 DEF CopyInv
<1>1. CASE Crash
      <2>1. pc' = 1 /\ i' = 0
            BY <1>1 DEF Crash
      <2> QED BY <2>1 DEF CopyInv
<1>2. CASE UNCHANGED vars \/ Exit \/ WriteBack
      <2>1. UNCHANGED <<pc, i, fd, data, npages, failed, faulty>>
            BY <1>2 DEF vars, Exit, WriteBack, idle, errors
      <2> QED BY <1>0, <2>1 DEF CopyInv
<1>3. CASE CallFails \/ WriteFails \/ ReadFails \/ CleanupFails
      <2>1. CASE CallFails
            <3>1. \/ At("mkstemp") \/ At("creat") \/ At("open") \/ At("fsync")
                  \/ At("rename") \/ At("link") \/ At("malloc") \/ At("unlink")
                  BY <2>1 DEF CallFails, At
            <3>2. pc # 3
                  BY <3>1, NameOps, DataOps, OtherOps DEF Renaming
            <3>3. Current.err = 0
                  BY <3>2, ErrAt
            <3> QED BY <2>1, <3>3, Zenon DEF CallFails
      <2>2. CASE WriteFails \/ ReadFails \/ CleanupFails
            BY <2>2 DEF WriteFails, ReadFails, CleanupFails
      <2> QED BY <1>3, <2>1, <2>2
<1>4. ~At("open") /\ ~At("rename") /\ ~At("link") /\ ~At("malloc") /\ ~At("close") /\ ~At("unlink") /\ ~At("pread")
      BY NameOps, OtherOps DEF Renaming
<1>5. ~OpenDir /\ ~Rename /\ ~Link /\ ~Malloc /\ ~Close /\ ~Unlink /\ ~Pread
      BY <1>4 DEF OpenDir, Rename, Link, Malloc, Close, Unlink, Pread
<1>6. CASE Create
      <2>1. ~faulty
            BY <1>6 DEF Create, errors
      <2> QED BY <1>6, <2>1, CopyCreate
<1>7. CASE Write
      <2>1. ~faulty
            BY <1>7 DEF Write, errors
      <2> QED BY <1>7, <2>1, CopyWrite
<1>8. CASE EmptyCopy
      <2>1. ~faulty /\ pc = 6 /\ data[fd["tmp"]] = <<>>
            BY <1>8, DataOps DEF EmptyCopy, errors
      <2>2. Len(data[fd["tmp"]]) = npages /\ npages # 0
            BY <2>1 DEF CopyInv, BaseInv
      <2> QED BY <2>1, <2>2
<1>9. CASE Fsync
      <2>1. pc \in {5, 7} /\ pc' = pc + 1 /\ i' = 0 /\ UNCHANGED <<fd, data, npages, failed, faulty>>
            BY <1>9, DataOps DEF Fsync, Advance, idle, errors, Renaming
      <2>2. npages \in Nat \ {0}
            BY DEF BaseInv
      <2>3. CASE pc = 5
            BY <1>0, <2>1, <2>2, <2>3 DEF CopyInv
      <2>4. CASE pc = 7
            BY <1>0, <2>1, <2>4 DEF CopyInv
      <2> QED BY <2>1, <2>3, <2>4
<1>10. CASE TestOpened
      <2>1. pc = 3 /\ UNCHANGED <<i, fd, data, npages, failed, faulty>>
            BY <1>10, OtherOps DEF TestOpened, idle, errors, kernel
      <2>2. fd["tmp"] # 0 /\ fd["dst"] # 0 /\ fd["tmp"] # fd["dst"] /\ i = 0
            /\ data[fd["tmp"]] = <<>> /\ data[fd["dst"]] = <<>>
            BY <2>1 DEF CopyInv
      <2>3. pc' = 4
            BY <1>10, <2>1, <2>2 DEF TestOpened
      <2>4. npages \in Nat \ {0} /\ Len(<<>>) = 0
            BY DEF BaseInv
      <2> QED BY <1>0, <2>1, <2>2, <2>3, <2>4 DEF CopyInv
<1>11. CASE Cleanup
      <2>1. pc \in {8, 9} /\ pc' = pc + 1 /\ i' = 0
            BY <1>11, OtherOps DEF Cleanup, Advance
      <2> QED BY <2>1 DEF CopyInv
<1> QED BY <1>1, <1>2, <1>3, <1>5, <1>6, <1>7, <1>8, <1>9, <1>10, <1>11 DEF Next

\* Lab 31's copy holds every block of the file in order when its loop ends
\* without a failure, whatever was written back meanwhile, and lab 29's two
\* loops of pread each read every page of the file once, for every file of a
\* number of pages divisible by four: (i * (npages / 2 + 1)) % npages skips none.
THEOREM WholeTransfers ==
    ASSUME PageCounts \subseteq Divisible
    PROVE  Spec => []TransfersWhole
<1>1. Init => CopyInv /\ PreadInv
      <2> SUFFICES ASSUME Init PROVE CopyInv /\ PreadInv
          OBVIOUS
      <2>1. pc = 1 /\ i = 0 /\ npages \in PageCounts /\ seen = [p \in 0 .. npages - 1 |-> 0]
            BY DEF Init, NotSeen
      <2> QED BY <2>1 DEF CopyInv, PreadInv
<1>2. IInv /\ CopyInv /\ PreadInv /\ [Next]_vars => CopyInv' /\ PreadInv'
      BY CopyInvStep, PreadInvStep DEF IInv
<1>3. IInv /\ CopyInv /\ PreadInv => TransfersWhole
      <2> SUFFICES ASSUME IInv, CopyInv, PreadInv PROVE TransfersWhole
          OBVIOUS
      <2>0. BaseInv /\ FdInv /\ pc \in Int
            BY DEF IInv, BaseInv
      <2>1. ASSUME prog = "file_copy", pc > 6, fd["tmp"] # 0, ~faulty
            PROVE  data[fd["dst"]] = data[fd["tmp"]] /\ Len(data[fd["dst"]]) = npages
            <3>1. pc \in {7, 8}
                  BY <2>0, <2>1 DEF FdInv
            <3> QED BY <2>1, <3>1 DEF CopyInv
      <2>2. ASSUME prog = "pread_latency", At("close")
            PROVE  \A p, q \in DOMAIN seen : seen[p] = seen[q]
            <3>1. pc = 8
                  BY <2>0, <2>2, OtherOps DEF Renaming
            <3> QED BY <2>2, <3>1 DEF PreadInv
      <2> QED BY <2>1, <2>2 DEF TransfersWhole
<1> QED BY <1>1, <1>2, <1>3, Invariance, PTL DEF Spec
=============================================================================
