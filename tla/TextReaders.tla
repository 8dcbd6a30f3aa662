---------------------------- MODULE TextReaders ----------------------------
(***************************************************************************)
(* The labs print parts of files under /proc and /sys with a few kinds of  *)
(* fgets loops.  Here every loop is a record that says which lines it      *)
(* picks, when it stops, what it says at the end and what it does about a  *)
(* file that is missing, and one machine runs them all.                    *)
(*                                                                         *)
(* fgets returns at most a bufferful: a long line comes in two pieces and  *)
(* the loops take every piece for a line.                                  *)
(***************************************************************************)
EXTENDS Integers, SequencesExt

CONSTANTS ListBound   \* how many files of a list of independent files are read

ASSUME ListAssumption == ListBound \in Nat \ {0, 1}

-----------------------------------------------------------------------------
(* Which lines are picked, and how a loop ends.                            *)

\* All of them, to the end of the file.
Show == [match |-> "any", keys |-> {}, starts |-> {}, last |-> {}, limit |-> {}, counts |-> "read",
         enough |-> {}, says |-> "nothing", notes |-> FALSE, rules |-> <<"all">>]
\* strncmp with the length of a key, and strstr.  Some loops also look at the
\* first word: it is enough, or needed too ("both"), or excluded ("only").
Prefix(ks) == [Show EXCEPT !.match = "prefix", !.keys = ks]
Substring(ks) == [Show EXCEPT !.match = "substring", !.keys = ks]
\* From the first line that contains a key on, to a line that begins with w.
Entry(ks, w) == [Show EXCEPT !.match = "from", !.keys = ks, !.last = {w}]
\* while (fgets(...) && n < limit): the test comes after the read.
First(k, r) == [r EXCEPT !.limit = {k}]
FirstShown(k, r) == [r EXCEPT !.limit = {k}, !.counts = "shown"]
\* if (++n >= k) break, for the lines that are printed or for blank ones.
Enough(k, r) == [r EXCEPT !.enough = {k}, !.counts = "shown"]
Newline == "newline"
UntilBlank(k, r) == [r EXCEPT !.enough = {k}, !.counts = "blank", !.last = {Newline}]
\* What is printed after the loop: "truncated" when n reached the limit
\* ("limit") or when there is no end of file ("feof"), or whether anything
\* was found ("found").
Says(m, r) == [r EXCEPT !.says = m]
\* Files of which the first line is printed, each with what is done when it
\* is missing: "next" goes on, "stop" ends the list, "else" tries the next
\* file instead, "pair" skips the next one too, "default" prints -1 or
\* (unknown), "keep" prints the buffer as it is; "raw" goes on like "next" but
\* does not look at what fgets returns.  Of an "all" file every line is read.
Value(rules) == [Show EXCEPT !.rules = rules]
Each(rules) == FlattenSeq([k \in 1 .. ListBound |-> rules])

\* Labs 1 to 4
demo_address_space_map == Says("limit", First(20, Show))
demo_count_vma_regions == Show
memory_max_01 == Value(<<"next">>)
demo_cache_hierarchy == Value(Each(<<"stop", "default", "keep", "default", "default">>))
demo_topology == Says("found", Value(Each(<<"next">>)))
siblings == Value(<<"next", "next">>)
demo_memory_info == Prefix({"MemTotal", "MemFree", "MemAvailable", "Cached", "SwapTotal",
    "HugePages_Total", "Hugepagesize"})
demo_iomem_02 == Says("limit", First(30, Show))
demo_cpuinfo_iomem ==
    UntilBlank(2, Prefix({"processor", "model name", "cpu MHz", "cache size", "physical id", "flags", "bugs"}))
demo_iomem_04 == First(30, Show)
demo_ioports == First(15, Show)
buddyinfo == Show
demo_meminfo_zones == Prefix({"MemTotal", "MemAvailable", "HugePages", "Huge", "DirectMap",
    "NFS", "Committed"})

\* Labs 7 to 13
slab_header == First(3, Show)
demo_slab_allocator == Enough(6, Substring({"task_struct", "mm_struct", "inode_cache", "dentry"}))
demo_buddy_allocator == Show
demo_vmstat == Prefix({"nr_free_pages", "nr_active_anon", "nr_inactive_anon", "nr_active_file",
    "nr_inactive_file", "pgfault", "pgmajfault", "pswpin", "pswpout"})
demo_mm_struct == Prefix({"Vm", "Rss", "Threads"})
demo_slub_stats == Value(Each(<<"pair", "next">>))
la57 == Says("found", Enough(1, [Substring({"la57"}) EXCEPT !.match = "both", !.starts = {"flags"}]))
demo_smaps == Entry({"address"}, "VmFlags")
rss_before == Enough(1, Prefix({"VmRSS:"}))
rss_after == rss_before
count_vmas == Show
new_vma == Enough(1, Substring({"address"}))
thp_10 == Value(<<"next">>)
demo_hugepages == Substring({"HugePages", "Hugepagesize"})
demo_boot_overview == Show
demo_cmdline == Value(<<"next">>)
demo_boot_memory ==
    FirstShown(25, Substring({"Memory:", "BIOS-e820:", "page tables", "kernel", "Zone"}))
demo_kernel_version == Value(<<"next">>)
kernel_config == Show
demo_kexec_tpm == Value(<<"next", "next">>)
meltdown == Value(<<"next">>)
parent_child_vmas == Show

\* Labs 14 to 17
status_14 ==
    Prefix({"Pid:", "PPid:", "VmPeak:", "VmRSS:", "VmData:", "VmStk:", "Threads:", "NSpid:"})
demo_voluntary_stats == Substring({"ctxt_switches", "voluntary"})
sched_16 == First(15, Show)
sched_fields_16 ==
    First(20, [Substring({"se.vruntime", "nr_switches", "prio", "wait_sum", "exec_max",
                          "sum_exec_runtime", "se.nr_migrations"}) EXCEPT !.starts = {"("}])
status_16 == Prefix({"voluntary", "nonvoluntary", "Threads:", "SigCgt:"})
pid1_status == Prefix({"Name:", "Pid:", "PPid:", "State:", "Threads:", "VmRSS:"})
pid1_cgroup == First(5, Show)

\* Labs 28 to 33
lru_lists == Substring({"Active", "Inactive", "Unevictable"})
mglru == Value(<<"next">>)
swap_28 == Prefix({"SwapTotal", "SwapFree", "SwapCached"})
vmstat_28 == Prefix({"pgfault", "pgmajfault", "pgpgout", "pswpout"})
partitions == Show
io_scheduler == Value(<<"else", "next">>)
mounts_30 == First(10, Show)
dentry_state == Value(<<"next">>)
journal_mode == Enough(1, [Substring({" / "}) EXCEPT !.match = "only", !.starts = {"none"}])
ext4_mounts == Show
jbd2_info == First(15, Show)
ext4_list == Says("found", Show)
mb_groups == Show

\* Labs 34 to 40
capabilities == Prefix({"Cap"})
selinux == Value(<<"next">>)
min_granularity == Value(<<"next">>)
tunables_35 == Value(Each(<<"next">>))
tunables_37 == Value(Each(<<"next">>))
bpf == Value(<<"next", "next">>)
iommu_groups == Value(<<"next">>)
cgroup_39 == Show
memory_max_39 == Value(<<"else", "next">>)
cgpath == Prefix({"0::"})
cgroup_limits == Value(<<"else", "next", "else", "next">>)
numa_nodes_40 == Value(Each(<<"stop">>))
thp_governor == Value(<<"next", "next">>)
gpus == [Show EXCEPT !.rules = Each(<<"all">>)]
locked_memory == Substring({"Max locked memory"})

\* Process and memory exercises
print_proc_file_25 == Says("feof", First(25, Show))
print_proc_file_8 == Says("feof", First(8, Show))
print_proc_file_1 == Says("feof", First(1, Show))
print_status_field == Enough(1, Prefix({"VmRSS"}))
ex_task_struct == Prefix({"Name", "Pid", "PPid", "Threads", "VmPeak", "VmSize", "VmRSS", "VmData",
    "VmStk", "VmExe", "VmPTE", "voluntary_ctxt_switches",
    "nonvoluntary_ctxt_switches"})
smaps_entry == FirstShown(18, Entry({"address"}, "VmFlags"))
ex_mmap_types == Substring({"anon_priv", "file_priv", "anon_shared"})
ex_oom_killer == Value(Each(<<"default", "raw", "raw">>))
ex_huge_pages == Substring({"Huge", "huge", "AnonHuge"})
ex_meminfo_tour == [Show EXCEPT !.notes = TRUE, !.keys = {
    "MemTotal", "MemFree", "MemAvailable", "Buffers", "Cached", "SwapCached", "Active", "Inactive",
    "SwapTotal", "SwapFree", "Dirty", "Writeback", "AnonPages", "Mapped", "Shmem", "KReclaimable", "Slab",
    "SReclaimable", "SUnreclaim", "PageTables", "VmallocTotal", "VmallocUsed", "HugePages_Total",
    "AnonHugePages"}]
child_status == First(6, Show)
zombie_state == Enough(1, Prefix({"State"}))
ex_cgroup_memory == Value(Each(<<"next">>))

Readers ==
    {demo_address_space_map, demo_count_vma_regions, memory_max_01, demo_cache_hierarchy,
     demo_topology, siblings, demo_memory_info, demo_iomem_02, demo_cpuinfo_iomem, demo_iomem_04,
     demo_ioports, buddyinfo, demo_meminfo_zones, slab_header, demo_slab_allocator,
     demo_buddy_allocator, demo_vmstat, demo_mm_struct, demo_slub_stats, la57,
     demo_smaps, rss_before, rss_after, count_vmas, new_vma, thp_10, parent_child_vmas, demo_hugepages, demo_boot_overview, demo_cmdline,
     demo_boot_memory, demo_kernel_version, kernel_config, demo_kexec_tpm, meltdown,
     status_14, demo_voluntary_stats, sched_16, sched_fields_16, status_16, pid1_status,
     pid1_cgroup, lru_lists, mglru, swap_28, vmstat_28, partitions, io_scheduler,
     mounts_30, dentry_state, journal_mode, ext4_mounts, jbd2_info, ext4_list, mb_groups,
     capabilities, selinux, min_granularity, tunables_35, tunables_37, bpf, iommu_groups,
     cgroup_39, memory_max_39, cgpath, cgroup_limits, numa_nodes_40, thp_governor, gpus,
     locked_memory, print_proc_file_25, print_proc_file_8, print_proc_file_1,
     print_status_field, ex_task_struct, ex_oom_killer, ex_huge_pages, ex_meminfo_tour,
     smaps_entry, ex_mmap_types, child_status, zombie_state, ex_cgroup_memory}

-----------------------------------------------------------------------------
(* Files.  A line is one piece, or two when it is longer than the buffer; a *)
(* piece has a first word and other words.                                  *)

Missing == <<<<>>>>
Piece(first, rest) == [first |-> first, rest |-> rest]
Plain == Piece("", {})

\* Lines that contain the key a, or a and b, or neither, at various places.
Lines(r, a, b) ==
    LET heads == {Plain, Piece(a, {}), Piece("", {a}), Piece("", {a, b}), Piece(a, {b})}
                    \cup {Piece(w, x) : w \in r.starts, x \in {{}, {a}}}
    IN  {<<p>> : p \in heads} \cup {<<p, q>> : p \in heads, q \in {Plain, Piece("", {a})}}

\* Short files, and files about as long as the loop may count, of lines that
\* it picks, the first of them perhaps a long one or one that it does not pick.
Bounds(r) == r.limit \cup r.enough
AboutLimit(r, a) ==
    {[k \in 1 .. len |-> IF k = 1 THEN head ELSE <<Piece(a, {a})>>] :
        len \in UNION {b - 1 .. b + 2 : b \in Bounds(r)} \ {0},
        head \in {<<Piece(a, {a})>>, <<Plain>>, <<Piece(a, {a}), Plain>>}}
\* Files of a few blocks, each ended by a blank line or by VmFlags.
Blocks(r, a) ==
    LET line == {<<Plain>>, <<Piece(a, {})>>}
        end == {<<Piece(w, {})>> : w \in r.last}
    IN  IF end = {} THEN {}
        ELSE {<<x>> \o s : x \in line, s \in UNION {[1 .. len -> line \cup end] : len \in 2 .. 4}}
Contents(r) ==
    {<<>>} \cup UNION {LET ls == Lines(r, a, b)
                       IN  {<<x>> : x \in ls} \cup {<<x, y>> : x, y \in ls} \cup AboutLimit(r, a) \cup Blocks(r, a) :
                       a \in r.keys \cup {""}, b \in IF r.keys = {} THEN {""} ELSE {CHOOSE k \in r.keys : TRUE}}

\* One file of any contents, or a list of one-line files of which two are
\* missing or empty.
Lists(r) ==
    IF Len(r.rules) = 1 THEN {<<c>> : c \in Contents(r) \cup {Missing}}
    ELSE {[k \in DOMAIN r.rules |-> IF k = i THEN x ELSE IF k = j THEN y ELSE <<<<Plain>>>>] :
             i, j \in DOMAIN r.rules, x, y \in {Missing, <<>>, <<<<Plain>>, <<Plain>>>>}}

-----------------------------------------------------------------------------
VARIABLES reader, files,
          pc, f,        \* the file being read
          pos, n, eof,  \* pieces read from it, the loop's counter, feof
          buf,          \* which file the buffer's contents are from, 0: from none
          shown,        \* what was printed: which piece, and from which file it is
          told          \* the messages after the loops

vars == <<reader, files, pc, f, pos, n, eof, buf, shown, told>>

Garbage == -1
Rule == reader.rules[f]
Text == FlattenSeq(files[f])
Shown(k, from) == [file |-> f, piece |-> k, from |-> from]

Init ==
    /\ reader \in Readers /\ files \in Lists(reader)
    /\ pc = "open" /\ f = 1 /\ pos = 0 /\ n = 0 /\ eof = FALSE /\ buf = 0
    /\ shown = <<>> /\ told = {}

\* Does the loop print the k-th piece of the text?
Picks(r, text, k) ==
    LET p == text[k]
        inside == p.rest \cap r.keys # {}
    IN  CASE r.match = "any" -> TRUE
          [] r.match = "prefix" -> p.first \in r.keys
          [] r.match = "substring" -> inside \/ p.first \in r.keys \cup r.starts
          [] r.match = "both" -> inside /\ p.first \in r.starts
          [] r.match = "only" -> inside /\ p.first \notin r.starts
          [] r.match = "from" -> \E j \in 1 .. k : ({text[j].first} \cup text[j].rest) \cap r.keys # {}

\* Mutant: the loop over the keys does not stop at the first that matches.
PrintedEachKey(k) ==
    IF ~Picks(reader, Text, k) THEN <<>>
    ELSE [i \in 1 .. Max({1, Cardinality(({Text[k].first} \cup Text[k].rest) \cap reader.keys)}) |-> Shown(k, f)]
\* What is printed for the k-th piece: the line, after its explanation if it
\* has one.
Printed(k) ==
    IF ~Picks(reader, Text, k) THEN <<>>
    ELSE IF reader.notes /\ Text[k].first \in reader.keys THEN <<Shown(0, f), Shown(k, f)>>
    ELSE <<Shown(k, f)>>

\* The next file, or the end.
After(k) == IF k <= Len(reader.rules) THEN pc' = "open" /\ f' = k ELSE pc' = "end" /\ UNCHANGED f

\* What is printed although nothing was read.
Instead == CASE Rule = "keep" -> <<Shown(0, buf)>>
             [] Rule = "default" -> <<Shown(0, 0)>>
             [] Rule = "raw" /\ files[f] # Missing -> <<Shown(0, Garbage)>>
             [] OTHER -> <<>>

\* Mutant: the path that is tried when the first is missing is read in any case.
FollowingAlways(read) == IF Rule = "stop" /\ ~read THEN Len(reader.rules) + 1 ELSE f + 1
\* The file that is opened after this one.  The helpers read_sysfs_str and
\* read_sysfs return -1 for a missing file and for an empty one.
Following(read) ==
    CASE Rule = "stop" /\ ~read -> Len(reader.rules) + 1
      [] Rule = "pair" /\ files[f] = Missing -> f + 2
      [] Rule = "else" /\ files[f] # Missing -> f + 2
      [] OTHER -> f + 1

Open ==
    /\ pc = "open" /\ files[f] # Missing
    /\ pc' = "loop" /\ pos' = 0 /\ n' = 0 /\ eof' = FALSE
    /\ UNCHANGED <<reader, files, f, buf, shown, told>>

\* fopen fails.
NoFile ==
    /\ pc = "open" /\ files[f] = Missing
    /\ shown' = shown \o Instead
    /\ After(Following(FALSE))
    /\ UNCHANGED <<reader, files, pos, n, eof, buf, told>>

\* The test after fgets: the counter has reached the limit.
Over == \E k \in reader.limit : n >= k

\* fgets returns the next piece; read_sysfs_long has a buffer of its own.
Fgets ==
    /\ pc = "loop" /\ pos < Len(Text)
    /\ pos' = pos + 1 /\ buf' = IF Rule = "default" THEN buf ELSE f
    /\ LET out == Printed(pos + 1)
           ends == Text[pos + 1].first \in reader.last
           counted == CASE reader.counts = "read" -> TRUE
                        [] reader.counts = "shown" -> out # <<>>
                        [] reader.counts = "blank" -> ends
           more == IF counted THEN n + 1 ELSE n
       IN  IF Over THEN pc' = "close" /\ UNCHANGED <<n, shown>>
           ELSE /\ shown' = shown \o out /\ n' = more
                /\ pc' = IF Rule # "all" \/ more \in reader.enough \/ (ends /\ out # <<>>) THEN "close" ELSE "loop"
    /\ UNCHANGED <<reader, files, f, eof, told>>

\* fgets returns NULL.
EndOfFile ==
    /\ pc = "loop" /\ pos = Len(Text)
    /\ eof' = TRUE /\ pc' = "close"
    /\ shown' = IF pos = 0 THEN shown \o Instead ELSE shown
    /\ UNCHANGED <<reader, files, f, pos, n, buf, told>>

\* Mutant: every loop says so when its counter has reached the limit.
MessageAtLimit == IF reader.says \in {"limit", "feof"} /\ Over THEN {"truncated"} ELSE {}
\* The message after the loop.
Message == CASE reader.says = "limit" /\ Over -> {"truncated"}
             [] reader.says = "feof" /\ ~eof -> {"truncated"}
             [] OTHER -> {}

Close ==
    /\ pc = "close" /\ told' = told \cup Message
    /\ After(Following(pos > 0))
    /\ UNCHANGED <<reader, files, pos, n, eof, buf, shown>>

\* if (!found), or if (numa_nodes == 0).
Report ==
    /\ pc = "end" /\ reader.says = "found" /\ shown = <<>> /\ "none" \notin told
    /\ told' = told \cup {"none"}
    /\ UNCHANGED <<reader, files, pc, f, pos, n, eof, buf, shown>>

Done == pc = "end" /\ (reader.says = "found" /\ shown = <<>> => "none" \in told) /\ UNCHANGED vars

Next == Open \/ NoFile \/ Fgets \/ EndOfFile \/ Close \/ Report \/ Done

Spec == Init /\ [][Next]_vars

-----------------------------------------------------------------------------
\* The numbers of the pieces of file k that the loop is meant to show.
Upto(s, bound) == SubSeq(s, 1, IF bound = {} THEN Len(s) ELSE Min({Len(s)} \cup bound))
Wanted(k) ==
    LET text == FlattenSeq(files[k])
        read == IF reader.counts = "read" THEN reader.limit ELSE {}
        ends == {i \in DOMAIN text : text[i].first \in reader.last}
        stop == IF reader.counts = "blank" THEN {i \in ends : Cardinality({j \in ends : j <= i}) \in reader.enough}
                ELSE {i \in ends : Picks(reader, text, i)}
        hits == SelectSeq(Upto([i \in DOMAIN text |-> i], read \cup stop), LAMBDA i : Picks(reader, text, i))
    IN  Upto(hits, IF reader.counts = "shown" THEN reader.enough \cup reader.limit ELSE {})
ShownOf(k) == SelectSeq(shown, LAMBDA x : x.file = k)
Notes(k) == {i \in DOMAIN FlattenSeq(files[k]) : reader.notes /\ FlattenSeq(files[k])[i].first \in reader.keys}

\* When a loop ends it has printed exactly the pieces it looks for, in order,
\* as many as its limits allow and each one once although a line may contain
\* two of the words; exercise 7 explains exactly the lines it has a text for.
ShowsExactly ==
    pc = "end" => \A k \in DOMAIN files :
        reader.rules[k] = "all" /\ files[k] # Missing =>
            LET lines == SelectSeq(ShownOf(k), LAMBDA x : x.piece # 0)
            IN  /\ [i \in DOMAIN lines |-> lines[i].piece] = Wanted(k)
                /\ Len(ShownOf(k)) = Len(lines) + Cardinality(Notes(k))

\* Files k that are not looked at: behind the end of a list, the alternative
\* of a file that is there, the second of a pair whose first is missing.
HasText(k) == files[k] \notin {Missing, <<>>}
PassedOver(k) ==
    \/ \E j \in 1 .. k - 1 : reader.rules[j] = "stop" /\ ~HasText(j)
    \/ k > 1 /\ reader.rules[k - 1] = "else" /\ files[k - 1] # Missing
    \/ k > 1 /\ reader.rules[k - 1] = "pair" /\ files[k - 1] = Missing

\* What is printed for a file without text: a default, or a buffer that was not
\* filled.  Lab 2 prints the type of a cache, read two files before, as its size;
\* exercise 5 prints an uninitialised array for a score that is empty.
Substitute(k) ==
    CASE reader.rules[k] = "default" -> <<[file |-> k, piece |-> 0, from |-> 0]>>
      [] reader.rules[k] = "keep" -> <<[file |-> k, piece |-> 0, from |-> k - 2]>>
      [] reader.rules[k] = "raw" /\ files[k] = <<>> -> <<[file |-> k, piece |-> 0, from |-> Garbage]>>
      [] OTHER -> <<>>

\* The first line of every file that is there is printed once, whatever other
\* files are missing or empty; for a file without text nothing is printed but
\* its Substitute: never a value of another cache, process or node.
ListsComplete ==
    pc = "end" /\ reader.rules[1] # "all" => \A k \in DOMAIN files :
        ShownOf(k) = IF PassedOver(k) THEN <<>>
                     ELSE IF HasText(k) THEN <<[file |-> k, piece |-> 1, from |-> k]>> ELSE Substitute(k)

\* A reader of the output is not misled: when something is left out the loops
\* that say so do say so, and the exercises say it only then (labs 1 and 2 also
\* at exactly the limit); nothing found means that no bufferful has the words.
MessagesTrue ==
    pc = "end" =>
        /\ "none" \in told => \A k \in DOMAIN files : \A i \in DOMAIN FlattenSeq(files[k]) :
                                ~Picks(reader, FlattenSeq(files[k]), i)
        /\ files[1] # Missing /\ Len(files) = 1 =>
            LET left == Len(shown) < Len(FlattenSeq(files[1]))
            IN  /\ reader.says \in {"limit", "feof"} /\ left => "truncated" \in told
                /\ reader.says = "feof" /\ "truncated" \in told => left
                /\ "truncated" \in told => \A k \in reader.limit : Len(shown) = k
=============================================================================
