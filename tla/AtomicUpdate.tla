---------------------------- MODULE AtomicUpdate ----------------------------
(***************************************************************************)
(* What writing a new version of a file through a temporary file promises: *)
(* whatever instant the machine stops at, the disk holds nothing, the old  *)
(* version or the whole new one, and the file is removed only once the new *)
(* version has replaced the old one or could not be put in its place.  The *)
(* promise lasts as long as the new version itself gets onto the disk.     *)
(***************************************************************************)
CONSTANTS Absent, Old, New   \* what the disk can hold under the final name

VARIABLES contents,
          damaged,   \* the new version could not be written, and nobody looked
          missed     \* this run could not rename, or not make the rename durable

Init == contents \in {Absent, Old} /\ damaged = FALSE /\ missed = FALSE

Replace == contents' = New /\ UNCHANGED <<damaged, missed>>

\* The old version is not removed before the new one is in its place.
Remove ==
    /\ contents = New \/ missed
    /\ contents' = Absent /\ UNCHANGED <<damaged, missed>>

\* A call about the directory fails; the machine is started again.
Miss == missed' = TRUE /\ UNCHANGED <<contents, damaged>>
Restart == missed' = FALSE /\ UNCHANGED <<contents, damaged>>

\* Nothing is promised of a version that was not written.
Damage == damaged' = TRUE /\ UNCHANGED contents
Spoil == damaged /\ UNCHANGED damaged

Next == Replace \/ Remove \/ Miss \/ Restart \/ Damage \/ Spoil

Spec == Init /\ [][Next]_<<contents, damaged, missed>>
=============================================================================
