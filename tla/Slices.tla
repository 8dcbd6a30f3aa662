------------------------------- MODULE Slices -------------------------------
(***************************************************************************)
(* How labs/page_cache_models.c divides a file of size bytes among         *)
(* total_workers workers: equal slices, the last one taking the rest.      *)
(***************************************************************************)
EXTENDS Integers

\* off_t slice = size / total_workers;
Slice(size, total_workers) == size \div total_workers

\* args[i].start and args[i].end of worker i, bytes start .. end - 1.
SliceStart(size, total_workers, w) == w * Slice(size, total_workers)

\* Mutant: the last worker takes no more than the others.
SliceEndEven(size, total_workers, w) == (w + 1) * Slice(size, total_workers)

SliceEnd(size, total_workers, w) ==
    IF w = total_workers - 1 THEN size ELSE (w + 1) * Slice(size, total_workers)

\* The workers whose slice holds byte b.
OwnersOf(size, total_workers, b) ==
    {w \in 0 .. total_workers - 1 :
        /\ SliceStart(size, total_workers, w) <= b
        /\ b < SliceEnd(size, total_workers, w)}
=============================================================================
