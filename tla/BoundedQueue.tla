---------------------------- MODULE BoundedQueue ----------------------------
(***************************************************************************)
(* What the two bounded buffers of the labs promise: the numbers           *)
(* 0 .. NItems - 1 pass through a first-in first-out queue of at most      *)
(* Capacity of them, none is lost, duplicated or overtaken, and all of     *)
(* them arrive.                                                            *)
(***************************************************************************)
EXTENDS Naturals, Sequences

CONSTANTS Capacity, NItems

VARIABLES queue,     \* the items in the queue, oldest first
          made,      \* how many items have been put
          delivered  \* the items taken, in the order they were taken

vars == <<queue, made, delivered>>

Init == queue = <<>> /\ made = 0 /\ delivered = <<>>

Put ==
    /\ made < NItems
    /\ Len(queue) < Capacity
    /\ queue' = Append(queue, made)
    /\ made' = made + 1
    /\ UNCHANGED delivered

Get ==
    /\ queue # <<>>
    /\ delivered' = Append(delivered, Head(queue))
    /\ queue' = Tail(queue)
    /\ UNCHANGED made

Next == Put \/ Get

\* The order of delivery, and with fairness that delivery is never put off.
Safety == Init /\ [][Next]_vars
Spec == Safety /\ WF_vars(Put) /\ WF_vars(Get)
=============================================================================
