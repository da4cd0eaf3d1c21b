----------------------------- MODULE FrameQueue -----------------------------
(***************************************************************************)
(* What the receive side of a network card promises its driver: frames     *)
(* come out in the order they came in, and a frame that finds no room is   *)
(* lost.                                                                   *)
(***************************************************************************)
EXTENDS Integers, Sequences

CONSTANTS
  Frame,      \* what can arrive, damaged frames included
  Capacity    \* how many frames fit

VARIABLE queue    \* the frames received and not yet read

Arrive(f) == queue' = IF Len(queue) < Capacity THEN Append(queue, f) ELSE queue

Read == queue # <<>> /\ queue' = Tail(queue)

Init == queue = <<>>

Next == Read \/ \E f \in Frame : Arrive(f)

Spec == Init /\ [][Next]_queue
=============================================================================
