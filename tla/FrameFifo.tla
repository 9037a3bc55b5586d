------------------------------ MODULE FrameFifo ------------------------------
(***************************************************************************)
(* What the ring of frames promises: a bounded first-in first-out queue    *)
(* that loses a frame only when it is full.  The capture thread offers     *)
(* frames 0, 1, 2, ...; the send thread takes them.  A frame that finds    *)
(* the queue full is dropped, which is what AVCaptureThrd does with the -1 *)
(* of cyclic_buf_produce_data.                                             *)
(***************************************************************************)
EXTENDS Integers, Sequences

CONSTANT Capacity   \* how many frames can wait

VARIABLES
  next,     \* the number of the frame offered next
  queue,    \* the frames accepted and not yet taken, oldest first
  taken     \* the frames taken, oldest first

vars == <<next, queue, taken>>

Init == next = 0 /\ queue = <<>> /\ taken = <<>>

Offer ==
  /\ Len(queue) < Capacity
  /\ queue' = Append(queue, next)
  /\ next' = next + 1
  /\ UNCHANGED taken

Refuse ==
  /\ Len(queue) = Capacity
  /\ next' = next + 1
  /\ UNCHANGED <<queue, taken>>

Take ==
  /\ queue # <<>>
  /\ taken' = Append(taken, Head(queue))
  /\ queue' = Tail(queue)
  /\ UNCHANGED next

Next == Offer \/ Refuse \/ Take

Spec == Init /\ [][Next]_vars
=============================================================================
