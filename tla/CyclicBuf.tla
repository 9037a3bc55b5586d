------------------------------ MODULE CyclicBuf ------------------------------
(***************************************************************************)
(* The ring of frames between the capture thread and the send thread of    *)
(* AVCapture (AVCapture/cyclic_buf.cpp), as operators on a ring cb.        *)
(*                                                                         *)
(* A ring is a record: p_index is the slot the producer claimed last,      *)
(* c_index the slot the consumer took last (-1: none yet), valid[i] tells  *)
(* whether slot i holds a published frame.  There is no lock: what follows *)
(* are the loads and stores the two threads interleave, and the modules    *)
(* that use them decide who runs when.  The bytes of a slot are kept by    *)
(* those modules.                                                          *)
(***************************************************************************)
EXTENDS Integers

CONSTANT Num    \* cb->num, the number of slots (32 in MyTcpServer's constructor)

ASSUME NumAssumption == Num \in Nat \ {0}

Slot == 0 .. Num - 1

Rings == [p_index : Slot \cup {-1},
          c_index : Slot \cup {-1},
          valid   : [Slot -> BOOLEAN]]

cyclic_buf_init == [p_index |-> -1, c_index |-> -1,
                    valid   |-> [i \in Slot |-> FALSE]]

Succ(i) == (i + 1) % Num

(* Mutant of Claimable: the valid flag is not looked at. *)
ClaimableAlways(cb) == TRUE

(* Mutants of Claim: the index does not wrap; the slot is published before  *)
(* its bytes are there.                                                     *)
ClaimNoWrap(cb) == [cb EXCEPT !.p_index = cb.p_index + 1]

ClaimPublishing(cb) ==
  LET i == IF cb.p_index = -1 THEN 0 ELSE Succ(cb.p_index)
  IN  [cb EXCEPT !.p_index = i, !.valid[i] = TRUE]

(* cyclic_buf_produce_data is three steps.  First it claims a slot: it     *)
(* moves p_index BEFORE the bytes are there.                               *)
Claimable(cb) == cb.p_index = -1 \/ ~cb.valid[Succ(cb.p_index)]

Claim(cb) ==
  [cb EXCEPT !.p_index = IF cb.p_index = -1 THEN 0 ELSE Succ(cb.p_index)]

(* ... then it copies the frame (memcpy), and then publishes the slot.     *)
Publish(cb) == [cb EXCEPT !.valid[cb.p_index] = TRUE]

(* Mutants of Gettable: the indices are compared instead of the valid flag  *)
(* looked at; the slot claimed last is never handed out.                    *)
GettableByIndex(cb) == cb.p_index # cb.c_index

GettableLagging(cb) ==
  IF cb.c_index = -1 THEN cb.p_index >= 0
  ELSE cb.valid[Succ(cb.c_index)] /\ cb.p_index # Succ(cb.c_index)

(* cyclic_buf_consume_get: the very first call looks at p_index only, every *)
(* later call at the valid flag of the next slot.                          *)
Gettable(cb) ==
  IF cb.c_index = -1 THEN cb.p_index >= 0
                     ELSE cb.valid[Succ(cb.c_index)]

Get(cb) ==
  [cb EXCEPT !.c_index = IF cb.c_index = -1 THEN 0 ELSE Succ(cb.c_index)]

(* Mutant of Consume: the slot is not given back. *)
ConsumeNothing(cb) == cb

(* cyclic_buf_consume clears the flag of the slot taken last.  Before any   *)
(* slot was taken, valid[-1] is the most significant byte of data_size      *)
(* (global.h, struct cyclic_buf), already 0: the call changes nothing.      *)
Consume(cb) ==
  IF cb.c_index = -1 THEN cb ELSE [cb EXCEPT !.valid[cb.c_index] = FALSE]
=============================================================================
