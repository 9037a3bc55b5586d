------------------------------ MODULE FrameRing ------------------------------
(***************************************************************************)
(* AVCaptureThrd and AVProcess of AVCapture/MyTcpServer.cpp sharing the    *)
(* ring of CyclicBuf while a demonstration is on (g_bAVCatpure is TRUE).   *)
(* No lock protects the ring: each action is one step of one thread, and   *)
(* the two memcpys have a beginning and an end.                            *)
(*                                                                         *)
(* A frame is its number.  Torn is the content of a slot from the moment   *)
(* the producer claims it until its memcpy has finished.                   *)
(***************************************************************************)
EXTENDS CyclicBuf, FiniteSets, Sequences

CONSTANT MaxFrame   \* bound: how many frames are captured

ASSUME MaxFrameAssumption == MaxFrame \in Nat

Torn == -1
Content == 0 .. MaxFrame - 1 \cup {Torn}

VARIABLES
  cb,         \* the ring (g_cb)
  data,       \* the bytes of each slot
  frame,      \* the frame the capture thread is working on
  prod,       \* where the capture thread is
  cons,       \* where the send thread is
  hand,       \* g_szDataBuf_V, the send thread's copy of a slot
  out,        \* the frames sent to the clients, oldest first
  accepted,   \* history: the frames published in the ring
  early       \* history: a slot was released before it was published

vars == <<cb, data, frame, prod, cons, hand, out, accepted, early>>

Init ==
  /\ cb = cyclic_buf_init
  /\ data = [i \in Slot |-> Torn]
  /\ frame = 0
  /\ prod = "capture"
  /\ cons = "poll"
  /\ hand = Torn
  /\ out = <<>>
  /\ accepted = {}
  /\ early = FALSE

-----------------------------------------------------------------------------
(* The capture thread: cyclic_buf_produce_data(&g_cb, &vipck, len). *)

ProduceClaim ==
  /\ prod = "capture" /\ frame < MaxFrame
  /\ Claimable(cb)
  /\ cb' = Claim(cb)
  /\ data' = [data EXCEPT ![cb'.p_index] = Torn]
  /\ prod' = "write"
  /\ UNCHANGED <<frame, cons, hand, out, accepted, early>>

(* The ring is full: the result -1 is ignored, the frame is lost. *)
ProduceRefuse ==
  /\ prod = "capture" /\ frame < MaxFrame
  /\ ~Claimable(cb)
  /\ frame' = frame + 1
  /\ UNCHANGED <<cb, data, prod, cons, hand, out, accepted, early>>

ProduceCopy ==
  /\ prod = "write"
  /\ data' = [data EXCEPT ![cb.p_index] = frame]
  /\ prod' = "publish"
  /\ UNCHANGED <<cb, frame, cons, hand, out, accepted, early>>

ProducePublish ==
  /\ prod = "publish"
  /\ cb' = Publish(cb)
  /\ accepted' = accepted \cup {frame}
  /\ frame' = frame + 1
  /\ prod' = "capture"
  /\ UNCHANGED <<data, cons, hand, out, early>>

-----------------------------------------------------------------------------
(* The send thread: one round of AVProcess's loop. *)

ConsumeGet ==
  /\ cons = "poll"
  /\ Gettable(cb)
  /\ cb' = Get(cb)
  /\ cons' = "copy"
  /\ UNCHANGED <<data, frame, prod, hand, out, accepted, early>>

(* The header and the payload have been copied out of the slot. *)
ConsumeCopy ==
  /\ cons = "copy"
  /\ hand' = data[cb.c_index]
  /\ cons' = "send"
  /\ UNCHANGED <<cb, data, frame, prod, out, accepted, early>>

ConsumeSend ==
  /\ cons = "send"
  /\ out' = Append(out, hand)
  /\ cons' = "release"
  /\ UNCHANGED <<cb, data, frame, prod, hand, accepted, early>>

(* cyclic_buf_consume: the slot is given back only after both sends. *)
ConsumeRelease ==
  /\ cons = "release"
  /\ cb' = Consume(cb)
  /\ early' = (early \/ ~cb.valid[cb.c_index])
  /\ cons' = "poll"
  /\ UNCHANGED <<data, frame, prod, hand, out, accepted>>

Producer == ProduceClaim \/ ProduceRefuse \/ ProduceCopy \/ ProducePublish
Consumer == ConsumeGet \/ ConsumeCopy \/ ConsumeSend \/ ConsumeRelease

Next == Producer \/ Consumer

Spec == Init /\ [][Next]_vars

(* AVProcess polls every millisecond, and the blocking send of send_data2   *)
(* returns as long as the clients read their sockets: the send thread is    *)
(* fair.  Nothing is assumed of the capture thread.                         *)
FairSpec == Spec /\ WF_vars(Consumer)

(* The executions in which the send thread's first successful poll finds    *)
(* frame 0 published, not merely claimed.                                   *)
FirstPollSafe ==
  cb.c_index = -1 /\ cb'.c_index = 0 => cb.valid[0]

UnracedSpec == Init /\ [][Next /\ FirstPollSafe]_vars

-----------------------------------------------------------------------------
TypeOK ==
  /\ cb \in Rings
  /\ data \in [Slot -> Content]
  /\ frame \in 0 .. MaxFrame
  /\ prod \in {"capture", "write", "publish"}
  /\ cons \in {"poll", "copy", "send", "release"}
  /\ hand \in Content
  /\ out \in Seq(Content)
  /\ accepted \subseteq 0 .. MaxFrame - 1
  /\ early \in BOOLEAN

(* The capture thread writes a slot while the send thread copies it only    *)
(* for frame 0.  cyclic_buf_consume_get's first call tests p_index, not     *)
(* valid, so it can hand out slot 0 before its memcpy is done; after that   *)
(* the valid flags alone keep the two memcpys apart.                        *)
NoOverlap ==
  prod = "write" /\ cons = "copy" /\ cb.p_index = cb.c_index => frame = 0

(* What the clients receive is a frame the capture thread finished writing, *)
(* the first transmission excepted.                                         *)
OnlyFirstTorn == \A k \in DOMAIN out : out[k] = Torn => k = 1

(* Frames reach the clients in the order they were captured and at most     *)
(* once, unless slot 0 was released before frame 0 was published in it.     *)
InOrder ==
  ~early => \A j, k \in DOMAIN out :
              j < k /\ out[k] # Torn => out[j] < out[k]

(* If it was, the valid flag of slot 0 stays up behind the send thread and  *)
(* the two threads stay one slot out of step: from then on the frame put in *)
(* slot 0 is sent after those of the following slots, but always before the *)
(* producer's next turn, and no frame other than 0 is sent twice.           *)
LateByLessThanATurn ==
  \A j, k \in DOMAIN out :
    j < k /\ out[j] > 0 /\ out[k] > 0 =>
      out[j] # out[k] /\ out[j] < out[k] + Num

(* A frame the ring accepted is either still in a valid slot or was sent:   *)
(* the producer never overwrites it and the consumer never jumps over it.   *)
NoLostFrame ==
  \A f \in accepted \ {0} :
    \/ \E k \in DOMAIN out : out[k] = f
    \/ \E i \in Slot : cb.valid[i] /\ data[i] = f

(* Every accepted frame is eventually sent, even if nothing is captured any *)
(* more: the polling loop of AVProcess never stops short of a valid slot.   *)
(* (Out of step, a frame in slot 0 waits for the next frames to come.)      *)
Delivered ==
  \A f \in 1 .. MaxFrame - 1 :
    f \in accepted ~> (early \/ \E k \in DOMAIN out : out[k] = f)

-----------------------------------------------------------------------------
(* The queue the ring implements: the valid slots, from the one the send    *)
(* thread holds, or else from the one after the last it held.               *)
Oldest == IF cons = "poll" THEN Succ(cb.c_index) ELSE cb.c_index

Queued ==
  LET valid == {i \in Slot : cb.valid[i]}
      Age(i) == (i - Oldest) % Num
  IN  [k \in 1 .. Cardinality(valid) |->
         data[CHOOSE i \in Slot : Age(i) = k - 1]]

(* A frame counts as taken when its slot is released. *)
Released ==
  IF cons = "release" THEN SubSeq(out, 1, Len(out) - 1) ELSE out

Fifo == INSTANCE FrameFifo WITH
  Capacity <- Num, next <- frame, queue <- Queued, taken <- Released

(* Unless the first poll wins its race, the ring with its two unlocked      *)
(* threads is a first-in first-out queue of Num frames that refuses a frame *)
(* exactly when Num frames are waiting.                                     *)
ImplementsFifo == Fifo!Spec
=============================================================================
