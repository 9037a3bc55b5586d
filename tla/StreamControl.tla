---------------------------- MODULE StreamControl ----------------------------
(***************************************************************************)
(* AVCaptureThrd, AVProcess and the control thread that starts and stops   *)
(* the demonstration, sharing the ring of CyclicBuf, the flag g_bAVCatpure *)
(* and the event g_hEvent.  A stop does not empty the ring: disConnectAll  *)
(* clears the flag of one slot, and while the demonstration is off         *)
(* AVProcess walks over valid slots without releasing them.                *)
(*                                                                         *)
(* Of a frame we keep whether a stop came after its capture began (old),   *)
(* whether its slot is being overwritten (torn) and whether the send       *)
(* thread has copied it before (taken).                                    *)
(***************************************************************************)
EXTENDS CyclicBuf

VARIABLES
  cb,         \* the ring (g_cb)
  data,       \* the content of each slot
  flag,       \* g_bAVCatpure: the demonstration is on
  event,      \* g_hEvent: a client has asked for data; never reset
  prod,       \* where the capture thread is
  cur,        \* the frame it is capturing
  cons,       \* where the send thread is
  hand,       \* g_szDataBuf_V, the send thread's copy of a slot
  ctl,        \* where the control thread is
  replayed,   \* history: old frames sent since the latest start (up to Num+2)
  causes      \* history: which of the hazardous steps below have happened

vars == <<cb, data, flag, event, prod, cur, cons, hand, ctl, replayed, causes>>

ring     == <<cb, data>>
producer == <<prod, cur>>
consumer == <<cons, hand>>

Content == [old : BOOLEAN, torn : BOOLEAN, taken : BOOLEAN]
Garbage == [old |-> FALSE, torn |-> TRUE, taken |-> FALSE]
Fresh   == [old |-> FALSE, torn |-> FALSE, taken |-> FALSE]

(* "early": the first poll handed out slot 0 before frame 0 was published.  *)
(* "freed": a stop cleared the valid flag of a slot still to be copied.     *)
(* "passed": the send thread passed over a valid slot.                      *)
Causes == {"early", "freed", "passed"}

Init ==
  /\ cb = cyclic_buf_init
  /\ data = [i \in Slot |-> Garbage]
  /\ flag = TRUE
  /\ event = FALSE
  /\ prod = "wait" /\ cur = Fresh
  /\ cons = "poll" /\ hand = Garbage
  /\ ctl = "recv"
  /\ replayed = 0
  /\ causes = {}

-----------------------------------------------------------------------------
(* The capture thread. *)

(* It has waited for g_hEvent and found the flag set; it grabs the screen.  *)
(* While the flag is clear the loop only sleeps.                            *)
Capture ==
  /\ prod = "wait" /\ event /\ flag
  /\ prod' = "capture"
  /\ cur' = Fresh
  /\ UNCHANGED <<ring, flag, event, consumer, ctl, replayed, causes>>

ProduceClaim ==
  /\ prod = "capture"
  /\ Claimable(cb)
  /\ cb' = Claim(cb)
  /\ data' = [data EXCEPT ![cb'.p_index] = Garbage]
  /\ prod' = "write"
  /\ UNCHANGED <<cur, flag, event, consumer, ctl, replayed, causes>>

(* Mutant of ProduceRefuse: the thread ends when the ring is full. *)
ProduceRefuseEnds ==
  /\ prod = "capture"
  /\ ~Claimable(cb)
  /\ prod' = "ended"
  /\ UNCHANGED <<cur, ring, flag, event, consumer, ctl, replayed, causes>>

ProduceRefuse ==
  /\ prod = "capture"
  /\ ~Claimable(cb)
  /\ prod' = "wait"
  /\ UNCHANGED <<cur, ring, flag, event, consumer, ctl, replayed, causes>>

ProduceCopy ==
  /\ prod = "write"
  /\ data' = [data EXCEPT ![cb.p_index] = cur]
  /\ prod' = "publish"
  /\ UNCHANGED <<cb, cur, flag, event, consumer, ctl, replayed, causes>>

ProducePublish ==
  /\ prod = "publish"
  /\ cb' = Publish(cb)
  /\ prod' = "wait"
  /\ UNCHANGED <<data, cur, flag, event, consumer, ctl, replayed, causes>>

-----------------------------------------------------------------------------
(* The send thread. *)

ConsumeGet ==
  /\ cons = "poll"
  /\ Gettable(cb)
  /\ cb' = Get(cb)
  /\ causes' = IF cb.valid[cb'.c_index] THEN causes ELSE causes \cup {"early"}
  /\ cons' = "test"
  /\ UNCHANGED <<data, hand, flag, event, producer, ctl, replayed>>

(* vpk is not NULL and g_bAVCatpure is TRUE *)
ConsumeAccept ==
  /\ cons = "test" /\ flag
  /\ cons' = "copy"
  /\ UNCHANGED <<hand, ring, flag, event, producer, ctl, replayed, causes>>

(* ... or it is FALSE: the slot is passed over and never released. *)
ConsumeSkip ==
  /\ cons = "test" /\ ~flag
  /\ cons' = "poll"
  /\ causes' = causes \cup {c \in {"passed"} : cb.valid[cb.c_index]}
  /\ UNCHANGED <<hand, ring, flag, event, producer, ctl, replayed>>

ConsumeCopy ==
  /\ cons = "copy"
  /\ hand' = data[cb.c_index]
  /\ data' = [data EXCEPT ![cb.c_index].taken = TRUE]
  /\ cons' = "send"
  /\ UNCHANGED <<cb, flag, event, producer, ctl, replayed, causes>>

(* send_data2 sends nothing once it sees the flag clear. *)
ConsumeSend ==
  /\ cons = "send"
  /\ replayed' = IF flag /\ hand.old /\ replayed <= Num + 1
                   THEN replayed + 1 ELSE replayed
  /\ cons' = "release"
  /\ UNCHANGED <<hand, ring, flag, event, producer, ctl, causes>>

(* Mutant of ConsumeRelease: a frame that was not sent is not released. *)
ConsumeReleaseIfOn ==
  /\ cons = "release"
  /\ cb' = IF flag THEN Consume(cb) ELSE cb
  /\ cons' = "poll"
  /\ UNCHANGED <<data, hand, flag, event, producer, ctl, replayed, causes>>

ConsumeRelease ==
  /\ cons = "release"
  /\ cb' = Consume(cb)
  /\ cons' = "poll"
  /\ UNCHANGED <<data, hand, flag, event, producer, ctl, replayed, causes>>

-----------------------------------------------------------------------------
(* The control thread (SimpleServer's WorkerThread) and the first request   *)
(* of a client, which sets the event for good.                              *)

Aged(c) == [c EXCEPT !.old = TRUE]

Start ==
  /\ ctl = "recv"
  /\ flag' = TRUE
  /\ replayed' = IF flag THEN replayed ELSE 0
  /\ UNCHANGED <<ring, event, producer, consumer, ctl, causes>>

Stop ==
  /\ ctl = "recv"
  /\ flag' = FALSE
  /\ data' = [i \in Slot |-> Aged(data[i])]
  /\ cur' = Aged(cur)
  /\ hand' = Aged(hand)
  /\ ctl' = "disconnect"
  /\ UNCHANGED <<cb, event, prod, cons, replayed, causes>>

(* The end of disConnectAll: cyclic_buf_consume, whoever holds the slot. *)
StopConsume ==
  /\ ctl = "disconnect"
  /\ cb' = Consume(cb)
  /\ causes' = causes \cup {c \in {"freed"} : cons \in {"test", "copy"}}
  /\ ctl' = "recv"
  /\ UNCHANGED <<data, flag, event, producer, consumer, replayed>>

Request ==
  /\ event' = TRUE
  /\ UNCHANGED <<ring, flag, producer, consumer, ctl, replayed, causes>>

-----------------------------------------------------------------------------
Producer == \/ Capture \/ ProduceClaim \/ ProduceRefuse
            \/ ProduceCopy \/ ProducePublish

Consumer == \/ ConsumeGet \/ ConsumeAccept \/ ConsumeSkip
            \/ ConsumeCopy \/ ConsumeSend \/ ConsumeRelease

Next == Producer \/ Consumer \/ Start \/ Stop \/ StopConsume \/ Request

Spec == Init /\ [][Next]_vars

(* Both loops sleep a millisecond a round and the control thread finishes a *)
(* stop it has begun; clients read what they are sent.  Nobody has to start *)
(* or stop the demonstration.                                               *)
FairSpec == Spec /\ WF_vars(Producer) /\ WF_vars(Consumer) /\ WF_vars(StopConsume)

-----------------------------------------------------------------------------
TypeOK ==
  /\ cb \in Rings
  /\ data \in [Slot -> Content]
  /\ flag \in BOOLEAN /\ event \in BOOLEAN
  /\ prod \in {"wait", "capture", "write", "publish"} /\ cur \in Content
  /\ cons \in {"poll", "test", "copy", "send", "release"} /\ hand \in Content
  /\ ctl \in {"recv", "disconnect"}
  /\ replayed \in 0 .. Num + 2
  /\ causes \subseteq Causes

(* A slot is copied while it is being overwritten only after the first poll *)
(* beat frame 0, or after a stop freed the slot the send thread was at.     *)
TornHasCause == cons = "send" /\ hand.torn => causes \cap {"early", "freed"} # {}

(* Stops, starts and passed over slots never make the send thread copy the  *)
(* same frame twice: only those two steps can, when the capture thread      *)
(* publishes the slot after the send thread has released it.                *)
NoFrameTwice ==
  cons = "send" /\ hand.taken => causes \cap {"early", "freed"} # {}

(* Frames captured before a stop are sent after the next start, since the   *)
(* ring is not emptied; but no more of them than the ring has slots and one *)
(* in the send thread's hand.                                               *)
ReplayBounded == replayed <= Num + 1

(* Both threads are stuck: the send thread waits for a slot that is not     *)
(* valid and the capture thread for one that is.                            *)
Wedged ==
  /\ cons = "poll" /\ ~Gettable(cb)
  /\ prod \in {"wait", "capture"} /\ ~Claimable(cb)

(* The ring comes to a standstill only because AVProcess, the demonstration *)
(* being off, passed over a valid slot and left its flag set.               *)
WedgeHasCause == Wedged => "passed" \in causes

(* If the demonstration stays on from some time and a client has asked for  *)
(* data, frames are sent for ever, or the ring is wedged for ever.          *)
Resumes ==
  <>[](flag /\ event) => []<>(cons = "send") \/ <>[]Wedged
=============================================================================
