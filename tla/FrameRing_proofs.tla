--------------------------- MODULE FrameRing_proofs ---------------------------
(***************************************************************************)
(* Proofs about FrameRing for every number of slots and of frames: type    *)
(* correctness; that the two unlocked memcpys only meet in frame 0; that   *)
(* no accepted frame is lost; that the frames are sent in order, or late   *)
(* by less than a turn of the ring if slot 0 was released too early; and   *)
(* that the ring is otherwise a bounded first-in first-out queue.          *)
(***************************************************************************)
EXTENDS FrameRing, FiniteSetTheorems, SequenceTheorems, TLAPS

-----------------------------------------------------------------------------
(* What the operators of the ring return.                                  *)

(* Going round the ring stays in the ring. *)
LEMMA SuccInSlot == \A i \in Slot \cup {-1} : Succ(i) \in Slot
  BY NumAssumption DEF Slot, Succ

(* How far slot i is from slot o, going round. *)
Ahead(o, i) == (i - o) % Num

(* The two as case distinctions, in which the solvers reason better than     *)
(* about %.                                                                *)
LEMMA SuccCases ==
  /\ Succ(-1) = 0
  /\ \A i \in Slot : Succ(i) = IF i = Num - 1 THEN 0 ELSE i + 1
  BY NumAssumption DEF Slot, Succ

LEMMA AheadCases ==
  \A o, i \in Slot : Ahead(o, i) = IF i >= o THEN i - o ELSE i - o + Num
  BY NumAssumption DEF Slot, Ahead

(* Ahead numbers the slots from o on, ...                                    *)
LEMMA AheadRange ==
  \A o, i \in Slot : Ahead(o, i) \in 0 .. Num - 1 /\ (Ahead(o, i) = 0 <=> i = o)
  BY NumAssumption, AheadCases DEF Slot

LEMMA AheadInjective == \A o, i, j \in Slot : Ahead(o, i) = Ahead(o, j) => i = j
  BY NumAssumption, AheadCases DEF Slot

(* ... one more for the next slot, unless that is o again; ...               *)
LEMMA AheadOfSucc ==
  \A o, i \in Slot :
    IF Ahead(o, i) = Num - 1 THEN Succ(i) = o ELSE Ahead(o, Succ(i)) = Ahead(o, i) + 1
  <1> SUFFICES ASSUME NEW o \in Slot, NEW i \in Slot
               PROVE  IF Ahead(o, i) = Num - 1 THEN Succ(i) = o
                      ELSE Ahead(o, Succ(i)) = Ahead(o, i) + 1
    OBVIOUS
  <1>1. Succ(i) \in Slot /\ Succ(i) = IF i = Num - 1 THEN 0 ELSE i + 1
    BY SuccInSlot, SuccCases
  <1>2. Ahead(o, i) = IF i >= o THEN i - o ELSE i - o + Num
    BY AheadCases
  <1>3. Ahead(o, Succ(i)) = IF Succ(i) >= o THEN Succ(i) - o ELSE Succ(i) - o + Num
    BY <1>1, AheadCases
  <1> QED BY <1>1, <1>2, <1>3, NumAssumption DEF Slot

(* ... and one less when they are numbered from the slot after o.           *)
LEMMA AheadFromSucc ==
  \A o, i \in Slot : Ahead(Succ(o), i) = IF i = o THEN Num - 1 ELSE Ahead(o, i) - 1
  <1> SUFFICES ASSUME NEW o \in Slot, NEW i \in Slot
               PROVE  Ahead(Succ(o), i) = IF i = o THEN Num - 1 ELSE Ahead(o, i) - 1
    OBVIOUS
  <1>1. Succ(o) \in Slot /\ Succ(o) = IF o = Num - 1 THEN 0 ELSE o + 1
    BY SuccInSlot, SuccCases
  <1>2. Ahead(o, i) = IF i >= o THEN i - o ELSE i - o + Num
    BY AheadCases
  <1>3. Ahead(Succ(o), i) = IF i >= Succ(o) THEN i - Succ(o) ELSE i - Succ(o) + Num
    BY <1>1, AheadCases
  <1> QED BY <1>1, <1>2, <1>3, NumAssumption DEF Slot

(* The slot that is k ahead of slot o. *)
SlotAt(o, k) == (o + k) % Num

LEMMA SlotAtAhead ==
  /\ \A o \in Slot, k \in 0 .. Num - 1 : SlotAt(o, k) \in Slot /\ Ahead(o, SlotAt(o, k)) = k
  /\ \A o, i \in Slot : SlotAt(o, Ahead(o, i)) = i
  <1>1. \A o \in Slot, k \in 0 .. Num - 1 :
          SlotAt(o, k) = IF o + k < Num THEN o + k ELSE o + k - Num
    BY NumAssumption DEF Slot, SlotAt
  <1>2. ASSUME NEW o \in Slot, NEW k \in 0 .. Num - 1
        PROVE  SlotAt(o, k) \in Slot /\ Ahead(o, SlotAt(o, k)) = k
    <2>1. SlotAt(o, k) \in Slot
      BY <1>1, NumAssumption DEF Slot
    <2>2. Ahead(o, SlotAt(o, k)) = IF SlotAt(o, k) >= o THEN SlotAt(o, k) - o
                                   ELSE SlotAt(o, k) - o + Num
      BY <2>1, AheadCases
    <2> QED BY <1>1, <2>1, <2>2, NumAssumption DEF Slot
  <1>3. ASSUME NEW o \in Slot, NEW i \in Slot
        PROVE  SlotAt(o, Ahead(o, i)) = i
    BY <1>2, AheadRange, AheadInjective
  <1> QED BY <1>2, <1>3

(* Claiming, publishing, getting and consuming yield rings.                *)
LEMMA RingOps ==
  ASSUME NEW r \in Rings
  PROVE  /\ Claim(r) \in Rings
         /\ r.p_index \in Slot => Publish(r) \in Rings
         /\ Get(r) \in Rings
         /\ Consume(r) \in Rings
  <1>1. 0 \in Slot
    BY NumAssumption DEF Slot
  <1>2. Succ(r.p_index) \in Slot /\ Succ(r.c_index) \in Slot
    BY SuccInSlot DEF Rings
  <1>3. Claim(r) \in Rings
    BY <1>1, <1>2 DEF Claim, Rings
  <1>4. r.p_index \in Slot => Publish(r) \in Rings
    BY DEF Publish, Rings
  <1>5. Get(r) \in Rings
    BY <1>1, <1>2 DEF Get, Rings
  <1>6. Consume(r) \in Rings
    BY DEF Consume, Rings
  <1> QED BY <1>3, <1>4, <1>5, <1>6

(* Which fields each of them changes, and to what.                          *)
LEMMA ClaimFields ==
  ASSUME NEW r \in Rings
  PROVE  /\ Claim(r).c_index = r.c_index /\ Claim(r).valid = r.valid
         /\ Claim(r).p_index = IF r.p_index = -1 THEN 0 ELSE Succ(r.p_index)
         /\ Claim(r).p_index \in Slot
  <1>1. 0 \in Slot /\ Succ(r.p_index) \in Slot
    BY SuccInSlot, NumAssumption DEF Rings, Slot
  <1> QED BY <1>1 DEF Claim, Rings

LEMMA PublishFields ==
  ASSUME NEW r \in Rings
  PROVE  /\ Publish(r).c_index = r.c_index /\ Publish(r).p_index = r.p_index
         /\ Publish(r).valid = [r.valid EXCEPT ![r.p_index] = TRUE]
  BY DEF Publish, Rings

LEMMA GetFields ==
  ASSUME NEW r \in Rings
  PROVE  /\ Get(r).p_index = r.p_index /\ Get(r).valid = r.valid
         /\ Get(r).c_index = IF r.c_index = -1 THEN 0 ELSE Succ(r.c_index)
         /\ Get(r).c_index \in Slot
  <1>1. 0 \in Slot /\ Succ(r.c_index) \in Slot
    BY SuccInSlot, NumAssumption DEF Rings, Slot
  <1> QED BY <1>1 DEF Get, Rings

-----------------------------------------------------------------------------
(* What the threads know about the slots they work on.                      *)

(* A slot being written or published is not valid: only its writer can make *)
(* it so.                                                                   *)
WriterKnows ==
  prod # "capture" =>
    cb.p_index \in Slot /\ ~cb.valid[cb.p_index] /\ frame < MaxFrame

(* Before the first claim nothing was captured.                             *)
NothingYet ==
  cb.p_index = -1 =>
    /\ frame = 0 /\ prod = "capture" /\ cb.c_index = -1
    /\ \A i \in Slot : ~cb.valid[i]

(* Until the send thread's first poll, slot 0 holds frame 0.                *)
FirstSlot ==
  cb.c_index = -1 =>
    /\ cons = "poll" /\ out = <<>>
    /\ cb.p_index # -1 /\ ~cb.valid[0] =>
         prod # "capture" /\ cb.p_index = 0 /\ frame = 0

(* A slot the send thread holds is valid, or it is slot 0, handed out by    *)
(* the first poll while frame 0 was on its way into it.                     *)
ReaderKnows ==
  cons # "poll" =>
    /\ cb.c_index \in Slot
    /\ ~cb.valid[cb.c_index] =>
         /\ prod # "capture" /\ cb.p_index = cb.c_index /\ frame = 0

(* A torn copy exists only on behalf of the first transmission.             *)
TornIsFirst ==
  /\ \A i \in Slot : cb.valid[i] => data[i] # Torn
  /\ cons = "copy" /\ ~cb.valid[cb.c_index] => out = <<>>
  /\ cons = "send" /\ hand = Torn => out = <<>>

IInv ==
  /\ TypeOK
  /\ WriterKnows /\ NothingYet /\ FirstSlot /\ ReaderKnows
  /\ prod = "publish" => data[cb.p_index] # Torn
  /\ TornIsFirst
  /\ OnlyFirstTorn

-----------------------------------------------------------------------------
LEMMA InitIInv == Init => IInv
  <1> SUFFICES ASSUME Init PROVE IInv
    OBVIOUS
  <1>1. TypeOK
    <2>1. cb \in Rings
      BY DEF Init, cyclic_buf_init, Rings
    <2>2. 0 \in 0 .. MaxFrame
      BY MaxFrameAssumption
    <2>3. out \in Seq(Content) /\ hand \in Content /\ data \in [Slot -> Content]
      BY DEF Init, Content
    <2>4. early \in BOOLEAN
      BY DEF Init
    <2> QED BY <2>1, <2>2, <2>3, <2>4 DEF Init, TypeOK
  <1>2. WriterKnows /\ NothingYet /\ FirstSlot /\ ReaderKnows
    BY DEF Init, cyclic_buf_init, WriterKnows, NothingYet, FirstSlot, ReaderKnows
  <1>3. TornIsFirst /\ OnlyFirstTorn
    BY DEF Init, cyclic_buf_init, TornIsFirst, OnlyFirstTorn
  <1> QED BY <1>1, <1>2, <1>3 DEF IInv, Init

LEMMA TypeStep == TypeOK /\ WriterKnows /\ ReaderKnows /\ [Next]_vars => TypeOK'
  <1> SUFFICES ASSUME TypeOK, WriterKnows, ReaderKnows, [Next]_vars PROVE TypeOK'
    OBVIOUS
  <1> USE DEF TypeOK
  <1>1. CASE ProduceClaim
    <2>1. cb' \in Rings
      BY <1>1, RingOps DEF ProduceClaim
    <2> QED BY <1>1, <2>1 DEF ProduceClaim, Content
  <1>2. CASE ProduceRefuse
    BY <1>2, MaxFrameAssumption DEF ProduceRefuse
  <1>3. CASE ProduceCopy
    <2>1. frame \in Content
      BY <1>3, MaxFrameAssumption DEF ProduceCopy, WriterKnows, Content
    <2> QED BY <1>3, <2>1 DEF ProduceCopy
  <1>4. CASE ProducePublish
    <2>1. cb' \in Rings
      BY <1>4, RingOps DEF ProducePublish, WriterKnows
    <2>2. frame \in 0 .. MaxFrame - 1 /\ frame + 1 \in 0 .. MaxFrame
      BY <1>4, MaxFrameAssumption DEF ProducePublish, WriterKnows
    <2> QED BY <1>4, <2>1, <2>2 DEF ProducePublish
  <1>5. CASE ConsumeGet
    BY <1>5, RingOps DEF ConsumeGet
  <1>6. CASE ConsumeCopy
    BY <1>6 DEF ConsumeCopy, ReaderKnows
  <1>7. CASE ConsumeSend
    BY <1>7 DEF ConsumeSend
  <1>8. CASE ConsumeRelease
    <2>1. cb' \in Rings
      BY <1>8, RingOps DEF ConsumeRelease
    <2>2. early' \in BOOLEAN
      BY <1>8, Zenon DEF ConsumeRelease
    <2> QED BY <1>8, <2>1, <2>2 DEF ConsumeRelease
  <1>9. CASE UNCHANGED vars
    BY <1>9 DEF vars
  <1> QED
    BY <1>1, <1>2, <1>3, <1>4, <1>5, <1>6, <1>7, <1>8, <1>9
    DEF Next, Producer, Consumer

(* The ring's two halves of the invariant that speak of valid flags.        *)
LEMMA FlagStep == IInv /\ [Next]_vars => (WriterKnows /\ NothingYet /\ FirstSlot /\ ReaderKnows)'
  <1> SUFFICES ASSUME IInv, [Next]_vars
               PROVE  (WriterKnows /\ NothingYet /\ FirstSlot /\ ReaderKnows)'
    OBVIOUS
  <1> USE DEF IInv, TypeOK, WriterKnows, NothingYet, FirstSlot, ReaderKnows
  <1>0. -1 \notin Slot /\ 0 \in Slot
    BY NumAssumption DEF Slot
  <1>s. Succ(cb.p_index) \in Slot /\ Succ(cb.c_index) \in Slot
    BY SuccInSlot DEF Rings
  <1>1. CASE ProduceClaim
    <2>1. /\ cb'.c_index = cb.c_index
          /\ cb'.valid = cb.valid
          /\ cb'.p_index = IF cb.p_index = -1 THEN 0 ELSE Succ(cb.p_index)
      BY <1>1, ClaimFields DEF ProduceClaim
    <2>2. ~cb.valid[cb'.p_index] /\ cb'.p_index \in Slot
      <3>1. CASE cb.p_index = -1
        BY <1>0, <2>1, <3>1, <1>1 DEF ProduceClaim, Rings
      <3>2. CASE cb.p_index # -1
        BY <1>1, <1>s, <2>1, <3>2 DEF ProduceClaim, Claimable
      <3> QED BY <3>1, <3>2
    <2> QED BY <1>0, <1>1, <2>1, <2>2 DEF ProduceClaim
  <1>2. CASE ProduceRefuse
    BY <1>2 DEF ProduceRefuse, Claimable
  <1>3. CASE ProduceCopy
    BY <1>3 DEF ProduceCopy
  <1>4. CASE ProducePublish
    <2>1. /\ cb'.c_index = cb.c_index /\ cb'.p_index = cb.p_index
          /\ cb'.valid = [cb.valid EXCEPT ![cb.p_index] = TRUE]
      BY <1>4, PublishFields DEF ProducePublish
    <2> QED BY <1>0, <1>4, <2>1 DEF ProducePublish, Rings
  <1>5. CASE ConsumeGet
    <2>1. /\ cb'.p_index = cb.p_index /\ cb'.valid = cb.valid
          /\ cb'.c_index = IF cb.c_index = -1 THEN 0 ELSE Succ(cb.c_index)
      BY <1>5, GetFields DEF ConsumeGet
    <2>2. CASE cb.c_index = -1
      BY <1>0, <1>5, <2>1, <2>2 DEF ConsumeGet, Gettable, Rings
    <2>3. CASE cb.c_index # -1
      BY <1>0, <1>s, <1>5, <2>1, <2>3 DEF ConsumeGet, Gettable
    <2> QED BY <2>2, <2>3
  <1>6. CASE ConsumeCopy
    BY <1>6 DEF ConsumeCopy
  <1>7. CASE ConsumeSend
    BY <1>0, <1>7 DEF ConsumeSend
  <1>8. CASE ConsumeRelease
    <2>1. /\ cb'.c_index = cb.c_index /\ cb'.p_index = cb.p_index
          /\ cb'.valid = [cb.valid EXCEPT ![cb.c_index] = FALSE]
      BY <1>0, <1>8 DEF ConsumeRelease, Consume, Rings
    <2> QED BY <1>0, <1>8, <2>1 DEF ConsumeRelease, Rings
  <1>9. CASE UNCHANGED vars
    BY <1>9 DEF vars
  <1> QED
    BY <1>1, <1>2, <1>3, <1>4, <1>5, <1>6, <1>7, <1>8, <1>9
    DEF Next, Producer, Consumer

(* The half that speaks of contents.                                        *)
LEMMA TornStep ==
  IInv /\ [Next]_vars =>
    (/\ prod = "publish" => data[cb.p_index] # Torn
     /\ TornIsFirst
     /\ OnlyFirstTorn)'
  <1> DEFINE PublishIntact == prod = "publish" => data[cb.p_index] # Torn
  <1> SUFFICES ASSUME IInv, [Next]_vars
               PROVE  PublishIntact' /\ TornIsFirst' /\ OnlyFirstTorn'
    OBVIOUS
  <1> USE DEF IInv, TypeOK, TornIsFirst
  <1>0. -1 \notin Slot /\ 0 \in Slot
    BY NumAssumption DEF Slot
  <1>s. Succ(cb.p_index) \in Slot /\ Succ(cb.c_index) \in Slot
    BY SuccInSlot DEF Rings
  <1>o. UNCHANGED out => OnlyFirstTorn'
    BY DEF OnlyFirstTorn
  <1>1. CASE ProduceClaim
    <2>1. /\ cb'.c_index = cb.c_index
          /\ cb'.valid = cb.valid
          /\ cb'.p_index = IF cb.p_index = -1 THEN 0 ELSE Succ(cb.p_index)
      BY <1>1, ClaimFields DEF ProduceClaim
    <2>2. ~cb.valid[cb'.p_index]
      <3>1. CASE cb.p_index = -1
        BY <1>0, <1>1, <2>1, <3>1 DEF ProduceClaim, NothingYet
      <3>2. CASE cb.p_index # -1
        BY <1>1, <2>1, <3>2 DEF ProduceClaim, Claimable
      <3> QED BY <3>1, <3>2
    <2>3. TornIsFirst'
      BY <1>1, <2>1, <2>2 DEF ProduceClaim
    <2> QED BY <1>o, <1>1, <2>3 DEF ProduceClaim
  <1>2. CASE ProduceRefuse
    BY <1>o, <1>2 DEF ProduceRefuse
  <1>3. CASE ProduceCopy
    <2>1. frame # Torn
      BY DEF Torn
    <2> QED BY <1>o, <1>3, <2>1 DEF ProduceCopy, WriterKnows
  <1>4. CASE ProducePublish
    <2>1. /\ cb'.c_index = cb.c_index /\ cb'.p_index = cb.p_index
          /\ cb'.valid = [cb.valid EXCEPT ![cb.p_index] = TRUE]
      BY <1>4, PublishFields DEF ProducePublish
    <2> QED BY <1>o, <1>4, <2>1 DEF ProducePublish, WriterKnows, ReaderKnows, Rings
  <1>5. CASE ConsumeGet
    <2>1. /\ cb'.p_index = cb.p_index /\ cb'.valid = cb.valid
          /\ cb'.c_index = IF cb.c_index = -1 THEN 0 ELSE Succ(cb.c_index)
      BY <1>5, GetFields DEF ConsumeGet
    <2>2. ~cb.valid[cb'.c_index] => out = <<>>
      BY <1>5, <2>1 DEF ConsumeGet, Gettable, FirstSlot
    <2> QED BY <1>o, <1>5, <2>1, <2>2 DEF ConsumeGet
  <1>6. CASE ConsumeCopy
    <2>1. data[cb.c_index] = Torn => out = <<>>
      BY <1>6 DEF ConsumeCopy, ReaderKnows
    <2> QED BY <1>o, <1>6, <2>1 DEF ConsumeCopy
  <1>7. CASE ConsumeSend
    <2>1. OnlyFirstTorn'
      <3> SUFFICES ASSUME NEW k \in DOMAIN out', out'[k] = Torn
                   PROVE  k = 1
        BY DEF OnlyFirstTorn
      <3>1. CASE k \in DOMAIN out
        BY <1>7, <3>1 DEF ConsumeSend, OnlyFirstTorn
      <3>2. CASE k \notin DOMAIN out
        <4>1. k = Len(out) + 1 /\ out'[k] = hand
          BY <1>7, <3>2 DEF ConsumeSend
        <4>2. out = <<>>
          BY <1>7, <4>1 DEF ConsumeSend
        <4> QED BY <4>1, <4>2
      <3> QED BY <3>1, <3>2
    <2> QED BY <1>7, <2>1 DEF ConsumeSend
  <1>8. CASE ConsumeRelease
    <2>1. /\ cb'.c_index = cb.c_index /\ cb'.p_index = cb.p_index
          /\ \A i \in Slot : cb'.valid[i] => cb.valid[i]
      BY <1>8 DEF ConsumeRelease, Consume, Rings
    <2> QED BY <1>o, <1>8, <2>1 DEF ConsumeRelease
  <1>9. CASE UNCHANGED vars
    BY <1>o, <1>9 DEF vars
  <1> QED
    BY <1>1, <1>2, <1>3, <1>4, <1>5, <1>6, <1>7, <1>8, <1>9
    DEF Next, Producer, Consumer

-----------------------------------------------------------------------------
LEMMA Invariance == Spec => []IInv
  <1>1. IInv /\ [Next]_vars => IInv'
    BY TypeStep, FlagStep, TornStep DEF IInv
  <1> QED BY InitIInv, <1>1, PTL DEF Spec

(* Every variable keeps its type: the indices stay in the ring, only frames *)
(* the capture thread produced are in the slots and on the wire.            *)
THEOREM TypeCorrect == Spec => []TypeOK
  <1>1. IInv => TypeOK
    BY DEF IInv
  <1> QED BY Invariance, <1>1, PTL

(* cyclic_buf's valid flags are enough to keep AVCaptureThrd's memcpy and   *)
(* AVProcess's memcpy out of the same slot, frame 0 excepted.               *)
THEOREM Exclusion == Spec => []NoOverlap
  <1>1. IInv => NoOverlap
    BY DEF IInv, WriterKnows, ReaderKnows, NoOverlap
  <1> QED BY Invariance, <1>1, PTL

(* No frame but the first one sent can be torn.                             *)
THEOREM Intact == Spec => []OnlyFirstTorn
  <1>1. IInv => OnlyFirstTorn
    BY DEF IInv
  <1> QED BY Invariance, <1>1, PTL

-----------------------------------------------------------------------------
(* Where the two threads stand in the ring.  Oldest, the slot the send       *)
(* thread holds or looks at next, is FrameRing's; this is the slot the       *)
(* capture thread is filling or fills next.                                *)
WriteSlot == IF prod = "capture" THEN Succ(cb.p_index) ELSE cb.p_index

(* How many slots are valid while the two threads are in step. *)
Waiting == IF cb.valid[WriteSlot] THEN Num ELSE Ahead(Oldest, WriteSlot)

LEMMA Positions ==
  IInv => /\ Oldest \in Slot /\ WriteSlot \in Slot
          /\ cb.valid \in [Slot -> BOOLEAN] /\ data \in [Slot -> Content]
          /\ frame \in 0 .. MaxFrame
  <1> SUFFICES ASSUME IInv
               PROVE  Oldest \in Slot /\ WriteSlot \in Slot
    BY DEF IInv, TypeOK, Rings
  <1>1. cb.p_index \in Slot \cup {-1} /\ cb.c_index \in Slot \cup {-1}
    BY DEF IInv, TypeOK, Rings
  <1>2. Succ(cb.p_index) \in Slot /\ Succ(cb.c_index) \in Slot
    BY <1>1, SuccInSlot
  <1> QED
    BY <1>1, <1>2 DEF IInv, TypeOK, WriterKnows, ReaderKnows, Oldest, WriteSlot

(* What each step of the two threads does to these positions and the flags. *)
LEMMA ClaimEffect ==
  IInv /\ ProduceClaim =>
    /\ UNCHANGED <<WriteSlot, Oldest, cb.valid, cb.c_index>>
    /\ cb'.p_index = WriteSlot
    /\ ~cb.valid[WriteSlot]
    /\ data' = [data EXCEPT ![WriteSlot] = Torn]
  <1> SUFFICES ASSUME IInv, ProduceClaim
               PROVE  /\ UNCHANGED <<WriteSlot, Oldest, cb.valid, cb.c_index>>
                      /\ cb'.p_index = WriteSlot
                      /\ ~cb.valid[WriteSlot]
                      /\ data' = [data EXCEPT ![WriteSlot] = Torn]
    OBVIOUS
  <1>1. /\ cb'.c_index = cb.c_index /\ cb'.valid = cb.valid
        /\ cb'.p_index = IF cb.p_index = -1 THEN 0 ELSE Succ(cb.p_index)
    BY ClaimFields DEF IInv, TypeOK, ProduceClaim
  <1>2. cb'.p_index = WriteSlot
    BY <1>1, SuccCases DEF ProduceClaim, WriteSlot
  <1>3. ~cb.valid[WriteSlot]
    <2>1. CASE cb.p_index = -1
      BY <2>1, SuccCases, NumAssumption
      DEF IInv, NothingYet, ProduceClaim, WriteSlot, Slot
    <2>2. CASE cb.p_index # -1
      BY <2>2 DEF ProduceClaim, WriteSlot, Claimable
    <2> QED BY <2>1, <2>2
  <1>4. WriteSlot' = WriteSlot /\ Oldest' = Oldest
    BY <1>1, <1>2 DEF ProduceClaim, WriteSlot, Oldest
  <1> QED BY <1>1, <1>2, <1>3, <1>4 DEF ProduceClaim

LEMMA PublishEffect ==
  IInv /\ ProducePublish =>
    /\ cb.p_index = WriteSlot /\ ~cb.valid[WriteSlot] /\ frame < MaxFrame
    /\ WriteSlot' = Succ(WriteSlot)
    /\ UNCHANGED <<Oldest, cb.c_index, cb.p_index>>
    /\ cb'.valid = [cb.valid EXCEPT ![WriteSlot] = TRUE]
  <1> SUFFICES ASSUME IInv, ProducePublish
               PROVE  /\ cb.p_index = WriteSlot /\ ~cb.valid[WriteSlot] /\ frame < MaxFrame
                      /\ WriteSlot' = Succ(WriteSlot)
                      /\ UNCHANGED <<Oldest, cb.c_index, cb.p_index>>
                      /\ cb'.valid = [cb.valid EXCEPT ![WriteSlot] = TRUE]
    OBVIOUS
  <1>1. /\ cb'.c_index = cb.c_index /\ cb'.p_index = cb.p_index
        /\ cb'.valid = [cb.valid EXCEPT ![cb.p_index] = TRUE]
    BY PublishFields DEF IInv, TypeOK, ProducePublish
  <1>2. cb.p_index = WriteSlot /\ WriteSlot' = Succ(WriteSlot)
    BY <1>1 DEF ProducePublish, WriteSlot
  <1>3. Oldest' = Oldest
    BY <1>1 DEF ProducePublish, Oldest
  <1> QED BY <1>1, <1>2, <1>3 DEF IInv, WriterKnows, ProducePublish

LEMMA GetEffect ==
  IInv /\ ConsumeGet =>
    /\ UNCHANGED <<WriteSlot, Oldest, cb.valid, cb.p_index>>
    /\ cb'.c_index = Oldest
  <1> SUFFICES ASSUME IInv, ConsumeGet
               PROVE  /\ UNCHANGED <<WriteSlot, Oldest, cb.valid, cb.p_index>>
                      /\ cb'.c_index = Oldest
    OBVIOUS
  <1>1. /\ cb'.p_index = cb.p_index /\ cb'.valid = cb.valid
        /\ cb'.c_index = IF cb.c_index = -1 THEN 0 ELSE Succ(cb.c_index)
    BY GetFields DEF IInv, TypeOK, ConsumeGet
  <1>2. cb'.c_index = Oldest
    BY <1>1, SuccCases DEF ConsumeGet, Oldest
  <1>3. Oldest' = Oldest /\ WriteSlot' = WriteSlot
    BY <1>1, <1>2 DEF ConsumeGet, Oldest, WriteSlot
  <1> QED BY <1>1, <1>2, <1>3

LEMMA ReleaseEffect ==
  IInv /\ ConsumeRelease =>
    /\ cb.c_index = Oldest
    /\ Oldest' = Succ(Oldest)
    /\ UNCHANGED <<WriteSlot, cb.p_index, cb.c_index>>
    /\ cb'.valid = [cb.valid EXCEPT ![Oldest] = FALSE]
  <1> SUFFICES ASSUME IInv, ConsumeRelease
               PROVE  /\ cb.c_index = Oldest
                      /\ Oldest' = Succ(Oldest)
                      /\ UNCHANGED <<WriteSlot, cb.p_index, cb.c_index>>
                      /\ cb'.valid = [cb.valid EXCEPT ![Oldest] = FALSE]
    OBVIOUS
  <1>0. cb.c_index = Oldest /\ cb.c_index # -1
    BY NumAssumption DEF IInv, ReaderKnows, ConsumeRelease, Oldest, Slot
  <1>1. /\ cb'.c_index = cb.c_index /\ cb'.p_index = cb.p_index
        /\ cb'.valid = [cb.valid EXCEPT ![cb.c_index] = FALSE]
    BY <1>0 DEF IInv, TypeOK, ConsumeRelease, Consume, Rings
  <1>2. Oldest' = Succ(Oldest) /\ WriteSlot' = WriteSlot
    BY <1>0, <1>1 DEF ConsumeRelease, Oldest, WriteSlot
  <1> QED BY <1>0, <1>1, <1>2

(* The other steps leave positions and flags alone. *)
LEMMA QuietEffect ==
  IInv /\ (ProduceRefuse \/ ProduceCopy \/ ConsumeCopy \/ ConsumeSend \/ UNCHANGED vars) =>
    UNCHANGED <<WriteSlot, Oldest, cb>>
  BY DEF WriteSlot, Oldest, ProduceRefuse, ProduceCopy, ConsumeCopy, ConsumeSend, vars

-----------------------------------------------------------------------------
(* What is in the slots and on its way to the clients, whatever has         *)
(* happened to the order.  (Of frame 0 nothing is known: it may be sent     *)
(* while it is being written.)                                             *)
ContentsKnown ==
  /\ prod = "write" => data[cb.p_index] = Torn
  /\ prod = "publish" => data[cb.p_index] = frame
  /\ \A i \in Slot : cb.valid[i] => data[i] \in 0 .. frame - 1
  /\ cons = "send" /\ data[cb.c_index] > 0 => hand = data[cb.c_index]
  /\ cons = "release" /\ data[cb.c_index] > 0 =>
       out # <<>> /\ out[Len(out)] = data[cb.c_index]

LEMMA ContentsStep == IInv /\ ContentsKnown /\ [Next]_vars => ContentsKnown'
  <1> SUFFICES ASSUME IInv, ContentsKnown, [Next]_vars PROVE ContentsKnown'
    OBVIOUS
  <1> USE DEF ContentsKnown
  <1>0. /\ Oldest \in Slot /\ WriteSlot \in Slot /\ -1 \notin Slot
        /\ data \in [Slot -> Content] /\ frame \in Nat
        /\ cb.valid \in [Slot -> BOOLEAN]
    BY Positions, NumAssumption DEF Slot
  <1>c. cons # "poll" => cb.c_index = Oldest
    BY DEF Oldest
  <1>w. prod # "capture" => cb.p_index = WriteSlot
    BY DEF WriteSlot
  <1>r. cons # "poll" /\ ~cb.valid[cb.c_index] =>
          prod # "capture" /\ cb.p_index = cb.c_index /\ frame = 0
    BY DEF IInv, ReaderKnows
  <1>1. CASE ProduceClaim
    <2>1. \A i \in Slot : i # WriteSlot => data'[i] = data[i]
      BY <1>0, <1>1, ClaimEffect
    <2>2. cons # "poll" => cb.c_index # WriteSlot
      BY <1>1, <1>r, ClaimEffect DEF ProduceClaim
    <2> QED BY <1>0, <1>1, <1>c, <2>1, <2>2, ClaimEffect DEF ProduceClaim
  <1>2. CASE ProduceRefuse
    BY <1>0, <1>2 DEF ProduceRefuse
  <1>3. CASE ProduceCopy
    <2>1. \A i \in Slot : i # WriteSlot => data'[i] = data[i]
      BY <1>0, <1>3, <1>w DEF ProduceCopy
    <2>2. data'[WriteSlot] = frame /\ ~cb.valid[WriteSlot]
      BY <1>0, <1>3, <1>w DEF ProduceCopy, IInv, WriterKnows
    <2>3. cons # "poll" /\ cb.c_index = WriteSlot => frame = 0
      BY <1>r, <2>2
    <2> QED BY <1>0, <1>3, <1>c, <1>w, <2>1, <2>2, <2>3 DEF ProduceCopy
  <1>4. CASE ProducePublish
    BY <1>0, <1>4, <1>c, PublishEffect DEF ProducePublish
  <1>5. CASE ConsumeGet
    BY <1>0, <1>5, GetEffect DEF ConsumeGet
  <1>6. CASE ConsumeCopy
    BY <1>0, <1>6 DEF ConsumeCopy
  <1>7. CASE ConsumeSend
    <2>1. out \in Seq(Content) /\ hand \in Content
      BY DEF IInv, TypeOK
    <2>2. out' # <<>> /\ out'[Len(out')] = hand
      BY <1>7, <2>1 DEF ConsumeSend
    <2> QED BY <1>0, <1>7, <2>2 DEF ConsumeSend
  <1>8. CASE ConsumeRelease
    BY <1>0, <1>8, ReleaseEffect DEF ConsumeRelease
  <1>9. CASE UNCHANGED vars
    BY <1>9 DEF vars
  <1> QED
    BY <1>1, <1>2, <1>3, <1>4, <1>5, <1>6, <1>7, <1>8, <1>9
    DEF Next, Producer, Consumer

LEMMA NoLossStep ==
  IInv /\ ContentsKnown /\ NoLostFrame /\ [Next]_vars => NoLostFrame'
  <1> SUFFICES ASSUME IInv, ContentsKnown, NoLostFrame, [Next]_vars,
                      NEW f \in accepted' \ {0}
               PROVE  \/ \E k \in DOMAIN out' : out'[k] = f
                      \/ \E i \in Slot : cb'.valid[i] /\ data'[i] = f
    BY DEF NoLostFrame
  <1>0. /\ Oldest \in Slot /\ WriteSlot \in Slot
        /\ data \in [Slot -> Content] /\ frame \in Nat
        /\ cb.valid \in [Slot -> BOOLEAN] /\ out \in Seq(Content)
        /\ accepted \subseteq 0 .. MaxFrame - 1
    BY Positions DEF IInv, TypeOK
  <1>q. ASSUME UNCHANGED <<cb, data, accepted>>,
               \A k \in DOMAIN out : k \in DOMAIN out' /\ out'[k] = out[k]
        PROVE  \/ \E k \in DOMAIN out' : out'[k] = f
               \/ \E i \in Slot : cb'.valid[i] /\ data'[i] = f
    BY <1>q DEF NoLostFrame
  <1>1. CASE ProduceClaim
    <2>1. \A i \in Slot : cb.valid[i] => data'[i] = data[i]
      BY <1>0, <1>1, ClaimEffect
    <2> QED BY <1>1, <2>1, ClaimEffect DEF ProduceClaim, NoLostFrame
  <1>2. CASE ProduceRefuse
    BY <1>2, <1>q DEF ProduceRefuse
  <1>3. CASE ProduceCopy
    <2>1. \A i \in Slot : cb.valid[i] => data'[i] = data[i]
      BY <1>0, <1>3 DEF ProduceCopy, IInv, WriterKnows
    <2> QED BY <1>3, <2>1 DEF ProduceCopy, NoLostFrame
  <1>4. CASE ProducePublish
    <2>1. cb'.valid[WriteSlot] /\ data'[WriteSlot] = frame
      BY <1>0, <1>4, PublishEffect DEF ProducePublish, ContentsKnown
    <2>2. \A i \in Slot : cb.valid[i] => cb'.valid[i] /\ data'[i] = data[i]
      BY <1>0, <1>4, PublishEffect DEF ProducePublish
    <2>3. CASE f = frame
      BY <1>0, <2>1, <2>3
    <2>4. CASE f # frame
      BY <1>4, <2>2, <2>4 DEF ProducePublish, NoLostFrame
    <2> QED BY <2>3, <2>4
  <1>5. CASE ConsumeGet
    BY <1>5, GetEffect DEF ConsumeGet, NoLostFrame
  <1>6. CASE ConsumeCopy
    BY <1>6, <1>q DEF ConsumeCopy
  <1>7. CASE ConsumeSend
    BY <1>0, <1>7, <1>q DEF ConsumeSend
  <1>8. CASE ConsumeRelease
    <2>1. \A i \in Slot : cb.valid[i] /\ i # Oldest => cb'.valid[i]
      BY <1>0, <1>8, ReleaseEffect
    <2>2. CASE data[Oldest] = f
      <3>1. f > 0
        BY <1>0, <1>8 DEF ConsumeRelease
      <3>2. out # <<>> /\ out[Len(out)] = f
        BY <1>8, <2>2, <3>1, ReleaseEffect DEF ConsumeRelease, ContentsKnown
      <3>3. Len(out) \in DOMAIN out
        BY <1>0, <3>2
      <3> QED BY <1>8, <3>2, <3>3 DEF ConsumeRelease
    <2>3. CASE data[Oldest] # f
      BY <1>8, <2>1, <2>3 DEF ConsumeRelease, NoLostFrame
    <2> QED BY <2>2, <2>3
  <1>9. CASE UNCHANGED vars
    BY <1>9, <1>q DEF vars
  <1> QED
    BY <1>1, <1>2, <1>3, <1>4, <1>5, <1>6, <1>7, <1>8, <1>9
    DEF Next, Producer, Consumer

LEMMA ContentsInvariance == Spec => [](IInv /\ ContentsKnown /\ NoLostFrame)
  <1>1. Init => ContentsKnown /\ NoLostFrame
    BY DEF Init, cyclic_buf_init, ContentsKnown, NoLostFrame
  <1>2. IInv /\ ContentsKnown /\ NoLostFrame /\ [Next]_vars => (ContentsKnown /\ NoLostFrame)'
    BY ContentsStep, NoLossStep
  <1> QED BY Invariance, <1>1, <1>2, PTL DEF Spec

(* A frame that cyclic_buf_produce_data accepted is never overwritten before *)
(* AVProcess has sent it, and AVProcess never jumps over it, in step or not. *)
THEOREM NothingIsLost == Spec => []NoLostFrame
  BY ContentsInvariance, PTL

-----------------------------------------------------------------------------
(* The two threads are in step: the valid slots follow one another from the *)
(* oldest one to the one written next, frames ascending, and everything     *)
(* sent before them is older.                                              *)

Contiguous ==
  /\ \A i \in Slot : cb.valid[i] <=> Ahead(Oldest, i) < Waiting
  /\ cb.valid[WriteSlot] => WriteSlot = Oldest

Ascending ==
  \A i, j \in Slot :
    cb.valid[i] /\ cb.valid[j] /\ Ahead(Oldest, i) < Ahead(Oldest, j) => data[i] < data[j]

(* While a frame is sent and not yet released it is in its slot and in out. *)
SentBefore ==
  /\ \A k \in DOMAIN out, i \in Slot : cb.valid[i] =>
       out[k] < data[i] \/ (cons = "release" /\ i = cb.c_index /\ out[k] <= data[i])
  /\ \A k \in DOMAIN out :
       out[k] < frame \/ (cons = "release" /\ ~cb.valid[cb.c_index] /\ out[k] <= frame)

HandNext ==
  cons = "send" =>
    /\ \A k \in DOMAIN out : out[k] < hand
    /\ hand <= IF cb.valid[cb.c_index] THEN data[cb.c_index] ELSE frame

SentAscending == \A j, k \in DOMAIN out : j < k /\ out[k] # Torn => out[j] < out[k]

InStep == Contiguous /\ Ascending /\ SentBefore /\ HandNext /\ SentAscending

LEMMA ContiguousStep ==
  IInv /\ Contiguous /\ [Next]_vars /\ ~early' => Contiguous'
  <1> SUFFICES ASSUME IInv, Contiguous, [Next]_vars, ~early' PROVE Contiguous'
    OBVIOUS
  <1>0. /\ Oldest \in Slot /\ WriteSlot \in Slot
        /\ cb.valid \in [Slot -> BOOLEAN] /\ Num \in Nat \ {0}
    BY Positions, NumAssumption
  <1>a. \A i \in Slot : Ahead(Oldest, i) \in 0 .. Num - 1
    BY <1>0, AheadRange
  <1> USE DEF Contiguous, Waiting
  <1>1. CASE ProduceClaim
    BY <1>1, ClaimEffect
  <1>2. CASE ProducePublish
    <2>1. /\ Oldest' = Oldest /\ WriteSlot' = Succ(WriteSlot) /\ ~cb.valid[WriteSlot]
          /\ cb'.valid = [cb.valid EXCEPT ![WriteSlot] = TRUE]
      BY <1>2, PublishEffect
    <2>2. ASSUME NEW i \in Slot
          PROVE  cb'.valid[i] <=> Ahead(Oldest, i) <= Ahead(Oldest, WriteSlot)
      BY <1>0, <1>a, <2>1, AheadInjective
    <2>3. WriteSlot' \in Slot
      BY <1>0, <2>1, SuccInSlot
    <2>4. CASE Ahead(Oldest, WriteSlot) = Num - 1
      <3>1. \A i \in Slot : cb'.valid[i]
        BY <1>0, <1>a, <2>2, <2>4
      <3>2. WriteSlot' = Oldest
        BY <1>0, <2>1, <2>4, AheadOfSucc
      <3> QED BY <1>0, <1>a, <2>1, <2>3, <3>1, <3>2
    <2>5. CASE Ahead(Oldest, WriteSlot) # Num - 1
      <3>1. Ahead(Oldest, WriteSlot') = Ahead(Oldest, WriteSlot) + 1
        BY <1>0, <2>1, <2>5, AheadOfSucc
      <3>2. ~cb'.valid[WriteSlot']
        BY <1>0, <1>a, <2>2, <2>3, <3>1
      <3> QED BY <1>0, <1>a, <2>1, <2>2, <3>1, <3>2
    <2> QED BY <2>4, <2>5
  <1>3. CASE ConsumeGet
    BY <1>3, GetEffect
  <1>4. CASE ConsumeRelease
    <2>1. /\ Oldest' = Succ(Oldest) /\ WriteSlot' = WriteSlot /\ cb.valid[Oldest]
          /\ cb'.valid = [cb.valid EXCEPT ![Oldest] = FALSE]
      BY <1>4, ReleaseEffect DEF ConsumeRelease
    <2>2. \A i \in Slot : Ahead(Oldest', i) = IF i = Oldest THEN Num - 1 ELSE Ahead(Oldest, i) - 1
      BY <1>0, <2>1, AheadFromSucc
    <2>3. Ahead(Oldest, Oldest) = 0
      BY <1>0, AheadRange
    <2>4. Waiting' = Waiting - 1
      BY <1>0, <1>a, <2>1, <2>2, <2>3
    <2> QED BY <1>0, <1>a, <2>1, <2>2, <2>4 DEF Waiting
  <1>5. CASE ProduceRefuse \/ ProduceCopy \/ ConsumeCopy \/ ConsumeSend \/ UNCHANGED vars
    BY <1>5, QuietEffect
  <1> QED BY <1>1, <1>2, <1>3, <1>4, <1>5 DEF Next, Producer, Consumer

LEMMA AscendingStep ==
  IInv /\ ContentsKnown /\ Contiguous /\ Ascending /\ [Next]_vars /\ ~early' => Ascending'
  <1> SUFFICES ASSUME IInv, ContentsKnown, Contiguous, Ascending, [Next]_vars, ~early'
               PROVE  Ascending'
    OBVIOUS
  <1>0. /\ Oldest \in Slot /\ WriteSlot \in Slot
        /\ cb.valid \in [Slot -> BOOLEAN] /\ Num \in Nat \ {0}
        /\ data \in [Slot -> Content] /\ frame \in Nat
    BY Positions, NumAssumption
  <1>1. CASE ProduceClaim
    <2>1. \A i \in Slot : cb.valid[i] => data'[i] = data[i]
      BY <1>0, <1>1, ClaimEffect
    <2> QED BY <1>1, <2>1, ClaimEffect DEF Ascending
  <1>2. CASE ProducePublish
    <2>1. /\ Oldest' = Oldest /\ ~cb.valid[WriteSlot] /\ data' = data
          /\ cb'.valid = [cb.valid EXCEPT ![WriteSlot] = TRUE]
      BY <1>2, PublishEffect DEF ProducePublish
    <2>2. data[WriteSlot] = frame /\ \A i \in Slot : cb.valid[i] => data[i] < frame
      BY <1>0, <1>2, PublishEffect DEF ProducePublish, ContentsKnown
    <2>3. \A i \in Slot : cb.valid[i] => Ahead(Oldest, i) < Ahead(Oldest, WriteSlot)
      BY <1>0, <2>1 DEF Contiguous, Waiting
    <2>4. \A i \in Slot : Ahead(Oldest, i) \in Nat
      BY <1>0, AheadRange
    <2> QED BY <1>0, <2>1, <2>2, <2>3, <2>4 DEF Ascending
  <1>3. CASE ConsumeGet
    BY <1>3, GetEffect DEF Ascending, ConsumeGet
  <1>4. CASE ConsumeRelease
    <2>1. /\ Oldest' = Succ(Oldest) /\ data' = data
          /\ cb'.valid = [cb.valid EXCEPT ![Oldest] = FALSE]
      BY <1>4, ReleaseEffect DEF ConsumeRelease
    <2>2. \A i \in Slot : Ahead(Oldest', i) = IF i = Oldest THEN Num - 1 ELSE Ahead(Oldest, i) - 1
      BY <1>0, <2>1, AheadFromSucc
    <2>3. \A i \in Slot : Ahead(Oldest, i) \in Nat
      BY <1>0, AheadRange
    <2> QED BY <1>0, <2>1, <2>2, <2>3 DEF Ascending
  <1>5. CASE ProduceCopy
    <2>1. \A i \in Slot : cb.valid[i] => data'[i] = data[i]
      BY <1>0, <1>5 DEF ProduceCopy, IInv, WriterKnows
    <2> QED BY <1>5, <2>1, QuietEffect DEF Ascending
  <1>6. CASE ProduceRefuse \/ ConsumeCopy \/ ConsumeSend \/ UNCHANGED vars
    <2>1. data' = data
      BY <1>6 DEF ProduceRefuse, ConsumeCopy, ConsumeSend, vars
    <2> QED BY <1>6, <2>1, QuietEffect DEF Ascending
  <1> QED BY <1>1, <1>2, <1>3, <1>4, <1>5, <1>6 DEF Next, Producer, Consumer

LEMMA SentStep ==
  IInv /\ ContentsKnown /\ InStep /\ [Next]_vars /\ ~early' =>
    SentBefore' /\ HandNext' /\ SentAscending'
  <1> SUFFICES ASSUME IInv, ContentsKnown, InStep, [Next]_vars, ~early'
               PROVE  SentBefore' /\ HandNext' /\ SentAscending'
    OBVIOUS
  <1>0. /\ Oldest \in Slot /\ WriteSlot \in Slot
        /\ cb.valid \in [Slot -> BOOLEAN] /\ Num \in Nat \ {0}
        /\ data \in [Slot -> Content] /\ frame \in Nat
    BY Positions, NumAssumption
  <1>t. /\ out \in Seq(Content) /\ hand \in Content /\ Content \subseteq Int
        /\ \A k \in DOMAIN out : out[k] \in Int
        /\ \A i \in Slot : data[i] \in Int
    BY MaxFrameAssumption DEF IInv, TypeOK, Content, Torn
  <1>c. cons # "poll" => cb.c_index = Oldest
    BY DEF Oldest
  <1>w. prod # "capture" => cb.p_index = WriteSlot /\ ~cb.valid[WriteSlot]
    BY DEF WriteSlot, IInv, WriterKnows
  <1>r. cons # "poll" /\ ~cb.valid[cb.c_index] =>
          prod # "capture" /\ cb.p_index = cb.c_index /\ frame = 0
    BY DEF IInv, ReaderKnows
  <1>s. UNCHANGED out => SentAscending'
    BY DEF InStep, SentAscending
  <1> USE DEF InStep, SentBefore, HandNext
  <1>1. CASE ProduceClaim
    <2>1. \A i \in Slot : i # WriteSlot => data'[i] = data[i]
      BY <1>0, <1>1, ClaimEffect
    <2>2. ~cb.valid[WriteSlot] /\ cb'.valid = cb.valid /\ cb'.c_index = cb.c_index
      BY <1>1, ClaimEffect
    <2> QED BY <1>0, <1>s, <1>c, <1>1, <2>1, <2>2 DEF ProduceClaim
  <1>2. CASE ProduceRefuse
    <2>1. frame' > frame
      BY <1>0, <1>2 DEF ProduceRefuse
    <2>2. cons # "poll" => cb.valid[cb.c_index]
      BY <1>2, <1>r DEF ProduceRefuse
    <2> QED BY <1>0, <1>t, <1>s, <1>2, <2>1, <2>2 DEF ProduceRefuse
  <1>3. CASE ProduceCopy
    <2>1. \A i \in Slot : cb.valid[i] => data'[i] = data[i]
      BY <1>0, <1>3, <1>w DEF ProduceCopy
    <2> QED BY <1>0, <1>s, <1>c, <1>3, <2>1 DEF ProduceCopy
  <1>4. CASE ProducePublish
    <2>1. /\ cb'.c_index = cb.c_index /\ cb'.valid = [cb.valid EXCEPT ![WriteSlot] = TRUE]
          /\ ~cb.valid[WriteSlot] /\ frame' = frame + 1 /\ data' = data
          /\ UNCHANGED <<out, cons, hand>>
      BY <1>4, PublishEffect DEF ProducePublish
    <2>2. data[WriteSlot] = frame
      BY <1>4, <1>w DEF ProducePublish, ContentsKnown
    <2>3. cons # "poll" /\ ~cb.valid[cb.c_index] => cb.c_index = WriteSlot
      BY <1>r, <1>w
    <2>4. SentBefore'
      <3>1. ASSUME NEW k \in DOMAIN out, NEW i \in Slot, cb'.valid[i]
            PROVE  \/ out[k] < data[i]
                   \/ cons = "release" /\ i = cb.c_index /\ out[k] <= data[i]
        <4>1. CASE i = WriteSlot
          BY <1>0, <1>t, <2>2, <2>3, <3>1, <4>1
        <4>2. CASE i # WriteSlot
          BY <1>0, <2>1, <3>1, <4>2
        <4> QED BY <4>1, <4>2
      <3>2. ASSUME NEW k \in DOMAIN out
            PROVE  out[k] < frame + 1
        BY <1>0, <1>t, <3>2
      <3> QED BY <2>1, <3>1, <3>2
    <2>5. HandNext'
      BY <1>0, <1>t, <1>c, <2>1, <2>2, <2>3
    <2> QED BY <1>s, <2>1, <2>4, <2>5
  <1>5. CASE ConsumeGet
    <2>1. cb'.valid = cb.valid
      BY <1>5, GetEffect
    <2> QED BY <1>s, <1>5, <2>1 DEF ConsumeGet
  <1>6. CASE ConsumeCopy
    <2>1. /\ hand' = data[cb.c_index] /\ cb.c_index \in Slot
          /\ UNCHANGED <<cb, data, frame, out>> /\ cons = "copy" /\ cons' = "send"
      BY <1>0, <1>c, <1>6 DEF ConsumeCopy
    <2>2. CASE cb.valid[cb.c_index]
      BY <1>t, <1>s, <2>1, <2>2
    <2>3. CASE ~cb.valid[cb.c_index]
      <3>1. out = <<>> /\ frame = 0
        BY <1>r, <2>1, <2>3 DEF IInv, TornIsFirst
      <3>2. data[cb.c_index] <= frame
        BY <1>r, <2>1, <2>3, <3>1, MaxFrameAssumption
        DEF ContentsKnown, Torn, IInv, TypeOK
      <3> QED BY <1>s, <2>1, <2>3, <3>1, <3>2
    <2> QED BY <2>2, <2>3
  <1>7. CASE ConsumeSend
    <2>1. /\ out' = Append(out, hand) /\ cons = "send" /\ cons' = "release"
          /\ UNCHANGED <<cb, data, frame>> /\ cb.c_index = Oldest
      BY <1>c, <1>7 DEF ConsumeSend
    <2>2. \A k \in DOMAIN out' :
            \/ k \in DOMAIN out /\ out'[k] = out[k]
            \/ k = Len(out) + 1 /\ out'[k] = hand
      BY <1>t, <2>1
    <2>3. \A i \in Slot : cb.valid[i] /\ i # Oldest /\ cb.valid[Oldest] => data[Oldest] < data[i]
      <3>1. \A i \in Slot : i # Oldest => Ahead(Oldest, Oldest) < Ahead(Oldest, i)
        BY <1>0, AheadRange
      <3> QED BY <1>0, <3>1 DEF Ascending
    <2>4. ~cb.valid[Oldest] => \A i \in Slot : ~cb.valid[i]
      <3>1. Ahead(Oldest, Oldest) = 0 /\ \A i \in Slot : Ahead(Oldest, i) \in Nat
        BY <1>0, AheadRange
      <3>2. Waiting \in Nat
        BY <1>0, <3>1 DEF Waiting
      <3> QED BY <1>0, <3>1, <3>2 DEF Contiguous
    <2>5. cb.valid[Oldest] => hand <= data[Oldest] /\ data[Oldest] < frame
      BY <1>0, <2>1 DEF ContentsKnown
    <2>6. ~cb.valid[Oldest] => hand <= frame
      BY <2>1
    <2>7. SentBefore'
      <3>1. ASSUME NEW k \in DOMAIN out', NEW i \in Slot, cb'.valid[i]
            PROVE  out'[k] < data[i] \/ (i = Oldest /\ out'[k] <= data[i])
        <4>1. cb.valid[i] /\ cb.valid[Oldest]
          BY <2>1, <2>4, <3>1
        <4>2. CASE k \in DOMAIN out /\ out'[k] = out[k]
          BY <1>t, <2>1, <4>1, <4>2
        <4>3. CASE k = Len(out) + 1 /\ out'[k] = hand
          BY <1>0, <1>t, <2>3, <2>5, <4>1, <4>3
        <4> QED BY <2>2, <3>1, <4>2, <4>3
      <3>2. ASSUME NEW k \in DOMAIN out'
            PROVE  out'[k] < frame \/ (~cb.valid[Oldest] /\ out'[k] <= frame)
        BY <1>0, <1>t, <2>1, <2>2, <2>5, <2>6, <3>2
      <3> QED BY <2>1, <3>1, <3>2
    <2>8. SentAscending'
      <3> SUFFICES ASSUME NEW j \in DOMAIN out', NEW k \in DOMAIN out',
                          j < k, out'[k] # Torn
                   PROVE  out'[j] < out'[k]
        BY DEF SentAscending
      <3>1. j \in DOMAIN out /\ out'[j] = out[j]
        BY <1>t, <2>1, <2>2
      <3> QED BY <2>1, <2>2, <3>1 DEF SentAscending
    <2>9. HandNext'
      BY <2>1
    <2> QED BY <2>7, <2>8, <2>9
  <1>8. CASE ConsumeRelease
    <2>1. /\ cb.valid[Oldest] /\ cb.c_index = Oldest /\ cb'.c_index = Oldest
          /\ cb'.valid = [cb.valid EXCEPT ![Oldest] = FALSE]
          /\ cons = "release" /\ cons' = "poll" /\ UNCHANGED <<out, data, frame>>
      BY <1>8, ReleaseEffect DEF ConsumeRelease
    <2> QED BY <1>0, <1>t, <1>s, <2>1
  <1>9. CASE UNCHANGED vars
    BY <1>9, <1>s DEF vars
  <1> QED
    BY <1>1, <1>2, <1>3, <1>4, <1>5, <1>6, <1>7, <1>8, <1>9
    DEF Next, Producer, Consumer

-----------------------------------------------------------------------------
(* The two threads are out of step: slot 0 was released before frame 0 was  *)
(* published in it, so its flag is behind the send thread, who finds it a    *)
(* turn later.                                                             *)

(* Frame 0 goes into slot 0. *)
FirstClaim ==
  frame = 0 => cb.p_index = IF prod = "capture" THEN -1 ELSE 0

(* Slot 0 stays valid until the send thread has been round all the others;  *)
(* those are filled from slot 1 on, and nothing else is valid.              *)
OneTurn ==
  /\ cb.c_index # -1 /\ cb.p_index # -1
  /\ cons # "poll" => cb.valid[cb.c_index]
  /\ WriteSlot # 0 => cb.valid[0] /\ Oldest \in 1 .. WriteSlot
  /\ ~cb.valid[0] => WriteSlot = 0 /\ Oldest = Succ(0)
  /\ \A i \in Slot \ {0} :
       cb.valid[i] <=> /\ cb.valid[0] /\ Oldest # 0 /\ Oldest <= i
                       /\ i < WriteSlot \/ WriteSlot = 0

(* No frame is refused before the turn is complete: the frames in the slots  *)
(* have consecutive numbers.                                               *)
Consecutive ==
  cb.valid[0] =>
    /\ \A i \in Slot \ {0} : cb.valid[i] => data[i] = data[0] + i
    /\ IF WriteSlot # 0 THEN frame = data[0] + WriteSlot ELSE frame >= data[0] + Num

(* What was sent is of earlier turns, or of the slots passed in this one.   *)
SentOfTurns ==
  /\ cb.valid[0] => \A k \in DOMAIN out : out[k] > 0 =>
       \/ out[k] < data[0]
       \/ data[0] < out[k] /\ out[k] < data[0] + (IF Oldest = 0 THEN Num ELSE Oldest)
       \/ cons = "release" /\ out[k] = data[cb.c_index]
  /\ ~cb.valid[0] => \A k \in DOMAIN out : out[k] > 0 => out[k] < frame
  /\ cons = "send" => hand = data[cb.c_index]

OutOfStep == OneTurn /\ Consecutive /\ SentOfTurns

LEMMA FirstClaimStep == IInv /\ FirstClaim /\ [Next]_vars => FirstClaim'
  <1> SUFFICES ASSUME IInv, FirstClaim, [Next]_vars PROVE FirstClaim'
    OBVIOUS
  <1>0. frame \in Nat
    BY Positions
  <1>1. CASE ProduceClaim
    BY <1>1, ClaimFields DEF ProduceClaim, FirstClaim, IInv, TypeOK
  <1>2. CASE ProduceRefuse
    BY <1>0, <1>2 DEF ProduceRefuse, FirstClaim
  <1>3. CASE ProduceCopy
    BY <1>3 DEF ProduceCopy, FirstClaim
  <1>4. CASE ProducePublish
    BY <1>0, <1>4 DEF ProducePublish, FirstClaim
  <1>5. CASE ConsumeGet
    BY <1>5, GetEffect DEF ConsumeGet, FirstClaim
  <1>6. CASE ConsumeRelease
    BY <1>6, ReleaseEffect DEF ConsumeRelease, FirstClaim
  <1>7. CASE ConsumeCopy \/ ConsumeSend \/ UNCHANGED vars
    BY <1>7 DEF ConsumeCopy, ConsumeSend, vars, FirstClaim
  <1> QED BY <1>1, <1>2, <1>3, <1>4, <1>5, <1>6, <1>7 DEF Next, Producer, Consumer

(* How they fall out of step. *)
LEMMA EarlyRelease ==
  IInv /\ FirstClaim /\ InStep /\ ConsumeRelease /\ ~cb.valid[cb.c_index] => OutOfStep'
  <1> SUFFICES ASSUME IInv, FirstClaim, InStep, ConsumeRelease, ~cb.valid[cb.c_index]
               PROVE  OutOfStep'
    OBVIOUS
  <1>0. /\ Oldest \in Slot /\ WriteSlot \in Slot /\ 0 \in Slot /\ -1 \notin Slot
        /\ cb.valid \in [Slot -> BOOLEAN] /\ Num \in Nat \ {0}
    BY Positions, NumAssumption DEF Slot
  <1>1. /\ cb.c_index = Oldest /\ Oldest' = Succ(Oldest) /\ WriteSlot' = WriteSlot
        /\ UNCHANGED <<cb.p_index, cb.c_index, out, frame>> /\ cons' = "poll"
        /\ cb'.valid = [cb.valid EXCEPT ![Oldest] = FALSE]
    BY ReleaseEffect DEF ConsumeRelease
  <1>2. /\ prod # "capture" /\ cb.p_index = 0 /\ cb.c_index = 0 /\ frame = 0
        /\ WriteSlot = 0 /\ Oldest = 0
    BY <1>1 DEF IInv, ReaderKnows, ConsumeRelease, FirstClaim, WriteSlot
  <1>3. \A i \in Slot : ~cb.valid[i]
    <2>1. Waiting = 0
      BY <1>0, <1>1, <1>2, AheadRange DEF Waiting
    <2> QED BY <1>0, <2>1, AheadRange DEF InStep, Contiguous
  <1>4. OneTurn'
    BY <1>0, <1>1, <1>2, <1>3 DEF OneTurn
  <1>5. Consecutive'
    BY <1>0, <1>1, <1>3 DEF Consecutive
  <1>6. SentOfTurns'
    <2>1. \A k \in DOMAIN out : out[k] \in Int /\ out[k] <= 0
      BY <1>2, MaxFrameAssumption DEF InStep, SentBefore, IInv, TypeOK, Content, Torn
    <2> QED BY <1>0, <1>1, <1>2, <1>3, <2>1 DEF SentOfTurns
  <1> QED BY <1>4, <1>5, <1>6 DEF OutOfStep

LEMMA OneTurnStep ==
  IInv /\ OneTurn /\ [Next]_vars => OneTurn'
  <1> SUFFICES ASSUME IInv, OneTurn, [Next]_vars PROVE OneTurn'
    OBVIOUS
  <1>0. /\ Oldest \in Slot /\ WriteSlot \in Slot /\ 0 \in Slot /\ -1 \notin Slot
        /\ cb.valid \in [Slot -> BOOLEAN] /\ Num \in Nat \ {0}
    BY Positions, NumAssumption DEF Slot
  <1>n. \A i \in Slot : Succ(i) \in Slot /\ Succ(i) = IF i = Num - 1 THEN 0 ELSE i + 1
    BY SuccInSlot, SuccCases
  <1> USE DEF OneTurn
  <1>1. CASE ProduceClaim
    BY <1>0, <1>1, ClaimEffect DEF ProduceClaim
  <1>2. CASE ProducePublish
    <2>1. /\ Oldest' = Oldest /\ WriteSlot' = Succ(WriteSlot) /\ ~cb.valid[WriteSlot]
          /\ UNCHANGED <<cb.c_index, cb.p_index, cons>>
          /\ cb'.valid = [cb.valid EXCEPT ![WriteSlot] = TRUE]
      BY <1>2, PublishEffect DEF ProducePublish
    <2>2. CASE WriteSlot = 0
      <3>1. Oldest = Succ(0) /\ \A i \in Slot : ~cb.valid[i]
        BY <1>0, <2>1, <2>2
      <3> QED BY <1>0, <1>n, <2>1, <2>2, <3>1 DEF Slot
    <2>3. CASE WriteSlot # 0
      <3>1. WriteSlot' = IF WriteSlot = Num - 1 THEN 0 ELSE WriteSlot + 1
        BY <1>0, <1>n, <2>1
      <3>2. cb.valid[0] /\ cb'.valid[0] /\ Oldest \in 1 .. WriteSlot /\ Oldest # 0
        BY <1>0, <2>1, <2>3
      <3>3. ASSUME NEW i \in Slot \ {0}
            PROVE  cb'.valid[i] <=> Oldest <= i /\ (i < WriteSlot' \/ WriteSlot' = 0)
        <4>1. CASE i = WriteSlot
          BY <1>0, <2>1, <3>1, <3>2, <4>1 DEF Slot
        <4>2. CASE i # WriteSlot
          <5>1. cb'.valid[i] <=> Oldest <= i /\ i < WriteSlot
            BY <1>0, <2>1, <2>3, <3>2, <4>2
          <5> QED BY <1>0, <3>1, <4>2, <5>1 DEF Slot
        <4> QED BY <4>1, <4>2
      <3>4. WriteSlot' # 0 => Oldest \in 1 .. WriteSlot'
        BY <1>0, <3>1, <3>2 DEF Slot
      <3>5. cb'.c_index # -1 /\ cb'.p_index # -1 /\ (cons' # "poll" => cb'.valid[cb'.c_index])
        BY <1>0, <2>1
      <3> QED BY <2>1, <3>2, <3>3, <3>4, <3>5
    <2> QED BY <2>2, <2>3
  <1>3. CASE ConsumeGet
    <2>1. /\ UNCHANGED <<WriteSlot, Oldest, cb.valid, cb.p_index>> /\ cb'.c_index = Oldest
      BY <1>3, GetEffect
    <2>2. cb.valid[Oldest]
      BY <1>3 DEF ConsumeGet, Gettable, Oldest
    <2> QED BY <1>0, <2>1, <2>2
  <1>4. CASE ConsumeRelease
    <2>1. /\ Oldest' = Succ(Oldest) /\ WriteSlot' = WriteSlot /\ cb.valid[Oldest]
          /\ UNCHANGED <<cb.c_index, cb.p_index>> /\ cons' = "poll"
          /\ cb'.valid = [cb.valid EXCEPT ![Oldest] = FALSE]
      BY <1>4, ReleaseEffect DEF ConsumeRelease
    <2>2. Oldest' = IF Oldest = Num - 1 THEN 0 ELSE Oldest + 1
      BY <1>0, <1>n, <2>1
    <2>3. CASE Oldest = 0
      <3>1. WriteSlot = 0 /\ \A i \in Slot : ~cb'.valid[i]
        BY <1>0, <2>1, <2>3
      <3> QED BY <1>0, <2>1, <2>3, <3>1
    <2>4. CASE Oldest # 0
      <3>1. cb.valid[0] /\ cb'.valid[0]
        BY <1>0, <2>1, <2>4
      <3>2. WriteSlot # 0 => Oldest < WriteSlot
        BY <1>0, <2>1, <2>4 DEF Slot
      <3>3. ASSUME NEW i \in Slot \ {0}
            PROVE  cb'.valid[i] <=> /\ Oldest' # 0 /\ Oldest' <= i
                                    /\ i < WriteSlot \/ WriteSlot = 0
        <4>1. CASE i = Oldest
          BY <1>0, <2>1, <2>2, <4>1 DEF Slot
        <4>2. CASE i # Oldest
          <5>1. cb'.valid[i] <=> Oldest <= i /\ (i < WriteSlot \/ WriteSlot = 0)
            BY <1>0, <2>1, <2>4, <3>1, <4>2
          <5> QED BY <1>0, <2>2, <4>2, <5>1 DEF Slot
        <4> QED BY <4>1, <4>2
      <3>4. WriteSlot # 0 => Oldest' \in 1 .. WriteSlot
        BY <1>0, <2>2, <2>4, <3>2 DEF Slot
      <3> QED BY <2>1, <3>1, <3>3, <3>4
    <2> QED BY <2>3, <2>4
  <1>5. CASE ProduceRefuse \/ ProduceCopy \/ ConsumeCopy \/ ConsumeSend \/ UNCHANGED vars
    <2>1. cons' # "poll" => cons # "poll"
      BY <1>5 DEF ProduceRefuse, ProduceCopy, ConsumeCopy, ConsumeSend, vars
    <2> QED BY <1>5, <2>1, QuietEffect
  <1> QED BY <1>1, <1>2, <1>3, <1>4, <1>5 DEF Next, Producer, Consumer

LEMMA ConsecutiveStep ==
  IInv /\ ContentsKnown /\ OneTurn /\ Consecutive /\ [Next]_vars => Consecutive'
  <1> SUFFICES ASSUME IInv, ContentsKnown, OneTurn, Consecutive, [Next]_vars
               PROVE  Consecutive'
    OBVIOUS
  <1>0. /\ Oldest \in Slot /\ WriteSlot \in Slot /\ 0 \in Slot
        /\ cb.valid \in [Slot -> BOOLEAN] /\ Num \in Nat \ {0}
        /\ data \in [Slot -> Content] /\ frame \in Nat
    BY Positions, NumAssumption DEF Slot
  <1>v. ASSUME \A i \in Slot : cb'.valid[i] => cb.valid[i] /\ data'[i] = data[i],
               UNCHANGED <<WriteSlot, frame>>
        PROVE  Consecutive'
    BY <1>0, <1>v DEF Consecutive
  <1>1. CASE ProduceClaim
    BY <1>0, <1>1, <1>v, ClaimEffect DEF ProduceClaim
  <1>2. CASE ProduceRefuse
    <2>1. cb.valid[WriteSlot]
      BY <1>2 DEF ProduceRefuse, Claimable, WriteSlot
    <2>2. WriteSlot = 0
      BY <1>0, <2>1 DEF OneTurn, Slot
    <2>3. frame' = frame + 1 /\ UNCHANGED <<WriteSlot, cb, data>>
      BY <1>2, QuietEffect DEF ProduceRefuse
    <2>4. \A i \in Slot : cb.valid[i] => data[i] \in Nat
      BY <1>0 DEF ContentsKnown
    <2> QED BY <1>0, <2>2, <2>3, <2>4 DEF Consecutive
  <1>3. CASE ProduceCopy
    <2>1. \A i \in Slot : cb.valid[i] => data'[i] = data[i]
      BY <1>0, <1>3 DEF ProduceCopy, IInv, WriterKnows
    <2> QED BY <1>3, <1>v, <2>1, QuietEffect DEF ProduceCopy
  <1>4. CASE ProducePublish
    <2>1. /\ WriteSlot' = Succ(WriteSlot) /\ ~cb.valid[WriteSlot] /\ data' = data
          /\ cb'.valid = [cb.valid EXCEPT ![WriteSlot] = TRUE] /\ frame' = frame + 1
      BY <1>4, PublishEffect DEF ProducePublish
    <2>2. data[WriteSlot] = frame
      BY <1>4, PublishEffect DEF ProducePublish, ContentsKnown
    <2>3. WriteSlot' = IF WriteSlot = Num - 1 THEN 0 ELSE WriteSlot + 1
      BY <1>0, <2>1, SuccCases
    <2>4. CASE WriteSlot = 0
      <3>1. \A i \in Slot \ {0} : ~cb'.valid[i]
        BY <1>0, <2>1, <2>4 DEF OneTurn
      <3> QED BY <1>0, <2>1, <2>2, <2>3, <2>4, <3>1 DEF Consecutive
    <2>5. CASE WriteSlot # 0
      <3>1. cb.valid[0] /\ frame = data[0] + WriteSlot /\ data[0] \in Nat
        BY <1>0, <2>5 DEF OneTurn, Consecutive, ContentsKnown
      <3>2. \A i \in Slot \ {0} : cb'.valid[i] => data[i] = data[0] + i
        BY <1>0, <2>1, <2>2, <3>1 DEF Consecutive
      <3> QED BY <1>0, <2>1, <2>3, <2>5, <3>1, <3>2 DEF Consecutive, Slot
    <2> QED BY <2>4, <2>5
  <1>5. CASE ConsumeGet
    BY <1>5, <1>v, GetEffect DEF ConsumeGet
  <1>6. CASE ConsumeRelease
    BY <1>0, <1>6, <1>v, ReleaseEffect DEF ConsumeRelease
  <1>7. CASE ConsumeCopy \/ ConsumeSend \/ UNCHANGED vars
    <2>1. UNCHANGED <<data, frame>>
      BY <1>7 DEF ConsumeCopy, ConsumeSend, vars
    <2> QED BY <1>7, <1>v, <2>1, QuietEffect
  <1> QED BY <1>1, <1>2, <1>3, <1>4, <1>5, <1>6, <1>7 DEF Next, Producer, Consumer

LEMMA SentOfTurnsStep ==
  IInv /\ ContentsKnown /\ OutOfStep /\ [Next]_vars => SentOfTurns'
  <1> SUFFICES ASSUME IInv, ContentsKnown, OutOfStep, [Next]_vars
               PROVE  SentOfTurns'
    OBVIOUS
  <1>0. /\ Oldest \in Slot /\ WriteSlot \in Slot /\ 0 \in Slot
        /\ cb.valid \in [Slot -> BOOLEAN] /\ Num \in Nat \ {0}
        /\ data \in [Slot -> Content] /\ frame \in Nat
    BY Positions, NumAssumption DEF Slot
  <1>t. /\ out \in Seq(Content) /\ \A k \in DOMAIN out : out[k] \in Int
        /\ \A i \in Slot : cb.valid[i] => data[i] \in Nat /\ data[i] < frame
    BY <1>0, MaxFrameAssumption DEF IInv, TypeOK, Content, Torn, ContentsKnown
  <1>c. cons # "poll" => cb.c_index = Oldest /\ cb.valid[Oldest]
    BY DEF Oldest, OutOfStep, OneTurn
  <1> USE DEF SentOfTurns, OutOfStep
  <1>1. CASE ProduceClaim
    <2>1. \A i \in Slot : cb.valid[i] => data'[i] = data[i]
      BY <1>0, <1>1, ClaimEffect
    <2> QED BY <1>0, <1>c, <1>1, <2>1, ClaimEffect DEF ProduceClaim
  <1>2. CASE ProduceRefuse
    <2>1. frame' = frame + 1 /\ UNCHANGED <<Oldest, cb, data, out, cons, hand>>
      BY <1>0, <1>2, QuietEffect DEF ProduceRefuse
    <2> QED BY <1>0, <1>t, <2>1
  <1>3. CASE ProduceCopy
    <2>1. \A i \in Slot : cb.valid[i] => data'[i] = data[i]
      BY <1>0, <1>3 DEF ProduceCopy, IInv, WriterKnows
    <2> QED BY <1>0, <1>c, <1>3, <2>1, QuietEffect DEF ProduceCopy
  <1>4. CASE ProducePublish
    <2>1. /\ Oldest' = Oldest /\ ~cb.valid[WriteSlot] /\ UNCHANGED <<data, cb.c_index>>
          /\ cb'.valid = [cb.valid EXCEPT ![WriteSlot] = TRUE] /\ frame' = frame + 1
          /\ UNCHANGED <<out, cons, hand>>
      BY <1>4, PublishEffect DEF ProducePublish
    <2>2. data[WriteSlot] = frame
      BY <1>4, PublishEffect DEF ProducePublish, ContentsKnown
    <2>3. CASE WriteSlot = 0
      BY <1>0, <2>1, <2>2, <2>3
    <2>4. CASE WriteSlot # 0
      <3>1. cb.valid[0] /\ cb'.valid[0]
        BY <1>0, <2>1, <2>4 DEF OneTurn
      <3> QED BY <2>1, <3>1
    <2> QED BY <2>3, <2>4
  <1>5. CASE ConsumeGet
    <2>1. cb'.valid = cb.valid /\ Oldest' = Oldest
      BY <1>5, GetEffect
    <2> QED BY <1>5, <2>1 DEF ConsumeGet
  <1>6. CASE ConsumeCopy
    BY <1>6, QuietEffect DEF ConsumeCopy
  <1>7. CASE ConsumeSend
    <2>1. /\ out' = Append(out, data[cb.c_index]) /\ cons' = "release" /\ cons = "send"
          /\ UNCHANGED <<Oldest, cb, data, frame>>
      BY <1>7, QuietEffect DEF ConsumeSend
    <2>2. \A k \in DOMAIN out' :
            \/ k \in DOMAIN out /\ out'[k] = out[k]
            \/ out'[k] = data[cb.c_index]
      BY <1>t, <2>1
    <2>3. data[cb.c_index] < frame
      BY <1>0, <1>c, <1>t, <2>1
    <2>4. ASSUME NEW k \in DOMAIN out', out'[k] > 0, cb.valid[0]
          PROVE  \/ out'[k] < data[0]
                 \/ /\ data[0] < out'[k]
                    /\ out'[k] < data[0] + (IF Oldest = 0 THEN Num ELSE Oldest)
                 \/ out'[k] = data[cb.c_index]
      BY <2>1, <2>2, <2>4
    <2>5. ASSUME NEW k \in DOMAIN out', out'[k] > 0, ~cb.valid[0]
          PROVE  out'[k] < frame
      BY <2>1, <2>2, <2>3, <2>5
    <2> QED BY <2>1, <2>4, <2>5
  <1>8. CASE ConsumeRelease
    <2>1. /\ Oldest' = Succ(Oldest) /\ cb.valid[Oldest] /\ cb.c_index = Oldest
          /\ cb'.valid = [cb.valid EXCEPT ![Oldest] = FALSE]
          /\ cons = "release" /\ cons' = "poll" /\ UNCHANGED <<data, frame, out>>
      BY <1>c, <1>8, ReleaseEffect DEF ConsumeRelease
    <2>2. Oldest' = IF Oldest = Num - 1 THEN 0 ELSE Oldest + 1
      BY <1>0, <2>1, SuccCases
    <2>3. CASE Oldest = 0
      <3>1. WriteSlot = 0 /\ frame >= data[0] + Num /\ ~cb'.valid[0]
        BY <1>0, <2>1, <2>3 DEF OneTurn, Consecutive
      <3> QED BY <1>0, <1>t, <2>1, <2>3, <3>1
    <2>4. CASE Oldest # 0
      <3>1. cb.valid[0] /\ cb'.valid[0] /\ data[Oldest] = data[0] + Oldest
        BY <1>0, <2>1, <2>4 DEF OneTurn, Consecutive
      <3>2. ASSUME NEW k \in DOMAIN out, out[k] > 0
            PROVE  \/ out[k] < data[0]
                   \/ data[0] < out[k] /\ out[k] < data[0] + (IF Oldest' = 0 THEN Num ELSE Oldest')
        BY <1>0, <1>t, <2>1, <2>2, <2>4, <3>1, <3>2 DEF Slot
      <3> QED BY <2>1, <3>1, <3>2
    <2> QED BY <2>3, <2>4
  <1>9. CASE UNCHANGED vars
    BY <1>9, QuietEffect DEF vars
  <1> QED
    BY <1>1, <1>2, <1>3, <1>4, <1>5, <1>6, <1>7, <1>8, <1>9
    DEF Next, Producer, Consumer

(* All of it together. *)
OrderInv ==
  /\ IInv /\ ContentsKnown /\ FirstClaim
  /\ ~early => InStep
  /\ early => OutOfStep
  /\ LateByLessThanATurn

LEMMA LateStep == OrderInv /\ [Next]_vars => LateByLessThanATurn'
  <1> SUFFICES ASSUME OrderInv, [Next]_vars PROVE LateByLessThanATurn'
    OBVIOUS
  <1>0. /\ Oldest \in Slot /\ WriteSlot \in Slot /\ 0 \in Slot
        /\ cb.valid \in [Slot -> BOOLEAN] /\ Num \in Nat \ {0}
        /\ data \in [Slot -> Content] /\ frame \in Nat
    BY Positions, NumAssumption DEF OrderInv, Slot
  <1>t. /\ out \in Seq(Content) /\ \A k \in DOMAIN out : out[k] \in Int
        /\ \A i \in Slot : cb.valid[i] => data[i] \in Nat
    BY <1>0, MaxFrameAssumption DEF OrderInv, IInv, TypeOK, Content, Torn, ContentsKnown
  <1>1. CASE ConsumeSend /\ ~early
    <2>1. SentAscending'
      BY <1>1, SentStep DEF OrderInv, ConsumeSend
    <2>2. \A k \in DOMAIN out' : out'[k] \in Int
      <3>1. out' \in Seq(Content)
        BY TypeStep DEF OrderInv, IInv, TypeOK
      <3> QED BY <3>1, MaxFrameAssumption DEF Content, Torn
    <2> QED BY <1>0, <2>1, <2>2 DEF SentAscending, LateByLessThanATurn, Torn
  <1>2. CASE ConsumeSend /\ early
    <2>1. out' = Append(out, hand) /\ hand = data[Oldest] /\ cb.valid[Oldest] /\ cons = "send"
      BY <1>2 DEF ConsumeSend, OrderInv, OutOfStep, OneTurn, SentOfTurns, Oldest
    <2>2. cb.valid[0] /\ hand = IF Oldest = 0 THEN data[0] ELSE data[0] + Oldest
      BY <1>0, <1>2, <2>1 DEF OrderInv, OutOfStep, OneTurn, Consecutive
    <2>3. ASSUME NEW j \in DOMAIN out, out[j] > 0
          PROVE  out[j] # hand /\ out[j] < hand + Num
      <3>1. \/ out[j] < data[0]
            \/ data[0] < out[j] /\ out[j] < data[0] + (IF Oldest = 0 THEN Num ELSE Oldest)
        BY <1>2, <2>1, <2>2, <2>3 DEF OrderInv, OutOfStep, SentOfTurns
      <3> QED BY <1>0, <1>t, <2>2, <3>1 DEF Slot
    <2>4. \A k \in DOMAIN out' :
            \/ k \in DOMAIN out /\ out'[k] = out[k]
            \/ k = Len(out) + 1 /\ out'[k] = hand
      BY <1>t, <2>1, <2>2
    <2> SUFFICES ASSUME NEW j \in DOMAIN out', NEW k \in DOMAIN out',
                        j < k, out'[j] > 0, out'[k] > 0
                 PROVE  out'[j] # out'[k] /\ out'[j] < out'[k] + Num
      BY DEF LateByLessThanATurn
    <2>5. j \in DOMAIN out /\ out'[j] = out[j]
      BY <1>t, <2>1
    <2> QED BY <2>3, <2>4, <2>5 DEF OrderInv, LateByLessThanATurn
  <1>3. CASE UNCHANGED out
    BY <1>3 DEF OrderInv, LateByLessThanATurn
  <1>4. ConsumeSend \/ UNCHANGED out
    BY DEF Next, Producer, Consumer, vars, ProduceClaim, ProduceRefuse, ProduceCopy,
       ProducePublish, ConsumeGet, ConsumeCopy, ConsumeRelease
  <1> QED BY <1>1, <1>2, <1>3, <1>4

LEMMA OrderStep == OrderInv /\ [Next]_vars => OrderInv'
  <1> SUFFICES ASSUME OrderInv, [Next]_vars PROVE OrderInv'
    OBVIOUS
  <1>1. IInv' /\ ContentsKnown' /\ FirstClaim' /\ LateByLessThanATurn'
    BY TypeStep, FlagStep, TornStep, ContentsStep, FirstClaimStep, LateStep
    DEF OrderInv, IInv
  <1>2. early' \in BOOLEAN /\ early \in BOOLEAN
    BY <1>1 DEF OrderInv, IInv, TypeOK
  <1>3. early => early'
    BY DEF Next, Producer, Consumer, vars, ProduceClaim, ProduceRefuse, ProduceCopy,
       ProducePublish, ConsumeGet, ConsumeCopy, ConsumeSend, ConsumeRelease
  <1>4. ~early /\ early' => ConsumeRelease /\ ~cb.valid[cb.c_index]
    BY DEF Next, Producer, Consumer, vars, ProduceClaim, ProduceRefuse, ProduceCopy,
       ProducePublish, ConsumeGet, ConsumeCopy, ConsumeSend, ConsumeRelease
  <1>5. ~early' => InStep'
    BY <1>3, ContiguousStep, AscendingStep, SentStep DEF OrderInv, InStep
  <1>6. early' => OutOfStep'
    <2>1. CASE early
      BY <2>1, OneTurnStep, ConsecutiveStep, SentOfTurnsStep DEF OrderInv, OutOfStep
    <2>2. CASE ~early
      BY <1>4, <2>2, EarlyRelease DEF OrderInv
    <2> QED BY <2>1, <2>2
  <1> QED BY <1>1, <1>5, <1>6 DEF OrderInv

LEMMA InitOrderInv == Init => OrderInv
  <1> SUFFICES ASSUME Init PROVE OrderInv
    OBVIOUS
  <1>1. IInv
    BY InitIInv
  <1>2. \A i \in Slot : ~cb.valid[i] /\ Succ(-1) = 0 /\ 0 \in Slot
    BY SuccCases, NumAssumption DEF Init, cyclic_buf_init, Slot
  <1>3. WriteSlot = 0 /\ Oldest = 0 /\ 0 \in Slot
    BY SuccCases, NumAssumption DEF Init, cyclic_buf_init, WriteSlot, Oldest, Slot
  <1>4. Waiting = 0
    BY <1>2, <1>3, AheadRange DEF Waiting
  <1>5. Contiguous
    BY <1>2, <1>3, <1>4, AheadRange DEF Contiguous
  <1>6. InStep
    BY <1>2, <1>5 DEF InStep, Init, Ascending, SentBefore, HandNext, SentAscending
  <1> QED
    BY <1>1, <1>2, <1>6
    DEF OrderInv, Init, cyclic_buf_init, ContentsKnown, FirstClaim, LateByLessThanATurn

LEMMA OrderInvariance == Spec => []OrderInv
  BY InitOrderInv, OrderStep, PTL DEF Spec

(* The valid flags alone keep the frames in the order of their capture, as   *)
(* long as AVProcess did not release slot 0 before frame 0 was there.        *)
THEOREM OrderIsKept == Spec => []InOrder
  <1>1. OrderInv => InOrder
    BY DEF OrderInv, InStep, SentAscending, InOrder
  <1> QED BY OrderInvariance, <1>1, PTL

(* Even then a frame is late by less than a turn of the ring, and no frame   *)
(* but frame 0 is sent twice.                                              *)
THEOREM LatenessIsBounded == Spec => []LateByLessThanATurn
  <1>1. OrderInv => LateByLessThanATurn
    BY DEF OrderInv
  <1> QED BY OrderInvariance, <1>1, PTL

-----------------------------------------------------------------------------
(* The refinement.  If the first poll finds frame 0 published, the send      *)
(* thread holds valid slots only, and what it holds is what it sends.       *)

FifoInv ==
  /\ OrderInv /\ ~early
  /\ cons # "poll" => cb.valid[cb.c_index]
  /\ cons = "send" => hand = data[cb.c_index]
  /\ cons = "release" => out # <<>> /\ out[Len(out)] = data[cb.c_index]

LEMMA FifoInvStep == FifoInv /\ [Next /\ FirstPollSafe]_vars => FifoInv'
  <1> SUFFICES ASSUME FifoInv, [Next /\ FirstPollSafe]_vars PROVE FifoInv'
    OBVIOUS
  <1>0. /\ Oldest \in Slot /\ WriteSlot \in Slot
        /\ cb.valid \in [Slot -> BOOLEAN] /\ data \in [Slot -> Content]
        /\ out \in Seq(Content) /\ hand \in Content
    BY Positions DEF FifoInv, OrderInv, IInv, TypeOK
  <1>c. cons # "poll" => cb.c_index = Oldest
    BY DEF Oldest
  <1>i. IInv
    BY DEF FifoInv, OrderInv
  <1>o. OrderInv'
    BY OrderStep DEF FifoInv
  <1> USE DEF FifoInv
  <1>1. CASE ProduceClaim
    <2>1. \A i \in Slot : cb.valid[i] => data'[i] = data[i]
      BY <1>0, <1>i, <1>1, ClaimEffect
    <2> QED BY <1>0, <1>c, <1>i, <1>o, <1>1, <2>1, ClaimEffect DEF ProduceClaim
  <1>2. CASE ProduceRefuse
    BY <1>o, <1>2 DEF ProduceRefuse
  <1>3. CASE ProduceCopy
    <2>1. \A i \in Slot : cb.valid[i] => data'[i] = data[i]
      BY <1>0, <1>i, <1>3 DEF ProduceCopy, IInv, WriterKnows
    <2> QED BY <1>0, <1>c, <1>o, <1>3, <2>1 DEF ProduceCopy
  <1>4. CASE ProducePublish
    BY <1>0, <1>c, <1>i, <1>o, <1>4, PublishEffect DEF ProducePublish
  <1>5. CASE ConsumeGet /\ FirstPollSafe
    <2>1. cb'.valid = cb.valid /\ cb'.c_index = Oldest
      BY <1>i, <1>5, GetEffect
    <2>2. cb.valid[Oldest]
      BY <1>5, <2>1, SuccCases DEF ConsumeGet, Gettable, Oldest, FirstPollSafe
    <2> QED BY <1>o, <1>5, <2>1, <2>2 DEF ConsumeGet
  <1>6. CASE ConsumeCopy
    BY <1>o, <1>6 DEF ConsumeCopy
  <1>7. CASE ConsumeSend
    BY <1>0, <1>o, <1>7 DEF ConsumeSend
  <1>8. CASE ConsumeRelease
    BY <1>o, <1>8 DEF ConsumeRelease
  <1>9. CASE UNCHANGED vars
    BY <1>o, <1>9 DEF vars
  <1> QED
    BY <1>1, <1>2, <1>3, <1>4, <1>5, <1>6, <1>7, <1>8, <1>9
    DEF Next, Producer, Consumer

(* In step, Queued holds the contents of the Waiting slots from Oldest on.   *)
LEMMA QueuedForm ==
  OrderInv /\ ~early =>
    /\ Waiting \in 0 .. Num
    /\ Queued = [k \in 1 .. Waiting |-> data[SlotAt(Oldest, k - 1)]]
  <1> SUFFICES ASSUME OrderInv, ~early
               PROVE  /\ Waiting \in 0 .. Num
                      /\ Queued = [k \in 1 .. Waiting |-> data[SlotAt(Oldest, k - 1)]]
    OBVIOUS
  <1> DEFINE valid == {i \in Slot : cb.valid[i]}
  <1>0. /\ Oldest \in Slot /\ WriteSlot \in Slot /\ Num \in Nat \ {0}
        /\ \A i \in Slot : cb.valid[i] <=> Ahead(Oldest, i) < Waiting
    BY Positions, NumAssumption DEF OrderInv, InStep, Contiguous
  <1>1. Waiting \in 0 .. Num
    <2>1. Ahead(Oldest, WriteSlot) \in 0 .. Num - 1
      BY <1>0, AheadRange
    <2> QED BY <1>0, <2>1 DEF Waiting
  <1>2. Cardinality(valid) = Waiting
    <2> DEFINE f == [k \in 1 .. Waiting |-> SlotAt(Oldest, k - 1)]
    <2>1. \A k \in 1 .. Waiting : f[k] \in Slot /\ Ahead(Oldest, f[k]) = k - 1
      BY <1>0, <1>1, SlotAtAhead
    <2>2. f \in [1 .. Waiting -> valid]
      BY <1>0, <1>1, <2>1
    <2>3. \A j, k \in 1 .. Waiting : f[j] = f[k] => j = k
      BY <1>1, <2>1
    <2>4. \A i \in valid : \E k \in 1 .. Waiting : f[k] = i
      <3> SUFFICES ASSUME NEW i \in valid
                   PROVE  \E k \in 1 .. Waiting : f[k] = i
        OBVIOUS
      <3>1. Ahead(Oldest, i) \in 0 .. Waiting - 1
        BY <1>0, <1>1, AheadRange
      <3>2. f[Ahead(Oldest, i) + 1] = i
        BY <1>0, <1>1, <3>1, SlotAtAhead
      <3> QED BY <1>1, <3>1, <3>2
    <2>5. f \in Bijection(1 .. Waiting, valid)
      <3> HIDE DEF f, valid
      <3> QED BY <2>2, <2>3, <2>4 DEF Bijection, Injection, Surjection, IsInjective
    <2>6. ExistsBijection(1 .. Waiting, valid)
      BY <2>5 DEF ExistsBijection
    <2>7. Waiting \in Nat
      BY <1>1
    <2> HIDE DEF valid
    <2> QED BY <2>6, <2>7, FS_CountingElements
  <1>3. ASSUME NEW k \in 1 .. Waiting
        PROVE  (CHOOSE i \in Slot : (i - Oldest) % Num = k - 1) = SlotAt(Oldest, k - 1)
    <2>1. /\ SlotAt(Oldest, k - 1) \in Slot
          /\ Ahead(Oldest, SlotAt(Oldest, k - 1)) = k - 1
      BY <1>0, <1>1, SlotAtAhead
    <2>2. \A i \in Slot : Ahead(Oldest, i) = k - 1 => i = SlotAt(Oldest, k - 1)
      BY <1>0, <2>1, AheadInjective
    <2> QED BY <2>1, <2>2 DEF Ahead
  <1>4. Queued = [k \in 1 .. Waiting |->
                    data[CHOOSE i \in Slot : (i - Oldest) % Num = k - 1]]
    BY <1>2 DEF Queued
  <1> QED
    <2> DEFINE Nth(k) == CHOOSE i \in Slot : (i - Oldest) % Num = k - 1
    <2>1. Queued = [k \in 1 .. Waiting |-> data[Nth(k)]]
      BY <1>4
    <2>2. \A k \in 1 .. Waiting : Nth(k) = SlotAt(Oldest, k - 1)
      BY <1>3
    <2> HIDE DEF Nth
    <2> QED BY <1>1, <2>1, <2>2

QueueForm ==
  /\ Queued \in Seq(Content) /\ Len(Queued) = Waiting
  /\ \A k \in 1 .. Waiting :
       /\ SlotAt(Oldest, k - 1) \in Slot /\ cb.valid[SlotAt(Oldest, k - 1)]
       /\ Queued[k] = data[SlotAt(Oldest, k - 1)]

LEMMA QueuedSlots == FifoInv => QueueForm
  <1> SUFFICES ASSUME FifoInv PROVE QueueForm
    OBVIOUS
  <1>1. /\ Waiting \in 0 .. Num
        /\ Queued = [k \in 1 .. Waiting |-> data[SlotAt(Oldest, k - 1)]]
    BY QueuedForm DEF FifoInv
  <1>2. /\ Oldest \in Slot /\ data \in [Slot -> Content] /\ Num \in Nat
        /\ \A i \in Slot : cb.valid[i] <=> Ahead(Oldest, i) < Waiting
    BY Positions, NumAssumption DEF FifoInv, OrderInv, InStep, Contiguous
  <1>3. ASSUME NEW k \in 1 .. Waiting
        PROVE  SlotAt(Oldest, k - 1) \in Slot /\ cb.valid[SlotAt(Oldest, k - 1)]
    <2>1. SlotAt(Oldest, k - 1) \in Slot /\ Ahead(Oldest, SlotAt(Oldest, k - 1)) = k - 1
      BY <1>1, <1>2, SlotAtAhead
    <2> QED BY <1>1, <1>2, <2>1
  <1>4. Waiting \in Nat /\ \A k \in 1 .. Waiting : data[SlotAt(Oldest, k - 1)] \in Content
    BY <1>1, <1>2, <1>3
  <1>5. Queued \in Seq(Content) /\ Len(Queued) = Waiting
    BY <1>1, <1>4
  <1> QED BY <1>1, <1>3, <1>5 DEF QueueForm

(* A step that moves neither thread and writes no valid slot leaves the     *)
(* queue as it was.                                                        *)
LEMMA QueueUnmoved ==
  /\ FifoInv /\ FifoInv'
  /\ UNCHANGED <<WriteSlot, Oldest, cb.valid>>
  /\ \A i \in Slot : cb.valid[i] => data'[i] = data[i]
  => Queued' = Queued
  <1> SUFFICES ASSUME FifoInv, FifoInv', UNCHANGED <<WriteSlot, Oldest, cb.valid>>,
                      \A i \in Slot : cb.valid[i] => data'[i] = data[i]
               PROVE  Queued' = Queued
    OBVIOUS
  <1>1. Waiting' = Waiting
    BY DEF Waiting
  <1>2. /\ Queued' \in Seq(Content) /\ Len(Queued') = Waiting'
        /\ \A k \in 1 .. Waiting' : Queued'[k] = data'[SlotAt(Oldest', k - 1)]
    <2>1. QueueForm'
      BY QueuedSlots, PTL
    <2> QED BY <2>1 DEF QueueForm
  <1>3. \A k \in 1 .. Waiting : Queued'[k] = Queued[k]
    BY <1>1, <1>2, QueuedSlots DEF QueueForm
  <1> QED BY <1>1, <1>2, <1>3, QueuedSlots, SeqEqual DEF QueueForm

(* Publishing a slot puts its frame at the end of the queue, which was not  *)
(* full, ...                                                               *)
LEMMA PublishOffers ==
  FifoInv /\ FifoInv' /\ ProducePublish =>
    Len(Queued) < Num /\ Queued' = Append(Queued, frame)
  <1> SUFFICES ASSUME FifoInv, FifoInv', ProducePublish
               PROVE  Len(Queued) < Num /\ Queued' = Append(Queued, frame)
    OBVIOUS
  <1>0. /\ Oldest \in Slot /\ WriteSlot \in Slot /\ Num \in Nat \ {0}
        /\ cb.valid \in [Slot -> BOOLEAN]
        /\ \A i \in Slot : cb.valid[i] <=> Ahead(Oldest, i) < Waiting
    BY Positions, NumAssumption DEF FifoInv, OrderInv, InStep, Contiguous
  <1>1. /\ ~cb.valid[WriteSlot] /\ WriteSlot' = Succ(WriteSlot) /\ Oldest' = Oldest
        /\ cb'.valid = [cb.valid EXCEPT ![WriteSlot] = TRUE]
        /\ data' = data /\ data[WriteSlot] = frame /\ frame \in Content
    <2>1. IInv /\ ContentsKnown
      BY DEF FifoInv, OrderInv
    <2>2. cb.p_index = WriteSlot /\ frame < MaxFrame
      BY <2>1, PublishEffect
    <2>3. frame \in Content
      BY <2>1, <2>2, MaxFrameAssumption DEF IInv, TypeOK, Content
    <2> QED BY <2>1, <2>2, <2>3, PublishEffect DEF ProducePublish, ContentsKnown
  <1>2. Waiting = Ahead(Oldest, WriteSlot) /\ Waiting \in 0 .. Num - 1
    BY <1>0, <1>1, AheadRange DEF Waiting
  <1>3. Waiting' = Waiting + 1
    <2>1. CASE Waiting = Num - 1
      <3>1. Succ(WriteSlot) = Oldest
        BY <1>0, <1>2, <2>1, AheadOfSucc
      <3>2. cb'.valid[Oldest]
        BY <1>0, <1>1, <1>2, AheadRange
      <3> QED BY <1>0, <1>1, <2>1, <3>1, <3>2 DEF Waiting
    <2>2. CASE Waiting # Num - 1
      <3>1. Succ(WriteSlot) \in Slot /\ Ahead(Oldest, Succ(WriteSlot)) = Waiting + 1
        BY <1>0, <1>2, <2>2, AheadOfSucc, SuccInSlot
      <3>2. ~cb'.valid[Succ(WriteSlot)]
        BY <1>0, <1>1, <1>2, <3>1
      <3> QED BY <1>1, <3>1, <3>2 DEF Waiting
    <2> QED BY <2>1, <2>2
  <1>4. /\ Queued' \in Seq(Content) /\ Len(Queued') = Waiting'
        /\ \A k \in 1 .. Waiting' : Queued'[k] = data'[SlotAt(Oldest', k - 1)]
    <2>1. QueueForm'
      BY QueuedSlots, PTL
    <2> QED BY <2>1 DEF QueueForm
  <1>5. Append(Queued, frame) \in Seq(Content) /\ Len(Append(Queued, frame)) = Waiting + 1
    BY <1>1, QueuedSlots DEF QueueForm
  <1>6. ASSUME NEW k \in 1 .. Waiting + 1
        PROVE  Queued'[k] = Append(Queued, frame)[k]
    <2>1. CASE k = Waiting + 1
      <3>1. SlotAt(Oldest, k - 1) = WriteSlot
        BY <1>0, <1>2, <2>1, SlotAtAhead
      <3>2. Queued'[k] = frame
        BY <1>1, <1>2, <1>3, <1>4, <2>1, <3>1
      <3>3. Append(Queued, frame)[k] = frame
        BY <1>1, <2>1, QueuedSlots DEF QueueForm
      <3> QED BY <3>2, <3>3
    <2>2. CASE k # Waiting + 1
      <3>1. k \in 1 .. Waiting
        BY <1>2, <2>2
      <3>2. Queued'[k] = Queued[k]
        BY <1>1, <1>2, <1>3, <1>4, <3>1, QueuedSlots DEF QueueForm
      <3>3. Append(Queued, frame)[k] = Queued[k]
        BY <1>1, <1>2, <3>1, QueuedSlots DEF QueueForm
      <3> QED BY <3>2, <3>3
    <2> QED BY <2>1, <2>2
  <1>7. Queued' = Append(Queued, frame)
    BY <1>3, <1>4, <1>5, <1>6, SeqEqual
  <1> QED BY <1>0, <1>2, <1>7, QueuedSlots DEF QueueForm

(* ... releasing one takes the first frame, ...                             *)
LEMMA ReleaseTakes ==
  FifoInv /\ FifoInv' /\ ConsumeRelease =>
    /\ Queued # <<>> /\ Head(Queued) = data[Oldest]
    /\ Queued' = Tail(Queued)
  <1> SUFFICES ASSUME FifoInv, FifoInv', ConsumeRelease
               PROVE  /\ Queued # <<>> /\ Head(Queued) = data[Oldest]
                      /\ Queued' = Tail(Queued)
    OBVIOUS
  <1>0. /\ Oldest \in Slot /\ WriteSlot \in Slot /\ Num \in Nat \ {0}
        /\ cb.valid \in [Slot -> BOOLEAN]
        /\ \A i \in Slot : cb.valid[i] <=> Ahead(Oldest, i) < Waiting
        /\ cb.valid[WriteSlot] => WriteSlot = Oldest
    BY Positions, NumAssumption DEF FifoInv, OrderInv, InStep, Contiguous
  <1>1. /\ cb.valid[Oldest] /\ Oldest' = Succ(Oldest) /\ WriteSlot' = WriteSlot
        /\ cb'.valid = [cb.valid EXCEPT ![Oldest] = FALSE]
        /\ data' = data
    BY ReleaseEffect DEF FifoInv, OrderInv, ConsumeRelease
  <1>2. Waiting \in 1 .. Num /\ Waiting' = Waiting - 1
    <2>1. Ahead(Oldest, WriteSlot) \in 0 .. Num - 1 /\ Ahead(Oldest, Oldest) = 0
      BY <1>0, AheadRange
    <2>2. Waiting \in 1 .. Num
      BY <1>0, <1>1, <2>1 DEF Waiting
    <2>3. Waiting' = Ahead(Succ(Oldest), WriteSlot)
      BY <1>0, <1>1 DEF Waiting
    <2>4. Ahead(Succ(Oldest), WriteSlot)
            = IF WriteSlot = Oldest THEN Num - 1 ELSE Ahead(Oldest, WriteSlot) - 1
      BY <1>0, AheadFromSucc
    <2> QED BY <1>0, <1>1, <2>1, <2>2, <2>3, <2>4 DEF Waiting
  <1>3. ASSUME NEW k \in 1 .. Waiting - 1
        PROVE  SlotAt(Succ(Oldest), k - 1) = SlotAt(Oldest, k)
    <2>1. SlotAt(Oldest, k) \in Slot /\ Ahead(Oldest, SlotAt(Oldest, k)) = k
      BY <1>0, <1>2, SlotAtAhead
    <2>2. SlotAt(Oldest, k) # Oldest
      BY <1>0, <2>1, AheadRange
    <2>3. Succ(Oldest) \in Slot /\ Ahead(Succ(Oldest), SlotAt(Oldest, k)) = k - 1
      BY <1>0, <2>1, <2>2, AheadFromSucc, SuccInSlot
    <2> QED BY <2>1, <2>3, SlotAtAhead
  <1>4. /\ Queued' \in Seq(Content) /\ Len(Queued') = Waiting'
        /\ \A k \in 1 .. Waiting' : Queued'[k] = data'[SlotAt(Oldest', k - 1)]
    <2>1. QueueForm'
      BY QueuedSlots, PTL
    <2> QED BY <2>1 DEF QueueForm
  <1>5. Queued # <<>> /\ Queued[1] = data[Oldest]
    <2>1. SlotAt(Oldest, 0) = Oldest
      BY <1>0, AheadRange, SlotAtAhead
    <2> QED BY <1>2, <2>1, QueuedSlots DEF QueueForm
  <1>6. /\ Head(Queued) = Queued[1]
        /\ Tail(Queued) \in Seq(Content) /\ Len(Tail(Queued)) = Waiting - 1
        /\ \A k \in 1 .. Waiting - 1 : Tail(Queued)[k] = Queued[k + 1]
    BY <1>5, QueuedSlots, HeadTailProperties DEF QueueForm
  <1>7. \A k \in 1 .. Waiting - 1 : Queued'[k] = Tail(Queued)[k]
    <2> SUFFICES ASSUME NEW k \in 1 .. Waiting - 1
                 PROVE  Queued'[k] = Tail(Queued)[k]
      OBVIOUS
    <2>1. Queued'[k] = data[SlotAt(Oldest, k)]
      BY <1>1, <1>2, <1>3, <1>4
    <2>2. k + 1 \in 1 .. Waiting /\ (k + 1) - 1 = k
      BY <1>2
    <2>3. Queued[k + 1] = data[SlotAt(Oldest, k)]
      BY <2>2, QueuedSlots DEF QueueForm
    <2> QED BY <1>6, <2>1, <2>3
  <1>8. Queued' = Tail(Queued)
    BY <1>2, <1>4, <1>6, <1>7, SeqEqual
  <1> QED BY <1>5, <1>6, <1>8

(* ... and a frame is refused when the queue is full.                       *)
LEMMA RefuseFull == FifoInv /\ ProduceRefuse => Len(Queued) = Num
  <1> SUFFICES ASSUME FifoInv, ProduceRefuse PROVE Len(Queued) = Num
    OBVIOUS
  <1>1. cb.valid[WriteSlot]
    BY DEF ProduceRefuse, Claimable, WriteSlot
  <1> QED BY <1>1, QueuedSlots DEF Waiting, QueueForm

LEMMA FifoStep ==
  FifoInv /\ FifoInv' /\ [Next]_vars => [Fifo!Next]_(Fifo!vars)
  <1> SUFFICES ASSUME FifoInv, FifoInv', [Next]_vars PROVE [Fifo!Next]_(Fifo!vars)
    OBVIOUS
  <1>0. IInv /\ out \in Seq(Content) /\ hand \in Content
    BY DEF FifoInv, OrderInv, IInv, TypeOK
  <1> USE DEF Fifo!vars
  <1>1. CASE ProduceClaim
    <2>1. \A i \in Slot : cb.valid[i] => data'[i] = data[i]
      BY <1>0, <1>1, ClaimEffect, Positions
    <2>2. Queued' = Queued
      BY <1>0, <1>1, <2>1, ClaimEffect, QueueUnmoved
    <2> QED BY <1>1, <2>2 DEF ProduceClaim, Released
  <1>2. CASE ProduceRefuse
    <2>1. Queued' = Queued
      BY <1>0, <1>2, QuietEffect, QueueUnmoved DEF ProduceRefuse
    <2> QED BY <1>2, <2>1, RefuseFull DEF ProduceRefuse, Released, Fifo!Next, Fifo!Refuse
  <1>3. CASE ProduceCopy
    <2>1. \A i \in Slot : cb.valid[i] => data'[i] = data[i]
      BY <1>0, <1>3, Positions DEF ProduceCopy, IInv, WriterKnows
    <2>2. Queued' = Queued
      BY <1>0, <1>3, <2>1, QuietEffect, QueueUnmoved
    <2> QED BY <1>3, <2>2 DEF ProduceCopy, Released
  <1>4. CASE ProducePublish
    BY <1>4, PublishOffers DEF ProducePublish, Released, Fifo!Next, Fifo!Offer
  <1>5. CASE ConsumeGet
    <2>1. Queued' = Queued
      BY <1>0, <1>5, GetEffect, QueueUnmoved DEF ConsumeGet
    <2> QED BY <1>5, <2>1 DEF ConsumeGet, Released
  <1>6. CASE ConsumeCopy
    <2>1. Queued' = Queued
      BY <1>0, <1>6, QuietEffect, QueueUnmoved DEF ConsumeCopy
    <2> QED BY <1>6, <2>1 DEF ConsumeCopy, Released
  <1>7. CASE ConsumeSend
    <2>1. Queued' = Queued
      BY <1>0, <1>7, QuietEffect, QueueUnmoved DEF ConsumeSend
    <2>2. SubSeq(out', 1, Len(out') - 1) = out
      BY <1>0, <1>7 DEF ConsumeSend
    <2> QED BY <1>7, <2>1, <2>2 DEF ConsumeSend, Released
  <1>8. CASE ConsumeRelease
    <2>1. out # <<>> /\ out[Len(out)] = data[Oldest]
      BY <1>8 DEF FifoInv, ConsumeRelease, Oldest
    <2>2. out = Append(SubSeq(out, 1, Len(out) - 1), out[Len(out)])
      BY <1>0, <2>1
    <2>3. Released' = Append(Released, Head(Queued))
      BY <1>8, <2>1, <2>2, ReleaseTakes DEF ConsumeRelease, Released
    <2> QED BY <1>8, <2>3, ReleaseTakes DEF ConsumeRelease, Fifo!Next, Fifo!Take
  <1>9. CASE UNCHANGED vars
    <2>1. Queued' = Queued
      BY <1>0, <1>9, QuietEffect, QueueUnmoved DEF vars
    <2> QED BY <1>9, <2>1 DEF vars, Released
  <1> QED
    BY <1>1, <1>2, <1>3, <1>4, <1>5, <1>6, <1>7, <1>8, <1>9
    DEF Next, Producer, Consumer

(* Unless AVProcess' first poll overtakes frame 0, the ring of AVCapture is  *)
(* a first-in first-out queue of Num frames: every accepted frame is        *)
(* appended, the oldest one is taken, and only a full queue refuses.        *)
THEOREM RingImplementsFifo == UnracedSpec => ImplementsFifo
  <1>1. Init => FifoInv
    <2> SUFFICES ASSUME Init PROVE FifoInv
      OBVIOUS
    <2>1. OrderInv
      BY InitOrderInv
    <2> QED BY <2>1 DEF Init, FifoInv
  <1>2. Init => Fifo!Init
    <2> SUFFICES ASSUME Init PROVE Fifo!Init
      OBVIOUS
    <2>1. FifoInv
      BY <1>1
    <2>2. Oldest = 0 /\ WriteSlot = 0 /\ 0 \in Slot /\ ~cb.valid[0]
      BY SuccCases, NumAssumption DEF Init, cyclic_buf_init, WriteSlot, Oldest, Slot
    <2>3. Waiting = 0
      BY <2>2, AheadRange DEF Waiting
    <2>4. Queued = <<>>
      BY <2>1, <2>3, QueuedSlots, EmptySeq DEF QueueForm
    <2> QED BY <2>4 DEF Init, Released, Fifo!Init
  <1>3. [Next /\ FirstPollSafe]_vars => [Next]_vars
    OBVIOUS
  <1> QED
    BY <1>1, <1>2, <1>3, FifoInvStep, FifoStep, PTL
    DEF UnracedSpec, ImplementsFifo, Fifo!Spec
=============================================================================
