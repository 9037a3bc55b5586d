------------------------- MODULE StreamControl_proofs -------------------------
(***************************************************************************)
(* Proofs about StreamControl for every number of slots: type correctness; *)
(* that starts and stops by themselves neither tear a frame nor send it    *)
(* twice; that only a valid slot passed over can bring the ring to a       *)
(* standstill; and how many frames of before a stop can be sent after it.  *)
(***************************************************************************)
EXTENDS StreamControl, FiniteSetTheorems, TLAPS

-----------------------------------------------------------------------------
(* What the operators of the ring return.                                  *)

(* Going round the ring stays in the ring. *)
LEMMA SuccInSlot == \A i \in Slot \cup {-1} : Succ(i) \in Slot
  BY NumAssumption DEF Slot, Succ

(* How far slot i is from slot o, going round. *)
Ahead(o, i) == (i - o) % Num

(* The two as case distinctions, in which the solvers reason better than     *)
(* about %.                                                                *)
LEMMA SuccCases ==
  /\ Succ(-1) = 0
  /\ \A i \in Slot : Succ(i) = IF i = Num - 1 THEN 0 ELSE i + 1
  BY NumAssumption DEF Slot, Succ

LEMMA AheadCases ==
  \A o, i \in Slot : Ahead(o, i) = IF i >= o THEN i - o ELSE i - o + Num
  BY NumAssumption DEF Slot, Ahead

(* Ahead numbers the slots from o on, ...                                    *)
LEMMA AheadRange ==
  \A o, i \in Slot : Ahead(o, i) \in 0 .. Num - 1 /\ (Ahead(o, i) = 0 <=> i = o)
  BY NumAssumption, AheadCases DEF Slot

LEMMA AheadInjective == \A o, i, j \in Slot : Ahead(o, i) = Ahead(o, j) => i = j
  BY NumAssumption, AheadCases DEF Slot

(* ... one more for the next slot, unless that is o again; ...               *)
LEMMA AheadOfSucc ==
  \A o, i \in Slot :
    IF Ahead(o, i) = Num - 1 THEN Succ(i) = o ELSE Ahead(o, Succ(i)) = Ahead(o, i) + 1
  <1> SUFFICES ASSUME NEW o \in Slot, NEW i \in Slot
               PROVE  IF Ahead(o, i) = Num - 1 THEN Succ(i) = o
                      ELSE Ahead(o, Succ(i)) = Ahead(o, i) + 1
    OBVIOUS
  <1>1. Succ(i) \in Slot /\ Succ(i) = IF i = Num - 1 THEN 0 ELSE i + 1
    BY SuccInSlot, SuccCases
  <1>2. Ahead(o, i) = IF i >= o THEN i - o ELSE i - o + Num
    BY AheadCases
  <1>3. Ahead(o, Succ(i)) = IF Succ(i) >= o THEN Succ(i) - o ELSE Succ(i) - o + Num
    BY <1>1, AheadCases
  <1> QED BY <1>1, <1>2, <1>3, NumAssumption DEF Slot

(* ... and one less when they are numbered from the slot after o.           *)
LEMMA AheadFromSucc ==
  \A o, i \in Slot : Ahead(Succ(o), i) = IF i = o THEN Num - 1 ELSE Ahead(o, i) - 1
  <1> SUFFICES ASSUME NEW o \in Slot, NEW i \in Slot
               PROVE  Ahead(Succ(o), i) = IF i = o THEN Num - 1 ELSE Ahead(o, i) - 1
    OBVIOUS
  <1>1. Succ(o) \in Slot /\ Succ(o) = IF o = Num - 1 THEN 0 ELSE o + 1
    BY SuccInSlot, SuccCases
  <1>2. Ahead(o, i) = IF i >= o THEN i - o ELSE i - o + Num
    BY AheadCases
  <1>3. Ahead(Succ(o), i) = IF i >= Succ(o) THEN i - Succ(o) ELSE i - Succ(o) + Num
    BY <1>1, AheadCases
  <1> QED BY <1>1, <1>2, <1>3, NumAssumption DEF Slot

(* Claiming, publishing, getting and consuming yield rings.                *)
LEMMA RingOps ==
  ASSUME NEW r \in Rings
  PROVE  /\ Claim(r) \in Rings
         /\ r.p_index \in Slot => Publish(r) \in Rings
         /\ Get(r) \in Rings
         /\ Consume(r) \in Rings
  <1>1. 0 \in Slot
    BY NumAssumption DEF Slot
  <1>2. Succ(r.p_index) \in Slot /\ Succ(r.c_index) \in Slot
    BY SuccInSlot DEF Rings
  <1>3. Claim(r) \in Rings
    BY <1>1, <1>2 DEF Claim, Rings
  <1>4. r.p_index \in Slot => Publish(r) \in Rings
    BY DEF Publish, Rings
  <1>5. Get(r) \in Rings
    BY <1>1, <1>2 DEF Get, Rings
  <1>6. Consume(r) \in Rings
    BY DEF Consume, Rings
  <1> QED BY <1>3, <1>4, <1>5, <1>6

(* Which fields each of them changes, and to what.                          *)
LEMMA ClaimFields ==
  ASSUME NEW r \in Rings
  PROVE  /\ Claim(r).c_index = r.c_index /\ Claim(r).valid = r.valid
         /\ Claim(r).p_index = IF r.p_index = -1 THEN 0 ELSE Succ(r.p_index)
         /\ Claim(r).p_index \in Slot
  <1>1. 0 \in Slot /\ Succ(r.p_index) \in Slot
    BY SuccInSlot, NumAssumption DEF Rings, Slot
  <1> QED BY <1>1 DEF Claim, Rings

LEMMA PublishFields ==
  ASSUME NEW r \in Rings
  PROVE  /\ Publish(r).c_index = r.c_index /\ Publish(r).p_index = r.p_index
         /\ Publish(r).valid = [r.valid EXCEPT ![r.p_index] = TRUE]
  BY DEF Publish, Rings

LEMMA GetFields ==
  ASSUME NEW r \in Rings
  PROVE  /\ Get(r).p_index = r.p_index /\ Get(r).valid = r.valid
         /\ Get(r).c_index = IF r.c_index = -1 THEN 0 ELSE Succ(r.c_index)
         /\ Get(r).c_index \in Slot
  <1>1. 0 \in Slot /\ Succ(r.c_index) \in Slot
    BY SuccInSlot, NumAssumption DEF Rings, Slot
  <1> QED BY <1>1 DEF Get, Rings

LEMMA ConsumeFields ==
  ASSUME NEW r \in Rings
  PROVE  /\ Consume(r).c_index = r.c_index /\ Consume(r).p_index = r.p_index
         /\ \A i \in Slot : Consume(r).valid[i] <=> r.valid[i] /\ i # r.c_index
  <1>1. -1 \notin Slot
    BY NumAssumption DEF Slot
  <1> QED BY <1>1 DEF Consume, Rings

-----------------------------------------------------------------------------
(* Neither the first poll nor a stop has come between the two threads.      *)
Clean == causes \cap {"early", "freed"} = {}

Writing == prod \in {"write", "publish"}

-----------------------------------------------------------------------------
(* These parts hold whatever has happened.                                  *)

(* The slot being written is not valid, and before the first claim none is. *)
WriterKnows ==
  /\ Writing => cb.p_index \in Slot /\ ~cb.valid[cb.p_index]
  /\ cb.p_index = -1 => \A i \in Slot : ~cb.valid[i]

(* The send thread works on a slot. *)
ReaderKnows == cons # "poll" => cb.c_index \in Slot

(* Only whole frames are published. *)
ValidIntact ==
  /\ ~cur.torn
  /\ prod = "publish" => ~data[cb.p_index].torn
  /\ \A i \in Slot : cb.valid[i] => ~data[i].torn

-----------------------------------------------------------------------------
(* These parts need that both hazards were avoided.                         *)

(* The slot to be copied is valid, so nobody is writing it. *)
HeldIsValid == cons \in {"test", "copy"} => cb.valid[cb.c_index]

(* A frame that was copied is valid only until the send thread releases it. *)
TakenIsHeld ==
  /\ ~cur.taken
  /\ prod = "publish" => ~data[cb.p_index].taken
  /\ \A i \in Slot : cb.valid[i] /\ data[i].taken =>
       cons \in {"send", "release"} /\ i = cb.c_index

HandIsFirst == cons = "send" => ~hand.torn /\ ~hand.taken

IInv ==
  /\ TypeOK
  /\ WriterKnows /\ ReaderKnows /\ ValidIntact
  /\ Clean => HeldIsValid /\ TakenIsHeld /\ HandIsFirst

-----------------------------------------------------------------------------
LEMMA InitIInv == Init => IInv
  <1> SUFFICES ASSUME Init PROVE IInv
    OBVIOUS
  <1>1. TypeOK
    <2>1. cb \in Rings
      BY DEF Init, cyclic_buf_init, Rings
    <2>2. Garbage \in Content /\ Fresh \in Content
      BY DEF Garbage, Fresh, Content
    <2>3. replayed \in 0 .. Num + 2
      BY NumAssumption DEF Init
    <2> QED BY <2>1, <2>2, <2>3 DEF Init, TypeOK
  <1>2. WriterKnows /\ ReaderKnows /\ HeldIsValid /\ HandIsFirst
    BY DEF Init, cyclic_buf_init, WriterKnows, Writing, ReaderKnows, HeldIsValid,
           HandIsFirst
  <1>3. ValidIntact /\ TakenIsHeld
    BY DEF Init, cyclic_buf_init, Fresh, ValidIntact, TakenIsHeld
  <1> QED BY <1>1, <1>2, <1>3 DEF IInv

(* Ageing a frame leaves the rest of it as it is. *)
LEMMA AgedContent ==
  ASSUME NEW c \in Content
  PROVE  Aged(c) \in Content /\ Aged(c).torn = c.torn /\ Aged(c).taken = c.taken
  BY DEF Aged, Content

LEMMA TypeStep == TypeOK /\ WriterKnows /\ ReaderKnows /\ [Next]_vars => TypeOK'
  <1> SUFFICES ASSUME TypeOK, WriterKnows, ReaderKnows, [Next]_vars PROVE TypeOK'
    OBVIOUS
  <1> USE DEF TypeOK
  <1>0. Garbage \in Content /\ Fresh \in Content
    BY DEF Garbage, Fresh, Content
  <1>1. CASE Capture
    BY <1>0, <1>1 DEF Capture, ring, consumer
  <1>2. CASE ProduceClaim
    BY <1>0, <1>2, RingOps DEF ProduceClaim, consumer
  <1>3. CASE ProduceRefuse
    BY <1>3 DEF ProduceRefuse, ring, consumer
  <1>4. CASE ProduceCopy
    BY <1>4 DEF ProduceCopy, consumer
  <1>5. CASE ProducePublish
    <2>1. cb' \in Rings
      BY <1>5, RingOps DEF ProducePublish, WriterKnows, Writing
    <2> QED BY <1>5, <2>1 DEF ProducePublish, consumer
  <1>6. CASE ConsumeGet
    BY <1>6, RingOps DEF ConsumeGet, producer, Causes
  <1>7. CASE ConsumeAccept
    BY <1>7 DEF ConsumeAccept, ring, producer
  <1>8. CASE ConsumeSkip
    BY <1>8 DEF ConsumeSkip, ring, producer, Causes
  <1>9. CASE ConsumeCopy
    <2>1. data[cb.c_index] \in Content
      BY <1>9 DEF ConsumeCopy, ReaderKnows
    <2>2. data' \in [Slot -> Content]
      BY <1>9, <2>1 DEF ConsumeCopy, Content
    <2> QED BY <1>9, <2>1, <2>2 DEF ConsumeCopy, producer
  <1>10. CASE ConsumeSend
    <2>1. replayed' \in 0 .. Num + 2
      BY <1>10, NumAssumption DEF ConsumeSend
    <2> QED BY <1>10, <2>1 DEF ConsumeSend, ring, producer
  <1>11. CASE ConsumeRelease
    BY <1>11, RingOps DEF ConsumeRelease, producer
  <1>12. CASE Start
    BY <1>12, NumAssumption DEF Start, ring, producer, consumer
  <1>13. CASE Stop
    BY <1>13, AgedContent DEF Stop
  <1>14. CASE StopConsume
    BY <1>14, RingOps DEF StopConsume, producer, consumer, Causes
  <1>15. CASE Request
    BY <1>15 DEF Request, ring, producer, consumer
  <1>16. CASE UNCHANGED vars
    BY <1>16 DEF vars, ring, producer, consumer
  <1> QED
    BY <1>1, <1>2, <1>3, <1>4, <1>5, <1>6, <1>7, <1>8, <1>9, <1>10, <1>11,
       <1>12, <1>13, <1>14, <1>15, <1>16
    DEF Next, Producer, Consumer

(* The hazards are remembered. *)
LEMMA CleanStep == [Next]_vars /\ Clean' => Clean
  BY DEF Next, Producer, Consumer, Clean, vars, Capture, ProduceClaim,
     ProduceRefuse, ProduceCopy, ProducePublish, ConsumeGet, ConsumeAccept,
     ConsumeSkip, ConsumeCopy, ConsumeSend, ConsumeRelease, Start, Stop,
     StopConsume, Request

(* A claimed slot is free.                                                  *)
LEMMA ClaimedIsFree ==
  TypeOK /\ WriterKnows /\ ProduceClaim =>
    /\ cb'.p_index \in Slot /\ cb'.c_index = cb.c_index /\ cb'.valid = cb.valid
    /\ ~cb.valid[cb'.p_index]
  <1> SUFFICES ASSUME TypeOK, WriterKnows, ProduceClaim
               PROVE  /\ cb'.p_index \in Slot /\ cb'.c_index = cb.c_index
                      /\ cb'.valid = cb.valid /\ ~cb.valid[cb'.p_index]
    OBVIOUS
  <1>1. /\ cb'.p_index \in Slot /\ cb'.c_index = cb.c_index /\ cb'.valid = cb.valid
        /\ cb'.p_index = IF cb.p_index = -1 THEN 0 ELSE Succ(cb.p_index)
    BY ClaimFields DEF TypeOK, ProduceClaim
  <1>2. CASE cb.p_index = -1
    BY <1>1, <1>2 DEF WriterKnows
  <1>3. CASE cb.p_index # -1
    BY <1>1, <1>3 DEF ProduceClaim, Claimable
  <1> QED BY <1>1, <1>2, <1>3

LEMMA KnowsStep == IInv /\ [Next]_vars => WriterKnows' /\ ReaderKnows' /\ ValidIntact'
  <1> SUFFICES ASSUME IInv, [Next]_vars
               PROVE  WriterKnows' /\ ReaderKnows' /\ ValidIntact'
    OBVIOUS
  <1> USE DEF IInv, TypeOK, WriterKnows, Writing, ReaderKnows, ValidIntact
  <1>0. -1 \notin Slot
    BY NumAssumption DEF Slot
  <1>1. CASE Capture
    BY <1>1 DEF Capture, ring, consumer, Fresh
  <1>2. CASE ProduceClaim
    BY <1>0, <1>2, ClaimedIsFree DEF ProduceClaim, consumer
  <1>3. CASE ProduceRefuse
    BY <1>3 DEF ProduceRefuse, ring, consumer
  <1>4. CASE ProduceCopy
    BY <1>4 DEF ProduceCopy, consumer
  <1>5. CASE ProducePublish
    <2>1. /\ cb'.c_index = cb.c_index /\ cb'.p_index = cb.p_index
          /\ cb'.valid = [cb.valid EXCEPT ![cb.p_index] = TRUE]
      BY <1>5, PublishFields DEF ProducePublish
    <2> QED BY <1>0, <1>5, <2>1 DEF ProducePublish, consumer, Rings
  <1>6. CASE ConsumeGet
    <2>1. cb'.p_index = cb.p_index /\ cb'.valid = cb.valid /\ cb'.c_index \in Slot
      BY <1>6, GetFields DEF ConsumeGet
    <2> QED BY <1>6, <2>1 DEF ConsumeGet, producer
  <1>7. CASE ConsumeAccept
    BY <1>7 DEF ConsumeAccept, ring, producer
  <1>8. CASE ConsumeSkip
    BY <1>8 DEF ConsumeSkip, ring, producer
  <1>9. CASE ConsumeCopy
    <2>1. \A i \in Slot : data'[i].torn = data[i].torn
      BY <1>9 DEF ConsumeCopy, Content
    <2> QED BY <1>9, <2>1 DEF ConsumeCopy, producer
  <1>10. CASE ConsumeSend
    BY <1>10 DEF ConsumeSend, ring, producer
  <1>11. CASE ConsumeRelease
    <2>1. /\ cb'.c_index = cb.c_index /\ cb'.p_index = cb.p_index
          /\ \A i \in Slot : cb'.valid[i] => cb.valid[i]
      BY <1>11, ConsumeFields DEF ConsumeRelease
    <2> QED BY <1>11, <2>1 DEF ConsumeRelease, producer
  <1>12. CASE Start
    BY <1>12 DEF Start, ring, producer, consumer
  <1>13. CASE Stop
    <2>1. ~cur'.torn /\ \A i \in Slot : data'[i].torn = data[i].torn
      BY <1>13, AgedContent DEF Stop
    <2> QED BY <1>13, <2>1 DEF Stop
  <1>14. CASE StopConsume
    <2>1. /\ cb'.c_index = cb.c_index /\ cb'.p_index = cb.p_index
          /\ \A i \in Slot : cb'.valid[i] => cb.valid[i]
      BY <1>14, ConsumeFields DEF StopConsume
    <2> QED BY <1>14, <2>1 DEF StopConsume, producer, consumer
  <1>15. CASE Request
    BY <1>15 DEF Request, ring, producer, consumer
  <1>16. CASE UNCHANGED vars
    BY <1>16 DEF vars, ring, producer, consumer
  <1> QED
    BY <1>1, <1>2, <1>3, <1>4, <1>5, <1>6, <1>7, <1>8, <1>9, <1>10, <1>11,
       <1>12, <1>13, <1>14, <1>15, <1>16
    DEF Next, Producer, Consumer

(* While neither hazard has happened, what is copied is valid, whole and    *)
(* has not been copied before.                                              *)
LEMMA HandStep ==
  IInv /\ [Next]_vars /\ Clean' => HeldIsValid' /\ TakenIsHeld' /\ HandIsFirst'
  <1> SUFFICES ASSUME IInv, [Next]_vars, Clean'
               PROVE  HeldIsValid' /\ TakenIsHeld' /\ HandIsFirst'
    OBVIOUS
  <1>c. HeldIsValid /\ TakenIsHeld /\ HandIsFirst
    BY CleanStep DEF IInv
  <1> USE <1>c DEF IInv, TypeOK, HeldIsValid, TakenIsHeld, HandIsFirst
  <1>1. CASE Capture
    BY <1>1 DEF Capture, ring, consumer, Fresh
  <1>2. CASE ProduceClaim
    BY <1>2, ClaimedIsFree DEF ProduceClaim, consumer
  <1>3. CASE ProduceRefuse
    BY <1>3 DEF ProduceRefuse, ring, consumer
  <1>4. CASE ProduceCopy
    BY <1>4 DEF ProduceCopy, consumer, WriterKnows, Writing
  <1>5. CASE ProducePublish
    <2>1. /\ cb'.c_index = cb.c_index /\ cb'.p_index = cb.p_index
          /\ cb'.valid = [cb.valid EXCEPT ![cb.p_index] = TRUE]
      BY <1>5, PublishFields DEF ProducePublish
    <2> QED BY <1>5, <2>1 DEF ProducePublish, consumer, Rings, ReaderKnows
  <1>6. CASE ConsumeGet
    <2>1. cb'.p_index = cb.p_index /\ cb'.valid = cb.valid /\ cb'.c_index \in Slot
      BY <1>6, GetFields DEF ConsumeGet
    <2>2. cb.valid[cb'.c_index]
      BY <1>6 DEF ConsumeGet, Clean
    <2> QED BY <1>6, <2>1, <2>2 DEF ConsumeGet, producer
  <1>7. CASE ConsumeAccept
    BY <1>7 DEF ConsumeAccept, ring, producer
  <1>8. CASE ConsumeSkip
    BY <1>8 DEF ConsumeSkip, ring, producer
  <1>9. CASE ConsumeCopy
    <2>1. cb.c_index \in Slot /\ cb.valid[cb.c_index]
      BY <1>9 DEF ConsumeCopy, ReaderKnows
    <2>2. ~data[cb.c_index].torn /\ ~data[cb.c_index].taken
      BY <1>9, <2>1 DEF ConsumeCopy, ValidIntact
    <2>3. \A i \in Slot \ {cb.c_index} : data'[i] = data[i]
      BY <1>9 DEF ConsumeCopy
    <2>4. prod = "publish" => cb.p_index \in Slot \ {cb.c_index}
      BY <2>1 DEF WriterKnows, Writing
    <2> QED BY <1>9, <2>1, <2>2, <2>3, <2>4 DEF ConsumeCopy, producer
  <1>10. CASE ConsumeSend
    BY <1>10 DEF ConsumeSend, ring, producer
  <1>11. CASE ConsumeRelease
    <2>1. /\ cb'.c_index = cb.c_index /\ cb'.p_index = cb.p_index
          /\ \A i \in Slot : cb'.valid[i] => cb.valid[i] /\ i # cb.c_index
      BY <1>11, ConsumeFields DEF ConsumeRelease
    <2> QED BY <1>11, <2>1 DEF ConsumeRelease, producer
  <1>12. CASE Start
    BY <1>12 DEF Start, ring, producer, consumer
  <1>13. CASE Stop
    <2>1. /\ ~cur'.taken /\ \A i \in Slot : data'[i].taken = data[i].taken
          /\ hand'.torn = hand.torn /\ hand'.taken = hand.taken
      BY <1>13, AgedContent DEF Stop
    <2> QED BY <1>13, <2>1 DEF Stop, WriterKnows, Writing
  <1>14. CASE StopConsume
    <2>1. /\ cb'.c_index = cb.c_index /\ cb'.p_index = cb.p_index
          /\ \A i \in Slot : cb'.valid[i] => cb.valid[i]
      BY <1>14, ConsumeFields DEF StopConsume
    <2>2. cons \notin {"test", "copy"}
      BY <1>14 DEF StopConsume, Clean
    <2> QED BY <1>14, <2>1, <2>2 DEF StopConsume, producer, consumer
  <1>15. CASE Request
    BY <1>15 DEF Request, ring, producer, consumer
  <1>16. CASE UNCHANGED vars
    BY <1>16 DEF vars, ring, producer, consumer
  <1> QED
    BY <1>1, <1>2, <1>3, <1>4, <1>5, <1>6, <1>7, <1>8, <1>9, <1>10, <1>11,
       <1>12, <1>13, <1>14, <1>15, <1>16
    DEF Next, Producer, Consumer

-----------------------------------------------------------------------------
LEMMA Invariance == Spec => []IInv
  <1>1. IInv /\ [Next]_vars => IInv'
    BY TypeStep, KnowsStep, HandStep DEF IInv
  <1> QED BY InitIInv, <1>1, PTL DEF Spec

(* Every variable keeps its type, however starts and stops fall: also the   *)
(* cyclic_buf_consume of disConnectAll leaves no index outside the ring.    *)
THEOREM TypeCorrect == Spec => []TypeOK
  <1>1. IInv => TypeOK
    BY DEF IInv
  <1> QED BY Invariance, <1>1, PTL

(* A frame that was being overwritten is copied only after the first poll   *)
(* of consume_get or a stop's cyclic_buf_consume came between the threads.  *)
THEOREM TearsHaveCause == Spec => []TornHasCause
  <1>1. IInv => TornHasCause
    BY DEF IInv, HandIsFirst, Clean, TornHasCause
  <1> QED BY Invariance, <1>1, PTL

(* The same two steps are the only ones that make AVProcess copy a frame    *)
(* again.                                                                   *)
THEOREM RepeatsHaveCause == Spec => []NoFrameTwice
  <1>1. IInv => NoFrameTwice
    BY DEF IInv, HandIsFirst, Clean, NoFrameTwice
  <1> QED BY Invariance, <1>1, PTL

-----------------------------------------------------------------------------
(* Standstill.  The slot the send thread holds or polls next, and the slot  *)
(* the capture thread is filling or claims next.                            *)
Oldest == IF cons = "poll" THEN Succ(cb.c_index) ELSE cb.c_index

WriteSlot == IF Writing THEN cb.p_index ELSE Succ(cb.p_index)

(* While no valid slot has been passed over: if any slot from the capture   *)
(* thread's on is valid, then so is every slot from the send thread's up to *)
(* the capture thread's, the one being sent possibly excepted.              *)
Filled ==
  "passed" \notin causes =>
    \A i, j \in Slot :
      /\ cb.valid[i] /\ Ahead(Oldest, i) >= Ahead(Oldest, WriteSlot)
      /\ Ahead(Oldest, j) < Ahead(Oldest, WriteSlot)
      /\ cons # "poll" => j # Oldest
      => cb.valid[j]

LEMMA Positions ==
  IInv => /\ Oldest \in Slot /\ WriteSlot \in Slot
          /\ cb.valid \in [Slot -> BOOLEAN]
          /\ cb.c_index \in Slot \cup {-1} /\ cb.p_index \in Slot \cup {-1}
  BY SuccInSlot DEF IInv, TypeOK, Rings, WriterKnows, ReaderKnows, Oldest, WriteSlot

(* No step forgets that a slot was passed over. *)
LEMMA CausesGrow == [Next]_vars => causes \subseteq causes'
  BY DEF Next, Producer, Consumer, vars, Capture, ProduceClaim,
     ProduceRefuse, ProduceCopy, ProducePublish, ConsumeGet, ConsumeAccept,
     ConsumeSkip, ConsumeCopy, ConsumeSend, ConsumeRelease, Start, Stop,
     StopConsume, Request

(* Steps that leave the ring alone move neither thread, unless the send     *)
(* thread goes on to the next slot.                                         *)
LEMMA RingUntouched ==
  IInv /\ (\/ Capture \/ ProduceRefuse \/ ProduceCopy \/ ConsumeAccept \/ ConsumeCopy
           \/ ConsumeSend \/ Start \/ Stop \/ Request \/ UNCHANGED vars) =>
    UNCHANGED <<Oldest, WriteSlot, cb>> /\ (cons' = "poll" <=> cons = "poll")
  BY DEF Oldest, WriteSlot, Writing, vars, ring, producer, consumer, Capture,
     ProduceRefuse, ProduceCopy, ConsumeAccept, ConsumeCopy, ConsumeSend, Start, Stop,
     Request

LEMMA ClaimEffect ==
  IInv /\ ProduceClaim => UNCHANGED <<Oldest, WriteSlot, cons>> /\ cb'.valid = cb.valid
  <1> SUFFICES ASSUME IInv, ProduceClaim
               PROVE  UNCHANGED <<Oldest, WriteSlot, cons>> /\ cb'.valid = cb.valid
    OBVIOUS
  <1>1. /\ cb'.c_index = cb.c_index /\ cb'.valid = cb.valid
        /\ cb'.p_index = IF cb.p_index = -1 THEN 0 ELSE Succ(cb.p_index)
    BY ClaimFields DEF IInv, TypeOK, ProduceClaim
  <1> QED BY <1>1, SuccCases DEF ProduceClaim, Oldest, WriteSlot, Writing, consumer

LEMMA PublishEffect ==
  IInv /\ ProducePublish =>
    /\ cb.p_index = WriteSlot /\ ~cb.valid[WriteSlot] /\ WriteSlot' = Succ(WriteSlot)
    /\ UNCHANGED <<Oldest, cons, cb.c_index>>
    /\ cb'.valid = [cb.valid EXCEPT ![WriteSlot] = TRUE]
  <1> SUFFICES ASSUME IInv, ProducePublish
               PROVE  /\ cb.p_index = WriteSlot /\ ~cb.valid[WriteSlot]
                      /\ WriteSlot' = Succ(WriteSlot)
                      /\ UNCHANGED <<Oldest, cons, cb.c_index>>
                      /\ cb'.valid = [cb.valid EXCEPT ![WriteSlot] = TRUE]
    OBVIOUS
  <1>1. /\ cb'.c_index = cb.c_index /\ cb'.p_index = cb.p_index
        /\ cb'.valid = [cb.valid EXCEPT ![cb.p_index] = TRUE]
    BY PublishFields DEF IInv, TypeOK, ProducePublish
  <1> QED
    BY <1>1
    DEF IInv, WriterKnows, ProducePublish, Oldest, WriteSlot, Writing, consumer

LEMMA GetEffect ==
  IInv /\ ConsumeGet =>
    UNCHANGED <<Oldest, WriteSlot>> /\ cb'.valid = cb.valid /\ cb'.c_index = Oldest
  <1> SUFFICES ASSUME IInv, ConsumeGet
               PROVE  /\ UNCHANGED <<Oldest, WriteSlot>> /\ cb'.valid = cb.valid
                      /\ cb'.c_index = Oldest
    OBVIOUS
  <1>1. /\ cb'.p_index = cb.p_index /\ cb'.valid = cb.valid
        /\ cb'.c_index = IF cb.c_index = -1 THEN 0 ELSE Succ(cb.c_index)
    BY GetFields DEF IInv, TypeOK, ConsumeGet
  <1>2. cb'.c_index = Oldest
    BY <1>1, SuccCases DEF ConsumeGet, Oldest
  <1> QED BY <1>1, <1>2 DEF ConsumeGet, Oldest, WriteSlot, Writing, producer

(* Going on to the next slot, after a release or past it.                   *)
LEMMA LeaveEffect ==
  IInv /\ (ConsumeRelease \/ ConsumeSkip) =>
    /\ cb.c_index = Oldest /\ Oldest' = Succ(Oldest) /\ WriteSlot' = WriteSlot
    /\ \A i \in Slot : cb'.valid[i] <=> cb.valid[i] /\ (i = Oldest => ConsumeSkip)
  <1> SUFFICES ASSUME IInv, ConsumeRelease \/ ConsumeSkip
               PROVE  /\ cb.c_index = Oldest /\ Oldest' = Succ(Oldest)
                      /\ WriteSlot' = WriteSlot
                      /\ \A i \in Slot :
                           cb'.valid[i] <=> cb.valid[i] /\ (i = Oldest => ConsumeSkip)
    OBVIOUS
  <1>1. cb.c_index = Oldest
    BY DEF ConsumeRelease, ConsumeSkip, Oldest
  <1>2. CASE ConsumeRelease
    <2>1. /\ cb'.c_index = cb.c_index /\ cb'.p_index = cb.p_index
          /\ \A i \in Slot : cb'.valid[i] <=> cb.valid[i] /\ i # cb.c_index
      BY <1>2, ConsumeFields DEF IInv, TypeOK, ConsumeRelease
    <2>2. ~ConsumeSkip
      BY <1>2 DEF ConsumeRelease, ConsumeSkip
    <2> QED
      BY <1>1, <1>2, <2>1, <2>2 DEF ConsumeRelease, Oldest, WriteSlot, Writing, producer
  <1>3. CASE ConsumeSkip
    BY <1>1, <1>3 DEF ConsumeSkip, Oldest, WriteSlot, Writing, producer, ring
  <1> QED BY <1>2, <1>3

LEMMA StopEffect ==
  IInv /\ StopConsume =>
    /\ UNCHANGED <<Oldest, WriteSlot, cons>>
    /\ \A i \in Slot : cb'.valid[i] <=> cb.valid[i] /\ i # cb.c_index
  <1> SUFFICES ASSUME IInv, StopConsume
               PROVE  /\ UNCHANGED <<Oldest, WriteSlot, cons>>
                      /\ \A i \in Slot : cb'.valid[i] <=> cb.valid[i] /\ i # cb.c_index
    OBVIOUS
  <1>1. /\ cb'.c_index = cb.c_index /\ cb'.p_index = cb.p_index
        /\ \A i \in Slot : cb'.valid[i] <=> cb.valid[i] /\ i # cb.c_index
    BY ConsumeFields DEF IInv, TypeOK, StopConsume
  <1> QED BY <1>1 DEF StopConsume, Oldest, WriteSlot, Writing, producer, consumer

LEMMA FilledStep == IInv /\ Filled /\ [Next]_vars => Filled'
  <1> SUFFICES ASSUME IInv, Filled, [Next]_vars, "passed" \notin causes',
                      NEW i \in Slot, NEW j \in Slot,
                      cb'.valid[i], Ahead(Oldest', i) >= Ahead(Oldest', WriteSlot'),
                      Ahead(Oldest', j) < Ahead(Oldest', WriteSlot'),
                      cons' # "poll" => j # Oldest'
               PROVE  cb'.valid[j]
    BY DEF Filled
  <1>0. /\ Oldest \in Slot /\ WriteSlot \in Slot /\ Num \in Nat \ {0}
        /\ cb.valid \in [Slot -> BOOLEAN]
        /\ cb.c_index \in Slot \cup {-1}
        /\ "passed" \notin causes
    BY Positions, CausesGrow, NumAssumption
  <1>f. /\ cb.valid[i] /\ Ahead(Oldest, i) >= Ahead(Oldest, WriteSlot)
        /\ Ahead(Oldest, j) < Ahead(Oldest, WriteSlot)
        /\ cons # "poll" => j # Oldest
        => cb.valid[j]
    BY <1>0 DEF Filled
  <1>a. \A k \in Slot : Ahead(Oldest, k) \in 0 .. Num - 1 /\ (Ahead(Oldest, k) = 0 <=> k = Oldest)
    BY <1>0, AheadRange
  <1>1. CASE \/ Capture \/ ProduceRefuse \/ ProduceCopy \/ ConsumeAccept \/ ConsumeCopy
             \/ ConsumeSend \/ Start \/ Stop \/ Request \/ UNCHANGED vars
    BY <1>1, <1>f, RingUntouched
  <1>2. CASE ProduceClaim
    BY <1>2, <1>f, ClaimEffect
  <1>3. CASE ProducePublish
    <2>1. /\ Oldest' = Oldest /\ cons' = cons /\ WriteSlot' = Succ(WriteSlot)
          /\ cb'.valid = [cb.valid EXCEPT ![WriteSlot] = TRUE]
      BY <1>3, PublishEffect
    <2>2. Ahead(Oldest, WriteSlot) # Num - 1
      BY <1>0, <1>a, <2>1, AheadOfSucc
    <2>3. Ahead(Oldest, Succ(WriteSlot)) = Ahead(Oldest, WriteSlot) + 1
      BY <1>0, <2>2, AheadOfSucc
    <2>4. CASE j = WriteSlot
      BY <1>0, <2>1, <2>4
    <2>5. CASE j # WriteSlot
      <3>1. Ahead(Oldest, j) < Ahead(Oldest, WriteSlot)
        BY <1>0, <1>a, <2>1, <2>3, <2>5, AheadInjective
      <3>2. i # WriteSlot /\ Ahead(Oldest, i) >= Ahead(Oldest, WriteSlot)
        BY <1>0, <1>a, <2>1, <2>3
      <3> QED BY <1>0, <1>f, <2>1, <2>5, <3>1, <3>2
    <2> QED BY <2>4, <2>5
  <1>4. CASE ConsumeGet
    BY <1>4, <1>f, GetEffect DEF ConsumeGet
  <1>5. CASE ConsumeRelease \/ ConsumeSkip
    <2>1. /\ cb.c_index = Oldest /\ Oldest' = Succ(Oldest) /\ WriteSlot' = WriteSlot
          /\ \A k \in Slot : cb'.valid[k] <=> cb.valid[k] /\ (k = Oldest => ConsumeSkip)
      BY <1>5, LeaveEffect
    <2>2. ~cb'.valid[Oldest]
      <3>1. ConsumeSkip => ~cb.valid[cb.c_index]
        BY DEF ConsumeSkip
      <3> QED BY <1>0, <2>1, <3>1
    <2>3. \A k \in Slot : Ahead(Oldest', k) = IF k = Oldest THEN Num - 1 ELSE Ahead(Oldest, k) - 1
      BY <1>0, <2>1, AheadFromSucc
    <2>4. i # Oldest
      BY <2>2
    <2>5. WriteSlot # Oldest
      BY <1>0, <1>a, <2>1, <2>3, <2>4
    <2>6. j # Oldest
      BY <1>0, <1>a, <2>1, <2>3, <2>5
    <2>7. /\ Ahead(Oldest, i) >= Ahead(Oldest, WriteSlot)
          /\ Ahead(Oldest, j) < Ahead(Oldest, WriteSlot)
      BY <1>0, <1>a, <2>1, <2>3, <2>4, <2>5, <2>6
    <2> QED BY <1>f, <2>1, <2>6, <2>7
  <1>6. CASE StopConsume
    <2>1. /\ UNCHANGED <<Oldest, WriteSlot, cons>>
          /\ \A k \in Slot : cb'.valid[k] <=> cb.valid[k] /\ k # cb.c_index
      BY <1>6, StopEffect
    <2>2. j # cb.c_index
      <3>1. CASE cons # "poll"
        BY <2>1, <3>1 DEF Oldest
      <3>2. CASE cons = "poll" /\ cb.c_index \in Slot
        <4>1. Ahead(Oldest, cb.c_index) = Num - 1
          BY <3>2, AheadFromSucc DEF Oldest
        <4> QED BY <1>0, <1>a, <2>1, <4>1
      <3> QED BY <1>0, <3>1, <3>2, NumAssumption DEF Slot
    <2> QED BY <1>f, <2>1, <2>2
  <1> QED
    BY <1>1, <1>2, <1>3, <1>4, <1>5, <1>6 DEF Next, Producer, Consumer

LEMMA FilledInvariance == Spec => [](IInv /\ Filled)
  <1>1. Init => Filled
    BY DEF Init, cyclic_buf_init, Filled
  <1>2. IInv /\ [Next]_vars => IInv'
    BY TypeStep, KnowsStep, HandStep DEF IInv
  <1> QED BY InitIInv, <1>1, <1>2, FilledStep, PTL DEF Spec

(* The two threads wait for each other only if AVProcess left a valid slot  *)
(* behind while the demonstration was off: neither the race of the first    *)
(* poll nor the cyclic_buf_consume of a stop can bring the ring there.      *)
THEOREM StandstillHasCause == Spec => []WedgeHasCause
  <1>1. IInv /\ Filled => WedgeHasCause
    <2> SUFFICES ASSUME IInv, Filled, Wedged, "passed" \notin causes
                 PROVE  FALSE
      BY DEF WedgeHasCause
    <2>0. Oldest \in Slot /\ WriteSlot \in Slot
      BY Positions
    <2>1. cb.valid[WriteSlot] /\ cb.p_index # -1 /\ cons = "poll"
      BY DEF Wedged, Claimable, WriteSlot, Writing
    <2>2. cb.c_index # -1 /\ ~cb.valid[Oldest]
      BY <2>1, NumAssumption, Positions DEF Wedged, Gettable, Oldest, Slot
    <2>3. Ahead(Oldest, Oldest) = 0 /\ Ahead(Oldest, WriteSlot) \in 1 .. Num - 1
      BY <2>0, <2>1, <2>2, AheadRange, NumAssumption
    <2>4. Ahead(Oldest, Oldest) < Ahead(Oldest, WriteSlot)
      BY <2>3, NumAssumption
    <2>5. Ahead(Oldest, WriteSlot) >= Ahead(Oldest, WriteSlot)
      BY <2>3, NumAssumption
    <2> QED BY <2>0, <2>1, <2>2, <2>4, <2>5 DEF Filled
  <1> QED BY FilledInvariance, <1>1, PTL

-----------------------------------------------------------------------------
(* Replay.  The frames captured before the latest stop that can still be    *)
(* sent: those waiting in a slot, the one the capture thread is bringing,   *)
(* and the one the send thread holds outside a valid slot.                  *)
OldSlots ==
  {i \in Slot : /\ cb.valid[i] /\ data[i].old
                /\ ~(i = cb.c_index /\ cons \in {"send", "release"})}

Coming == prod \in {"capture", "write", "publish"} /\ cur.old

Held == \/ cons = "send" /\ hand.old
        \/ cons \in {"test", "copy"} /\ ~cb.valid[cb.c_index]

One(b) == IF b THEN 1 ELSE 0

Remaining == Cardinality(OldSlots) + One(Coming) + One(Held)

(* While the demonstration is on they can only become fewer as they are     *)
(* sent.                                                                   *)
Budget == flag => Remaining <= Num + 1 - replayed

(* Until the first poll succeeds nothing has been sent, and if it wins its  *)
(* race nothing is waiting.                                                *)
FirstPoll ==
  cb.c_index = -1 =>
    /\ replayed = 0
    /\ cb.p_index # -1 /\ ~cb.valid[0] =>
         cb.p_index = 0 /\ Writing /\ \A i \in Slot : ~cb.valid[i]

(* A stop ages the frame on its way and its slot alike. *)
AgedAlike == prod = "publish" => data[cb.p_index].old = cur.old

(* The flag stays clear until disConnectAll has finished. *)
StopIsOff == ctl = "disconnect" => ~flag

ReplayInv ==
  IInv /\ StopIsOff /\ AgedAlike /\ FirstPoll /\ Budget /\ ReplayBounded

LEMMA OldSlotsFinite ==
  /\ IsFiniteSet(OldSlots) /\ Cardinality(OldSlots) \in 0 .. Num
  /\ \A i \in Slot \ OldSlots : Cardinality(OldSlots) <= Num - 1
  <1>1. IsFiniteSet(Slot) /\ Cardinality(Slot) = Num
    BY FS_Interval, NumAssumption DEF Slot
  <1>2. OldSlots \subseteq Slot
    BY DEF OldSlots
  <1>3. /\ IsFiniteSet(OldSlots) /\ Cardinality(OldSlots) <= Num
        /\ Cardinality(OldSlots) = Num => OldSlots = Slot
    <2>1. OldSlots \in SUBSET Slot
      BY <1>2
    <2> QED BY <1>1, <2>1, FS_Subset
  <1>4. Cardinality(OldSlots) \in Nat
    BY <1>3, FS_CardinalityType
  <1> QED BY <1>3, <1>4, NumAssumption

(* A slot less, or the same ones.                                          *)
LEMMA SetShrinks ==
  ASSUME NEW S, NEW T, IsFiniteSet(S), T \subseteq S
  PROVE  /\ IsFiniteSet(T) /\ Cardinality(T) \in Nat /\ Cardinality(S) \in Nat
         /\ Cardinality(T) <= Cardinality(S)
         /\ \A x \in S \ T : Cardinality(T) + 1 <= Cardinality(S)
  <1>1. /\ IsFiniteSet(T) /\ Cardinality(T) <= Cardinality(S)
        /\ Cardinality(S) = Cardinality(T) => S = T
    BY FS_Subset
  <1>2. Cardinality(T) \in Nat /\ Cardinality(S) \in Nat
    BY <1>1, FS_CardinalityType
  <1> QED BY <1>1, <1>2

(* A frame held outside a valid slot leaves room for one frame in the ring: *)
(* never more than one turn and one frame can be sent again.                *)
AtMostOneTurn == Remaining \in 0 .. Num + 1

LEMMA RemainingBounded == IInv => AtMostOneTurn
  <1> SUFFICES ASSUME IInv PROVE Remaining \in 0 .. Num + 1
    BY DEF AtMostOneTurn
  <1>1. Held => Cardinality(OldSlots) <= Num - 1
    <2> SUFFICES ASSUME Held PROVE Cardinality(OldSlots) <= Num - 1
      OBVIOUS
    <2>1. cb.c_index \in Slot /\ cb.c_index \notin OldSlots
      BY DEF Held, OldSlots, IInv, ReaderKnows
    <2> QED BY <2>1, OldSlotsFinite
  <1> QED BY <1>1, OldSlotsFinite, NumAssumption DEF Remaining, One

LEMMA StopIsOffStep == StopIsOff /\ [Next]_vars => StopIsOff'
  BY DEF StopIsOff, Next, Producer, Consumer, vars, ring, producer, consumer, Capture,
     ProduceClaim, ProduceRefuse, ProduceCopy, ProducePublish, ConsumeGet, ConsumeAccept,
     ConsumeSkip, ConsumeCopy, ConsumeSend, ConsumeRelease, Start, Stop, StopConsume,
     Request

LEMMA AgedAlikeStep == IInv /\ AgedAlike /\ [Next]_vars => AgedAlike'
  <1> SUFFICES ASSUME IInv, AgedAlike, [Next]_vars PROVE AgedAlike'
    OBVIOUS
  <1> USE DEF AgedAlike
  <1>0. /\ data \in [Slot -> Content] /\ cur \in Content
        /\ prod = "publish" => cb.p_index \in Slot
    BY DEF IInv, TypeOK, WriterKnows, Writing
  <1>1. CASE Capture \/ ProduceClaim \/ ProduceRefuse \/ ProducePublish
    BY <1>1 DEF Capture, ProduceClaim, ProduceRefuse, ProducePublish
  <1>2. CASE ProduceCopy
    <2>1. cb.p_index \in Slot
      BY <1>2 DEF IInv, WriterKnows, Writing, ProduceCopy
    <2> QED BY <1>0, <1>2, <2>1 DEF ProduceCopy
  <1>3. CASE ConsumeCopy
    <2>1. \A i \in Slot : data'[i].old = data[i].old
      BY <1>0, <1>3 DEF ConsumeCopy, Content
    <2> QED BY <1>0, <1>3, <2>1 DEF ConsumeCopy, producer
  <1>4. CASE Stop
    <2>1. cur'.old /\ \A i \in Slot : data'[i].old
      BY <1>0, <1>4 DEF Stop, Aged, Content
    <2> QED BY <1>0, <1>4, <2>1 DEF Stop
  <1>5. CASE ConsumeGet
    <2>1. cb'.p_index = cb.p_index
      BY <1>5, GetFields DEF ConsumeGet, IInv, TypeOK
    <2> QED BY <1>5, <2>1 DEF ConsumeGet, producer
  <1>6. CASE ConsumeRelease \/ StopConsume
    <2>1. cb'.p_index = cb.p_index
      BY <1>6, ConsumeFields DEF ConsumeRelease, StopConsume, IInv, TypeOK
    <2> QED BY <1>6, <2>1 DEF ConsumeRelease, StopConsume, producer
  <1>7. CASE ConsumeAccept \/ ConsumeSkip \/ ConsumeSend \/ Start \/ Request \/ UNCHANGED vars
    BY <1>7 DEF ConsumeAccept, ConsumeSkip, ConsumeSend, Start, Request, vars, ring, producer
  <1> QED
    BY <1>1, <1>2, <1>3, <1>4, <1>5, <1>6, <1>7 DEF Next, Producer, Consumer

(* The flags are never cleared before the first poll has succeeded.         *)
LEMMA FirstPollStep == IInv /\ FirstPoll /\ [Next]_vars => FirstPoll'
  <1> SUFFICES ASSUME IInv, FirstPoll, [Next]_vars, cb'.c_index = -1
               PROVE  /\ replayed' = 0
                      /\ cb'.p_index # -1 /\ ~cb'.valid[0] =>
                           cb'.p_index = 0 /\ Writing' /\ \A i \in Slot : ~cb'.valid[i]
    BY DEF FirstPoll
  <1>0. -1 \notin Slot /\ 0 \in Slot /\ cb \in Rings
    BY NumAssumption DEF Slot, IInv, TypeOK
  <1>1. ~ConsumeGet
    BY <1>0, GetFields DEF ConsumeGet
  <1>2. cb.c_index = -1
    <2>1. CASE ProduceClaim \/ ProducePublish
      BY <1>0, <2>1, ClaimFields, PublishFields DEF ProduceClaim, ProducePublish
    <2>2. CASE ConsumeRelease \/ StopConsume
      BY <1>0, <2>2, ConsumeFields DEF ConsumeRelease, StopConsume
    <2>3. CASE UNCHANGED cb
      BY <2>3
    <2> QED
      BY <1>1, <2>1, <2>2, <2>3
      DEF Next, Producer, Consumer, vars, ring, Capture, ProduceRefuse, ProduceCopy,
          ConsumeAccept, ConsumeSkip, ConsumeCopy, ConsumeSend, Start, Stop, Request
  <1>3. cons = "poll" /\ replayed = 0
    BY <1>0, <1>2 DEF IInv, ReaderKnows, FirstPoll
  <1>4. replayed' = 0
    BY <1>1, <1>3
    DEF Next, Producer, Consumer, vars, Capture, ProduceClaim, ProduceRefuse, ProduceCopy,
        ProducePublish, ConsumeAccept, ConsumeSkip, ConsumeCopy, ConsumeSend,
        ConsumeRelease, Start, Stop, StopConsume, Request
  <1>5. ASSUME cb'.p_index # -1, ~cb'.valid[0]
        PROVE  cb'.p_index = 0 /\ Writing' /\ \A i \in Slot : ~cb'.valid[i]
    <2> USE DEF FirstPoll, Writing
    <2>1. CASE ProduceClaim
      <3>1. /\ cb'.valid = cb.valid
            /\ cb'.p_index = IF cb.p_index = -1 THEN 0 ELSE Succ(cb.p_index)
        BY <1>0, <2>1, ClaimFields DEF ProduceClaim
      <3>2. cb.p_index = -1
        BY <1>2, <1>5, <2>1, <3>1 DEF ProduceClaim
      <3> QED BY <2>1, <3>1, <3>2 DEF ProduceClaim, IInv, WriterKnows
    <2>2. CASE ProducePublish
      <3>1. /\ cb'.p_index = cb.p_index /\ cb.p_index \in Slot
            /\ cb'.valid = [cb.valid EXCEPT ![cb.p_index] = TRUE]
        BY <1>0, <2>2, PublishFields DEF ProducePublish, IInv, WriterKnows
      <3>2. cb.p_index # 0 /\ ~cb.valid[0]
        BY <1>0, <1>5, <3>1 DEF Rings
      <3> QED BY <1>0, <1>2, <3>1, <3>2
    <2>3. CASE StopConsume
      <3>1. cb' = cb /\ prod' = prod
        BY <1>2, <2>3 DEF StopConsume, Consume, producer
      <3> QED BY <1>2, <1>5, <3>1
    <2>4. CASE \/ Capture \/ ProduceRefuse \/ ProduceCopy \/ Start \/ Stop \/ Request
               \/ UNCHANGED vars
      BY <1>2, <1>5, <2>4
      DEF vars, ring, producer, Capture, ProduceRefuse, ProduceCopy, Start, Stop, Request
    <2> QED
      BY <1>1, <1>3, <2>1, <2>2, <2>3, <2>4
      DEF Next, Producer, Consumer, ConsumeAccept, ConsumeSkip, ConsumeCopy, ConsumeSend,
          ConsumeRelease
  <1> QED BY <1>4, <1>5

(* Steps after which no more frames remain than before, ...                 *)
LEMMA RemainingShrinks ==
  ASSUME OldSlots' \subseteq OldSlots, Coming' => Coming, Held' => Held
  PROVE  Remaining' <= Remaining
  <1>1. /\ Cardinality(OldSlots') \in Nat /\ Cardinality(OldSlots) \in Nat
        /\ Cardinality(OldSlots') <= Cardinality(OldSlots)
    BY OldSlotsFinite, SetShrinks
  <1>2. One(Coming') \in 0 .. 1 /\ One(Coming') <= One(Coming)
    BY DEF One
  <1>3. One(Held') \in 0 .. 1 /\ One(Held') <= One(Held)
    BY DEF One
  <1> QED BY <1>1, <1>2, <1>3 DEF Remaining, One

LEMMA ProducerRemaining ==
  IInv /\ AgedAlike /\ Producer => Remaining' <= Remaining
  <1> SUFFICES ASSUME IInv, AgedAlike, Producer PROVE Remaining' <= Remaining
    OBVIOUS
  <1>0. /\ cb \in Rings /\ data \in [Slot -> Content]
        /\ cb.valid \in [Slot -> BOOLEAN]
        /\ cons \in {"test", "copy"} => cb.c_index \in Slot
    BY DEF IInv, TypeOK, Rings, ReaderKnows
  <1>1. CASE Capture
    <2>1. ~Coming'
      BY <1>1 DEF Coming, Capture, Fresh
    <2>2. OldSlots' = OldSlots /\ Held' = Held
      BY <1>1 DEF OldSlots, Held, Capture, ring, consumer
    <2> QED BY <2>1, <2>2, RemainingShrinks
  <1>2. CASE ProduceClaim
    <2>1. /\ cb'.p_index \in Slot /\ cb'.c_index = cb.c_index /\ cb'.valid = cb.valid
          /\ ~cb.valid[cb'.p_index]
      BY <1>2, ClaimedIsFree DEF IInv
    <2>2. \A i \in Slot : cb.valid[i] => data'[i] = data[i]
      BY <1>0, <1>2, <2>1 DEF ProduceClaim
    <2>3. OldSlots' = OldSlots
      BY <1>2, <2>1, <2>2 DEF OldSlots, ProduceClaim, consumer
    <2>4. (Coming' => Coming) /\ (Held' => Held)
      BY <1>2, <2>1 DEF Coming, Held, ProduceClaim, consumer
    <2> QED BY <2>3, <2>4, RemainingShrinks
  <1>3. CASE ProduceRefuse
    <2>1. ~Coming'
      BY <1>3 DEF Coming, ProduceRefuse
    <2>2. OldSlots' = OldSlots /\ Held' = Held
      BY <1>3 DEF OldSlots, Held, ProduceRefuse, ring, consumer
    <2> QED BY <2>1, <2>2, RemainingShrinks
  <1>4. CASE ProduceCopy
    <2>1. \A i \in Slot : cb.valid[i] => data'[i] = data[i]
      BY <1>0, <1>4 DEF ProduceCopy, IInv, WriterKnows, Writing
    <2>2. OldSlots' = OldSlots
      BY <1>4, <2>1 DEF OldSlots, ProduceCopy, consumer
    <2>3. (Coming' => Coming) /\ (Held' => Held)
      BY <1>4 DEF Coming, Held, ProduceCopy, consumer
    <2> QED BY <2>2, <2>3, RemainingShrinks
  <1>5. CASE ProducePublish
    <2> DEFINE p == cb.p_index
    <2>1. /\ cb'.c_index = cb.c_index /\ p \in Slot /\ data' = data
          /\ cb'.valid = [cb.valid EXCEPT ![p] = TRUE]
          /\ data[p].old = cur.old /\ UNCHANGED <<cons, hand>>
      BY <1>0, <1>5, PublishFields
      DEF ProducePublish, consumer, AgedAlike, IInv, WriterKnows, Writing
    <2>2. ~Coming' /\ (Coming <=> cur.old)
      BY <1>5 DEF Coming, ProducePublish
    <2>3. Held' => Held
      BY <1>0, <2>1 DEF Held
    <2>4. \A i \in Slot : cb'.valid[i] => cb.valid[i] \/ i = p
      BY <1>0, <2>1
    <2>5. OldSlots' \subseteq OldSlots \cup {p}
      BY <2>1, <2>4 DEF OldSlots
    <2>6. CASE ~cur.old
      <3>1. OldSlots' \subseteq OldSlots
        BY <2>1, <2>5, <2>6 DEF OldSlots
      <3> QED BY <2>2, <2>3, <3>1, RemainingShrinks
    <2>7. CASE cur.old
      <3>1. /\ IsFiniteSet(OldSlots \cup {p})
            /\ Cardinality(OldSlots \cup {p}) <= Cardinality(OldSlots) + 1
        BY OldSlotsFinite, FS_AddElement
      <3>2. /\ Cardinality(OldSlots') <= Cardinality(OldSlots \cup {p})
            /\ Cardinality(OldSlots') \in Nat
            /\ Cardinality(OldSlots \cup {p}) \in Nat
        BY <2>5, <3>1, SetShrinks
      <3>3. One(Coming) = 1 /\ One(Coming') = 0
        BY <2>2, <2>7 DEF One
      <3>4. One(Held') \in 0 .. 1 /\ One(Held) \in 0 .. 1 /\ One(Held') <= One(Held)
        BY <2>3 DEF One
      <3>5. Cardinality(OldSlots) \in Nat
        BY OldSlotsFinite
      <3> HIDE DEF p
      <3>6. Cardinality(OldSlots') <= Cardinality(OldSlots) + 1
        BY <3>1, <3>2, <3>5
      <3> QED BY <3>2, <3>3, <3>4, <3>5, <3>6 DEF Remaining
    <2> QED BY <2>6, <2>7
  <1> QED BY <1>1, <1>2, <1>3, <1>4, <1>5 DEF Producer

(* ... and what the send thread does to them: copying moves one from its    *)
(* slot to the hand, and sending it is paid for by the hand.                *)
LEMMA CopyRemaining == IInv /\ ConsumeCopy => Remaining' <= Remaining
  <1> SUFFICES ASSUME IInv, ConsumeCopy PROVE Remaining' <= Remaining
    OBVIOUS
  <1> DEFINE c == cb.c_index
  <1>0. /\ c \in Slot /\ data \in [Slot -> Content] /\ cb' = cb
        /\ cons = "copy" /\ cons' = "send" /\ hand' = data[c]
        /\ UNCHANGED <<prod, cur>>
    BY DEF IInv, TypeOK, ReaderKnows, ConsumeCopy, producer
  <1>1. \A i \in Slot : data'[i].old = data[i].old
    BY <1>0 DEF ConsumeCopy, Content
  <1>2. OldSlots' \subseteq OldSlots /\ c \notin OldSlots'
    BY <1>0, <1>1 DEF OldSlots
  <1>3. Coming' = Coming
    BY <1>0 DEF Coming
  <1>4. CASE c \in OldSlots
    <2>1. /\ Cardinality(OldSlots') \in Nat /\ Cardinality(OldSlots) \in Nat
          /\ Cardinality(OldSlots') + 1 <= Cardinality(OldSlots)
      BY <1>2, <1>4, OldSlotsFinite, SetShrinks
    <2>2. One(Held') \in 0 .. 1 /\ One(Held) \in 0 .. 1 /\ One(Coming') \in 0 .. 1
      BY DEF One
    <2>3. One(Coming') = One(Coming)
      BY <1>3
    <2> QED BY <2>1, <2>2, <2>3 DEF Remaining
  <1>5. CASE c \notin OldSlots
    <2>1. Held' => Held
      BY <1>0, <1>5 DEF Held, OldSlots
    <2> QED BY <1>2, <1>3, <2>1, RemainingShrinks
  <1> QED BY <1>4, <1>5

LEMMA SendRemaining ==
  IInv /\ ConsumeSend =>
    /\ Remaining' <= Remaining
    /\ hand.old => Remaining' < Remaining
  <1> SUFFICES ASSUME IInv, ConsumeSend
               PROVE  /\ Remaining' <= Remaining
                      /\ hand.old => Remaining' < Remaining
    OBVIOUS
  <1>1. OldSlots' = OldSlots /\ Coming' = Coming /\ ~Held' /\ (hand.old => Held)
    BY DEF OldSlots, Coming, Held, ConsumeSend, ring, producer
  <1>2. Cardinality(OldSlots) \in Nat /\ Cardinality(OldSlots') = Cardinality(OldSlots)
    BY <1>1, OldSlotsFinite
  <1>3. One(Coming) \in 0 .. 1 /\ One(Coming') = One(Coming)
    BY <1>1 DEF One
  <1>4. One(Held') = 0 /\ One(Held) \in 0 .. 1 /\ (hand.old => One(Held) = 1)
    BY <1>1 DEF One
  <1> QED BY <1>2, <1>3, <1>4 DEF Remaining

LEMMA OtherRemaining ==
  IInv /\ (ConsumeAccept \/ ConsumeRelease \/ Request \/ UNCHANGED vars) =>
    Remaining' <= Remaining
  <1> SUFFICES ASSUME IInv, ConsumeAccept \/ ConsumeRelease \/ Request \/ UNCHANGED vars
               PROVE  Remaining' <= Remaining
    OBVIOUS
  <1>1. CASE ConsumeAccept \/ Request \/ UNCHANGED vars
    <2>1. OldSlots' = OldSlots /\ Coming' = Coming /\ Held' = Held
      BY <1>1
      DEF OldSlots, Coming, Held, ConsumeAccept, Request, vars, ring, producer, consumer
    <2> QED BY <2>1, RemainingShrinks
  <1>2. CASE ConsumeRelease
    <2>1. /\ cb'.c_index = cb.c_index
          /\ \A i \in Slot : cb'.valid[i] <=> cb.valid[i] /\ i # cb.c_index
      BY <1>2, ConsumeFields DEF IInv, TypeOK, ConsumeRelease
    <2>2. OldSlots' \subseteq OldSlots /\ Coming' = Coming /\ ~Held'
      BY <1>2, <2>1 DEF OldSlots, Coming, Held, ConsumeRelease, producer
    <2> QED BY <2>2, RemainingShrinks
  <1> QED BY <1>1, <1>2

LEMMA GetBudget ==
  ReplayInv /\ ConsumeGet /\ flag => Remaining' <= Num + 1 - replayed
  <1> SUFFICES ASSUME ReplayInv, ConsumeGet, flag
               PROVE  Remaining' <= Num + 1 - replayed
    OBVIOUS
  <1>i. IInv /\ FirstPoll /\ Remaining <= Num + 1 - replayed /\ replayed \in Nat
    BY DEF ReplayInv, Budget, IInv, TypeOK
  <1>1. cb'.valid = cb.valid /\ cb'.c_index = Oldest /\ Oldest \in Slot
    BY <1>i, GetEffect, Positions
  <1>2. Coming' = Coming /\ cons = "poll" /\ cons' = "test" /\ data' = data
    BY DEF Coming, ConsumeGet, producer
  <1>3. OldSlots' = OldSlots
    BY <1>1, <1>2 DEF OldSlots
  <1>0. Remaining \in Nat /\ Remaining' \in Nat
    <2>1. One(Coming') \in 0 .. 1 /\ One(Held') \in 0 .. 1
      BY DEF One
    <2>2. Cardinality(OldSlots') \in Nat
      BY <1>3, OldSlotsFinite
    <2>3. Remaining' \in Nat
      BY <2>1, <2>2 DEF Remaining
    <2> QED BY <1>i, <2>3, RemainingBounded, NumAssumption DEF AtMostOneTurn
  <1>4. CASE cb.valid[Oldest]
    <2>1. ~Held'
      BY <1>1, <1>2, <1>4 DEF Held
    <2>2. Remaining' <= Remaining
      BY <1>2, <1>3, <2>1, RemainingShrinks
    <2> QED BY <1>0, <1>i, <2>2, NumAssumption
  <1>5. CASE ~cb.valid[Oldest]
    <2>1. cb.c_index = -1 /\ cb.p_index # -1
      BY <1>2, <1>5, SuccCases DEF ConsumeGet, Gettable, Oldest
    <2>2. Oldest = 0
      BY <1>2, <2>1, SuccCases DEF Oldest
    <2>3. replayed = 0 /\ \A i \in Slot : ~cb.valid[i]
      BY <1>i, <1>5, <2>1, <2>2 DEF FirstPoll
    <2>4. Cardinality(OldSlots') = 0
      <3>1. OldSlots' = {}
        BY <1>3, <2>3 DEF OldSlots
      <3> QED BY <3>1, FS_EmptySet
    <2>5. One(Coming') \in 0 .. 1 /\ One(Held') \in 0 .. 1
      BY DEF One
    <2> QED BY <2>3, <2>4, <2>5, NumAssumption DEF Remaining
  <1> QED BY <1>4, <1>5

LEMMA ReplayStep == ReplayInv /\ [Next]_vars => ReplayInv'
  <1> SUFFICES ASSUME ReplayInv, [Next]_vars PROVE ReplayInv'
    OBVIOUS
  <1>1. IInv' /\ StopIsOff' /\ AgedAlike' /\ FirstPoll'
    BY TypeStep, KnowsStep, HandStep, StopIsOffStep, AgedAlikeStep, FirstPollStep
    DEF ReplayInv, IInv
  <1>2. /\ IInv /\ AgedAlike /\ StopIsOff /\ replayed \in Nat
        /\ Remaining \in 0 .. Num + 1 /\ Remaining' \in 0 .. Num + 1
    <2>1. AtMostOneTurn'
      BY <1>1, RemainingBounded, PTL
    <2> QED BY <2>1, RemainingBounded DEF AtMostOneTurn, ReplayInv, IInv, TypeOK
  <1>3. flag => Remaining <= Num + 1 - replayed
    BY DEF ReplayInv, Budget
  <1>4. replayed <= Num + 1
    BY DEF ReplayInv, ReplayBounded
  <1> USE NumAssumption DEF Budget, ReplayBounded
  <1>5. Budget' /\ ReplayBounded'
    <2>1. CASE Producer
      <3>1. Remaining' <= Remaining
        BY <1>2, <2>1, ProducerRemaining
      <3>2. UNCHANGED <<flag, replayed>>
        BY <2>1 DEF Producer, Capture, ProduceClaim, ProduceRefuse, ProduceCopy,
           ProducePublish
      <3> QED BY <1>2, <1>3, <1>4, <3>1, <3>2
    <2>2. CASE ConsumeGet
      <3>1. UNCHANGED <<flag, replayed>>
        BY <2>2 DEF ConsumeGet
      <3> QED BY <1>4, <2>2, <3>1, GetBudget
    <2>3. CASE ConsumeSkip
      BY <1>4, <2>3 DEF ConsumeSkip
    <2>4. CASE ConsumeCopy \/ ConsumeAccept \/ ConsumeRelease \/ Request \/ UNCHANGED vars
      <3>1. Remaining' <= Remaining
        BY <1>2, <2>4, CopyRemaining, OtherRemaining
      <3>2. UNCHANGED <<flag, replayed>>
        BY <2>4 DEF ConsumeCopy, ConsumeAccept, ConsumeRelease, Request, vars
      <3> QED BY <1>2, <1>3, <1>4, <3>1, <3>2
    <2>5. CASE ConsumeSend
      <3>1. Remaining' <= Remaining /\ (hand.old => Remaining' < Remaining)
        BY <1>2, <2>5, SendRemaining
      <3>2. /\ flag' = flag
            /\ \/ replayed' = replayed
               \/ flag /\ hand.old /\ replayed' = replayed + 1
        BY <2>5 DEF ConsumeSend
      <3> QED BY <1>2, <1>3, <1>4, <3>1, <3>2
    <2>6. CASE Start
      <3>1. /\ flag' = TRUE /\ replayed' = IF flag THEN replayed ELSE 0
        BY <2>6 DEF Start
      <3>2. OldSlots' = OldSlots /\ Coming' = Coming /\ Held' = Held
        BY <2>6 DEF OldSlots, Coming, Held, Start, ring, producer, consumer
      <3>3. Remaining' <= Remaining
        BY <3>2, RemainingShrinks
      <3> QED BY <1>2, <1>3, <1>4, <3>1, <3>3
    <2>7. CASE Stop \/ StopConsume
      <3>1. ~flag' /\ replayed' = replayed
        BY <1>2, <2>7 DEF Stop, StopConsume, StopIsOff
      <3> QED BY <1>4, <3>1
    <2> QED
      BY <2>1, <2>2, <2>3, <2>4, <2>5, <2>6, <2>7 DEF Next, Consumer
  <1> QED BY <1>1, <1>5 DEF ReplayInv

(* After a restart at most one turn of the ring and the frame in the send   *)
(* thread's hand are older than the stop.                                   *)
THEOREM ReplayIsBounded == Spec => []ReplayBounded
  <1>1. Init => ReplayInv
    <2> SUFFICES ASSUME Init PROVE ReplayInv
      OBVIOUS
    <2>1. IInv
      BY InitIInv
    <2>2. StopIsOff /\ AgedAlike /\ ReplayBounded /\ replayed = 0
      BY NumAssumption DEF Init, StopIsOff, AgedAlike, ReplayBounded
    <2>3. FirstPoll
      BY DEF Init, cyclic_buf_init, FirstPoll
    <2>4. Budget
      BY <2>1, <2>2, RemainingBounded, NumAssumption DEF Budget, AtMostOneTurn
    <2> QED BY <2>1, <2>2, <2>3, <2>4 DEF ReplayInv
  <1>2. ReplayInv => ReplayBounded
    BY DEF ReplayInv
  <1> QED BY <1>1, <1>2, ReplayStep, PTL DEF Spec
=============================================================================
