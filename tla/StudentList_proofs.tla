------------------------- MODULE StudentList_proofs -------------------------
(***************************************************************************)
(* Proofs about the list of students for every set of students and every   *)
(* length of the service's list: DataThread stays within the answer it     *)
(* reads, and no seat is read from two rows; and as long as the service's  *)
(* list only grows at its end, a click finds the student it hits, or it    *)
(* has a cause to find nobody.  Students, rows and clicks are then tied by *)
(* the place a student has among those the list names.                     *)
(***************************************************************************)
EXTENDS StudentList, FiniteSetTheorems, TLAPS

Rows == BoundedSeq(Student \cup {Blank}, MaxLen)

Datas ==
  [pc : {"out", "parse", "deal", "ended"}, page : Page, k : 1 .. MaxLen + 1]

Guis ==
  [pc : {"idle", "mode", "ask", "at", "lost"}, row : 0 .. MaxLen,
   shown : Student \cup {Blank}, raced : BOOLEAN]

(* g_stu2List grows by one student per record at the most. *)
ListBehind == data.pc = "parse" => Len(list) < data.k

(* A click is on a row. *)
ClickOnRow == gui.pc = "at" => gui.row >= 1

IInv == TypeOK /\ ListBehind /\ ClickOnRow /\ OneRowPerSeat

-----------------------------------------------------------------------------
(* What a member of Lists or of Rows is. *)
LEMMA Bounded ==
  ASSUME NEW S, NEW s
  PROVE  s \in BoundedSeq(S, MaxLen) <=>
           s \in Seq(S) /\ Len(s) \in 0 .. MaxLen
  <1>1. s \in BoundedSeq(S, MaxLen) <=> \E m \in 0 .. MaxLen : s \in [1 .. m -> S]
    BY DEF BoundedSeq, SeqOf
  <1>2. ASSUME NEW m \in 0 .. MaxLen, s \in [1 .. m -> S]
        PROVE  s \in Seq(S) /\ Len(s) \in 0 .. MaxLen
    <2>1. m \in Nat
      BY MaxLenAssumption
    <2>2. s \in Seq(S) /\ Len(s) = m
      BY <1>2, <2>1
    <2> QED BY <2>2
  <1>3. ASSUME s \in Seq(S), Len(s) \in 0 .. MaxLen
        PROVE  \E m \in 0 .. MaxLen : s \in [1 .. m -> S]
    BY <1>3
  <1> QED BY <1>1, <1>2, <1>3

LEMMA EmptyBounded == <<>> \in Lists /\ <<>> \in Rows
  <1>1. ASSUME NEW S PROVE <<>> \in BoundedSeq(S, MaxLen)
    <2>1. <<>> \in Seq(S) /\ Len(<<>>) \in 0 .. MaxLen
      BY MaxLenAssumption
    <2> QED BY <2>1, Bounded
  <1> QED BY <1>1 DEF Lists, Rows

LEMMA InitIInv == Init => IInv
  <1> SUFFICES ASSUME Init PROVE IInv
    OBVIOUS
  <1>1. <<>> \in Lists /\ <<>> \in Rows
    BY EmptyBounded
  <1>2. TypeOK
    <2>1. data \in Datas
      BY MaxLenAssumption DEF Init, Page, Datas
    <2>2. gui \in Guis
      BY MaxLenAssumption DEF Init, Idle, Guis
    <2>4. /\ present \in Lists /\ asked \in Page \cup {"none"}
          /\ poll \in Page \cup {"none", "out", "ended"}
          /\ mode \in Page /\ view \in Page
      BY DEF Init, Page
    <2>5. xml \in [of : Page, list : Lists] \cup {NoAnswer}
      BY DEF Init
    <2>6. changed \in BOOLEAN /\ late \in BOOLEAN
      BY DEF Init
    <2>8. quit \in 0 .. 3
      BY DEF Init
    <2>7. list \in Lists /\ rows \in Rows
      BY <1>1 DEF Init
    <2> QED BY <2>1, <2>2, <2>4, <2>5, <2>6, <2>7, <2>8
            DEF TypeOK, Rows, Datas, Guis
  <1>3. ListBehind /\ ClickOnRow /\ OneRowPerSeat
    BY DEF Init, Idle, ListBehind, ClickOnRow, OneRowPerSeat
  <1> QED BY <1>2, <1>3 DEF IInv

-----------------------------------------------------------------------------
(* The records DataThread reads. *)
LEMMA RecordsIs == TypeOK => Records \in Seq(Student) /\ Len(Records) \in 0 .. MaxLen
  <1> SUFFICES ASSUME TypeOK PROVE Records \in Lists
    BY Bounded DEF Lists
  <1>1. <<>> \in Lists
    BY EmptyBounded
  <1>2. xml.list \in Lists
    BY <1>1 DEF TypeOK, NoAnswer
  <1> QED BY <1>1, <1>2 DEF Records

(* A student put into row i of the rows. *)
LEMMA WithRowIs ==
  ASSUME rows \in Rows, NEW i \in 1 .. MaxLen, NEW s \in Student,
         NEW r, r = WithRow(i, s)
  PROVE  /\ r \in Rows
         /\ i \in DOMAIN r /\ r[i] = s
         /\ \A j \in DOMAIN r \ {i} :
              r[j] = Blank \/ (j \in DOMAIN rows /\ r[j] = rows[j])
  <1> DEFINE n == IF i > Len(rows) THEN i ELSE Len(rows)
  <1>1. rows \in Seq(Student \cup {Blank}) /\ Len(rows) \in 0 .. MaxLen
    BY Bounded DEF Rows
  <1>2. n \in 0 .. MaxLen /\ n \in Nat /\ i \in 1 .. n
    BY <1>1, MaxLenAssumption
  <1>3. r = [j \in 1 .. n |->
               IF j = i THEN s ELSE IF j <= Len(rows) THEN rows[j] ELSE Blank]
    BY DEF WithRow
  <1> HIDE DEF n
  <1>4. r \in [1 .. n -> Student \cup {Blank}]
    BY <1>1, <1>3
  <1>5. r \in Rows
    BY <1>2, <1>4 DEF Rows, BoundedSeq, SeqOf
  <1>6. \A j \in DOMAIN r \ {i} :
          r[j] = Blank \/ (j \in DOMAIN rows /\ r[j] = rows[j])
    BY <1>1, <1>3
  <1> QED BY <1>2, <1>3, <1>5, <1>6

(* USER_MSG_DEALSTULIST, with its search for the student's seat. *)
LEMMA DealRowKeeps ==
  ASSUME IInv, DealRow
  PROVE  rows' \in Rows /\ OneRowPerSeat'
  <1> DEFINE s == list[data.k]
  <1>1. rows \in Rows /\ data.k \in 1 .. MaxLen + 1 /\ list \in Lists
    BY DEF IInv, TypeOK, Rows
  <1>2. data.k \in 1 .. MaxLen /\ s \in Student
    BY <1>1, Bounded, MaxLenAssumption DEF DealRow, Lists
  <1>3. CASE SeatIsRead(s)
    <2>1. rows' = rows
      BY <1>3 DEF DealRow
    <2> QED BY <1>1, <2>1 DEF IInv, OneRowPerSeat
  <1>4. CASE ~SeatIsRead(s)
    <2>1. rows' = WithRow(data.k, s)
      BY <1>4 DEF DealRow
    <2> HIDE DEF s
    <2>2. /\ rows' \in Rows
          /\ data.k \in DOMAIN rows' /\ rows'[data.k] = s
          /\ \A j \in DOMAIN rows' \ {data.k} :
               rows'[j] = Blank \/ (j \in DOMAIN rows /\ rows'[j] = rows[j])
      BY <1>1, <1>2, <2>1, WithRowIs
    <2>3. ASSUME NEW j \in DOMAIN rows' \ {data.k}, rows'[j] \in Student \ Misread
          PROVE  j \in DOMAIN rows /\ rows'[j] = rows[j] /\ Seat[rows'[j]] # Seat[s]
      <3>1. j \in DOMAIN rows /\ rows'[j] = rows[j]
        BY <2>2, <2>3, StudentAssumption
      <3> QED BY <1>4, <2>3, <3>1 DEF SeatIsRead
    <2>4. ASSUME NEW i \in DOMAIN rows', NEW j \in DOMAIN rows',
                 rows'[i] \in Student \ Misread, rows'[j] \in Student \ Misread,
                 Seat[rows'[i]] = Seat[rows'[j]]
          PROVE  i = j
      <3>1. CASE i = data.k \/ j = data.k
        BY <2>2, <2>3, <2>4, <3>1
      <3>2. CASE i # data.k /\ j # data.k
        BY <2>3, <2>4, <3>2 DEF IInv, OneRowPerSeat
      <3> QED BY <3>1, <3>2
    <2>5. OneRowPerSeat'
      BY <2>4 DEF OneRowPerSeat
    <2> QED BY <2>2, <2>5
  <1> QED BY <1>3, <1>4

-----------------------------------------------------------------------------
LEMMA DataStep == IInv /\ Data => IInv'
  <1> SUFFICES ASSUME IInv, Data PROVE IInv'
    OBVIOUS
  <1> USE DEF Datas, Guis
  <1>0. /\ data \in Datas
        /\ MaxLen \in Nat /\ list \in Lists
        /\ list \in Seq(Student) /\ Len(list) \in 0 .. MaxLen
    BY Bounded, MaxLenAssumption DEF IInv, TypeOK, Lists
  <1>1. CASE DataBegin
    <2>1. gui' = [gui EXCEPT !.raced = (gui.pc = "at")]
      BY <1>1 DEF DataBegin
    <2>2. gui' \in Guis
      <3>1. (gui.pc = "at") \in BOOLEAN
        OBVIOUS
      <3> QED BY <2>1, <3>1 DEF IInv, TypeOK
    <2>3. late' \in BOOLEAN
      BY <1>1 DEF DataBegin
    <2>4. /\ data' = [pc |-> "parse", page |-> mode, k |-> 1] /\ list' = <<>>
          /\ UNCHANGED <<service, asked, poll, xml, rows, mode, view, quit>>
      BY <1>1 DEF DataBegin
    <2>5. data' \in Datas
      BY <1>0, <2>4 DEF IInv, TypeOK
    <2>6. TypeOK'
      BY <2>2, <2>3, <2>4, <2>5, EmptyBounded DEF IInv, TypeOK, service
    <2>7. ListBehind' /\ OneRowPerSeat'
      BY <2>4 DEF IInv, ListBehind, OneRowPerSeat
    <2>8. gui'.pc = gui.pc /\ gui'.row = gui.row
      BY <2>1 DEF IInv, TypeOK
    <2>9. ClickOnRow'
      BY <2>8 DEF IInv, ClickOnRow
    <2> QED BY <2>6, <2>7, <2>9 DEF IInv
  <1>2. CASE ParseOne
    <2> DEFINE s == Records[data.k]
    <2>1. /\ data.pc = "parse" /\ data.k <= Len(Records)
          /\ list' = IF s \in Range(list) THEN list ELSE Append(list, s)
          /\ data' = [data EXCEPT !.k = data.k + 1]
          /\ UNCHANGED <<service, asked, poll, xml, rows, window, exit>>
      BY <1>2 DEF ParseOne
    <2>2. s \in Student /\ data.k < MaxLen + 1 /\ Len(list) < data.k
      BY <1>0, <2>1, RecordsIs DEF IInv, ListBehind
    <2> HIDE DEF s
    <2>3. list' \in Seq(Student) /\ Len(list') \in 0 .. MaxLen /\ Len(list') <= Len(list) + 1
      BY <1>0, <2>1, <2>2
    <2>4. list' \in Lists
      BY <2>3, Bounded DEF Lists
    <2>5. /\ data' \in Datas
          /\ data'.k = data.k + 1
      BY <1>0, <2>1, <2>2
    <2>6. TypeOK'
      BY <2>1, <2>4, <2>5 DEF IInv, TypeOK, service, window, exit
    <2>7. ListBehind' /\ OneRowPerSeat'
      BY <1>0, <2>1, <2>2, <2>3, <2>5 DEF IInv, ListBehind, OneRowPerSeat
    <2> QED BY <2>1, <2>6, <2>7 DEF IInv, ClickOnRow, window
  <1>3. CASE ParseEnd \/ DataEnd \/ DataThreadEnd
    <2>1. /\ \/ data' = [data EXCEPT !.pc = "deal", !.k = 1]
             \/ data' = [data EXCEPT !.pc = "out", !.k = 1]
             \/ data' = [data EXCEPT !.pc = "ended"]
          /\ xml' \in {xml, NoAnswer}
          /\ UNCHANGED <<service, asked, poll, model, window, exit>>
      BY <1>3 DEF ParseEnd, DataEnd, DataThreadEnd
    <2>2. /\ data' \in Datas
          /\ data'.pc # "parse"
      <3>1. 1 \in 1 .. MaxLen + 1
        BY <1>0
      <3>2. data'.pc \in {"deal", "out", "ended"}
        BY <1>0, <2>1
      <3> QED BY <1>0, <2>1, <3>1, <3>2
    <2>3. TypeOK'
      BY <2>1, <2>2 DEF IInv, TypeOK, service, model, window, exit
    <2>4. ListBehind' /\ OneRowPerSeat'
      BY <2>1, <2>2 DEF IInv, ListBehind, OneRowPerSeat, model
    <2> QED BY <2>1, <2>3, <2>4 DEF IInv, ClickOnRow, window
  <1>4. CASE DealRow
    <2>1. /\ data.pc = "deal" /\ data.k <= Len(list)
          /\ data' = [data EXCEPT !.k = data.k + 1]
          /\ UNCHANGED <<service, asked, poll, xml, list, window, exit>>
      BY <1>4 DEF DealRow
    <2>2. /\ data' \in Datas
          /\ data'.pc = "deal"
      BY <1>0, <2>1
    <2>3. rows' \in Rows /\ OneRowPerSeat'
      BY <1>4, DealRowKeeps
    <2>4. TypeOK'
      BY <2>1, <2>2, <2>3 DEF IInv, TypeOK, Rows, service, window, exit
    <2> QED BY <2>1, <2>2, <2>3, <2>4 DEF IInv, ListBehind, ClickOnRow, window
  <1> QED BY <1>1, <1>2, <1>3, <1>4 DEF Data

LEMMA OtherStep == IInv /\ [Next]_vars => Data \/ IInv'
  <1> SUFFICES ASSUME IInv, [Next]_vars, ~Data PROVE IInv'
    OBVIOUS
  <1> USE DEF Datas, Guis
  (* Nobody else touches g_stu2List or puts a student into a row. *)
  <1>0. UNCHANGED <<data, list>> /\ rows' \in {rows, <<>>}
        => ListBehind' /\ OneRowPerSeat' /\ rows' \in Rows
    BY EmptyBounded DEF IInv, TypeOK, Rows, ListBehind, OneRowPerSeat
  <1> USE DEF ClickOnRow
  <1>1. CASE Change
    <2>1. changed' \in BOOLEAN
      BY <1>1 DEF Change
    <2> QED BY <1>0, <1>1, <2>1 DEF Change, IInv, TypeOK, Rows, model, window, exit
  <1>2. CASE Poller
    <2>1. /\ UNCHANGED <<service, asked, data, model, window, quit>>
          /\ poll' \in {asked, "out", "ended"}
      BY <1>2 DEF Poller, PollBegin, PollAnswer, PollEmpty, PollEnd, ThreadEnd, exit
    <2>2. poll' \in Page \cup {"none", "out", "ended"}
      BY <2>1 DEF IInv, TypeOK
    <2>3. xml' \in [of : Page, list : Lists] \cup {NoAnswer}
      <3>1. PollAnswer \/ xml' \in {xml, NoAnswer}
        BY <1>2 DEF Poller, PollBegin, PollEmpty, PollEnd, ThreadEnd
      <3>2. CASE PollAnswer
        <4>1. PICK l \in Lists : xml' = [of |-> poll, list |-> l] /\ poll \in Page
          BY <3>2 DEF PollAnswer
        <4> QED BY <4>1
      <3>3. CASE xml' \in {xml, NoAnswer}
        BY <3>3 DEF IInv, TypeOK
      <3> QED BY <3>1, <3>2, <3>3
    <2>4. late' \in BOOLEAN
      <3>1. PollBegin \/ late' = late
        BY <1>2 DEF Poller, PollAnswer, PollEmpty, PollEnd, ThreadEnd, exit
      <3> QED BY <3>1 DEF PollBegin, IInv, TypeOK
    <2> QED BY <1>0, <2>1, <2>2, <2>3, <2>4 DEF IInv, TypeOK, Rows, service, model, window
  <1>3. CASE Stop
    <2>1. /\ UNCHANGED <<service, asked, poll, xml, data, model, window>>
          /\ quit' = quit + 1 /\ quit < 3 /\ late' \in BOOLEAN
      BY <1>3 DEF Stop
    <2>2. quit' \in 0 .. 3
      BY <2>1 DEF IInv, TypeOK
    <2> QED BY <1>0, <2>1, <2>2 DEF IInv, TypeOK, Rows, service, model, window
  <1>4. ASSUME NEW p \in Page, SwitchView(p) PROVE IInv'
    <2>1. gui' \in Guis /\ gui'.pc # "at"
      <3>1. gui' = [pc |-> "mode", row |-> 0, shown |-> Blank, raced |-> FALSE]
        BY <1>4 DEF SwitchView, Idle
      <3> QED BY <3>1, MaxLenAssumption
    <2> QED BY <1>0, <1>4, <2>1 DEF SwitchView, IInv, TypeOK, Rows, service, exit
  <1>5. CASE SwitchMode \/ SwitchAsked
    <2>1. gui' \in {[gui EXCEPT !.pc = "ask"], Idle}
      BY <1>5 DEF SwitchMode, SwitchAsked
    <2>2. Idle \in Guis /\ Idle.pc = "idle"
      BY MaxLenAssumption DEF Idle
    <2>3. [gui EXCEPT !.pc = "ask"] \in Guis /\ [gui EXCEPT !.pc = "ask"].pc = "ask"
      BY DEF IInv, TypeOK
    <2>4. gui' \in Guis /\ gui'.pc # "at"
      BY <2>1, <2>2, <2>3
    <2> QED BY <1>0, <1>5, <2>4 DEF SwitchMode, SwitchAsked, IInv, TypeOK, Rows,
                                    service, model, exit
  <1>6. ASSUME NEW i \in 1 .. MaxLen, Click(i) PROVE IInv'
    <2>1. rows[i] \in Student \cup {Blank}
      <3>1. rows \in Seq(Student \cup {Blank})
        BY Bounded DEF IInv, TypeOK
      <3> QED BY <1>6, <3>1 DEF Click
    <2>2. i \in 0 .. MaxLen
      BY MaxLenAssumption
    <2>3. gui' \in Guis
      <3>1. CASE data.pc = "parse"
        <4>1. gui' = [pc |-> "at", row |-> i, shown |-> rows[i], raced |-> TRUE]
          BY <1>6, <3>1 DEF Click
        <4> QED BY <2>1, <2>2, <4>1
      <3>2. CASE data.pc # "parse"
        <4>1. gui' = [pc |-> "at", row |-> i, shown |-> rows[i], raced |-> FALSE]
          BY <1>6, <3>2 DEF Click
        <4> QED BY <2>1, <2>2, <4>1
      <3> QED BY <3>1, <3>2
    <2>4. gui'.row >= 1
      BY <1>6 DEF Click
    <2> QED BY <1>0, <1>6, <2>3, <2>4 DEF Click, IInv, TypeOK, Rows, service, model, exit
  <1>7. CASE ClickAt
    <2>1. gui' \in {Idle, [Idle EXCEPT !.pc = "lost"]}
      BY <1>7 DEF ClickAt
    <2>2. gui' \in Guis /\ gui'.pc # "at"
      <3>1. Idle \in Guis /\ Idle.pc = "idle"
        BY MaxLenAssumption DEF Idle
      <3>2. [Idle EXCEPT !.pc = "lost"] \in Guis /\ [Idle EXCEPT !.pc = "lost"].pc = "lost"
        BY <3>1
      <3> QED BY <2>1, <3>1, <3>2
    <2> QED BY <1>0, <1>7, <2>2 DEF ClickAt, IInv, TypeOK, Rows, service, model, exit
  <1>8. CASE UNCHANGED vars
    BY <1>0, <1>8 DEF vars, IInv, TypeOK, Rows
  <1> QED
    BY <1>1, <1>2, <1>3, <1>4, <1>5, <1>6, <1>7, <1>8 DEF Next, Switch

LEMMA Invariance == Spec => []IInv
  BY InitIInv, DataStep, OtherStep, PTL DEF Spec

(* Every variable keeps its type: DataThread never reads behind the end of  *)
(* the answer, whatever Thread and the GUI thread do meanwhile.             *)
THEOREM TypeCorrect == Spec => []TypeOK
  <1>1. IInv => TypeOK
    BY DEF IInv
  <1> QED BY Invariance, <1>1, PTL

(* No seat is read from two rows of the table, whoever is put over whom,    *)
(* and however often the GUI thread empties it while DataThread fills it.   *)
THEOREM SeatsDiffer == Spec => []OneRowPerSeat
  <1>1. IInv => OneRowPerSeat
    BY DEF IInv
  <1> QED BY Invariance, <1>1, PTL

-----------------------------------------------------------------------------
(* The students among the first i of a list; s is the j-th student the list *)
(* names, repetitions left out: his row.  A list that begins like another.  *)
Seen(l, i) == {l[m] : m \in 1 .. i}

PlaceIn(l, s, j) ==
  \E i \in DOMAIN l : /\ l[i] = s /\ s \notin Seen(l, i - 1)
                      /\ j = Cardinality(Seen(l, i))

BeginsLike(l, p) == Len(p) <= Len(l) /\ \A m \in 1 .. Len(p) : l[m] = p[m]

Shown == Range(rows) \ {Blank}

(* g_mutex: Thread does not ask while DataThread reads the answer. *)
Excluded == data.pc \in {"parse", "deal"} => poll \in {"out", "ended"}

(* While the service's list only grows: a list of students answered is what *)
(* it began with;                                                           *)
(* g_stu2List, the rows and the row under a click hold students at their    *)
(* places; what is parsed is what is in g_stu2List; and whoever is shown is *)
(* in the next answer, in a complete g_stu2List that is not empty, and so   *)
(* in reach of a click, unless DataThread has begun over since.             *)
AnswerIsOld == xml.of = "stu" => BeginsLike(present, xml.list)

ListPlaced == \A j \in DOMAIN list : PlaceIn(present, list[j], j)

RowsPlaced == \A j \in DOMAIN rows : rows[j] # Blank => PlaceIn(present, rows[j], j)

ClickPlaced ==
  gui.pc = "at" /\ gui.shown # Blank => PlaceIn(present, gui.shown, gui.row)

Parsed ==
  data.pc = "parse" =>
    /\ Range(list) = Seen(Records, data.k - 1)
    /\ Len(list) = Cardinality(Seen(Records, data.k - 1))
    /\ data.k <= Len(Records) + 1

Dealt ==
  data.pc = "deal" /\ list # <<>> =>
    xml.of = "stu" /\ Range(list) \subseteq Range(xml.list)

AnswerCovers == xml.of = "stu" => Shown \subseteq Range(xml.list)

ListCovers ==
  data.pc # "parse" /\ list # <<>> => Shown \subseteq Range(list)

ClickCovered ==
  gui.pc = "at" /\ gui.shown # Blank => gui.row <= Len(list) \/ gui.raced

Placed  == AnswerIsOld /\ ListPlaced /\ RowsPlaced /\ ClickPlaced
Covered == Parsed /\ Dealt /\ AnswerCovers /\ ListCovers /\ ClickCovered

PickInv == IInv /\ Excluded /\ (~changed => Placed /\ Covered)

-----------------------------------------------------------------------------
LEMMA SeenFinite ==
  ASSUME NEW S, NEW l \in Seq(S), NEW i \in 0 .. Len(l)
  PROVE  IsFiniteSet(Seen(l, i)) /\ Cardinality(Seen(l, i)) \in Nat
  <1> DEFINE f == [m \in 1 .. i |-> l[m]]
  <1>1. f \in Surjection(1 .. i, Seen(l, i))
    BY DEF Surjection, Seen
  <1>2. i \in Nat
    OBVIOUS
  <1>3. IsFiniteSet(Seen(l, i))
    BY <1>1, <1>2, FS_NatSurjection DEF ExistsSurjection
  <1> QED BY <1>3, FS_CardinalityType

LEMMA SeenNone ==
  ASSUME NEW l
  PROVE  Seen(l, 0) = {} /\ Cardinality(Seen(l, 0)) = 0
  <1>1. Seen(l, 0) = {}
    BY DEF Seen
  <1> QED BY <1>1, FS_EmptySet

LEMMA SeenNext ==
  ASSUME NEW S, NEW l \in Seq(S), NEW i \in 1 .. Len(l)
  PROVE  /\ Seen(l, i) = Seen(l, i - 1) \cup {l[i]}
         /\ l[i] \in Seen(l, i - 1) =>
              Cardinality(Seen(l, i)) = Cardinality(Seen(l, i - 1))
         /\ l[i] \notin Seen(l, i - 1) =>
              Cardinality(Seen(l, i)) = Cardinality(Seen(l, i - 1)) + 1
  <1>1. Seen(l, i) = Seen(l, i - 1) \cup {l[i]}
    <2>1. 1 .. i = (1 .. i - 1) \cup {i}
      OBVIOUS
    <2> QED BY <2>1 DEF Seen
  <1>2. IsFiniteSet(Seen(l, i - 1))
    <2>1. i - 1 \in 0 .. Len(l)
      OBVIOUS
    <2> QED BY <2>1, SeenFinite
  <1> QED BY <1>1, <1>2, FS_AddElement

LEMMA SeenGrows ==
  ASSUME NEW S, NEW l \in Seq(S), NEW i \in 0 .. Len(l), NEW n \in i .. Len(l)
  PROVE  /\ Seen(l, i) \subseteq Seen(l, n)
         /\ Cardinality(Seen(l, i)) <= Cardinality(Seen(l, n))
  <1>1. Seen(l, i) \subseteq Seen(l, n)
    BY DEF Seen
  <1>2. n \in 0 .. Len(l)
    OBVIOUS
  <1>3. IsFiniteSet(Seen(l, n))
    BY <1>2, SeenFinite
  <1> QED BY <1>1, <1>3, FS_Subset

(* The first time a student is named, the number of students named becomes  *)
(* greater than it ever was.                                                *)
LEMMA NewIsMore ==
  ASSUME NEW S, NEW l \in Seq(S), NEW i \in DOMAIN l, NEW n \in DOMAIN l,
         i < n, l[n] \notin Seen(l, n - 1)
  PROVE  Cardinality(Seen(l, i)) < Cardinality(Seen(l, n)) /\ l[i] # l[n]
  <1>1. i \in 0 .. Len(l) /\ n \in 1 .. Len(l) /\ n - 1 \in i .. Len(l) /\ n - 1 \in 0 .. Len(l)
    OBVIOUS
  <1>2. Cardinality(Seen(l, i)) <= Cardinality(Seen(l, n - 1))
    BY <1>1, SeenGrows
  <1>3. Cardinality(Seen(l, n)) = Cardinality(Seen(l, n - 1)) + 1
    BY <1>1, SeenNext
  <1>4. Cardinality(Seen(l, i)) \in Nat /\ Cardinality(Seen(l, n - 1)) \in Nat
    BY <1>1, SeenFinite
  <1>5. l[i] \in Seen(l, n - 1)
    BY <1>1 DEF Seen
  <1> QED BY <1>2, <1>3, <1>4, <1>5

(* A place has one student, *)
LEMMA OnePerPlace ==
  ASSUME NEW S, NEW l \in Seq(S), NEW s, NEW t, NEW j,
         PlaceIn(l, s, j), PlaceIn(l, t, j)
  PROVE  s = t
  <1>1. PICK i \in DOMAIN l : /\ l[i] = s /\ s \notin Seen(l, i - 1)
                              /\ j = Cardinality(Seen(l, i))
    BY DEF PlaceIn
  <1>2. PICK n \in DOMAIN l : /\ l[n] = t /\ t \notin Seen(l, n - 1)
                              /\ j = Cardinality(Seen(l, n))
    BY DEF PlaceIn
  <1>3. j \in Nat
    <2>1. i \in 0 .. Len(l)
      OBVIOUS
    <2> QED BY <1>1, <2>1, SeenFinite
  <1>4. ASSUME i < n PROVE FALSE
    <2>1. Cardinality(Seen(l, i)) < Cardinality(Seen(l, n))
      BY <1>2, <1>4, NewIsMore
    <2> QED BY <1>1, <1>2, <1>3, <2>1
  <1>5. ASSUME n < i PROVE FALSE
    <2>1. Cardinality(Seen(l, n)) < Cardinality(Seen(l, i))
      BY <1>1, <1>5, NewIsMore
    <2> QED BY <1>1, <1>2, <1>3, <2>1
  <1> QED BY <1>1, <1>2, <1>4, <1>5

(* ... and a student one place, *)
LEMMA OnePlaceEach ==
  ASSUME NEW S, NEW l \in Seq(S), NEW s, NEW j, NEW m,
         PlaceIn(l, s, j), PlaceIn(l, s, m)
  PROVE  j = m
  <1>1. PICK i \in DOMAIN l : /\ l[i] = s /\ s \notin Seen(l, i - 1)
                              /\ j = Cardinality(Seen(l, i))
    BY DEF PlaceIn
  <1>2. PICK n \in DOMAIN l : /\ l[n] = s /\ s \notin Seen(l, n - 1)
                              /\ m = Cardinality(Seen(l, n))
    BY DEF PlaceIn
  <1>3. ~(i < n) /\ ~(n < i)
    BY <1>1, <1>2, NewIsMore
  <1> QED BY <1>1, <1>2, <1>3

(* ... which he keeps when the list grows at its end. *)
LEMMA PlaceKept ==
  ASSUME NEW S, NEW p \in Seq(S), NEW l \in Seq(S), NEW s, NEW j,
         BeginsLike(l, p), PlaceIn(p, s, j)
  PROVE  PlaceIn(l, s, j)
  <1>1. PICK i \in DOMAIN p : /\ p[i] = s /\ s \notin Seen(p, i - 1)
                              /\ j = Cardinality(Seen(p, i))
    BY DEF PlaceIn
  <1>2. i \in DOMAIN l /\ l[i] = p[i]
    BY DEF BeginsLike
  <1>3. ASSUME NEW n \in 0 .. Len(p) PROVE Seen(l, n) = Seen(p, n)
    <2>1. \A m \in 1 .. n : l[m] = p[m]
      BY DEF BeginsLike
    <2> QED BY <2>1 DEF Seen
  <1>4. Seen(l, i) = Seen(p, i) /\ Seen(l, i - 1) = Seen(p, i - 1)
    <2>1. i \in 0 .. Len(p) /\ i - 1 \in 0 .. Len(p)
      OBVIOUS
    <2> QED BY <1>3, <2>1
  <1> QED BY <1>1, <1>2, <1>4 DEF PlaceIn

LEMMA PrefixIs ==
  ASSUME NEW S, NEW p \in Seq(S), NEW l \in Seq(S), IsPrefix(p, l)
  PROVE  BeginsLike(l, p)
  <1>1. Len(p) <= Len(l) /\ SubSeq(p, 1, Len(p)) = SubSeq(l, 1, Len(p))
    BY DEF IsPrefix
  <1>2. ASSUME NEW m \in 1 .. Len(p) PROVE l[m] = p[m]
    <2>1. SubSeq(p, 1, Len(p))[m] = p[m] /\ SubSeq(l, 1, Len(p))[m] = l[m]
      BY <1>1
    <2> QED BY <1>1, <2>1
  <1> QED BY <1>1, <1>2 DEF BeginsLike

LEMMA AllSequences ==
  ASSUME TypeOK
  PROVE  /\ present \in Seq(Student) /\ xml.list \in Seq(Student)
         /\ list \in Seq(Student) /\ rows \in Seq(Student \cup {Blank})
         /\ Records \in Seq(Student)
  <1>1. xml.list \in Lists
    BY EmptyBounded DEF TypeOK, NoAnswer
  <1> QED BY <1>1, Bounded, RecordsIs DEF TypeOK, Lists

-----------------------------------------------------------------------------
LEMMA InitPickInv == Init => PickInv
  <1> SUFFICES ASSUME Init PROVE PickInv
    OBVIOUS
  <1>2. AnswerIsOld
    BY DEF Init, NoAnswer, AnswerIsOld
  <1>3. ListPlaced /\ RowsPlaced /\ ClickPlaced
    BY DEF Init, Idle, ListPlaced, RowsPlaced, ClickPlaced
  <1>4. Covered
    BY DEF Init, Idle, NoAnswer, Covered, Parsed, Dealt, AnswerCovers, ListCovers,
           ClickCovered
  <1>5. Excluded
    BY DEF Init, Excluded
  <1> QED BY <1>2, <1>3, <1>4, <1>5, InitIInv DEF PickInv, Placed

(* The service's list grows at its end: nobody loses his place. *)
LEMMA ChangeKeeps ==
  ASSUME PickInv, TypeOK', Change, ~changed'
  PROVE  (Placed /\ Covered)'
  <1>1. /\ ~changed /\ IsPrefix(present, present')
        /\ UNCHANGED <<xml, data, list, rows, gui>>
    BY DEF Change, model, window
  <1>2. /\ present \in Seq(Student) /\ present' \in Seq(Student)
        /\ xml.list \in Seq(Student)
    BY AllSequences, Bounded DEF PickInv, IInv, TypeOK, Lists
  <1>3. BeginsLike(present', present)
    BY <1>1, <1>2, PrefixIs
  <1>4. ASSUME NEW s, NEW j, PlaceIn(present, s, j) PROVE PlaceIn(present', s, j)
    BY <1>2, <1>3, <1>4, PlaceKept
  <1>5. AnswerIsOld'
    BY <1>1, <1>2, <1>3 DEF PickInv, Placed, AnswerIsOld, BeginsLike
  <1>6. ListPlaced' /\ RowsPlaced' /\ ClickPlaced'
    BY <1>1, <1>4 DEF PickInv, Placed, ListPlaced, RowsPlaced, ClickPlaced
  <1>7. Covered'
    BY <1>1 DEF PickInv, Covered, Parsed, Dealt, AnswerCovers, ListCovers,
                ClickCovered, Shown, Records
  <1> QED BY <1>5, <1>6, <1>7 DEF Placed

(* A new list of students names all who are shown, for they are in the      *)
(* service's list; of another answer nothing is said.                       *)
LEMMA AnswerKeeps ==
  ASSUME PickInv, PollAnswer \/ PollEmpty, ~changed
  PROVE  (Placed /\ Covered)'
  <1>1. /\ poll \in Page
        /\ UNCHANGED <<present, data, list, rows, gui>>
    BY DEF PollAnswer, PollEmpty, service, model, window
  <1>9. xml'.of = "stu" => xml'.list = present
    <2>1. CASE PollAnswer
      <3>1. PICK l \in Lists : /\ poll = "stu" => l = present
                               /\ xml' = [of |-> poll, list |-> l]
        BY <2>1 DEF PollAnswer
      <3> QED BY <3>1
    <2>2. CASE PollEmpty
      BY <2>2 DEF PollEmpty, NoAnswer
    <2> QED BY <2>1, <2>2
  <1>2. data.pc \notin {"parse", "deal"}
    BY <1>1 DEF PickInv, Excluded, Page
  <1>3. present \in Seq(Student) /\ rows \in Seq(Student \cup {Blank})
    BY AllSequences DEF PickInv, IInv
  <1>4. Shown \subseteq Range(present)
    <2>1. ASSUME NEW j \in DOMAIN rows, rows[j] # Blank PROVE rows[j] \in Range(present)
      BY <2>1 DEF PickInv, Placed, RowsPlaced, PlaceIn, Range
    <2> QED BY <2>1 DEF Shown, Range
  <1>5. AnswerIsOld'
    BY <1>1, <1>3, <1>9 DEF AnswerIsOld, BeginsLike
  <1>6. ListPlaced' /\ RowsPlaced' /\ ClickPlaced'
    BY <1>1 DEF PickInv, Placed, ListPlaced, RowsPlaced, ClickPlaced
  <1>7. Parsed' /\ Dealt' /\ ListCovers' /\ ClickCovered'
    BY <1>1, <1>2 DEF PickInv, Covered, Parsed, Dealt, ListCovers, ClickCovered, Shown
  <1>8. AnswerCovers'
    BY <1>1, <1>4, <1>9 DEF AnswerCovers, Shown
  <1> QED BY <1>5, <1>6, <1>7, <1>8 DEF Placed, Covered

LEMMA DataBeginKeeps ==
  ASSUME PickInv, DataBegin, ~changed
  PROVE  (Placed /\ Covered)'
  <1>1. /\ data' = [pc |-> "parse", page |-> mode, k |-> 1] /\ list' = <<>>
        /\ gui' = [gui EXCEPT !.raced = (gui.pc = "at")]
        /\ UNCHANGED <<present, xml, rows>>
    BY DEF DataBegin, service
  <1>2. gui'.pc = gui.pc /\ gui'.row = gui.row /\ gui'.shown = gui.shown
        /\ (gui.pc = "at" => gui'.raced)
    BY <1>1 DEF PickInv, IInv, TypeOK
  <1>3. Placed'
    BY <1>1, <1>2 DEF PickInv, Placed, AnswerIsOld, ListPlaced, RowsPlaced, ClickPlaced
  <1>4. Parsed'
    <2>1. data'.k - 1 = 0 /\ Len(<<>>) = 0 /\ Range(<<>>) = {}
      BY <1>1 DEF Range
    <2>2. Seen(Records', data'.k - 1) = {} /\ Cardinality(Seen(Records', data'.k - 1)) = 0
      BY <2>1, SeenNone
    <2>3. Len(Records') \in Nat
      <3>1. xml.list \in Seq(Student)
        BY AllSequences DEF PickInv, IInv
      <3> QED BY <1>1, <3>1 DEF Records
    <2>4. data'.k <= Len(Records') + 1
      BY <1>1, <2>3
    <2> QED BY <1>1, <2>1, <2>2, <2>4 DEF Parsed
  <1>5. Dealt' /\ AnswerCovers' /\ ListCovers' /\ ClickCovered'
    BY <1>1, <1>2 DEF PickInv, Covered, Dealt, AnswerCovers, ListCovers, ClickCovered, Shown
  <1> QED BY <1>3, <1>4, <1>5 DEF Covered

(* A student named for the first time comes to the end of g_stu2List, and   *)
(* that is his place.                                                       *)
LEMMA ParseOneKeeps ==
  ASSUME PickInv, ParseOne, ~changed
  PROVE  (Placed /\ Covered)'
  <1> DEFINE k == data.k
             s == Records[k]
  <1>0. ClickCovered /\ gui' = gui
    BY DEF PickInv, Covered, ParseOne, window
  <1>1. /\ data.pc = "parse" /\ k <= Len(Records)
        /\ list' = IF s \in Range(list) THEN list ELSE Append(list, s)
        /\ data' = [data EXCEPT !.k = k + 1]
        /\ UNCHANGED <<present, xml, rows, gui>>
    BY DEF ParseOne, service, window
  <1>2. /\ present \in Seq(Student) /\ list \in Seq(Student) /\ Records \in Seq(Student)
        /\ k \in 1 .. MaxLen + 1
    BY AllSequences DEF PickInv, IInv, TypeOK
  <1>3. k \in 1 .. Len(Records) /\ data'.pc = "parse" /\ data'.page = data.page
        /\ data'.k = k + 1 /\ k + 1 - 1 = k
    BY <1>1, <1>2, MaxLenAssumption DEF PickInv, IInv, TypeOK
  <1>4. Records' = Records /\ data'.k <= Len(Records) + 1
    BY <1>1, <1>2, <1>3 DEF Records
  <1>5. /\ Range(list) = Seen(Records, k - 1)
        /\ Len(list) = Cardinality(Seen(Records, k - 1))
    BY <1>1 DEF PickInv, Covered, Parsed
  <1>6. BeginsLike(present, Records)
    <2>1. Len(<<>>) = 0 /\ Len(present) \in Nat
      BY <1>2
    <2>2. Records # <<>> /\ Records \in {xml.list, <<>>}
      BY <1>2, <1>3 DEF Records
    <2>3. xml.of = "stu" /\ Records = xml.list
      BY <2>2 DEF Records
    <2> QED BY <2>1, <2>3 DEF PickInv, Placed, AnswerIsOld, BeginsLike
  <1>7. /\ Seen(Records, k) = Seen(Records, k - 1) \cup {s}
        /\ s \in Seen(Records, k - 1) =>
             Cardinality(Seen(Records, k)) = Cardinality(Seen(Records, k - 1))
        /\ s \notin Seen(Records, k - 1) =>
             Cardinality(Seen(Records, k)) = Cardinality(Seen(Records, k - 1)) + 1
    BY <1>2, <1>3, SeenNext
  <1>8. ASSUME s \in Range(list) PROVE Parsed' /\ ListPlaced' /\ ClickCovered'
    <2>1. list' = list
      BY <1>1, <1>8
    <2>2. Parsed'
      <3>1. Range(list) = Seen(Records, k) /\ Len(list) = Cardinality(Seen(Records, k))
        BY <1>5, <1>7, <1>8
      <3> QED BY <1>3, <1>4, <2>1, <3>1 DEF Parsed
    <2>3. ListPlaced'
      BY <1>1, <2>1 DEF PickInv, Placed, ListPlaced
    <2>4. ClickCovered'
      BY <1>0, <2>1 DEF ClickCovered
    <2> QED BY <2>2, <2>3, <2>4
  <1>9. ASSUME s \notin Range(list) PROVE Parsed' /\ ListPlaced' /\ ClickCovered'
    <2>1. list' = Append(list, s) /\ s \in Student
      BY <1>1, <1>2, <1>3, <1>9
    <2> HIDE DEF s
    <2>2. /\ Len(list') = Len(list) + 1 /\ list'[Len(list) + 1] = s
          /\ \A j \in 1 .. Len(list) : list'[j] = list[j]
          /\ list' \in Seq(Student)
      BY <1>2, <2>1
    <2>3. Range(list') = Range(list) \cup {s}
      <3>1. DOMAIN list' = DOMAIN list \cup {Len(list) + 1}
        BY <1>2, <2>2
      <3>2. ASSUME NEW j \in DOMAIN list' PROVE list'[j] \in Range(list) \cup {s}
        <4>1. j = Len(list) + 1 \/ j \in DOMAIN list
          BY <1>2, <3>1
        <4>2. CASE j = Len(list) + 1
          BY <2>2, <4>2
        <4>3. CASE j \in DOMAIN list
          <5>1. list'[j] = list[j]
            BY <1>2, <2>2, <4>3
          <5> QED BY <4>3, <5>1 DEF Range
        <4> QED BY <4>1, <4>2, <4>3
      <3>3. s \in Range(list')
        BY <2>2, <3>1 DEF Range
      <3>4. ASSUME NEW j \in DOMAIN list PROVE list[j] \in Range(list')
        <4>1. list'[j] = list[j] /\ j \in DOMAIN list'
          BY <1>2, <2>2, <3>1
        <4> QED BY <4>1 DEF Range
      <3> QED BY <3>2, <3>3, <3>4 DEF Range
    <2>4. Parsed'
      <3>1. Range(list') = Seen(Records, k) /\ Len(list') = Cardinality(Seen(Records, k))
        BY <1>5, <1>7, <1>9, <2>2, <2>3
      <3> QED BY <1>3, <1>4, <3>1 DEF Parsed
    <2>5. ListPlaced'
      <3>1. PlaceIn(Records, s, Len(list) + 1)
        <4>1. s \notin Seen(Records, k - 1) /\ Records[k] = s
          BY <1>5, <1>9 DEF s
        <4>2. Len(list) + 1 = Cardinality(Seen(Records, k))
          BY <1>5, <1>7, <4>1
        <4> QED BY <1>2, <1>3, <4>1, <4>2 DEF PlaceIn
      <3>2. PlaceIn(present, s, Len(list) + 1)
        BY <1>2, <1>6, <3>1, PlaceKept
      <3>3. ASSUME NEW j \in DOMAIN list' PROVE PlaceIn(present, list'[j], j)
        <4>1. CASE j = Len(list) + 1
          BY <2>2, <3>2, <4>1
        <4>2. CASE j \in DOMAIN list
          BY <1>2, <2>2, <4>2 DEF PickInv, Placed, ListPlaced
        <4> QED BY <1>2, <2>2, <4>1, <4>2
      <3> QED BY <1>1, <3>3 DEF ListPlaced
    <2>6. ClickCovered'
      <3>1. gui.row \in Int
        BY MaxLenAssumption DEF PickInv, IInv, TypeOK
      <3> QED BY <1>0, <1>2, <2>2, <3>1 DEF ClickCovered
    <2> QED BY <2>4, <2>5, <2>6
  <1>10. AnswerIsOld' /\ RowsPlaced' /\ ClickPlaced'
    BY <1>1 DEF PickInv, Placed, AnswerIsOld, RowsPlaced, ClickPlaced
  <1>11. Dealt' /\ AnswerCovers' /\ ListCovers'
    BY <1>1, <1>3 DEF PickInv, Covered, Dealt, AnswerCovers, ListCovers, Shown
  <1> QED BY <1>8, <1>9, <1>10, <1>11 DEF Placed, Covered

(* The answer is parsed: g_stu2List is empty or holds all it names. *)
LEMMA ParseEndKeeps ==
  ASSUME PickInv, ParseEnd, ~changed
  PROVE  (Placed /\ Covered)'
  <1>1. /\ data.pc = "parse" /\ data.k > Len(Records)
        /\ data' = [data EXCEPT !.pc = "deal", !.k = 1]
        /\ UNCHANGED <<present, xml, list, rows, gui>>
    BY DEF ParseEnd, service, model, window
  <1>2. /\ list \in Seq(Student) /\ Records \in Seq(Student) /\ data.k \in Nat
        /\ data'.pc = "deal" /\ data'.page = data.page
    BY <1>1, AllSequences, MaxLenAssumption DEF PickInv, IInv, TypeOK
  <1>3. Range(list) = Range(Records)
    <2>1. Range(list) = Seen(Records, data.k - 1) /\ data.k <= Len(Records) + 1
      BY <1>1 DEF PickInv, Covered, Parsed
    <2>2. data.k - 1 = Len(Records)
      BY <1>1, <1>2, <2>1
    <2>3. Range(Records) = Seen(Records, Len(Records))
      BY <1>2 DEF Range, Seen
    <2> QED BY <2>1, <2>2, <2>3
  <1>4. ASSUME list # <<>>
        PROVE  xml.of = "stu" /\ Records = xml.list
    <2>1. Records # <<>>
      BY <1>2, <1>3, <1>4 DEF Range
    <2> QED BY <2>1 DEF Records
  <1>5. Placed'
    BY <1>1 DEF PickInv, Placed, AnswerIsOld, ListPlaced, RowsPlaced, ClickPlaced
  <1>6. Dealt' /\ ListCovers'
    BY <1>1, <1>3, <1>4 DEF PickInv, Covered, Dealt, ListCovers, AnswerCovers, Shown
  <1>7. Parsed' /\ AnswerCovers' /\ ClickCovered'
    BY <1>1, <1>2 DEF PickInv, Covered, Parsed, AnswerCovers, ClickCovered, Shown
  <1> QED BY <1>5, <1>6, <1>7 DEF Covered

(* USER_MSG_DEALSTULIST puts a student into the row of his place. *)
LEMMA DealRowPlaces ==
  ASSUME PickInv, DealRow, ~changed
  PROVE  (Placed /\ Covered)'
  <1> DEFINE k == data.k
             s == list[k]
  <1>1. /\ data.pc = "deal" /\ k <= Len(list)
        /\ rows' = IF SeatIsRead(s) THEN rows ELSE WithRow(k, s)
        /\ data' = [data EXCEPT !.k = k + 1]
        /\ UNCHANGED <<present, xml, list, gui>>
    BY DEF DealRow, service, window
  <1>2. /\ list \in Seq(Student) /\ Len(list) \in 0 .. MaxLen /\ k \in 1 .. MaxLen + 1
        /\ rows \in Rows /\ rows \in Seq(Student \cup {Blank})
    BY AllSequences, Bounded DEF PickInv, IInv, TypeOK, Lists, Rows
  <1>3. k \in 1 .. MaxLen /\ k \in DOMAIN list /\ s \in Student /\ list # <<>>
    BY <1>1, <1>2, MaxLenAssumption
  <1>4. PlaceIn(present, s, k) /\ s \in Range(list)
    BY <1>3 DEF PickInv, Placed, ListPlaced, Range
  <1> HIDE DEF s
  <1>5. ASSUME NEW j \in DOMAIN rows', rows'[j] # Blank
        PROVE  (j = k /\ rows'[j] = s) \/ (j \in DOMAIN rows /\ rows'[j] = rows[j])
    <2>1. CASE SeatIsRead(s)
      BY <1>1, <2>1, <1>5
    <2>2. CASE ~SeatIsRead(s)
      <3>1. rows' = WithRow(k, s)
        BY <1>1, <2>2
      <3>2. /\ rows'[k] = s
            /\ \A m \in DOMAIN rows' \ {k} :
                 rows'[m] = Blank \/ (m \in DOMAIN rows /\ rows'[m] = rows[m])
        BY <1>2, <1>3, <3>1, WithRowIs
      <3> QED BY <1>5, <3>2
    <2> QED BY <2>1, <2>2
  <1>6. RowsPlaced'
    BY <1>1, <1>4, <1>5 DEF PickInv, Placed, RowsPlaced
  <1>7. Shown' \subseteq Shown \cup {s}
    BY <1>5 DEF Shown, Range
  <1>8. AnswerIsOld' /\ ListPlaced' /\ ClickPlaced'
    BY <1>1 DEF PickInv, Placed, AnswerIsOld, ListPlaced, ClickPlaced
  <1>9. data'.pc = "deal"
    BY <1>1, <1>2 DEF PickInv, IInv, TypeOK
  <1>10. Shown \subseteq Range(list) /\ Range(list) \subseteq Range(xml.list)
    BY <1>1, <1>3 DEF PickInv, Covered, ListCovers, Dealt
  <1>11. AnswerCovers' /\ ListCovers'
    BY <1>1, <1>4, <1>7, <1>10 DEF AnswerCovers, ListCovers
  <1>12. Parsed' /\ Dealt' /\ ClickCovered'
    BY <1>1, <1>9 DEF PickInv, Covered, Parsed, Dealt, ClickCovered
  <1> QED BY <1>6, <1>8, <1>11, <1>12 DEF Placed, Covered

LEMMA DataEndKeeps ==
  ASSUME PickInv, DataEnd \/ DataThreadEnd, ~changed
  PROVE  (Placed /\ Covered)'
  <1>1. /\ data' \in {[data EXCEPT !.pc = "out", !.k = 1], [data EXCEPT !.pc = "ended"]}
        /\ data.pc # "parse" /\ xml' \in {xml, NoAnswer}
        /\ UNCHANGED <<present, list, rows, gui>>
    BY DEF DataEnd, DataThreadEnd, service, model, window
  <1>2. data'.pc \in {"out", "ended"}
    BY <1>1 DEF PickInv, IInv, TypeOK
  <1>4. Placed'
    BY <1>1 DEF NoAnswer, PickInv, Placed, AnswerIsOld, ListPlaced, RowsPlaced, ClickPlaced
  <1>5. AnswerCovers'
    BY <1>1 DEF PickInv, Covered, AnswerCovers, Shown, NoAnswer
  <1>6. Parsed' /\ Dealt' /\ ListCovers' /\ ClickCovered'
    BY <1>1, <1>2 DEF PickInv, Covered, Parsed, Dealt, ListCovers, ClickCovered, Shown
  <1> QED BY <1>4, <1>5, <1>6 DEF Covered

LEMMA SwitchKeeps ==
  ASSUME PickInv, (\E p \in Page : SwitchView(p)) \/ SwitchMode \/ SwitchAsked, ~changed
  PROVE  (Placed /\ Covered)'
  <1>1. /\ UNCHANGED <<present, xml, data, list>>
        /\ rows' \in {rows, <<>>}
        /\ gui' \in {[Idle EXCEPT !.pc = "mode"], [gui EXCEPT !.pc = "ask"], Idle}
    BY DEF SwitchView, SwitchMode, SwitchAsked, service, model
  <1>2. gui'.pc # "at"
    BY <1>1 DEF Idle, PickInv, IInv, TypeOK
  <1>3. Shown' \subseteq Shown /\ RowsPlaced'
    BY <1>1 DEF PickInv, Placed, RowsPlaced, Shown, Range
  <1>4. AnswerIsOld' /\ ListPlaced' /\ ClickPlaced'
    BY <1>1, <1>2 DEF PickInv, Placed, AnswerIsOld, ListPlaced, ClickPlaced
  <1>5. AnswerCovers' /\ ListCovers'
    BY <1>1, <1>3 DEF PickInv, Covered, AnswerCovers, ListCovers
  <1>6. Parsed' /\ Dealt' /\ ClickCovered'
    BY <1>1, <1>2 DEF PickInv, Covered, Parsed, Dealt, ClickCovered, Records
  <1> QED BY <1>3, <1>4, <1>5, <1>6 DEF Placed, Covered

(* A click that DataThread does not meet: g_stu2List is complete and not    *)
(* empty, so it names whoever is shown, at the place where he is shown.     *)
LEMMA ClickKeeps ==
  ASSUME PickInv, NEW i \in 1 .. MaxLen, Click(i), ~changed
  PROVE  (Placed /\ Covered)'
  <1>1. /\ i \in DOMAIN rows /\ list # <<>>
        /\ gui' = [pc |-> "at", row |-> i, shown |-> rows[i], raced |-> data.pc = "parse"]
        /\ UNCHANGED <<present, xml, data, list, rows>>
    BY DEF Click, service, model
  <1>2. present \in Seq(Student) /\ list \in Seq(Student)
    BY AllSequences DEF PickInv, IInv
  <1>3. ClickCovered'
    <2> SUFFICES ASSUME rows[i] # Blank, data.pc # "parse" PROVE i <= Len(list)
      BY <1>1 DEF ClickCovered
    <2>1. rows[i] \in Range(list)
      BY <1>1 DEF PickInv, Covered, ListCovers, Shown, Range
    <2>2. PICK m \in DOMAIN list : list[m] = rows[i]
      BY <2>1 DEF Range
    <2>3. PlaceIn(present, rows[i], m) /\ PlaceIn(present, rows[i], i)
      BY <1>1, <2>2 DEF PickInv, Placed, ListPlaced, RowsPlaced
    <2>4. m = i
      BY <1>2, <2>3, OnePlaceEach
    <2> QED BY <1>2, <2>4
  <1>4. Placed'
    BY <1>1 DEF PickInv, Placed, AnswerIsOld, ListPlaced, RowsPlaced, ClickPlaced
  <1>5. Parsed' /\ Dealt' /\ AnswerCovers' /\ ListCovers'
    BY <1>1 DEF PickInv, Covered, Parsed, Dealt, AnswerCovers, ListCovers, Shown, Records
  <1> QED BY <1>3, <1>4, <1>5 DEF Covered

(* Element i of g_stu2List and row i hold the student of place i. *)
LEMMA PickInvFinds == PickInv => PickHasCause
  <1> SUFFICES ASSUME PickInv, gui.pc = "at", ~changed, gui.shown # Blank
               PROVE  Found = gui.shown \/ (Found = OutOfRange /\ gui.raced)
    BY DEF PickHasCause
  <1>1. PlaceIn(present, gui.shown, gui.row) /\ (gui.row <= Len(list) \/ gui.raced)
    BY DEF PickInv, Placed, Covered, ClickPlaced, ClickCovered
  <1>2. CASE gui.row <= Len(list)
    <2>1. /\ gui.row \in 0 .. MaxLen /\ gui.row >= 1
          /\ present \in Seq(Student) /\ list \in Seq(Student)
      BY AllSequences DEF PickInv, IInv, TypeOK, ClickOnRow
    <2>2. gui.row \in DOMAIN list
      BY <1>2, <2>1
    <2>3. PlaceIn(present, list[gui.row], gui.row)
      BY <2>2 DEF PickInv, Placed, ListPlaced
    <2>4. list[gui.row] = gui.shown
      BY <1>1, <2>1, <2>3, OnePerPlace
    <2> QED BY <1>2, <2>4 DEF Found
  <1>3. CASE ~(gui.row <= Len(list))
    BY <1>1, <1>3 DEF Found
  <1> QED BY <1>2, <1>3

LEMMA ClickAtKeeps ==
  ASSUME PickInv, ClickAt, ~changed
  PROVE  (Placed /\ Covered)'
  <1>1. /\ gui' \in {Idle, [Idle EXCEPT !.pc = "lost"]}
        /\ UNCHANGED <<present, changed, xml, data, list, rows>>
    BY DEF ClickAt, service, model
  <1>2. gui'.pc # "at"
    BY <1>1 DEF Idle
  <1> QED BY <1>1, <1>2
          DEF PickInv, Placed, Covered, AnswerIsOld, ListPlaced, RowsPlaced, ClickPlaced,
              Parsed, Dealt, AnswerCovers, ListCovers, ClickCovered, Shown, Records

(* What none of this is about. *)
LEMMA OthersKeep ==
  ASSUME PickInv, UNCHANGED <<present, xml, data, list, rows, gui>>, ~changed
  PROVE  (Placed /\ Covered)'
  <1>1. Placed'
    BY DEF PickInv, Placed, AnswerIsOld, ListPlaced, RowsPlaced, ClickPlaced
  <1>2. Covered'
    BY DEF PickInv, Covered, Parsed, Dealt, AnswerCovers, ListCovers, ClickCovered,
           Shown, Records
  <1> QED BY <1>1, <1>2

(* g_mutex. *)
LEMMA ExcludedStep == IInv /\ Excluded /\ [Next]_vars => Excluded'
  <1> SUFFICES ASSUME IInv, Excluded, [Next]_vars PROVE Excluded'
    OBVIOUS
  <1>0. data \in Datas
    BY DEF IInv, TypeOK, Datas
  <1>1. CASE Poller
    <2>1. data' = data
      BY <1>1 DEF Poller, PollBegin, PollAnswer, PollEmpty, PollEnd, ThreadEnd
    <2>2. data.pc \notin {"parse", "deal"} \/ poll' \in {"out", "ended"}
      BY <1>1 DEF Poller, PollBegin, PollAnswer, PollEmpty, PollEnd, ThreadEnd
    <2> QED BY <2>1, <2>2 DEF Excluded
  <1>2. CASE Data
    <2>1. poll' = poll
      BY <1>2 DEF Data, DataBegin, ParseOne, ParseEnd, DealRow, DataEnd, DataThreadEnd
    <2>2. CASE DataBegin
      BY <2>1, <2>2 DEF DataBegin, Excluded
    <2>3. CASE ParseOne \/ ParseEnd \/ DealRow
      BY <2>1, <2>3 DEF ParseOne, ParseEnd, DealRow, Excluded
    <2>4. CASE DataEnd \/ DataThreadEnd
      <3>1. data'.pc \in {"out", "ended"}
        BY <1>0, <2>4 DEF DataEnd, DataThreadEnd, Datas
      <3> QED BY <3>1 DEF Excluded
    <2> QED BY <1>2, <2>2, <2>3, <2>4 DEF Data
  <1>3. CASE ~Poller /\ ~Data
    <2>1. UNCHANGED <<data, poll>>
      BY <1>3 DEF Next, Change, Stop, Switch, SwitchView, SwitchMode, SwitchAsked,
                  Click, ClickAt, vars
    <2> QED BY <2>1 DEF Excluded
  <1> QED BY <1>1, <1>2, <1>3

LEMMA NextPickInv == PickInv /\ [Next]_vars => PickInv'
  <1> SUFFICES ASSUME PickInv, [Next]_vars PROVE PickInv'
    OBVIOUS
  <1>1. IInv'
    BY DataStep, OtherStep DEF PickInv
  <1>2. Excluded'
    BY ExcludedStep DEF PickInv
  <1>3. changed \in BOOLEAN /\ changed' \in BOOLEAN /\ TypeOK'
    BY <1>1 DEF PickInv, IInv, TypeOK
  <1>4. (~changed' => ~changed)
    BY <1>3 DEF Next, Change, Poller, PollBegin, PollAnswer, PollEmpty, PollEnd, ThreadEnd,
                Data, DataBegin, ParseOne, ParseEnd, DealRow, DataEnd, DataThreadEnd,
                Switch, SwitchView, SwitchMode, SwitchAsked, Click, ClickAt, Stop,
                service, vars
  <1>6. ASSUME ~changed' PROVE (Placed /\ Covered)'
    <2>0. ~changed
      BY <1>4, <1>6
    <2>1. CASE Change
      BY <1>3, <1>6, <2>1, ChangeKeeps
    <2>2. CASE Poller
      <3>1. CASE PollAnswer \/ PollEmpty
        BY <2>0, <3>1, AnswerKeeps
      <3>2. CASE PollBegin \/ PollEnd \/ ThreadEnd
        <4>1. UNCHANGED <<present, xml, data, list, rows, gui>>
          BY <3>2 DEF PollBegin, PollEnd, ThreadEnd, service, model, window
        <4> QED BY <2>0, <4>1, OthersKeep
      <3> QED BY <2>2, <3>1, <3>2 DEF Poller
    <2>3. CASE Data
      BY <2>0, <2>3, DataBeginKeeps, ParseOneKeeps, ParseEndKeeps, DealRowPlaces,
         DataEndKeeps DEF Data
    <2>4. CASE (\E p \in Page : SwitchView(p)) \/ SwitchMode \/ SwitchAsked
      BY <2>0, <2>4, SwitchKeeps
    <2>5. CASE ClickAt
      BY <2>0, <2>5, ClickAtKeeps
    <2>6. CASE \E i \in 1 .. MaxLen : Click(i)
      BY <2>0, <2>6, ClickKeeps
    <2>7. CASE Stop \/ UNCHANGED vars
      <3>1. UNCHANGED <<present, xml, data, list, rows, gui>>
        BY <2>7 DEF Stop, service, model, window, vars
      <3> QED BY <2>0, <3>1, OthersKeep
    <2> QED BY <2>1, <2>2, <2>3, <2>4, <2>5, <2>6, <2>7 DEF Next, Switch
  <1> QED BY <1>1, <1>2, <1>6 DEF PickInv

(* As long as the service's list only grows, a click finds the student who  *)
(* is shown in its row, or it runs behind the end of a list that DataThread *)
(* was rebuilding during the click: it never finds another student.         *)
THEOREM ClickFindsWhoIsShown == Spec => []PickHasCause
  <1> QED BY InitPickInv, NextPickInv, PickInvFinds, PTL DEF Spec
=============================================================================
