------------------------- MODULE ClassSelection_proofs -------------------------
(***************************************************************************)
(* Proofs about the choice of a class.                                     *)
(***************************************************************************)
EXTENDS ClassSelection, WellFoundedInduction, FiniteSetTheorems, TLAPS

(* The greatest element of a set of places, which GetSelClassid takes,      *)
(* exists: what is left of n for each of them has a least one.              *)
LEMMA LeastExists ==
  ASSUME NEW S \in SUBSET Nat, S # {}
  PROVE  \E x \in S : \A y \in S : x <= y
  <1> DEFINE R == OpToRel(<, Nat)
  <1>1. IsWellFoundedOn(R, Nat)
    BY NatLessThanWellFounded, Zenon
  <1>2. \A x, y \in Nat : x < y => <<x, y>> \in R
    BY Zenon DEF OpToRel
  <1> HIDE DEF R
  <1>3. PICK x \in S : \A y \in S : ~(<<y, x>> \in R)
    BY <1>1, WFMin
  <1>4. \A y \in S : ~(y < x)
    BY <1>2, <1>3
  <1> QED BY <1>4

LEMMA MaxIsMember ==
  ASSUME NEW n \in Nat, NEW S \in SUBSET (1 .. n), S # {}
  PROVE  Max(S) \in S
  <1> DEFINE Left == {n - x : x \in S}
  <1>1. Left \in SUBSET Nat /\ Left # {}
    <2>1. \A x \in S : n - x \in Nat
      OBVIOUS
    <2>2. PICK x \in S : TRUE
      OBVIOUS
    <2> QED BY <2>1, <2>2
  <1> HIDE DEF Left
  <1>2. PICK t \in Left : \A u \in Left : t <= u
    BY <1>1, LeastExists
  <1>3. PICK x \in S : t = n - x
    BY <1>2 DEF Left
  <1>4. ASSUME NEW y \in S
        PROVE  x >= y
    <2>1. n - y \in Left
      BY DEF Left
    <2> QED BY <2>1, <1>2, <1>3
  <1> QED BY <1>4 DEF Max

(* ... and is the only one when there is at most one.                       *)
LEMMA MaxOfOne ==
  ASSUME NEW n \in Nat, NEW S \in SUBSET (1 .. n), NEW i \in S, Cardinality(S) <= 1
  PROVE  Max(S) = i
  <1>1. IsFiniteSet(S) /\ Cardinality(S) \in Nat
    <2>1. IsFiniteSet(1 .. n)
      BY FS_Interval
    <2>2. IsFiniteSet(S)
      BY <2>1, FS_Subset
    <2> QED BY <2>2, FS_CardinalityType
  <1>2. Max(S) \in S
    BY MaxIsMember
  <1>3. IsFiniteSet({i, Max(S)}) /\ Cardinality({i, Max(S)}) <= Cardinality(S)
    BY <1>1, <1>2, FS_Subset
  <1>4. Max(S) # i => Cardinality({i, Max(S)}) = 2
    <2>1. IsFiniteSet({i}) /\ Cardinality({i}) = 1
      BY FS_Singleton
    <2>2. Max(S) # i => Cardinality({i} \cup {Max(S)}) = Cardinality({i}) + 1
      BY <2>1, FS_AddElement
    <2>3. {i} \cup {Max(S)} = {i, Max(S)}
      OBVIOUS
    <2> QED BY <2>1, <2>2, <2>3
  <1> QED BY <1>1, <1>3, <1>4

-----------------------------------------------------------------------------
(* The list and the rooms are loaded before anything else can happen.       *)
Loading == phase = "templates" => g_ndex = 0 /\ list = <<>>

(* What the answers are made of.                                            *)
LEMMA TemplatesAreTyped ==
  ASSUME NEW a \in TemplateAnswers
  PROVE  GetClassTemplate(a) \in Seq(Template)
  <1> DEFINE l == GetClassTemplate(a)
             Ids == {r.id : r \in Range(a.rows)}
  <1>1. a \in Answer(Ids)
    BY AnswersAssumption
  <1>2. a.rows \in Seq([id : Ids, name : Name])
    BY <1>1 DEF Answer
  <1>3. PICK n \in Nat : DOMAIN l = 1 .. n /\ l = [i \in 1 .. n |-> l[i]]
    <2>1. CASE Granted(a) /\ Legible(a) /\ a.data = "list"
      <3>1. l = [i \in 1 .. Len(a.rows) |-> [a.rows[i] EXCEPT !.name = Latin1(@)]]
        BY <1>2, <2>1 DEF GetClassTemplate
      <3> QED BY <1>2, <3>1
    <2>2. CASE ~(Granted(a) /\ Legible(a) /\ a.data = "list")
      <3>1. l = <<>>
        BY <2>2 DEF GetClassTemplate
      <3> HIDE DEF l
      <3>2. DOMAIN l = 1 .. 0 /\ l = [i \in 1 .. 0 |-> l[i]]
        BY <3>1
      <3> QED BY <3>2
    <2> QED BY <2>1, <2>2
  <1>4. \A i \in 1 .. n : l[i] \in Template
    BY <1>3 DEF Range, Template
  <1> HIDE DEF l
  <1>5. l \in Seq(Template)
    <2> DEFINE U == Template
    <2>1. \A i \in 1 .. n : l[i] \in U
      BY <1>4
    <2> HIDE DEF U
    <2>2. l \in [1 .. n -> U]
      BY <1>3, <2>1
    <2>3. l \in Seq(U)
      BY <1>3, <2>2
    <2> QED BY <2>3 DEF U
  <1> QED BY <1>5 DEF l

LEMMA ListIsTyped ==
  ASSUME TypeOK
  PROVE  /\ Size \in Nat /\ DOMAIN list = 1 .. Size
         /\ \A i \in 1 .. Size : list[i] \in Template
  <1>1. list \in Seq(Template)
    BY DEF TypeOK
  <1> QED BY <1>1 DEF Size

(* The class that is asked for, and the place SetClassState paints.         *)
LEMMA SelectionIsTyped ==
  ASSUME TypeOK, NEW k \in Label, NEW s \in GetSelClassid(k)
  PROVE  s \in [id : TemplateId, ndex : Garbage]
  <1>1. CASE Same(k) = {}
    BY <1>1 DEF GetSelClassid, TemplateId
  <1>2. CASE Same(k) # {}
    <2>1. Size \in Nat /\ DOMAIN list = 1 .. Size /\ \A i \in 1 .. Size : list[i] \in Template
      BY ListIsTyped
    <2>2. Same(k) \in SUBSET (1 .. Size)
      BY <2>1 DEF Same
    <2>3. Max(Same(k)) \in 1 .. Size
      BY <1>2, <2>1, <2>2, MaxIsMember
    <2>4. list[Max(Same(k))].id \in TemplateId
      BY <2>1, <2>3 DEF TemplateId
    <2>5. s = [id |-> list[Max(Same(k))].id, ndex |-> k]
      BY <1>2 DEF GetSelClassid
    <2>6. k \in Garbage
      BY DEF Garbage
    <2> QED BY <2>4, <2>5, <2>6
  <1> QED BY <1>1, <1>2

(* What a page is given are places in the list, and the page after it is a  *)
(* page again.                                                              *)
LEMMA PagesAreTyped ==
  ASSUME NEW l, NEW n \in Nat, n = Len(l), n > 0, g_ndex \in Nat,
         label \in [Label -> 0 .. n], NEW back \in BOOLEAN
  PROVE  /\ Page = g_ndex
         /\ Shown(l) \in [Label -> 0 .. n]
         /\ Following(l, back) \in Nat
         /\ Range(Shown(l)) \subseteq 0 .. n
  <1>1. Page = g_ndex
    BY DEF Page
  <1>2. ASSUME NEW k \in Label
        PROVE  Shown(l)[k] \in 0 .. n
    <2>1. k \in 0 .. 2 /\ label[k] \in 0 .. n
      BY DEF Label
    <2>2. 3 * Page + k < n => 3 * Page + k + 1 \in 0 .. n
      BY <1>1, <2>1
    <2>3. Shown(l)[k] = IF k = 2 /\ 3 * Page + k >= n - 1 THEN 0
                        ELSE IF 3 * Page + k < n THEN 3 * Page + k + 1 ELSE label[k]
      BY DEF Shown
    <2>4. 0 \in 0 .. n
      OBVIOUS
    <2> QED BY <2>1, <2>2, <2>3, <2>4
  <1>3. Shown(l) \in [Label -> 0 .. n]
    BY <1>2 DEF Shown
  <1>4. Following(l, back) \in Nat
    <2>1. 3 * g_ndex >= 1 => g_ndex - 1 \in Nat
      OBVIOUS
    <2>2. g_ndex + 1 \in Nat
      OBVIOUS
    <2> QED BY <1>1, <2>1, <2>2 DEF Following
  <1>5. Range(Shown(l)) \subseteq 0 .. n
    BY <1>3 DEF Range
  <1> QED BY <1>1, <1>3, <1>4, <1>5

LEMMA InitIsTyped == Init => TypeOK /\ Loading
  <1> SUFFICES ASSUME Init PROVE TypeOK /\ Loading
    OBVIOUS
  <1> USE DEF Init
  <1>1. list \in Seq(Template) /\ Size = 0
    BY DEF Size
  <1>2. calls \in Seq([n : Request, sel : [id : TemplateId, ndex : Garbage],
                       answer : Replies \cup {Nothing, Pending}])
    OBVIOUS
  <1>3. /\ g_ndex \in Nat /\ page \in Nat /\ clicks \in 0 .. MaxClicks
        /\ newest \in 0 .. MaxClicks
    BY MaxClicksAssumption
  <1>4. label \in [Label -> 0 .. Size] /\ seen \subseteq 0 .. Size
    BY <1>1
  <1>5. last \in [aim : 0 .. Size, fate : {"none", "asked", "no room", "refused",
                                           "started", "misread"}]
    BY <1>1
  <1>6. sel \in Label \cup {-1} /\ colour \in [Label -> {"grey", "yellow", "white"}]
    OBVIOUS
  <1>7. TypeOK
    BY <1>1, <1>2, <1>3, <1>4, <1>5, <1>6, Zenon DEF TypeOK
  <1> QED BY <1>7 DEF Loading

(* Showing a page of any list keeps the labels and the pages in their range. *)
LEMMA ShowingIsTyped ==
  ASSUME NEW l \in Seq(Template), NEW back \in BOOLEAN, initclasst(l, back),
         g_ndex \in Nat, page \in Nat,
         label \in [Label -> 0 .. Len(l)], seen \subseteq 0 .. Len(l)
  PROVE  /\ label' \in [Label -> 0 .. Len(l)] /\ seen' \subseteq 0 .. Len(l)
         /\ g_ndex' \in Nat /\ page' \in Nat
  <1>1. CASE l = <<>>
    <2>1. UNCHANGED <<g_ndex, label, page, seen>>
      BY <1>1 DEF initclasst, paging
    <2> QED BY <2>1
  <1>2. CASE l # <<>>
    <2> DEFINE n == Len(l)
    <2>1. n \in Nat /\ n > 0
      BY <1>2
    <2>2. /\ label' = Shown(l) /\ g_ndex' = Following(l, back) /\ page' = Page
          /\ seen' = seen \cup Range(label')
      BY <1>2 DEF initclasst
    <2>3. /\ Page = g_ndex /\ Shown(l) \in [Label -> 0 .. n]
          /\ Following(l, back) \in Nat /\ Range(Shown(l)) \subseteq 0 .. n
      BY <2>1, PagesAreTyped
    <2>4. seen' \subseteq 0 .. n
      BY <2>2, <2>3
    <2> QED BY <2>2, <2>3, <2>4
  <1> QED BY <1>1, <1>2

LEMMA PagingKeepsTypes ==
  ASSUME TypeOK, Loading,
         \/ \E a \in TemplateAnswers : LoadTemplates(a)
         \/ \E a \in RoomAnswers : LoadRooms(a)
         \/ \E back \in BOOLEAN : TurnPage(back)
  PROVE  TypeOK' /\ Loading'
  <1> DEFINE Fates == {"none", "asked", "no room", "refused", "started", "misread"}
             Calls == Seq([n : Request, sel : [id : TemplateId, ndex : Garbage],
                           answer : Replies \cup {Nothing, Pending}])
             Colours == [Label -> {"grey", "yellow", "white"}]
             Requests == [n : Request, id : TemplateId]
             Rooms == {GetRoomId(a) : a \in RoomAnswers} \cup {<<>>}
             Typed == /\ phase' \in {"rooms", "shown"}
                      /\ list' \in Seq(Template) /\ rooms' \in Rooms
                      /\ last' \in [aim : 0 .. Size', fate : Fates]
                      /\ label' \in [Label -> 0 .. Size'] /\ seen' \subseteq 0 .. Size'
                      /\ g_ndex' \in Nat /\ page' \in Nat
  <1>1. /\ colour' \in Colours /\ sel' \in Label \cup {-1}
        /\ clicks' \in 0 .. MaxClicks /\ calls' \in Calls
        /\ inflight' \subseteq Requests /\ running' \in TemplateId \cup {"none"}
        /\ blamed' \subseteq Garbage /\ newest' \in 0 .. MaxClicks
        /\ reordered' \in BOOLEAN /\ last' = last
    <2>1. UNCHANGED <<colour, sel, clicks, calls, inflight, running, newest, reordered,
                      last, blamed>>
      BY DEF LoadTemplates, LoadRooms, TurnPage, service
    <2> QED BY <2>1 DEF TypeOK
  <1>2. /\ list \in Seq(Template) /\ Size \in Nat /\ rooms \in Rooms
        /\ last \in [aim : 0 .. Size, fate : Fates]
        /\ label \in [Label -> 0 .. Size] /\ seen \subseteq 0 .. Size
        /\ g_ndex \in Nat /\ page \in Nat
    <2>1. Size \in Nat
      BY ListIsTyped
    <2> QED BY <2>1 DEF TypeOK
  <1>3. ASSUME NEW a \in TemplateAnswers, LoadTemplates(a)
        PROVE  Typed
    <2>1. /\ list' = GetClassTemplate(a) /\ initclasst(list', FALSE) /\ phase' = "rooms"
          /\ rooms' = rooms /\ list = <<>>
      BY <1>3 DEF LoadTemplates, Loading
    <2> DEFINE l == list'
               n == Len(l)
    <2>2. l \in Seq(Template) /\ n \in Nat /\ Size' = n /\ Size = 0
      <3>1. l \in Seq(Template) /\ Size = 0
        BY <2>1, TemplatesAreTyped DEF Size
      <3> QED BY <3>1 DEF Size
    <2> HIDE DEF l
    <2>3. /\ label \in [Label -> 0 .. n] /\ seen \subseteq 0 .. n
          /\ last \in [aim : 0 .. n, fate : Fates]
      <3>1. 0 .. Size \subseteq 0 .. n
        BY <2>2
      <3> QED BY <1>2, <3>1
    <2>4. initclasst(l, FALSE)
      BY <2>1 DEF l
    <2>5. /\ label' \in [Label -> 0 .. n] /\ seen' \subseteq 0 .. n
          /\ g_ndex' \in Nat /\ page' \in Nat
      BY <1>2, <2>2, <2>3, <2>4, ShowingIsTyped
    <2> QED BY <1>1, <1>2, <2>1, <2>2, <2>3, <2>5 DEF l
  <1>4. ASSUME NEW a \in RoomAnswers, LoadRooms(a)
        PROVE  Typed
    <2>1. /\ rooms' = GetRoomId(a) /\ phase' = "shown"
          /\ UNCHANGED <<list, g_ndex, label, page, seen, last>>
      BY <1>4 DEF LoadRooms, paging
    <2>2. rooms' \in Rooms /\ Size' = Size
      BY <2>1 DEF Size
    <2> QED BY <1>2, <2>1, <2>2
  <1>5. ASSUME NEW back \in BOOLEAN, TurnPage(back)
        PROVE  Typed
    <2>1. phase = "shown" /\ initclasst(list, back) /\ UNCHANGED <<phase, list, rooms, last>>
      BY <1>5 DEF TurnPage, loaded
    <2>2. Size' = Size
      BY <2>1 DEF Size
    <2>3. /\ label' \in [Label -> 0 .. Size] /\ seen' \subseteq 0 .. Size
          /\ g_ndex' \in Nat /\ page' \in Nat
      BY <1>2, <2>1, ShowingIsTyped DEF Size
    <2> QED BY <1>2, <2>1, <2>2, <2>3
  <1>6. Typed
    BY <1>3, <1>4, <1>5
  <1>7. /\ phase' \in {"templates", "rooms", "shown", "crashed"} /\ phase' # "templates"
        /\ list' \in Seq(Template) /\ rooms' \in Rooms
        /\ last' \in [aim : 0 .. Size', fate : Fates]
        /\ label' \in [Label -> 0 .. Size'] /\ seen' \subseteq 0 .. Size'
        /\ g_ndex' \in Nat /\ page' \in Nat
    BY <1>6
  <1>8. TypeOK'
    BY <1>1, <1>7, Zenon DEF TypeOK
  <1> QED BY <1>7, <1>8 DEF Loading

(* The stack of calls, as a function.                                       *)
CallRecord == [n : Request, sel : [id : TemplateId, ndex : Garbage],
               answer : Replies \cup {Nothing, Pending}]

LEMMA CallsAreTyped ==
  ASSUME TypeOK
  PROVE  /\ calls \in Seq(CallRecord) /\ Len(calls) \in Nat
         /\ DOMAIN calls = 1 .. Len(calls)
         /\ \A c \in DOMAIN calls : calls[c] \in CallRecord
  <1>1. calls \in Seq(CallRecord)
    BY DEF TypeOK, CallRecord
  <1> QED BY <1>1

(* Another answer for some of the calls is still a stack of calls.          *)
LEMMA OtherAnswers ==
  ASSUME NEW s \in Seq(CallRecord), NEW A, A \subseteq Replies \cup {Nothing, Pending},
         NEW t, DOMAIN t = DOMAIN s, t = [c \in DOMAIN s |-> t[c]],
         \A c \in DOMAIN s : t[c] = s[c] \/ \E a \in A : t[c] = [s[c] EXCEPT !.answer = a]
  PROVE  t \in Seq(CallRecord)
  <1>1. ASSUME NEW c \in DOMAIN s
        PROVE  t[c] \in CallRecord
    <2>1. s[c] \in CallRecord
      OBVIOUS
    <2>2. \A a \in A : [s[c] EXCEPT !.answer = a] \in CallRecord
      BY <2>1 DEF CallRecord
    <2> QED BY <2>1, <2>2
  <1> DEFINE U == CallRecord
  <1>2. \A c \in 1 .. Len(s) : t[c] \in U
    BY <1>1
  <1> HIDE DEF U
  <1>3. Len(s) \in Nat /\ DOMAIN s = 1 .. Len(s)
    OBVIOUS
  <1>4. t \in [1 .. Len(s) -> U]
    BY <1>2, <1>3
  <1>5. t \in Seq(U)
    BY <1>3, <1>4
  <1> QED BY <1>5 DEF U

LEMMA CallsKeepTypes ==
  ASSUME TypeOK, Loading,
         \/ \E k \in Label : Click(k)
         \/ \E q \in inflight, a \in Replies : Serve(q, a) \/ Refuse(q, a)
         \/ \E c \in Request : Timeout(c)
         \/ Return
  PROVE  TypeOK' /\ Loading'
  <1> DEFINE Fates == {"none", "asked", "no room", "refused", "started", "misread"}
             Colours == [Label -> {"grey", "yellow", "white"}]
             Requests == [n : Request, id : TemplateId]
             Typed == /\ phase' \in {"shown", "crashed"}
                      /\ colour' \in Colours /\ sel' \in Label \cup {-1}
                      /\ clicks' \in 0 .. MaxClicks /\ calls' \in Seq(CallRecord)
                      /\ inflight' \subseteq Requests
                      /\ running' \in TemplateId \cup {"none"}
                      /\ last' \in [aim : 0 .. Size, fate : Fates]
                      /\ blamed' \subseteq Garbage /\ newest' \in 0 .. MaxClicks
                      /\ reordered' \in BOOLEAN
  <1>0. clicks \in 0 .. MaxClicks /\ newest \in 0 .. MaxClicks /\ MaxClicks \in Nat
    BY MaxClicksAssumption DEF TypeOK
  <1>1. UNCHANGED <<list, rooms, g_ndex, label, page, seen>>
    BY DEF Click, Serve, Refuse, Timeout, Return, loaded, paging
  <1>2. Size' = Size
    BY <1>1 DEF Size
  <1>3. /\ colour \in Colours /\ sel \in Label \cup {-1} /\ clicks \in 0 .. MaxClicks
        /\ calls \in Seq(CallRecord) /\ inflight \subseteq Requests
        /\ running \in TemplateId \cup {"none"} /\ last \in [aim : 0 .. Size, fate : Fates]
        /\ blamed \subseteq Garbage /\ newest \in 0 .. MaxClicks /\ reordered \in BOOLEAN
        /\ label \in [Label -> 0 .. Size]
    BY DEF TypeOK, CallRecord
  <1>4. ASSUME NEW k \in Label, Click(k)
        PROVE  Typed
    <2>1. /\ phase = "shown" /\ clicks < MaxClicks /\ clicks' = clicks + 1 /\ sel' = k
          /\ colour' = [j \in Label |-> IF j = k THEN "yellow" ELSE "grey"]
          /\ blamed' = {} /\ on_class_startrp(clicks', k)
          /\ UNCHANGED <<phase, running, newest, reordered>>
      BY <1>4 DEF Click, loaded, service
    <2>2. clicks' \in Request /\ clicks' \in 0 .. MaxClicks
      <3>1. clicks + 1 \in 1 .. MaxClicks /\ clicks' = clicks + 1
        BY <1>0, <2>1
      <3> QED BY <3>1 DEF Request
    <2>3. label[k] \in 0 .. Size
      BY <1>3
    <2>4. CASE rooms = <<>>
      <3>1. last' = [aim |-> label[k], fate |-> "no room"] /\ UNCHANGED <<calls, inflight>>
        BY <2>1, <2>4 DEF on_class_startrp
      <3> QED BY <1>3, <2>1, <2>2, <2>3, <3>1
    <2>5. CASE rooms # <<>>
      <3>1. last' = [aim |-> label[k], fate |-> "asked"]
        BY <2>1, <2>5 DEF on_class_startrp
      <3>2. PICK s \in GetSelClassid(k) :
              /\ calls' = Append(calls, [n |-> clicks', sel |-> s, answer |-> Pending])
              /\ inflight' = inflight \cup {[n |-> clicks', id |-> s.id]}
        BY <2>1, <2>5 DEF on_class_startrp
      <3>3. s \in [id : TemplateId, ndex : Garbage]
        BY SelectionIsTyped
      <3>4. [n |-> clicks', sel |-> s, answer |-> Pending] \in CallRecord
        BY <2>2, <3>3 DEF CallRecord
      <3>5. calls' \in Seq(CallRecord)
        <4> DEFINE U == CallRecord
                   r == [n |-> clicks', sel |-> s, answer |-> Pending]
        <4>1. calls \in Seq(U) /\ r \in U /\ calls' = Append(calls, r)
          BY <1>3, <3>2, <3>4
        <4> HIDE DEF U, r
        <4>2. calls' \in Seq(U)
          BY <4>1
        <4> QED BY <4>2 DEF U
      <3>6. inflight' \subseteq Requests
        <4>1. [n |-> clicks', id |-> s.id] \in Requests
          BY <2>2, <3>3
        <4>2. inflight \subseteq Requests
          BY <1>3
        <4> QED BY <3>2, <4>1, <4>2
      <3> QED BY <1>3, <2>1, <2>2, <2>3, <3>1, <3>5, <3>6
    <2> QED BY <2>4, <2>5
  <1>5. ASSUME NEW q \in inflight, NEW a \in Replies, Answered(q.n, a)
        PROVE  calls' \in Seq(CallRecord)
    <2>1. calls' = [c \in DOMAIN calls |-> IF Waiting(c, q.n)
                                           THEN [calls[c] EXCEPT !.answer = a] ELSE calls[c]]
      BY <1>5 DEF Answered
    <2> QED BY <1>3, <2>1, OtherAnswers
  <1>6. ASSUME NEW q \in inflight, NEW a \in Replies, Serve(q, a)
        PROVE  Typed
    <2>1. /\ phase = "shown" /\ inflight' = inflight \ {q} /\ running' = q.id
          /\ newest' = (IF q.n > newest THEN q.n ELSE newest)
          /\ reordered' = (reordered \/ q.n < newest) /\ Answered(q.n, a)
          /\ UNCHANGED <<phase, colour, sel, clicks, last, blamed>>
      BY <1>6 DEF Serve, loaded
    <2>2. q.n \in 1 .. MaxClicks /\ q.id \in TemplateId
      BY <1>3 DEF Request
    <2>3. newest' \in 0 .. MaxClicks
      BY <1>0, <2>1, <2>2
    <2>4. reordered' \in BOOLEAN
      BY <2>1, Zenon
    <2>5. calls' \in Seq(CallRecord)
      BY <1>5, <2>1
    <2> QED BY <1>3, <2>1, <2>2, <2>3, <2>4, <2>5
  <1>7. ASSUME NEW q \in inflight, NEW a \in Replies, Refuse(q, a)
        PROVE  Typed
    <2>1. /\ phase = "shown" /\ inflight' = inflight \ {q} /\ Answered(q.n, a)
          /\ UNCHANGED <<phase, colour, sel, clicks, running, newest, reordered, last, blamed>>
      BY <1>7 DEF Refuse, loaded, service
    <2>2. calls' \in Seq(CallRecord)
      BY <1>5, <2>1
    <2> QED BY <1>3, <2>1, <2>2
  <1>8. ASSUME NEW c \in Request, Timeout(c)
        PROVE  Typed
    <2>1. /\ phase = "shown" /\ calls' = [calls EXCEPT ![c].answer = Nothing]
          /\ UNCHANGED <<phase, colour, sel, clicks, inflight, running, newest, reordered,
                         last, blamed>>
      BY <1>8 DEF Timeout, loaded, service
    <2>2. calls' \in Seq(CallRecord)
      BY <1>3, <2>1, OtherAnswers
    <2> QED BY <1>3, <2>1, <2>2
  <1>9. ASSUME Return
        PROVE  Typed
    <2> DEFINE c == calls[Len(calls)]
               a == c.answer
    <2>1. /\ phase = "shown" /\ calls # <<>>
          /\ IF GetRespose(a) THEN UNCHANGED <<colour, phase>> ELSE SetClassState(c.sel.ndex)
          /\ IF c.n = clicks
             THEN last' = [last EXCEPT !.fate = Fate(a)] /\ UNCHANGED blamed
             ELSE /\ blamed' = IF GetRespose(a) THEN blamed ELSE blamed \cup {c.sel.ndex}
                  /\ UNCHANGED last
          /\ calls' = SubSeq(calls, 1, Len(calls) - 1)
          /\ UNCHANGED <<sel, clicks, inflight, running, newest, reordered>>
      BY <1>9 DEF Return, service
    <2>2. c \in CallRecord /\ Len(calls) \in Nat /\ Len(calls) > 0
      <3>1. calls \in Seq(CallRecord)
        BY <1>3
      <3> QED BY <2>1, <3>1
    <2>3. c.sel.ndex \in Garbage
      BY <2>2 DEF CallRecord
    <2>4. calls' \in Seq(CallRecord)
      <3> DEFINE U == CallRecord
      <3>1. calls \in Seq(U) /\ calls' = SubSeq(calls, 1, Len(calls) - 1)
        BY <1>3, <2>1
      <3> HIDE DEF U
      <3>2. calls' \in Seq(U)
        BY <2>2, <3>1
      <3> QED BY <3>2 DEF U
    <2>5. colour' \in Colours /\ phase' \in {"shown", "crashed"}
      <3>1. colour \in Colours
        BY <1>3
      <3> DEFINE Painted == [k \in Label |-> IF k = c.sel.ndex THEN "white" ELSE colour[k]]
      <3>2. Painted \in Colours
        BY <3>1
      <3>3. /\ colour' = colour \/ colour' = Painted
            /\ phase' = phase \/ phase' = "crashed"
        BY <2>1, Zenon DEF SetClassState
      <3> QED BY <2>1, <3>1, <3>2, <3>3
    <2>6. Fate(a) \in Fates
      BY DEF Fate
    <2>7. last' \in [aim : 0 .. Size, fate : Fates]
      BY <1>3, <2>1, <2>6
    <2>8. blamed' \subseteq Garbage
      <3>1. blamed \subseteq Garbage
        BY <1>3
      <3> QED BY <2>1, <2>3, <3>1
    <2> QED BY <1>3, <2>1, <2>4, <2>5, <2>7, <2>8
  <1>10. Typed
    BY <1>4, <1>6, <1>7, <1>8, <1>9
  <1>11. /\ list \in Seq(Template) /\ rooms \in {GetRoomId(a) : a \in RoomAnswers} \cup {<<>>}
         /\ label \in [Label -> 0 .. Size] /\ seen \subseteq 0 .. Size
         /\ g_ndex \in Nat /\ page \in Nat
    BY DEF TypeOK
  <1>12. /\ list' \in Seq(Template)
         /\ rooms' \in {GetRoomId(a) : a \in RoomAnswers} \cup {<<>>}
         /\ label' \in [Label -> 0 .. Size'] /\ seen' \subseteq 0 .. Size'
         /\ g_ndex' \in Nat /\ page' \in Nat /\ last' \in [aim : 0 .. Size', fate : Fates]
    BY <1>1, <1>2, <1>10, <1>11
  <1>13. phase' \in {"templates", "rooms", "shown", "crashed"} /\ phase' # "templates"
    BY <1>10
  <1>14. TypeOK'
    BY <1>10, <1>12, <1>13, Zenon DEF TypeOK, CallRecord
  <1> QED BY <1>13, <1>14 DEF Loading

-----------------------------------------------------------------------------
(* The classes of the first m pages have been seen, but for the one that is *)
(* last on a full last page.                                                *)
SeenUpTo(m) ==
  \A i \in 1 .. Size : i <= 3 * m => i \in seen \/ (i = Size /\ Size % 3 = 0)

(* Both the page shown last and the one to come begin within the list, and  *)
(* all before them, and the page shown last itself, have been seen.  The    *)
(* run's WalkedThrough says so of a page shown that is the last.            *)
Pages ==
  list # <<>> /\ phase # "templates" =>
    /\ 3 * g_ndex < Size /\ 3 * page < Size
    /\ SeenUpTo(g_ndex) /\ SeenUpTo(page + 1)

(* Showing a page of n classes: its classes are seen, and the page to come  *)
(* is at most the one after it.                                             *)
LEMMA ShowingAPage ==
  ASSUME NEW l, NEW n \in Nat, n = Len(l), n > 0, g_ndex \in Nat, 3 * g_ndex < n,
         label \in [Label -> 0 .. n], NEW back \in BOOLEAN
  PROVE  /\ Following(l, back) \in Nat /\ 3 * Following(l, back) < n
         /\ Following(l, back) <= g_ndex + 1
         /\ \A i \in 1 .. n : 3 * g_ndex < i /\ i <= 3 * g_ndex + 3 =>
              i \in Range(Shown(l)) \/ (i = n /\ n % 3 = 0)
  <1>1. Page = g_ndex
    BY DEF Page
  <1>2. Following(l, back) = IF back THEN IF 3 * g_ndex >= 1 THEN g_ndex - 1 ELSE g_ndex
                             ELSE IF 3 * g_ndex + 2 < n - 1 THEN g_ndex + 1 ELSE g_ndex
    BY <1>1 DEF Following
  <1>3. ASSUME NEW i \in 1 .. n, 3 * g_ndex < i, i <= 3 * g_ndex + 3
        PROVE  i \in Range(Shown(l)) \/ (i = n /\ n % 3 = 0)
    <2> DEFINE k == i - 1 - 3 * g_ndex
    <2>1. k \in Label /\ 3 * g_ndex + k = i - 1
      BY <1>3 DEF Label
    <2>2. Shown(l)[k] = IF k = 2 /\ 3 * g_ndex + k >= n - 1 THEN 0
                        ELSE IF 3 * g_ndex + k < n THEN 3 * g_ndex + k + 1 ELSE label[k]
      BY <1>1, <2>1 DEF Shown
    <2>3. DOMAIN Shown(l) = Label
      BY DEF Shown
    <2>4. CASE k = 2 /\ i = n
      <3>1. n = 3 * (g_ndex + 1)
        BY <2>1, <2>4
      <3>2. n % 3 = 0
        BY <3>1
      <3> QED BY <2>4, <3>2
    <2>5. CASE ~(k = 2 /\ i = n)
      <3>1. Shown(l)[k] = i
        BY <2>1, <2>2, <2>5
      <3> QED BY <2>1, <2>3, <3>1 DEF Range
    <2> QED BY <2>4, <2>5
  <1> QED BY <1>2, <1>3

LEMMA PagesInit == Init => Pages
  BY DEF Init, Pages

LEMMA PagesStep == TypeOK /\ TypeOK' /\ Loading /\ Pages /\ [Next]_vars => Pages'
  <1> SUFFICES ASSUME TypeOK, TypeOK', Loading, Pages, [Next]_vars
               PROVE  Pages'
    OBVIOUS
  <1> DEFINE n == Len(list')
  <1>1. /\ Size \in Nat /\ g_ndex \in Nat /\ page \in Nat /\ label \in [Label -> 0 .. Size]
        /\ n \in Nat /\ (list' # <<>> => n > 0)
    <2>1. list' \in Seq(Template)
      BY DEF TypeOK
    <2>2. Size \in Nat
      BY ListIsTyped
    <2>3. g_ndex \in Nat /\ page \in Nat /\ label \in [Label -> 0 .. Size]
      BY DEF TypeOK
    <2> QED BY <2>1, <2>2, <2>3
  <1>2. ASSUME NEW back \in BOOLEAN, initclasst(list', back), list' # <<>>,
               3 * g_ndex < n, label \in [Label -> 0 .. n],
               \A i \in 1 .. n : i <= 3 * g_ndex => i \in seen \/ (i = n /\ n % 3 = 0)
        PROVE  Pages'
    <2>1. /\ label' = Shown(list') /\ g_ndex' = Following(list', back)
          /\ page' = g_ndex /\ seen' = seen \cup Range(label')
      BY <1>1, <1>2 DEF initclasst, Page
    <2>2. n \in Nat /\ n > 0
      BY <1>1, <1>2
    <2>3. /\ g_ndex' \in Nat /\ 3 * g_ndex' < n /\ g_ndex' <= g_ndex + 1
          /\ \A i \in 1 .. n : 3 * g_ndex < i /\ i <= 3 * g_ndex + 3 =>
               i \in Range(label') \/ (i = n /\ n % 3 = 0)
      BY <1>1, <1>2, <2>1, <2>2, ShowingAPage
    <2>4. ASSUME NEW i \in 1 .. n, i <= 3 * g_ndex + 3
          PROVE  i \in seen' \/ (i = n /\ n % 3 = 0)
      <3>1. CASE i <= 3 * g_ndex
        BY <1>2, <2>1, <3>1
      <3>2. CASE i > 3 * g_ndex
        <4>1. i \in Range(label') \/ (i = n /\ n % 3 = 0)
          BY <1>1, <2>3, <2>4, <3>2
        <4> QED BY <2>1, <4>1
      <3> QED BY <1>1, <2>2, <3>1, <3>2
    <2>5. 3 * page' < n /\ 3 * (page' + 1) = 3 * g_ndex + 3 /\ 3 * g_ndex' <= 3 * g_ndex + 3
      BY <1>1, <1>2, <2>1, <2>3
    <2> HIDE DEF n
    <2>6. ASSUME NEW i \in 1 .. n, i <= 3 * g_ndex'
          PROVE  i \in seen' \/ (i = n /\ n % 3 = 0)
      <3>1. n \in Nat /\ i \in Nat /\ g_ndex \in Nat
        BY <1>1, <2>2
      <3>2. PICK g \in Nat : g = g_ndex'
        BY <2>3
      <3>3. i <= 3 * g /\ g <= g_ndex + 1
        BY <2>3, <2>6, <3>2
      <3>4. i <= 3 * g_ndex + 3
        BY <3>1, <3>3
      <3> QED BY <2>4, <3>4
    <2>7. \A i \in 1 .. n : i <= 3 * (page' + 1) => i \in seen' \/ (i = n /\ n % 3 = 0)
      BY <2>4, <2>5
    <2>8. Size' = n
      BY DEF Size, n
    <2> QED BY <2>3, <2>5, <2>6, <2>7, <2>8, Zenon DEF Pages, SeenUpTo
  <1>3. ASSUME NEW a \in TemplateAnswers, LoadTemplates(a)
        PROVE  Pages'
    <2>1. initclasst(list', FALSE) /\ g_ndex = 0 /\ Size = 0
      BY <1>3 DEF LoadTemplates, Loading, Size
    <2>2. CASE list' = <<>>
      BY <2>2 DEF Pages
    <2>3. CASE list' # <<>>
      <3>1. label \in [Label -> 0 .. n]
        <4>1. 0 .. Size \subseteq 0 .. n
          BY <1>1, <2>1
        <4> QED BY <1>1, <4>1
      <3>2. 3 * g_ndex < n /\ \A i \in 1 .. n : ~(i <= 3 * g_ndex)
        BY <1>1, <2>1, <2>3
      <3> QED BY <1>2, <2>1, <2>3, <3>1, <3>2
    <2> QED BY <2>2, <2>3
  <1>4. ASSUME NEW back \in BOOLEAN, TurnPage(back)
        PROVE  Pages'
    <2>1. phase = "shown" /\ initclasst(list, back) /\ list' = list
      BY <1>4 DEF TurnPage, loaded
    <2>2. CASE list' = <<>>
      BY <2>2 DEF Pages
    <2>3. CASE list' # <<>>
      <3>1. 3 * g_ndex < Size /\ SeenUpTo(g_ndex) /\ n = Size
        BY <2>1, <2>3 DEF Pages, Size
      <3>2. 3 * g_ndex < n /\ label \in [Label -> 0 .. n]
        BY <1>1, <3>1
      <3>3. \A i \in 1 .. n : i <= 3 * g_ndex => i \in seen \/ (i = n /\ n % 3 = 0)
        BY <3>1, Zenon DEF SeenUpTo
      <3>4. initclasst(list', back)
        BY <2>1
      <3> QED BY <1>2, <2>3, <3>2, <3>3, <3>4
    <2> QED BY <2>2, <2>3
  <1>5. ASSUME UNCHANGED <<list, g_ndex, page, seen>>, phase # "templates" \/ UNCHANGED phase
        PROVE  Pages'
    BY <1>5 DEF Pages, SeenUpTo, Size
  <1> QED BY <1>3, <1>4, <1>5
       DEF Next, vars, LoadRooms, Click, Serve, Refuse, Timeout, Return, loaded, paging

-----------------------------------------------------------------------------
(* The calls on the stack were made one after the other.                    *)
Ordered ==
  /\ \A c \in DOMAIN calls : calls[c].n <= clicks
  /\ \A c, d \in DOMAIN calls : c < d => calls[c].n < calls[d].n

(* No request is served, or may be, that was not made.                      *)
Numbers == newest <= clicks /\ \A q \in inflight : q.n <= clicks

(* The last click's fate is open as long as its call is on the stack, ...   *)
LastOpen == last.fate = "asked" <=> \E c \in DOMAIN calls : calls[c].n = clicks

(* ... and before the first click there is none.                            *)
Fresh == (last.fate = "none" <=> sel = -1) /\ (clicks = 0 => last.fate = "none")

(* At most the label clicked last is yellow.                                *)
OneYellow == \A k \in Label : colour[k] = "yellow" => k = sel

(* id is that of the class the last click meant, if only one has its name.  *)
SameAs(i) == {j \in DOMAIN list : list[j].name = list[i].name}

Meant(id) ==
  last.aim # 0 /\ Cardinality(SameAs(last.aim)) <= 1 => id = list[last.aim].id

(* The last click's call holds the label that was clicked, its request asks *)
(* for the class that was meant, and if it is granted it is the newest one  *)
(* served; ...                                                              *)
LastCall ==
  \A c \in DOMAIN calls : calls[c].n = clicks =>
    /\ last.aim # 0 => calls[c].sel.ndex = sel
    /\ Granted(calls[c].answer) => newest = clicks

LastRequest == \A q \in inflight : q.n = clicks => Meant(q.id)

(* ... then, in the order they were made, that class runs.                  *)
Running == newest = clicks /\ clicks > 0 /\ ~reordered => Meant(running)

Started == last.fate = "started" => newest = clicks

(* A refusal takes the yellow off; without one the label clicked keeps it,  *)
(* unless another call's refusal, to the same label, took it off.           *)
Refused == last.fate = "refused" /\ last.aim # 0 => colour[sel] # "yellow"

Kept ==
  last.fate \in {"asked", "no room", "started", "misread"} =>
    colour[sel] = "yellow" \/ sel \in blamed

CallsInv ==
  /\ Ordered /\ Numbers /\ LastOpen /\ Fresh /\ OneYellow /\ LastCall
  /\ LastRequest /\ Running /\ Started /\ Refused /\ Kept

LEMMA CallsInit == Init => CallsInv
  <1> SUFFICES ASSUME Init PROVE CallsInv
    OBVIOUS
  <1>1. DOMAIN calls = {}
    BY DEF Init
  <1>2. Ordered /\ LastOpen /\ LastCall
    BY <1>1 DEF Init, Ordered, LastOpen, LastCall
  <1>3. Numbers /\ LastRequest /\ Running /\ Started /\ Refused /\ Kept /\ Fresh /\ OneYellow
    BY DEF Init, Numbers, LastRequest, Running, Started, Refused, Kept, Fresh, OneYellow
  <1> QED BY <1>2, <1>3 DEF CallsInv

(* The list is loaded before the first click, and turning pages does not    *)
(* touch the calls.                                                         *)
LEMMA CallsThroughPaging ==
  ASSUME TypeOK, Loading, CallsInv,
         \/ \E a \in TemplateAnswers : LoadTemplates(a)
         \/ \E a \in RoomAnswers : LoadRooms(a)
         \/ \E back \in BOOLEAN : TurnPage(back)
         \/ UNCHANGED vars
  PROVE  CallsInv'
  <1>1. UNCHANGED <<colour, sel, clicks, calls, inflight, running, newest, reordered, last,
                    blamed>>
    BY DEF LoadTemplates, LoadRooms, TurnPage, service, vars
  <1>2. list' = list \/ last.aim = 0
    <2>1. ASSUME NEW a \in TemplateAnswers, LoadTemplates(a)
          PROVE  last.aim = 0
      <3>1. Size = 0
        BY <2>1 DEF LoadTemplates, Loading, Size
      <3>2. last.aim \in 0 .. Size
        BY DEF TypeOK
      <3> QED BY <3>1, <3>2
    <2>2. ASSUME \/ \E a \in RoomAnswers : LoadRooms(a)
                 \/ \E back \in BOOLEAN : TurnPage(back)
                 \/ UNCHANGED vars
          PROVE  list' = list
      BY <2>2 DEF LoadRooms, TurnPage, loaded, vars
    <2> QED BY <2>1, <2>2
  <1>3. \A id : Meant(id) => Meant(id)'
    BY <1>1, <1>2 DEF Meant, SameAs
  <1>4. Ordered' /\ Numbers' /\ LastOpen' /\ Fresh' /\ OneYellow' /\ LastCall'
    BY <1>1 DEF CallsInv, Ordered, Numbers, LastOpen, Fresh, OneYellow, LastCall
  <1>5. LastRequest' /\ Running' /\ Started' /\ Refused' /\ Kept'
    BY <1>1, <1>3 DEF CallsInv, LastRequest, Running, Started, Refused, Kept
  <1> QED BY <1>4, <1>5 DEF CallsInv

LEMMA NumbersAreTyped ==
  ASSUME TypeOK
  PROVE  /\ clicks \in Nat /\ newest \in Nat
         /\ \A q \in inflight : q.n \in Nat
         /\ \A c \in DOMAIN calls : calls[c].n \in Nat
  <1>1. clicks \in Nat /\ newest \in Nat
    <2>1. clicks \in 0 .. MaxClicks /\ newest \in 0 .. MaxClicks
      BY DEF TypeOK
    <2> QED BY <2>1, MaxClicksAssumption
  <1>2. \A q \in inflight : q.n \in Nat
    <2>1. inflight \subseteq [n : Request, id : TemplateId]
      BY DEF TypeOK
    <2> QED BY <2>1, MaxClicksAssumption DEF Request
  <1>3. \A c \in DOMAIN calls : calls[c].n \in Nat
    BY CallsAreTyped, MaxClicksAssumption DEF CallRecord, Request
  <1> QED BY <1>1, <1>2, <1>3

(* The class that a click asks for is the one meant.                        *)
LEMMA ClickAsksForMeant ==
  ASSUME TypeOK, NEW k \in Label, label[k] # 0, NEW s \in GetSelClassid(k)
  PROVE  /\ s.ndex = k
         /\ Cardinality(SameAs(label[k])) <= 1 => s.id = list[label[k]].id
  <1>1. Size \in Nat /\ DOMAIN list = 1 .. Size
    BY ListIsTyped
  <1>2. label[k] \in 1 .. Size
    <2>1. label[k] \in 0 .. Size
      BY DEF TypeOK
    <2> QED BY <1>1, <2>1
  <1>3. Same(k) = SameAs(label[k]) /\ label[k] \in Same(k)
    BY <1>1, <1>2 DEF Same, SameAs, Text
  <1>4. s = [id |-> list[Max(Same(k))].id, ndex |-> k]
    BY <1>3 DEF GetSelClassid
  <1>5. Same(k) \in SUBSET (1 .. Size)
    BY <1>1 DEF Same
  <1>6. Cardinality(Same(k)) <= 1 => Max(Same(k)) = label[k]
    BY <1>1, <1>3, <1>5, MaxOfOne
  <1> QED BY <1>3, <1>4, <1>6

LEMMA ClickStep ==
  ASSUME TypeOK, CallsInv, NEW k \in Label, Click(k)
  PROVE  CallsInv'
  <1> USE DEF CallsInv
  <1>1. /\ clicks' = clicks + 1 /\ sel' = k
        /\ colour' = [j \in Label |-> IF j = k THEN "yellow" ELSE "grey"]
        /\ on_class_startrp(clicks', k)
        /\ UNCHANGED <<list, running, newest, reordered>>
    BY DEF Click, loaded, service
  <1>2. /\ clicks \in Nat /\ newest \in Nat /\ newest < clicks' /\ clicks' \in Nat /\ clicks' # 0
        /\ \A c \in DOMAIN calls : calls[c].n \in Nat /\ calls[c].n < clicks'
        /\ \A q \in inflight : q.n \in Nat /\ q.n < clicks'
    <2>1. /\ newest <= clicks /\ \A q \in inflight : q.n <= clicks
          /\ \A c \in DOMAIN calls : calls[c].n <= clicks
      BY DEF Numbers, Ordered
    <2> QED BY <1>1, <2>1, NumbersAreTyped
  <1>3. last'.aim = label[k] /\ last'.fate \in {"asked", "no room"}
    <2>1. PICK f \in {"asked", "no room"} : last' = [aim |-> label[k], fate |-> f]
      BY <1>1, Zenon DEF on_class_startrp
    <2> QED BY <2>1
  <1>4. /\ Fresh' /\ OneYellow' /\ Running' /\ Started' /\ Refused' /\ Kept'
    <2>1. sel' # -1 /\ colour'[sel'] = "yellow"
      BY <1>1 DEF Label
    <2>2. newest' # clicks'
      BY <1>1, <1>2
    <2> QED BY <1>1, <1>2, <1>3, <2>1, <2>2
         DEF Fresh, OneYellow, Running, Started, Refused, Kept
  <1>5. CASE rooms = <<>>
    <2>1. last'.fate = "no room" /\ calls' = calls /\ inflight' = inflight
      <3>1. /\ last' = [aim |-> label[k], fate |-> "no room"]
            /\ calls' = calls /\ inflight' = inflight
        BY <1>1, <1>5, Zenon DEF on_class_startrp
      <3> QED BY <3>1
    <2>2. \A c \in DOMAIN calls : calls[c].n # clicks'
      BY <1>2
    <2>3. \A q \in inflight : q.n # clicks'
      BY <1>2
    <2>4. Ordered' /\ Numbers'
      <3>1. Ordered'
        <4>1. \A c \in DOMAIN calls : calls[c].n <= clicks'
          BY <1>2
        <4> QED BY <2>1, <4>1 DEF Ordered
      <3>2. newest' <= clicks' /\ \A q \in inflight' : q.n <= clicks'
        <4>1. newest <= clicks' /\ \A q \in inflight : q.n <= clicks'
          BY <1>2
        <4> QED BY <1>1, <2>1, <4>1
      <3> QED BY <3>1, <3>2 DEF Numbers
    <2>5. LastOpen' /\ LastCall' /\ LastRequest'
      BY <2>1, <2>2, <2>3 DEF LastOpen, LastCall, LastRequest
    <2> QED BY <1>4, <2>4, <2>5
  <1>6. CASE rooms # <<>>
    <2>1. last'.fate = "asked"
      <3>1. last' = [aim |-> label[k], fate |-> "asked"]
        BY <1>1, <1>6, Zenon DEF on_class_startrp
      <3> QED BY <3>1
    <2>2. PICK s \in GetSelClassid(k) :
            /\ calls' = Append(calls, [n |-> clicks', sel |-> s, answer |-> Pending])
            /\ inflight' = inflight \cup {[n |-> clicks', id |-> s.id]}
      BY <1>1, <1>6 DEF on_class_startrp
    <2> DEFINE m == Len(calls) + 1
    <2>3. /\ m \in Nat /\ m > 0 /\ DOMAIN calls = 1 .. m - 1 /\ DOMAIN calls' = 1 .. m
          /\ calls'[m].n = clicks' /\ calls'[m].sel = s /\ calls'[m].answer = Pending
          /\ \A c \in 1 .. m - 1 : calls'[c] = calls[c]
      BY <2>2, CallsAreTyped
    <2> HIDE DEF m
    <2>4. \A c \in DOMAIN calls' : c = m \/ (c \in DOMAIN calls /\ c < m)
      BY <2>3
    <2>5. Ordered'
      <3>1. \A c \in DOMAIN calls' : calls'[c].n <= clicks'
        BY <1>2, <2>3, <2>4
      <3>2. ASSUME NEW c \in DOMAIN calls', NEW d \in DOMAIN calls', c < d
            PROVE  calls'[c].n < calls'[d].n
        <4>1. c \in DOMAIN calls
          BY <2>3, <3>2
        <4>2. calls'[c] = calls[c] /\ calls[c].n < clicks'
          BY <1>2, <2>3, <4>1
        <4>3. CASE d = m
          BY <2>3, <4>2, <4>3
        <4>4. CASE d # m
          <5>1. d \in DOMAIN calls /\ calls'[d] = calls[d]
            BY <2>3, <2>4, <4>4
          <5> QED BY <3>2, <4>1, <4>2, <5>1 DEF Ordered
        <4> QED BY <4>3, <4>4
      <3> QED BY <3>1, <3>2 DEF Ordered
    <2>6. Numbers'
      BY <1>1, <1>2, <2>2 DEF Numbers
    <2>7. LastOpen'
      <3>1. m \in DOMAIN calls' /\ calls'[m].n = clicks'
        BY <2>3
      <3> QED BY <2>1, <3>1 DEF LastOpen
    <2>8. ASSUME label[k] # 0
          PROVE  s.ndex = k /\ Meant(s.id)'
      BY <1>1, <1>3, <2>8, ClickAsksForMeant DEF Meant, SameAs
    <2>9. LastCall'
      <3>1. ~Granted(Pending)
        BY DEF Granted, Pending, Bare
      <3>2. ASSUME NEW c \in DOMAIN calls', calls'[c].n = clicks'
            PROVE  c = m
        BY <1>2, <2>3, <2>4, <3>2
      <3> QED BY <1>1, <1>3, <2>3, <2>8, <3>1, <3>2 DEF LastCall
    <2>10. LastRequest'
      <3>1. ASSUME NEW q \in inflight', q.n = clicks'
            PROVE  q.id = s.id
        BY <1>2, <2>2, <3>1
      <3>2. label[k] = 0 => \A id : Meant(id)'
        BY <1>3 DEF Meant
      <3> QED BY <2>8, <3>1, <3>2 DEF LastRequest
    <2> QED BY <1>4, <2>5, <2>6, <2>7, <2>9, <2>10
  <1> QED BY <1>5, <1>6

(* An answer or a timer changes no more of a call than its answer.          *)
LEMMA OnlyTheAnswer ==
  ASSUME TypeOK, CallsInv, DOMAIN calls' = DOMAIN calls,
         \A c \in DOMAIN calls : calls'[c].n = calls[c].n /\ calls'[c].sel = calls[c].sel,
         UNCHANGED <<list, sel, clicks, last, blamed, colour>>
  PROVE  Ordered' /\ LastOpen' /\ Fresh' /\ OneYellow' /\ Refused' /\ Kept'
  <1>1. Ordered' /\ LastOpen'
    BY DEF CallsInv, Ordered, LastOpen
  <1>2. Fresh' /\ OneYellow' /\ Refused' /\ Kept'
    BY DEF CallsInv, Fresh, OneYellow, Refused, Kept
  <1> QED BY <1>1, <1>2

LEMMA AnsweredCalls ==
  ASSUME TypeOK, NEW n, NEW a, Answered(n, a)
  PROVE  /\ DOMAIN calls' = DOMAIN calls
         /\ \A c \in DOMAIN calls :
              /\ calls'[c].n = calls[c].n /\ calls'[c].sel = calls[c].sel
              /\ \/ calls'[c].answer = calls[c].answer
                 \/ calls[c].n = n /\ calls'[c].answer = a
  <1>1. calls' = [c \in DOMAIN calls |-> IF Waiting(c, n)
                                         THEN [calls[c] EXCEPT !.answer = a] ELSE calls[c]]
    BY DEF Answered
  <1>2. ASSUME NEW c \in DOMAIN calls
        PROVE  /\ calls'[c].n = calls[c].n /\ calls'[c].sel = calls[c].sel
               /\ \/ calls'[c].answer = calls[c].answer
                  \/ calls[c].n = n /\ calls'[c].answer = a
    <2>1. calls[c] \in CallRecord
      BY CallsAreTyped
    <2> QED BY <1>1, <2>1 DEF Waiting, CallRecord
  <1> QED BY <1>1, <1>2

LEMMA ServeStep ==
  ASSUME TypeOK, CallsInv, NEW q \in inflight, NEW a \in Replies, Serve(q, a)
  PROVE  CallsInv'
  <1> USE DEF CallsInv
  <1>1. /\ inflight' = inflight \ {q} /\ running' = q.id
        /\ newest' = (IF q.n > newest THEN q.n ELSE newest)
        /\ Answered(q.n, a)
        /\ list' = list /\ sel' = sel /\ clicks' = clicks /\ last' = last
        /\ blamed' = blamed /\ colour' = colour
    BY DEF Serve, loaded
  <1>2. reordered' = (reordered \/ q.n < newest)
    BY Zenon DEF Serve
  <1>3. /\ DOMAIN calls' = DOMAIN calls
        /\ \A c \in DOMAIN calls :
             /\ calls'[c].n = calls[c].n /\ calls'[c].sel = calls[c].sel
             /\ \/ calls'[c].answer = calls[c].answer
                \/ calls[c].n = q.n /\ calls'[c].answer = a
    BY <1>1, AnsweredCalls
  <1>4. Ordered' /\ LastOpen' /\ Fresh' /\ OneYellow' /\ Refused' /\ Kept'
    BY <1>1, <1>3, OnlyTheAnswer
  <1>5. /\ clicks \in Nat /\ newest \in Nat /\ q.n \in Nat
        /\ newest <= clicks /\ q.n <= clicks
    BY NumbersAreTyped DEF Numbers
  <1>6. newest' \in Nat /\ newest' <= clicks /\ (newest = clicks => newest' = clicks)
        /\ (q.n = clicks => newest' = clicks)
    BY <1>1, <1>5
  <1>7. \A id : Meant(id)' <=> Meant(id)
    BY <1>1 DEF Meant, SameAs
  <1>8. Numbers' /\ LastRequest' /\ Started'
    BY <1>1, <1>6, <1>7 DEF Numbers, LastRequest, Started
  <1>9. LastCall'
    <2> SUFFICES ASSUME NEW c \in DOMAIN calls, calls[c].n = clicks
                 PROVE  /\ last.aim # 0 => calls'[c].sel.ndex = sel
                        /\ Granted(calls'[c].answer) => newest' = clicks
      BY <1>1, <1>3 DEF LastCall
    <2>1. last.aim # 0 => calls'[c].sel.ndex = sel
      BY <1>3 DEF LastCall
    <2>2. CASE calls'[c].answer = calls[c].answer
      BY <1>6, <2>1, <2>2 DEF LastCall
    <2>3. CASE calls[c].n = q.n
      BY <1>6, <2>1, <2>3
    <2> QED BY <1>3, <2>2, <2>3
  <1>10. Running'
    <2> SUFFICES ASSUME newest' = clicks, ~reordered'
                 PROVE  Meant(q.id)
      BY <1>1, <1>7 DEF Running
    <2>1. ~(q.n < newest)
      BY <1>2, Zenon
    <2>2. q.n = clicks
      BY <1>1, <1>5, <2>1
    <2> QED BY <2>2 DEF LastRequest
  <1> QED BY <1>4, <1>8, <1>9, <1>10

(* A refusal or a timer: no answer becomes a granted one.                   *)
LEMMA NothingServed ==
  ASSUME TypeOK, CallsInv, inflight' \subseteq inflight, DOMAIN calls' = DOMAIN calls,
         \A c \in DOMAIN calls :
           /\ calls'[c].n = calls[c].n /\ calls'[c].sel = calls[c].sel
           /\ calls'[c].answer = calls[c].answer \/ ~Granted(calls'[c].answer),
         list' = list, sel' = sel, clicks' = clicks, last' = last, blamed' = blamed,
         colour' = colour, running' = running, newest' = newest, reordered' = reordered
  PROVE  CallsInv'
  <1> USE DEF CallsInv
  <1>1. Ordered' /\ LastOpen' /\ Fresh' /\ OneYellow' /\ Refused' /\ Kept'
    BY OnlyTheAnswer
  <1>2. \A id : Meant(id)' <=> Meant(id)
    BY DEF Meant, SameAs
  <1>3. Numbers' /\ LastRequest' /\ Started' /\ Running'
    BY <1>2 DEF Numbers, LastRequest, Started, Running
  <1>4. LastCall'
    <2> SUFFICES ASSUME NEW c \in DOMAIN calls, calls[c].n = clicks
                 PROVE  /\ last.aim # 0 => calls'[c].sel.ndex = sel
                        /\ Granted(calls'[c].answer) => newest = clicks
      BY DEF LastCall
    <2> QED BY DEF LastCall
  <1> QED BY <1>1, <1>3, <1>4

LEMMA RefuseStep ==
  ASSUME TypeOK, CallsInv, NEW q \in inflight, NEW a \in Replies, Refuse(q, a)
  PROVE  CallsInv'
  <1>1. /\ ~Granted(a) /\ inflight' = inflight \ {q} /\ Answered(q.n, a)
        /\ list' = list /\ sel' = sel /\ clicks' = clicks /\ last' = last
        /\ blamed' = blamed /\ colour' = colour
        /\ running' = running /\ newest' = newest /\ reordered' = reordered
    BY DEF Refuse, loaded, service
  <1>2. /\ DOMAIN calls' = DOMAIN calls
        /\ \A c \in DOMAIN calls :
             /\ calls'[c].n = calls[c].n /\ calls'[c].sel = calls[c].sel
             /\ calls'[c].answer = calls[c].answer \/ calls'[c].answer = a
    BY <1>1, AnsweredCalls
  <1> QED BY <1>1, <1>2, NothingServed

LEMMA TimeoutStep ==
  ASSUME TypeOK, CallsInv, NEW c \in Request, Timeout(c)
  PROVE  CallsInv'
  <1>1. /\ calls' = [calls EXCEPT ![c].answer = Nothing] /\ inflight' = inflight
        /\ list' = list /\ sel' = sel /\ clicks' = clicks /\ last' = last
        /\ blamed' = blamed /\ colour' = colour
        /\ running' = running /\ newest' = newest /\ reordered' = reordered
    BY DEF Timeout, loaded, service
  <1>2. ~Granted(Nothing)
    BY DEF Granted, Nothing, Bare
  <1>3. ASSUME NEW d \in DOMAIN calls
        PROVE  /\ calls'[d].n = calls[d].n /\ calls'[d].sel = calls[d].sel
               /\ calls'[d].answer = calls[d].answer \/ calls'[d].answer = Nothing
    <2>1. calls[d] \in CallRecord
      BY CallsAreTyped
    <2> QED BY <1>1, <2>1 DEF CallRecord
  <1>4. DOMAIN calls' = DOMAIN calls
    BY <1>1
  <1> QED BY <1>1, <1>2, <1>3, <1>4, NothingServed

LEMMA ReturnStep ==
  ASSUME TypeOK, CallsInv, Return
  PROVE  CallsInv'
  <1> USE DEF CallsInv
  <1> DEFINE m == Len(calls)
             c == calls[m]
             a == c.answer
  <1>1. /\ calls # <<>> /\ calls' = SubSeq(calls, 1, Len(calls) - 1)
        /\ IF GetRespose(a) THEN UNCHANGED <<colour, phase>> ELSE SetClassState(c.sel.ndex)
        /\ IF c.n = clicks
           THEN last' = [last EXCEPT !.fate = Fate(a)] /\ UNCHANGED blamed
           ELSE /\ blamed' = IF GetRespose(a) THEN blamed ELSE blamed \cup {c.sel.ndex}
                /\ UNCHANGED last
        /\ list' = list /\ sel' = sel /\ clicks' = clicks /\ inflight' = inflight
        /\ running' = running /\ newest' = newest /\ reordered' = reordered
    BY DEF Return, service
  <1>2. /\ m \in Nat /\ m > 0 /\ DOMAIN calls = 1 .. m /\ DOMAIN calls' = 1 .. m - 1
        /\ \A d \in DOMAIN calls' : d \in DOMAIN calls /\ d < m /\ calls'[d] = calls[d]
    BY <1>1, CallsAreTyped
  <1>3. last \in [aim : 0 .. Size, fate : {"none", "asked", "no room", "refused", "started",
                                           "misread"}]
    BY DEF TypeOK
  <1>4. colour \in [Label -> {"grey", "yellow", "white"}] /\ sel \in Label \cup {-1}
    BY DEF TypeOK
  <1>5. /\ last'.aim = last.aim
        /\ last'.fate = IF c.n = clicks THEN Fate(a) ELSE last.fate
    BY <1>1, <1>3
  <1>6. colour' = [k \in Label |-> IF ~GetRespose(a) /\ k = c.sel.ndex THEN "white"
                                   ELSE colour[k]]
    <2>1. CASE GetRespose(a)
      <3>1. colour' = colour /\ colour = [k \in Label |-> colour[k]]
        BY <1>1, <1>4, <2>1
      <3> QED BY <2>1, <3>1
    <2>2. CASE ~GetRespose(a)
      BY <1>1, <2>2 DEF SetClassState
    <2> QED BY <2>1, <2>2
  <1> HIDE DEF m, c, a
  <1>7. m \in DOMAIN calls /\ c = calls[m] /\ a = c.answer
    BY <1>2 DEF c, a
  <1>8. /\ Fate(a) = "refused" => ~GetRespose(a)
        /\ Fate(a) \in {"started", "misread"} => GetRespose(a)
        /\ Fate(a) = "started" => Granted(a)
        /\ Fate(a) \in {"refused", "started", "misread"}
    BY DEF Fate
  <1>9. \A d \in DOMAIN calls' : c.n = clicks => calls'[d].n # clicks
    <2> SUFFICES ASSUME NEW d \in DOMAIN calls', c.n = clicks
                 PROVE  calls[d].n # clicks
      BY <1>2
    <2>1. calls[d].n < calls[m].n
      BY <1>2, <1>7 DEF Ordered
    <2> QED BY <1>2, <1>7, <2>1, NumbersAreTyped
  <1>10. Ordered' /\ Numbers' /\ LastCall'
    BY <1>1, <1>2, <1>5 DEF Ordered, Numbers, LastCall
  <1>11. LastOpen'
    <2>1. CASE c.n = clicks
      BY <1>1, <1>5, <1>8, <1>9, <2>1 DEF LastOpen
    <2>2. CASE c.n # clicks
      <3>1. \A d \in DOMAIN calls : calls[d].n = clicks => d \in DOMAIN calls'
        BY <1>2, <1>7, <2>2
      <3> QED BY <1>1, <1>2, <1>5, <2>2, <3>1 DEF LastOpen
    <2> QED BY <2>1, <2>2
  <1>12. c.n = clicks => last.fate = "asked"
    BY <1>7 DEF LastOpen
  <1>13. Fresh' /\ Started'
    BY <1>1, <1>5, <1>7, <1>8, <1>12 DEF Fresh, Started, LastCall
  <1>14. OneYellow'
    BY <1>1, <1>6 DEF OneYellow
  <1>15. \A id : Meant(id)' <=> Meant(id)
    BY <1>1, <1>5 DEF Meant, SameAs
  <1>16. LastRequest' /\ Running'
    BY <1>1, <1>15 DEF LastRequest, Running
  <1>17. last'.fate # "none" => sel \in Label
    BY <1>4, <1>5, <1>12 DEF Fresh
  <1>18. Refused'
    <2> SUFFICES ASSUME last'.fate = "refused", last.aim # 0
                 PROVE  colour'[sel] # "yellow"
      BY <1>1, <1>5 DEF Refused
    <2>1. CASE c.n = clicks
      <3>1. c.sel.ndex = sel /\ ~GetRespose(a)
        BY <1>5, <1>7, <1>8, <2>1 DEF LastCall
      <3> QED BY <1>6, <1>17, <3>1
    <2>2. CASE c.n # clicks
      BY <1>5, <1>6, <1>17, <2>2 DEF Refused
    <2> QED BY <2>1, <2>2
  <1>19. Kept'
    <2> SUFFICES ASSUME last'.fate \in {"asked", "no room", "started", "misread"}
                 PROVE  colour'[sel] = "yellow" \/ sel \in blamed'
      BY <1>1 DEF Kept
    <2>1. colour[sel] = "yellow" \/ sel \in blamed
      BY <1>5, <1>12 DEF Kept
    <2>2. CASE c.n = clicks
      <3>1. GetRespose(a) /\ blamed' = blamed
        BY <1>1, <1>5, <1>7, <1>8, <2>2 DEF c, m
      <3> QED BY <1>6, <1>17, <2>1, <3>1
    <2>3. CASE c.n # clicks
      <3>1. blamed' = IF GetRespose(a) THEN blamed ELSE blamed \cup {c.sel.ndex}
        BY <1>1, <2>3 DEF c, m, a
      <3> QED BY <1>6, <1>17, <2>1, <3>1
    <2> QED BY <2>2, <2>3
  <1> QED BY <1>10, <1>11, <1>13, <1>14, <1>16, <1>18, <1>19

-----------------------------------------------------------------------------
(* The inductive invariant.                                                 *)
IInv == TypeOK /\ Loading /\ Pages /\ CallsInv

LEMMA IInvInit == Init => IInv
  BY InitIsTyped, PagesInit, CallsInit DEF IInv

LEMMA IInvStep == IInv /\ [Next]_vars => IInv'
  <1> SUFFICES ASSUME TypeOK, Loading, Pages, CallsInv, [Next]_vars
               PROVE  IInv'
    BY DEF IInv
  <1>1. ASSUME \/ \E a \in TemplateAnswers : LoadTemplates(a)
               \/ \E a \in RoomAnswers : LoadRooms(a)
               \/ \E back \in BOOLEAN : TurnPage(back)
        PROVE  TypeOK' /\ Loading' /\ CallsInv'
    BY <1>1, PagingKeepsTypes, CallsThroughPaging
  <1>2. ASSUME NEW k \in Label, Click(k)
        PROVE  TypeOK' /\ Loading' /\ CallsInv'
    BY <1>2, CallsKeepTypes, ClickStep
  <1>3. ASSUME NEW q \in inflight, NEW a \in Replies, Serve(q, a) \/ Refuse(q, a)
        PROVE  TypeOK' /\ Loading' /\ CallsInv'
    BY <1>3, CallsKeepTypes, ServeStep, RefuseStep
  <1>4. ASSUME NEW c \in Request, Timeout(c)
        PROVE  TypeOK' /\ Loading' /\ CallsInv'
    BY <1>4, CallsKeepTypes, TimeoutStep
  <1>5. ASSUME Return
        PROVE  TypeOK' /\ Loading' /\ CallsInv'
    BY <1>5, CallsKeepTypes, ReturnStep
  <1>6. ASSUME UNCHANGED vars
        PROVE  TypeOK' /\ Loading' /\ CallsInv'
    <2>1. TypeOK' /\ Loading'
      BY <1>6 DEF vars, TypeOK, Loading, Size
    <2> QED BY <1>6, <2>1, CallsThroughPaging
  <1>7. TypeOK' /\ Loading' /\ CallsInv'
    BY <1>1, <1>2, <1>3, <1>4, <1>5, <1>6, Zenon DEF Next
  <1> QED BY <1>7, PagesStep DEF IInv

LEMMA InvariantHolds == Spec => []IInv
  BY IInvInit, IInvStep, PTL DEF Spec

-----------------------------------------------------------------------------
(* Every variable keeps its type: whatever is clicked and answered, paging  *)
(* shows places in the list, and what SetClassState paints is one of the    *)
(* labels or the ndex that GetSelClassid has not set.                       *)
THEOREM TypeCorrect == Spec => []TypeOK
  BY InvariantHolds, PTL DEF IInv

(* Whoever has turned initclasst's pages to the last one has seen every     *)
(* class, but for the last of a list that fills its last page.              *)
THEOREM PagesShowAll == Spec => []WalkedThrough
  <1>1. IInv => WalkedThrough
    <2> SUFFICES ASSUME IInv, list # <<>>, phase # "templates"
                 PROVE  /\ 3 * g_ndex < Size /\ 3 * page < Size
                        /\ 3 * page + 2 >= Size - 1 =>
                             \A i \in 1 .. Size : i \in seen \/ (i = Size /\ Size % 3 = 0)
      BY DEF WalkedThrough
    <2>1. 3 * g_ndex < Size /\ 3 * page < Size /\ SeenUpTo(page + 1)
      BY DEF IInv, Pages
    <2>2. page \in Nat /\ Size \in Nat
      BY ListIsTyped DEF IInv, TypeOK
    <2>3. ASSUME 3 * page + 2 >= Size - 1, NEW i \in 1 .. Size
          PROVE  i \in seen \/ (i = Size /\ Size % 3 = 0)
      <3>1. i <= 3 * (page + 1)
        BY <2>2, <2>3
      <3> QED BY <2>1, <3>1 DEF SeenUpTo
    <2> QED BY <2>1, <2>3
  <1> QED BY <1>1, InvariantHolds, PTL

(* When nothing is waited for, a yellow label shows the class the service   *)
(* runs, or one of the causes named in YellowRuns is there: no sequence of  *)
(* clicks, nested calls, answers and timers makes another one.              *)
THEOREM YellowIsWhatRuns == Spec => []YellowRuns
  <1>1. IInv => YellowRuns
    <2> DEFINE Excused == last.fate \in {"no room", "misread"}
    <2> SUFFICES ASSUME IInv, calls = <<>>, NEW k \in Label, colour[k] = "yellow",
                        label[k] = last.aim, label[k] # 0, ~(Cardinality(Same(k)) > 1),
                        ~Excused, ~reordered
                 PROVE  running = list[label[k]].id
      BY DEF YellowRuns
    <2>1. last.fate # "no room" /\ last.fate # "misread"
      OBVIOUS
    <2> HIDE DEF Excused
    <2>2. TypeOK /\ OneYellow /\ LastOpen /\ Fresh /\ Refused /\ Started /\ Running
      BY DEF IInv, CallsInv
    <2>3. k = sel
      BY <2>2 DEF OneYellow
    <2>4. last.fate # "asked"
      <3>1. DOMAIN calls = {}
        OBVIOUS
      <3> QED BY <2>2, <3>1 DEF LastOpen
    <2>5. last.fate # "none" /\ clicks # 0
      <3>1. sel # -1
        BY <2>3 DEF Label
      <3> QED BY <2>2, <3>1 DEF Fresh
    <2>6. last.fate # "refused"
      BY <2>2, <2>3 DEF Refused
    <2>7. last.fate = "started"
      <3>1. last \in [aim : 0 .. Size, fate : {"none", "asked", "no room", "refused", "started",
                                               "misread"}]
        BY <2>2 DEF TypeOK
      <3> QED BY <2>1, <2>4, <2>5, <2>6, <3>1
    <2>8. Meant(running)
      <3>1. clicks > 0
        BY <2>2, <2>5, NumbersAreTyped
      <3> QED BY <2>2, <2>7, <3>1 DEF Started, Running
    <2>9. Same(k) = SameAs(last.aim)
      BY DEF Same, SameAs, Text
    <2>10. Cardinality(Same(k)) <= 1
      <3>1. Size \in Nat /\ DOMAIN list = 1 .. Size
        BY <2>2, ListIsTyped
      <3>2. IsFiniteSet(1 .. Size)
        BY <3>1, FS_Interval
      <3>3. Same(k) \in SUBSET (1 .. Size)
        BY <3>1 DEF Same
      <3>4. IsFiniteSet(Same(k))
        BY <3>2, <3>3, FS_Subset
      <3>5. Cardinality(Same(k)) \in Nat
        BY <3>4, FS_CardinalityType
      <3> QED BY <3>5
    <2> QED BY <2>8, <2>9, <2>10 DEF Meant
  <1> QED BY <1>1, InvariantHolds, PTL

(* The label of a class that was started stays yellow, unless the refusal   *)
(* of an earlier click on it came after the click, or that of one on an      *)
(* empty label, whose ndex nobody had set.                                  *)
THEOREM HighlightStays == Spec => []HighlightKept
  <1>1. IInv => HighlightKept
    BY DEF IInv, CallsInv, Kept, HighlightKept
  <1> QED BY <1>1, InvariantHolds, PTL
=============================================================================
