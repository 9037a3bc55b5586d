---------------------------- MODULE ClassSelection ----------------------------
(***************************************************************************)
(* The choice of a class in the teacher's program.  While it starts,       *)
(* FlodCloudWidget asks the service for the classes and the rooms; after   *)
(* that ClassesForm shows the classes on pages of three labels, and a      *)
(* click on a label asks the service to start the class of the label's     *)
(* text and waits for the answer in a nested event loop, where the labels  *)
(* and the buttons that turn the page go on working.                       *)
(*                                                                         *)
(* A label is the place in the list of the class whose name it was given,  *)
(* 0 when it is empty.  The service is external: it may serve the requests *)
(* in any order, refuse them, or lose the request or the answer.           *)
(***************************************************************************)
EXTENDS JsonAnswer, Integers, SequencesExt, FiniteSets

CONSTANTS
  MaxClicks,         \* bound: how often a label is clicked
  TemplateAnswers,   \* the answers to the request for the classes
  RoomAnswers,       \* the answers to the request for the rooms
  Replies            \* the answers to the requests that start a class

ASSUME MaxClicksAssumption == MaxClicks \in Nat
(* An answer has the fields MyJson reads.                                   *)
ASSUME AnswersAssumption ==
  \A a \in TemplateAnswers \cup RoomAnswers \cup Replies :
    a \in Answer({r.id : r \in Range(a.rows)})

Label    == 0 .. 2
Request  == 1 .. MaxClicks
Template == UNION {Range(GetClassTemplate(a)) : a \in TemplateAnswers}
TemplateId == {t.id : t \in Template} \cup {""}

(* An ndex that GetSelClassid has not set: -1 stands for the negative       *)
(* values, 3 for those SetClassState ignores.                               *)
Garbage == Label \cup {-1, 3}

Pending == Bare("pending", "absent", "absent")

VARIABLES
  phase,      \* "templates", "rooms", "shown", or "crashed"
  list,       \* m_list_classt
  rooms,      \* m_list_rooms
  g_ndex,     \* the page initclasst shows next
  label,      \* m_labelClass: what it was given
  colour,     \*   and how it is painted
  sel         \* m_selcalss.ndex, -1 before the first click
VARIABLES
  clicks,     \* how many requests have been made
  calls,      \* on_class_startrp on the stack, innermost last
  inflight,   \* the requests the service may still serve
  running,    \* external: the class the service has started last
  page,       \* history: the page shown last
  seen,       \* history: the classes shown so far
  last,       \* history: the last click: what its label was given, its fate
  blamed,     \* history: the ndex of the other calls refused since
  newest,     \* history: the newest request served
  reordered   \* history: a request was served after a newer one

vars == <<phase, list, rooms, g_ndex, label, colour, sel, clicks, calls,
          inflight, running, page, seen, last, blamed, newest, reordered>>

loaded  == <<phase, list, rooms>>
paging  == <<g_ndex, label, page, seen>>
service == <<running, newest, reordered>>

Size == Len(list)

Init ==
  /\ phase = "templates" /\ list = <<>> /\ rooms = <<>>
  /\ g_ndex = 0
  /\ label = [k \in Label |-> 0] /\ colour = [k \in Label |-> "grey"]
  /\ sel = -1
  /\ clicks = 0 /\ calls = <<>> /\ inflight = {}
  /\ running = "none"
  /\ page = 0 /\ seen = {}
  /\ last = [aim |-> 0, fate |-> "none"] /\ blamed = {}
  /\ newest = 0 /\ reordered = FALSE

-----------------------------------------------------------------------------
Page == IF g_ndex <= 0 THEN 0 ELSE g_ndex

(* The labels of the page: a label behind the end of the list keeps what it *)
(* has, and the third is emptied on the last page.                          *)
Shown(classes) ==
  [k \in Label |->
     LET dex == 3 * Page + k
     IN  IF k = 2 /\ dex >= Len(classes) - 1 THEN 0
         ELSE IF dex < Len(classes) THEN dex + 1 ELSE label[k]]

(* Mutants of Following: the first page is left backwards; the next page is *)
(* counted in labels.                                                       *)
FollowingUnbounded(classes, back) ==
  IF back THEN Page - 1
  ELSE IF 3 * Page + 2 < Len(classes) - 1 THEN Page + 1 ELSE Page

FollowingByLabels(classes, back) ==
  IF back THEN IF 3 * Page >= 1 THEN Page - 1 ELSE Page
  ELSE IF 3 * Page + 2 < Len(classes) - 1 THEN Page + 3 ELSE Page

(* The page after it: a turn back shows the page it is at and moves then,   *)
(* so the first turn in the other direction goes one page too far.          *)
Following(classes, back) ==
  IF back THEN IF 3 * Page >= 1 THEN Page - 1 ELSE Page
  ELSE IF 3 * Page + 2 < Len(classes) - 1 THEN Page + 1 ELSE Page

initclasst(classes, back) ==
  IF classes = <<>> THEN UNCHANGED paging
  ELSE /\ label' = Shown(classes)
       /\ g_ndex' = Following(classes, back)
       /\ page' = Page
       /\ seen' = seen \cup Range(label')

(* GetClassTemplate of FlodCloudWidget, before a window can be clicked. *)
LoadTemplates(a) ==
  /\ phase = "templates"
  /\ list' = GetClassTemplate(a)
  /\ initclasst(list', FALSE)
  /\ phase' = "rooms"
  /\ UNCHANGED <<rooms, colour, sel, clicks, calls, inflight, service, last,
                 blamed>>

LoadRooms(a) ==
  /\ phase = "rooms"
  /\ rooms' = GetRoomId(a)
  /\ phase' = "shown"
  /\ UNCHANGED <<list, colour, sel, clicks, calls, inflight, paging, service,
                 last, blamed>>

(* on_left and on_right *)
TurnPage(back) ==
  /\ phase = "shown"
  /\ initclasst(list, back)
  /\ UNCHANGED <<loaded, colour, sel, clicks, calls, inflight, service, last,
                 blamed>>

-----------------------------------------------------------------------------
Text(k) == IF label[k] = 0 THEN "" ELSE list[label[k]].name

Same(k) == {i \in DOMAIN list : list[i].name = Text(k)}

(* Mutant of GetSelClassid: the third label counts from one. *)
GetSelClassidShifted(k) ==
  IF Same(k) = {}
  THEN [id : {""}, ndex : Garbage]
  ELSE {[id |-> list[Max(Same(k))].id, ndex |-> IF k = 2 THEN 3 ELSE k]}

(* The last class of that name; if there is none, the caller's class_sel    *)
(* keeps an empty id and an ndex nobody has set.                            *)
GetSelClassid(k) ==
  IF Same(k) = {}
  THEN [id : {""}, ndex : Garbage]
  ELSE {[id |-> list[Max(Same(k))].id, ndex |-> k]}

(* Up to its event loop.  The class is looked up by the text of the label   *)
(* clicked, and without a room nothing is asked for.                        *)
on_class_startrp(n, k) ==
  \/ /\ rooms = <<>>
     /\ last' = [aim |-> label[k], fate |-> "no room"]
     /\ UNCHANGED <<calls, inflight>>
  \/ /\ rooms # <<>>
     /\ last' = [aim |-> label[k], fate |-> "asked"]
     /\ \E s \in GetSelClassid(k) :
          /\ calls' = Append(calls, [n |-> n, sel |-> s, answer |-> Pending])
          /\ inflight' = inflight \cup {[n |-> n, id |-> s.id]}

(* on_label_class1 to 3 *)
Click(k) ==
  /\ phase = "shown" /\ clicks < MaxClicks
  /\ clicks' = clicks + 1
  /\ sel' = k
  /\ colour' = [j \in Label |-> IF j = k THEN "yellow" ELSE "grey"]
  /\ blamed' = {}
  /\ on_class_startrp(clicks', k)
  /\ UNCHANGED <<loaded, paging, service>>

-----------------------------------------------------------------------------
Waiting(c, n) == calls[c].n = n /\ calls[c].answer = Pending

(* An answer reaches its event loop unless its timer has fired before. *)
Answered(n, a) ==
  calls' = [c \in DOMAIN calls |->
              IF Waiting(c, n) THEN [calls[c] EXCEPT !.answer = a] ELSE calls[c]]

(* What comes back says that the class was started, or is not the           *)
(* service's own answer.                                                    *)
Serve(q, a) ==
  /\ phase = "shown" /\ (Granted(a) \/ a.form # "object")
  /\ q \in inflight
  /\ inflight' = inflight \ {q}
  /\ running' = q.id
  /\ newest' = IF q.n > newest THEN q.n ELSE newest
  /\ reordered' = (reordered \/ q.n < newest)
  /\ Answered(q.n, a)
  /\ UNCHANGED <<loaded, paging, colour, sel, clicks, last, blamed>>

(* The service refuses the request, or the request is lost. *)
Refuse(q, a) ==
  /\ phase = "shown" /\ ~Granted(a)
  /\ q \in inflight
  /\ inflight' = inflight \ {q}
  /\ Answered(q.n, a)
  /\ UNCHANGED <<loaded, paging, colour, sel, clicks, service, last, blamed>>

(* Mutant of Timeout: only the outermost loop is timed. *)
TimeoutOutermost(c) ==
  /\ phase = "shown"
  /\ c = 1
  /\ c \in DOMAIN calls /\ calls[c].answer # Nothing
  /\ calls' = [calls EXCEPT ![c].answer = Nothing]
  /\ UNCHANGED <<loaded, paging, colour, sel, clicks, inflight, service, last,
                 blamed>>

(* The 5 s timer of a request, also when its answer is there but an inner   *)
(* loop still runs.                                                         *)
Timeout(c) ==
  /\ phase = "shown"
  /\ c \in DOMAIN calls /\ calls[c].answer # Nothing
  /\ calls' = [calls EXCEPT ![c].answer = Nothing]
  /\ UNCHANGED <<loaded, paging, colour, sel, clicks, inflight, service, last,
                 blamed>>

-----------------------------------------------------------------------------
Fate(a) ==
  IF ~GetRespose(a) THEN "refused" ELSE IF Granted(a) THEN "started" ELSE "misread"

(* SetClassState: the label of the call, whatever it shows by now, is       *)
(* painted white; a negative number is outside of the array.                *)
SetClassState(ndex) ==
  /\ colour' = [k \in Label |-> IF k = ndex THEN "white" ELSE colour[k]]
  /\ phase' = IF ndex < 0 THEN "crashed" ELSE phase

(* Mutant of Return: the label is the one clicked last. *)
ReturnBySelection ==
  /\ phase = "shown" /\ calls # <<>>
  /\ LET c == calls[Len(calls)] IN
       /\ c.answer # Pending
       /\ IF GetRespose(c.answer) THEN UNCHANGED <<colour, phase>>
                                  ELSE SetClassState(sel)
       /\ IF c.n = clicks
          THEN last' = [last EXCEPT !.fate = Fate(c.answer)] /\ UNCHANGED blamed
          ELSE /\ blamed' = IF GetRespose(c.answer) THEN blamed
                            ELSE blamed \cup {c.sel.ndex}
               /\ UNCHANGED last
  /\ calls' = SubSeq(calls, 1, Len(calls) - 1)
  /\ UNCHANGED <<list, rooms, paging, sel, clicks, inflight, service>>

(* The innermost GetData returns, and the rest of on_class_startrp. *)
Return ==
  /\ phase = "shown" /\ calls # <<>>
  /\ LET c == calls[Len(calls)] IN
       /\ c.answer # Pending
       /\ IF GetRespose(c.answer) THEN UNCHANGED <<colour, phase>>
                                  ELSE SetClassState(c.sel.ndex)
       /\ IF c.n = clicks
          THEN last' = [last EXCEPT !.fate = Fate(c.answer)] /\ UNCHANGED blamed
          ELSE /\ blamed' = IF GetRespose(c.answer) THEN blamed
                            ELSE blamed \cup {c.sel.ndex}
               /\ UNCHANGED last
  /\ calls' = SubSeq(calls, 1, Len(calls) - 1)
  /\ UNCHANGED <<list, rooms, paging, sel, clicks, inflight, service>>

-----------------------------------------------------------------------------
Next ==
  \/ \E a \in TemplateAnswers : LoadTemplates(a)
  \/ \E a \in RoomAnswers : LoadRooms(a)
  \/ \E back \in BOOLEAN : TurnPage(back)
  \/ \E k \in Label : Click(k)
  \/ \E q \in inflight, a \in Replies : Serve(q, a) \/ Refuse(q, a)
  \/ \E c \in Request : Timeout(c)
  \/ Return

Spec == Init /\ [][Next]_vars

(* Timers fire and event loops return; nobody must answer or click. *)
FairSpec ==
  Spec /\ WF_vars(Return) /\ WF_vars(\E c \in Request : Timeout(c))

-----------------------------------------------------------------------------
TypeOK ==
  /\ phase \in {"templates", "rooms", "shown", "crashed"}
  /\ list \in Seq(Template)
  /\ rooms \in {GetRoomId(a) : a \in RoomAnswers} \cup {<<>>}
  /\ g_ndex \in Nat /\ page \in Nat
  /\ label \in [Label -> 0 .. Size] /\ seen \subseteq 0 .. Size
  /\ colour \in [Label -> {"grey", "yellow", "white"}] /\ sel \in Label \cup {-1}
  /\ clicks \in 0 .. MaxClicks
  /\ calls \in Seq([n : Request, sel : [id : TemplateId, ndex : Garbage],
                    answer : Replies \cup {Nothing, Pending}])
  /\ inflight \subseteq [n : Request, id : TemplateId]
  /\ running \in TemplateId \cup {"none"}
  /\ last \in [aim : 0 .. Size,
               fate : {"none", "asked", "no room", "refused", "started", "misread"}]
  /\ blamed \subseteq Garbage
  /\ newest \in 0 .. MaxClicks /\ reordered \in BOOLEAN

(* Paging is never past the list's end, and whoever has turned the pages to *)
(* the last one, back and forth as he liked, has seen every class, but for  *)
(* the last of a list that fills its last page: the third label of the last *)
(* page is always emptied.                                                  *)
WalkedThrough ==
  list # <<>> /\ phase # "templates" =>
    /\ 3 * g_ndex < Size /\ 3 * page < Size
    /\ 3 * page + 2 >= Size - 1 =>
         \A i \in 1 .. Size : i \in seen \/ (i = Size /\ Size % 3 = 0)

(* When nothing is waited for, a yellow label shows the class the service   *)
(* runs.  The causes for which it does not: the page was turned since, the  *)
(* label is empty, another class is shown by the same name, no room was     *)
(* loaded, the answer was not understood and taken for a yes, or the        *)
(* service served the requests in another order.                            *)
YellowRuns ==
  phase = "shown" /\ calls = <<>> =>
    \A k \in Label : colour[k] = "yellow" =>
      \/ label[k] # last.aim \/ label[k] = 0
      \/ Cardinality(Same(k)) > 1
      \/ last.fate \in {"no room", "misread"}
      \/ reordered
      \/ running = list[label[k]].id

(* When nothing is waited for and the last click's class was started, the   *)
(* label clicked is yellow still, unless a refusal came after it: that of an *)
(* earlier click on the label, whatever it showed then, or on an empty      *)
(* label, whose ndex nobody had set and which happened to be this one.      *)
HighlightKept ==
  phase = "shown" /\ calls = <<>> /\ last.fate \in {"started", "misread"} =>
    colour[sel] = "yellow" \/ sel \in blamed

(* Every click is done with in the end, its nested loop included, unless an *)
(* ndex nobody has set ends the program.                                    *)
CallsReturn == calls # <<>> ~> calls = <<>> \/ phase = "crashed"
=============================================================================
