----------------------------- MODULE StudentList -----------------------------
(***************************************************************************)
(* The list of students of the teacher's program.  Thread asks the service *)
(* for it and keeps the answer in g_xmldata; DataThread rebuilds           *)
(* g_stu2List from the answer and puts the students into the rows of the   *)
(* table; the GUI thread shows the table, switches it between raised hands *)
(* and students (stulist::settype) and, when a row is clicked, looks up    *)
(* the row's number in g_stu2List.                                         *)
(*                                                                         *)
(* g_mutex keeps Thread and DataThread apart; the GUI thread never takes   *)
(* it.  A student is what the service says of one: id, name and seat.  With *)
(* another seat he is another value, and two may have the same seat, but   *)
(* one answer does not give the same id to two values.  A row holds the     *)
(* text "name - seat", by which _isExist_seat looks for a seat: it takes    *)
(* what follows the first "-" and trims it.                                 *)
(***************************************************************************)
EXTENDS Integers, Sequences, SequencesExt, FiniteSets

CONSTANTS
  Student,
  Seat,        \* a function: the seat of a student
  Misread,     \* those whose seat is not what is read from their row: the name
               \* has a "-", or the seat has a space at an end; what is read
               \* there is taken to be nobody's seat
  MaxLen,      \* bound: the length of the service's list
  Blank,       \* an empty row
  OutOfRange   \* what QList::at returns, or dies of, behind the end

ASSUME StudentAssumption == {Blank, OutOfRange} \cap Student = {}
ASSUME MisreadAssumption == Misread \subseteq Student
ASSUME MaxLenAssumption == MaxLen \in Nat

Page  == {"handup", "stu"}
Lists == BoundedSeq(Student, MaxLen)

VARIABLES
  present,   \* external: the list of the service, repetitions included
  asked,     \* the request Thread repeats: m_msgList
  poll       \* Thread: "out", or the request it waits for, holding g_mutex
VARIABLES
  xml,       \* g_xmldata: an answer and the request it answers
  data,      \* DataThread: its page, and its position in the answer or list
  list,      \* g_stu2List
  rows,      \* the students in column 0 of the table's model
  mode,      \* the page DataThread is to use next: its m_ntype["stu"]
  view,      \* the page shown: the delegate's m_ntype
  gui,       \* the GUI thread, in a switch or in a click
  quit,      \* ~FlodCloudWidget: 0 before, else the thread it waits for, or 3
  late,      \*   and that thread had passed its test of m_stopped
  changed    \* history: the service's list did not only grow at its end

vars == <<present, asked, poll, xml, data, list, rows, mode, view, gui, quit,
          late, changed>>

service == <<present, changed>>
model   == <<list, rows>>
window  == <<mode, view, gui>>
exit    == <<quit, late>>

NoAnswer == [of |-> "none", list |-> <<>>]
Idle     == [pc |-> "idle", row |-> 0, shown |-> Blank, raced |-> FALSE]

Init ==
  /\ present \in Lists
  /\ asked = "none" /\ poll = "out" /\ xml = NoAnswer
  /\ data = [pc |-> "out", page |-> "handup", k |-> 1]
  /\ list = <<>> /\ rows = <<>>
  /\ mode = "handup" /\ view = "handup"
  /\ gui = Idle /\ quit = 0 /\ late = FALSE
  /\ changed = FALSE

-----------------------------------------------------------------------------
Change ==
  /\ present' \in Lists \ {present}
  /\ changed' = (changed \/ ~IsPrefix(present, present'))
  /\ UNCHANGED <<asked, poll, xml, data, model, window, exit>>

-----------------------------------------------------------------------------
(* Mutant of StopOrder: the thread that may have to wait goes first. *)
StopOrderReversed == <<"data", "thread">>

(* ~FlodCloudWidget stops one thread after the other and waits for each. *)
StopOrder == <<"thread", "data">>

Stopping(t) == quit \in DOMAIN StopOrder /\ StopOrder[quit] = t

At(t) == IF t = "thread" THEN poll ELSE data.pc

(* The threads' test of m_stopped, which comes before g_mutex is taken: the *)
(* destructor's stop may find it passed.                                    *)
MayGoOn(t) == Stopping(t) => late

Stop ==
  /\ gui = Idle
  /\ quit < 3 /\ (quit # 0 => At(StopOrder[quit]) = "ended")
  /\ quit' = quit + 1
  /\ late' \in {FALSE, quit < 2 /\ At(StopOrder[quit + 1]) = "out"}
  /\ UNCHANGED <<service, asked, poll, xml, data, model, window>>

ThreadEnd ==
  /\ poll = "out" /\ ~MayGoOn("thread")
  /\ poll' = "ended"
  /\ UNCHANGED <<service, asked, xml, data, model, window, exit>>

(* With no answer there, the round DataThread may be in is over at once. *)
DataThreadEnd ==
  /\ data.pc = "out" /\ Stopping("data") /\ (late => xml = NoAnswer)
  /\ data' = [data EXCEPT !.pc = "ended"]
  /\ UNCHANGED <<service, asked, poll, xml, model, window, exit>>

-----------------------------------------------------------------------------
(* Thread: it takes g_mutex and asks, if anything has been set to ask for.  *)
PollBegin ==
  /\ poll = "out" /\ data.pc \in {"out", "ended"} /\ MayGoOn("thread")
  /\ poll' = asked
  /\ late' = (late /\ ~Stopping("thread"))
  /\ UNCHANGED <<service, asked, xml, data, model, window, quit>>

(* An answer replaces the one before, read or not.  Whose hand is raised is *)
(* another matter than who is listed.                                       *)
PollAnswer ==
  /\ poll \in Page
  /\ \E l \in Lists :
       /\ poll = "stu" => l = present
       /\ xml' = [of |-> poll, list |-> l]
  /\ poll' = "out"
  /\ UNCHANGED <<service, asked, data, model, window, exit>>

(* An empty answer, too, replaces the one before. *)
PollEmpty ==
  /\ poll \in Page
  /\ xml' = NoAnswer /\ poll' = "out"
  /\ UNCHANGED <<service, asked, data, model, window, exit>>

(* A failure, a timeout or nothing to ask.  The sleep, too, is spent with   *)
(* g_mutex held.                                                            *)
PollEnd ==
  /\ poll \in Page \cup {"none"}
  /\ poll' = "out"
  /\ UNCHANGED <<service, asked, xml, data, model, window, exit>>

-----------------------------------------------------------------------------
(* DataThread: readXmlstuinfo, which begins by clearing g_stu2List. *)
DataBegin ==
  /\ data.pc = "out" /\ poll \in {"out", "ended"} /\ xml # NoAnswer
  /\ MayGoOn("data")
  /\ data' = [pc |-> "parse", page |-> mode, k |-> 1]
  /\ list' = <<>>
  /\ gui' = [gui EXCEPT !.raced = (gui.pc = "at")]
  /\ late' = (late /\ ~Stopping("data"))
  /\ UNCHANGED <<service, asked, poll, xml, rows, mode, view, quit>>

(* Mutant of Records: the answer to the other request is read, too. *)
RecordsOfAny == IF data.page = "stu" THEN xml.list ELSE <<>>

(* The records of the answer to another request are not looked at. *)
Records == IF data.page = "stu" /\ xml.of = "stu" THEN xml.list ELSE <<>>

ParseOne ==
  /\ data.pc = "parse" /\ data.k <= Len(Records)
  /\ list' = IF Records[data.k] \in Range(list) THEN list
                                                ELSE Append(list, Records[data.k])
  /\ data' = [data EXCEPT !.k = data.k + 1]
  /\ UNCHANGED <<service, asked, poll, xml, rows, window, exit>>

ParseEnd ==
  /\ data.pc = "parse" /\ data.k > Len(Records)
  /\ data' = [data EXCEPT !.pc = "deal", !.k = 1]
  /\ UNCHANGED <<service, asked, poll, xml, model, window, exit>>

(* Mutant of WithRow: nobody is overwritten. *)
WithRowKept(i, s) == IF i <= Len(rows) THEN rows ELSE Append(rows, s)

(* QStandardItemModel::setItem lengthens the model if it must. *)
WithRow(i, s) ==
  [j \in 1 .. (IF i > Len(rows) THEN i ELSE Len(rows)) |->
     IF j = i THEN s ELSE IF j <= Len(rows) THEN rows[j] ELSE Blank]

(* Mutant of SeatIsRead: the rows are not searched. *)
SeatIsNeverRead(s) == FALSE

(* _isExist_seat: a row is there from which this student's seat is read. *)
SeatIsRead(s) ==
  \E j \in DOMAIN rows : rows[j] \in Student \ Misread /\ Seat[rows[j]] = Seat[s]

(* USER_MSG_DEALSTULIST, for one student of the list: unless his seat is    *)
(* read from a row, he is put into the row of his place in the list, over   *)
(* whoever is there.  No row is ever removed.                               *)
DealRow ==
  /\ data.pc = "deal" /\ data.k <= Len(list)
  /\ rows' = IF SeatIsRead(list[data.k]) THEN rows ELSE WithRow(data.k, list[data.k])
  /\ data' = [data EXCEPT !.k = data.k + 1]
  /\ UNCHANGED <<service, asked, poll, xml, list, window, exit>>

DataEnd ==
  /\ data.pc = "deal" /\ data.k > Len(list)
  /\ data' = [data EXCEPT !.pc = "out", !.k = 1]
  /\ xml' = NoAnswer
  /\ UNCHANGED <<service, asked, poll, model, window, exit>>

-----------------------------------------------------------------------------
(* The GUI thread: settype of stulist, step by step. *)
SwitchView(p) ==
  /\ gui.pc = "idle" /\ quit = 0 /\ (p = "handup" => view = "stu")
  /\ view' = p
  /\ rows' = IF p = "stu" THEN <<>> ELSE rows
  /\ gui' = [Idle EXCEPT !.pc = "mode"]
  /\ UNCHANGED <<service, asked, poll, xml, data, list, mode, exit>>

SwitchMode ==
  /\ gui.pc = "mode"
  /\ mode' = view
  /\ gui' = [gui EXCEPT !.pc = "ask"]
  /\ UNCHANGED <<service, asked, poll, xml, data, model, view, exit>>

SwitchAsked ==
  /\ gui.pc = "ask"
  /\ asked' = view
  /\ gui' = Idle
  /\ UNCHANGED <<service, poll, xml, data, model, mode, view, exit>>

(* A click on row i: msg_respose first tests that g_stu2List is not empty,  *)
Click(i) ==
  /\ gui.pc = "idle" /\ quit = 0 /\ view = "stu"
  /\ i \in DOMAIN rows
  /\ list # <<>>
  /\ gui' = [pc |-> "at", row |-> i, shown |-> rows[i],
             raced |-> data.pc = "parse"]
  /\ UNCHANGED <<service, asked, poll, xml, data, model, mode, view, exit>>

(* ... then takes its element i.  A program that has read behind the end of *)
(* g_stu2List is not followed any further.                                  *)
Found == IF gui.row <= Len(list) THEN list[gui.row] ELSE OutOfRange

ClickAt ==
  /\ gui.pc = "at"
  /\ gui' = IF Found = OutOfRange THEN [Idle EXCEPT !.pc = "lost"] ELSE Idle
  /\ UNCHANGED <<service, asked, poll, xml, data, model, mode, view, exit>>

-----------------------------------------------------------------------------
Poller == PollBegin \/ PollAnswer \/ PollEmpty \/ PollEnd \/ ThreadEnd
Data   == DataBegin \/ ParseOne \/ ParseEnd \/ DealRow \/ DataEnd \/ DataThreadEnd
Switch == SwitchMode \/ SwitchAsked \/ ClickAt

Next ==
  /\ gui.pc # "lost"
  /\ \/ Change \/ Poller \/ Data \/ Switch \/ Stop
     \/ \E p \in Page : SwitchView(p)
     \/ \E i \in 1 .. MaxLen : Click(i)

Spec == Init /\ [][Next]_vars

(* Every request ends, every handler ends, and DataThread goes on once it   *)
(* has g_mutex.  Nothing says that it ever gets it: Thread takes it again   *)
(* right after giving it back.                                              *)
FairSpec ==
  /\ Spec
  /\ WF_vars(Poller) /\ WF_vars(Data) /\ WF_vars(Switch)
  /\ WF_vars(quit # 0 /\ Stop)

-----------------------------------------------------------------------------
TypeOK ==
  /\ present \in Lists
  /\ asked \in Page \cup {"none"} /\ poll \in Page \cup {"none", "out", "ended"}
  /\ xml \in [of : Page, list : Lists] \cup {NoAnswer}
  /\ data \in [pc : {"out", "parse", "deal", "ended"}, page : Page, k : 1 .. MaxLen + 1]
  /\ list \in Lists
  /\ rows \in BoundedSeq(Student \cup {Blank}, MaxLen)
  /\ mode \in Page /\ view \in Page
  /\ gui \in [pc : {"idle", "mode", "ask", "at", "lost"}, row : 0 .. MaxLen,
              shown : Student \cup {Blank}, raced : BOOLEAN]
  /\ changed \in BOOLEAN /\ quit \in 0 .. 3 /\ late \in BOOLEAN

(* No seat is read from two rows, whatever is put over whom and whenever    *)
(* the GUI thread empties the table in between: a student is in two rows    *)
(* only if his name has a "-" or his seat has changed.                      *)
OneRowPerSeat ==
  \A i, j \in DOMAIN rows :
    /\ {rows[i], rows[j]} \subseteq Student \ Misread
    /\ Seat[rows[i]] = Seat[rows[j]]
    => i = j

(* As long as the service's list only grows, a click finds the student      *)
(* whose row it hits, or it runs behind the end of a list that DataThread   *)
(* was rebuilding during the click; it never finds another student.         *)
PickHasCause ==
  gui.pc = "at" /\ ~changed /\ gui.shown # Blank =>
    Found = gui.shown \/ (Found = OutOfRange /\ gui.raced)

(* When the window stays on the students, the service's list stays the      *)
(* same, Thread gets answers and DataThread gets g_mutex again and again,   *)
(* every listed student is shown in the end, however the rows began, or     *)
(* another one is with the same seat.                                       *)
ShownOrStarved ==
  (/\ <>[](view = "stu" /\ gui.pc \in {"idle", "at"})
   /\ <>[][FALSE]_present
   /\ []<><<PollAnswer>>_vars
   /\ []<>(data.pc # "out"))
  => <>[](\A s \in Range(present) : s \in Range(rows) \/ SeatIsRead(s))

(* The end of the program: once ~FlodCloudWidget has begun, both threads    *)
(* end and it gets past its waits, though DataThread may be kept from       *)
(* g_mutex for as long as Thread runs.                                      *)
ShutdownEnds == quit # 0 ~> quit = 3
=============================================================================
