------------------------------ MODULE JsonAnswer ------------------------------
(***************************************************************************)
(* What the teacher's program takes from an answer of the classroom        *)
(* service (MyJson).  An answer is the form it arrives in, the values of   *)
(* its fields "success" and "data", and the elements of its array as pairs *)
(* of an id and a name; an element of the array that lacks a field has ""  *)
(* for it.  The empty answer is also what myHttp::GetData leaves after an  *)
(* error or a timeout.                                                     *)
(***************************************************************************)
EXTENDS Sequences

CONSTANTS
  Name,        \* the names of classes, "" among them
  Latin1(_),   \* the name that is left of a name by QString::toLatin1
  Accented     \* the names of which it leaves bytes that are not UTF-8

ASSUME Latin1Assumption == \A n \in Name : Latin1(n) \in Name
ASSUME AccentedAssumption == Accented \subseteq Name

Answer(Id) ==
  [form    : {"empty", "text", "object"},
   success : {"absent", "true", "other"},
   data    : {"absent", "array", "list", "true", "other"},
   rows    : Seq([id : Id, name : Name])]

Bare(form, success, data) ==
  [form |-> form, success |-> success, data |-> data, rows |-> <<>>]

Nothing == Bare("empty", "absent", "absent")

Granted(a) == a.form = "object" /\ a.success = "true"

(* A list is read as UTF-8 from what toLatin1 leaves: one accented name      *)
(* makes QJsonDocument::fromJson reject the whole answer.                   *)
Legible(a) == \A i \in DOMAIN a.rows : a.rows[i].name \notin Accented

(* The elements of data.list, appended to an empty list one by one. *)
GetClassTemplate(a) ==
  IF Granted(a) /\ Legible(a) /\ a.data = "list"
  THEN [i \in DOMAIN a.rows |-> [a.rows[i] EXCEPT !.name = Latin1(@)]]
  ELSE <<>>

(* The ids of the rooms: the names are not used. *)
GetRoomId(a) ==
  IF Granted(a) /\ Legible(a) /\ a.data = "array"
  THEN [i \in DOMAIN a.rows |-> a.rows[i].id]
  ELSE <<>>

(* Whether a request was granted.  The value of "data" replaces that of     *)
(* "success", and an answer that is not understood counts as yes.           *)
GetRespose(a) ==
  /\ a.form # "empty"
  /\ a.form = "object" /\ a.success # "absent" =>
       IF a.data = "absent" THEN a.success = "true" ELSE a.data = "true"
=============================================================================
