---------------------------- MODULE MCStudentList ----------------------------
(* The instances of StudentList that TLC checks. *)
EXTENDS StudentList

CONSTANTS s1, s2, s3, s4

(* s1 and s2 have a seat each, s3 has the seat of s1, s4 has a name with a  *)
(* "-".                                                                     *)
MCSeat == (s1 :> "A" @@ s2 :> "B" @@ s3 :> "A" @@ s4 :> "C")

(* Of the hands one is raised, or none: whose it is makes no difference to  *)
(* the students' page.                                                      *)
FewHands == xml'.of = "handup" => xml'.list \in {<<>>, <<s2>>}

(* The program stays open: what the GUI thread meets is over before it ends. *)
OpenSpec == Init /\ [][Next /\ FewHands /\ quit' = 0]_vars

(* Clicks change nothing that the table's convergence or the end of the     *)
(* program depends on, and the end depends neither on the service's list    *)
(* nor on what the rows held when it began: liveness is checked without.    *)
UnclickedSpec ==
  /\ Init
  /\ [][/\ Next /\ FewHands /\ gui'.pc # "at"
        /\ quit # 0 => UNCHANGED present
        /\ quit' = 1 /\ quit = 0 => rows = <<>>]_vars
  /\ WF_vars(Poller) /\ WF_vars(Data) /\ WF_vars(Switch)
  /\ WF_vars(quit # 0 /\ Stop)
=============================================================================
