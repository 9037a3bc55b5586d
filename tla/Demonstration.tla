----------------------------- MODULE Demonstration -----------------------------
(***************************************************************************)
(* The demonstration from the button to the capture: DemoToggle, whose     *)
(* answered requests make av_singal_start and av_singal_stop connect to    *)
(* AVCapture, and ControlChannel, whose WorkerThread sets g_bAVCatpure by  *)
(* the command of each connection.  The GUI thread does nothing else while *)
(* it connects, sends and closes, so no event loop returns and no timer    *)
(* fires in the meantime.  What DemoToggle defines is the button alone; the *)
(* whole has the names that end in All.                                    *)
(***************************************************************************)
EXTENDS DemoToggle, SequencesExt, FiniteSets

CONSTANT FdSize   \* FD_SETSIZE

ASSUME FdSizeAssumption == FdSize \in Nat \ {0}

VARIABLES
  made, backlog, unread, finished, closed, fds, clientNum, acc, wk, applied,
  skipped, clash, miscount
VARIABLES
  command,        \* what each connection is to carry: "start" is TRUE
  g_bAVCatpure,   \* AVCapture's flag
  lost            \* history: a command was not sent

Channel == INSTANCE ControlChannel WITH MaxConn <- MaxClicks

channel == <<made, backlog, unread, finished, closed, fds, clientNum, acc, wk,
             applied, skipped, clash, miscount>>
varsAll == <<vars, channel, command, g_bAVCatpure, lost>>

(* AVCapture begins as if it had been told to start. *)
InitAll ==
  /\ Init /\ Channel!Init
  /\ command = [c \in Channel!Conn |-> FALSE]
  /\ g_bAVCatpure = TRUE /\ lost = FALSE

GuiFree == finished = 1 .. made

ClickFree == GuiFree /\ Click /\ UNCHANGED <<channel, command, g_bAVCatpure, lost>>

TimeoutFree ==
  /\ GuiFree /\ \E r \in Request : Timeout(r)
  /\ UNCHANGED <<channel, command, g_bAVCatpure, lost>>

Service ==
  /\ \E r \in Request : Serve(r) \/ Refuse(r)
  /\ UNCHANGED <<channel, command, g_bAVCatpure, lost>>

(* The mutant of Send: a command is what the request asked for. *)
SendByRequest(sent) ==
  /\ Channel!Connect(sent)
  /\ command' = [command EXCEPT ![made'] = onOff[Last(loops)]]
  /\ lost' = (lost \/ ~sent)

Send(sent) ==
  /\ Channel!Connect(sent)
  /\ command' = [command EXCEPT ![made'] = m_bstart]
  /\ lost' = (lost \/ ~sent)

(* newConnect fails: AVCapture is not there. *)
Unsent == lost' = TRUE /\ UNCHANGED <<channel, command>>

ReturnSending ==
  /\ GuiFree /\ Return
  /\ IF Succeeded(Last(loops))
     THEN (\E sent \in BOOLEAN : Send(sent)) \/ Unsent
     ELSE UNCHANGED <<channel, command, lost>>
  /\ UNCHANGED g_bAVCatpure

(* Mutant of Finish: the connection is kept until the server closes it. *)
FinishAnswered ==
  Channel!Finish /\ made \in closed /\ UNCHANGED <<vars, command, g_bAVCatpure, lost>>

Finish == Channel!Finish /\ UNCHANGED <<vars, command, g_bAVCatpure, lost>>

Capture ==
  /\ Channel!Acceptor \/ Channel!Worker
  /\ g_bAVCatpure' = IF applied' = applied THEN g_bAVCatpure
                                           ELSE command[Last(applied')]
  /\ UNCHANGED <<vars, command, lost>>

NextAll == ClickFree \/ TimeoutFree \/ Service \/ ReturnSending \/ Finish \/ Capture

SpecAll == InitAll /\ [][NextAll]_varsAll

(* The fairness of the parts: timers, event loops and AVCapture's threads,  *)
(* which loop independently of each other.                                  *)
FairSpecAll ==
  /\ SpecAll
  /\ WF_varsAll(TimeoutFree) /\ WF_varsAll(ReturnSending) /\ WF_varsAll(Finish)
  /\ WF_varsAll(Capture /\ Channel!Acceptor) /\ WF_varsAll(Capture /\ Channel!Worker)

-----------------------------------------------------------------------------
(* Nothing is under way any more. *)
Quiet == loops = <<>> /\ inflight = {} /\ GuiFree /\ unread = {}

(* When nothing is under way and the newest request was granted, the button,*)
(* the classroom and AVCapture agree on whether there is a demonstration,   *)
(* whatever became of the earlier clicks.  What can part them: the service  *)
(* serves the requests in another order, a command is not sent, or the      *)
(* set of sockets lets a later command overtake or lose an earlier one.     *)
ClassroomSees ==
  /\ Quiet /\ clicks > 0 /\ answer[clicks] = "success"
  /\ ~reordered /\ ~lost /\ ~skipped /\ ~clash
  => g_bAVCatpure = text /\ shown = text /\ m_bstart = text

(* Every click ends with its nested loop, and what it has sent to AVCapture *)
(* is obeyed, unless AcceptThread has ended or the set was damaged.         *)
Settles ==
  clicks = MaxClicks ~>
    /\ loops = <<>> /\ GuiFree
    /\ unread = {} \/ acc.pc = "ended" \/ clash
=============================================================================
