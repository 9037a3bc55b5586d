---------------------------- MODULE ControlChannel ----------------------------
(***************************************************************************)
(* SimpleServer of AVCapture: AcceptThread puts the connections of the     *)
(* teacher's program into the fd_set g_fdClientSock, WorkerThread polls    *)
(* them with select and obeys the command each one carries.  The two       *)
(* threads share the fd_set and clientNum without a lock, so FD_SET,       *)
(* FD_CLR and the counting are taken apart where the other thread can come *)
(* in between.                                                             *)
(*                                                                         *)
(* av_singal_start and av_singal_stop make one connection per command,     *)
(* send the command and close it, all of it in the GUI thread of the       *)
(* teacher's program.  A connection is its number; one that fails to open  *)
(* is none.                                                                *)
(***************************************************************************)
EXTENDS Integers, Sequences, FiniteSets

CONSTANTS
  FdSize,     \* FD_SETSIZE
  MaxConn     \* bound: how many connections are made

ASSUME FdSizeAssumption == FdSize \in Nat \ {0}
ASSUME MaxConnAssumption == MaxConn \in Nat

Conn == 1 .. MaxConn
Index == 0 .. FdSize - 1

VARIABLES
  made,      \* how many connections have been made
  backlog,   \* those accept has not returned yet, oldest first
  unread,    \* the connections whose command has not been received
  finished,  \* the connections the teacher's program has closed
  closed,    \* the connections the server has closed
  fds,       \* g_fdClientSock: fd_count and fd_array
  clientNum, \* clientNum
  acc,       \* where AcceptThread is, and the connection it is adding
  wk,        \* WorkerThread: where it is, its index, fdRead after select
  applied,   \* history: the connections in the order of their commands
  skipped,   \* history: an FD_CLR moved an entry under the index
  clash,     \* history: FD_SET and FD_CLR have met
  miscount   \* history: clientNum++ and clientNum-- have met

vars == <<made, backlog, unread, finished, closed, fds, clientNum, acc, wk,
          applied, skipped, clash, miscount>>

peer   == <<made, unread, finished>>
server == <<closed, fds, clientNum>>
past   == <<applied, skipped, clash, miscount>>

NoConn == 0

Init ==
  /\ made = 0 /\ backlog = <<>> /\ unread = {} /\ finished = {} /\ closed = {}
  /\ fds = [count |-> 0, array |-> [i \in Index |-> NoConn]]
  /\ clientNum = 0
  /\ acc = [pc |-> "test", c |-> NoConn, n |-> 0]
  /\ wk = [pc |-> "select", i |-> 0, ready |-> {}, n |-> 0]
  /\ applied = <<>> /\ skipped = FALSE /\ clash = FALSE /\ miscount = FALSE

Entries == {fds.array[i] : i \in 0 .. fds.count - 1}

(* FD_CLR removes the first entry equal to c and moves those behind it      *)
(* down; the last slot keeps its value.                                     *)
FD_CLR(c) ==
  IF c \notin Entries THEN fds
  ELSE [count |-> fds.count - 1,
        array |-> [i \in Index |->
                     IF i < fds.count - 1 /\ \E j \in 0 .. i : fds.array[j] = c
                       THEN fds.array[i + 1] ELSE fds.array[i]]]

-----------------------------------------------------------------------------
(* The teacher's program. *)

(* newConnect, when it succeeds, and send_data, which may fail: the         *)
(* connection then carries no command.                                      *)
Connect(sent) ==
  /\ made < MaxConn /\ finished = 1 .. made
  /\ made' = made + 1
  /\ backlog' = Append(backlog, made + 1)
  /\ unread' = IF sent THEN unread \cup {made + 1} ELSE unread
  /\ UNCHANGED <<finished, server, acc, wk, past>>

(* The mytcpclient goes out of scope. *)
Finish ==
  /\ finished # 1 .. made
  /\ finished' = 1 .. made
  /\ UNCHANGED <<made, unread, backlog, server, acc, wk, past>>

-----------------------------------------------------------------------------
(* AcceptThread *)

AcceptTest ==
  /\ acc.pc = "test"
  /\ acc' = [acc EXCEPT !.pc = IF clientNum < FdSize THEN "accept" ELSE "ended"]
  /\ UNCHANGED <<peer, backlog, server, wk, past>>

(* accept returns; FD_SET stores the socket behind the last one, ...        *)
AcceptStore ==
  /\ acc.pc = "accept" /\ backlog # <<>>
  /\ backlog' = Tail(backlog)
  /\ IF fds.count < FdSize
       THEN /\ fds' = [fds EXCEPT !.array[fds.count] = Head(backlog)]
            /\ acc' = [acc EXCEPT !.pc = "count", !.c = Head(backlog)]
            /\ UNCHANGED clash
       ELSE /\ acc' = [acc EXCEPT !.pc = "number", !.c = Head(backlog)]
            /\ clash' = TRUE
            /\ UNCHANGED fds
  /\ UNCHANGED <<peer, closed, clientNum, wk, applied, skipped, miscount>>

(* ... and increments fd_count. *)
AcceptCount ==
  /\ acc.pc = "count"
  /\ fds' = [fds EXCEPT !.count = fds.count + 1]
  /\ acc' = [acc EXCEPT !.pc = "number"]
  /\ UNCHANGED <<peer, backlog, closed, clientNum, wk, past>>

(* clientNum++ is a load and a store. *)
AcceptNumber ==
  /\ acc.pc = "number"
  /\ acc' = [pc |-> "store", c |-> acc.c, n |-> clientNum + 1]
  /\ miscount' = (miscount \/ wk.pc = "store")
  /\ UNCHANGED <<peer, backlog, server, wk, applied, skipped, clash>>

AcceptNumbered ==
  /\ acc.pc = "store"
  /\ clientNum' = acc.n
  /\ acc' = [pc |-> "test", c |-> NoConn, n |-> 0]
  /\ UNCHANGED <<peer, backlog, closed, fds, wk, past>>

-----------------------------------------------------------------------------
(* WorkerThread *)

Readable(c) == c \in unread \/ c \in finished

(* Mutant of Select: one readable socket a pass. *)
SelectOne ==
  /\ wk.pc = "select"
  /\ Entries \cap closed = {}
  /\ \E c \in Entries :
       /\ Readable(c)
       /\ wk' = [wk EXCEPT !.pc = "scan", !.ready = {c}]
  /\ UNCHANGED <<peer, backlog, server, acc, past>>

(* select fails when the set is empty or holds a closed socket; the loop    *)
(* then only sleeps.  A pass that finds nothing readable does nothing.      *)
Select ==
  /\ wk.pc = "select"
  /\ Entries \cap closed = {}
  /\ \E c \in Entries : Readable(c)
  /\ wk' = [wk EXCEPT !.pc = "scan", !.ready = {c \in Entries : Readable(c)}]
  /\ UNCHANGED <<peer, backlog, server, acc, past>>

Current == fds.array[wk.i]

Scanning == wk.pc = "scan" /\ wk.i < fds.count

(* Mutant of ScanPast: the index stays. *)
ScanPastStuck ==
  /\ Scanning /\ Current \notin wk.ready
  /\ UNCHANGED vars

ScanPast ==
  /\ Scanning /\ Current \notin wk.ready
  /\ wk' = [wk EXCEPT !.i = wk.i + 1]
  /\ UNCHANGED <<peer, backlog, server, acc, past>>

(* A "start" or a "stop" arrives. *)
RecvCommand ==
  /\ Scanning /\ Current \in wk.ready
  /\ Current \in unread \ closed
  /\ unread' = unread \ {Current}
  /\ applied' = Append(applied, Current)
  /\ wk' = [wk EXCEPT !.i = wk.i + 1]
  /\ UNCHANGED <<made, finished, backlog, server, acc, skipped, clash, miscount>>

(* recv returns 0, or fails: the socket is closed, ... *)
RecvEnd ==
  /\ Scanning /\ Current \in wk.ready
  /\ Current \in closed \/ (Current \notin unread /\ Current \in finished)
  /\ closed' = closed \cup {Current}
  /\ wk' = [wk EXCEPT !.pc = "store", !.n = clientNum - 1]
  /\ miscount' = (miscount \/ acc.pc = "store")
  /\ UNCHANGED <<peer, backlog, fds, clientNum, acc, applied, skipped, clash>>

(* Mutant of Uncount: clientNum is not decremented. *)
UncountNothing ==
  /\ wk.pc = "store"
  /\ wk' = [wk EXCEPT !.pc = "clear", !.n = 0]
  /\ UNCHANGED <<peer, backlog, server, acc, past>>

(* ... clientNum is decremented, ... *)
Uncount ==
  /\ wk.pc = "store"
  /\ clientNum' = wk.n
  /\ wk' = [wk EXCEPT !.pc = "clear", !.n = 0]
  /\ UNCHANGED <<peer, backlog, closed, fds, acc, past>>

(* Mutant of Clear: FD_CLR is forgotten. *)
ClearNothing ==
  /\ wk.pc = "clear"
  /\ wk' = [wk EXCEPT !.pc = "scan", !.i = wk.i + 1]
  /\ UNCHANGED <<peer, backlog, server, acc, past>>

(* ... and FD_CLR takes it out of the set, and the for loop moves on. *)
Clear ==
  /\ wk.pc = "clear"
  /\ fds' = FD_CLR(Current)
  /\ wk' = [wk EXCEPT !.pc = "scan", !.i = wk.i + 1]
  /\ skipped' = (skipped \/ wk.i < fds.count - 1)
  /\ clash' = (clash \/ acc.pc = "count")
  /\ UNCHANGED <<peer, backlog, closed, clientNum, acc, applied, miscount>>

ScanEnd ==
  /\ wk.pc = "scan" /\ wk.i >= fds.count
  /\ wk' = [pc |-> "select", i |-> 0, ready |-> {}, n |-> 0]
  /\ UNCHANGED <<peer, backlog, server, acc, past>>

-----------------------------------------------------------------------------
Acceptor == AcceptTest \/ AcceptStore \/ AcceptCount \/ AcceptNumber
            \/ AcceptNumbered

Worker == Select \/ ScanPast \/ RecvCommand \/ RecvEnd \/ Uncount \/ Clear
          \/ ScanEnd

Next == (\E sent \in BOOLEAN : Connect(sent)) \/ Finish \/ Acceptor \/ Worker

Spec == Init /\ [][Next]_vars

(* Both threads loop with a sleep of 10 ms; the teacher's program closes    *)
(* each connection when its mytcpclient goes out of scope.                  *)
FairSpec == Spec /\ WF_vars(Finish) /\ WF_vars(Acceptor) /\ WF_vars(Worker)

-----------------------------------------------------------------------------
TypeOK ==
  /\ made \in 0 .. MaxConn
  /\ backlog \in Seq(Conn)
  /\ unread \subseteq Conn /\ finished \subseteq Conn /\ closed \subseteq Conn
  /\ fds \in [count : 0 .. FdSize, array : [Index -> Conn \cup {NoConn}]]
  /\ clientNum \in IF miscount THEN Int ELSE -1 .. FdSize
  /\ acc \in [pc : {"test", "accept", "count", "number", "store", "ended"},
              c : Conn \cup {NoConn}, n : Int]
  /\ wk \in [pc : {"select", "scan", "store", "clear"}, i : 0 .. FdSize,
             ready : SUBSET Conn, n : Int]
  /\ applied \in Seq(Conn)
  /\ skipped \in BOOLEAN /\ clash \in BOOLEAN /\ miscount \in BOOLEAN

(* Unless FD_SET and FD_CLR have met, the set holds every accepted          *)
(* connection that is not closed, once, and clientNum counts them, unless   *)
(* the two threads have counted at the same time.                           *)
SetMatches ==
  ~clash =>
    LET accepted == 1 .. made \ {backlog[k] : k \in DOMAIN backlog}
        adding   == IF acc.pc = "count" THEN {acc.c} ELSE {}
        leaving  == IF wk.pc \in {"store", "clear"} THEN {Current} ELSE {}
    IN  /\ Entries = ((accepted \ closed) \ adding) \cup leaving
        /\ Cardinality(Entries) = fds.count
        /\ ~miscount =>
             clientNum = fds.count
                         - (IF wk.pc = "clear" THEN 1 ELSE 0)
                         - (IF acc.pc \in {"number", "store"} THEN 1 ELSE 0)

(* Commands are obeyed in the order of their connections as long as no      *)
(* FD_CLR has moved an entry under the index of the loop.                   *)
InOrderUnlessSkipped ==
  ~skipped /\ ~clash =>
    \A j, k \in DOMAIN applied : j < k => applied[j] < applied[k]

(* A set with a closed socket in it makes every later select fail; that     *)
(* takes an FD_CLR in the middle of an FD_SET.                              *)
DeafOnlyAfterClash ==
  wk.pc = "select" /\ Entries \cap closed # {} => clash

(* Every command is obeyed in the end, unless AcceptThread has left its     *)
(* loop before its connection came up, or FD_SET and FD_CLR have met.       *)
Obeyed ==
  \A c \in Conn :
    c \in unread ~>
      \/ c \notin unread
      \/ acc.pc = "ended" /\ \E k \in DOMAIN backlog : backlog[k] = c
      \/ clash
=============================================================================
