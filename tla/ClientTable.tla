----------------------------- MODULE ClientTable -----------------------------
(***************************************************************************)
(* The table of video clients of MyTcpServer and the four threads that use *)
(* it without a lock: AcceptThread appends, WorkerThread waits for a       *)
(* client's bytes and then uses the index it woke up with, AVProcess sends *)
(* every frame as a header and a payload to one entry after the other, and *)
(* the control thread's stop clears the table (disConnectAll).             *)
(*                                                                         *)
(* Three things are atomic here: a call of Cleanup, an iteration of        *)
(* AcceptThread, and reading the arrays at an index for the arguments of    *)
(* one call.  What goes wrong in this model goes wrong even with a lock     *)
(* around each of them.  Everything between them is a step of its own: the  *)
(* test of g_bAVCatpure, the send, the Cleanup that follows a refusal, the  *)
(* wait for a client's bytes and the Cleanup that follows none.  Once a     *)
(* thread has used an index that is no longer its client's, the table may   *)
(* be corrupt and the model stops.                                         *)
(***************************************************************************)
EXTENDS Integers, Sequences, FiniteSets

CONSTANTS
  Conn,       \* the connections made to the server, each accepted once
  MaxConn,    \* MAXIMUM_WAIT_OBJECTS, the size of the arrays
  None        \* INVALID_SOCKET, or NULL

ASSUME ConnAssumption == IsFiniteSet(Conn) /\ None \notin Conn

(* AcceptThread does not check the bound: with more connections it writes   *)
(* past the arrays.                                                         *)
ASSUME MaxConnAssumption == MaxConn \in Nat \ {0} /\ Cardinality(Conn) <= MaxConn

VARIABLES
  tab,        \* g_iTotalConn, g_CliSocketArr, g_CliEventArr, g_pPerIODataArr
  listening,  \* AcceptThread is still in its loop
  accepted,   \* the connections accept has returned
  open,       \* those of them whose socket the server has not closed
  gone,       \* the connections their client has closed
  recv,       \* what a connection's pending WSARecv has completed with
  flag,       \* g_bAVCatpure
  ctl,        \* the control thread, and its index in disConnectAll
  wk,         \* WorkerThread: the entries it waits on, the index it woke with,
              \* the client whose bytes it asked for
  bc,         \* AVProcess: its pass, its step in send_data's loop, the entry it
              \* is at, its socket argument
  reached,    \* history: who has been sent what the current pass sends
  disturbed,  \* history: the table has changed since the pass began
  stale       \* history: an index was used that was no longer its client's

vars == <<tab, listening, accepted, open, gone, recv, flag, ctl, wk, bc,
          reached, disturbed, stale>>

acceptor == <<listening, accepted>>
control  == <<flag, ctl>>
history  == <<reached, disturbed, stale>>

Index == 0 .. MaxConn - 1
Entry == Conn \cup {None}

Init ==
  /\ tab = [total |-> 0, sock |-> [i \in Index |-> None],
            ev |-> [i \in Index |-> None], io |-> [i \in Index |-> None]]
  /\ listening = TRUE /\ accepted = {} /\ open = {} /\ gone = {}
  /\ recv = [c \in Conn |-> "none"]
  /\ flag = TRUE
  /\ ctl = [pc |-> "recv", i |-> 0]
  /\ wk = [pc |-> "idle", watched |-> <<>>, index |-> 0, c |-> None]
  /\ bc = [pass |-> "idle", step |-> "entry", i |-> 0, c |-> None]
  /\ reached = {} /\ disturbed = FALSE
  /\ stale = FALSE

Clients == {tab.sock[i] : i \in 0 .. tab.total - 1}

(* Mutant of Freed: the last entry is not moved. *)
FreedUnmoved(t, i) ==
  [t EXCEPT !.sock[i] = None, !.ev[i] = None, !.total = t.total - 1,
            !.io[t.total - 1] = None]

(* Cleanup frees entry i and moves the last entry into it.  The last slot   *)
(* keeps its old socket and event, and loses its per-io block.              *)
Freed(t, i) ==
  LET last == t.total - 1
      moved(f) == [f EXCEPT ![i] = IF i < last THEN f[last] ELSE None]
  IN  [total |-> last, sock |-> moved(t.sock), ev |-> moved(t.ev),
       io |-> [IF i < last THEN moved(t.io) ELSE t.io EXCEPT ![last] = None]]

(* Closing a socket completes its pending WSARecv with no bytes. *)
Cleanup(i) ==
  LET c == tab.sock[i]
  IN  /\ tab' = Freed(tab, i)
      /\ open' = open \ {c}
      /\ recv' = [d \in Conn |->
                    IF d = c /\ recv[d] = "none" THEN "zero" ELSE recv[d]]
      /\ disturbed' = (bc.pass # "idle")

(* What a thread does with entry i when it means client c: by then the      *)
(* entry may be another's, or nobody's.                                     *)
Foreign(i, c) == i >= tab.total \/ tab.sock[i] # c

CleanupFor(i, c) ==
  /\ stale' = Foreign(i, c)
  /\ IF tab.total > 0 THEN Cleanup(i) ELSE UNCHANGED <<tab, open, recv, disturbed>>

-----------------------------------------------------------------------------
(* The clients.  What one does after the server has closed its socket       *)
(* reaches nobody.                                                          *)

Ask(c) ==
  /\ c \in open \ gone
  /\ recv[c] = "none"
  /\ recv' = [recv EXCEPT ![c] = "data"]
  /\ UNCHANGED <<tab, acceptor, open, gone, control, wk, bc, history>>

Leave(c) ==
  /\ c \in open \ gone
  /\ gone' = gone \cup {c}
  /\ recv' = IF recv[c] = "none" THEN [recv EXCEPT ![c] = "zero"] ELSE recv
  /\ UNCHANGED <<tab, acceptor, open, control, wk, bc, history>>

-----------------------------------------------------------------------------
(* AcceptThread *)

Entered(c) ==
  [tab EXCEPT !.sock[tab.total] = c, !.ev[tab.total] = c, !.io[tab.total] = c]

Accept(c) ==
  /\ listening /\ c \notin accepted
  /\ tab' = [Entered(c) EXCEPT !.total = tab.total + 1]
  /\ accepted' = accepted \cup {c}
  /\ open' = open \cup {c}
  /\ disturbed' = (bc.pass # "idle")
  /\ UNCHANGED <<listening, gone, recv, control, wk, bc, reached, stale>>

(* The first WSARecv fails at once (the client has reset the connection):   *)
(* the thread leaves its loop and closes the listening socket.              *)
AcceptFails(c) ==
  /\ listening /\ c \notin accepted
  /\ tab' = Entered(c)
  /\ listening' = FALSE
  /\ accepted' = accepted \cup {c}
  /\ open' = open \cup {c}
  /\ gone' = gone \cup {c}
  /\ UNCHANGED <<recv, control, wk, bc, history>>

-----------------------------------------------------------------------------
(* WorkerThread *)

(* It waits on the entries there are now; those accepted later are not in   *)
(* its wait.  With no entry the wait fails and the loop tries again.        *)
WorkerWait ==
  /\ wk.pc = "idle" /\ tab.total > 0
  /\ wk' = [wk EXCEPT !.pc = "wait",
            !.watched = [k \in 1 .. tab.total |-> tab.ev[k - 1]]]
  /\ UNCHANGED <<tab, acceptor, open, gone, recv, control, bc, history>>

(* The lowest signalled index wins. *)
WorkerWake ==
  /\ wk.pc = "wait"
  /\ \E i \in 0 .. Len(wk.watched) - 1 :
       /\ recv[wk.watched[i + 1]] # "none"
       /\ \A j \in 0 .. i - 1 : recv[wk.watched[j + 1]] = "none"
       /\ wk' = [wk EXCEPT !.pc = "use", !.index = i, !.watched = <<>>]
  /\ UNCHANGED <<tab, acceptor, open, gone, recv, control, bc, history>>

(* WSAGetOverlappedResult is called for whoever is at that index now; past   *)
(* the last entry there is no per-io block, and nobody.                     *)
WorkerAsk ==
  /\ wk.pc = "use"
  /\ wk' = [wk EXCEPT !.pc = "result",
            !.c = IF wk.index < tab.total THEN tab.sock[wk.index] ELSE None]
  /\ UNCHANGED <<tab, acceptor, open, gone, recv, control, bc, history>>

(* Mutant of WorkerResult: the number of bytes is not looked at. *)
WorkerResultUncounted ==
  /\ wk.pc = "result"
  /\ wk.c \in open => recv[wk.c] # "none"
  /\ wk' = [wk EXCEPT !.pc = "close"]
  /\ UNCHANGED <<tab, acceptor, open, gone, recv, control, bc, history>>

(* It waits for that client's bytes, and their number decides.  When the    *)
(* block has been freed meanwhile, or there was none, nothing says what it   *)
(* leaves in cbTransferred.                                                 *)
WorkerResult ==
  /\ wk.pc = "result"
  /\ wk.c \in open => recv[wk.c] # "none"
  /\ \E pc \in {"data", "close"} :
       /\ wk.c \in open => (pc = "close" <=> recv[wk.c] = "zero")
       /\ wk' = [wk EXCEPT !.pc = pc]
  /\ UNCHANGED <<tab, acceptor, open, gone, recv, control, bc, history>>

WorkerIdle == [wk EXCEPT !.pc = "idle", !.index = 0, !.c = None]

(* The bytes are read from the block at the index, which waits again. *)
WorkerData ==
  /\ wk.pc = "data" /\ ~Foreign(wk.index, wk.c)
  /\ recv' = [recv EXCEPT ![wk.c] = IF wk.c \in gone THEN "zero" ELSE "none"]
  /\ wk' = WorkerIdle
  /\ UNCHANGED <<tab, acceptor, open, gone, control, bc, history>>

(* ... unless the new WSARecv fails at once: the thread leaves its loop. *)
WorkerEnds ==
  /\ wk.pc = "data" /\ ~Foreign(wk.index, wk.c) /\ wk.c \in gone
  /\ wk' = [wk EXCEPT !.pc = "ended", !.c = None]
  /\ UNCHANGED <<tab, acceptor, open, gone, recv, control, bc, history>>

(* A write into another client's block, or through a NULL pointer. *)
WorkerLost ==
  /\ wk.pc = "data" /\ Foreign(wk.index, wk.c)
  /\ stale' = TRUE
  /\ UNCHANGED <<tab, acceptor, open, gone, recv, control, wk, bc, reached, disturbed>>

(* No bytes: the entry at the index is cleaned up. *)
WorkerClose ==
  /\ wk.pc = "close"
  /\ CleanupFor(wk.index, wk.c)
  /\ wk' = WorkerIdle
  /\ UNCHANGED <<acceptor, gone, control, bc, reached>>

-----------------------------------------------------------------------------
(* AVProcess: send_data of the header, then of the payload. *)

FrameBegin ==
  /\ bc.pass = "idle" /\ flag
  /\ bc' = [bc EXCEPT !.pass = "header", !.i = 0]
  /\ UNCHANGED <<tab, acceptor, open, gone, recv, control, wk, history>>

SendBegin ==
  /\ bc.pass # "idle" /\ bc.step = "entry"
  /\ bc.i < tab.total
  /\ bc' = [bc EXCEPT !.step = "test", !.c = tab.sock[bc.i]]
  /\ UNCHANGED <<tab, acceptor, open, gone, recv, control, wk, history>>

(* send_data2 tests g_bAVCatpure, and returns -1 when it is clear. *)
SendTest ==
  /\ bc.step = "test"
  /\ bc' = [bc EXCEPT !.step = IF flag THEN "send" ELSE "refused"]
  /\ UNCHANGED <<tab, acceptor, open, gone, recv, control, wk, history>>

NextEntry == [bc EXCEPT !.step = "entry", !.i = bc.i + 1, !.c = None]

SendOk ==
  /\ bc.step = "send" /\ bc.c \in open
  /\ reached' = reached \cup {bc.c}
  /\ bc' = NextEntry
  /\ UNCHANGED <<tab, acceptor, open, gone, recv, control, wk, disturbed, stale>>

(* It returns -1 as well when the socket is closed or its client has left. *)
SendFails ==
  /\ bc.step = "send"
  /\ bc.c \notin open \/ bc.c \in gone
  /\ bc' = [bc EXCEPT !.step = "failed"]
  /\ UNCHANGED <<tab, acceptor, open, gone, recv, control, wk, history>>

(* On -1 send_data cleans up the entry, whichever client is there by now. *)
SendCleanup ==
  /\ bc.step \in {"refused", "failed"}
  /\ CleanupFor(bc.i, bc.c)
  /\ bc' = NextEntry
  /\ UNCHANGED <<acceptor, gone, control, wk, reached>>

PassOver == bc.pass # "idle" /\ bc.step = "entry" /\ bc.i >= tab.total

NewPass(b) ==
  /\ bc' = b
  /\ reached' = {} /\ disturbed' = FALSE
  /\ UNCHANGED <<tab, acceptor, open, gone, recv, control, wk, stale>>

(* Mutant of HeaderEnd: the second pass does not begin at entry 0. *)
HeaderEndKeepsIndex ==
  PassOver /\ bc.pass = "header" /\ NewPass([bc EXCEPT !.pass = "payload"])

HeaderEnd ==
  PassOver /\ bc.pass = "header" /\ NewPass([bc EXCEPT !.pass = "payload", !.i = 0])

FrameEnd ==
  PassOver /\ bc.pass = "payload" /\ NewPass([bc EXCEPT !.pass = "idle", !.i = 0])

-----------------------------------------------------------------------------
(* The control thread. *)

Start ==
  /\ ctl.pc = "recv"
  /\ flag' = TRUE
  /\ UNCHANGED <<tab, acceptor, open, gone, recv, ctl, wk, bc, history>>

Stop ==
  /\ ctl.pc = "recv"
  /\ flag' = FALSE
  /\ ctl' = [pc |-> "disconnect", i |-> 0]
  /\ UNCHANGED <<tab, acceptor, open, gone, recv, wk, bc, history>>

(* disConnectAll goes on to the next index, over the entry moved into i. *)
DisconnectOne ==
  /\ ctl.pc = "disconnect" /\ ctl.i < tab.total
  /\ Cleanup(ctl.i)
  /\ ctl' = [ctl EXCEPT !.i = ctl.i + 1]
  /\ UNCHANGED <<acceptor, gone, flag, wk, bc, reached, stale>>

DisconnectEnd ==
  /\ ctl.pc = "disconnect" /\ ctl.i >= tab.total
  /\ ctl' = [pc |-> "recv", i |-> 0]
  /\ UNCHANGED <<tab, acceptor, open, gone, recv, flag, wk, bc, history>>

-----------------------------------------------------------------------------
Client  == \E c \in Conn : Ask(c) \/ Leave(c)
Acceptor == \E c \in Conn : Accept(c) \/ AcceptFails(c)
Worker  == \/ WorkerWait \/ WorkerWake \/ WorkerAsk \/ WorkerResult
           \/ WorkerData \/ WorkerEnds \/ WorkerLost \/ WorkerClose
Sender  == \/ FrameBegin \/ SendBegin \/ SendTest \/ SendOk \/ SendFails
           \/ SendCleanup \/ HeaderEnd \/ FrameEnd
Control == Start \/ Stop \/ DisconnectOne \/ DisconnectEnd

Next == ~stale /\ (Client \/ Acceptor \/ Worker \/ Sender \/ Control)

Spec == Init /\ [][Next]_vars

-----------------------------------------------------------------------------
TypeOK ==
  /\ tab \in [total : 0 .. MaxConn, sock : [Index -> Entry],
              ev : [Index -> Entry], io : [Index -> Entry]]
  /\ listening \in BOOLEAN
  /\ accepted \subseteq Conn /\ open \subseteq accepted /\ gone \subseteq accepted
  /\ recv \in [Conn -> {"none", "data", "zero"}]
  /\ flag \in BOOLEAN
  /\ ctl \in [pc : {"recv", "disconnect"}, i : 0 .. MaxConn]
  /\ wk.pc \in {"idle", "wait", "use", "result", "data", "close", "ended"}
  /\ wk.watched \in Seq(Conn) /\ wk.index \in Index /\ wk.c \in Entry
  /\ bc \in [pass : {"idle", "header", "payload"},
             step : {"entry", "test", "send", "refused", "failed"},
             i : 0 .. MaxConn, c : Entry]
  /\ reached \subseteq Conn /\ disturbed \in BOOLEAN /\ stale \in BOOLEAN

(* The entries below g_iTotalConn are open connections, each in one entry   *)
(* with its own event and per-io block; every other connection is closed,   *)
(* but for the one AcceptThread dropped on its way out.                     *)
WellFormed ==
  ~stale =>
    /\ \A i \in 0 .. tab.total - 1 :
         /\ tab.sock[i] \in open
         /\ tab.ev[i] = tab.sock[i] /\ tab.io[i] = tab.sock[i]
         /\ \A j \in 0 .. i - 1 : tab.sock[j] # tab.sock[i]
    /\ listening => open = Clients

(* While the demonstration is on, a client that stays connected is closed   *)
(* in two ways only: through an index that another thread's Cleanup has     *)
(* made stale, or because send_data2 found the flag clear before the start   *)
(* and send_data cleans up after it.                                        *)
InnocentKept ==
  [][\A c \in open \ open' :
       flag /\ c \notin gone =>
         stale' \/ (bc.step = "refused" /\ bc.c = c /\ bc' = NextEntry)]_vars

(* A pass during which no client came or went reaches every client. *)
UndisturbedReachesAll == PassOver /\ ~disturbed => Clients \subseteq reached

(* send_data's comment: it broadcasts to all clients.  But the client that  *)
(* Cleanup moves into the entry just visited is not visited any more.       *)
BroadcastReachesAll == PassOver /\ bc.pass = "header" => Clients \subseteq reached
=============================================================================
