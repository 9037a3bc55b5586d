------------------------- MODULE ClientTable_proofs -------------------------
(***************************************************************************)
(* Proofs about the table of video clients for every number of connections *)
(* and every size of the arrays that holds them: the entries stay one to a  *)
(* client until an index is used that is no longer its client's, only such  *)
(* a use, or a refusal that a start has overtaken, closes a client that      *)
(* stays while the demonstration is on, and a pass that nothing disturbs    *)
(* reaches every client.                                                   *)
(***************************************************************************)
EXTENDS ClientTable, FiniteSetTheorems, TLAPS

Tables ==
  [total : 0 .. MaxConn, sock : [Index -> Entry], ev : [Index -> Entry],
   io : [Index -> Entry]]

(* What TypeOK leaves out of WorkerThread: it waits on as many entries as   *)
(* the arrays have at most.                                                 *)
WorkerOK ==
  /\ wk \in [pc : {"idle", "wait", "use", "result", "data", "close", "ended"},
             watched : Seq(Conn), index : Index, c : Entry]
  /\ Len(wk.watched) <= MaxConn

(* AVProcess is inside send_data's loop only in a pass, at an entry. *)
SenderOK == bc.step # "entry" => bc.pass # "idle" /\ bc.i \in Index

Types == TypeOK /\ WorkerOK /\ SenderOK

-----------------------------------------------------------------------------
(* These parts end with the first use of a stale index. *)

EntriesMatch ==
  \A i \in 0 .. tab.total - 1 :
    tab.sock[i] \in open /\ tab.ev[i] = tab.sock[i] /\ tab.io[i] = tab.sock[i]

EntriesDiffer ==
  \A i, j \in 0 .. tab.total - 1 : tab.sock[i] = tab.sock[j] => i = j

AllEntered == listening => open = Clients

(* A pending WSARecv ends without bytes only when its client left. *)
RecvOK ==
  /\ \A c \in open : recv[c] = "zero" => c \in gone
  /\ \A c \in Conn \ accepted : recv[c] = "none"

(* disConnectAll runs with the flag clear. *)
StopOK == ctl.pc = "disconnect" => ~flag

(* A thread holds a client that has been accepted, and one that it is about  *)
(* to clean up on its own account has left or is closed already.            *)
WorkerHolds ==
  /\ wk.c \in accepted \cup {None}
  /\ wk.pc = "close" /\ wk.c \in open => wk.c \in gone

SenderHolds ==
  /\ bc.c \in accepted \cup {None}
  /\ bc.step = "failed" /\ bc.c \in open => bc.c \in gone

HeldOK == WorkerHolds /\ SenderHolds

Good ==
  EntriesMatch /\ EntriesDiffer /\ AllEntered /\ RecvOK /\ StopOK /\ HeldOK

(* This part does not: who has been reached in a pass so far, if nobody     *)
(* came or went.                                                            *)
PassOK ==
  bc.pass # "idle" /\ ~disturbed =>
    /\ bc.step # "entry" => bc.i < tab.total /\ tab.sock[bc.i] = bc.c
    /\ \A j \in 0 .. tab.total - 1 : j < bc.i => tab.sock[j] \in reached

IInv == Types /\ (~stale => Good) /\ PassOK

-----------------------------------------------------------------------------
LEMMA InitIInv == Init => IInv
  <1> SUFFICES ASSUME Init PROVE IInv
    OBVIOUS
  <1> USE MaxConnAssumption, ConnAssumption DEF Init
  <1>1. tab \in Tables
    BY DEF Tables, Index, Entry
  <1>2. Types
    <2>1. TypeOK
      <3>1. ctl \in [pc : {"recv", "disconnect"}, i : 0 .. MaxConn]
        OBVIOUS
      <3>2. bc \in [pass : {"idle", "header", "payload"},
                   step : {"entry", "test", "send", "refused", "failed"},
                   i : 0 .. MaxConn, c : Entry]
        BY DEF Entry
      <3>3. /\ wk.pc = "idle" /\ wk.watched \in Seq(Conn)
            /\ wk.index \in Index /\ wk.c \in Entry
        BY DEF Index, Entry
      <3>4. recv \in [Conn -> {"none", "data", "zero"}]
        OBVIOUS
      <3> QED BY <1>1, <3>1, <3>2, <3>3, <3>4 DEF TypeOK, Tables
    <2>2. WorkerOK
      BY DEF WorkerOK, Index, Entry
    <2> QED BY <2>1, <2>2 DEF Types, SenderOK
  <1>3. Good
    BY DEF Good, EntriesMatch, EntriesDiffer, AllEntered, RecvOK, StopOK,
           HeldOK, WorkerHolds, SenderHolds, Clients
  <1>4. PassOK
    BY DEF PassOK
  <1> QED BY <1>2, <1>3, <1>4 DEF IInv

(* What Cleanup leaves of the table, field by field. *)
LEMMA FreedIs ==
  ASSUME NEW t \in Tables, NEW i \in Index, t.total > 0,
         NEW a, a = Freed(t, i), NEW last, last = t.total - 1
  PROVE  /\ a \in Tables /\ a.total = last
         /\ a.sock = [t.sock EXCEPT ![i] = IF i < last THEN t.sock[last] ELSE None]
         /\ a.ev = [t.ev EXCEPT ![i] = IF i < last THEN t.ev[last] ELSE None]
         /\ a.io = [IF i < last THEN [t.io EXCEPT ![i] = t.io[last]] ELSE t.io
                    EXCEPT ![last] = None]
  <1>1. last \in Index /\ last \in 0 .. MaxConn /\ None \in Entry
    BY MaxConnAssumption DEF Tables, Index, Entry
  <1> DEFINE S == [t.sock EXCEPT ![i] = IF i < last THEN t.sock[last] ELSE None]
             E == [t.ev EXCEPT ![i] = IF i < last THEN t.ev[last] ELSE None]
             M == [IF i < last THEN [t.io EXCEPT ![i] = t.io[last]] ELSE t.io
                   EXCEPT ![last] = None]
  <1>2. S \in [Index -> Entry] /\ E \in [Index -> Entry]
    BY <1>1 DEF Tables
  <1>3. M \in [Index -> Entry]
    <2>1. [t.io EXCEPT ![i] = t.io[last]] \in [Index -> Entry]
      BY <1>1 DEF Tables
    <2>2. t.io \in [Index -> Entry]
      BY DEF Tables
    <2> QED BY <1>1, <2>1, <2>2
  <1>4. a = [total |-> last, sock |-> S, ev |-> E, io |-> M]
    BY DEF Freed
  <1> HIDE DEF S, E, M
  <1>5. a \in Tables /\ a.total = last /\ a.sock = S /\ a.ev = E /\ a.io = M
    BY <1>1, <1>2, <1>3, <1>4 DEF Tables
  <1> QED BY <1>5 DEF S, E, M

(* There is room for one more client. *)
LEMMA Room ==
  ASSUME Types, Good, NEW c \in Conn \ accepted
  PROVE  tab.total \in 0 .. MaxConn - 1
  <1> DEFINE I == 0 .. tab.total - 1
             f == [i \in I |-> tab.sock[i]]
  <1>1. tab.total \in 0 .. MaxConn /\ open \subseteq Conn /\ c \notin open
    BY DEF Types, TypeOK
  <1>2. f \in [I -> Conn \ {c}]
    BY <1>1 DEF Good, EntriesMatch
  <1>3. \A i, j \in I : f[i] = f[j] => i = j
    BY DEF Good, EntriesDiffer
  <1>4. f \in Injection(I, Conn \ {c})
    BY <1>2, <1>3 DEF Injection, IsInjective
  <1>5. /\ IsFiniteSet(Conn \ {c}) /\ Cardinality(Conn) \in Nat
        /\ Cardinality(Conn \ {c}) = Cardinality(Conn) - 1
    BY ConnAssumption, FS_RemoveElement, FS_CardinalityType
  <1>6. Cardinality(I) <= Cardinality(Conn \ {c})
    BY <1>4, <1>5, FS_Injection
  <1>7. Cardinality(I) = tab.total
    <2> DEFINE final == tab.total - 1
    <2>1. 0 \in Int /\ final \in Int
      BY <1>1
    <2> HIDE DEF final
    <2>2. Cardinality(0 .. final) = IF 0 > final THEN 0 ELSE final - 0 + 1
      BY <2>1, FS_Interval
    <2> QED BY <1>1, <2>2 DEF final
  <1> QED BY <1>1, <1>5, <1>6, <1>7, MaxConnAssumption

-----------------------------------------------------------------------------
LEMMA Fields ==
  ASSUME Types
  PROVE  /\ tab \in Tables /\ tab.total \in 0 .. MaxConn /\ tab.sock \in [Index -> Entry]
         /\ ctl.pc \in {"recv", "disconnect"} /\ ctl.i \in 0 .. MaxConn
         /\ bc.pass \in {"idle", "header", "payload"} /\ wk.index \in Index
         /\ bc.i \in 0 .. MaxConn /\ bc.c \in Entry
         /\ 0 \in Index /\ 0 \in 0 .. MaxConn /\ None \in Entry
         /\ \A i \in 0 .. MaxConn : i < tab.total => i \in Index
         /\ \A i \in Index : i + 1 \in 0 .. MaxConn
  <1>1. /\ tab \in Tables /\ tab.total \in 0 .. MaxConn /\ tab.sock \in [Index -> Entry]
    BY DEF Types, TypeOK, Tables
  <1>2. /\ ctl.pc \in {"recv", "disconnect"} /\ ctl.i \in 0 .. MaxConn
        /\ bc.pass \in {"idle", "header", "payload"} /\ wk.index \in Index
        /\ bc.i \in 0 .. MaxConn /\ bc.c \in Entry
    BY DEF Types, TypeOK
  <1>3. 0 \in Index /\ 0 \in 0 .. MaxConn /\ None \in Entry
    BY MaxConnAssumption DEF Index, Entry
  <1>4. /\ \A i \in 0 .. MaxConn : i < tab.total => i \in Index
        /\ \A i \in Index : i + 1 \in 0 .. MaxConn
    BY <1>1, MaxConnAssumption DEF Index
  <1> QED BY <1>1, <1>2, <1>3, <1>4

LEMMA CleanupTypes ==
  ASSUME Types, tab.total > 0, NEW i \in Index, Cleanup(i)
  PROVE  /\ tab' \in Tables /\ open' \subseteq open
         /\ recv' \in [Conn -> {"none", "data", "zero"}]
         /\ disturbed' \in BOOLEAN
  <1>1. tab \in Tables /\ open \subseteq Conn
    BY DEF Types, TypeOK, Tables
  <1>2. tab' \in Tables
    BY <1>1, FreedIs DEF Cleanup
  <1>3. recv' \in [Conn -> {"none", "data", "zero"}]
    BY DEF Cleanup, Types, TypeOK
  <1>4. open' \subseteq open /\ disturbed' \in BOOLEAN
    BY DEF Cleanup
  <1> QED BY <1>2, <1>3, <1>4

LEMMA CleanupForTypes ==
  ASSUME Types, NEW i \in Index, NEW c, CleanupFor(i, c)
  PROVE  /\ tab' \in Tables /\ open' \subseteq open
         /\ recv' \in [Conn -> {"none", "data", "zero"}]
         /\ disturbed' \in BOOLEAN /\ stale' \in BOOLEAN
  <1>1. stale' \in BOOLEAN
    BY DEF CleanupFor, Foreign
  <1>2. CASE tab.total > 0
    BY <1>1, <1>2, CleanupTypes DEF CleanupFor
  <1>3. CASE ~(tab.total > 0)
    BY <1>1, <1>3 DEF CleanupFor, Types, TypeOK, Tables
  <1> QED BY <1>2, <1>3

LEMMA TypesStep == Types /\ (~stale => Good) /\ [Next]_vars => Types'
  <1> SUFFICES ASSUME Types, ~stale => Good, [Next]_vars PROVE Types'
    OBVIOUS
  <1> USE DEF Types, TypeOK, WorkerOK, SenderOK
  <1>1. CASE UNCHANGED vars
    BY <1>1 DEF vars, acceptor, control, history
  <1>2. CASE Next
    <2> ~stale /\ Good
      BY <1>2 DEF Next
    <2>1. ASSUME NEW c \in Conn, Ask(c) PROVE Types'
      BY <2>1 DEF Ask, acceptor, control, history
    <2>2. ASSUME NEW c \in Conn, Leave(c) PROVE Types'
      BY <2>2 DEF Leave, acceptor, control, history
    <2>3. ASSUME NEW c \in Conn, Accept(c) \/ AcceptFails(c) PROVE Types'
      <3>1. c \in Conn \ accepted
        BY <2>3 DEF Accept, AcceptFails
      <3>2. tab.total \in Index /\ tab.total + 1 \in 0 .. MaxConn
        BY <3>1, Room, MaxConnAssumption DEF Index
      <3>3. Entered(c) \in Tables
        BY <3>2 DEF Entered, Tables, Entry
      <3>4. tab' \in Tables
        <4>1. [Entered(c) EXCEPT !.total = tab.total + 1] \in Tables
          BY <3>2, <3>3 DEF Tables
        <4> QED BY <2>3, <3>3, <4>1 DEF Accept, AcceptFails
      <3> QED BY <2>3, <3>1, <3>4 DEF Accept, AcceptFails, Tables, control, history
    <2>4. CASE WorkerWait
      <3>1. [k \in 1 .. tab.total |-> tab.ev[k - 1]] \in Seq(Conn)
        <4>1. \A k \in 1 .. tab.total : tab.ev[k - 1] \in Conn
          BY DEF Good, EntriesMatch
        <4> QED BY <4>1
      <3>2. Len([k \in 1 .. tab.total |-> tab.ev[k - 1]]) <= MaxConn
        BY <3>1
      <3> QED BY <2>4, <3>1, <3>2 DEF WorkerWait, acceptor, control, history
    <2>5. CASE WorkerWake
      <3>1. PICK i \in 0 .. Len(wk.watched) - 1 :
              wk' = [wk EXCEPT !.pc = "use", !.index = i, !.watched = <<>>]
        BY <2>5 DEF WorkerWake
      <3>2. i \in Index /\ <<>> \in Seq(Conn) /\ Len(<<>>) <= MaxConn
        BY MaxConnAssumption DEF Index
      <3> QED BY <2>5, <3>1, <3>2 DEF WorkerWake, acceptor, control, history
    <2>6. CASE WorkerAsk
      <3>1. wk.index < tab.total => tab.sock[wk.index] \in Entry
        BY Fields
      <3> QED BY <2>6, <3>1, Fields DEF WorkerAsk, acceptor, control, history
    <2>7. CASE WorkerResult
      BY <2>7 DEF WorkerResult, acceptor, control, history
    <2>8. WorkerIdle \in [pc : {"idle"}, watched : {wk.watched}, index : Index, c : Entry]
      BY Fields DEF WorkerIdle
    <2>9. CASE WorkerData \/ WorkerEnds \/ WorkerLost
      <3>1. CASE WorkerData
        BY <2>8, <3>1 DEF WorkerData, acceptor, control, history
      <3>2. CASE WorkerEnds
        BY <3>2, Fields DEF WorkerEnds, acceptor, control, history
      <3>3. CASE WorkerLost
        BY <3>3 DEF WorkerLost, acceptor, control
      <3> QED BY <2>9, <3>1, <3>2, <3>3
    <2>10. CASE WorkerClose
      <3>1. wk' = WorkerIdle /\ CleanupFor(wk.index, wk.c)
        BY <2>10 DEF WorkerClose
      <3> QED BY <2>8, <2>10, <3>1, CleanupForTypes
              DEF WorkerClose, acceptor, control, Tables
    <2>11. CASE FrameBegin \/ SendTest \/ SendFails
      <3>1. CASE FrameBegin
        BY <3>1, Fields DEF FrameBegin, acceptor, control, history
      <3>2. CASE SendTest \/ SendFails
        BY <3>2 DEF SendTest, SendFails, acceptor, control, history
      <3> QED BY <2>11, <3>1, <3>2
    <2>12. CASE SendBegin
      <3>1. bc.i \in Index
        BY <2>12, Fields DEF SendBegin
      <3>2. tab.sock[bc.i] \in Entry /\ bc.pass # "idle"
        BY <2>12, <3>1, Fields DEF SendBegin
      <3> QED BY <2>12, <3>1, <3>2 DEF SendBegin, acceptor, control, history
    <2>13. CASE SendOk \/ SendCleanup
      <3>1. bc.i \in Index /\ bc.i + 1 \in 0 .. MaxConn /\ None \in Entry
        BY <2>13, Fields DEF SendOk, SendCleanup
      <3>2. CASE SendOk
        BY <3>1, <3>2 DEF SendOk, NextEntry, acceptor, control
      <3>3. CASE SendCleanup
        BY <3>1, <3>3, CleanupForTypes
        DEF SendCleanup, NextEntry, acceptor, control, Tables
      <3> QED BY <2>13, <3>2, <3>3
    <2>14. CASE HeaderEnd
      BY <2>14, Fields DEF HeaderEnd, NewPass, PassOver, acceptor, control
    <2>15. CASE FrameEnd
      BY <2>15, Fields DEF FrameEnd, NewPass, PassOver, acceptor, control
    <2>16. CASE Start
      BY <2>16 DEF Start, acceptor, history
    <2>17. CASE Stop
      BY <2>17, Fields DEF Stop, acceptor, history
    <2>18. CASE DisconnectOne
      <3>1. ctl.i \in Index /\ ctl.i + 1 \in 0 .. MaxConn /\ tab.total > 0
        BY <2>18, Fields DEF DisconnectOne
      <3> QED BY <2>18, <3>1, CleanupTypes DEF DisconnectOne, acceptor, Tables
    <2>19. CASE DisconnectEnd
      BY <2>19, MaxConnAssumption DEF DisconnectEnd, acceptor, history
    <2> QED
      BY <1>2, <2>1, <2>2, <2>3, <2>4, <2>5, <2>6, <2>7, <2>8, <2>9, <2>10, <2>11,
         <2>12, <2>13, <2>14, <2>15, <2>16, <2>17, <2>18, <2>19
      DEF Next, Client, Acceptor, Worker, Sender, Control
  <1> QED BY <1>1, <1>2

-----------------------------------------------------------------------------
(* Cleanup of an entry that is there takes one client out, and only him. *)
LEMMA CleanupGood ==
  ASSUME Types, Good, NEW i \in 0 .. tab.total - 1, Cleanup(i),
         UNCHANGED <<listening, accepted, gone>>
  PROVE  /\ tab.sock[i] \in open
         /\ EntriesMatch' /\ EntriesDiffer' /\ AllEntered' /\ RecvOK'
  <1> DEFINE last == tab.total - 1
             c == tab.sock[i]
  <1>1. /\ tab \in Tables /\ i \in Index /\ last \in Index /\ tab.total > 0
        /\ last \in 0 .. tab.total - 1 /\ i <= last /\ tab.total \in 0 .. MaxConn
    <2>1. tab \in Tables /\ tab.total \in 0 .. MaxConn /\ MaxConn \in Nat
      BY Fields, MaxConnAssumption
    <2> QED BY <2>1 DEF Index
  <1>2. /\ tab'.total = last
        /\ tab'.sock = [tab.sock EXCEPT ![i] = IF i < last THEN tab.sock[last] ELSE None]
        /\ tab'.ev = [tab.ev EXCEPT ![i] = IF i < last THEN tab.ev[last] ELSE None]
        /\ tab'.io = [IF i < last THEN [tab.io EXCEPT ![i] = tab.io[last]] ELSE tab.io
                      EXCEPT ![last] = None]
    BY <1>1, FreedIs DEF Cleanup
  <1>3. \A j \in 0 .. last - 1 :
          LET k == IF j = i THEN last ELSE j
          IN  /\ k \in 0 .. tab.total - 1 /\ k # i
              /\ tab'.sock[j] = tab.sock[k] /\ tab'.ev[j] = tab.ev[k]
              /\ tab'.io[j] = tab.io[k]
    <2> SUFFICES ASSUME NEW j \in 0 .. last - 1
                 PROVE  LET k == IF j = i THEN last ELSE j
                        IN  /\ k \in 0 .. tab.total - 1 /\ k # i
                            /\ tab'.sock[j] = tab.sock[k] /\ tab'.ev[j] = tab.ev[k]
                            /\ tab'.io[j] = tab.io[k]
      OBVIOUS
    <2>1. j \in Index /\ j # last /\ (j = i => i < last)
      BY <1>1, MaxConnAssumption DEF Index
    <2>2. CASE j = i
      BY <1>1, <1>2, <2>1, <2>2 DEF Tables
    <2>3. CASE j # i
      BY <1>1, <1>2, <2>1, <2>3 DEF Tables
    <2> QED BY <2>2, <2>3
  <1>4. /\ \A j \in 0 .. tab.total - 1 :
             tab.sock[j] \in open /\ tab.ev[j] = tab.sock[j] /\ tab.io[j] = tab.sock[j]
        /\ \A j, k \in 0 .. tab.total - 1 : tab.sock[j] = tab.sock[k] => j = k
    BY DEF Good, EntriesMatch, EntriesDiffer
  <1>5. open' = open \ {c} /\ c \in open
    BY <1>4 DEF Cleanup
  <1>6. EntriesMatch'
    BY <1>2, <1>3, <1>4, <1>5 DEF EntriesMatch
  <1>7. EntriesDiffer'
    BY <1>2, <1>3, <1>4 DEF EntriesDiffer
  <1>8. AllEntered'
    <2>1. ASSUME listening, NEW d \in open, d # c PROVE d \in Clients'
      <3>1. PICK k \in 0 .. tab.total - 1 : tab.sock[k] = d
        BY <2>1 DEF Good, AllEntered, Clients
      <3>2. k # i
        BY <2>1, <3>1
      <3>3. CASE k < last
        <4>1. k \in 0 .. last - 1
          BY <1>1, <3>3
        <4>2. tab'.sock[k] = d
          BY <1>3, <3>1, <3>2, <4>1
        <4> QED BY <1>2, <4>1, <4>2 DEF Clients
      <3>4. CASE k = last
        <4>1. i \in 0 .. last - 1
          BY <1>1, <3>2, <3>4
        <4> QED BY <1>2, <1>3, <3>1, <3>4, <4>1 DEF Clients
      <3> QED BY <1>1, <3>3, <3>4
    <2>2. Clients' \subseteq open'
      BY <1>6 DEF EntriesMatch, Clients
    <2> QED BY <1>5, <2>1, <2>2 DEF AllEntered
  <1>9. RecvOK'
    <2>1. \A d \in Conn \ {c} : recv'[d] = recv[d]
      BY DEF Cleanup
    <2>2. open \subseteq Conn /\ c \in accepted
      BY <1>5 DEF Types, TypeOK
    <2> QED BY <1>5, <2>1, <2>2 DEF Good, RecvOK
  <1> QED BY <1>5, <1>6, <1>7, <1>8, <1>9

LEMMA AcceptGood ==
  ASSUME Types, Good, NEW c \in Conn, Accept(c) \/ AcceptFails(c)
  PROVE  EntriesMatch' /\ EntriesDiffer' /\ AllEntered' /\ RecvOK'
  <1>1. /\ c \in Conn \ accepted /\ c \notin open
        /\ listening /\ open' = open \cup {c} /\ accepted' = accepted \cup {c}
        /\ recv' = recv /\ gone \subseteq gone'
    BY DEF Accept, AcceptFails, Types, TypeOK
  <1>2. tab \in Tables /\ tab.total \in 0 .. MaxConn /\ tab.total \in Index
    BY <1>1, Room, Fields DEF Index
  <1>3. /\ Entered(c).total = tab.total
        /\ Entered(c).sock = [tab.sock EXCEPT ![tab.total] = c]
        /\ Entered(c).ev = [tab.ev EXCEPT ![tab.total] = c]
        /\ Entered(c).io = [tab.io EXCEPT ![tab.total] = c]
        /\ Entered(c) \in Tables
    BY <1>2 DEF Entered, Tables, Entry
  <1>4. /\ tab'.sock = Entered(c).sock /\ tab'.ev = Entered(c).ev
        /\ tab'.io = Entered(c).io
        /\ Accept(c) => tab'.total = tab.total + 1
        /\ AcceptFails(c) => tab'.total = tab.total
    BY <1>3 DEF Accept, AcceptFails, Tables
  <1>5. \A j \in 0 .. tab.total - 1 :
          /\ j \in Index /\ j # tab.total
          /\ tab'.sock[j] = tab.sock[j] /\ tab'.ev[j] = tab.ev[j]
          /\ tab'.io[j] = tab.io[j]
    <2>1. \A j \in 0 .. tab.total - 1 : j \in Index /\ j # tab.total
      BY <1>2, MaxConnAssumption DEF Index
    <2> QED BY <1>2, <1>3, <1>4, <2>1 DEF Tables
  <1>6. /\ tab'.sock[tab.total] = c /\ tab'.ev[tab.total] = c /\ tab'.io[tab.total] = c
    BY <1>2, <1>3, <1>4 DEF Tables
  <1>7. \A j \in 0 .. tab'.total - 1 : j \in 0 .. tab.total - 1 \/ j = tab.total
    BY <1>2, <1>4
  <1>8. /\ \A j \in 0 .. tab.total - 1 :
             tab.sock[j] \in open /\ tab.ev[j] = tab.sock[j] /\ tab.io[j] = tab.sock[j]
        /\ \A j, k \in 0 .. tab.total - 1 : tab.sock[j] = tab.sock[k] => j = k
    BY DEF Good, EntriesMatch, EntriesDiffer
  <1>9. EntriesMatch'
    BY <1>1, <1>5, <1>6, <1>7, <1>8 DEF EntriesMatch
  <1>10. EntriesDiffer'
    BY <1>1, <1>5, <1>6, <1>7, <1>8 DEF EntriesDiffer
  <1>11. AllEntered'
    <2>1. CASE AcceptFails(c)
      BY <2>1 DEF AcceptFails, AllEntered
    <2>2. CASE Accept(c)
      <3>1. tab'.total = tab.total + 1 /\ open = Clients
        BY <1>1, <1>4, <2>2 DEF Good, AllEntered
      <3>2. Clients' = Clients \cup {c}
        <4>1. tab.total \in 0 .. tab'.total - 1
              /\ \A j \in 0 .. tab.total - 1 : j \in 0 .. tab'.total - 1
          BY <1>2, <3>1
        <4> QED BY <1>5, <1>6, <1>7, <4>1 DEF Clients
      <3> QED BY <1>1, <3>1, <3>2 DEF AllEntered
    <2> QED BY <2>1, <2>2
  <1>12. RecvOK'
    BY <1>1 DEF Good, RecvOK
  <1> QED BY <1>9, <1>10, <1>11, <1>12

(* A Cleanup that leaves nothing stale is one of an entry that is there and  *)
(* the client's it was meant for.                                           *)
LEMMA CleanupForIs ==
  ASSUME Types, NEW i \in Index, NEW c, CleanupFor(i, c), ~stale'
  PROVE  i \in 0 .. tab.total - 1 /\ tab.sock[i] = c /\ Cleanup(i)
  <1>1. ~(i >= tab.total) /\ tab.sock[i] = c
    BY ZenonT(30) DEF CleanupFor, Foreign
  <1>2. i \in 0 .. tab.total - 1 /\ tab.total > 0
    BY <1>1, Fields DEF Index
  <1> QED BY <1>1, <1>2 DEF CleanupFor

(* What a thread holds stays accepted, and is open only if it was.          *)
LEMMA Growth ==
  ASSUME Types, Good, Next, ~stale'
  PROVE  /\ accepted \subseteq accepted' /\ gone \subseteq gone'
         /\ \A c \in accepted \cup {None} : c \in open' => c \in open
  <1>1. CASE Client
    BY <1>1 DEF Client, Ask, Leave, acceptor
  <1>2. CASE Acceptor
    BY <1>2, ConnAssumption DEF Acceptor, Accept, AcceptFails
  <1>3. CASE Worker
    <2>1. WorkerClose => open' \subseteq open /\ UNCHANGED <<acceptor, gone>>
      BY Fields, CleanupForTypes DEF WorkerClose
    <2> QED BY <1>3, <2>1 DEF Worker, WorkerWait, WorkerWake, WorkerAsk, WorkerResult,
                            WorkerData, WorkerEnds, WorkerLost, acceptor
  <1>4. CASE Sender
    <2>1. SendCleanup => open' \subseteq open /\ UNCHANGED <<acceptor, gone>>
      <3> SUFFICES ASSUME SendCleanup PROVE open' \subseteq open /\ UNCHANGED <<acceptor, gone>>
        OBVIOUS
      <3>1. bc.i \in Index
        BY DEF SendCleanup, Types, SenderOK
      <3> QED BY <3>1, CleanupForTypes DEF SendCleanup
    <2> QED BY <1>4, <2>1 DEF Sender, FrameBegin, SendBegin, SendTest, SendOk, SendFails,
                            HeaderEnd, FrameEnd, NewPass, acceptor
  <1>5. CASE Control
    <2>1. DisconnectOne => open' \subseteq open /\ UNCHANGED <<acceptor, gone>>
      BY DEF DisconnectOne, Cleanup
    <2> QED BY <1>5, <2>1 DEF Control, Start, Stop, DisconnectEnd, acceptor
  <1> QED BY <1>1, <1>2, <1>3, <1>4, <1>5 DEF Next

LEMMA HeldStep ==
  ASSUME Types, Good, Next, ~stale'
  PROVE  HeldOK'
  <1>0. /\ accepted \subseteq accepted' /\ gone \subseteq gone'
        /\ \A c \in accepted \cup {None} : c \in open' => c \in open
    BY Growth
  <1>a. wk' = wk => WorkerHolds'
    BY <1>0 DEF Good, HeldOK, WorkerHolds
  <1>b. bc' = bc => SenderHolds'
    BY <1>0 DEF Good, HeldOK, SenderHolds
  <1>c. \A i \in 0 .. tab.total - 1 : tab.sock[i] \in accepted
    BY DEF Good, EntriesMatch, Types, TypeOK
  <1>1. CASE Client \/ Acceptor \/ Control
    <2>1. wk' = wk /\ bc' = bc
      BY <1>1 DEF Client, Ask, Leave, Acceptor, Accept, AcceptFails, Control, Start,
                  Stop, DisconnectOne, DisconnectEnd
    <2> QED BY <1>a, <1>b, <2>1 DEF HeldOK
  <1>2. CASE Worker
    <2>1. bc' = bc
      BY <1>2 DEF Worker, WorkerWait, WorkerWake, WorkerAsk, WorkerResult, WorkerData,
                  WorkerEnds, WorkerLost, WorkerClose
    <2>2. CASE WorkerWait \/ WorkerWake
      <3>1. wk'.c = wk.c /\ wk'.pc # "close"
        BY <2>2 DEF WorkerWait, WorkerWake, Types, WorkerOK
      <3> QED BY <1>0, <1>b, <2>1, <3>1 DEF Good, HeldOK, WorkerHolds
    <2>3. CASE WorkerAsk
      <3>1. wk'.pc = "result"
            /\ wk'.c = IF wk.index < tab.total THEN tab.sock[wk.index] ELSE None
        BY <2>3 DEF WorkerAsk, Types, WorkerOK
      <3>2. wk.index < tab.total => wk.index \in 0 .. tab.total - 1
        BY Fields DEF Index
      <3>3. wk'.c \in accepted \cup {None}
        BY <1>c, <3>1, <3>2
      <3> QED BY <1>0, <1>b, <2>1, <3>1, <3>3 DEF HeldOK, WorkerHolds
    <2>4. CASE WorkerResult
      <3>1. wk'.c = wk.c /\ (wk'.pc = "close" /\ wk.c \in open => recv[wk.c] = "zero")
        BY <2>4 DEF WorkerResult, Types, WorkerOK
      <3>2. wk.c \in open /\ recv[wk.c] = "zero" => wk.c \in gone
        BY DEF Good, RecvOK
      <3>3. wk.c \in accepted \cup {None}
        BY DEF Good, HeldOK, WorkerHolds
      <3> QED BY <1>0, <1>b, <2>1, <3>1, <3>2, <3>3 DEF HeldOK, WorkerHolds
    <2>5. CASE WorkerData \/ WorkerEnds \/ WorkerClose
      <3>1. wk'.c = None /\ wk'.pc # "close"
        BY <2>5 DEF WorkerData, WorkerEnds, WorkerClose, WorkerIdle, Types, WorkerOK
      <3> QED BY <1>b, <2>1, <3>1 DEF HeldOK, WorkerHolds
    <2>6. CASE WorkerLost
      BY <2>6 DEF WorkerLost
    <2> QED BY <1>2, <2>2, <2>3, <2>4, <2>5, <2>6 DEF Worker
  <1>3. CASE Sender
    <2>1. wk' = wk
      BY <1>3 DEF Sender, FrameBegin, SendBegin, SendTest, SendOk, SendFails, SendCleanup,
                  HeaderEnd, FrameEnd, NewPass
    <2>2. CASE SendBegin
      <3>1. bc'.step = "test" /\ bc'.c = tab.sock[bc.i] /\ bc.i \in 0 .. tab.total - 1
        BY <2>2, Fields DEF SendBegin, Types, TypeOK
      <3> QED BY <1>0, <1>a, <1>c, <2>1, <3>1 DEF HeldOK, SenderHolds
    <2>3. CASE SendFails
      <3>1. bc'.c = bc.c /\ (bc.c \in open => bc.c \in gone)
        BY <2>3 DEF SendFails, Types, TypeOK
      <3>2. bc.c \in accepted \cup {None}
        BY DEF Good, HeldOK, SenderHolds
      <3> QED BY <1>0, <1>a, <2>1, <3>1, <3>2 DEF HeldOK, SenderHolds
    <2>4. CASE SendOk \/ SendCleanup
      <3>1. bc'.c = None /\ bc'.step = "entry"
        BY <2>4 DEF SendOk, SendCleanup, NextEntry, Types, TypeOK
      <3> QED BY <1>a, <2>1, <3>1 DEF HeldOK, SenderHolds
    <2>5. CASE FrameBegin \/ SendTest \/ HeaderEnd \/ FrameEnd
      <3>1. bc'.c = bc.c /\ (bc'.step = "failed" => bc.step = "failed")
        BY <2>5 DEF FrameBegin, SendTest, HeaderEnd, FrameEnd, NewPass, Types, TypeOK
      <3> QED BY <1>0, <1>a, <2>1, <3>1 DEF Good, HeldOK, SenderHolds
    <2> QED BY <1>3, <2>2, <2>3, <2>4, <2>5 DEF Sender
  <1> QED BY <1>1, <1>2, <1>3 DEF Next

LEMMA GoodStep == Types /\ (~stale => Good) /\ [Next]_vars => (~stale' => Good')
  <1> SUFFICES ASSUME Types, ~stale => Good, [Next]_vars, ~stale' PROVE Good'
    OBVIOUS
  <1>1. CASE UNCHANGED vars
    BY <1>1 DEF vars, acceptor, control, history, Good, EntriesMatch, EntriesDiffer,
                AllEntered, RecvOK, StopOK, HeldOK, WorkerHolds, SenderHolds, Clients
  <1>2. CASE Next
    <2> ~stale /\ Good
      BY <1>2 DEF Next
    <2> DEFINE entered == EntriesMatch' /\ EntriesDiffer' /\ AllEntered'
    <2>h. HeldOK'
      BY <1>2, HeldStep
    <2>0. UNCHANGED <<tab, listening, open>> => entered
      BY DEF Good, EntriesMatch, EntriesDiffer, AllEntered, Clients
    <2>a. UNCHANGED control => StopOK'
      BY DEF control, Good, StopOK
    <2>b. UNCHANGED <<recv, gone, open, accepted>> => RecvOK'
      BY DEF Good, RecvOK
    <2>1. ASSUME NEW c \in Conn, Ask(c) \/ Leave(c) PROVE Good'
      <3>1. RecvOK'
        BY <2>1 DEF Ask, Leave, acceptor, Good, RecvOK, Types, TypeOK
      <3> QED BY <2>0, <2>a, <2>h, <2>1, <3>1 DEF Ask, Leave, acceptor, Good
    <2>2. ASSUME NEW c \in Conn, Accept(c) \/ AcceptFails(c) PROVE Good'
      <3>1. EntriesMatch' /\ EntriesDiffer' /\ AllEntered' /\ RecvOK'
        BY <2>2, AcceptGood
      <3>2. UNCHANGED control
        BY <2>2 DEF Accept, AcceptFails
      <3> QED BY <2>a, <2>h, <3>1, <3>2 DEF Good
    <2>3. CASE WorkerWait \/ WorkerWake \/ WorkerAsk \/ WorkerResult \/ WorkerEnds
      <3>1. UNCHANGED <<tab, acceptor, open, gone, recv, control>>
        BY <2>3 DEF WorkerWait, WorkerWake, WorkerAsk, WorkerResult, WorkerEnds
      <3> QED BY <2>0, <2>a, <2>b, <2>h, <3>1 DEF acceptor, Good
    <2>4. CASE WorkerData
      <3>1. wk.c \in accepted
        <4>1. ~(wk.index >= tab.total) /\ tab.sock[wk.index] = wk.c
          BY <2>4, ZenonT(30) DEF WorkerData, Foreign
        <4>2. wk.index \in 0 .. tab.total - 1
          BY <4>1, Fields DEF Index
        <4> QED BY <4>1, <4>2 DEF Good, EntriesMatch, Types, TypeOK
      <3>2. RecvOK'
        BY <2>4, <3>1 DEF WorkerData, acceptor, Good, RecvOK, Types, TypeOK
      <3> QED BY <2>0, <2>a, <2>h, <2>4, <3>2 DEF WorkerData, acceptor, Good
    <2>5. CASE WorkerClose
      <3>1. wk.index \in 0 .. tab.total - 1 /\ Cleanup(wk.index)
        BY <2>5, Fields, CleanupForIs DEF WorkerClose
      <3>2. EntriesMatch' /\ EntriesDiffer' /\ AllEntered' /\ RecvOK'
        BY <2>5, <3>1, CleanupGood DEF WorkerClose, acceptor
      <3> QED BY <2>5, <2>a, <2>h, <3>2 DEF WorkerClose, Good
    <2>6. CASE WorkerLost
      BY <2>6 DEF WorkerLost
    <2>7. CASE FrameBegin \/ SendBegin \/ SendTest \/ SendOk \/ SendFails
               \/ HeaderEnd \/ FrameEnd
      <3>1. UNCHANGED <<tab, acceptor, open, gone, recv, control>>
        BY <2>7 DEF FrameBegin, SendBegin, SendTest, SendOk, SendFails, HeaderEnd,
                    FrameEnd, NewPass
      <3> QED BY <2>0, <2>a, <2>b, <2>h, <3>1 DEF acceptor, Good
    <2>8. CASE SendCleanup
      <3>1. bc.i \in Index /\ CleanupFor(bc.i, bc.c)
        BY <2>8 DEF SendCleanup, Types, SenderOK
      <3>2. bc.i \in 0 .. tab.total - 1 /\ Cleanup(bc.i)
        BY <3>1, CleanupForIs
      <3>3. EntriesMatch' /\ EntriesDiffer' /\ AllEntered' /\ RecvOK'
        BY <2>8, <3>2, CleanupGood DEF SendCleanup, acceptor
      <3> QED BY <2>8, <2>a, <2>h, <3>3 DEF SendCleanup, Good
    <2>9. CASE Start \/ Stop \/ DisconnectEnd
      <3>1. StopOK'
        BY <2>9 DEF Start, Stop, DisconnectEnd, Good, StopOK
      <3> QED BY <2>0, <2>b, <2>h, <2>9, <3>1 DEF Start, Stop, DisconnectEnd, acceptor, Good
    <2>10. CASE DisconnectOne
      <3>1. ctl.i \in 0 .. tab.total - 1
        BY <2>10, Fields DEF DisconnectOne
      <3>2. ctl'.pc = ctl.pc /\ flag' = flag
        BY <2>10 DEF DisconnectOne, Types, TypeOK
      <3>3. EntriesMatch' /\ EntriesDiffer' /\ AllEntered' /\ RecvOK'
        BY <2>10, <3>1, CleanupGood DEF DisconnectOne, acceptor
      <3> QED BY <2>h, <3>2, <3>3 DEF Good, StopOK
    <2> QED
      BY <1>2, <2>1, <2>2, <2>3, <2>4, <2>5, <2>6, <2>7, <2>8, <2>9, <2>10
      DEF Next, Client, Acceptor, Worker, Sender, Control
  <1> QED BY <1>1, <1>2

(* Which client a step may close, and on what account. *)
LEMMA InnocentStep ==
  ASSUME Types, ~stale => Good, [Next]_vars,
         NEW c \in open, c \notin open', flag, c \notin gone, ~stale'
  PROVE  bc.step = "refused" /\ bc.c = c /\ bc' = NextEntry
  <1>1. Next
    BY DEF vars
  <1> ~stale /\ Good
    BY <1>1 DEF Next
  <1>2. CASE open' = open
    BY <1>2
  (* WorkerThread means the client whose bytes it waited for. *)
  <1>3. CASE WorkerClose
    <2>1. tab.sock[wk.index] = wk.c /\ Cleanup(wk.index)
      BY <1>3, Fields, CleanupForIs DEF WorkerClose
    <2>2. c = wk.c
      BY <2>1 DEF Cleanup
    <2> QED BY <1>3, <2>2 DEF WorkerClose, Good, HeldOK, WorkerHolds
  (* AVProcess means the client that send_data2 has returned -1 for. *)
  <1>4. CASE SendCleanup
    <2>1. /\ bc.i \in Index /\ CleanupFor(bc.i, bc.c)
          /\ bc.step \in {"refused", "failed"} /\ bc' = NextEntry
      BY <1>4 DEF SendCleanup, Types, SenderOK
    <2>2. tab.sock[bc.i] = bc.c /\ Cleanup(bc.i)
      BY <2>1, CleanupForIs
    <2>3. c = bc.c
      BY <2>2 DEF Cleanup
    <2> QED BY <2>1, <2>3 DEF Good, HeldOK, SenderHolds
  (* A stop has cleared the flag. *)
  <1>5. CASE DisconnectOne
    BY <1>5 DEF DisconnectOne, Good, StopOK
  <1>6. Client \/ Acceptor => c \in open'
    BY DEF Client, Acceptor, Ask, Leave, Accept, AcceptFails
  <1>7. WorkerWait \/ WorkerWake \/ WorkerAsk \/ WorkerResult \/ WorkerData
        \/ WorkerEnds \/ WorkerLost => open' = open
    BY DEF WorkerWait, WorkerWake, WorkerAsk, WorkerResult, WorkerData, WorkerEnds,
           WorkerLost
  <1>8. FrameBegin \/ SendBegin \/ SendTest \/ SendOk \/ SendFails \/ HeaderEnd
        \/ FrameEnd => open' = open
    BY DEF FrameBegin, SendBegin, SendTest, SendOk, SendFails, HeaderEnd, FrameEnd, NewPass
  <1>9. Start \/ Stop \/ DisconnectEnd => open' = open
    BY DEF Start, Stop, DisconnectEnd
  <1> QED
    BY <1>1, <1>2, <1>3, <1>4, <1>5, <1>6, <1>7, <1>8, <1>9
    DEF Next, Worker, Sender, Control

(* Cleanup in a pass disturbs it. *)
LEMMA CleanupPass ==
  ASSUME NEW i, Cleanup(i), bc' = bc
  PROVE  PassOK'
  BY DEF Cleanup, PassOK

LEMMA PassStep == Types /\ (~stale => Good) /\ PassOK /\ [Next]_vars => PassOK'
  <1> SUFFICES ASSUME Types, ~stale => Good, PassOK, [Next]_vars PROVE PassOK'
    OBVIOUS
  <1>0. UNCHANGED <<tab, bc, reached, disturbed>> => PassOK'
    BY DEF PassOK
  <1>1. CASE UNCHANGED vars
    BY <1>0, <1>1 DEF vars, history
  <1>2. CASE Next
    <2> ~stale /\ Good
      BY <1>2 DEF Next
    <2>1. ASSUME NEW c \in Conn, Ask(c) \/ Leave(c) PROVE PassOK'
      BY <1>0, <2>1 DEF Ask, Leave, history
    <2>2. ASSUME NEW c \in Conn, Accept(c) PROVE PassOK'
      BY <2>2 DEF Accept, PassOK
    (* The entry behind the last is written, but not counted. *)
    <2>3. ASSUME NEW c \in Conn, AcceptFails(c) PROVE PassOK'
      <3>1. c \in Conn \ accepted /\ tab' = Entered(c)
        BY <2>3 DEF AcceptFails
      <3>2. tab.total \in Index /\ tab \in Tables
        BY <3>1, Room, Fields DEF Index
      <3>3. /\ tab'.total = tab.total
            /\ tab'.sock = [tab.sock EXCEPT ![tab.total] = c]
        BY <3>1, <3>2 DEF Entered, Tables
      <3>4. \A j \in 0 .. tab.total - 1 : tab'.sock[j] = tab.sock[j]
        <4>1. \A j \in 0 .. tab.total - 1 : j \in Index /\ j # tab.total
          BY <3>2, MaxConnAssumption DEF Index
        <4> QED BY <3>2, <3>3, <4>1 DEF Tables
      <3>5. bc.i \in 0 .. MaxConn
        BY Fields
      <3>6. bc.i < tab.total => bc.i \in 0 .. tab.total - 1
        BY <3>2, <3>5 DEF Index
      <3>7. UNCHANGED <<bc, reached, disturbed>>
        BY <2>3 DEF AcceptFails, history
      <3> QED BY <3>3, <3>4, <3>6, <3>7 DEF PassOK
    <2>4. CASE WorkerWait \/ WorkerWake \/ WorkerAsk \/ WorkerResult \/ WorkerData
               \/ WorkerEnds \/ WorkerLost
      BY <1>0, <2>4 DEF WorkerWait, WorkerWake, WorkerAsk, WorkerResult, WorkerData,
                        WorkerEnds, WorkerLost, history
    <2>5. CASE WorkerClose
      <3>1. CASE tab.total > 0
        BY <2>5, <3>1, CleanupPass DEF WorkerClose, CleanupFor
      <3>2. CASE ~(tab.total > 0)
        BY <1>0, <2>5, <3>2 DEF WorkerClose, CleanupFor
      <3> QED BY <3>1, <3>2
    <2>6. CASE FrameBegin
      <3>1. bc'.i = 0 /\ bc'.step = "entry" /\ tab' = tab
        <4>1. bc.step = "entry"
          BY <2>6 DEF FrameBegin, Types, SenderOK
        <4> QED BY <2>6, <4>1 DEF FrameBegin, Types, TypeOK
      <3>2. \A j \in 0 .. tab'.total - 1 : ~(j < bc'.i)
        BY <3>1, Fields
      <3> QED BY <3>1, <3>2 DEF PassOK
    <2>7. CASE SendBegin
      <3>1. /\ bc'.pass = bc.pass /\ bc'.i = bc.i /\ bc'.c = tab.sock[bc.i]
            /\ bc.i < tab.total
        BY <2>7, Fields DEF SendBegin, Types, TypeOK
      <3>2. UNCHANGED <<tab, reached, disturbed>>
        BY <2>7 DEF SendBegin, history
      <3> QED BY <3>1, <3>2 DEF PassOK
    <2>8. CASE SendTest \/ SendFails
      <3>1. /\ bc'.pass = bc.pass /\ bc'.i = bc.i /\ bc'.c = bc.c
            /\ bc.step # "entry"
        BY <2>8 DEF SendTest, SendFails, Types, TypeOK
      <3>2. UNCHANGED <<tab, reached, disturbed>>
        BY <2>8 DEF SendTest, SendFails, history
      <3> QED BY <3>1, <3>2 DEF PassOK
    <2>9. CASE SendOk
      <3>1. /\ bc'.pass = bc.pass /\ bc'.i = bc.i + 1 /\ bc'.step = "entry"
            /\ bc.step # "entry"
        BY <2>9 DEF SendOk, NextEntry, Types, TypeOK
      <3>2. UNCHANGED <<tab, disturbed>> /\ reached' = reached \cup {bc.c}
        BY <2>9 DEF SendOk
      <3>3. \A j \in 0 .. tab.total - 1 : j < bc.i + 1 => j < bc.i \/ j = bc.i
        BY Fields
      <3> QED BY <3>1, <3>2, <3>3 DEF PassOK
    <2>10. CASE SendCleanup
      <3>0. bc.step # "entry" /\ bc.pass # "idle"
        BY <2>10 DEF SendCleanup, Types, SenderOK
      <3>1. CASE tab.total > 0
        <4>1. disturbed' = TRUE
          BY <2>10, <3>0, <3>1 DEF SendCleanup, CleanupFor, Cleanup
        <4> QED BY <4>1 DEF PassOK
      <3>2. CASE ~(tab.total > 0)
        <4>1. bc'.pass = bc.pass /\ disturbed' = disturbed
          BY <2>10, <3>2 DEF SendCleanup, CleanupFor, NextEntry, Types, TypeOK
        <4>2. ~(bc.i < tab.total)
          BY <3>2, Fields
        <4> QED BY <3>0, <4>1, <4>2 DEF PassOK
      <3> QED BY <3>1, <3>2
    <2>11. CASE HeaderEnd \/ FrameEnd
      <3>1. bc'.i = 0 /\ bc'.step = "entry" /\ tab' = tab
        BY <2>11 DEF HeaderEnd, FrameEnd, NewPass, PassOver, Types, TypeOK
      <3>2. \A j \in 0 .. tab'.total - 1 : ~(j < bc'.i)
        BY <3>1, Fields
      <3> QED BY <3>1, <3>2 DEF PassOK
    <2>12. CASE Start \/ Stop \/ DisconnectEnd
      BY <1>0, <2>12 DEF Start, Stop, DisconnectEnd, history
    <2>13. CASE DisconnectOne
      BY <2>13, CleanupPass DEF DisconnectOne
    <2> QED
      BY <1>2, <2>1, <2>2, <2>3, <2>4, <2>5, <2>6, <2>7, <2>8, <2>9, <2>10, <2>11,
         <2>12, <2>13
      DEF Next, Client, Acceptor, Worker, Sender, Control
  <1> QED BY <1>1, <1>2

-----------------------------------------------------------------------------
LEMMA Invariance == Spec => []IInv
  <1>1. IInv /\ [Next]_vars => IInv'
    BY TypesStep, GoodStep, PassStep DEF IInv
  <1> QED BY InitIInv, <1>1, PTL DEF Spec

(* Every variable keeps its type: g_iTotalConn stays within the arrays,     *)
(* also when the first use of a stale index cleans up a foreign entry.      *)
THEOREM TypeCorrect == Spec => []TypeOK
  <1>1. IInv => TypeOK
    BY DEF IInv, Types
  <1> QED BY Invariance, <1>1, PTL

(* Until an index is used that is no longer its client's, every entry below *)
(* g_iTotalConn is one open connection with its own event and its own block, *)
(* and every open connection has an entry.                                  *)
THEOREM TableIsWellFormed == Spec => []WellFormed
  <1>1. IInv => WellFormed
    <2> SUFFICES ASSUME Types, Good PROVE WellFormed
      BY DEF IInv, WellFormed
    <2>1. \A i \in 0 .. tab.total - 1 : \A j \in 0 .. i - 1 :
            j \in 0 .. tab.total - 1 /\ j # i
      BY Fields
    <2> QED BY <2>1 DEF Good, EntriesMatch, EntriesDiffer, AllEntered, WellFormed
  <1> QED BY Invariance, <1>1, PTL

(* A client that stays connected while the demonstration is on is closed    *)
(* only by the use of a stale index, or by send_data's Cleanup after         *)
(* send_data2 found the flag clear and a start set it again.                *)
THEOREM InnocentIsKept == Spec => InnocentKept
  <1>1. IInv /\ [Next]_vars =>
          [\A c \in open \ open' :
             flag /\ c \notin gone =>
               stale' \/ (bc.step = "refused" /\ bc.c = c /\ bc' = NextEntry)]_vars
    BY InnocentStep DEF IInv
  <1> QED BY Invariance, <1>1, PTL DEF Spec, InnocentKept

(* A pass reaches every client, unless one came or went while it ran.       *)
THEOREM QuietPassReachesAll == Spec => []UndisturbedReachesAll
  <1>1. IInv => UndisturbedReachesAll
    <2> SUFFICES ASSUME Types, PassOK, PassOver, ~disturbed PROVE Clients \subseteq reached
      BY DEF IInv, UndisturbedReachesAll
    <2>1. bc.pass # "idle" /\ bc.i >= tab.total
      BY DEF PassOver
    <2>2. \A j \in 0 .. tab.total - 1 : j < bc.i
      BY <2>1, Fields
    <2> QED BY <2>1, <2>2 DEF Clients, PassOK
  <1> QED BY Invariance, <1>1, PTL
=============================================================================
