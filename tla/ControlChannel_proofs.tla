----------------------- MODULE ControlChannel_proofs -----------------------
(***************************************************************************)
(* Proofs about SimpleServer's two threads (ControlChannel), for every     *)
(* FD_SETSIZE and every number of connections.                             *)
(*                                                                         *)
(* The invariant has three layers.  IInv holds whatever has happened: the  *)
(* indices stay within the set, and clientNum within its range unless the  *)
(* threads count at the same time.  SetInv holds until an FD_SET and an    *)
(* FD_CLR have met: the entries stand in the order of their connections,   *)
(* and are those accepted and not closed.  OrderInv holds until, besides,  *)
(* an FD_CLR has moved an entry under the index of the pass: the pass has  *)
(* every unread command that is older than one it is to obey, and leaves   *)
(* none behind.  Each layer has a lemma per action; the actions that touch *)
(* nothing of a layer share one (Quiet...).                                *)
(***************************************************************************)
EXTENDS ControlChannel, FiniteSetTheorems, TLAPS

(* How many connections accept has returned. *)
Accepted == made - Len(backlog)

Leaving == wk.pc \in {"store", "clear"}

-----------------------------------------------------------------------------
(* What holds whatever has happened. *)

(* TypeOK, with nothing said of the range of clientNum. *)
Accs ==
  [pc : {"test", "accept", "count", "number", "store", "ended"},
   c : Conn \cup {NoConn}, n : Int]

Wks ==
  [pc : {"select", "scan", "store", "clear"}, i : 0 .. FdSize,
   ready : SUBSET Conn, n : Int]

Types ==
  /\ made \in 0 .. MaxConn
  /\ backlog \in Seq(Conn)
  /\ unread \subseteq Conn /\ finished \subseteq Conn /\ closed \subseteq Conn
  /\ fds \in [count : 0 .. FdSize, array : [Index -> Conn \cup {NoConn}]]
  /\ clientNum \in Int
  /\ acc \in Accs
  /\ wk \in Wks
  /\ applied \in Seq(Conn)
  /\ skipped \in BOOLEAN /\ clash \in BOOLEAN /\ miscount \in BOOLEAN

(* The kernel hands the connections over in their order; the set, the pass  *)
(* and the closed ones hold accepted connections only.                      *)
BacklogIs ==
  /\ Len(backlog) <= made
  /\ \A k \in 1 .. Len(backlog) : backlog[k] = Accepted + k

OnlyAccepted ==
  /\ \A i \in Index : fds.array[i] <= Accepted
  /\ \A c \in wk.ready \cup closed : c <= Accepted
  /\ \A c \in unread : c <= made

(* A closed connection has no command left in it. *)
ClosedIsRead == unread \cap closed = {}

PassStarts == wk.pc = "select" => wk.i = 0

(* The index of a connection that is being removed is in the set, and there *)
(* is room for the one being added.                                         *)
IndexOK == Leaving => wk.i < fds.count

RoomOK == acc.pc = "count" => fds.count < FdSize /\ acc.c \in Conn

(* The counting, as long as the two threads do not count at the same time.  *)
CountOK ==
  ~miscount =>
    /\ ~(acc.pc = "store" /\ wk.pc = "store")
    /\ acc.pc = "store" => acc.n = clientNum + 1
    /\ wk.pc = "store" => wk.n = clientNum - 1
    /\ acc.pc \in {"accept", "count", "number", "store"} => clientNum < FdSize
    /\ clientNum <= FdSize
    /\ clientNum >= fds.count
                    - (IF wk.pc = "clear" THEN 1 ELSE 0)
                    - (IF acc.pc \in {"number", "store"} THEN 1 ELSE 0)

IInv ==
  /\ Types /\ BacklogIs /\ OnlyAccepted /\ ClosedIsRead /\ PassStarts
  /\ IndexOK /\ RoomOK /\ CountOK

-----------------------------------------------------------------------------
(* What holds until FD_SET and FD_CLR meet. *)

(* The entries stand in the order of the connections. *)
Sorted ==
  \A i, j \in 0 .. fds.count - 1 : i < j => fds.array[i] < fds.array[j]

(* The connection being added is the last accepted one, it stands behind   *)
(* the others, and the pass does not know it.                               *)
AddingOK ==
  acc.pc = "count" =>
    /\ acc.c = Accepted /\ fds.array[fds.count] = acc.c
    /\ acc.c \notin wk.ready \cup closed
    /\ \A i \in 0 .. fds.count - 1 : fds.array[i] < acc.c

LeavingOK == Leaving => Current \in closed

(* Which connections are in the set. *)
Members ==
  /\ \A i \in 0 .. fds.count - 1 :
       /\ fds.array[i] \in Conn
       /\ fds.array[i] \in closed => Leaving /\ i = wk.i
  /\ \A c \in 1 .. Accepted :
       c \notin closed /\ ~(acc.pc = "count" /\ c = acc.c) => c \in Entries

Counted ==
  ~miscount =>
    clientNum = fds.count
                - (IF wk.pc = "clear" THEN 1 ELSE 0)
                - (IF acc.pc \in {"number", "store"} THEN 1 ELSE 0)

SetInv == ~clash => Sorted /\ AddingOK /\ LeavingOK /\ Members /\ Counted

-----------------------------------------------------------------------------
(* What holds, besides, until an FD_CLR moves an entry under the index. *)

(* No unread command is older than one that has been obeyed, ... *)
AppliedFirst ==
  /\ \A k \in DOMAIN applied : applied[k] <= made
  /\ \A k \in DOMAIN applied : \A c \in unread : applied[k] < c

(* ... the pass has every command that is older than one it has, ...        *)
ReadyPrefix == \A c \in wk.ready : \A d \in unread : d < c => d \in wk.ready

(* ... and leaves none of them behind its index. *)
Scanned ==
  \A j \in 0 .. fds.count - 1 : j < wk.i => fds.array[j] \notin unread \cap wk.ready

Ascending == \A j, k \in DOMAIN applied : j < k => applied[j] < applied[k]

OrderInv ==
  ~clash /\ ~skipped => AppliedFirst /\ ReadyPrefix /\ Scanned /\ Ascending

-----------------------------------------------------------------------------
USE FdSizeAssumption, MaxConnAssumption

(* What Connect does to the numbers. *)
LEMMA ConnectIs ==
  ASSUME IInv, NEW sent \in BOOLEAN, Connect(sent)
  PROVE
      /\ made' = made + 1 /\ made' \in 0 .. MaxConn /\ made' \in Conn
      /\ backlog' = Append(backlog, made') /\ backlog' \in Seq(Conn)
      /\ Len(backlog) \in Nat /\ Len(backlog') = Len(backlog) + 1
      /\ Accepted' = Accepted /\ Accepted \in 0 .. made
      /\ unread \subseteq unread' /\ unread' \subseteq unread \cup {made'}
      /\ UNCHANGED <<finished, closed, fds, clientNum, acc, wk, applied, skipped,
                     clash, miscount>>
  BY DEF IInv, Types, BacklogIs, Accepted, Connect, server, past, Conn

(* accept returns the next connection. *)
LEMMA AcceptIs ==
  ASSUME IInv, AcceptStore
  PROVE
      /\ Len(backlog) \in Nat \ {0} /\ backlog' = Tail(backlog)
      /\ backlog' \in Seq(Conn) /\ Len(backlog') = Len(backlog) - 1
      /\ \A k \in 1 .. Len(backlog') : backlog'[k] = backlog[k + 1]
      /\ Head(backlog) = backlog[1] /\ backlog[1] \in Conn
      /\ Accepted' = Accepted + 1 /\ Accepted \in 0 .. made - 1
      /\ made \in Nat
      /\ UNCHANGED <<made, unread, finished, closed, clientNum, wk, applied,
                     skipped, miscount>>
  BY DEF IInv, Types, BacklogIs, Accepted, AcceptStore, peer

(* FD_SET stores it behind the others, if there is room. *)
LEMMA StoreIs ==
  ASSUME IInv, AcceptStore
  PROVE
      /\ fds.count \in 0 .. FdSize /\ fds'.count = fds.count
      /\ acc.pc = "accept" /\ acc.n \in Int
      /\ Head(backlog) = Accepted + 1
      /\ \/ /\ fds.count < FdSize /\ fds.count \in Index
            /\ fds' = [fds EXCEPT !.array[fds.count] = Accepted + 1]
            /\ acc' = [pc |-> "count", c |-> Accepted + 1, n |-> acc.n]
            /\ clash' = clash
         \/ /\ fds' = fds
            /\ acc' = [pc |-> "number", c |-> Accepted + 1, n |-> acc.n]
            /\ clash' = TRUE
<1>1. Head(backlog) = Accepted + 1
  BY AcceptIs DEF IInv, BacklogIs
<1>2. /\ acc = [pc |-> "accept", c |-> acc.c, n |-> acc.n]
      /\ acc.pc = "accept" /\ acc.n \in Int
      /\ fds.count \in 0 .. FdSize
  BY DEF IInv, Types, Accs, AcceptStore
<1>3. CASE fds.count < FdSize
  <2>1. /\ fds' = [fds EXCEPT !.array[fds.count] = Head(backlog)]
        /\ acc' = [acc EXCEPT !.pc = "count", !.c = Head(backlog)]
        /\ clash' = clash
    BY <1>3, Zenon DEF AcceptStore
  <2>2. acc' = [pc |-> "count", c |-> Accepted + 1, n |-> acc.n]
    BY <1>1, <1>2, <2>1
  <2>3. fds' = [fds EXCEPT !.array[fds.count] = Accepted + 1]
    BY <1>1, <2>1
  <2>4. fds'.count = fds.count /\ fds.count \in Index
    BY <1>2, <1>3, <2>3 DEF IInv, Types, Index
  <2> QED
    BY <1>1, <1>2, <1>3, <2>1, <2>2, <2>3, <2>4, Zenon
<1>4. CASE ~(fds.count < FdSize)
  <2>1. /\ fds' = fds /\ clash' = TRUE
        /\ acc' = [acc EXCEPT !.pc = "number", !.c = Head(backlog)]
    BY <1>4, Zenon DEF AcceptStore
  <2>2. acc' = [pc |-> "number", c |-> Accepted + 1, n |-> acc.n]
    BY <1>1, <1>2, <2>1
  <2> QED
    BY <1>1, <1>2, <2>1, <2>2, Zenon
<1> QED
  BY <1>3, <1>4

LEMMA QuietKeeps ==
  ASSUME IInv,
         Finish \/ AcceptTest \/ AcceptNumber \/ AcceptNumbered \/ ScanEnd
  PROVE  IInv'
<1> USE DEF IInv, Types, Accs, Wks, Conn, Index, NoConn, BacklogIs, Accepted,
           OnlyAccepted, ClosedIsRead, PassStarts, IndexOK, Leaving,
           RoomOK, CountOK
<1>1. CASE Finish
  BY <1>1 DEF Finish, server, past
<1>2. CASE AcceptTest
  BY <1>2 DEF AcceptTest, peer, server, past
<1>3. CASE AcceptNumber
  <2>1. Types'
    BY <1>3 DEF AcceptNumber, peer, server
  <2>2. BacklogIs' /\ OnlyAccepted' /\ ClosedIsRead' /\ PassStarts' /\ IndexOK'
        /\ RoomOK'
    BY <1>3 DEF AcceptNumber, peer, server
  <2>3. CountOK'
    BY <1>3 DEF AcceptNumber, peer, server
  <2> QED
    BY <2>1, <2>2, <2>3
<1>4. CASE AcceptNumbered
  <2>1. Types'
    BY <1>4 DEF AcceptNumbered, peer, past
  <2>2. BacklogIs' /\ OnlyAccepted' /\ ClosedIsRead' /\ PassStarts' /\ IndexOK'
        /\ RoomOK'
    BY <1>4 DEF AcceptNumbered, peer, past
  <2>3. CountOK'
    BY <1>4 DEF AcceptNumbered, peer, past
  <2> QED
    BY <2>1, <2>2, <2>3
<1>5. CASE ScanEnd
  <2>1. Types'
    BY <1>5 DEF ScanEnd, peer, server, past
  <2>2. BacklogIs' /\ OnlyAccepted' /\ ClosedIsRead' /\ PassStarts' /\ IndexOK'
        /\ RoomOK'
    BY <1>5 DEF ScanEnd, peer, server, past
  <2>3. CountOK'
    BY <1>5 DEF ScanEnd, peer, server, past
  <2> QED
    BY <2>1, <2>2, <2>3
<1> QED
  BY <1>1, <1>2, <1>3, <1>4, <1>5

LEMMA ConnectKeeps ==
  ASSUME IInv, NEW sent \in BOOLEAN, Connect(sent)
  PROVE  IInv'
<1>1. IInv /\ Connect(sent)
  OBVIOUS
<1>2. /\ made' = made + 1 /\ made' \in 0 .. MaxConn /\ made' \in Conn
      /\ backlog' = Append(backlog, made') /\ backlog' \in Seq(Conn)
      /\ Len(backlog) \in Nat /\ Len(backlog') = Len(backlog) + 1
      /\ Accepted' = Accepted /\ Accepted \in 0 .. made
      /\ unread \subseteq unread' /\ unread' \subseteq unread \cup {made'}
      /\ UNCHANGED <<finished, closed, fds, clientNum, acc, wk, applied, skipped,
                     clash, miscount>>
  BY ConnectIs
<1>3. PassStarts' /\ IndexOK' /\ RoomOK'
  BY <1>1
     DEF IInv, Connect, PassStarts, Types, Wks, IndexOK, Leaving, RoomOK, Accs,
         BacklogIs, Accepted, Conn, server, past
<1>4. Types'
  BY <1>1, <1>2 DEF IInv, Types
<1>5. BacklogIs'
  <2>1. ASSUME NEW k \in 1 .. Len(backlog') PROVE backlog'[k] = Accepted + k
    <3>1. CASE k = Len(backlog) + 1
      BY <1>2, <3>1 DEF Accepted
    <3>2. CASE k # Len(backlog) + 1
      <4>1. k \in 1 .. Len(backlog) /\ backlog'[k] = backlog[k]
        BY <1>1, <1>2, <3>2 DEF IInv, Types
      <4> QED
        BY <1>1, <4>1 DEF IInv, BacklogIs
    <3> QED
      BY <3>1, <3>2
  <2> QED
    BY <1>1, <1>2, <2>1 DEF IInv, BacklogIs
<1>6. OnlyAccepted'
  BY <1>1, <1>2 DEF IInv, OnlyAccepted, Types, Conn
<1>7. ClosedIsRead'
  BY <1>1, <1>2 DEF IInv, ClosedIsRead, OnlyAccepted, Types, Conn
<1>8. CountOK'
  BY <1>1
     DEF IInv, Connect, CountOK, Types, Accs, Wks, IndexOK, Leaving, RoomOK,
         server, past
<1> QED
  BY <1>3, <1>4, <1>5, <1>6, <1>7, <1>8 DEF IInv

LEMMA AcceptStoreKeeps == IInv /\ AcceptStore => IInv'
<1>1. SUFFICES ASSUME IInv, AcceptStore PROVE IInv'
  OBVIOUS
<1>2. /\ Len(backlog) \in Nat \ {0} /\ backlog' = Tail(backlog)
      /\ backlog' \in Seq(Conn) /\ Len(backlog') = Len(backlog) - 1
      /\ \A k \in 1 .. Len(backlog') : backlog'[k] = backlog[k + 1]
      /\ Head(backlog) = backlog[1] /\ backlog[1] \in Conn
      /\ Accepted' = Accepted + 1 /\ Accepted \in 0 .. made - 1
      /\ made \in Nat
      /\ UNCHANGED <<made, unread, finished, closed, clientNum, wk, applied,
                     skipped, miscount>>
  BY <1>1, AcceptIs
<1>3. /\ fds.count \in 0 .. FdSize /\ fds'.count = fds.count
      /\ acc.pc = "accept" /\ acc.n \in Int
      /\ Head(backlog) = Accepted + 1
      /\ \/ /\ fds.count < FdSize /\ fds.count \in Index
            /\ fds' = [fds EXCEPT !.array[fds.count] = Accepted + 1]
            /\ acc' = [pc |-> "count", c |-> Accepted + 1, n |-> acc.n]
            /\ clash' = clash
         \/ /\ fds' = fds
            /\ acc' = [pc |-> "number", c |-> Accepted + 1, n |-> acc.n]
            /\ clash' = TRUE
  BY <1>1, StoreIs
<1>4. ClosedIsRead' /\ PassStarts'
  BY <1>1
     DEF IInv, AcceptStore, ClosedIsRead, OnlyAccepted, BacklogIs, Accepted,
         Types, Wks, Conn, PassStarts, peer, Index
<1>5. Types'
  <2>1. fds' \in [count : 0 .. FdSize, array : [Index -> Conn \cup {NoConn}]]
    BY <1>1, <1>2, <1>3 DEF IInv, Types
  <2>2. acc' \in Accs
    BY <1>1, <1>2, <1>3 DEF Accs
  <2>3. clash' \in BOOLEAN
    BY <1>1, <1>3 DEF IInv, Types
  <2> QED
    BY <1>1, <1>2, <2>1, <2>2, <2>3 DEF IInv, Types
<1>6. BacklogIs'
  BY <1>1, <1>2 DEF IInv, BacklogIs
<1>7. OnlyAccepted'
  <2>1. ASSUME NEW i \in Index PROVE fds'.array[i] <= Accepted'
    <3>1. fds.array[i] \in Int /\ fds.array[i] <= Accepted
      BY <1>1 DEF IInv, OnlyAccepted, Types, Conn, NoConn
    <3>2. fds'.array[i] \in {fds.array[i], Accepted + 1}
      BY <1>1, <1>3 DEF IInv, Types
    <3> QED
      BY <1>2, <3>1, <3>2
  <2>2. ASSUME NEW c \in wk.ready \cup closed PROVE c <= Accepted'
    <3>1. c \in Int /\ c <= Accepted
      BY <1>1 DEF IInv, OnlyAccepted, Types, Wks, Conn
    <3> QED
      BY <1>2, <3>1
  <2> QED
    BY <1>1, <1>2, <2>1, <2>2 DEF IInv, OnlyAccepted
<1>8. IndexOK'
  BY <1>1, <1>2, <1>3 DEF IInv, IndexOK, Leaving
<1>9. RoomOK'
  BY <1>2, <1>3 DEF RoomOK
<1>10. CountOK'
  BY <1>1, <1>2, <1>3 DEF IInv, CountOK, Types
<1> QED
  BY <1>4, <1>5, <1>6, <1>7, <1>8, <1>9, <1>10 DEF IInv

LEMMA AcceptCountKeeps == IInv /\ AcceptCount => IInv'
<1>1. SUFFICES ASSUME IInv, AcceptCount PROVE IInv'
  OBVIOUS
<1>2. BacklogIs' /\ OnlyAccepted' /\ ClosedIsRead' /\ PassStarts' /\ IndexOK' /\ RoomOK'
  BY <1>1
     DEF IInv, AcceptCount, BacklogIs, Accepted, Types, OnlyAccepted, Wks,
         Accs, Conn, NoConn, Index, ClosedIsRead, PassStarts, IndexOK, Leaving,
         RoomOK, peer, past
<1>3. Types'
  <2>1. fds.count + 1 \in 0 .. FdSize
    BY <1>1 DEF IInv, AcceptCount, RoomOK, Types
  <2>2. fds' \in [count : 0 .. FdSize, array : [Index -> Conn \cup {NoConn}]]
    BY <1>1, <2>1 DEF IInv, AcceptCount, Types
  <2>3. acc' \in Accs
    BY <1>1 DEF IInv, AcceptCount, Types, Accs
  <2> QED
    BY <1>1, <2>2, <2>3 DEF IInv, AcceptCount, Types, peer, past
<1>4. CountOK'
  BY <1>1
     DEF IInv, AcceptCount, CountOK, Types, Accs, Wks, IndexOK, Leaving,
         RoomOK, peer, past, Index
<1> QED
  BY <1>2, <1>3, <1>4 DEF IInv

LEMMA SelectKeeps == IInv /\ Select => IInv'
<1>1. SUFFICES ASSUME IInv, Select PROVE IInv'
  OBVIOUS
<1>2. BacklogIs' /\ ClosedIsRead' /\ PassStarts' /\ IndexOK' /\ RoomOK'
  BY <1>1
     DEF IInv, Select, BacklogIs, Accepted, Types, ClosedIsRead, OnlyAccepted,
         Wks, Conn, PassStarts, IndexOK, Leaving, RoomOK, Accs, peer, server,
         past, Entries, Readable, Index, NoConn
<1>3. Types'
  BY <1>1
     DEF IInv, Select, Types, Accs, Wks, Conn, Index, NoConn, peer, server,
         past, Entries, Readable
<1>4. OnlyAccepted'
  <2>1. ASSUME NEW c \in wk'.ready PROVE c <= Accepted
    <3>1. wk'.ready = {d \in Entries : Readable(d)}
      BY <1>1 DEF IInv, Select, Types, Wks
    <3>2. PICK i \in 0 .. fds.count - 1 : c = fds.array[i]
      BY <2>1, <3>1 DEF Entries
    <3>3. i \in Index
      BY <1>1, <3>2 DEF IInv, Types, Index
    <3> QED
      BY <1>1, <3>2, <3>3 DEF IInv, OnlyAccepted
  <2> QED
    BY <1>1, <2>1 DEF IInv, Select, OnlyAccepted, Accepted, peer, server
<1>5. CountOK'
  BY <1>1
     DEF IInv, Select, CountOK, Types, Accs, Wks, IndexOK, Leaving, RoomOK,
         peer, server, past, Entries, Readable, Index, NoConn, Conn
<1> QED
  BY <1>2, <1>3, <1>4, <1>5 DEF IInv

LEMMA ScanPastKeeps == IInv /\ ScanPast => IInv'
<1>1. SUFFICES ASSUME IInv, ScanPast PROVE IInv'
  OBVIOUS
<1>2. BacklogIs' /\ OnlyAccepted' /\ ClosedIsRead' /\ PassStarts' /\ IndexOK' /\ RoomOK'
  BY <1>1
     DEF IInv, ScanPast, BacklogIs, Accepted, Types, OnlyAccepted, Wks, Accs,
         Conn, NoConn, Index, ClosedIsRead, PassStarts, IndexOK, Leaving,
         RoomOK, peer, server, past, Scanning, Current
<1>3. Types'
  <2>1. wk.i + 1 \in 0 .. FdSize
    BY <1>1 DEF IInv, ScanPast, Scanning, Types, Wks
  <2>2. wk' \in Wks
    BY <1>1, <2>1 DEF IInv, ScanPast, Types, Wks
  <2> QED
    BY <1>1, <2>2 DEF IInv, ScanPast, Types, peer, server, past
<1>4. CountOK'
  BY <1>1
     DEF IInv, ScanPast, CountOK, Types, Accs, Wks, IndexOK, Leaving, RoomOK,
         peer, server, past, Scanning, Current
<1> QED
  BY <1>2, <1>3, <1>4 DEF IInv

LEMMA RecvCommandKeeps == IInv /\ RecvCommand => IInv'
<1>1. SUFFICES ASSUME IInv, RecvCommand PROVE IInv'
  OBVIOUS
<1>2. BacklogIs' /\ OnlyAccepted' /\ ClosedIsRead' /\ PassStarts' /\ IndexOK' /\ RoomOK'
  BY <1>1
     DEF IInv, RecvCommand, BacklogIs, Accepted, Types, OnlyAccepted, Wks,
         Accs, Conn, NoConn, Index, ClosedIsRead, PassStarts, IndexOK, Leaving,
         RoomOK, server, Scanning, Current
<1>3. Types'
  <2>1. wk.i + 1 \in 0 .. FdSize
    BY <1>1 DEF IInv, RecvCommand, Scanning, Types, Wks
  <2>2. wk' \in Wks
    BY <1>1, <2>1 DEF IInv, RecvCommand, Types, Wks
  <2>3. Current \in Conn /\ applied' \in Seq(Conn)
    BY <1>1 DEF IInv, RecvCommand, Types
  <2> QED
    BY <1>1, <2>2, <2>3 DEF IInv, RecvCommand, Types, server
<1>4. CountOK'
  BY <1>1
     DEF IInv, RecvCommand, CountOK, Types, Accs, Wks, IndexOK, Leaving,
         RoomOK, server, Scanning, Current
<1> QED
  BY <1>2, <1>3, <1>4 DEF IInv

LEMMA RecvEndKeeps == IInv /\ RecvEnd => IInv'
<1>1. SUFFICES ASSUME IInv, RecvEnd PROVE IInv'
  OBVIOUS
<1>2. BacklogIs' /\ OnlyAccepted' /\ ClosedIsRead' /\ PassStarts' /\ IndexOK' /\ RoomOK'
  BY <1>1
     DEF IInv, RecvEnd, BacklogIs, Accepted, Types, OnlyAccepted, Wks, Accs,
         Conn, NoConn, Index, ClosedIsRead, PassStarts, IndexOK, Leaving,
         RoomOK, peer, Scanning, Current
<1>3. Types'
  <2>1. wk' \in Wks
    <3>1. wk' = [pc |-> "store", i |-> wk.i, ready |-> wk.ready, n |-> clientNum - 1]
      BY <1>1 DEF IInv, RecvEnd, Types, Wks
    <3> QED
      BY <1>1, <3>1 DEF IInv, Types, Wks
  <2>2. Current \in Conn
    BY <1>1 DEF IInv, RecvEnd, Types
  <2>3. miscount' \in BOOLEAN
    BY <1>1 DEF RecvEnd
  <2> QED
    BY <1>1, <2>1, <2>2, <2>3 DEF IInv, RecvEnd, Types, peer
<1>4. CountOK'
  BY <1>1
     DEF IInv, RecvEnd, CountOK, Types, Accs, Wks, IndexOK, Leaving, RoomOK,
         peer, Scanning, Current
<1> QED
  BY <1>2, <1>3, <1>4 DEF IInv

LEMMA UncountKeeps == IInv /\ Uncount => IInv'
<1>1. SUFFICES ASSUME IInv, Uncount PROVE IInv'
  OBVIOUS
<1>2. BacklogIs' /\ OnlyAccepted' /\ ClosedIsRead' /\ PassStarts' /\ IndexOK' /\ RoomOK'
  BY <1>1
     DEF IInv, Uncount, BacklogIs, Accepted, Types, OnlyAccepted, Wks, Accs,
         Conn, NoConn, Index, ClosedIsRead, PassStarts, IndexOK, Leaving,
         RoomOK, peer, past
<1>3. Types'
  <2>1. wk' \in Wks
    <3>1. wk' = [pc |-> "clear", i |-> wk.i, ready |-> wk.ready, n |-> 0]
      BY <1>1 DEF IInv, Uncount, Types, Wks
    <3> QED
      BY <1>1, <3>1 DEF IInv, Types, Wks
  <2>2. clientNum' \in Int
    BY <1>1 DEF IInv, Uncount, Types, Wks
  <2> QED
    BY <1>1, <2>1, <2>2 DEF IInv, Uncount, Types, peer, past
<1>4. CountOK'
  BY <1>1
     DEF IInv, Uncount, CountOK, Types, Accs, Wks, IndexOK, Leaving, RoomOK,
         peer, past
<1> QED
  BY <1>2, <1>3, <1>4 DEF IInv

LEMMA ClearKeeps == IInv /\ Clear => IInv'
<1>1. SUFFICES ASSUME IInv, Clear PROVE IInv'
  OBVIOUS
<1>2. /\ fds.count \in 1 .. FdSize /\ wk.i < fds.count /\ Current \in Entries
      /\ fds'.count = fds.count - 1
      /\ fds'.array \in [Index -> Conn \cup {NoConn}]
      /\ \A i \in Index : \E j \in Index : fds'.array[i] = fds.array[j]
  <2>1. /\ fds.count \in 0 .. FdSize /\ wk.i \in 0 .. FdSize
        /\ wk.i < fds.count
        /\ fds.array \in [Index -> Conn \cup {NoConn}]
    BY <1>1 DEF IInv, Clear, IndexOK, Leaving, Types, Wks
  <2>2. Current \in Entries
    BY <2>1 DEF Current, Entries
  <2>3. fds' = [count |-> fds.count - 1,
                array |-> [i \in Index |->
                  IF i < fds.count - 1 /\ \E j \in 0 .. i : fds.array[j] = Current
                    THEN fds.array[i + 1] ELSE fds.array[i]]]
    BY <1>1, <2>2 DEF Clear, FD_CLR
  <2>4. \A i \in Index : i < fds.count - 1 => i + 1 \in Index
    BY <2>1 DEF Index
  <2> QED
    BY <2>1, <2>2, <2>3, <2>4
<1>3. BacklogIs' /\ ClosedIsRead' /\ PassStarts' /\ IndexOK' /\ RoomOK'
  BY <1>1
     DEF IInv, Clear, BacklogIs, Accepted, Types, ClosedIsRead, OnlyAccepted,
         Wks, Conn, PassStarts, IndexOK, Leaving, RoomOK, Accs, peer, FD_CLR,
         Current, Entries, Index, NoConn
<1>4. Types'
  <2>1. fds' = [count |-> fds'.count, array |-> fds'.array]
    BY <1>1, <1>2 DEF Clear, FD_CLR
  <2>2. fds' \in [count : 0 .. FdSize, array : [Index -> Conn \cup {NoConn}]]
    BY <1>2, <2>1
  <2>3. wk' \in Wks
    <3>1. wk.i + 1 \in 0 .. FdSize
      BY <1>1, <1>2 DEF IInv, Types, Wks
    <3> QED
      BY <1>1, <3>1 DEF IInv, Clear, Types, Wks
  <2>4. skipped' \in BOOLEAN /\ clash' \in BOOLEAN
    BY <1>1 DEF Clear
  <2> QED
    BY <1>1, <2>2, <2>3, <2>4 DEF IInv, Clear, Types, peer
<1>5. OnlyAccepted'
  <2>1. /\ Accepted' = Accepted /\ wk'.ready = wk.ready
        /\ UNCHANGED <<closed, unread, made>>
    BY <1>1 DEF IInv, Clear, Types, Wks, Accepted, peer
  <2> QED
    BY <1>1, <1>2, <2>1 DEF IInv, OnlyAccepted
<1>6. CountOK'
  BY <1>1, <1>2 DEF IInv, Clear, CountOK, Types, Accs, Wks
<1> QED
  BY <1>3, <1>4, <1>5, <1>6 DEF IInv

-----------------------------------------------------------------------------
(* Until FD_SET and FD_CLR have met, AcceptStore finds room. *)
LEMMA StoredIs ==
  ASSUME IInv, Members, AcceptStore, ~clash'
  PROVE
      /\ fds.count \in Index /\ fds'.count = fds.count
      /\ fds' = [fds EXCEPT !.array[fds.count] = Accepted + 1]
      /\ acc' = [pc |-> "count", c |-> Accepted + 1, n |-> acc.n]
      /\ acc.pc = "accept" /\ Accepted' = Accepted + 1 /\ Accepted \in Nat
      /\ UNCHANGED <<closed, wk>>
      /\ fds'.array[fds.count] = Accepted + 1
      /\ \A i \in 0 .. fds.count - 1 :
           /\ i \in Index /\ fds'.array[i] = fds.array[i]
           /\ fds.array[i] \in Conn /\ fds.array[i] <= Accepted
<1>1. /\ fds.count \in Index /\ fds'.count = fds.count
      /\ fds' = [fds EXCEPT !.array[fds.count] = Accepted + 1]
      /\ acc' = [pc |-> "count", c |-> Accepted + 1, n |-> acc.n]
      /\ acc.pc = "accept" /\ Accepted' = Accepted + 1 /\ Accepted \in Nat
      /\ UNCHANGED <<closed, wk>>
  <2>1. /\ fds.count \in Index /\ fds'.count = fds.count /\ acc.pc = "accept"
        /\ fds' = [fds EXCEPT !.array[fds.count] = Accepted + 1]
        /\ acc' = [pc |-> "count", c |-> Accepted + 1, n |-> acc.n]
    BY StoreIs, Zenon
  <2>2. Accepted' = Accepted + 1 /\ Accepted \in Nat /\ UNCHANGED <<closed, wk>>
    BY AcceptIs
  <2> QED
    BY <2>1, <2>2
<1>2. /\ fds'.array[fds.count] = Accepted + 1
      /\ \A i \in 0 .. fds.count - 1 :
           /\ i \in Index /\ fds'.array[i] = fds.array[i]
           /\ fds.array[i] \in Conn /\ fds.array[i] <= Accepted
  <2>1. ASSUME NEW i \in 0 .. fds.count - 1 PROVE i \in Index /\ i # fds.count
    BY <1>1 DEF Index
  <2>2. fds.array \in [Index -> Conn \cup {NoConn}]
    BY DEF IInv, Types
  <2> QED
    BY <1>1, <2>1, <2>2 DEF IInv, Types, OnlyAccepted, Members
<1> QED
  BY <1>1, <1>2

(* In a sorted set FD_CLR removes the entry under the index. *)
LEMMA ClearIs ==
  ASSUME IInv, Sorted, Members, Clear
  PROVE  /\ wk.i \in 0 .. fds.count - 1 /\ fds'.count = fds.count - 1
         /\ fds.count \in 1 .. FdSize /\ Leaving /\ ~Leaving'
         /\ \A i \in 0 .. fds.count - 2 :
              fds'.array[i] = IF i < wk.i THEN fds.array[i] ELSE fds.array[i + 1]
<1>1. /\ fds.count \in 0 .. FdSize /\ wk.i \in 0 .. fds.count - 1
      /\ Leaving /\ ~Leaving'
  BY DEF IInv, Clear, IndexOK, Leaving, Types, Wks
<1>2. Current \in Entries /\ Current = fds.array[wk.i]
  BY <1>1 DEF Current, Entries
<1>3. fds' = [count |-> fds.count - 1,
              array |-> [i \in Index |->
                IF i < fds.count - 1 /\ \E j \in 0 .. i : fds.array[j] = Current
                  THEN fds.array[i + 1] ELSE fds.array[i]]]
  BY <1>2 DEF Clear, FD_CLR
<1>4. ASSUME NEW i \in 0 .. fds.count - 2
      PROVE  (\E j \in 0 .. i : fds.array[j] = Current) <=> wk.i <= i
  <2>1. ASSUME NEW j \in 0 .. i, fds.array[j] = Current PROVE j = wk.i
    <3>1. j \in 0 .. fds.count - 1
      BY <1>1
    <3>2. fds.array[j] \in Int /\ fds.array[wk.i] \in Int
      BY <1>1, <3>1 DEF Members, Conn
    <3>3. ~(j < wk.i) /\ ~(wk.i < j)
      BY <1>1, <1>2, <2>1, <3>1, <3>2 DEF Sorted
    <3> QED
      BY <1>1, <3>3
  <2> QED
    BY <1>1, <1>2, <2>1
<1>5. \A i \in 0 .. fds.count - 2 : i \in Index /\ i < fds.count - 1
  BY <1>1 DEF Index
<1>6. ASSUME NEW i \in 0 .. fds.count - 2
      PROVE  fds'.array[i] = IF i < wk.i THEN fds.array[i] ELSE fds.array[i + 1]
  <2>1. fds'.array[i] = IF \E j \in 0 .. i : fds.array[j] = Current
                          THEN fds.array[i + 1] ELSE fds.array[i]
    BY <1>3, <1>5
  <2> QED
    BY <1>1, <1>4, <2>1
<1> QED
  BY <1>1, <1>3, <1>6

LEMMA QuietSet ==
  ASSUME IInv, SetInv,
         Finish \/ AcceptTest \/ AcceptNumber \/ AcceptNumbered \/ Select \/
         ScanPast \/ RecvCommand \/ Uncount \/ ScanEnd
  PROVE  SetInv'
<1>1. SUFFICES ASSUME ~clash'
               PROVE  Sorted' /\ AddingOK' /\ LeavingOK' /\ Members' /\ Counted'
  BY DEF SetInv
<1>2. ~clash /\ Sorted /\ AddingOK /\ LeavingOK /\ Members /\ Counted
  BY <1>1 DEF SetInv, Finish, AcceptTest, AcceptNumber, AcceptNumbered, Select,
              ScanPast, RecvCommand, Uncount, ScanEnd, past
<1> USE DEF IInv, Sorted, Types, Accs, AddingOK, Wks, Accepted, NoConn, Conn,
           Index, LeavingOK, Leaving, Current, Members, Entries, Counted,
           CountOK
<1>3. CASE Finish
  BY <1>2, <1>3 DEF Finish, server, past
<1>4. CASE AcceptTest
  BY <1>2, <1>4 DEF AcceptTest, peer, server, past
<1>5. CASE AcceptNumber
  BY <1>2, <1>5 DEF AcceptNumber, peer, server
<1>6. CASE AcceptNumbered
  BY <1>2, <1>6 DEF AcceptNumbered, peer, past
<1>7. CASE Select
  BY <1>2, <1>7 DEF Select, peer, server, past, Readable
<1>8. CASE ScanPast
  BY <1>2, <1>8 DEF ScanPast, peer, server, past, Scanning
<1>9. CASE RecvCommand
  BY <1>2, <1>9 DEF RecvCommand, server, Scanning
<1>10. CASE Uncount
  BY <1>2, <1>10 DEF Uncount, peer, past
<1>11. CASE ScanEnd
  BY <1>2, <1>11 DEF ScanEnd, peer, server, past
<1> QED
  BY <1>3, <1>4, <1>5, <1>6, <1>7, <1>8, <1>9, <1>10, <1>11

LEMMA ConnectSet ==
  ASSUME IInv, SetInv, NEW sent \in BOOLEAN, Connect(sent)
  PROVE  SetInv'
<1>1. SUFFICES ASSUME ~clash'
               PROVE  Sorted' /\ AddingOK' /\ LeavingOK' /\ Members' /\ Counted'
  BY DEF SetInv
<1>2. /\ IInv /\ Connect(sent) /\ ~clash
      /\ Sorted /\ AddingOK /\ LeavingOK /\ Members /\ Counted
  BY <1>1 DEF SetInv, Connect, past
<1>3. Sorted' /\ AddingOK' /\ LeavingOK'
  BY <1>1, <1>2
     DEF IInv, Connect, Sorted, Types, Accs, AddingOK, Wks, Accepted, NoConn,
         Conn, Index, LeavingOK, Leaving, Current, server, past
<1>4. Members'
  <2>1. Accepted' = Accepted /\ UNCHANGED <<fds, closed, acc, wk>>
    BY <1>2, ConnectIs
  <2> QED
    BY <1>2, <2>1 DEF Members, Entries, Leaving
<1>5. Counted'
  BY <1>1, <1>2
     DEF IInv, Connect, Counted, CountOK, Types, Accs, Wks, server, past
<1> QED
  BY <1>3, <1>4, <1>5

LEMMA AcceptStoreSet == IInv /\ SetInv /\ AcceptStore => SetInv'
<1>1. SUFFICES ASSUME IInv, SetInv, AcceptStore, ~clash'
               PROVE  Sorted' /\ AddingOK' /\ LeavingOK' /\ Members' /\ Counted'
  BY DEF SetInv
<1>2. ~clash /\ Sorted /\ AddingOK /\ LeavingOK /\ Members /\ Counted
  BY <1>1 DEF SetInv, AcceptStore
<1>3. /\ fds.count \in Index /\ fds'.count = fds.count
      /\ fds' = [fds EXCEPT !.array[fds.count] = Accepted + 1]
      /\ acc' = [pc |-> "count", c |-> Accepted + 1, n |-> acc.n]
      /\ acc.pc = "accept" /\ Accepted' = Accepted + 1 /\ Accepted \in Nat
      /\ UNCHANGED <<closed, wk>>
  BY <1>1, <1>2, StoredIs
<1>4. /\ fds'.array[fds.count] = Accepted + 1
      /\ \A i \in 0 .. fds.count - 1 :
           /\ i \in Index /\ fds'.array[i] = fds.array[i]
           /\ fds.array[i] \in Conn /\ fds.array[i] <= Accepted
  BY <1>1, <1>2, StoredIs
<1>5. Entries' = Entries
  BY <1>3, <1>4 DEF Entries
<1>6. Sorted'
  BY <1>2, <1>3, <1>4 DEF Sorted
<1>7. AddingOK'
  <2>1. \A c \in wk.ready \cup closed : c \in Int /\ c <= Accepted
    BY <1>1 DEF IInv, Types, Wks, Conn, OnlyAccepted
  <2>2. Accepted + 1 \notin wk'.ready \cup closed'
    BY <1>3, <2>1
  <2>3. \A i \in 0 .. fds'.count - 1 : fds'.array[i] < Accepted + 1
    BY <1>3, <1>4 DEF Conn
  <2> QED
    BY <1>3, <1>4, <2>2, <2>3 DEF AddingOK
<1>8. LeavingOK'
  <2>1. Leaving => wk.i \in 0 .. fds.count - 1
    BY <1>1 DEF IInv, Types, Wks, IndexOK
  <2> QED
    BY <1>2, <1>3, <1>4, <2>1 DEF LeavingOK, Leaving, Current
<1>9. Members'
  <2>1. ASSUME NEW c \in 1 .. Accepted', c \notin closed', c # acc'.c
        PROVE  c \in Entries'
    BY <1>2, <1>3, <1>5, <2>1 DEF Members
  <2>2. ASSUME NEW i \in 0 .. fds'.count - 1
        PROVE  /\ fds'.array[i] \in Conn
               /\ fds'.array[i] \in closed' => Leaving' /\ i = wk'.i
    BY <1>2, <1>3, <1>4 DEF Members, Leaving
  <2>3. acc'.pc = "count"
    BY <1>3
  <2> QED
    BY <2>1, <2>2, <2>3 DEF Members
<1>10. Counted'
  BY <1>1, <1>2
     DEF IInv, AcceptStore, Counted, CountOK, Types, Accs, Wks, peer, Index
<1> QED
  BY <1>6, <1>7, <1>8, <1>9, <1>10

LEMMA AcceptCountSet == IInv /\ SetInv /\ AcceptCount => SetInv'
<1>1. SUFFICES ASSUME IInv, SetInv, AcceptCount, ~clash'
               PROVE  Sorted' /\ AddingOK' /\ LeavingOK' /\ Members' /\ Counted'
  BY DEF SetInv
<1>2. ~clash /\ Sorted /\ AddingOK /\ LeavingOK /\ Members /\ Counted
  BY <1>1 DEF SetInv, AcceptCount, past
<1>3. /\ acc.pc = "count" /\ acc'.pc = "number" /\ acc'.c = acc.c
      /\ fds.count \in 0 .. FdSize - 1 /\ fds'.count = fds.count + 1
      /\ fds'.array = fds.array /\ fds.array[fds.count] = acc.c
      /\ acc.c \in Conn /\ acc.c \notin closed
      /\ \A i \in 0 .. fds.count - 1 : fds.array[i] < acc.c
      /\ Accepted' = Accepted
      /\ UNCHANGED <<closed, wk, clientNum, miscount>>
  BY <1>1, <1>2
     DEF IInv, Types, Accs, RoomOK, AcceptCount, AddingOK, Accepted, peer, past
<1>4. \A i \in 0 .. fds'.count - 1 : i \in 0 .. fds.count - 1 \/ i = fds.count
  BY <1>3
<1>5. AddingOK' /\ LeavingOK'
  BY <1>1, <1>2
     DEF IInv, AcceptCount, AddingOK, Types, Accs, Wks, Accepted, NoConn, Conn,
         Index, LeavingOK, Leaving, Current, peer, past
<1>6. Sorted'
  <2>1. ASSUME NEW i \in 0 .. fds'.count - 1, NEW j \in 0 .. fds'.count - 1, i < j
        PROVE  fds.array[i] < fds.array[j]
    <3>1. i \in 0 .. fds.count - 1
      BY <1>3, <2>1
    <3>2. CASE j = fds.count
      BY <1>3, <3>1, <3>2
    <3>3. CASE j \in 0 .. fds.count - 1
      BY <1>2, <2>1, <3>1, <3>3 DEF Sorted
    <3> QED
      BY <1>4, <3>2, <3>3
  <2> QED
    BY <1>3, <2>1 DEF Sorted
<1>7. Members'
  <2>1. Entries' = Entries \cup {acc.c}
    BY <1>3 DEF Entries
  <2>2. ASSUME NEW i \in 0 .. fds'.count - 1
        PROVE  /\ fds'.array[i] \in Conn
               /\ fds'.array[i] \in closed' => Leaving' /\ i = wk'.i
    BY <1>2, <1>3, <1>4 DEF Members, Leaving
  <2>3. ASSUME NEW c \in 1 .. Accepted', c \notin closed' PROVE c \in Entries'
    BY <1>2, <1>3, <2>1, <2>3 DEF Members
  <2> QED
    BY <2>2, <2>3 DEF Members
<1>8. Counted'
  BY <1>2, <1>3 DEF Counted
<1> QED
  BY <1>5, <1>6, <1>7, <1>8

LEMMA RecvEndSet == IInv /\ SetInv /\ RecvEnd => SetInv'
<1>1. SUFFICES ASSUME IInv, SetInv, RecvEnd, ~clash'
               PROVE  Sorted' /\ AddingOK' /\ LeavingOK' /\ Members' /\ Counted'
  BY DEF SetInv
<1>2. ~clash /\ Sorted /\ AddingOK /\ LeavingOK /\ Members /\ Counted
  BY <1>1 DEF SetInv, RecvEnd
<1>3. Sorted' /\ AddingOK' /\ LeavingOK'
  BY <1>1, <1>2
     DEF IInv, RecvEnd, Sorted, Types, Accs, AddingOK, Wks, Accepted, NoConn,
         Conn, Index, LeavingOK, Leaving, Current, peer, Scanning
<1>4. Members'
  <2>1. /\ ~Leaving /\ Leaving' /\ wk'.i = wk.i
        /\ wk.i \in 0 .. fds.count - 1
        /\ closed' = closed \cup {Current} /\ Current = fds.array[wk.i]
        /\ Accepted' = Accepted /\ Entries' = Entries
        /\ UNCHANGED <<fds, acc>>
    BY <1>1 DEF IInv, Types, Wks, RecvEnd, Scanning, Leaving, Current, Accepted,
                Entries, peer
  <2>2. ASSUME NEW i \in 0 .. fds.count - 1, fds.array[i] = Current
        PROVE  i = wk.i
    <3>1. fds.array[i] \in Int /\ fds.array[wk.i] \in Int
      BY <1>2, <2>1 DEF Members, Conn
    <3>2. ~(i < wk.i) /\ ~(wk.i < i)
      BY <1>2, <2>1, <2>2, <3>1 DEF Sorted
    <3> QED
      BY <2>1, <3>2
  <2>3. ASSUME NEW i \in 0 .. fds'.count - 1
        PROVE  /\ fds'.array[i] \in Conn
               /\ fds'.array[i] \in closed' => Leaving' /\ i = wk'.i
    BY <1>2, <2>1, <2>2 DEF Members
  <2> QED
    BY <1>2, <2>1, <2>3 DEF Members
<1>5. Counted'
  BY <1>1, <1>2
     DEF IInv, RecvEnd, Counted, CountOK, Types, Accs, Wks, peer, Scanning,
         Current
<1> QED
  BY <1>3, <1>4, <1>5

LEMMA ClearSet == IInv /\ SetInv /\ Clear => SetInv'
<1>1. SUFFICES ASSUME IInv, SetInv, Clear, ~clash'
               PROVE  Sorted' /\ AddingOK' /\ LeavingOK' /\ Members' /\ Counted'
  BY DEF SetInv
<1>2. ~clash /\ Sorted /\ AddingOK /\ LeavingOK /\ Members /\ Counted
  BY <1>1 DEF SetInv, Clear
<1>3. /\ wk.i \in 0 .. fds.count - 1 /\ fds'.count = fds.count - 1
      /\ fds.count \in 1 .. FdSize /\ Leaving /\ ~Leaving'
      /\ \A i \in 0 .. fds.count - 2 :
           fds'.array[i] = IF i < wk.i THEN fds.array[i] ELSE fds.array[i + 1]
  BY <1>1, <1>2, ClearIs
<1>4. /\ acc.pc # "count" /\ Current \in closed
      /\ Accepted' = Accepted /\ UNCHANGED <<closed, acc>>
  BY <1>1, <1>2, <1>3 DEF Clear, LeavingOK, Accepted, peer
<1>5. AddingOK' /\ LeavingOK'
  BY <1>1, <1>2
     DEF IInv, Clear, AddingOK, Types, Accs, Wks, Accepted, NoConn, Conn,
         Index, LeavingOK, Leaving, Current, peer
<1>6. Sorted'
  BY <1>2, <1>3 DEF Sorted
<1>7. Members'
  <2>1. ASSUME NEW i \in 0 .. fds'.count - 1
        PROVE  \E j \in 0 .. fds.count - 1 : j # wk.i /\ fds'.array[i] = fds.array[j]
    BY <1>3
  <2>2. ASSUME NEW i \in 0 .. fds'.count - 1
        PROVE  fds'.array[i] \in Conn /\ fds'.array[i] \notin closed'
    <3>1. PICK j \in 0 .. fds.count - 1 : j # wk.i /\ fds'.array[i] = fds.array[j]
      BY <2>1
    <3> QED
      BY <1>2, <1>4, <3>1 DEF Members
  <2>3. ASSUME NEW c \in 1 .. Accepted', c \notin closed' PROVE c \in Entries'
    <3>1. PICK j \in 0 .. fds.count - 1 : c = fds.array[j]
      BY <1>2, <1>4, <2>3 DEF Members, Entries
    <3>2. j # wk.i
      BY <1>4, <2>3, <3>1 DEF Current
    <3>3. CASE j < wk.i
      <4>1. j \in 0 .. fds.count - 2 /\ fds'.array[j] = c
        BY <1>3, <3>1, <3>3
      <4> QED
        BY <1>3, <4>1 DEF Entries
    <3>4. CASE j > wk.i
      <4>1. j - 1 \in 0 .. fds.count - 2 /\ fds'.array[j - 1] = c
        BY <1>3, <3>1, <3>4
      <4> QED
        BY <1>3, <4>1 DEF Entries
    <3> QED
      BY <1>3, <3>2, <3>3, <3>4
  <2> QED
    BY <2>2, <2>3 DEF Members
<1>8. Counted'
  <2>1. wk.pc = "clear" /\ wk'.pc = "scan" /\ UNCHANGED <<clientNum, miscount>>
    BY <1>1 DEF IInv, Types, Wks, Clear
  <2> QED
    BY <1>2, <1>3, <1>4, <2>1 DEF Counted
<1> QED
  BY <1>5, <1>6, <1>7, <1>8

-----------------------------------------------------------------------------
LEMMA QuietOrder ==
  ASSUME IInv, OrderInv,
         Finish \/ AcceptTest \/ AcceptNumber \/ AcceptNumbered \/ ScanPast \/
         RecvEnd \/ Uncount \/ ScanEnd
  PROVE  OrderInv'
<1>1. SUFFICES ASSUME ~clash', ~skipped'
               PROVE  AppliedFirst' /\ ReadyPrefix' /\ Scanned' /\ Ascending'
  BY DEF OrderInv
<1>2. AppliedFirst /\ ReadyPrefix /\ Scanned /\ Ascending
  BY <1>1 DEF OrderInv, Finish, AcceptTest, AcceptNumber, AcceptNumbered,
              ScanPast, RecvEnd, Uncount, ScanEnd, past
<1> USE DEF IInv, AppliedFirst, Types, ReadyPrefix, Wks, Scanned, Ascending
<1>3. CASE Finish
  BY <1>2, <1>3 DEF Finish, server, past
<1>4. CASE AcceptTest
  BY <1>2, <1>4 DEF AcceptTest, peer, server, past
<1>5. CASE AcceptNumber
  BY <1>2, <1>5 DEF AcceptNumber, peer, server
<1>6. CASE AcceptNumbered
  BY <1>2, <1>6 DEF AcceptNumbered, peer, past
<1>7. CASE ScanPast
  BY <1>2, <1>7 DEF ScanPast, peer, server, past, Scanning, Current
<1>8. CASE RecvEnd
  BY <1>2, <1>8 DEF RecvEnd, peer, Scanning, Current
<1>9. CASE Uncount
  BY <1>2, <1>9 DEF Uncount, peer, past
<1>10. CASE ScanEnd
  BY <1>2, <1>10 DEF ScanEnd, peer, server, past
<1> QED
  BY <1>3, <1>4, <1>5, <1>6, <1>7, <1>8, <1>9, <1>10

LEMMA ConnectOrder ==
  ASSUME IInv, SetInv, OrderInv, NEW sent \in BOOLEAN, Connect(sent)
  PROVE  OrderInv'
<1>1. SUFFICES ASSUME ~clash', ~skipped'
               PROVE  AppliedFirst' /\ ReadyPrefix' /\ Scanned' /\ Ascending'
  BY DEF OrderInv
<1>2. /\ IInv /\ Connect(sent)
      /\ AppliedFirst /\ ReadyPrefix /\ Scanned /\ Ascending
  BY <1>1 DEF OrderInv, Connect, past
<1>3. /\ made' = made + 1 /\ made \in Nat /\ Accepted <= made /\ Accepted \in Nat
      /\ unread' \subseteq unread \cup {made'}
      /\ UNCHANGED <<fds, wk, applied>>
  BY <1>2, ConnectIs DEF IInv, Types
<1>4. Ascending'
  BY <1>1, <1>2 DEF IInv, Connect, Ascending, Types, server, past
<1>5. AppliedFirst'
  <2>1. \A k \in DOMAIN applied : applied[k] \in Int
    BY <1>2 DEF IInv, Types, Conn
  <2> QED
    BY <1>2, <1>3, <2>1 DEF AppliedFirst
<1>6. ReadyPrefix'
  <2>1. \A c \in wk.ready : c \in Int /\ c <= Accepted
    BY <1>2 DEF IInv, Types, Wks, Conn, OnlyAccepted
  <2> QED
    BY <1>2, <1>3, <2>1 DEF ReadyPrefix
<1>7. Scanned'
  <2>1. \A c \in wk.ready : c \in Int /\ c <= Accepted
    BY <1>2 DEF IInv, Types, Wks, Conn, OnlyAccepted
  <2> QED
    BY <1>2, <1>3, <2>1 DEF Scanned
<1> QED
  BY <1>4, <1>5, <1>6, <1>7

LEMMA AcceptStoreOrder == IInv /\ SetInv /\ OrderInv /\ AcceptStore => OrderInv'
<1>1. SUFFICES ASSUME IInv, SetInv, OrderInv, AcceptStore, ~clash', ~skipped'
               PROVE  AppliedFirst' /\ ReadyPrefix' /\ Scanned' /\ Ascending'
  BY DEF OrderInv
<1>2. /\ ~clash /\ Sorted /\ AddingOK /\ LeavingOK /\ Members
      /\ AppliedFirst /\ ReadyPrefix /\ Scanned /\ Ascending
  BY <1>1 DEF SetInv, OrderInv, AcceptStore
<1>3. AppliedFirst' /\ ReadyPrefix' /\ Ascending'
  BY <1>1, <1>2
     DEF IInv, AcceptStore, AppliedFirst, Types, ReadyPrefix, Wks, Ascending,
         peer, Index
<1>4. Scanned'
  <2>1. unread' = unread
    BY <1>1 DEF AcceptStore, peer
  <2> QED
    BY <1>1, <1>2, <2>1, StoredIs DEF Scanned
<1> QED
  BY <1>3, <1>4

LEMMA AcceptCountOrder == IInv /\ SetInv /\ OrderInv /\ AcceptCount => OrderInv'
<1>1. SUFFICES ASSUME IInv, SetInv, OrderInv, AcceptCount, ~clash', ~skipped'
               PROVE  AppliedFirst' /\ ReadyPrefix' /\ Scanned' /\ Ascending'
  BY DEF OrderInv
<1>2. /\ ~clash /\ Sorted /\ AddingOK /\ LeavingOK /\ Members
      /\ AppliedFirst /\ ReadyPrefix /\ Scanned /\ Ascending
  BY <1>1 DEF SetInv, OrderInv, AcceptCount, past
<1>3. AppliedFirst' /\ ReadyPrefix' /\ Ascending'
  BY <1>1, <1>2
     DEF IInv, AcceptCount, AppliedFirst, Types, ReadyPrefix, Wks, Ascending,
         peer, past, Index
<1>4. Scanned'
  <2>1. /\ fds.count \in 0 .. FdSize - 1 /\ fds'.count = fds.count + 1
        /\ fds'.array = fds.array /\ fds.array[fds.count] \notin wk.ready
        /\ UNCHANGED <<wk, unread>>
    BY <1>1, <1>2 DEF IInv, Types, RoomOK, AcceptCount, AddingOK, peer
  <2>2. \A j \in 0 .. fds'.count - 1 : j \in 0 .. fds.count - 1 \/ j = fds.count
    BY <2>1
  <2> QED
    BY <1>2, <2>1, <2>2 DEF Scanned
<1> QED
  BY <1>3, <1>4

LEMMA SelectOrder == IInv /\ SetInv /\ OrderInv /\ Select => OrderInv'
<1>1. SUFFICES ASSUME IInv, SetInv, OrderInv, Select, ~clash', ~skipped'
               PROVE  AppliedFirst' /\ ReadyPrefix' /\ Scanned' /\ Ascending'
  BY DEF OrderInv
<1>2. /\ ~clash /\ Sorted /\ AddingOK /\ LeavingOK /\ Members
      /\ AppliedFirst /\ ReadyPrefix /\ Scanned /\ Ascending
  BY <1>1 DEF SetInv, OrderInv, Select, past
<1>3. /\ wk'.i = 0 /\ wk'.ready = {c \in Entries : Readable(c)} /\ unread' = unread
  BY <1>1 DEF IInv, Types, Wks, PassStarts, Select, peer
<1>4. AppliedFirst' /\ Ascending'
  BY <1>1, <1>2
     DEF IInv, Select, AppliedFirst, Types, Ascending, peer, server, past,
         Entries, Readable, Index, NoConn, Conn
<1>5. ReadyPrefix'
  <2>1. SUFFICES ASSUME NEW c \in Entries, NEW d \in unread, d < c
                 PROVE  d \in Entries
    BY <1>3 DEF ReadyPrefix, Readable
  <2>2. PICK i \in 0 .. fds.count - 1 : c = fds.array[i]
    BY DEF Entries
  <2>3. c \in Conn /\ c <= Accepted /\ Accepted \in Int
    <3>1. i \in Index
      BY <1>1, <2>2 DEF IInv, Types, Index
    <3> QED
      BY <1>1, <1>2, <2>2, <3>1
         DEF Members, IInv, OnlyAccepted, Types, BacklogIs, Accepted
  <2>4. d \in 1 .. Accepted /\ d \notin closed
    BY <1>1, <2>1, <2>3 DEF IInv, Types, ClosedIsRead, Conn
  <2>5. ~(acc.pc = "count" /\ d = acc.c)
    BY <1>2, <2>1, <2>3, <2>4 DEF AddingOK, Conn
  <2> QED
    BY <1>2, <2>4, <2>5 DEF Members
<1>6. Scanned'
  BY <1>3 DEF Scanned
<1> QED
  BY <1>4, <1>5, <1>6

LEMMA RecvCommandOrder == IInv /\ SetInv /\ OrderInv /\ RecvCommand => OrderInv'
<1>1. SUFFICES ASSUME IInv, SetInv, OrderInv, RecvCommand, ~clash', ~skipped'
               PROVE  AppliedFirst' /\ ReadyPrefix' /\ Scanned' /\ Ascending'
  BY DEF OrderInv
<1>2. /\ ~clash /\ Sorted /\ AddingOK /\ LeavingOK /\ Members
      /\ AppliedFirst /\ ReadyPrefix /\ Scanned /\ Ascending
  BY <1>1 DEF SetInv, OrderInv, RecvCommand
<1>3. /\ wk.i \in 0 .. fds.count - 1 /\ Current = fds.array[wk.i]
      /\ Current \in wk.ready \cap unread /\ Current \in Conn
      /\ unread' = unread \ {Current} /\ applied' = Append(applied, Current)
      /\ made' = made
  BY <1>1 DEF IInv, Types, Wks, RecvCommand, Scanning, Current
<1>4. ASSUME NEW d \in unread, d # Current PROVE Current < d
  <2>1. d \in Conn /\ Current \in Int
    BY <1>1, <1>3 DEF IInv, Types, Conn
  <2>2. SUFFICES ASSUME d < Current PROVE FALSE
    BY <1>4, <2>1 DEF Conn
  <2>3. d \in wk.ready
    BY <1>2, <1>3, <2>2 DEF ReadyPrefix
  <2>4. d \in 1 .. Accepted /\ d \notin closed
    BY <1>1, <2>1, <2>3
       DEF IInv, OnlyAccepted, ClosedIsRead, Conn, Types, BacklogIs, Accepted
  <2>5. ~(acc.pc = "count" /\ d = acc.c)
    BY <1>2, <2>3 DEF AddingOK
  <2>6. PICK j \in 0 .. fds.count - 1 : d = fds.array[j]
    BY <1>2, <2>4, <2>5 DEF Members, Entries
  <2>7. ~(wk.i < j)
    BY <1>2, <1>3, <2>1, <2>2, <2>6 DEF Sorted, Conn
  <2>8. j < wk.i
    BY <1>3, <1>4, <2>6, <2>7
  <2> QED
    BY <1>2, <2>3, <2>6, <2>8 DEF Scanned
<1>5. ReadyPrefix' /\ Scanned'
  BY <1>1, <1>2
     DEF IInv, RecvCommand, ReadyPrefix, Types, Wks, Scanned, server, Scanning,
         Current
<1>6. AppliedFirst'
  <2>1. ASSUME NEW k \in DOMAIN applied'
        PROVE  applied'[k] <= made' /\ \A c \in unread' : applied'[k] < c
    <3>1. CASE k = Len(applied) + 1
      <4>1. applied'[k] = Current
        BY <1>1, <1>3, <3>1 DEF IInv, Types
      <4>2. Current <= made
        BY <1>1, <1>3 DEF IInv, OnlyAccepted
      <4> QED
        BY <1>3, <1>4, <4>1, <4>2
    <3>2. CASE k # Len(applied) + 1
      <4>1. k \in DOMAIN applied /\ applied'[k] = applied[k]
        BY <1>1, <1>3, <2>1, <3>2 DEF IInv, Types
      <4> QED
        BY <1>2, <1>3, <4>1 DEF AppliedFirst
    <3> QED
      BY <3>1, <3>2
  <2> QED
    BY <2>1 DEF AppliedFirst
<1>7. Ascending'
  <2>1. ASSUME NEW j \in DOMAIN applied', NEW k \in DOMAIN applied', j < k
        PROVE  applied'[j] < applied'[k]
    <3>1. j \in DOMAIN applied /\ applied'[j] = applied[j]
      BY <1>1, <1>3, <2>1 DEF IInv, Types
    <3>2. CASE k = Len(applied) + 1
      <4>1. applied'[k] = Current
        BY <1>1, <1>3, <3>2 DEF IInv, Types
      <4> QED
        BY <1>2, <1>3, <3>1, <4>1 DEF AppliedFirst
    <3>3. CASE k # Len(applied) + 1
      <4>1. k \in DOMAIN applied /\ applied'[k] = applied[k]
        BY <1>1, <1>3, <2>1, <3>3 DEF IInv, Types
      <4> QED
        BY <1>2, <2>1, <3>1, <4>1 DEF Ascending
    <3> QED
      BY <3>2, <3>3
  <2> QED
    BY <2>1 DEF Ascending
<1> QED
  BY <1>5, <1>6, <1>7

LEMMA ClearOrder == IInv /\ SetInv /\ OrderInv /\ Clear => OrderInv'
<1>1. SUFFICES ASSUME IInv, SetInv, OrderInv, Clear, ~clash', ~skipped'
               PROVE  AppliedFirst' /\ ReadyPrefix' /\ Scanned' /\ Ascending'
  BY DEF OrderInv
<1>2. /\ ~clash /\ Sorted /\ AddingOK /\ LeavingOK /\ Members
      /\ AppliedFirst /\ ReadyPrefix /\ Scanned /\ Ascending
  BY <1>1 DEF SetInv, OrderInv, Clear
<1>3. AppliedFirst' /\ ReadyPrefix' /\ Ascending'
  BY <1>1, <1>2
     DEF IInv, Clear, AppliedFirst, Types, ReadyPrefix, Wks, Ascending, peer
<1>4. Scanned'
  <2>1. /\ wk.i = fds.count - 1 /\ fds.count \in 1 .. FdSize
        /\ fds'.count = fds.count - 1
        /\ \A j \in 0 .. fds.count - 2 : fds'.array[j] = fds.array[j]
    <3>1. ~(wk.i < fds.count - 1)
      BY <1>1, Zenon DEF Clear
    <3> QED
      BY <1>1, <1>2, <3>1, ClearIs
  <2>2. wk'.ready = wk.ready /\ unread' = unread
    BY <1>1 DEF IInv, Types, Wks, Clear, peer
  <2> QED
    BY <1>2, <2>1, <2>2 DEF Scanned
<1> QED
  BY <1>3, <1>4

-----------------------------------------------------------------------------
LEMMA InitInv == Init => IInv /\ SetInv /\ OrderInv
<1>1. SUFFICES ASSUME Init PROVE IInv /\ SetInv /\ OrderInv
  OBVIOUS
<1>2. Types
  <2>1. <<>> \in Seq(Conn) /\ 0 \in 0 .. MaxConn /\ 0 \in 0 .. FdSize
    OBVIOUS
  <2>2. fds \in [count : 0 .. FdSize, array : [Index -> Conn \cup {NoConn}]]
    BY <1>1 DEF Init, NoConn
  <2>3. acc \in Accs /\ wk \in Wks
    BY <1>1 DEF Init, Accs, Wks, NoConn
  <2>4. /\ made \in 0 .. MaxConn /\ clientNum \in Int
        /\ unread \subseteq Conn /\ finished \subseteq Conn /\ closed \subseteq Conn
        /\ backlog \in Seq(Conn) /\ applied \in Seq(Conn)
    BY <1>1, <2>1 DEF Init
  <2>5. skipped \in BOOLEAN /\ clash \in BOOLEAN /\ miscount \in BOOLEAN
    BY <1>1 DEF Init
  <2> QED
    BY <2>2, <2>3, <2>4, <2>5 DEF Types
<1>3. /\ made = 0 /\ Len(backlog) = 0 /\ fds.count = 0 /\ clientNum = 0
      /\ \A i \in Index : fds.array[i] = 0
      /\ wk.pc = "select" /\ wk.i = 0 /\ wk.ready = {} /\ acc.pc = "test"
      /\ unread = {} /\ closed = {} /\ applied = <<>>
  BY <1>1 DEF Init, NoConn
<1>4. IInv
  BY <1>2, <1>3
     DEF IInv, BacklogIs, OnlyAccepted, Accepted, ClosedIsRead, PassStarts,
         IndexOK, Leaving, RoomOK, CountOK
<1>5. SetInv
  <2>1. Sorted /\ AddingOK /\ LeavingOK
    BY <1>3 DEF Sorted, AddingOK, LeavingOK, Leaving
  <2>2. Members
    <3>1. Accepted = 0
      BY <1>3 DEF Accepted
    <3> QED
      BY <1>3, <3>1 DEF Members
  <2>3. Counted
    BY <1>3, 0 - 0 - 0 = 0 DEF Counted
  <2> QED
    BY <2>1, <2>2, <2>3 DEF SetInv
<1>6. OrderInv
  BY <1>3 DEF OrderInv, AppliedFirst, ReadyPrefix, Scanned, Ascending
<1> QED
  BY <1>4, <1>5, <1>6

LEMMA StutterKeeps ==
  ASSUME IInv, SetInv, OrderInv, UNCHANGED vars
  PROVE  IInv' /\ SetInv' /\ OrderInv'
<1>1. IInv'
  BY DEF IInv, Types, BacklogIs, OnlyAccepted, Accepted, ClosedIsRead,
         PassStarts, IndexOK, Leaving, RoomOK, CountOK, vars
<1>2. SetInv'
  BY DEF SetInv, Sorted, AddingOK, LeavingOK, Leaving, Current, Members,
         Entries, Accepted, Counted, vars
<1>3. OrderInv'
  BY DEF OrderInv, AppliedFirst, ReadyPrefix, Scanned, Ascending, vars
<1> QED
  BY <1>1, <1>2, <1>3

(* The three parts are preserved together. *)
LEMMA StepKeeps ==
  IInv /\ SetInv /\ OrderInv /\ [Next]_vars => IInv' /\ SetInv' /\ OrderInv'
<1>1. SUFFICES ASSUME IInv, SetInv, OrderInv, [Next]_vars
               PROVE  IInv' /\ SetInv' /\ OrderInv'
  OBVIOUS
<1>2. CASE \E sent \in BOOLEAN : Connect(sent)
  BY <1>1, <1>2, ConnectKeeps, ConnectSet, ConnectOrder
<1>3. CASE Finish
  BY <1>1, <1>3, QuietKeeps, QuietSet, QuietOrder
<1>4. CASE Acceptor
  BY <1>1, <1>4, QuietKeeps, QuietSet, QuietOrder,
     AcceptStoreKeeps, AcceptStoreSet, AcceptStoreOrder,
     AcceptCountKeeps, AcceptCountSet, AcceptCountOrder
     DEF Acceptor
<1>5. CASE Worker
  BY <1>1, <1>5, QuietKeeps, QuietSet, QuietOrder,
     SelectKeeps, SelectOrder, ScanPastKeeps,
     RecvCommandKeeps, RecvCommandOrder, RecvEndKeeps, RecvEndSet,
     UncountKeeps, ClearKeeps, ClearSet, ClearOrder
     DEF Worker
<1>6. CASE UNCHANGED vars
  BY <1>1, <1>6, StutterKeeps
<1> QED
  BY <1>1, <1>2, <1>3, <1>4, <1>5, <1>6 DEF Next

LEMMA Inductive == Spec => [](IInv /\ SetInv /\ OrderInv)
  BY InitInv, StepKeeps, PTL DEF Spec

-----------------------------------------------------------------------------
(* No index leaves the arrays of the set, and clientNum stays in its range *)
(* unless the two threads count at the same time, for every FD_SETSIZE.    *)
THEOREM TypeCorrect == Spec => []TypeOK
<1>1. IInv => TypeOK
  <2>1. SUFFICES ASSUME IInv
                 PROVE  clientNum \in IF miscount THEN Int ELSE -1 .. FdSize
    BY DEF IInv, Types, Accs, Wks, TypeOK
  <2>2. CASE ~miscount
    <3>1. clientNum \in Int /\ fds.count \in 0 .. FdSize
      BY <2>1 DEF IInv, Types
    <3>2. wk.pc = "clear" => fds.count > 0
      BY <2>1, <3>1 DEF IInv, IndexOK, Leaving, Types, Wks
    <3> QED
      BY <2>1, <2>2, <3>1, <3>2 DEF IInv, CountOK
  <2> QED
    BY <2>1, <2>2 DEF IInv, Types
<1> QED
  BY <1>1, Inductive, PTL

(* An ascending array of n connections holds n of them. *)
LEMMA SortedCounts ==
  ASSUME IInv, Sorted, Members
  PROVE  Cardinality(Entries) = fds.count
<1> DEFINE D == 0 .. fds.count - 1
           f == [i \in D |-> fds.array[i]]
<1>1. fds.count \in Nat
  BY DEF IInv, Types
<1>2. IsFiniteSet(D) /\ Cardinality(D) = fds.count
  <2> DEFINE last == fds.count - 1
  <2>1. 0 \in Int /\ last \in Int
    BY <1>1
  <2> HIDE DEF last
  <2>2. /\ IsFiniteSet(0 .. last)
        /\ Cardinality(0 .. last) = IF 0 > last THEN 0 ELSE last - 0 + 1
    BY <2>1, FS_Interval, Zenon
  <2> QED
    BY <1>1, <2>2 DEF last
<1>3. f \in Surjection(D, Entries)
  <2>1. Entries = {f[i] : i \in D}
    BY DEF Entries
  <2>2. f \in [D -> Entries]
    BY DEF Entries
  <2>3. \A c \in Entries : \E i \in D : f[i] = c
    BY <2>1
  <2> HIDE DEF f, D
  <2> QED
    BY <2>2, <2>3 DEF Surjection
<1>4. f \in Injection(D, Entries)
  <2>1. ASSUME NEW i \in D, NEW j \in D, f[i] = f[j] PROVE i = j
    <3>1. fds.array[i] \in Int /\ fds.array[j] \in Int
      BY DEF Members, Conn
    <3>2. ~(i < j) /\ ~(j < i)
      BY <2>1, <3>1 DEF Sorted
    <3> QED
      BY <1>1, <3>2
  <2>2. f \in [D -> Entries]
    BY DEF Entries
  <2> QED
    BY <2>1, <2>2 DEF Injection, IsInjective
<1> HIDE DEF D, f
<1> QED
  BY <1>2, <1>3, <1>4, FS_Surjection

LEMMA SetInvMatches == IInv /\ SetInv => SetMatches
<1>1. SUFFICES ASSUME IInv, SetInv, ~clash PROVE SetMatches
  BY DEF SetMatches
<1>2. Sorted /\ AddingOK /\ LeavingOK /\ Members /\ Counted
  BY <1>1 DEF SetInv
<1> DEFINE accepted == 1 .. made \ {backlog[k] : k \in DOMAIN backlog}
           adding   == IF acc.pc = "count" THEN {acc.c} ELSE {}
           leaving  == IF wk.pc \in {"store", "clear"} THEN {Current} ELSE {}
<1>3. accepted = 1 .. Accepted
  <2>1. made \in Nat /\ Len(backlog) \in 0 .. made /\ DOMAIN backlog = 1 .. Len(backlog)
    BY <1>1 DEF IInv, Types, BacklogIs
  <2>2. \A k \in DOMAIN backlog : backlog[k] = made - Len(backlog) + k
    BY <1>1, <2>1 DEF IInv, BacklogIs, Accepted
  <2>3. ASSUME NEW c \in 1 .. made, c > made - Len(backlog)
        PROVE  \E k \in DOMAIN backlog : backlog[k] = c
    <3> DEFINE k == c - (made - Len(backlog))
    <3>1. k \in DOMAIN backlog
      BY <2>1, <2>3
    <3>2. backlog[k] = made - Len(backlog) + k
      BY <2>2, <3>1
    <3>3. backlog[k] = c
      BY <2>1, <3>2
    <3> QED
      BY <3>1, <3>3
  <2>4. ASSUME NEW c \in 1 .. made, NEW k \in DOMAIN backlog, c = backlog[k]
        PROVE  c > made - Len(backlog)
    BY <2>1, <2>2, <2>4
  <2> QED
    BY <2>1, <2>3, <2>4 DEF Accepted
<1>4. Entries = ((accepted \ closed) \ adding) \cup leaving
  <2>1. ASSUME NEW c \in Entries
        PROVE  c \in ((accepted \ closed) \ adding) \cup leaving
    <3>1. PICK i \in 0 .. fds.count - 1 : c = fds.array[i]
      BY <2>1 DEF Entries
    <3>2. i \in Index
      BY <1>1, <3>1 DEF IInv, Types, Index
    <3>3. c \in 1 .. Accepted
      BY <1>1, <1>2, <3>1, <3>2
         DEF Members, IInv, OnlyAccepted, Types, Conn, BacklogIs, Accepted
    <3>4. c \notin adding
      BY <1>2, <3>1, <3>3 DEF AddingOK
    <3>5. c \in closed => c \in leaving
      BY <1>2, <3>1 DEF Members, Leaving, Current
    <3> QED
      BY <1>3, <3>3, <3>4, <3>5
  <2>2. ASSUME NEW c \in ((accepted \ closed) \ adding) PROVE c \in Entries
    BY <1>2, <1>3 DEF Members
  <2>3. ASSUME NEW c \in leaving PROVE c \in Entries
    <3>1. Leaving /\ c = fds.array[wk.i]
      BY <2>3 DEF Leaving, Current
    <3>2. wk.i \in 0 .. fds.count - 1
      BY <1>1, <3>1 DEF IInv, IndexOK, Types, Wks
    <3> QED
      BY <3>1, <3>2 DEF Entries
  <2> QED
    BY <2>1, <2>2, <2>3
<1>5. Cardinality(Entries) = fds.count
  BY <1>1, <1>2, SortedCounts
<1> QED
  BY <1>2, <1>4, <1>5 DEF SetMatches, Counted

(* For every FD_SETSIZE: until an FD_SET and an FD_CLR meet, the set holds *)
(* exactly the accepted connections that are not closed, each once, and    *)
(* clientNum counts them unless both threads count at once.                *)
THEOREM SetIsExact == Spec => []SetMatches
  BY SetInvMatches, Inductive, PTL

(* A set that holds a closed socket when select is called, which makes     *)
(* every later select fail, comes of an FD_CLR in the middle of an FD_SET. *)
THEOREM DeafHasCause == Spec => []DeafOnlyAfterClash
<1>1. SetInv => DeafOnlyAfterClash
  BY DEF SetInv, Members, Leaving, Entries, DeafOnlyAfterClash
<1> QED
  BY <1>1, Inductive, PTL

(* The teacher's commands are obeyed in their order until an FD_CLR moves  *)
(* an entry under the index of the pass.                                   *)
THEOREM ObeyedInOrder == Spec => []InOrderUnlessSkipped
<1>1. OrderInv => InOrderUnlessSkipped
  BY DEF OrderInv, Ascending, InOrderUnlessSkipped
<1> QED
  BY <1>1, Inductive, PTL

=============================================================================
