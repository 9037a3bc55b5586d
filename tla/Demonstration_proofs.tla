-------------------------- MODULE Demonstration_proofs --------------------------
(***************************************************************************)
(* Proofs about the demonstration, for every number of clicks and every    *)
(* FD_SETSIZE: of the button alone (DemoToggle), and of the way from the   *)
(* button to AVCapture's flag (Demonstration).                             *)
(*                                                                         *)
(* LatestDecides speaks of the moment when everybody rests.  What leads    *)
(* there is said of the newest request only: m_bstart is what it asked     *)
(* for; once it has been answered with success it is the newest served;    *)
(* and once its loop has returned, the button and the last command follow  *)
(* m_bstart, because every loop that returns later reads m_bstart too.     *)
(*                                                                         *)
(* Demonstration adds nothing to the behaviours of its parts: seen from    *)
(* the button it is DemoToggle, seen from the connections it is            *)
(* ControlChannel.  So what was proved of either holds in it, and only the *)
(* commands and the flag, which join the two, need an invariant (Sent).    *)
(***************************************************************************)
EXTENDS Demonstration, TLAPS

-----------------------------------------------------------------------------
(* The button. *)
InLoops(r) == \E k \in DOMAIN loops : loops[k] = r

(* No request is ahead of the clicks. *)
Made ==
  /\ newest <= clicks
  /\ \A r \in inflight : r <= clicks
  /\ \A k \in DOMAIN loops : loops[k] <= clicks

(* The newest request asks for what m_bstart says.                          *)
AsksToggle == clicks > 0 => onOff[clicks] = m_bstart

(* A loop that has returned had an answer. *)
ReturnedAnswered == clicks > 0 /\ ~InLoops(clicks) => answer[clicks] # "none"

(* Success of the newest request means that the service served it.          *)
SuccessServed == clicks > 0 /\ answer[clicks] = "success" => newest = clicks

(* Served in order, the service holds what the newest served asked for.     *)
ShownNewest == newest > 0 /\ ~reordered => shown = onOff[newest]

(* Behind the loop of a newest request that succeeded, button and command  *)
(* follow the toggle.                                                       *)
Followed ==
  clicks > 0 /\ ~InLoops(clicks) /\ answer[clicks] = "success"
    => text = m_bstart /\ av = m_bstart

ButtonInv ==
  TypeOK /\ Made /\ AsksToggle /\ ReturnedAnswered /\ SuccessServed
  /\ ShownNewest /\ Followed

-----------------------------------------------------------------------------
LEMMA InitButton == Init => ButtonInv
<1>1. SUFFICES ASSUME Init PROVE ButtonInv
  OBVIOUS
<1>2. TypeOK
  <2>1. loops \in Seq(Request)
    BY <1>1 DEF Init
  <2>2. clicks \in 0 .. MaxClicks /\ newest \in 0 .. MaxClicks
    BY <1>1, MaxClicksAssumption DEF Init
  <2> QED
    BY <1>1, <2>1, <2>2, Zenon DEF Init, TypeOK
<1>3. Made
  BY <1>1 DEF Init, Made
<1> QED
  BY <1>1, <1>2, <1>3
     DEF Init, ButtonInv, AsksToggle, ReturnedAnswered, SuccessServed, ShownNewest,
         Followed

LEMMA ButtonTypes == TypeOK /\ [Next]_vars => TypeOK'
<1>1. SUFFICES ASSUME TypeOK, [Next]_vars PROVE TypeOK'
  OBVIOUS
<1> USE MaxClicksAssumption
<1>2. CASE Click
  <2>1. clicks + 1 \in Request /\ m_bstart' \in BOOLEAN
    BY <1>1, <1>2 DEF Click, TypeOK, Request
  <2>2. loops' \in Seq(Request)
    BY <1>1, <1>2, <2>1 DEF Click, Post, TypeOK
  <2> QED
    BY <1>1, <1>2, <2>1, <2>2 DEF Click, Post, TypeOK, Request, service
<1>3. CASE Return
  <2>1. Len(loops) \in Nat \ {0}
    BY <1>1, <1>3 DEF Return, TypeOK
  <2>2. loops' \in Seq(Request)
    BY <1>1, <1>3, <2>1 DEF Return, TypeOK
  <2> QED
    BY <1>1, <1>3, <2>2 DEF Return, TypeOK, service
<1>4. CASE \E r \in Request : Serve(r)
  BY <1>1, <1>4 DEF Serve, Answered, TypeOK, button, Request
<1>5. CASE \E r \in Request : Refuse(r)
  BY <1>1, <1>5 DEF Refuse, Answered, TypeOK, button, service
<1>6. CASE \E r \in Request : Timeout(r)
  BY <1>1, <1>6 DEF Timeout, TypeOK, button, service
<1>7. CASE UNCHANGED vars
  BY <1>1, <1>7 DEF TypeOK, vars
<1> QED
  BY <1>1, <1>2, <1>3, <1>4, <1>5, <1>6, <1>7 DEF Next

(* A click makes a request that is newer than all others. *)
LEMMA ClickKeeps == ButtonInv /\ Click => ButtonInv'
<1>1. SUFFICES ASSUME ButtonInv, Click PROVE ButtonInv'
  OBVIOUS
<1> USE MaxClicksAssumption
<1>2. TypeOK'
  BY <1>1, ButtonTypes DEF ButtonInv, Next
<1>3. /\ clicks \in Nat /\ clicks' = clicks + 1 /\ clicks' \in Request
      /\ loops \in Seq(Request) /\ loops' = Append(loops, clicks')
      /\ onOff' = [onOff EXCEPT ![clicks'] = m_bstart']
      /\ answer' = [answer EXCEPT ![clicks'] = "none"]
      /\ inflight' = inflight \cup {clicks'}
      /\ UNCHANGED <<text, av, shown, newest, reordered>>
      /\ newest \in Nat
  BY <1>1 DEF ButtonInv, TypeOK, Click, Post, service, Request
<1>4. InLoops(clicks)'
  <2>1. Len(loops) + 1 \in DOMAIN loops' /\ loops'[Len(loops) + 1] = clicks'
    BY <1>3
  <2> QED
    BY <2>1 DEF InLoops
<1>5. answer'[clicks'] = "none" /\ onOff'[clicks'] = m_bstart'
  BY <1>1, <1>3 DEF ButtonInv, TypeOK
<1>6. Made'
  <2>1. newest' <= clicks'
    BY <1>1, <1>3 DEF ButtonInv, Made
  <2>2. \A r \in inflight' : r <= clicks'
    BY <1>1, <1>3 DEF ButtonInv, Made, TypeOK, Request
  <2>3. ASSUME NEW k \in DOMAIN loops' PROVE loops'[k] <= clicks'
    <3>1. CASE k = Len(loops) + 1
      BY <1>3, <3>1
    <3>2. CASE k # Len(loops) + 1
      <4>1. k \in DOMAIN loops /\ loops'[k] = loops[k] /\ loops[k] \in Request
        BY <1>3, <2>3, <3>2
      <4> QED
        BY <1>1, <1>3, <4>1 DEF ButtonInv, Made, Request
    <3> QED
      BY <3>1, <3>2
  <2> QED
    BY <2>1, <2>2, <2>3 DEF Made
<1>7. ShownNewest'
  <2>1. newest # clicks' /\ (newest > 0 => newest \in Request)
    BY <1>1, <1>3 DEF ButtonInv, Made, TypeOK, Request
  <2>2. newest > 0 => onOff'[newest] = onOff[newest]
    BY <1>1, <1>3, <2>1 DEF ButtonInv, TypeOK
  <2> QED
    BY <1>1, <1>3, <2>2 DEF ButtonInv, ShownNewest
<1> QED
  BY <1>2, <1>4, <1>5, <1>6, <1>7
     DEF ButtonInv, AsksToggle, ReturnedAnswered, SuccessServed, Followed

(* The innermost loop returns. *)
LEMMA ReturnKeeps == ButtonInv /\ Return => ButtonInv'
<1>1. SUFFICES ASSUME ButtonInv, Return PROVE ButtonInv'
  OBVIOUS
<1> DEFINE top == loops[Len(loops)]
<1>2. TypeOK'
  BY <1>1, ButtonTypes DEF ButtonInv, Next
<1>3. /\ loops \in Seq(Request) /\ Len(loops) \in Nat \ {0}
      /\ loops' = SubSeq(loops, 1, Len(loops) - 1)
      /\ answer[top] # "none"
      /\ UNCHANGED <<clicks, m_bstart, onOff, answer, inflight,
                     shown, newest, reordered>>
  BY <1>1 DEF ButtonInv, TypeOK, Return, service
<1>4. /\ answer[top] = "success" => text' = m_bstart /\ av' = m_bstart
      /\ answer[top] # "success" => UNCHANGED <<text, av>>
  BY <1>1 DEF Return, Succeeded
<1>5. \A k \in DOMAIN loops' : k \in DOMAIN loops /\ loops'[k] = loops[k]
  BY <1>3
<1>6. \A r : InLoops(r) => InLoops(r)' \/ r = top
  <2>1. SUFFICES ASSUME NEW k \in DOMAIN loops, k # Len(loops)
                 PROVE  k \in DOMAIN loops' /\ loops'[k] = loops[k]
    BY DEF InLoops
  <2> QED
    BY <1>3, <2>1
<1>7. Made'
  BY <1>1, <1>3, <1>5 DEF ButtonInv, Made
<1>8. ReturnedAnswered'
  BY <1>1, <1>3, <1>6 DEF ButtonInv, ReturnedAnswered
<1>9. Followed'
  BY <1>1, <1>3, <1>4, <1>6 DEF ButtonInv, Followed
<1> QED
  BY <1>1, <1>2, <1>3, <1>7, <1>8, <1>9
     DEF ButtonInv, AsksToggle, SuccessServed, ShownNewest

(* The service serves, refuses or loses a request, or its timer fires.     *)
LEMMA AnswerKeeps ==
  ASSUME ButtonInv, NEW r \in Request, Serve(r) \/ Refuse(r) \/ Timeout(r)
  PROVE  ButtonInv'
<1> USE MaxClicksAssumption
<1>1. TypeOK'
  BY ButtonTypes DEF ButtonInv, Next
<1>2. /\ UNCHANGED <<clicks, m_bstart, text, av, onOff, loops>>
      /\ inflight' \subseteq inflight
  BY DEF Serve, Refuse, Timeout, button, service
<1>3. \A s : InLoops(s)' <=> InLoops(s)
  BY <1>2 DEF InLoops
<1>4. /\ clicks \in Nat /\ newest \in Nat
      /\ clicks > 0 => clicks \in Request
      /\ newest > 0 => newest \in Request
  BY DEF ButtonInv, TypeOK, Request
<1>5. CASE Serve(r)
  <2>1. /\ newest' = IF r > newest THEN r ELSE newest
        /\ shown' = onOff[r]
        /\ r <= clicks
    BY <1>5 DEF ButtonInv, Made, Serve
  <2>2. newest' <= clicks /\ (newest = clicks => newest' = clicks)
        /\ (r = clicks => newest' = clicks)
    BY <1>4, <2>1 DEF ButtonInv, Made, Request
  <2>3. \A s \in Request : answer'[s] = answer[s]
                            \/ (s = r /\ answer[s] = "none" /\ answer'[s] # "none")
    BY <1>5 DEF ButtonInv, TypeOK, Serve, Answered
  <2>4. Made'
    BY <1>2, <2>2 DEF ButtonInv, Made
  <2>5. ReturnedAnswered'
    BY <1>2, <1>3, <1>4, <2>3 DEF ButtonInv, ReturnedAnswered
  <2>6. SuccessServed'
    BY <1>2, <1>4, <2>2, <2>3 DEF ButtonInv, SuccessServed
  <2>7. ShownNewest'
    <3>1. SUFFICES ASSUME ~reordered' PROVE shown' = onOff'[newest']
      BY DEF ShownNewest
    <3>2. ~(r < newest)
      BY <1>5, <3>1, Zenon DEF Serve
    <3>3. newest' = r
      BY <1>4, <2>1, <3>2 DEF Request
    <3> QED
      BY <1>2, <2>1, <3>3
  <2>8. Followed'
    BY <1>2, <1>3, <1>4, <2>3 DEF ButtonInv, Followed, ReturnedAnswered
  <2> QED
    BY <1>1, <1>2, <2>4, <2>5, <2>6, <2>7, <2>8 DEF ButtonInv, AsksToggle
<1>6. CASE Refuse(r) \/ Timeout(r)
  <2>1. UNCHANGED <<shown, newest, reordered>>
    BY <1>6 DEF Refuse, Timeout, service
  <2>2. \A s \in Request : answer'[s] = answer[s]
                            \/ (answer'[s] # "none" /\ answer'[s] # "success")
    BY <1>6 DEF ButtonInv, TypeOK, Refuse, Timeout, Answered
  <2>3. ReturnedAnswered' /\ SuccessServed'
    BY <1>2, <1>3, <1>4, <2>1, <2>2 DEF ButtonInv, ReturnedAnswered, SuccessServed
  <2>4. Followed'
    BY <1>2, <1>3, <1>4, <2>2 DEF ButtonInv, Followed
  <2> QED
    BY <1>1, <1>2, <2>1, <2>3, <2>4 DEF ButtonInv, Made, AsksToggle, ShownNewest
<1> QED
  BY <1>5, <1>6

LEMMA ButtonStep == ButtonInv /\ [Next]_vars => ButtonInv'
<1>1. SUFFICES ASSUME ButtonInv, [Next]_vars PROVE ButtonInv'
  OBVIOUS
<1>2. CASE Click
  BY <1>1, <1>2, ClickKeeps
<1>3. CASE Return
  BY <1>1, <1>3, ReturnKeeps
<1>4. CASE \E r \in Request : Serve(r) \/ Refuse(r) \/ Timeout(r)
  BY <1>1, <1>4, AnswerKeeps
<1>5. CASE UNCHANGED vars
  BY <1>1, <1>5
     DEF ButtonInv, TypeOK, Made, AsksToggle, ReturnedAnswered, SuccessServed,
         ShownNewest, Followed, InLoops, vars
<1> QED
  BY <1>1, <1>2, <1>3, <1>4, <1>5 DEF Next

-----------------------------------------------------------------------------
(* The button's program keeps its types, however often it is clicked.      *)
THEOREM TypeCorrect == Spec => []TypeOK
<1>1. Init => TypeOK
  BY InitButton DEF ButtonInv
<1> QED
  BY <1>1, ButtonTypes, PTL DEF Spec

LEMMA ButtonDecides == ButtonInv => LatestDecides
<1>1. SUFFICES ASSUME ButtonInv, clicks > 0, loops = <<>>, inflight = {},
                      answer[clicks] = "success", ~reordered
               PROVE  m_bstart = text /\ av = text /\ shown = text
  BY DEF LatestDecides
<1>2. ~InLoops(clicks)
  BY <1>1 DEF InLoops
<1>3. text = m_bstart /\ av = m_bstart
  BY <1>1, <1>2 DEF ButtonInv, Followed
<1>4. newest = clicks /\ shown = onOff[clicks] /\ onOff[clicks] = m_bstart
  BY <1>1 DEF ButtonInv, SuccessServed, ShownNewest, AsksToggle
<1> QED
  BY <1>3, <1>4

(* Once everybody rests, a newest request that succeeded, and was not      *)
(* served before an older one, has decided: toggle, button, last command   *)
(* and service agree.                                                      *)
THEOREM NewestDecides == Spec => []LatestDecides
  BY ButtonDecides, InitButton, ButtonStep, PTL DEF Spec

-----------------------------------------------------------------------------
(* The parts in the whole. *)
Server == INSTANCE ControlChannel_proofs WITH MaxConn <- MaxClicks

(* A step of the whole is one of the button's, or leaves it as it was. *)
LEMMA StepOfButton == [NextAll]_varsAll => [Next]_vars
  <1> SUFFICES ASSUME [NextAll]_varsAll PROVE [Next]_vars
    OBVIOUS
  <1>1. CASE ClickFree \/ TimeoutFree \/ Service \/ ReturnSending
    BY <1>1 DEF ClickFree, TimeoutFree, Service, ReturnSending, Next
  <1>2. CASE Finish \/ Capture \/ UNCHANGED varsAll
    BY <1>2 DEF Finish, Capture, varsAll, vars
  <1> QED BY <1>1, <1>2 DEF NextAll

(* ... and one of the connections', or leaves them as they were. *)
LEMMA StepOfServer == [NextAll]_varsAll => [Server!Next]_(Server!vars)
  <1> SUFFICES ASSUME [NextAll]_varsAll PROVE [Server!Next]_(Server!vars)
    OBVIOUS
  <1> USE DEF channel, Server!vars
  <1>1. CASE ClickFree \/ TimeoutFree \/ Service \/ UNCHANGED varsAll
    BY <1>1 DEF ClickFree, TimeoutFree, Service, varsAll
  <1>2. CASE ReturnSending
    <2>1. ASSUME NEW sent \in BOOLEAN, Channel!Connect(sent) PROVE Server!Next
      <3>1. Server!Connect(sent)
        BY <2>1 DEF Channel!Connect, Server!Connect, Channel!server, Server!server,
                    Channel!past, Server!past
      <3> QED BY <3>1 DEF Server!Next
    <2> QED BY <1>2, <2>1 DEF ReturnSending, Send, Unsent
  <1>3. CASE Finish
    BY <1>3 DEF Finish, Channel!Finish, Server!Finish, Server!Next,
                Channel!server, Server!server, Channel!past, Server!past
  <1>4. CASE Capture
    <2> USE DEF Channel!peer, Server!peer, Channel!server, Server!server,
                Channel!past, Server!past
    <2>1. Channel!Acceptor => Server!Acceptor
      BY DEF Channel!Acceptor, Channel!AcceptTest, Channel!AcceptStore,
             Channel!AcceptCount, Channel!AcceptNumber, Channel!AcceptNumbered,
             Server!Acceptor, Server!AcceptTest, Server!AcceptStore,
             Server!AcceptCount, Server!AcceptNumber, Server!AcceptNumbered,
             Channel!NoConn, Server!NoConn
    <2>2. Channel!Worker => Server!Worker
      BY DEF Channel!Worker, Channel!Select, Channel!ScanPast, Channel!RecvCommand,
             Channel!RecvEnd, Channel!Uncount, Channel!Clear, Channel!ScanEnd,
             Channel!Scanning, Channel!Current, Channel!Entries, Channel!Readable,
             Channel!FD_CLR, Channel!Index,
             Server!Worker, Server!Select, Server!ScanPast, Server!RecvCommand,
             Server!RecvEnd, Server!Uncount, Server!Clear, Server!ScanEnd,
             Server!Scanning, Server!Current, Server!Entries, Server!Readable,
             Server!FD_CLR, Server!Index
    <2> QED BY <1>4, <2>1, <2>2 DEF Capture, Server!Next
  <1> QED BY <1>1, <1>2, <1>3, <1>4 DEF NextAll

LEMMA InitOfServer == InitAll => Server!Init
  BY DEF InitAll, Channel!Init, Server!Init, Channel!Index, Server!Index,
         Channel!NoConn, Server!NoConn

(* The demonstration implements its parts: it is the button of DemoToggle,  *)
(* pressed at moments of its own, and the two threads of ControlChannel,    *)
(* with connections made by answered requests only.                         *)
THEOREM PartsAreImplemented == SpecAll => Spec /\ Server!Spec
  <1>1. InitAll => Init
    BY DEF InitAll
  <1>2. SpecAll => Spec
    BY <1>1, StepOfButton, PTL DEF SpecAll, Spec
  <1>3. SpecAll => Server!Spec
    BY InitOfServer, StepOfServer, PTL DEF SpecAll, Server!Spec
  <1> QED BY <1>2, <1>3

(* So it keeps what was proved of them. *)
LEMMA PartsHold ==
  SpecAll => [](ButtonInv /\ Server!IInv /\ Server!InOrderUnlessSkipped)
  <1>1. Spec => []ButtonInv
    BY InitButton, ButtonStep, PTL DEF Spec
  <1>2. Server!Spec => [](Server!IInv /\ Server!SetInv /\ Server!OrderInv)
    BY Server!Inductive, MaxClicksAssumption, FdSizeAssumption
  <1>3. Server!Spec => []Server!InOrderUnlessSkipped
    BY Server!ObeyedInOrder, MaxClicksAssumption, FdSizeAssumption
  <1> QED BY PartsAreImplemented, <1>1, <1>2, <1>3, PTL

-----------------------------------------------------------------------------
(* What joins the two: av is the last command sent, and AVCapture's flag    *)
(* the last command obeyed; unless one was not sent, every connection's     *)
(* command is obeyed or still to be read.                                   *)
CommandIsAv == ~lost => av = IF made = 0 THEN FALSE ELSE command[made]

Obeys(c) == \E k \in DOMAIN applied : applied[k] = c

FlagIsObeyed ==
  g_bAVCatpure = IF applied = <<>> THEN TRUE ELSE command[Last(applied)]

NoneDropped == ~lost => \A c \in 1 .. made : c \in unread \/ Obeys(c)

ObeyedIsMade == applied \in Seq(1 .. made)

Sent ==
  /\ made \in 0 .. MaxClicks
  /\ command \in [1 .. MaxClicks -> BOOLEAN]
  /\ lost \in BOOLEAN /\ g_bAVCatpure \in BOOLEAN
  /\ CommandIsAv /\ ObeyedIsMade /\ FlagIsObeyed /\ NoneDropped

LEMMA InitSent == InitAll => Sent
  <1> SUFFICES ASSUME InitAll PROVE Sent
    OBVIOUS
  <1>1. /\ made = 0 /\ applied = <<>> /\ lost = FALSE /\ g_bAVCatpure = TRUE
        /\ av = FALSE
        /\ command = [c \in 1 .. MaxClicks |-> FALSE]
    BY DEF InitAll, Init, Channel!Init, Channel!Conn
  <1>2. ObeyedIsMade
    BY <1>1 DEF ObeyedIsMade
  <1>3. CommandIsAv /\ FlagIsObeyed
    BY <1>1 DEF CommandIsAv, FlagIsObeyed
  <1>4. NoneDropped
    BY <1>1 DEF NoneDropped
  <1>5. made \in 0 .. MaxClicks /\ command \in [1 .. MaxClicks -> BOOLEAN]
    BY <1>1, MaxClicksAssumption
  <1>6. lost \in BOOLEAN /\ g_bAVCatpure \in BOOLEAN
    BY <1>1
  <1> QED BY <1>2, <1>3, <1>4, <1>5, <1>6 DEF Sent

(* A command goes to a connection that nobody has obeyed, and is what av is *)
(* set to.                                                                  *)
LEMMA SendKeeps ==
  ASSUME ButtonInv, Sent, ReturnSending
  PROVE  Sent'
  <1>1. /\ UNCHANGED <<applied, g_bAVCatpure, m_bstart>>
        /\ m_bstart \in BOOLEAN /\ av \in BOOLEAN
    BY DEF ReturnSending, Send, Unsent, Channel!Connect, Channel!past, channel,
           Return, ButtonInv, TypeOK
  <1>2. CASE ~Succeeded(Last(loops))
    <2>1. UNCHANGED <<channel, command, lost, av>>
      BY <1>2 DEF ReturnSending, Return, Succeeded, Last
    <2> QED BY <1>1, <2>1 DEF Sent, CommandIsAv, FlagIsObeyed, NoneDropped, Obeys,
                              ObeyedIsMade, channel
  <1>3. CASE Succeeded(Last(loops))
    <2>1. av' = m_bstart
      BY <1>3 DEF ReturnSending, Return, Succeeded, Last
    <2>2. CASE Unsent
      <3>1. UNCHANGED <<made, unread, command>> /\ lost' = TRUE
        BY <2>2 DEF Unsent, channel
      <3> QED BY <1>1, <3>1 DEF Sent, CommandIsAv, FlagIsObeyed, NoneDropped,
                                ObeyedIsMade
    <2>3. ASSUME NEW sent \in BOOLEAN, Send(sent) PROVE Sent'
      <3>1. /\ made < MaxClicks /\ made' = made + 1
            /\ unread' = IF sent THEN unread \cup {made + 1} ELSE unread
            /\ command' = [command EXCEPT ![made + 1] = m_bstart]
            /\ lost' = (lost \/ ~sent)
        BY <2>3 DEF Send, Channel!Connect
      <3>2. made' \in 0 .. MaxClicks /\ made' \in 1 .. MaxClicks
            /\ command' \in [1 .. MaxClicks -> BOOLEAN] /\ lost' \in BOOLEAN
        BY <1>1, <3>1, MaxClicksAssumption DEF Sent
      <3>3. CommandIsAv'
        <4>1. command'[made'] = m_bstart /\ made' # 0
          BY <3>1, <3>2, MaxClicksAssumption DEF Sent
        <4>2. av' = command'[made']
          BY <2>1, <4>1
        <4>3. (IF made' = 0 THEN FALSE ELSE command'[made']) = command'[made']
          BY <4>1
        <4> QED BY <4>2, <4>3, Zenon DEF CommandIsAv
      <3>4. ObeyedIsMade'
        <4>1. applied \in Seq(1 .. made)
          BY DEF Sent, ObeyedIsMade
        <4>2. \A k \in 1 .. Len(applied) : applied[k] \in 1 .. made'
          BY <3>1, <4>1, MaxClicksAssumption DEF Sent
        <4>3. applied \in Seq(1 .. made')
          <5> DEFINE S == 1 .. made'
          <5>1. Len(applied) \in Nat /\ applied \in [1 .. Len(applied) -> S]
            BY <4>1, <4>2
          <5> HIDE DEF S
          <5>2. applied \in Seq(S)
            BY <5>1
          <5> QED BY <5>2 DEF S
        <4> QED BY <1>1, <4>3 DEF ObeyedIsMade
      <3>5. FlagIsObeyed'
        <4>1. ASSUME applied # <<>> PROVE command'[Last(applied)] = command[Last(applied)]
          <5>1. Last(applied) \in 1 .. made
            BY <4>1 DEF Sent, ObeyedIsMade, Last
          <5> QED BY <3>1, <5>1, MaxClicksAssumption DEF Sent
        <4> QED BY <1>1, <4>1 DEF Sent, FlagIsObeyed
      <3>6. NoneDropped'
        <4> SUFFICES ASSUME ~lost', NEW c \in 1 .. made'
                     PROVE  c \in unread' \/ Obeys(c)'
          BY DEF NoneDropped
        <4>1. sent /\ ~lost
          BY <3>1
        <4>2. CASE c = made + 1
          BY <3>1, <4>1, <4>2
        <4>3. CASE c \in 1 .. made
          BY <1>1, <3>1, <4>1, <4>3 DEF Sent, NoneDropped, Obeys
        <4> QED BY <3>1, <4>2, <4>3, MaxClicksAssumption DEF Sent
      <3>7. g_bAVCatpure' \in BOOLEAN
        BY <1>1 DEF Sent
      <3> QED BY <3>2, <3>3, <3>4, <3>5, <3>6, <3>7 DEF Sent
    <2> QED BY <1>3, <2>2, <2>3 DEF ReturnSending
  <1> QED BY <1>2, <1>3

(* A command that is read becomes the flag. *)
LEMMA CaptureKeeps ==
  ASSUME Server!IInv, Sent, Capture
  PROVE  Sent'
  <1>1. /\ UNCHANGED <<made, command, lost, av>>
        /\ g_bAVCatpure' = IF applied' = applied THEN g_bAVCatpure
                                                ELSE command[Last(applied')]
    BY DEF Capture, vars, Channel!Acceptor, Channel!AcceptTest, Channel!AcceptStore,
           Channel!AcceptCount, Channel!AcceptNumber, Channel!AcceptNumbered,
           Channel!Worker, Channel!Select, Channel!ScanPast, Channel!RecvCommand,
           Channel!RecvEnd, Channel!Uncount, Channel!Clear, Channel!ScanEnd,
           Channel!peer
  <1>2. CommandIsAv'
    BY <1>1 DEF Sent, CommandIsAv
  <1>3. CASE UNCHANGED <<applied, unread>>
    <2>1. FlagIsObeyed' /\ NoneDropped' /\ ObeyedIsMade' /\ g_bAVCatpure' \in BOOLEAN
      BY <1>1, <1>3 DEF Sent, FlagIsObeyed, NoneDropped, ObeyedIsMade, Obeys
    <2> QED BY <1>1, <1>2, <2>1 DEF Sent
  <1>4. CASE Channel!RecvCommand
    <2> DEFINE c == Channel!Current
    <2>1. /\ c \in unread /\ unread' = unread \ {c}
          /\ applied' = Append(applied, c)
      BY <1>4 DEF Channel!RecvCommand
    <2>2. c \in 1 .. made /\ made \in Nat
      <3>1. c \in 1 .. MaxClicks /\ c <= made
        BY <2>1 DEF Server!IInv, Server!Types, Server!OnlyAccepted, Server!Conn
      <3> QED BY <3>1, MaxClicksAssumption DEF Sent
    <2> HIDE DEF c
    <2>3. applied \in Seq(1 .. made)
      BY DEF Sent, ObeyedIsMade
    <2>4. ObeyedIsMade'
      BY <1>1, <2>1, <2>2, <2>3 DEF ObeyedIsMade
    <2>5. /\ Len(applied') = Len(applied) + 1 /\ applied'[Len(applied) + 1] = c
          /\ \A k \in DOMAIN applied : k \in DOMAIN applied' /\ applied'[k] = applied[k]
          /\ Len(applied) + 1 \in DOMAIN applied'
          /\ applied' # <<>> /\ applied' # applied
      BY <2>1, <2>2, <2>3
    <2>6. Last(applied') = c
      BY <2>5 DEF Last
    <2>7. FlagIsObeyed' /\ g_bAVCatpure' \in BOOLEAN
      <3>1. g_bAVCatpure' = command[c] /\ command[c] \in BOOLEAN
        BY <1>1, <2>2, <2>5, <2>6, MaxClicksAssumption DEF Sent
      <3> QED BY <1>1, <2>5, <2>6, <3>1 DEF FlagIsObeyed
    <2>8. NoneDropped'
      <3> SUFFICES ASSUME ~lost, NEW d \in 1 .. made PROVE d \in unread' \/ Obeys(d)'
        BY <1>1 DEF NoneDropped
      <3>1. CASE d = c
        BY <2>5, <3>1 DEF Obeys
      <3>2. CASE d # c /\ d \in unread
        BY <2>1, <3>2
      <3>3. CASE Obeys(d)
        BY <2>5, <3>3 DEF Obeys
      <3> QED BY <3>1, <3>2, <3>3 DEF Sent, NoneDropped
    <2> QED BY <1>1, <1>2, <2>4, <2>7, <2>8 DEF Sent
  <1> QED
    BY <1>3, <1>4
       DEF Capture, Channel!Acceptor, Channel!AcceptTest, Channel!AcceptStore,
           Channel!AcceptCount, Channel!AcceptNumber, Channel!AcceptNumbered,
           Channel!Worker, Channel!Select, Channel!ScanPast, Channel!RecvEnd,
           Channel!Uncount, Channel!Clear, Channel!ScanEnd, Channel!peer, Channel!past

LEMMA SentStep == ButtonInv /\ Server!IInv /\ Sent /\ [NextAll]_varsAll => Sent'
  <1> SUFFICES ASSUME ButtonInv, Server!IInv, Sent, [NextAll]_varsAll PROVE Sent'
    OBVIOUS
  <1>1. CASE ReturnSending
    BY <1>1, SendKeeps
  <1>2. CASE Capture
    BY <1>2, CaptureKeeps
  <1>3. CASE ClickFree \/ TimeoutFree \/ Service \/ Finish \/ UNCHANGED varsAll
    <2>1. UNCHANGED <<av, made, unread, applied, command, g_bAVCatpure, lost>>
      BY <1>3 DEF ClickFree, TimeoutFree, Service, Finish, varsAll, vars, channel,
                  Click, Timeout, Serve, Refuse,
                  button, Channel!Finish, Channel!past
    <2> QED BY <2>1 DEF Sent, CommandIsAv, FlagIsObeyed, NoneDropped, ObeyedIsMade, Obeys
  <1> QED BY <1>1, <1>2, <1>3 DEF NextAll

(* A newest request that succeeded has sent a command behind its loop, so   *)
(* that AVCapture's flag does not hold what it began with.                  *)
Commanded ==
  clicks > 0 /\ ~InLoops(clicks) /\ answer[clicks] = "success" /\ ~lost => made > 0

LEMMA CommandedStep ==
  ASSUME ButtonInv, Sent, Commanded, [NextAll]_varsAll
  PROVE  Commanded'
  <1>1. made \in Nat
    BY MaxClicksAssumption DEF Sent
  <1>2. CASE ReturnSending
    <2>1. /\ loops # <<>> /\ loops' = SubSeq(loops, 1, Len(loops) - 1)
          /\ UNCHANGED <<clicks, answer>>
          /\ loops \in Seq(Request)
      BY <1>2 DEF ReturnSending, Return, ButtonInv, TypeOK
    <2>2. CASE Succeeded(Last(loops))
      <3>1. CASE Unsent
        BY <3>1 DEF Unsent, Commanded
      <3>2. CASE \E sent \in BOOLEAN : Send(sent)
        <4>1. made' = made + 1
          BY <3>2 DEF Send, Channel!Connect
        <4> QED BY <1>1, <4>1 DEF Commanded
      <3> QED BY <1>2, <2>2, <3>1, <3>2 DEF ReturnSending
    <2>3. CASE ~Succeeded(Last(loops))
      <3>1. UNCHANGED <<made, lost>>
        BY <1>2, <2>3 DEF ReturnSending, channel
      <3>2. ASSUME InLoops(clicks), ~InLoops(clicks)' PROVE answer[clicks] # "success"
        <4>1. PICK k \in DOMAIN loops : loops[k] = clicks
          BY <3>2 DEF InLoops
        <4>2. k = Len(loops)
          <5> SUFFICES ASSUME k # Len(loops) PROVE FALSE
            OBVIOUS
          <5>1. k \in DOMAIN loops' /\ loops'[k] = loops[k]
            BY <2>1, <4>1
          <5> QED BY <2>1, <3>2, <4>1, <5>1 DEF InLoops
        <4> QED BY <2>3, <4>1, <4>2 DEF Succeeded, Last
      <3> QED BY <2>1, <3>1, <3>2 DEF Commanded
    <2> QED BY <2>2, <2>3
  <1>3. CASE ClickFree
    <2>1. loops' = Append(loops, clicks') /\ loops \in Seq(Request)
      BY <1>3 DEF ClickFree, Click, Post, ButtonInv, TypeOK
    <2>2. Len(loops) + 1 \in DOMAIN loops' /\ loops'[Len(loops) + 1] = clicks'
      BY <2>1
    <2> QED BY <2>2 DEF InLoops, Commanded
  <1>4. CASE TimeoutFree
    <2>1. PICK r \in Request : Timeout(r)
      BY <1>4 DEF TimeoutFree
    <2>2. /\ answer' = [answer EXCEPT ![r] = "timeout"]
          /\ UNCHANGED <<clicks, loops, made, lost>>
      BY <1>4, <2>1 DEF TimeoutFree, Timeout, channel
    <2>3. clicks' > 0 /\ answer'[clicks'] = "success" => answer[clicks] = "success"
      BY <2>2, MaxClicksAssumption DEF ButtonInv, TypeOK, Request
    <2> QED BY <2>2, <2>3 DEF Commanded, InLoops
  <1>5. CASE Service
    <2>1. PICK r \in Request : Serve(r) \/ Refuse(r)
      BY <1>5 DEF Service
    <2>2. /\ \E a \in {"success", "error"} : Answered(r, a)
          /\ UNCHANGED <<clicks, loops, made, lost>>
      BY <1>5, <2>1 DEF Service, Serve, Refuse, channel
    <2>3. clicks' > 0 /\ ~InLoops(clicks) /\ answer'[clicks'] = "success"
          => answer[clicks] = "success"
      BY <2>2, MaxClicksAssumption
         DEF Answered, ButtonInv, ReturnedAnswered, TypeOK, Request
    <2> QED BY <2>2, <2>3 DEF Commanded, InLoops
  <1>6. CASE Finish \/ Capture \/ UNCHANGED varsAll
    <2>1. UNCHANGED <<clicks, loops, answer, made, lost>>
      BY <1>6 DEF Finish, Channel!Finish, Capture, varsAll, vars, channel,
           Channel!Acceptor, Channel!AcceptTest, Channel!AcceptStore,
           Channel!AcceptCount, Channel!AcceptNumber, Channel!AcceptNumbered,
           Channel!Worker, Channel!Select, Channel!ScanPast, Channel!RecvCommand,
           Channel!RecvEnd, Channel!Uncount, Channel!Clear, Channel!ScanEnd,
           Channel!peer
    <2> QED BY <2>1 DEF Commanded, InLoops
  <1> QED BY <1>2, <1>3, <1>4, <1>5, <1>6 DEF NextAll

(* Commands obeyed in their order, all of them: the last one obeyed is the  *)
(* last one sent.                                                           *)
LEMMA FlagIsAv ==
  ASSUME Sent, Server!InOrderUnlessSkipped, av \in BOOLEAN,
         made > 0, unread = {}, ~lost, ~skipped, ~clash
  PROVE  g_bAVCatpure = av
  <1>1. applied \in Seq(1 .. made) /\ made \in Nat
    BY MaxClicksAssumption DEF Sent, ObeyedIsMade
  <1>2. PICK k \in DOMAIN applied : applied[k] = made
    BY <1>1 DEF Sent, NoneDropped, Obeys
  <1>3. Len(applied) \in DOMAIN applied /\ k <= Len(applied)
    BY <1>1, <1>2
  <1>4. ~(k < Len(applied))
    <2> SUFFICES ASSUME k < Len(applied) PROVE FALSE
      OBVIOUS
    <2>1. applied[k] < applied[Len(applied)]
      BY <1>3 DEF Server!InOrderUnlessSkipped
    <2> QED BY <1>1, <1>2, <1>3, <2>1
  <1>5. Last(applied) = made /\ applied # <<>>
    BY <1>1, <1>2, <1>3, <1>4 DEF Last
  <1>6. g_bAVCatpure = command[made]
    BY <1>5 DEF Sent, FlagIsObeyed
  <1>7. av = command[made]
    <2>1. av = IF made = 0 THEN FALSE ELSE command[made]
      BY Zenon DEF Sent, CommandIsAv
    <2>2. (IF made = 0 THEN FALSE ELSE command[made]) = command[made]
      <3>1. made # 0
        BY <1>1
      <3> QED BY <3>1, Zenon
    <2> QED BY <2>1, <2>2, Zenon
  <1> QED BY <1>6, <1>7, Zenon

(* When nothing is under way and the newest request was granted, button,    *)
(* classroom and AVCapture agree on whether there is a demonstration,       *)
(* unless the service changed the order of the requests, a command was not  *)
(* sent, or the set of sockets let one overtake another.                    *)
THEOREM ClassroomFollows == SpecAll => []ClassroomSees
  <1>1. SpecAll => []Sent
    BY PartsHold, InitSent, SentStep, PTL DEF SpecAll
  <1>2. InitAll => Commanded
    BY DEF InitAll, Init, Commanded
  <1>3. SpecAll => []Commanded
    BY <1>1, <1>2, PartsHold, CommandedStep, PTL DEF SpecAll
  <1>4. ButtonInv /\ Sent /\ Commanded /\ Server!InOrderUnlessSkipped => ClassroomSees
    <2> SUFFICES ASSUME ButtonInv, Sent, Commanded, Server!InOrderUnlessSkipped,
                        Quiet, clicks > 0, answer[clicks] = "success",
                        ~reordered, ~lost, ~skipped, ~clash
                 PROVE  g_bAVCatpure = text /\ shown = text /\ m_bstart = text
      BY DEF ClassroomSees
    <2>1. m_bstart = text /\ av = text /\ shown = text
      BY ButtonDecides DEF LatestDecides, Quiet
    <2>2. made > 0
      BY DEF Quiet, Commanded, InLoops
    <2>3. g_bAVCatpure = av
      BY <2>2, FlagIsAv DEF Quiet, ButtonInv, TypeOK
    <2> QED BY <2>1, <2>3
  <1> QED BY <1>1, <1>3, <1>4, PartsHold, PTL
=============================================================================
