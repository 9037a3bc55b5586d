---------------------------- MODULE CaptureThread ----------------------------
(***************************************************************************)
(* The capture thread (AVCaptureThrd) around captureScreen, with the two    *)
(* flags it obeys: g_bAVCatpure, which the commands set and clear, and     *)
(* g_bstopThrd, which the destructor of MyTcpServer sets while the process  *)
(* ends.                                                                   *)
(*                                                                         *)
(* It asks for an I frame at a start, in every round up to count_p = 3, and *)
(* then whenever nloop reaches 5 or the tick rule holds.  What it asked for *)
(* is lost when the call returns nothing: an empty frame goes into the ring *)
(* all the same.  A negative result is used as a length, and the model      *)
(* stops there.                                                            *)
(***************************************************************************)
EXTENDS ScreenCapture

CONSTANTS
  Wrap,      \* 65535, where count_p begins again
  Word,      \* 2^32, the width of a tick count
  Period,    \* 3000, the milliseconds of the tick rule
  Gap        \* the times between two rounds, modulo Word

ASSUME WrapAssumption == Wrap \in Nat /\ Wrap > 3
ASSUME TickAssumption ==
  /\ Word \in Nat \ {0} /\ Period \in Nat /\ Period + 1 < Word
  /\ Gap \subseteq 0 .. Word - 1

VARIABLES
  thr,       \* the thread: "start", "wait", "round", "produce", "ended", or
             \* "crashed"
  cad,       \* count_p, nloop, bflag, bfirst
  event,     \* g_hEvent: "clear" or "set"
  flag,      \* g_bAVCatpure
  ending,    \* main: 0, or the steps of ~MyTcpServer it has taken
  run,       \* history: the P frames asked for in a row
  session    \* history: whether the thread has seen the last stop, whether it
             \* had at the last start, the first frame since that was not
             \* empty, and how many were empty before it

vars == <<capture, thr, cad, event, flag, ending, run, session>>

control == <<event, flag, ending>>
history == <<run, session>>

Init ==
  /\ CaptureInit
  /\ thr = "start"
  /\ cad = [count |-> 0, nloop |-> 0, bflag |-> TRUE, bfirst |-> TRUE]
  /\ event = "clear" /\ flag = TRUE /\ ending = 0
  /\ run = 0
  /\ session = [first |-> "none", empty |-> 0, seen |-> TRUE, rested |-> TRUE]

-----------------------------------------------------------------------------
(* The choice of the frame. *)

(* dwEnd - dwStart, of unsigned ticks, is minus the time since the last     *)
(* frame.                                                                   *)
TickRule(gap) == (Word - gap) % Word \in Period - 1 .. Period + 1

(* Mutant of Choice: nloop is not reset. *)
ChoiceNoReset(c, gap) ==
  LET due == c.nloop = 5 \/ TickRule(gap)
      chosen ==
        IF c.count <= 3 /\ c.bfirst THEN [c EXCEPT !.bflag = TRUE, !.bfirst = FALSE]
        ELSE IF c.count > 3 THEN [c EXCEPT !.bflag = due, !.nloop = @ + 1]
        ELSE c
  IN  IF c.count >= Wrap THEN [chosen EXCEPT !.bfirst = TRUE, !.count = 0] ELSE chosen

(* Below 4 bflag keeps its value once bfirst is clear.                      *)
Choice(c, gap) ==
  LET due == c.nloop = 5 \/ TickRule(gap)
      chosen ==
        IF c.count <= 3 /\ c.bfirst THEN [c EXCEPT !.bflag = TRUE, !.bfirst = FALSE]
        ELSE IF c.count > 3
             THEN [c EXCEPT !.bflag = due, !.nloop = IF due THEN 1 ELSE @ + 1]
        ELSE c
  IN  IF c.count >= Wrap THEN [chosen EXCEPT !.bfirst = TRUE, !.count = 0] ELSE chosen

-----------------------------------------------------------------------------
(* The thread *)

(* The result of Init is not looked at. *)
ThreadStart ==
  /\ thr = "start" /\ Ready
  /\ thr' = "wait"
  /\ UNCHANGED <<capture, cad, control, history>>

(* Mutant of Paused: bfirst keeps its value. *)
PausedFirstKept ==
  /\ thr = "wait" /\ event = "set" /\ ending = 0
  /\ ~flag
  /\ cad' = [cad EXCEPT !.count = 0]
  /\ session' = [session EXCEPT !.seen = TRUE]
  /\ UNCHANGED <<capture, thr, control, run>>

Paused ==
  /\ thr = "wait" /\ event = "set" /\ ending = 0
  /\ ~flag
  /\ cad' = [cad EXCEPT !.bfirst = TRUE, !.count = 0]
  /\ session' = [session EXCEPT !.seen = TRUE]
  /\ UNCHANGED <<capture, thr, control, run>>

RoundBegin(gap) ==
  /\ thr = "wait" /\ event = "set" /\ ending = 0
  /\ flag
  /\ cad' = Choice(cad, gap)
  /\ GetFrame(cad'.bflag)
  /\ thr' = "round"
  /\ run' = IF cad'.bflag THEN 0 ELSE run + 1
  /\ UNCHANGED <<control, session>>

(* A NULL pool, and a negative length. *)
Crash ==
  /\ thr = "round" /\ call.pc \in {"null", "error"}
  /\ thr' = "crashed"
  /\ UNCHANGED <<capture, cad, control, history>>

(* The frame goes into the ring, its header saying what was asked for. *)
Produce ==
  /\ thr = "round" /\ call.pc \in {"full", "empty"}
  /\ thr' = "wait"
  /\ call' = Outside
  /\ cad' = [cad EXCEPT !.count = @ + 1]
  /\ session' =
       IF session.first # "none" \/ ~session.rested THEN session
       ELSE IF call.pc = "empty"
            THEN [session EXCEPT !.empty = IF @ = 4 THEN 4 ELSE @ + 1]
            ELSE [session EXCEPT !.first = IF call.isI THEN "I" ELSE "P",
                                 !.empty = IF call.isI THEN 0 ELSE @]
  /\ UNCHANGED <<al, stage, phase, up, resp, runtime, locked, control, run>>

ThreadEnd ==
  /\ thr = "wait" /\ event = "set" /\ ending > 0
  /\ thr' = "ended"
  /\ Destory
  /\ UNCHANGED <<cad, control, history>>

-----------------------------------------------------------------------------
(* The others *)

(* WorkerThread of MyTcpServer, on a client's request. *)
Request ==
  /\ event = "clear" /\ ending = 0
  /\ event' = "set"
  /\ UNCHANGED <<capture, thr, cad, flag, ending, history>>

(* SimpleServer's commands *)
Start ==
  /\ ending = 0
  /\ flag' = TRUE
  /\ session' = IF flag THEN session
                ELSE [session EXCEPT !.first = "none", !.empty = 0,
                                     !.rested = session.seen]
  /\ UNCHANGED <<capture, thr, cad, event, ending, run>>

Stop ==
  /\ ending = 0 /\ flag
  /\ flag' = FALSE
  /\ session' = [session EXCEPT !.seen = FALSE]
  /\ UNCHANGED <<capture, thr, cad, event, ending, run>>

(* ~MyTcpServer: g_bstopThrd, SetEvent and CloseHandle.  The process ends   *)
(* then, and no thread is waited for.                                       *)
Ending ==
  /\ ending' = ending + 1
  /\ event' = IF ending = 1 THEN "set" ELSE event
  /\ UNCHANGED <<capture, thr, cad, flag, history>>

-----------------------------------------------------------------------------
Thread ==
  \/ CaptureStep /\ UNCHANGED <<thr, cad, control, history>>
  \/ ThreadStart \/ Paused \/ Crash \/ Produce \/ ThreadEnd
  \/ \E gap \in Gap : RoundBegin(gap)

Others ==
  \/ Unlock /\ UNCHANGED <<thr, cad, control, history>>
  \/ Request \/ Start \/ Stop \/ Ending

Next == thr # "crashed" /\ ending < 3 /\ (Thread \/ Others)

Spec == Init /\ [][Next]_vars

(* The thread is scheduled. *)
FairSpec == Spec /\ WF_vars(Thread)

-----------------------------------------------------------------------------
Response == [mids : Purpose \cup {Garbage}, n : Nat]

TypeOK ==
  /\ al.saved \in Response /\ al.refs \in -1 .. 2
  /\ al.own \subseteq Purpose /\ al.live \subseteq Response /\ al.wild \in BOOLEAN
  /\ stage \in 1 .. Len(Calls) + 1
  /\ phase \in {"init", "ready", "failed", "destory", "destroyed", "leaked"}
  /\ up \subseteq Kept /\ resp \in Response
  /\ runtime \in [decoder : Response, encoder : Response]
  /\ call.pc \in {"out", "scan", "decode", "encode", "full", "empty", "error", "null"}
  /\ call.isI \in BOOLEAN /\ call.frame \in {0} \cup Pool /\ call.retried \in BOOLEAN
  /\ locked \subseteq 1 .. resp.n
  /\ thr \in {"start", "wait", "round", "crashed", "ended"}
  /\ cad \in [count : 0 .. Wrap, nloop : 0 .. 5, bflag : BOOLEAN, bfirst : BOOLEAN]
  /\ event \in {"clear", "set"} /\ flag \in BOOLEAN /\ ending \in 0 .. 3
  /\ run \in Nat
  /\ session \in [first : {"none", "I", "P"}, empty : 0 .. 4,
                  seen : BOOLEAN, rested : BOOLEAN]

(* The surfaces of the pool exist as long as captureScreen uses them,       *)
(* although the runtime holds the same response and gives it back first.    *)
PoolBacked == "surfaces" \in up => resp \in al.live

(* The count of the decode response is the number of its holders, but for   *)
(* a Destory that has freed a response Init had never got.                  *)
HoldersCounted ==
  al.refs # -1 =>
    al.refs = (IF "surfaces" \in up THEN 1 ELSE 0)
              + (IF runtime.decoder # NoResponse THEN 1 ELSE 0)

(* No array of surfaces is freed that is not allocated, and a Destory that  *)
(* comes to its end has given everything back, wherever Init had stopped.   *)
CleanEnd == ~al.wild /\ (phase = "destroyed" => up = {} /\ al.live = {})

(* The decoder is handed a locked surface only in a further turn of the     *)
(* loop of GetH264FrameData, which keeps the surface of the turn before.    *)
FreshInputUnlocked ==
  call.pc = "decode" /\ call.frame \in locked => call.retried

(* No more than five P frames are asked for in a row, whatever the commands, *)
(* the wrap of count_p and the clock do.                                    *)
PRunBounded == run <= 5

(* The first frame after a start that is not empty is an I frame, unless    *)
(* the thread had not noticed the stop (then session is not kept), or all   *)
(* of the first four rounds came to nothing.                                *)
FirstIsI == session.first = "P" => session.empty = 4

(* GetH264FrameData returns, though its loop has no bound, unless the       *)
(* runtime says "again" for ever; the end of the process excepted.          *)
CallReturns ==
  \/ []<><<Again>>_vars
  \/ [](call.pc # "out" => <>(call.pc = "out" \/ thr = "crashed" \/ ending = 3))
=============================================================================
