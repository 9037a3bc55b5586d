------------------------------ MODULE DemoToggle ------------------------------
(***************************************************************************)
(* The demonstration button of the teacher's program                       *)
(* (FlodCloudWidget::on_demostrate_clicked) and the request behind it      *)
(* (myHttp).  A click toggles m_bstart, posts the new state to the         *)
(* classroom service and waits for the answer in a nested event loop,      *)
(* where further clicks are handled; a request answered with success sets  *)
(* the button's text and tells AVCapture to start or stop, both by what    *)
(* m_bstart is by then.                                                    *)
(*                                                                         *)
(* A request is its number.  The service is external: it may serve the     *)
(* requests in any order, refuse them, or lose the request or the answer.  *)
(***************************************************************************)
EXTENDS Integers, Sequences

CONSTANT MaxClicks   \* bound: how often the button is clicked

ASSUME MaxClicksAssumption == MaxClicks \in Nat

Request == 1 .. MaxClicks

VARIABLES
  clicks,     \* how many requests have been made
  m_bstart,   \* the toggle
  text,       \* the button's text offers to end the demonstration
  av,         \* the last command sent to AVCapture was "start"
  onOff,      \* what each request asks for
  loops,      \* the requests whose GetData is on the stack, innermost last
  answer,     \* what each request's GetData will find
  inflight,   \* the requests the service may still serve
  shown,      \* external: the classroom is watching, as the service knows
  newest,     \* history: the newest request served
  reordered   \* history: a request was served after a newer one

vars == <<clicks, m_bstart, text, av, onOff, loops, answer, inflight,
          shown, newest, reordered>>

button  == <<m_bstart, text, av>>
service == <<shown, newest, reordered>>

Init ==
  /\ clicks = 0
  /\ m_bstart = FALSE /\ text = FALSE /\ av = FALSE
  /\ onOff = [r \in Request |-> FALSE]
  /\ loops = <<>>
  /\ answer = [r \in Request |-> "none"]
  /\ inflight = {}
  /\ shown = FALSE /\ newest = 0 /\ reordered = FALSE

(* myHttp::Post, and GetData up to its event loop. *)
Post(r) ==
  /\ loops' = Append(loops, r)
  /\ answer' = [answer EXCEPT ![r] = "none"]
  /\ inflight' = inflight \cup {r}

(* on_demostrate_clicked toggles before it posts. *)
Click ==
  /\ clicks < MaxClicks
  /\ clicks' = clicks + 1
  /\ m_bstart' = ~m_bstart
  /\ onOff' = [onOff EXCEPT ![clicks'] = m_bstart']
  /\ Post(clicks')
  /\ UNCHANGED <<text, av, service>>

(* An answer reaches the request's event loop unless its timer has fired. *)
Answered(r, a) ==
  answer' = IF answer[r] = "none" THEN [answer EXCEPT ![r] = a] ELSE answer

Serve(r) ==
  /\ r \in inflight
  /\ inflight' = inflight \ {r}
  /\ shown' = onOff[r]
  /\ newest' = IF r > newest THEN r ELSE newest
  /\ reordered' = (reordered \/ r < newest)
  /\ Answered(r, "success") \/ Answered(r, "error")
  /\ UNCHANGED <<clicks, button, onOff, loops>>

(* The service refuses the request, or the request is lost. *)
Refuse(r) ==
  /\ r \in inflight
  /\ inflight' = inflight \ {r}
  /\ Answered(r, "error")
  /\ UNCHANGED <<clicks, button, onOff, loops, service>>

(* Mutant of Timeout: the timer is stopped by the post, not by the answer. *)
TimeoutUnarmed(r) ==
  /\ \E k \in DOMAIN loops : loops[k] = r
  /\ answer[r] = "success"
  /\ answer' = [answer EXCEPT ![r] = "timeout"]
  /\ UNCHANGED <<clicks, button, onOff, loops, inflight, service>>

(* The 5 s timer.  It also fires for an outer loop whose answer is there    *)
(* already but which cannot return before the inner ones: m_timer is then   *)
(* no longer active and GetData takes the answer for a timeout.             *)
Timeout(r) ==
  /\ \E k \in DOMAIN loops : loops[k] = r
  /\ answer[r] # "timeout"
  /\ answer' = [answer EXCEPT ![r] = "timeout"]
  /\ UNCHANGED <<clicks, button, onOff, loops, inflight, service>>

(* readxmlComm finds a success in the answer; it finds none in the empty one *)
(* that is left after an error or a timeout.                                *)
Succeeded(r) == answer[r] = "success"

(* Mutant of Return: each request sets the button to what it asked for. *)
ReturnByRequest ==
  /\ loops # <<>>
  /\ LET r == loops[Len(loops)]
     IN  /\ answer[r] # "none"
         /\ IF Succeeded(r) THEN text' = onOff[r] /\ av' = onOff[r]
                            ELSE UNCHANGED <<text, av>>
  /\ loops' = SubSeq(loops, 1, Len(loops) - 1)
  /\ UNCHANGED <<clicks, m_bstart, onOff, answer, inflight, service>>

(* The innermost GetData returns, and the rest of on_demostrate_clicked. *)
Return ==
  /\ loops # <<>>
  /\ LET r == loops[Len(loops)]
     IN  /\ answer[r] # "none"
         /\ IF Succeeded(r) THEN text' = m_bstart /\ av' = m_bstart
                            ELSE UNCHANGED <<text, av>>
  /\ loops' = SubSeq(loops, 1, Len(loops) - 1)
  /\ UNCHANGED <<clicks, m_bstart, onOff, answer, inflight, service>>

Next ==
  \/ Click
  \/ Return
  \/ \E r \in Request : Serve(r) \/ Refuse(r) \/ Timeout(r)

Spec == Init /\ [][Next]_vars

(* Timers fire and event loops return; nobody must answer or click. *)
FairSpec ==
  Spec /\ WF_vars(Return) /\ WF_vars(\E r \in Request : Timeout(r))

-----------------------------------------------------------------------------
TypeOK ==
  /\ clicks \in 0 .. MaxClicks
  /\ m_bstart \in BOOLEAN /\ text \in BOOLEAN /\ av \in BOOLEAN
  /\ onOff \in [Request -> BOOLEAN]
  /\ loops \in Seq(Request)
  /\ answer \in [Request -> {"none", "success", "error", "timeout"}]
  /\ inflight \subseteq Request
  /\ shown \in BOOLEAN /\ newest \in 0 .. MaxClicks /\ reordered \in BOOLEAN

(* Once every loop has returned and the service has nothing left to serve,  *)
(* a newest request that succeeded decides alone: m_bstart, the button, the *)
(* last command and the service agree, whatever became of the requests      *)
(* before it.  Only the service serving it before an older one breaks this. *)
LatestDecides ==
  /\ clicks > 0 /\ loops = <<>> /\ inflight = {}
  /\ answer[clicks] = "success" /\ ~reordered
  => m_bstart = text /\ av = text /\ shown = text

(* Every click is done with in the end, its nested loop included. *)
ClicksReturn == loops # <<>> ~> loops = <<>>
=============================================================================
