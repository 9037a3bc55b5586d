------------------------ MODULE CaptureThread_proofs ------------------------
(***************************************************************************)
(* Proofs about the capture thread for every size of the pool, every word  *)
(* of the clock and every wrap of count_p: how many P frames it asks for   *)
(* in a row, that the surfaces it uses outlive their use, which surface    *)
(* the decoder is handed, and which frame a session begins with.           *)
(***************************************************************************)
EXTENDS CaptureThread, TLAPS

-----------------------------------------------------------------------------
(* The choice of the frame: these parts are about cad and run only. *)

CadType ==
  /\ cad \in [count : Nat, nloop : 0 .. 5, bflag : BOOLEAN, bfirst : BOOLEAN]
  /\ run \in Nat

(* The P frames in a row are not more than nloop says. *)
RunCounted == run <= cad.nloop

(* Below 4 it is I frames that are asked for. *)
EarlyIsI == cad.count <= 3 /\ ~cad.bfirst => cad.bflag

RInv == CadType /\ RunCounted /\ EarlyIsI

LEMMA InitRInv == Init => RInv
  BY DEF Init, RInv, CadType, RunCounted, EarlyIsI

LEMMA RoundRInv ==
  ASSUME RInv, NEW gap \in Gap, RoundBegin(gap)
  PROVE  RInv'
  <1> DEFINE due == cad.nloop = 5 \/ TickRule(gap)
             chosen ==
               IF cad.count <= 3 /\ cad.bfirst
               THEN [cad EXCEPT !.bflag = TRUE, !.bfirst = FALSE]
               ELSE IF cad.count > 3
               THEN [cad EXCEPT !.bflag = due,
                                !.nloop = IF due THEN 1 ELSE @ + 1]
               ELSE cad
  <1>1. /\ cad' = IF cad.count >= Wrap
                  THEN [chosen EXCEPT !.bfirst = TRUE, !.count = 0] ELSE chosen
        /\ run' = IF cad'.bflag THEN 0 ELSE run + 1
    BY DEF RoundBegin, Choice
  <1>2. due \in BOOLEAN
    BY DEF TickRule
  <1> USE DEF RInv, CadType, RunCounted, EarlyIsI
  <1>3. /\ chosen \in [count : Nat, nloop : 0 .. 5, bflag : BOOLEAN, bfirst : BOOLEAN]
        /\ ~chosen.bflag => run + 1 <= chosen.nloop
        /\ chosen.count <= 3 /\ ~chosen.bfirst => chosen.bflag
    <2> HIDE DEF due
    <2>1. CASE cad.count <= 3 /\ cad.bfirst
      <3>1. chosen = [cad EXCEPT !.bflag = TRUE, !.bfirst = FALSE]
        BY <2>1
      <3> HIDE DEF chosen
      <3> QED BY <2>1, <3>1
    <2>2. CASE cad.count > 3 /\ due
      <3>1. due = TRUE
        BY <1>2, <2>2
      <3>2. chosen = [cad EXCEPT !.bflag = TRUE, !.nloop = 1]
        BY <2>2, <3>1
      <3> HIDE DEF chosen
      <3>3. chosen \in [count : Nat, nloop : 0 .. 5, bflag : BOOLEAN, bfirst : BOOLEAN]
        <4>1. chosen = [count |-> cad.count, nloop |-> 1, bflag |-> TRUE,
                        bfirst |-> cad.bfirst]
          BY <3>2
        <4> QED BY <4>1
      <3>4. chosen.bflag
        BY <3>2
      <3> QED BY <3>3, <3>4
    <2>3. CASE cad.count > 3 /\ ~due
      <3>1. due = FALSE /\ cad.nloop # 5
        BY <1>2, <2>3 DEF due
      <3>2. chosen = [cad EXCEPT !.bflag = due, !.nloop = cad.nloop + 1]
        BY <2>3
      <3> HIDE DEF chosen
      <3>3. chosen \in [count : Nat, nloop : 0 .. 5, bflag : BOOLEAN, bfirst : BOOLEAN]
        <4>1. chosen = [count |-> cad.count, nloop |-> cad.nloop + 1,
                        bflag |-> due, bfirst |-> cad.bfirst]
          BY <3>2
        <4>2. cad.nloop + 1 \in 0 .. 5
          BY <3>1
        <4> QED BY <1>2, <4>1, <4>2
      <3>4. chosen.count = cad.count /\ chosen.nloop = cad.nloop + 1
        BY <3>2
      <3> QED BY <2>3, <3>3, <3>4
    <2>4. CASE cad.count <= 3 /\ ~cad.bfirst
      <3>1. chosen = cad
        BY <2>4
      <3> HIDE DEF chosen
      <3> QED BY <2>4, <3>1
    <2> QED BY <2>1, <2>2, <2>3, <2>4
  <1> HIDE DEF chosen
  <1>4. CASE cad.count >= Wrap
    <2>1. cad' = [chosen EXCEPT !.bfirst = TRUE, !.count = 0]
      BY <1>1, <1>4
    <2>2. cad' = [count |-> 0, nloop |-> chosen.nloop, bflag |-> chosen.bflag,
                  bfirst |-> TRUE]
      BY <1>3, <2>1
    <2>3. cad' \in [count : Nat, nloop : 0 .. 5, bflag : BOOLEAN, bfirst : BOOLEAN]
      BY <1>3, <2>2
    <2>4. cad'.nloop = chosen.nloop /\ cad'.bfirst = TRUE
      BY <2>2
    <2>5. cad'.bflag = chosen.bflag
      BY <2>2
    <2>6. run' \in Nat /\ run' <= cad'.nloop
      BY <1>1, <1>3, <2>3, <2>4, <2>5
    <2> QED BY <2>3, <2>4, <2>6
  <1>5. CASE cad.count < Wrap
    <2>1. cad' = chosen
      BY <1>1, <1>5, WrapAssumption
    <2> QED BY <1>1, <1>3, <2>1
  <1> QED BY <1>4, <1>5, WrapAssumption

LEMMA NextRInv == RInv /\ [Next]_vars => RInv'
  <1> SUFFICES ASSUME RInv, [Next]_vars PROVE RInv'
    OBVIOUS
  <1> USE DEF RInv, CadType, RunCounted, EarlyIsI
  <1>1. CASE Paused
    BY <1>1 DEF Paused
  <1>2. CASE Produce
    BY <1>2 DEF Produce
  <1>3. ASSUME NEW gap \in Gap, RoundBegin(gap) PROVE RInv'
    BY <1>3, RoundRInv
  <1>4. CASE UNCHANGED <<cad, run>>
    BY <1>4
  <1>5. (ThreadStart \/ Crash \/ ThreadEnd \/ Others) => UNCHANGED <<cad, run>>
    BY DEF ThreadStart, Crash, ThreadEnd, Others, Request, Start, Stop, Ending, history
  <1> QED BY <1>1, <1>2, <1>3, <1>4, <1>5 DEF Next, Thread, history, vars

(* No more than five P frames are asked for in a row, for every width of    *)
(* the tick count and every wrap of count_p: captureScreen's choice of the  *)
(* frame in AVCaptureThrd keeps nloop at least as high as their number.     *)
THEOREM PRunIsBounded == Spec => []PRunBounded
  <1>1. RInv => PRunBounded
    BY DEF RInv, CadType, RunCounted, PRunBounded
  <1> QED BY InitRInv, NextRInv, <1>1, PTL DEF Spec

-----------------------------------------------------------------------------
(* The surfaces: these parts are about captureScreen and its allocator.     *)

Allocators ==
  [saved : Response, refs : -1 .. 2, own : SUBSET Purpose,
   live : SUBSET Response, wild : BOOLEAN]

PoolTypes ==
  /\ al \in Allocators
  /\ stage \in 1 .. 16
  /\ phase \in {"init", "ready", "failed", "destory", "destroyed", "leaked"}
  /\ up \subseteq Kept /\ resp \in Response
  /\ runtime \in [decoder : Response, encoder : Response]

(* What the calls of Init and of Destory have come to so far. *)
InOrder ==
  /\ phase = "init" =>
       /\ stage \in 1 .. 15
       /\ stage <= 9 => runtime.decoder = NoResponse
       /\ stage <= 11 => runtime.encoder = NoResponse
       /\ stage <= 14 => "surfaces" \notin up
  /\ phase = "destory" =>
       /\ stage \in 1 .. 4
       /\ stage >= 2 => "decoder" \notin up /\ runtime.decoder = NoResponse
       /\ stage >= 3 => "encoder" \notin up /\ runtime.encoder = NoResponse
       /\ stage = 4 => {"surfaces", "bits"} \cap up = {}
  /\ phase = "destroyed" =>
       /\ up = {}
       /\ runtime.decoder = NoResponse /\ runtime.encoder = NoResponse

(* The holders of the decode response. *)
Holders ==
  (IF "surfaces" \in up THEN 1 ELSE 0)
  + (IF runtime.decoder # NoResponse THEN 1 ELSE 0)

Counted ==
  /\ al.refs = Holders \/ (al.refs = -1 /\ Holders = 0)
  /\ al.refs = -1 => phase \in {"destory", "destroyed", "leaked"}
  /\ al.refs = -1 /\ phase = "destory" => stage = 4

(* They all hold the one that is saved. *)
OneResponse ==
  /\ Saved(al) <=> al.refs > 0
  /\ Saved(al) => al.saved.mids \in {"decoder", "surfaces"}
  /\ runtime.decoder # NoResponse => runtime.decoder = al.saved
  /\ "surfaces" \in up => resp = al.saved
  /\ "surfaces" \notin up => resp.mids = Garbage

(* The encoder's response is the only other one. *)
EncoderOwns ==
  /\ al.own = IF runtime.encoder # NoResponse THEN {"encoder"} ELSE {}
  /\ runtime.encoder # NoResponse => runtime.encoder.mids = "encoder"

LiveIsHeld ==
  /\ al.live = (IF Saved(al) THEN {al.saved} ELSE {})
               \cup (IF runtime.encoder # NoResponse THEN {runtime.encoder} ELSE {})
  /\ al.wild = FALSE

PInv ==
  PoolTypes /\ InOrder /\ Counted /\ OneResponse /\ EncoderOwns /\ LiveIsHeld

-----------------------------------------------------------------------------
(* The places of the calls that matter. *)
LEMMA CallPlaces ==
  /\ Len(Calls) = 15
  /\ \A i \in 1 .. 15 :
       /\ Calls[i] = "decoder" <=> i = 9
       /\ Calls[i] = "encoder" <=> i = 11
       /\ Calls[i] = "surfaces" <=> i = 14
  BY DEF Calls

LEMMA InitPInv == Init => PInv
  <1> SUFFICES ASSUME Init PROVE PInv
    OBVIOUS
  <1> USE DEF Init, CaptureInit, EmptyAllocator, NoResponse, Response
  <1>1. PoolTypes
    BY DEF PoolTypes, Allocators
  <1>2. InOrder /\ Counted
    BY DEF InOrder, Counted, Holders
  <1>3. OneResponse
    BY DEF OneResponse, Saved
  <1>4. EncoderOwns /\ LiveIsHeld
    BY DEF EncoderOwns, LiveIsHeld, Saved
  <1> QED BY <1>1, <1>2, <1>3, <1>4 DEF PInv

(* A call of Init that acquires something. *)
LEMMA AcquiresOrder ==
  ASSUME PInv, NEW s \in {Calls[i] : i \in DOMAIN Calls}, Acquires(s)
  PROVE  /\ phase = "init" /\ stage \in 1 .. 15 /\ Calls[stage] = s
         /\ stage' \in 1 .. 16 /\ phase' \in {"init", "ready", "failed"}
         /\ phase' = "init" => stage' = stage + 1 /\ stage' \in 1 .. 15
         /\ up' \subseteq Kept
         /\ "surfaces" \in up' <=> "surfaces" \in up \/ s = "surfaces"
  <1>1. phase = "init" /\ stage \in 1 .. 15 /\ Calls[stage] = s
    BY DEF Acquires, PInv, InOrder
  <1>2. up' \subseteq Kept /\ ("surfaces" \in up' <=> "surfaces" \in up \/ s = "surfaces")
    BY DEF Acquires, PInv, PoolTypes, Kept
  <1>3. /\ stage' \in 1 .. 16 /\ phase' \in {"init", "ready", "failed"}
        /\ phase' = "init" => stage' = stage + 1 /\ stage' \in 1 .. 15
    BY <1>1, CallPlaces DEF Acquires
  <1> QED BY <1>1, <1>2, <1>3

LEMMA InitCallPInv == PInv /\ InitCall => PInv'
  <1> SUFFICES ASSUME PInv,
                      NEW s \in {Calls[i] : i \in DOMAIN Calls} \ {"surfaces"},
                      Acquires(s), UNCHANGED <<al, resp, runtime>>
               PROVE  PInv'
    BY DEF InitCall
  <1>1. /\ phase = "init" /\ stage \in 1 .. 15
        /\ stage' \in 1 .. 16 /\ phase' \in {"init", "ready", "failed"}
        /\ phase' = "init" => stage' = stage + 1 /\ stage' \in 1 .. 15
        /\ up' \subseteq Kept /\ ("surfaces" \in up' <=> "surfaces" \in up)
    BY AcquiresOrder
  <1>2. InOrder'
    BY <1>1 DEF PInv, InOrder
  <1>3. PoolTypes' /\ Counted' /\ OneResponse' /\ EncoderOwns' /\ LiveIsHeld'
    BY <1>1 DEF PInv, PoolTypes, Counted, Holders, OneResponse, EncoderOwns,
                LiveIsHeld, Saved
  <1> QED BY <1>2, <1>3 DEF PInv

LEMMA InitDecoderPInv == PInv /\ InitDecoder => PInv'
  <1> SUFFICES ASSUME PInv, InitDecoder PROVE PInv'
    OBVIOUS
  <1> DEFINE r == [mids |-> "decoder", n |-> RuntimeSize]
  <1>1. /\ Acquires("decoder") /\ resp' = resp
        /\ al' = AllocDecode(al, r)
        /\ runtime' = [runtime EXCEPT !.decoder = r]
    BY DEF InitDecoder
  <1>2. "decoder" \in {Calls[i] : i \in DOMAIN Calls}
    BY DEF Calls
  <1>3. /\ phase = "init" /\ stage \in 1 .. 15 /\ Calls[stage] = "decoder"
        /\ stage' \in 1 .. 16 /\ phase' \in {"init", "ready", "failed"}
        /\ phase' = "init" => stage' = stage + 1 /\ stage' \in 1 .. 15
        /\ up' \subseteq Kept /\ ("surfaces" \in up' <=> "surfaces" \in up)
    BY <1>1, <1>2, AcquiresOrder
  <1>4. stage = 9
    BY <1>3, CallPlaces
  <1>5. r \in Response /\ r # NoResponse /\ r.mids = "decoder"
    BY SizeAssumption DEF Response, NoResponse, Garbage, Purpose
  <1>6. /\ runtime.decoder = NoResponse /\ runtime.encoder = NoResponse
        /\ "surfaces" \notin up
    BY <1>3, <1>4 DEF PInv, InOrder
  <1>7. al.refs = 0 /\ ~Saved(al)
    BY <1>3, <1>6 DEF PInv, Counted, Holders, OneResponse
  <1>8. /\ runtime' \in [decoder : Response, encoder : Response]
        /\ runtime'.decoder = r /\ runtime'.encoder = NoResponse
    BY <1>1, <1>5, <1>6 DEF PInv, PoolTypes
  <1>9. /\ al' \in Allocators
        /\ al'.saved = r /\ al'.refs = 1 /\ al'.own = {} /\ al'.wild = FALSE
        /\ al'.live = {r}
    <2>1. al.own = {} /\ al.live = {} /\ al.wild = FALSE
      BY <1>6, <1>7 DEF PInv, EncoderOwns, LiveIsHeld
    <2> HIDE DEF r
    <2>2. al' = [al EXCEPT !.saved = r, !.refs = 1, !.live = {r}]
      BY <1>1, <1>7, <2>1 DEF AllocDecode
    <2>3. al' = [saved |-> r, refs |-> 1, own |-> {}, live |-> {r}, wild |-> FALSE]
      BY <2>1, <2>2 DEF PInv, PoolTypes, Allocators
    <2> QED BY <1>5, <2>3 DEF Allocators
  <1> HIDE DEF r
  <1>10. PoolTypes' /\ InOrder'
    BY <1>1, <1>3, <1>4, <1>6, <1>8, <1>9 DEF PInv, PoolTypes, InOrder
  <1>11. Counted' /\ OneResponse'
    BY <1>1, <1>3, <1>5, <1>6, <1>8, <1>9
    DEF PInv, Counted, Holders, OneResponse, Saved
  <1>12. EncoderOwns' /\ LiveIsHeld'
    BY <1>5, <1>8, <1>9 DEF EncoderOwns, LiveIsHeld, Saved
  <1> QED BY <1>10, <1>11, <1>12 DEF PInv

LEMMA InitEncoderPInv == PInv /\ InitEncoder => PInv'
  <1> SUFFICES ASSUME PInv, InitEncoder PROVE PInv'
    OBVIOUS
  <1> DEFINE r == [mids |-> "encoder", n |-> RuntimeSize]
  <1>1. /\ Acquires("encoder") /\ resp' = resp
        /\ al' = AllocOther(al, r)
        /\ runtime' = [runtime EXCEPT !.encoder = r]
    BY DEF InitEncoder
  <1>2. "encoder" \in {Calls[i] : i \in DOMAIN Calls}
    BY DEF Calls
  <1>3. /\ phase = "init" /\ stage \in 1 .. 15 /\ Calls[stage] = "encoder"
        /\ stage' \in 1 .. 16 /\ phase' \in {"init", "ready", "failed"}
        /\ phase' = "init" => stage' = stage + 1 /\ stage' \in 1 .. 15
        /\ up' \subseteq Kept /\ ("surfaces" \in up' <=> "surfaces" \in up)
    BY <1>1, <1>2, AcquiresOrder
  <1>4. stage = 11
    BY <1>3, CallPlaces
  <1>5. r \in Response /\ r # NoResponse /\ r.mids = "encoder"
    BY SizeAssumption DEF Response, NoResponse, Garbage, Purpose
  <1>6. runtime.encoder = NoResponse /\ "surfaces" \notin up
    BY <1>3, <1>4 DEF PInv, InOrder
  <1>7. /\ runtime' \in [decoder : Response, encoder : Response]
        /\ runtime'.decoder = runtime.decoder /\ runtime'.encoder = r
    BY <1>1, <1>5 DEF PInv, PoolTypes
  <1>8. /\ al' \in Allocators
        /\ al'.saved = al.saved /\ al'.refs = al.refs
        /\ al'.own = {"encoder"} /\ al'.wild = FALSE
        /\ al'.live = al.live \cup {r}
    <2>1. al.own = {} /\ al.wild = FALSE /\ r.mids = "encoder"
      BY <1>5, <1>6 DEF PInv, EncoderOwns, LiveIsHeld
    <2> HIDE DEF r
    <2>2. al' = [al EXCEPT !.own = {"encoder"}, !.live = al.live \cup {r}]
      BY <1>1, <2>1 DEF AllocOther
    <2> QED BY <1>5, <2>1, <2>2 DEF PInv, PoolTypes, Allocators, Purpose
  <1> HIDE DEF r
  <1>9. PoolTypes' /\ InOrder'
    BY <1>1, <1>3, <1>4, <1>6, <1>7, <1>8 DEF PInv, PoolTypes, InOrder
  <1>10. Counted' /\ OneResponse'
    BY <1>1, <1>3, <1>7, <1>8 DEF PInv, Counted, Holders, OneResponse, Saved
  <1>11. EncoderOwns' /\ LiveIsHeld'
    BY <1>5, <1>6, <1>7, <1>8 DEF PInv, EncoderOwns, LiveIsHeld, Saved
  <1> QED BY <1>9, <1>10, <1>11 DEF PInv

LEMMA InitSurfacesPInv == PInv /\ InitSurfaces => PInv'
  <1> SUFFICES ASSUME PInv, InitSurfaces PROVE PInv'
    OBVIOUS
  <1>1. "surfaces" \in {Calls[i] : i \in DOMAIN Calls} /\ Acquires("surfaces")
    BY DEF InitSurfaces, Calls
  <1>2. /\ phase = "init" /\ stage \in 1 .. 15 /\ Calls[stage] = "surfaces"
        /\ stage' \in 1 .. 16 /\ phase' \in {"init", "ready", "failed"}
        /\ phase' = "init" => stage' = stage + 1 /\ stage' \in 1 .. 15
        /\ up' \subseteq Kept /\ "surfaces" \in up'
    BY <1>1, AcquiresOrder
  <1>3. stage = 14
    BY <1>2, CallPlaces
  <1>4. "surfaces" \notin up /\ runtime' = runtime
    BY <1>2, <1>3 DEF PInv, InOrder, InitSurfaces
  <1>5. InOrder'
    BY <1>2, <1>3 DEF InOrder
  <1>6. CASE Saved(al)
    <2>1. al' = [al EXCEPT !.refs = al.refs + 1] /\ resp' = al.saved
      BY <1>6 DEF InitSurfaces, AllocSaved
    <2>2. al.refs = 1
      BY <1>4, <1>6 DEF PInv, OneResponse, Counted, Holders
    <2>3. /\ al' \in Allocators /\ al'.refs = 2
          /\ al'.saved = al.saved /\ al'.own = al.own /\ al'.live = al.live
          /\ al'.wild = al.wild
      BY <2>1, <2>2 DEF PInv, PoolTypes, Allocators
    <2>4. PoolTypes' /\ Counted'
      BY <1>2, <1>4, <2>1, <2>2, <2>3 DEF PInv, PoolTypes, Allocators, Counted, Holders
    <2>5. OneResponse' /\ EncoderOwns' /\ LiveIsHeld'
      BY <1>2, <1>4, <1>6, <2>1, <2>2, <2>3
      DEF PInv, OneResponse, EncoderOwns, LiveIsHeld, Saved
    <2> QED BY <1>5, <2>4, <2>5 DEF PInv
  <1>7. CASE ~Saved(al)
    <2> DEFINE r == [mids |-> "surfaces", n |-> PoolSize]
    <2>1. resp' = r /\ al' = AllocDecode(al, r)
      BY <1>7 DEF InitSurfaces
    <2>2. r \in Response /\ r # NoResponse /\ r.mids = "surfaces"
      BY SizeAssumption DEF Response, NoResponse, Garbage, Purpose
    <2>3. runtime.decoder = NoResponse /\ al.refs = 0
      BY <1>2, <1>4, <1>7 DEF PInv, OneResponse, Counted, Holders
    <2> HIDE DEF r
    <2>4. al' = [al EXCEPT !.saved = r, !.refs = 1, !.live = al.live \cup {r}]
      BY <2>1, <2>3 DEF AllocDecode
    <2>5. /\ al' \in Allocators /\ al'.refs = 1
          /\ al'.saved = r /\ al'.own = al.own /\ al'.live = al.live \cup {r}
          /\ al'.wild = FALSE
      <3>1. al.wild = FALSE /\ al.own \in SUBSET Purpose /\ al.live \cup {r} \in SUBSET Response
        BY <2>2 DEF PInv, PoolTypes, Allocators, LiveIsHeld
      <3>2. al' = [saved |-> r, refs |-> 1, own |-> al.own,
                   live |-> al.live \cup {r}, wild |-> FALSE]
        BY <2>4, <3>1 DEF PInv, PoolTypes, Allocators
      <3> QED BY <2>2, <3>1, <3>2 DEF Allocators
    <2>6. PoolTypes' /\ Counted'
      BY <1>2, <1>4, <2>1, <2>2, <2>3, <2>5 DEF PInv, PoolTypes, Counted, Holders
    <2>7. OneResponse' /\ EncoderOwns' /\ LiveIsHeld'
      BY <1>2, <1>4, <1>7, <2>1, <2>2, <2>3, <2>5
      DEF PInv, OneResponse, EncoderOwns, LiveIsHeld, Saved
    <2> QED BY <1>5, <2>6, <2>7 DEF PInv
  <1> QED BY <1>6, <1>7

(* What is left of the allocator when one holder of the saved response      *)
(* gives it back.                                                           *)
LEMMA FreeSaved ==
  ASSUME PInv, Saved(al), NEW a, a = Free(al, al.saved)
  PROVE  /\ a \in Allocators
         /\ a.refs = al.refs - 1 /\ a.own = al.own /\ a.wild = FALSE
         /\ al.refs = 1 => a.saved = NoResponse /\ a.live = al.live \ {al.saved}
         /\ al.refs # 1 => a.saved = al.saved /\ a.live = al.live
  <1>1. al.saved.mids \notin al.own /\ al.saved \in al.live /\ al.wild = FALSE
    BY DEF PInv, OneResponse, EncoderOwns, LiveIsHeld
  <1>2. NoResponse \in Response
    BY DEF NoResponse, Response
  <1>3. al \in Allocators /\ al.refs \in {1, 2}
    BY DEF PInv, PoolTypes, Counted, OneResponse, Holders
  <1>4. CASE al.refs = 1
    <2>1. a = [saved |-> NoResponse, refs |-> 0, own |-> al.own,
               live |-> al.live \ {al.saved}, wild |-> FALSE]
      BY <1>1, <1>3, <1>4 DEF Free, Released, Allocators
    <2>2. a \in Allocators
      BY <1>2, <1>3, <2>1 DEF Allocators
    <2>3. /\ a.refs = 0 /\ a.own = al.own /\ a.wild = FALSE
          /\ a.saved = NoResponse /\ a.live = al.live \ {al.saved}
      BY <2>1
    <2> QED BY <1>4, <2>2, <2>3
  <1>5. CASE al.refs = 2
    <2>1. a = [al EXCEPT !.refs = 1]
      BY <1>1, <1>3, <1>5 DEF Free
    <2>2. a \in Allocators
      BY <1>3, <2>1 DEF Allocators
    <2>3. /\ a.refs = 1 /\ a.own = al.own /\ a.saved = al.saved /\ a.live = al.live
      BY <1>3, <2>1 DEF Allocators
    <2>4. a.wild = al.wild
      BY <1>3, <2>1 DEF Allocators
    <2> QED BY <1>1, <1>5, <2>2, <2>3, <2>4
  <1> QED BY <1>3, <1>4, <1>5

LEMMA CloseDecoderPInv ==
  ASSUME PInv, phase = "destory", stage = 1, Close("decoder"),
         stage' = 2, phase' = "destory"
  PROVE  PInv'
  <1>1. /\ up' = up \ {"decoder"} /\ resp' = resp
        /\ runtime' = [runtime EXCEPT !.decoder = NoResponse]
        /\ al' = IF runtime.decoder = NoResponse THEN al
                                                 ELSE Free(al, runtime.decoder)
    BY DEF Close
  <1>2. /\ runtime' \in [decoder : Response, encoder : Response]
        /\ runtime'.decoder = NoResponse /\ runtime'.encoder = runtime.encoder
    <2>1. NoResponse \in Response
      BY DEF NoResponse, Response
    <2> QED BY <1>1, <2>1 DEF PInv, PoolTypes
  <1>3. InOrder'
    BY <1>1, <1>2 DEF InOrder
  <1>4. CASE runtime.decoder = NoResponse
    <2>1. al' = al
      BY <1>1, <1>4
    <2> QED
      BY <1>1, <1>2, <1>3, <1>4, <2>1
      DEF PInv, PoolTypes, Counted, Holders, OneResponse, EncoderOwns, LiveIsHeld, Saved
  <1>5. CASE runtime.decoder # NoResponse
    <2>1. runtime.decoder = al.saved /\ Saved(al) /\ al.refs = Holders
      BY <1>5 DEF PInv, OneResponse, Saved, Counted
    <2>2. /\ al' \in Allocators
          /\ al'.refs = al.refs - 1 /\ al'.own = al.own /\ al'.wild = FALSE
          /\ al.refs = 1 => al'.saved = NoResponse /\ al'.live = al.live \ {al.saved}
          /\ al.refs # 1 => al'.saved = al.saved /\ al'.live = al.live
      BY <1>1, <1>5, <2>1, FreeSaved
    <2>3. PoolTypes' /\ Counted'
      BY <1>1, <1>2, <1>5, <2>1, <2>2 DEF PInv, PoolTypes, Counted, Holders
    <2>4. OneResponse'
      BY <1>1, <1>2, <1>5, <2>1, <2>2 DEF PInv, OneResponse, Holders, Saved
    <2>5. EncoderOwns' /\ LiveIsHeld'
      <3>1. al.saved # runtime.encoder \/ runtime.encoder = NoResponse
        BY <2>1 DEF PInv, EncoderOwns, OneResponse
      <3>2. EncoderOwns'
        BY <1>2, <2>2 DEF PInv, EncoderOwns
      <3>3. al'.live = (IF Saved(al') THEN {al'.saved} ELSE {})
               \cup (IF runtime.encoder # NoResponse THEN {runtime.encoder} ELSE {})
        BY <2>1, <2>2, <3>1 DEF PInv, LiveIsHeld, Saved
      <3> QED BY <1>2, <2>2, <3>2, <3>3 DEF LiveIsHeld
    <2> QED BY <1>3, <2>3, <2>4, <2>5 DEF PInv
  <1> QED BY <1>4, <1>5

LEMMA CloseEncoderPInv ==
  ASSUME PInv, phase = "destory", stage = 2, Close("encoder"),
         stage' = 3, phase' = "destory"
  PROVE  PInv'
  <1> DEFINE r == runtime.encoder
  <1>1. /\ up' = up \ {"encoder"} /\ resp' = resp
        /\ runtime' = [runtime EXCEPT !.encoder = NoResponse]
        /\ al' = IF r = NoResponse THEN al ELSE Free(al, r)
    BY DEF Close
  <1>2. /\ runtime' \in [decoder : Response, encoder : Response]
        /\ runtime'.decoder = runtime.decoder /\ runtime'.encoder = NoResponse
    <2>1. NoResponse \in Response
      BY DEF NoResponse, Response
    <2> QED BY <1>1, <2>1 DEF PInv, PoolTypes
  <1>3. InOrder'
    BY <1>1, <1>2 DEF PInv, InOrder
  <1>4. CASE r = NoResponse
    <2>1. al' = al
      BY <1>1, <1>4
    <2> QED
      BY <1>1, <1>2, <1>3, <1>4, <2>1
      DEF PInv, PoolTypes, Counted, Holders, OneResponse, EncoderOwns, LiveIsHeld, Saved
  <1>5. CASE r # NoResponse
    <2>1. al.own = {"encoder"} /\ r.mids = "encoder" /\ r \in al.live /\ al.wild = FALSE
      BY <1>5 DEF PInv, EncoderOwns, LiveIsHeld
    <2>2. al' = [saved |-> al.saved, refs |-> al.refs, own |-> {},
                 live |-> al.live \ {r}, wild |-> FALSE]
      BY <1>1, <1>5, <2>1 DEF Free, Released, PInv, PoolTypes, Allocators
    <2>3. al' \in Allocators
      BY <2>2 DEF PInv, PoolTypes, Allocators
    <2>4. /\ al'.refs = al.refs /\ al'.own = {} /\ al'.wild = FALSE
          /\ al'.saved = al.saved /\ al'.live = al.live \ {r}
      BY <2>2
    <2>5. PoolTypes' /\ Counted' /\ OneResponse'
      BY <1>1, <1>2, <2>3, <2>4 DEF PInv, PoolTypes, Counted, Holders, OneResponse, Saved
    <2>6. EncoderOwns' /\ LiveIsHeld'
      <3>1. Saved(al) => al.saved # r
        BY <2>1 DEF PInv, OneResponse
      <3> QED BY <1>2, <1>5, <2>4, <3>1 DEF PInv, EncoderOwns, LiveIsHeld, Saved
    <2> QED BY <1>3, <2>5, <2>6 DEF PInv
  <1> QED BY <1>4, <1>5

LEMMA FreeSurfacesPInv ==
  ASSUME PInv, phase = "destory", stage = 3, FreeSurfaces,
         stage' = 4, phase' = "destory"
  PROVE  PInv'
  <1>1. /\ up' = up \ {"surfaces", "bits"} /\ runtime' = runtime
        /\ al' = Free(al, resp)
        /\ resp' = IF al.refs = 1 \/ resp.mids \in al.own
                   THEN [resp EXCEPT !.mids = Garbage] ELSE resp
    BY DEF FreeSurfaces
  <1>2. runtime.decoder = NoResponse /\ runtime.encoder = NoResponse /\ al.own = {}
    BY DEF PInv, InOrder, EncoderOwns
  <1>3. InOrder'
    BY <1>1, <1>2 DEF PInv, InOrder
  <1>4. CASE "surfaces" \in up
    <2>1. al.refs = 1 /\ Saved(al) /\ resp = al.saved
      BY <1>2, <1>4 DEF PInv, Counted, Holders, OneResponse
    <2>2. resp' \in Response /\ resp'.mids = Garbage
      BY <1>1, <2>1 DEF PInv, PoolTypes, Response
    <2>3. /\ al' \in Allocators
          /\ al'.refs = 0 /\ al'.own = {} /\ al'.wild = FALSE
          /\ al'.saved = NoResponse /\ al'.live = al.live \ {al.saved}
      <3>1. al' = Free(al, al.saved)
        BY <1>1, <2>1
      <3>2. /\ al' \in Allocators
            /\ al'.refs = al.refs - 1 /\ al'.own = al.own /\ al'.wild = FALSE
            /\ al.refs = 1 => al'.saved = NoResponse /\ al'.live = al.live \ {al.saved}
        BY <2>1, <3>1, FreeSaved
      <3>3. al'.refs = 0
        BY <2>1, <3>2
      <3> QED BY <1>2, <2>1, <3>2, <3>3
    <2>4. PoolTypes' /\ Counted' /\ OneResponse'
      BY <1>1, <1>2, <2>2, <2>3 DEF PInv, PoolTypes, Counted, Holders, OneResponse, Saved
    <2>5. EncoderOwns' /\ LiveIsHeld'
      BY <1>1, <1>2, <2>1, <2>3 DEF PInv, EncoderOwns, LiveIsHeld, Saved
    <2> QED BY <1>3, <2>4, <2>5 DEF PInv
  <1>5. CASE "surfaces" \notin up
    <2>1. al.refs = 0 /\ ~Saved(al) /\ resp' = resp /\ al.live = {} /\ al.wild = FALSE
      BY <1>1, <1>2, <1>5 DEF PInv, Counted, Holders, OneResponse, LiveIsHeld
    <2>2. al' = [al EXCEPT !.refs = -1]
      BY <1>1, <1>2, <2>1 DEF Free
    <2>3. al' \in Allocators
      BY <2>2 DEF PInv, PoolTypes, Allocators
    <2>4. /\ al'.refs = -1 /\ al'.own = {} /\ al'.wild = FALSE
          /\ al'.saved = al.saved /\ al'.live = {}
      <3>1. /\ al'.refs = -1 /\ al'.own = al.own
            /\ al'.saved = al.saved /\ al'.live = al.live
        BY <2>2 DEF PInv, PoolTypes, Allocators
      <3>2. al'.wild = al.wild
        BY <2>2 DEF PInv, PoolTypes, Allocators
      <3> QED BY <1>2, <2>1, <3>1, <3>2
    <2>5. PoolTypes' /\ Counted' /\ OneResponse'
      BY <1>1, <1>2, <1>5, <2>1, <2>3, <2>4
      DEF PInv, PoolTypes, Counted, Holders, OneResponse, Saved
    <2>6. EncoderOwns' /\ LiveIsHeld'
      BY <1>1, <1>2, <2>1, <2>4 DEF PInv, EncoderOwns, LiveIsHeld, Saved
    <2> QED BY <1>3, <2>5, <2>6 DEF PInv
  <1> QED BY <1>4, <1>5

LEMMA UnloadPInv ==
  ASSUME PInv, phase = "destory", stage = 4, UnloadAndClose,
         stage' = 5, phase' = "destroyed"
  PROVE  PInv'
  <1>1. /\ up' = up \ ({"plugin", "session"} \cup Device)
        /\ UNCHANGED <<al, resp, runtime>>
    BY DEF UnloadAndClose
  <1>2. up' = {} /\ ("surfaces" \notin up)
    BY <1>1 DEF PInv, InOrder, PoolTypes, Kept, Device
  <1>3. InOrder'
    BY <1>1, <1>2 DEF PInv, InOrder
  <1>4. PoolTypes' /\ Counted' /\ OneResponse' /\ EncoderOwns' /\ LiveIsHeld'
    BY <1>1, <1>2 DEF PInv, PoolTypes, Counted, Holders, OneResponse, EncoderOwns,
                      LiveIsHeld, Saved
  <1> QED BY <1>3, <1>4 DEF PInv

LEMMA DestoryCallPInv == PInv /\ DestoryCall => PInv'
  <1> SUFFICES ASSUME PInv, DestoryCall PROVE PInv'
    OBVIOUS
  <1>1. phase = "destory" /\ stage \in 1 .. 4
    BY DEF DestoryCall, PInv, InOrder
  <1>2. CASE stage = 1 /\ Close("decoder")
    BY <1>1, <1>2, CloseDecoderPInv DEF DestoryCall
  <1>3. CASE stage = 2 /\ Close("encoder")
    BY <1>1, <1>3, CloseEncoderPInv DEF DestoryCall
  <1>4. CASE stage = 3 /\ FreeSurfaces
    BY <1>1, <1>4, FreeSurfacesPInv DEF DestoryCall
  <1>5. CASE stage = 4 /\ UnloadAndClose
    BY <1>1, <1>5, UnloadPInv DEF DestoryCall
  <1> QED BY <1>2, <1>3, <1>4, <1>5 DEF DestoryCall

LEMMA FailsPInv == PInv /\ (InitFails \/ Destory \/ DestoryFails) => PInv'
  <1> SUFFICES ASSUME PInv, InitFails \/ Destory \/ DestoryFails PROVE PInv'
    OBVIOUS
  <1>1. /\ UNCHANGED <<al, resp, runtime>>
        /\ up' \subseteq up /\ ("surfaces" \in up' <=> "surfaces" \in up)
        /\ phase' \in {"failed", "destory", "leaked"}
        /\ stage' \in {stage, 1}
        /\ phase' = "destory" => phase \in {"ready", "failed"} /\ stage' = 1
        /\ phase' = "failed" => phase = "init"
    BY DEF InitFails, Destory, DestoryFails, Ready
  <1>2. InOrder'
    BY <1>1 DEF InOrder
  <1>3. PoolTypes' /\ Counted' /\ OneResponse' /\ EncoderOwns' /\ LiveIsHeld'
    BY <1>1 DEF PInv, PoolTypes, Counted, Holders, OneResponse, EncoderOwns,
                LiveIsHeld, Saved
  <1> QED BY <1>2, <1>3 DEF PInv

(* The steps of GetH264FrameData, and of everybody else. *)
LEMMA QuietPInv == PInv /\ UNCHANGED <<al, stage, phase, up, resp, runtime>> => PInv'
  BY DEF PInv, PoolTypes, InOrder, Counted, Holders, OneResponse, EncoderOwns,
         LiveIsHeld, Saved

LEMMA NextPInv == PInv /\ [Next]_vars => PInv'
  <1> SUFFICES ASSUME PInv, [Next]_vars PROVE PInv'
    OBVIOUS
  <1> DEFINE quiet == UNCHANGED <<al, stage, phase, up, resp, runtime>>
  <1>1. \/ InitCall \/ InitDecoder \/ InitEncoder \/ InitSurfaces \/ DestoryCall
        \/ InitFails \/ DestoryFails \/ Destory
        \/ quiet
    <2>1. CaptureStep => \/ InitCall \/ InitDecoder \/ InitEncoder \/ InitSurfaces
                         \/ DestoryCall \/ InitFails \/ DestoryFails \/ quiet
      BY DEF CaptureStep, Scan, NoSurface, ScanNull, Decoded, Again, Encoded,
             TooLong, CallFails
    <2>2. \A gap \in Gap : RoundBegin(gap) => quiet
      BY DEF RoundBegin, GetFrame
    <2>3. (ThreadStart \/ Paused \/ Crash \/ Produce) => quiet
      BY DEF ThreadStart, Paused, Crash, Produce, capture
    <2>4. Others => quiet
      BY DEF Others, Unlock, Request, Start, Stop, Ending, capture
    <2>5. UNCHANGED vars => quiet
      BY DEF vars, capture
    <2> QED BY <2>1, <2>2, <2>3, <2>4, <2>5 DEF Next, Thread, ThreadEnd
  <1> QED
    BY <1>1, InitCallPInv, InitDecoderPInv, InitEncoderPInv, InitSurfacesPInv,
       DestoryCallPInv, FailsPInv, QuietPInv

LEMMA PoolInvariance == Spec => []PInv
  BY InitPInv, NextPInv, PTL DEF Spec

(* The count of the decode response is the number of its holders, wherever  *)
(* Init returned and however Destory goes.                                  *)
THEOREM HoldersAreCounted == Spec => []HoldersCounted
  <1>1. PInv => HoldersCounted
    BY DEF PInv, Counted, Holders, HoldersCounted
  <1> QED BY PoolInvariance, <1>1, PTL

(* The surfaces captureScreen works with are not released before it gives   *)
(* them back, although the runtime closes first and holds the same ones.    *)
THEOREM PoolIsBacked == Spec => []PoolBacked
  <1>1. PInv => PoolBacked
    BY DEF PInv, Counted, Holders, OneResponse, LiveIsHeld, PoolBacked
  <1> QED BY PoolInvariance, <1>1, PTL

(* No array of surfaces is freed twice, and a Destory that comes to its end *)
(* leaves nothing allocated.                                                *)
THEOREM EndIsClean == Spec => []CleanEnd
  <1>1. PInv => CleanEnd
    BY DEF PInv, InOrder, Counted, Holders, OneResponse, LiveIsHeld, CleanEnd
  <1> QED BY PoolInvariance, <1>1, PTL

-----------------------------------------------------------------------------
(* The types of the rest. *)

CallType ==
  [pc : {"out", "scan", "decode", "encode", "full", "empty", "error", "null"},
   isI : BOOLEAN, frame : Nat, retried : BOOLEAN]

(* GetH264FrameData is not called before Init has returned nor after        *)
(* Destory has begun, and hands on only surfaces of the pool.               *)
CallOK ==
  /\ call \in CallType
  /\ ~Ready => call.pc = "out"
  /\ call.pc = "out" => call.frame = 0
  /\ call.pc \in {"decode", "encode"} => call.frame \in Pool
  /\ call.frame \in {0} \cup Pool

LockedOK == locked \subseteq 1 .. resp.n /\ (phase = "init" => locked = {})

(* count_p leaves a round's choice below Wrap. *)
CountOK == cad.count <= Wrap /\ (thr = "round" => cad.count < Wrap)

Sessions ==
  [first : {"none", "I", "P"}, empty : 0 .. 4, seen : BOOLEAN, rested : BOOLEAN]

ThreadOK ==
  /\ thr \in {"start", "wait", "round", "crashed", "ended"}
  /\ event \in {"clear", "set"} /\ flag \in BOOLEAN /\ ending \in 0 .. 3
  /\ session \in Sessions

TInv == CallOK /\ LockedOK /\ CountOK /\ ThreadOK

LEMMA InitTInv == Init => TInv
  <1> SUFFICES ASSUME Init PROVE TInv
    OBVIOUS
  <1>1. CallOK /\ LockedOK
    BY DEF Init, CaptureInit, CallOK, CallType, LockedOK, Outside, Ready
  <1>2. CountOK /\ ThreadOK
    BY WrapAssumption DEF Init, CountOK, ThreadOK, Sessions
  <1> QED BY <1>1, <1>2 DEF TInv

LEMMA NextCallOK ==
  RInv /\ PInv /\ CallOK /\ LockedOK /\ [Next]_vars => CallOK' /\ LockedOK'
  <1> SUFFICES ASSUME RInv, PInv, CallOK, LockedOK, [Next]_vars
               PROVE  CallOK' /\ LockedOK'
    OBVIOUS
  <1> USE DEF CallOK, LockedOK
  <1>0. Pool \subseteq 1 .. resp.n /\ resp.n \in Nat
    BY DEF Pool, PInv, PoolTypes, Response
  <1>1. CASE InitCall \/ InitDecoder \/ InitEncoder \/ InitSurfaces \/ InitFails
    <2>1. phase = "init" /\ call' = call /\ locked' = locked
      BY <1>1 DEF InitCall, InitDecoder, InitEncoder, InitSurfaces, InitFails, Acquires
    <2> QED BY <2>1 DEF Ready
  <1>2. CASE DestoryCall \/ DestoryFails
    <2>1. /\ phase = "destory" /\ phase' \in {"destory", "destroyed", "leaked"}
          /\ call' = call /\ locked' = locked
      BY <1>2 DEF DestoryCall, DestoryFails
    <2>2. resp'.n = resp.n
      BY <1>2 DEF DestoryCall, DestoryFails, Close, FreeSurfaces, UnloadAndClose,
                  PInv, PoolTypes, Response
    <2> QED BY <2>1, <2>2 DEF Ready
  <1>3. CASE Destory
    BY <1>3 DEF Destory, Ready, Pool
  <1>4. ASSUME NEW gap \in Gap, RoundBegin(gap) PROVE CallOK' /\ LockedOK'
    <2>1. GetFrame(cad'.bflag) /\ cad' = Choice(cad, gap)
      BY <1>4 DEF RoundBegin
    <2>2. /\ call' = [pc |-> "scan", isI |-> cad'.bflag, frame |-> 0, retried |-> FALSE]
          /\ Ready /\ UNCHANGED <<phase, up, resp, locked>>
      BY <2>1 DEF GetFrame
    <2>3. cad'.bflag \in BOOLEAN
      BY NextRInv DEF RInv, CadType
    <2> QED BY <2>2, <2>3 DEF CallType, Ready, Pool
  <1>5. CASE Scan
    <2>1. PICK i \in Pool \cup {call.frame} :
            /\ call' = [call EXCEPT !.pc = "decode", !.frame = i]
            /\ i \in Pool
      BY <1>5 DEF Scan
    <2>2. call.pc = "scan" /\ UNCHANGED <<phase, up, resp, locked>>
      BY <1>5 DEF Scan
    <2>3. call'.pc = "decode" /\ call'.frame = i /\ i \in Nat /\ i \in Pool
      BY <1>0, <2>1 DEF CallType
    <2>4. call' \in CallType
      BY <2>1, <2>3 DEF CallType
    <2>5. Pool' = Pool
      BY <2>2 DEF Pool
    <2> QED BY <2>2, <2>3, <2>4, <2>5 DEF Ready
  <1>6. CASE Decoded \/ Again
    <2>1. /\ call.pc \in {"decode", "encode"} /\ call.frame \in Pool
          /\ locked' \subseteq locked \cup {call.frame}
          /\ UNCHANGED <<phase, up, resp>>
      BY <1>6 DEF Decoded, Again, MayLock
    <2>2. call' = [call EXCEPT !.pc = "encode"]
          \/ call' = [call EXCEPT !.pc = "scan", !.retried = TRUE]
      BY <1>6 DEF Decoded, Again
    <2>3. call'.pc \in {"encode", "scan"} /\ call'.frame = call.frame
      BY <2>2 DEF CallType
    <2>4. call' \in CallType
      BY <2>2 DEF CallType
    <2>5. LockedOK'
      BY <1>0, <2>1 DEF Ready
    <2> QED BY <2>1, <2>3, <2>4, <2>5 DEF Ready, Pool
  <1>7. CASE NoSurface \/ ScanNull \/ Encoded \/ TooLong \/ CallFails
    <2>1. PICK p \in {"empty", "null", "full", "error"} :
            call' = [call EXCEPT !.pc = p]
      BY <1>7 DEF NoSurface, ScanNull, Encoded, TooLong, CallFails
    <2>2. call.pc # "out" /\ UNCHANGED <<phase, up, resp, locked>>
      BY <1>7 DEF NoSurface, ScanNull, Encoded, TooLong, CallFails
    <2>3. call'.pc = p /\ call'.frame = call.frame
      BY <2>1 DEF CallType
    <2>4. call' \in CallType
      BY <2>1 DEF CallType
    <2> QED BY <2>2, <2>3, <2>4 DEF Ready, Pool
  <1>8. CASE Produce
    BY <1>8 DEF Produce, Outside, CallType, Ready, Pool
  <1>9. CASE Unlock
    BY <1>9 DEF Unlock, Ready, Pool
  <1>10. CASE UNCHANGED capture
    BY <1>10 DEF capture, Ready, Pool
  <1>11. (ThreadStart \/ Paused \/ Crash \/ Request \/ Start \/ Stop \/ Ending)
         => UNCHANGED capture
    BY DEF ThreadStart, Paused, Crash, Request, Start, Stop, Ending
  <1> QED
    BY <1>1, <1>2, <1>3, <1>4, <1>5, <1>6, <1>7, <1>8, <1>9, <1>10, <1>11
    DEF Next, Thread, ThreadEnd, Others, CaptureStep, vars

LEMMA NextCountOK == RInv /\ CountOK /\ [Next]_vars => CountOK'
  <1> SUFFICES ASSUME RInv, CountOK, [Next]_vars PROVE CountOK'
    OBVIOUS
  <1> USE WrapAssumption DEF CountOK, RInv, CadType
  <1>1. CASE Paused
    BY <1>1 DEF Paused
  <1>2. CASE Produce
    BY <1>2 DEF Produce
  <1>3. ASSUME NEW gap \in Gap, RoundBegin(gap) PROVE CountOK'
    <2>1. cad' = Choice(cad, gap)
      BY <1>3 DEF RoundBegin
    <2>2. cad'.count = IF cad.count >= Wrap THEN 0 ELSE cad.count
      BY <2>1 DEF Choice
    <2> QED BY <2>2
  <1>4. (ThreadStart \/ Crash \/ ThreadEnd \/ Others \/ UNCHANGED vars)
        => cad' = cad /\ (thr' = thr \/ thr' # "round")
    BY DEF ThreadStart, Crash, ThreadEnd, Others, Request, Start, Stop, Ending, vars
  <1>5. (CaptureStep /\ UNCHANGED <<thr, cad, control, history>>) => CountOK'
    OBVIOUS
  <1> QED BY <1>1, <1>2, <1>3, <1>4, <1>5 DEF Next, Thread

LEMMA SessionEdit ==
  ASSUME NEW s \in Sessions, NEW f \in {"none", "I", "P"}, NEW e \in 0 .. 4
  PROVE  [s EXCEPT !.first = f, !.empty = e] \in Sessions
  BY DEF Sessions

LEMMA NextThreadOK == CallOK /\ ThreadOK /\ [Next]_vars => ThreadOK'
  <1> SUFFICES ASSUME CallOK, ThreadOK, [Next]_vars PROVE ThreadOK'
    OBVIOUS
  <1> USE DEF ThreadOK
  <1>1. CASE ThreadStart \/ Crash \/ ThreadEnd
    BY <1>1 DEF ThreadStart, Crash, ThreadEnd, control, history
  <1>2. CASE Paused
    BY <1>2 DEF Paused, control, Sessions
  <1>3. ASSUME NEW gap \in Gap, RoundBegin(gap) PROVE ThreadOK'
    BY <1>3 DEF RoundBegin, control
  <1>4. CASE Produce
    <2>1. thr' = "wait" /\ UNCHANGED control
      BY <1>4 DEF Produce
    <2> DEFINE more == IF session.empty = 4 THEN 4 ELSE session.empty + 1
               mode == IF call.isI THEN "I" ELSE "P"
               left == IF call.isI THEN 0 ELSE session.empty
    <2>2. more \in 0 .. 4 /\ left \in 0 .. 4 /\ mode \in {"I", "P"}
      BY DEF Sessions
    <2>3. \/ session' = session
          \/ session' = [session EXCEPT !.empty = more]
          \/ session' = [session EXCEPT !.first = mode, !.empty = left]
      BY <1>4 DEF Produce
    <2> HIDE DEF more, mode, left
    <2>4. session' \in Sessions
      <3>1. [session EXCEPT !.empty = more] \in Sessions
        BY <2>2 DEF Sessions
      <3>2. [session EXCEPT !.first = mode, !.empty = left] \in Sessions
        BY <2>2, SessionEdit
      <3> QED BY <2>3, <3>1, <3>2
    <2> QED BY <2>1, <2>4 DEF control
  <1>5. CASE (Request \/ Ending) /\ ending < 3
    BY <1>5 DEF Request, Ending, history
  <1>6. CASE Start \/ Stop
    <2>1. thr' = thr /\ event' = event /\ ending' = ending /\ flag' \in BOOLEAN
      BY <1>6 DEF Start, Stop
    <2> DEFINE first == [session EXCEPT !.first = "none", !.empty = 0]
    <2>2. \/ session' = session \/ session' = [first EXCEPT !.rested = session.seen]
          \/ session' = [session EXCEPT !.seen = FALSE]
      BY <1>6 DEF Start, Stop
    <2>3. first \in Sessions
      <3>1. session \in Sessions /\ "none" \in {"none", "I", "P"} /\ 0 \in 0 .. 4
        OBVIOUS
      <3> QED BY <3>1, SessionEdit
    <2> HIDE DEF first
    <2>4. session.seen = TRUE \/ session.seen = FALSE
      BY DEF Sessions
    <2>5. session' \in Sessions
      BY <2>2, <2>3, <2>4 DEF Sessions
    <2> QED BY <2>1, <2>5
  <1>7. CASE UNCHANGED <<thr, control, history>>
    BY <1>7 DEF control, history
  <1>8. UNCHANGED vars => ThreadOK'
    BY <1>7 DEF vars, control, history
  <1>9. CASE Next
    <2>1. ending < 3 /\ (Thread \/ Others)
      BY <1>9 DEF Next
    <2>2. Thread => ThreadOK'
      BY <1>1, <1>2, <1>3, <1>4, <1>7 DEF Thread, control, history
    <2>3. Others => ThreadOK'
      BY <1>5, <1>6, <1>7, <2>1 DEF Others, control, history
    <2> QED BY <2>1, <2>2, <2>3
  <1> QED BY <1>8, <1>9

IInv == RInv /\ PInv /\ TInv

LEMMA InitIInv == Init => IInv
  BY InitRInv, InitPInv, InitTInv DEF IInv

LEMMA NextIInv == IInv /\ [Next]_vars => IInv'
  BY NextRInv, NextPInv, NextCallOK, NextCountOK, NextThreadOK DEF IInv, TInv

LEMMA Invariance == Spec => []IInv
  BY InitIInv, NextIInv, PTL DEF Spec

(* Every variable keeps its type: no count_p beyond its wrap, no surface    *)
(* outside the pool, no holder too many of the decode response.             *)
THEOREM TypeCorrect == Spec => []TypeOK
  <1>1. IInv => TypeOK
    <2> SUFFICES ASSUME RInv, PInv, TInv PROVE TypeOK
      BY DEF IInv
    <2>1. /\ cad \in [count : 0 .. Wrap, nloop : 0 .. 5, bflag : BOOLEAN,
                      bfirst : BOOLEAN]
          /\ run \in Nat
      BY WrapAssumption DEF RInv, CadType, TInv, CountOK
    <2>2. /\ al.saved \in Response /\ al.refs \in -1 .. 2
          /\ al.own \subseteq Purpose /\ al.live \subseteq Response
          /\ al.wild \in BOOLEAN
          /\ stage \in 1 .. Len(Calls) + 1
          /\ phase \in {"init", "ready", "failed", "destory", "destroyed", "leaked"}
          /\ up \subseteq Kept /\ resp \in Response
          /\ runtime \in [decoder : Response, encoder : Response]
      BY CallPlaces DEF PInv, PoolTypes, Allocators
    <2>3. /\ call.pc \in {"out", "scan", "decode", "encode", "full", "empty",
                          "error", "null"}
          /\ call.isI \in BOOLEAN /\ call.frame \in {0} \cup Pool
          /\ call.retried \in BOOLEAN /\ locked \subseteq 1 .. resp.n
      BY DEF TInv, CallOK, CallType, LockedOK
    <2> QED BY <2>1, <2>2, <2>3 DEF TypeOK, TInv, ThreadOK, Sessions
  <1> QED BY Invariance, <1>1, PTL

-----------------------------------------------------------------------------
(* The surface of the decoder.  A scan that begins with a surface is one of *)
(* a further turn of the loop.                                             *)
KeptIsRetried == call.pc = "scan" /\ call.frame # 0 => call.retried

LEMMA NextFresh ==
  IInv /\ KeptIsRetried /\ FreshInputUnlocked /\ [Next]_vars =>
    KeptIsRetried' /\ FreshInputUnlocked'
  <1> SUFFICES ASSUME IInv, KeptIsRetried, FreshInputUnlocked, [Next]_vars
               PROVE  KeptIsRetried' /\ FreshInputUnlocked'
    OBVIOUS
  <1> USE DEF KeptIsRetried, FreshInputUnlocked
  <1>0. call \in CallType
    BY DEF IInv, TInv, CallOK
  <1>1. CASE \/ InitCall \/ InitDecoder \/ InitEncoder \/ InitSurfaces \/ InitFails
             \/ DestoryCall \/ DestoryFails \/ Destory
    BY <1>1 DEF InitCall, InitDecoder, InitEncoder, InitSurfaces, InitFails, Acquires,
                DestoryCall, DestoryFails, Destory
  <1>2. ASSUME NEW gap \in Gap, RoundBegin(gap)
        PROVE  KeptIsRetried' /\ FreshInputUnlocked'
    BY <1>2 DEF RoundBegin, GetFrame
  <1>3. CASE Scan
    <2>1. locked' = locked
      BY <1>3 DEF Scan
    <2>2. CASE \E i \in Pool \ locked : call' = [call EXCEPT !.pc = "decode", !.frame = i]
      BY <1>0, <2>1, <2>2 DEF CallType
    <2>3. CASE call.frame # 0 /\ call' = [call EXCEPT !.pc = "decode"]
      <3>1. call.retried
        BY <1>3, <2>3 DEF Scan
      <3> QED BY <1>0, <2>3, <3>1 DEF CallType
    <2> QED BY <1>3, <2>2, <2>3 DEF Scan
  <1>4. CASE Decoded
    BY <1>0, <1>4 DEF Decoded, CallType
  <1>5. CASE Again
    BY <1>0, <1>5 DEF Again, CallType
  <1>6. CASE NoSurface \/ ScanNull \/ Encoded \/ TooLong \/ CallFails
    BY <1>0, <1>6 DEF NoSurface, ScanNull, Encoded, TooLong, CallFails, CallType
  <1>7. CASE Produce
    BY <1>7 DEF Produce, Outside
  <1>8. CASE Unlock
    BY <1>8 DEF Unlock
  <1>9. (\/ ThreadStart \/ Paused \/ Crash \/ Request \/ Start \/ Stop \/ Ending
         \/ UNCHANGED vars)
        => UNCHANGED <<call, locked>>
    BY DEF ThreadStart, Paused, Crash, Request, Start, Stop, Ending, capture, vars
  <1>10. CASE UNCHANGED <<call, locked>>
    BY <1>10
  <1> QED
    BY <1>1, <1>2, <1>3, <1>4, <1>5, <1>6, <1>7, <1>8, <1>9, <1>10
    DEF Next, Thread, ThreadEnd, Others, CaptureStep

(* GetH264FrameData hands the decoder a surface the runtime still uses only *)
(* after the runtime has answered "again" in the same call.                 *)
THEOREM InputIsFresh == Spec => []FreshInputUnlocked
  <1>1. Init => KeptIsRetried /\ FreshInputUnlocked
    BY DEF Init, CaptureInit, Outside, KeptIsRetried, FreshInputUnlocked
  <1> QED BY InitIInv, NextIInv, <1>1, NextFresh, PTL DEF Spec

-----------------------------------------------------------------------------
(* The first frame of a session. *)

(* A thread that has seen the stop is between two rounds and counts from 0. *)
SeenRests == session.seen /\ ~flag => cad.count = 0 /\ thr # "round"

(* While all rounds since the start came to nothing, count_p is their       *)
(* number, and below 4 it is I frames that are asked for.                   *)
CountsRounds ==
  /\ session.rested /\ session.first = "none" /\ session.empty < 4
  /\ flag \/ ~session.seen
  => cad.count = session.empty /\ (thr = "round" => call.isI)

FInv == SeenRests /\ CountsRounds /\ FirstIsI

LEMMA NextFInv == IInv /\ FInv /\ [Next]_vars => FInv'
  <1> SUFFICES ASSUME IInv, FInv, [Next]_vars PROVE FInv'
    OBVIOUS
  <1> USE DEF FInv, SeenRests, CountsRounds, FirstIsI
  <1>0. /\ call \in CallType /\ session \in Sessions /\ flag \in BOOLEAN
        /\ cad \in [count : Nat, nloop : 0 .. 5, bflag : BOOLEAN, bfirst : BOOLEAN]
    BY DEF IInv, TInv, CallOK, ThreadOK, RInv, CadType
  <1>1. CASE CaptureStep /\ UNCHANGED <<thr, cad, control, history>>
    <2>1. call'.isI = call.isI
      BY <1>0, <1>1
      DEF CaptureStep, InitCall, InitDecoder, InitEncoder, InitSurfaces, InitFails, Acquires,
          DestoryCall, DestoryFails, Scan, NoSurface, ScanNull, Decoded, Again, Encoded,
          TooLong, CallFails, CallType
    <2> QED BY <1>1, <2>1 DEF control, history
  <1>2. CASE ThreadStart \/ Crash \/ ThreadEnd
    BY <1>2 DEF ThreadStart, Crash, ThreadEnd, control, history
  <1>3. CASE Paused
    <2>1. /\ ~flag' /\ thr' = "wait" /\ cad'.count = 0
          /\ session' = [session EXCEPT !.seen = TRUE]
      BY <1>0, <1>3 DEF Paused, control
    <2>2. session'.seen /\ session'.first = session.first /\ session'.empty = session.empty
      BY <1>0, <2>1 DEF Sessions
    <2> QED BY <2>1, <2>2
  <1>4. ASSUME NEW gap \in Gap, RoundBegin(gap) PROVE FInv'
    <2>1. flag /\ flag' /\ session' = session /\ cad' = Choice(cad, gap)
      BY <1>4 DEF RoundBegin, control
    <2>2. ASSUME cad.count <= 3
          PROVE  cad'.count = cad.count /\ cad'.bflag
      <3>1. cad' = IF cad.bfirst THEN [cad EXCEPT !.bflag = TRUE, !.bfirst = FALSE] ELSE cad
        BY <1>0, <2>1, <2>2, WrapAssumption DEF Choice
      <3>2. ~cad.bfirst => cad.bflag
        BY <2>2 DEF IInv, RInv, EarlyIsI
      <3> QED BY <1>0, <3>1, <3>2
    <2>3. call'.isI = cad'.bflag
      BY <1>4 DEF RoundBegin, GetFrame
    <2>4. session.empty \in 0 .. 4
      BY <1>0 DEF Sessions
    <2> QED BY <1>0, <2>1, <2>2, <2>3, <2>4
  <1>5. CASE Produce
    <2>1. /\ thr = "round" /\ thr' = "wait" /\ flag' = flag
          /\ cad'.count = cad.count + 1
      BY <1>0, <1>5 DEF Produce, control
    <2>2. session.empty \in 0 .. 4
      BY <1>0 DEF Sessions
    <2>3. CASE session.first # "none" \/ ~session.rested
      BY <1>5, <2>1, <2>3 DEF Produce
    <2>4. CASE session.first = "none" /\ session.rested /\ call.pc = "empty"
      <3>1. session' = [session EXCEPT !.empty = IF @ = 4 THEN 4 ELSE @ + 1]
        BY <1>5, <2>4 DEF Produce
      <3>2. /\ session'.first = "none" /\ session'.seen = session.seen
            /\ session'.empty = IF session.empty = 4 THEN 4 ELSE session.empty + 1
        BY <1>0, <2>4, <3>1 DEF Sessions
      <3> QED BY <1>0, <2>1, <2>2, <2>4, <3>2
    <2>5. CASE session.first = "none" /\ session.rested /\ call.pc # "empty"
      <3>1. session' = [session EXCEPT !.first = IF call.isI THEN "I" ELSE "P",
                                       !.empty = IF call.isI THEN 0 ELSE @]
        BY <1>5, <2>5 DEF Produce
      <3>2. /\ session'.first = (IF call.isI THEN "I" ELSE "P")
            /\ session'.seen = session.seen
            /\ session'.empty = IF call.isI THEN 0 ELSE session.empty
        BY <1>0, <3>1 DEF Sessions
      <3>3. ~call.isI => session.empty = 4
        <4>1. flag \/ ~session.seen
          BY <2>1
        <4> QED BY <2>1, <2>2, <2>5, <4>1
      <3> QED BY <2>1, <3>2, <3>3
    <2> QED BY <2>3, <2>4, <2>5
  <1>6. CASE Request \/ Ending
    BY <1>6 DEF Request, Ending, capture, history
  <1>7. CASE Unlock /\ UNCHANGED <<thr, cad, control, history>>
    BY <1>7 DEF Unlock, control, history
  <1>8. CASE Start
    <2>1. flag' = TRUE /\ UNCHANGED <<call, thr, cad>>
      BY <1>8 DEF Start, capture
    <2>2. CASE flag
      BY <1>8, <2>1, <2>2 DEF Start
    <2>3. CASE ~flag
      <3>1. session' = [session EXCEPT !.first = "none", !.empty = 0,
                                       !.rested = session.seen]
        BY <1>8, <2>3 DEF Start
      <3>2. /\ session'.first = "none" /\ session'.empty = 0
            /\ session'.rested = session.seen
        BY <1>0, <3>1 DEF Sessions
      <3> QED BY <2>1, <2>3, <3>2
    <2> QED BY <2>2, <2>3
  <1>9. CASE Stop
    <2>1. /\ flag /\ ~flag' /\ UNCHANGED <<call, thr, cad>>
          /\ session' = [session EXCEPT !.seen = FALSE]
      BY <1>9 DEF Stop, capture
    <2>2. /\ ~session'.seen /\ session'.first = session.first
          /\ session'.empty = session.empty /\ session'.rested = session.rested
      BY <1>0, <2>1 DEF Sessions
    <2> QED BY <2>1, <2>2
  <1>10. CASE UNCHANGED vars
    BY <1>10 DEF vars, capture
  <1> QED
    BY <1>1, <1>2, <1>3, <1>4, <1>5, <1>6, <1>7, <1>8, <1>9, <1>10
    DEF Next, Thread, Others

(* After a start the thread had rested before, the first frame that is not  *)
(* empty is an I frame, or the first four rounds were empty: below 4 the    *)
(* choice of AVCaptureThrd stays with the I frame, however often it is lost. *)
THEOREM SessionBeginsWithI == Spec => []FirstIsI
  <1>1. Init => FInv
    BY DEF Init, FInv, SeenRests, CountsRounds, FirstIsI
  <1> QED BY InitIInv, NextIInv, <1>1, NextFInv, PTL DEF Spec, FInv
=============================================================================
