---------------------------- MODULE ScreenCapture ----------------------------
(***************************************************************************)
(* captureScreen: Init acquires the media session, the Direct3D device, the *)
(* screen capture plug-in (a decoder), an encoder and a pool of surfaces,   *)
(* and returns early wherever a call fails; GetH264FrameData takes a surface *)
(* of the pool through the decoder and the encoder; Destory gives           *)
(* everything back, and returns early too.                                  *)
(*                                                                         *)
(* The media runtime is external.  It answers a call with success, with     *)
(* "again" (more data, more surfaces, busy: the loop goes on) or with an     *)
(* error; it uses the allocator for its own surfaces; it keeps the surfaces *)
(* of the pool locked as long as it likes.                                  *)
(***************************************************************************)
EXTENDS SurfaceAllocator, Sequences

CONSTANTS
  PoolSize,    \* the surfaces Init asks for
  RuntimeSize  \* those the decoder asks for

ASSUME SizeAssumption == PoolSize \in Nat \ {0} /\ RuntimeSize \in Nat \ {0}

VARIABLES
  al,        \* the allocator
  stage,     \* Init: the calls that have succeeded; Destory: those made
  phase,     \* "init", "ready", "failed" (Init returned early), "destory",
             \* "destroyed", "leaked" (Destory returned early)
  up,        \* what has been acquired and not given back
  resp,      \* m_responce; its fields begin uninitialised
  runtime,   \* external: the responses the decoder and the encoder hold
  call,      \* GetH264FrameData: where it is, Is_I_frame, m_pFrame
  locked     \* external: the surfaces of the pool in use by the runtime

capture == <<al, stage, phase, up, resp, runtime, call, locked>>

(* The calls of Init in order; each acquires what it is named after. *)
Calls ==
  <<"session", "d3d9", "d3dd9", "manager", "handle", "allocator", "plugin",
    "decquery", "decoder", "encquery", "encoder", "decsurf", "encsurf",
    "surfaces", "bits">>

Kept == {"session", "d3d9", "d3dd9", "manager", "plugin", "decoder",
         "encoder", "surfaces", "bits"}

Device == {"d3d9", "d3dd9", "manager"}

Outside == [pc |-> "out", isI |-> FALSE, frame |-> 0, retried |-> FALSE]

CaptureInit ==
  /\ al = EmptyAllocator
  /\ stage = 1 /\ phase = "init" /\ up = {}
  /\ resp \in [mids : {Garbage}, n : {0, 1}]
  /\ runtime = [decoder |-> NoResponse, encoder |-> NoResponse]
  /\ call = Outside /\ locked = {}

-----------------------------------------------------------------------------
(* Init.  A warning it does not know makes it return although the call has  *)
(* done what it was asked for.                                              *)
Warned == {"session", "plugin", "decoder", "encoder"}

Acquires(s) ==
  /\ phase = "init" /\ Calls[stage] = s
  /\ up' = up \cup ({s} \cap Kept)
  /\ \/ stage' = stage + 1
        /\ phase' = IF stage = Len(Calls) THEN "ready" ELSE "init"
     \/ s \in Warned /\ stage' = 1 /\ phase' = "failed"
  /\ UNCHANGED <<call, locked>>

InitCall ==
  \E s \in {Calls[i] : i \in DOMAIN Calls} \ {"surfaces"} :
    /\ Acquires(s)
    /\ UNCHANGED <<al, resp, runtime>>

(* When the decoder or the encoder is initialised the runtime may call the  *)
(* allocator: for a decode response, or for one of its own.                 *)
InitDecoder ==
  LET r == [mids |-> "decoder", n |-> RuntimeSize]
  IN  /\ Acquires("decoder")
      /\ al' = AllocDecode(al, r)
      /\ runtime' = [runtime EXCEPT !.decoder = r]
      /\ UNCHANGED resp

InitEncoder ==
  LET r == [mids |-> "encoder", n |-> RuntimeSize]
  IN  /\ Acquires("encoder")
      /\ al' = AllocOther(al, r)
      /\ runtime' = [runtime EXCEPT !.encoder = r]
      /\ UNCHANGED resp

(* The sum of the decoder's and the encoder's requests is of the decoder's  *)
(* kind: the decoder's response, if there is one, is the answer to it.      *)
InitSurfaces ==
  /\ Acquires("surfaces")
  /\ \/ /\ Saved(al)
        /\ al' = AllocSaved(al) /\ resp' = al.saved
     \/ /\ ~Saved(al)
        /\ resp' = [mids |-> "surfaces", n |-> PoolSize]
        /\ al' = AllocDecode(al, resp')
  /\ UNCHANGED runtime

(* A call returns an error.  An allocation that fails leaves the maps as    *)
(* they were; that it loses its array of addresses is not looked at.        *)
InitFails ==
  /\ phase = "init"
  /\ Calls[stage] = "surfaces" => ~Saved(al)
  /\ phase' = "failed" /\ stage' = 1
  /\ UNCHANGED <<al, up, resp, runtime, call, locked>>

-----------------------------------------------------------------------------
(* GetH264FrameData *)

Pool == IF "surfaces" \in up THEN 1 .. resp.n ELSE {}

Ready == phase \in {"ready", "failed"}

GetFrame(isI) ==
  /\ Ready /\ call.pc = "out"
  /\ call' = [pc |-> "scan", isI |-> isI, frame |-> 0, retried |-> FALSE]
  /\ UNCHANGED <<al, stage, phase, up, resp, runtime, locked>>

(* Mutant of Scan: the first surface is taken, locked or not. *)
ScanFirst ==
  /\ call.pc = "scan" /\ Pool # {}
  /\ call' = [call EXCEPT !.pc = "decode", !.frame = 1]
  /\ UNCHANGED <<al, stage, phase, up, resp, runtime, locked>>

(* The first surface that is not locked; if there is none, the one of the   *)
(* last turn of the loop, which does not clear m_pFrame.                    *)
Scan ==
  /\ call.pc = "scan"
  /\ \/ \E i \in Pool \ locked :
          /\ \A j \in 1 .. i - 1 : j \in locked
          /\ call' = [call EXCEPT !.pc = "decode", !.frame = i]
     \/ /\ Pool \subseteq locked /\ call.frame # 0
        /\ call' = [call EXCEPT !.pc = "decode"]
  /\ UNCHANGED <<al, stage, phase, up, resp, runtime, locked>>

(* Mutant of NoSurface: the scan is repeated without a bound. *)
NoSurfaceWaiting ==
  /\ call.pc = "scan" /\ call.frame = 0
  /\ Pool \subseteq locked
  /\ UNCHANGED capture

(* After 1000 rounds without a surface the call returns 0.  After an Init   *)
(* that came to no pool the length of the scan is what the uninitialised    *)
(* response says.                                                           *)
NoSurface ==
  /\ call.pc = "scan" /\ call.frame = 0
  /\ Pool \subseteq locked
  /\ "surfaces" \notin up => resp.n = 0
  /\ call' = [call EXCEPT !.pc = "empty"]
  /\ UNCHANGED <<al, stage, phase, up, resp, runtime, locked>>

(* ... and a scan of a pool that is not there reads through a NULL pointer. *)
ScanNull ==
  /\ call.pc = "scan"
  /\ "surfaces" \notin up /\ resp.n # 0
  /\ call' = [call EXCEPT !.pc = "null"]
  /\ UNCHANGED <<al, stage, phase, up, resp, runtime, locked>>

(* The runtime takes the surface and keeps it locked as long as it likes.   *)
MayLock == \E l \in SUBSET {call.frame} : locked' = locked \cup l

Decoded ==
  /\ call.pc = "decode"
  /\ call' = [call EXCEPT !.pc = "encode"]
  /\ MayLock
  /\ UNCHANGED <<al, stage, phase, up, resp, runtime>>

(* DecodeFrameAsync or EncodeFrameAsync says "again". *)
Again ==
  /\ call.pc \in {"decode", "encode"}
  /\ call' = [call EXCEPT !.pc = "scan", !.retried = TRUE]
  /\ MayLock
  /\ UNCHANGED <<al, stage, phase, up, resp, runtime>>

(* Without Init's last step the bitstream has no buffer. *)
Encoded ==
  /\ call.pc = "encode" /\ "bits" \in up
  /\ call' = [call EXCEPT !.pc = "full"]
  /\ UNCHANGED <<al, stage, phase, up, resp, runtime, locked>>

(* The frame is longer than the caller's buffer: it is dropped. *)
TooLong ==
  /\ call.pc = "encode" /\ "bits" \in up
  /\ call' = [call EXCEPT !.pc = "empty"]
  /\ UNCHANGED <<al, stage, phase, up, resp, runtime, locked>>

(* A call or a wait for its end fails: its negative status is returned. *)
CallFails ==
  /\ call.pc \in {"decode", "encode"}
  /\ call' = [call EXCEPT !.pc = "error"]
  /\ UNCHANGED <<al, stage, phase, up, resp, runtime, locked>>

(* external *)
Unlock ==
  /\ \E i \in locked : locked' = locked \ {i}
  /\ UNCHANGED <<al, stage, phase, up, resp, runtime, call>>

-----------------------------------------------------------------------------
(* Destory *)

Destory ==
  /\ Ready /\ call.pc = "out"
  /\ phase' = "destory" /\ stage' = 1
  /\ UNCHANGED <<al, up, resp, runtime, call, locked>>

(* The runtime gives back what it has allocated. *)
Close(s) ==
  /\ s \in up /\ up' = up \ {s}
  /\ al' = IF runtime[s] = NoResponse THEN al ELSE Free(al, runtime[s])
  /\ runtime' = [runtime EXCEPT ![s] = NoResponse]
  /\ UNCHANGED resp

(* The array's address is cleared in the response only when it is released. *)
FreeSurfaces ==
  /\ al' = Free(al, resp)
  /\ resp' = IF al.refs = 1 \/ resp.mids \in al.own
             THEN [resp EXCEPT !.mids = Garbage] ELSE resp
  /\ up' = up \ {"surfaces", "bits"}
  /\ UNCHANGED runtime

UnloadAndClose ==
  /\ {"plugin", "session"} \subseteq up
  /\ up' = up \ ({"plugin", "session"} \cup Device)
  /\ UNCHANGED <<al, resp, runtime>>

DestoryCall ==
  /\ phase = "destory"
  /\ \/ stage = 1 /\ Close("decoder")
     \/ stage = 2 /\ Close("encoder")
     \/ stage = 3 /\ FreeSurfaces
     \/ stage = 4 /\ UnloadAndClose
  /\ stage' = stage + 1
  /\ phase' = IF stage = 4 THEN "destroyed" ELSE "destory"
  /\ UNCHANGED <<call, locked>>

DestoryFails ==
  /\ phase = "destory" /\ stage # 3
  /\ phase' = "leaked"
  /\ \/ up' = up
     \/ stage = 4 /\ "plugin" \in up /\ up' = up \ {"plugin"}
  /\ UNCHANGED <<al, stage, resp, runtime, call, locked>>

CaptureStep ==
  \/ InitCall \/ InitDecoder \/ InitEncoder \/ InitSurfaces \/ InitFails
  \/ Scan \/ NoSurface \/ ScanNull \/ Decoded \/ Again
  \/ Encoded \/ TooLong \/ CallFails
  \/ DestoryCall \/ DestoryFails
=============================================================================
