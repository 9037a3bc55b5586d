-------------------------- MODULE SurfaceAllocator --------------------------
(***************************************************************************)
(* The frame allocator that captureScreen gives to the media runtime       *)
(* (simple_allocator_dx9.cpp): the surfaces it has created and the three   *)
(* maps that say how a response is to be freed.  There is one captureScreen *)
(* and so one key of the two decode maps: each of them is one value here.  *)
(*                                                                         *)
(* A response is the address of its array of surfaces and their number.    *)
(***************************************************************************)
EXTENDS Integers

(* Each array of surfaces is allocated for one purpose and at most once, so *)
(* that its address is named after the purpose.  Garbage is what the field  *)
(* of a response holds that nobody has filled in; that it happens to be the *)
(* address of an array is left out.                                         *)
Purpose == {"decoder", "encoder", "surfaces"}
Garbage == "garbage"

NoResponse == [mids |-> Garbage, n |-> 0]

EmptyAllocator ==
  [saved |-> NoResponse,  \* allocDecodeResponses
   refs  |-> 0,           \* allocDecodeRefCount, 0 if it has no entry
   own   |-> {},          \* the keys of allocResponses
   live  |-> {},          \* the responses whose surfaces have not been released
   wild  |-> FALSE]       \* an array was freed that was not allocated any more

(* A request of the decoder's kind, EXTERNAL_FRAME and FROM_DECODE.  Once a *)
(* response is saved it answers every such request, whatever number of      *)
(* surfaces it asks for, and nothing can fail.                              *)
Saved(a) == a.saved # NoResponse

(* Mutant of AllocSaved: the new holder is not counted. *)
AllocSavedUncounted(a) == a

AllocSaved(a) == [a EXCEPT !.refs = a.refs + 1]

(* _dx9_simple_alloc has created the surfaces of r for the decoder, or for   *)
(* somebody else.                                                           *)
AllocDecode(a, r) ==
  [a EXCEPT !.saved = r, !.refs = a.refs + 1, !.live = a.live \cup {r}]

AllocOther(a, r) ==
  [a EXCEPT !.own = a.own \cup {r.mids}, !.live = a.live \cup {r}]

(* _dx9_simple_free *)
Released(a, r) ==
  [a EXCEPT !.live = a.live \ {r}, !.wild = a.wild \/ r \notin a.live]

(* Mutant of Free: the first one to free the decode response releases it. *)
FreeUncounted(a, r) ==
  IF r.mids \in a.own
  THEN Released([a EXCEPT !.own = a.own \ {r.mids}], r)
  ELSE Released([a EXCEPT !.refs = 0, !.saved = NoResponse], r)

(* Mutant of Free: the count is tested before it is decremented. *)
FreeLate(a, r) ==
  IF r.mids \in a.own
  THEN Released([a EXCEPT !.own = a.own \ {r.mids}], r)
  ELSE IF a.refs = 0
       THEN Released([a EXCEPT !.saved = NoResponse], r)
       ELSE [a EXCEPT !.refs = a.refs - 1]

(* dx9_simple_free: whatever is not in allocResponses counts as the decode  *)
(* response; the last one to free it releases the surfaces.                 *)
Free(a, r) ==
  IF r.mids \in a.own
  THEN Released([a EXCEPT !.own = a.own \ {r.mids}], r)
  ELSE IF a.refs = 1
       THEN Released([a EXCEPT !.refs = 0, !.saved = NoResponse], r)
       ELSE [a EXCEPT !.refs = a.refs - 1]
=============================================================================
