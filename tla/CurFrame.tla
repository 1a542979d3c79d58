------------------------------ MODULE CurFrame ------------------------------
(***************************************************************************)
(* The screen capture (source/tools/cur_frame.c), as a tool and as a       *)
(* resource: a buffer of 512 KB, a call of the caps:sc service, a second   *)
(* buffer for the base64 text, and log lines in between.  The 4 MB heap is *)
(* shared with everything else: either malloc may fail.                    *)
(***************************************************************************)
EXTENDS ToolCall, Base64

CONSTANTS
  JpegSizes  \* the sizes of a capture

ASSUME FrameAssumption == JpegSizes \subseteq Nat

VARIABLES
  jpeg,  \* jpeg_size
  room   \* how many bytes of base64 were asked for, 0 when out_b64 is NULL
frameVars == <<jpeg, room>>

FrameInit ==
  /\ jpeg = [w \in Workers |-> 0]
  /\ room = [w \in Workers |-> 0]

Saying(w) == Enter(w) /\ UNCHANGED fileVars
Silent    == UNCHANGED logVars

\* "heap free before jpeg malloc"
Capture(w) ==
  /\ Asked(w, {"cur_frame", "screen"})
  /\ Take(w, "jpeg", {})
  /\ Saying(w)
  /\ UNCHANGED frameVars

\* malloc, and "heap free after jpeg malloc"
Jpeg(w) ==
  /\ At(w, "jpeg")
  /\ Take(w, "capture", {"jpeg"}) \/ Take(w, "nojpeg", {})
  /\ Saying(w)
  /\ UNCHANGED frameVars

NoJpeg(w) ==
  /\ At(w, "nojpeg")
  /\ Take(w, "captured", {})
  /\ Saying(w)
  /\ UNCHANGED frameVars

\* serviceDispatchInOut, which may time out, and the line about its result.
Dispatch(w) ==
  /\ At(w, "capture")
  /\ \/ Take(w, "refused", {}) /\ UNCHANGED jpeg
     \/ Take(w, "encode", {}) /\ \E n \in JpegSizes : jpeg' = [jpeg EXCEPT ![w] = n]
  /\ Saying(w)
  /\ UNCHANGED room

\* Mutant: the picture is not freed when the service refuses.
RefusedKeeping(w) ==
  /\ At(w, "refused")
  /\ Drop(w, "captured", {})
  /\ Silent /\ UNCHANGED frameVars

\* Also after "malloc for base64 buffer failed".
Refused(w) ==
  /\ At(w, "refused")
  /\ Drop(w, "captured", {"jpeg"})
  /\ Silent /\ UNCHANGED frameVars

\* malloc, stb_base64_encode, free(jpeg_buf)
Encode(w) ==
  /\ At(w, "encode")
  /\ Goto(w, "captured")
  /\ held' = [held EXCEPT ![w] = (@ \ {"jpeg"}) \cup {"b64"}]
  /\ room' = [room EXCEPT ![w] = FrameRoom(jpeg[w])]
  /\ Silent /\ UNCHANGED <<req, answer, jpeg>>

EncodeFails(w) ==
  /\ At(w, "encode")
  /\ Take(w, "refused", {})
  /\ Saying(w)
  /\ UNCHANGED frameVars

\* capture_jpeg_screenshot has returned: call_cur_frame logs what, and
\* read_cur_frame_resource does not.
Captured(w) ==
  /\ At(w, "captured")
  /\ IF req[w].action = "cur_frame"
     THEN Take(w, "report", {}) /\ Saying(w)
     ELSE Return(w, {"b64"}, "b64" \in held[w], "capture") /\ Silent
  /\ UNCHANGED frameVars

\* "Success, image added to contents" comes after the free.
Report(w) ==
  /\ At(w, "report")
  /\ Return(w, {"b64"}, "b64" \in held[w], "capture")
  /\ IF "b64" \in held[w] THEN Saying(w) ELSE Silent
  /\ UNCHANGED frameVars

FrameEnd(w) ==
  /\ jpeg' = [jpeg EXCEPT ![w] = 0]
  /\ room' = [room EXCEPT ![w] = 0]

FrameStep(w) ==
  \/ Capture(w) \/ Jpeg(w) \/ NoJpeg(w) \/ Dispatch(w) \/ Refused(w)
  \/ Encode(w) \/ EncodeFails(w) \/ Captured(w) \/ Report(w)

-----------------------------------------------------------------------------

FrameTypeOK ==
  /\ jpeg \in [Workers -> JpegSizes \cup {0}]
  /\ room \in [Workers -> Nat]
=============================================================================
