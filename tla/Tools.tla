------------------------------- MODULE Tools -------------------------------
(***************************************************************************)
(* The HTTP workers in the tools that share the card, the heap and the log *)
(* file: the file tool (FsOps), the screen capture (CurFrame), the system  *)
(* information (source/tools/system_info.c), and the log (Log).  A worker  *)
(* is in one call at a time, and logs a line after it.                     *)
(***************************************************************************)
EXTENDS FsOps, CurFrame

vars == <<logVars, callVars, fsVars, frameVars>>

Init == LogInit /\ CallInit /\ FsInit /\ FrameInit

\* handle_http_request has found the tool or the resource.
Call(w, r) ==
  /\ At(w, "idle")
  /\ Goto(w, "call")
  /\ req' = [req EXCEPT ![w] = r]
  /\ UNCHANGED <<held, answer, logVars, fsVars, frameVars>>

\* build_system_status asks clocks, the heap and the card.
BuildStatus(w) ==
  /\ Asked(w, {"system_info", "status"})
  /\ Take(w, "status", {"status"}) \/ Return(w, {}, FALSE, "memory")
  /\ UNCHANGED <<logVars, fsVars, frameVars>>

\* Its text, if there is memory for that and for the item around it.
RenderStatus(w) ==
  /\ At(w, "status")
  /\ \E ok \in BOOLEAN : Return(w, {"status"}, ok, "status")
  /\ UNCHANGED <<logVars, fsVars, frameVars>>

\* The reply has gone out: "Processed request".
Processed(w) ==
  /\ At(w, "done")
  /\ CallEnd(w) /\ FsEnd(w) /\ FrameEnd(w)
  /\ Enter(w)
  /\ UNCHANGED fileVars

Step(w) ==
  \/ \E r \in Requests : Call(w, r)
  \/ FsStep(w) /\ UNCHANGED <<logVars, frameVars>>
  \/ FrameStep(w) /\ UNCHANGED fsVars
  \/ BuildStatus(w) \/ RenderStatus(w)
  \/ LogStep(w) /\ UNCHANGED <<callVars, fsVars, frameVars>>
  \/ Processed(w)

Next == \E w \in Workers : Step(w)

Spec == Init /\ [][Next]_vars

-----------------------------------------------------------------------------

TypeOK == LogTypeOK /\ FsTypeOK /\ FrameTypeOK

\* Whatever fails on the way, a worker without a call holds no memory and no
\* file, and the log's mutex is held by nobody but the thread that is writing.
NothingHeld ==
  /\ \A w \in Workers : pc[w] \in {"idle", "done"} => held[w] = {}
  /\ \A w \in Workers : log_mutex = w => lpc[w] \notin {"out", "lock"}

\* Base64 never leaves its buffer: not the text of a picture or of a file, with
\* the zero behind it, nor what a text of any length decodes to.
Base64Fits ==
  \A w \in Workers :
    /\ room[w] > 0 => EncodedLen(jpeg[w]) < room[w]
    /\ EncodedLen(size[w]) < BlobRoom(size[w])
    /\ \A m \in EncodedLen(Len(data[w])) .. EncodedLen(Len(data[w])) + 3 : DecodedLen(m) <= DecodeRoom(m)
=============================================================================
