---------------------------- MODULE ToolsProofs ----------------------------
(***************************************************************************)
(* Theorems about Tools: for any number of workers, any card, any requests *)
(* and any sizes of captures.                                              *)
(***************************************************************************)
EXTENDS Tools, SequenceTheorems, TLAPS

-----------------------------------------------------------------------------
(* The sizes of base64 buffers *)

\* A text and its zero fit into the buffer of the screen capture.
LEMMA FrameEnough == ASSUME NEW n \in Nat PROVE EncodedLen(n) < FrameRoom(n) /\ FrameRoom(n) \in Nat
BY DEF EncodedLen, FrameRoom

\* And into that of a file resource.
LEMMA BlobEnough == ASSUME NEW n \in Nat PROVE EncodedLen(n) < BlobRoom(n)
BY DEF EncodedLen, BlobRoom

\* What m characters decode to fits into the buffer of write_binary.
LEMMA DecodeEnough == ASSUME NEW m \in Nat PROVE DecodedLen(m) <= DecodeRoom(m)
BY DEF DecodedLen, DecodeRoom

-----------------------------------------------------------------------------
(* The log *)

Inside == {"open", "stamp", "head", "text", "end"}

\* Who owns the mutex is inside log_write, and the line is as far as the owner is.
LogInv ==
  /\ log_mutex \in Workers \cup {NoOne}
  /\ timebuf \in Workers \cup {NoOne}
  /\ lpc \in [Workers -> LogPCs]
  /\ \A w \in Workers : lpc[w] \in Inside <=> log_mutex = w
  /\ log_mutex = NoOne => line = <<>>
  /\ \A w \in Workers :
       /\ lpc[w] \in {"open", "stamp", "head"} => line = <<>>
       /\ lpc[w] = "head" => timebuf = w
       /\ lpc[w] = "text" => line = << <<w, w>> >>
       /\ lpc[w] = "end" => line = << <<w, w>>, <<w, w>> >>

\* Outside log_write a step leaves the log alone, or enters log_write.
Beside(w) == UNCHANGED fileVars /\ (UNCHANGED lpc \/ Enter(w))

LEMMA BesideLog ==
  ASSUME NEW w \in Workers, Step(w)
  PROVE  LogStep(w) \/ Beside(w)
<1>1. CASE \E r \in Requests : Call(w, r)  BY <1>1 DEF Call, Beside, logVars, fileVars
<1>2. CASE FsStep(w) /\ UNCHANGED <<logVars, frameVars>>  BY <1>2 DEF Beside, logVars, fileVars
<1>3. CASE FrameStep(w)
  BY <1>3 DEF FrameStep, Capture, Jpeg, NoJpeg, Dispatch, Refused, Encode, EncodeFails, Captured, Report,
              Saying, Silent, Beside, logVars, fileVars
<1>4. CASE BuildStatus(w) \/ RenderStatus(w)
  BY <1>4 DEF BuildStatus, RenderStatus, Beside, logVars, fileVars
<1>5. CASE Processed(w)  BY <1>5 DEF Processed, Beside
<1> QED  BY <1>1, <1>2, <1>3, <1>4, <1>5 DEF Step

\* A second piece goes behind the first.
LEMMA AppendSecond == ASSUME NEW a, NEW b PROVE Append(<<a>>, b) = <<a, b>>
<1> DEFINE s == Append(<<a>>, b)
           t == <<a, b>>
<1>1. <<a>> \in Seq({a, b}) /\ Len(<<a>>) = 1 /\ <<a>>[1] = a
  OBVIOUS
<1>2. s \in Seq({a, b}) /\ Len(s) = 2 /\ s[1] = a /\ s[2] = b
  BY <1>1, AppendProperties
<1>3. t \in Seq({a, b}) /\ Len(t) = 2 /\ t[1] = a /\ t[2] = b
  OBVIOUS
<1> QED
  <2> HIDE DEF s, t
  <2>1. \A i \in 1 .. Len(s) : s[i] = t[i]  BY <1>2, <1>3
  <2>2. s = t  BY <1>2, <1>3, <2>1, SeqEqual
  <2> QED  BY <2>2 DEF s, t

LEMMA LogInvStep ==
  ASSUME LogInv, NEW w \in Workers, LogStep(w) \/ Beside(w)
  PROVE  LogInv'
<1> USE LogAssumption DEF LogInv, LogGoto, LogPCs, Inside, fileVars
<1>1. CASE Beside(w)  BY <1>1 DEF Beside, Enter
<1>2. CASE Lock(w)  BY <1>2 DEF Lock
<1>3. CASE Open(w)  BY <1>3 DEF Open
<1>4. CASE OpenFails(w)  BY <1>4 DEF OpenFails
<1>5. CASE Stamp(w)  BY <1>5 DEF Stamp
<1>6. CASE PrintHead(w)
  <2>1. line = <<>> /\ timebuf = w  BY <1>6 DEF PrintHead
  <2>2. line' = << <<w, w>> >>  BY <1>6, <2>1 DEF PrintHead
  <2> QED  BY <1>6, <2>2 DEF PrintHead
<1>7. CASE PrintText(w)
  <2>1. line = << <<w, w>> >>  BY <1>7 DEF PrintText
  <2>2. line' = << <<w, w>>, <<w, w>> >>
    BY <1>7, <2>1, AppendSecond DEF PrintText
  <2> QED  BY <1>7, <2>2 DEF PrintText
<1>8. CASE PrintEnd(w)  BY <1>8 DEF PrintEnd
<1> QED  BY <1>1, <1>2, <1>3, <1>4, <1>5, <1>6, <1>7, <1>8 DEF LogStep

\* The log of Tools, for any number of threads.
THEOREM ToolsLog == Spec => []LogInv
<1>1. Init => LogInv  BY LogAssumption DEF Init, LogInit, LogInv, LogPCs, Inside
<1>2. LogInv /\ [Next]_vars => LogInv'
  <2>1. ASSUME LogInv, NEW w \in Workers, Step(w) PROVE LogInv'
    BY <2>1, BesideLog, LogInvStep
  <2>2. ASSUME LogInv, UNCHANGED vars PROVE LogInv'
    BY <2>2 DEF LogInv, vars, logVars, fileVars
  <2> QED  BY <2>1, <2>2 DEF Next
<1> QED  BY <1>1, <1>2, PTL DEF Spec

\* Lines never mix, and none carries the time of another thread's line.
THEOREM ToolsLines == Spec => []LinesAreWhole
<1>1. ASSUME LogInv PROVE LinesAreWhole
  <2>1. \/ line = <<>>
        \/ \E w \in Workers : line = << <<w, w>> >> \/ line = << <<w, w>>, <<w, w>> >>
    BY <1>1, LogAssumption DEF LogInv, LogPCs, Inside
  <2>2. CASE line = <<>>  BY <2>2 DEF LinesAreWhole
  <2>3. CASE \E w \in Workers : line = << <<w, w>> >>  BY <2>3 DEF LinesAreWhole
  <2>4. CASE \E w \in Workers : line = << <<w, w>>, <<w, w>> >>  BY <2>4 DEF LinesAreWhole
  <2> QED  BY <2>1, <2>2, <2>3, <2>4
<1> QED  BY <1>1, ToolsLog, PTL

-----------------------------------------------------------------------------
(* What the calls hold *)

Things == {"item", "dir", "json", "file", "buf", "decoded", "jpeg", "b64", "status"}

ToolPCs == {"idle", "call", "done", "opendir", "list", "open", "size", "read", "fwrite", "fclose", "failed",
            "stat", "jpeg", "nojpeg", "capture", "refused", "encode", "captured", "report", "status"}
Whys == BeforeOpen \cup {"none", "stat", "opendir", "size", "read", "blob", "mkdir", "write", "report",
                        "delete", "capture", "status"}

\* What a worker may hold where it is.
Holds(p) ==
  IF p \in {"opendir", "open"} THEN {"item"}
  ELSE IF p = "list" THEN {"dir", "json", "item"}
  ELSE IF p = "size" THEN {"file", "item"}
  ELSE IF p = "read" THEN {"file", "buf", "item"}
  ELSE IF p \in {"fwrite", "fclose", "failed"} THEN {"file", "decoded"}
  ELSE IF p \in {"capture", "encode", "refused"} THEN {"jpeg"}
  ELSE IF p \in {"captured", "report"} THEN {"b64"}
  ELSE IF p = "status" THEN {"status"}
  ELSE {}

\* A file has been changed only by a call that got past fopen or remove.
Changes(w) ==
  \/ pc[w] \in {"fwrite", "fclose", "failed", "stat"}
  \/ pc[w] = "done" /\ answer[w].why \notin BeforeOpen

CallInv ==
  /\ pc \in [Workers -> ToolPCs]
  /\ held \in [Workers -> SUBSET Things]
  /\ answer \in [Workers -> [ok : BOOLEAN, why : Whys]]
  /\ changed \in [Workers -> BOOLEAN]
  /\ \A w \in Workers : held[w] \subseteq Holds(pc[w])
  /\ \A w \in Workers : changed[w] => Changes(w)

\* A step of worker w changes no more than its own changed.
Own(w) ==
  /\ changed' \in [Workers -> BOOLEAN]
  /\ \A v \in Workers \ {w} : changed'[v] = changed[v]

\* A return that gives everything back.
LEMMA ReturnChanged ==
  ASSUME CallInv, NEW w \in Workers, NEW what, NEW ok \in BOOLEAN, NEW why \in Whys,
         Return(w, what, ok, why), held[w] \subseteq what,
         Own(w), changed'[w] => why \notin BeforeOpen
  PROVE  CallInv'
<1>1. /\ pc' \in [Workers -> ToolPCs] /\ pc'[w] = "done"
      /\ \A v \in Workers \ {w} : pc'[v] = pc[v]
  <2>1. pc' = [pc EXCEPT ![w] = "done"]  BY DEF Return, Goto
  <2> QED  BY <2>1 DEF CallInv, ToolPCs
<1>2. /\ held' \in [Workers -> SUBSET Things] /\ held'[w] = {}
      /\ \A v \in Workers \ {w} : held'[v] = held[v]
  BY DEF CallInv, Return, Give
<1>3. /\ answer' \in [Workers -> [ok : BOOLEAN, why : Whys]]
      /\ answer'[w].why = why
      /\ \A v \in Workers \ {w} : answer'[v] = answer[v]
  BY DEF CallInv, Return
<1> QED  BY <1>1, <1>2, <1>3 DEF CallInv, Changes, Own

LEMMA ReturnKeeps ==
  ASSUME CallInv, NEW w \in Workers, NEW what, NEW ok \in BOOLEAN, NEW why \in Whys,
         Return(w, what, ok, why), held[w] \subseteq what,
         changed' = changed, changed[w] => why \notin BeforeOpen
  PROVE  CallInv'
<1>1. Own(w)  BY DEF Own, CallInv
<1> QED  BY <1>1, ReturnChanged

\* A step inside a tool that holds no more than it may.
LEMMA MoveKeeps ==
  ASSUME CallInv, NEW w \in Workers, NEW to \in ToolPCs,
         Goto(w, to), NEW h, held' = [held EXCEPT ![w] = h], h \subseteq Holds(to),
         UNCHANGED <<req, answer>>,
         Own(w), changed'[w] => to \in {"fwrite", "fclose", "failed", "stat"}
  PROVE  CallInv'
<1>1. /\ pc' \in [Workers -> ToolPCs] /\ pc'[w] = to
      /\ \A v \in Workers \ {w} : pc'[v] = pc[v]
  BY DEF CallInv, Goto
<1>2. Holds(to) \subseteq Things  BY DEF Holds, Things
<1>3. /\ held' \in [Workers -> SUBSET Things] /\ held'[w] = h
      /\ \A v \in Workers \ {w} : held'[v] = held[v]
  BY <1>2 DEF CallInv
<1> QED  BY <1>1, <1>3 DEF CallInv, Changes, Own

\* Taking and giving back, for a call that has changed no file.
LEMMA TakeKeeps ==
  ASSUME CallInv, NEW w \in Workers, NEW to \in ToolPCs, NEW what,
         Take(w, to, what) \/ Drop(w, to, what), held[w] \cup what \subseteq Holds(to),
         changed' = changed, ~changed[w]
  PROVE  CallInv'
<1>1. CASE Take(w, to, what)
  BY <1>1, MoveKeeps DEF Take, Get, CallInv, Own
<1>2. CASE Drop(w, to, what)
  <2>1. held' = [held EXCEPT ![w] = held[w] \ what] /\ held[w] \ what \subseteq Holds(to)
    BY <1>2 DEF Drop, Give
  <2>2. Own(w) /\ ~changed'[w]  BY DEF CallInv, Own
  <2> QED  BY <1>2, <2>1, <2>2, MoveKeeps DEF Drop
<1> QED  BY <1>1, <1>2

\* The invariant, read at one place of the code.
LEMMA HereHolds ==
  ASSUME CallInv, NEW w \in Workers
  PROVE  /\ held[w] \subseteq Holds(pc[w])
         /\ ~changed[w] \/ pc[w] \in {"fwrite", "fclose", "failed", "stat", "done"}
BY DEF CallInv, Changes

\* What reaches the file is this call's change.
LEMMA ReachOwn ==
  ASSUME CallInv, NEW w \in Workers, NEW k \in 0 .. Len(data[w]), Reach(w, k)
  PROVE  Own(w)
BY DEF Reach, Change, CallInv, Own

\* The file tool gives back whatever it took, on each of its ways out.
LEMMA FsKeeps ==
  ASSUME CallInv, NEW w \in Workers, FsStep(w)
  PROVE  CallInv'
<1> USE HereHolds DEF At, Asked, Valid, Holds, fsVars, ToolPCs, Whys, BeforeOpen
<1>1. CASE Refuse(w)  BY <1>1, ReturnKeeps DEF Refuse
<1>2. CASE Stat(w)  BY <1>2, ReturnKeeps DEF Stat
<1>3. CASE ResourceStat(w)  BY <1>3, ReturnKeeps, TakeKeeps DEF ResourceStat
<1>4. CASE OpenDir(w)  BY <1>4, ReturnKeeps, TakeKeeps DEF OpenDir
<1>5. CASE ListDone(w)  BY <1>5, ReturnKeeps DEF ListDone
<1>6. CASE OpenRead(w)  BY <1>6, ReturnKeeps, TakeKeeps DEF OpenRead
<1>7. CASE Size(w)  BY <1>7, ReturnKeeps, TakeKeeps DEF Size
<1>8. CASE Read(w)  BY <1>8 DEF Read, callVars, CallInv, Changes
<1>9. CASE ReadShort(w)  BY <1>9, ReturnKeeps DEF ReadShort
<1>10. CASE ReadDone(w)  BY <1>10, ReturnKeeps DEF ReadDone
<1>11. CASE BlobNoMemory(w)  BY <1>11, ReturnKeeps DEF BlobNoMemory
<1>12. CASE MkdirStep(w)  BY <1>12 DEF MkdirStep, callVars, CallInv, Changes
<1>13. CASE MkdirFails(w)  BY <1>13, ReturnKeeps DEF MkdirFails
<1>14. CASE MkdirDone(w)  BY <1>14, ReturnKeeps DEF MkdirDone
<1>15. CASE NoMemory(w)  BY <1>15, ReturnKeeps DEF NoMemory, Ready
<1>16. CASE BadBase64(w)  BY <1>16, ReturnKeeps DEF BadBase64, Ready
<1>17. CASE OpenWrite(w)
  <2>1. pc[w] = "call" /\ held[w] = {} /\ ~changed[w]  BY <1>17 DEF OpenWrite, Ready
  <2>2. CASE Return(w, Decoded(w), FALSE, "open") /\ UNCHANGED changed
    BY <2>1, <2>2, ReturnKeeps
  <2>3. CASE /\ Take(w, "fwrite", {"file"} \cup Decoded(w))
             /\ changed' = [changed EXCEPT ![w] = TRUE]
    <3>1. held' = [held EXCEPT ![w] = held[w] \cup ({"file"} \cup Decoded(w))]  BY <2>3 DEF Take, Get
    <3>2. held[w] \cup ({"file"} \cup Decoded(w)) \subseteq Holds("fwrite")  BY <2>1 DEF Decoded
    <3>3. Own(w)  BY <2>3 DEF CallInv, Own
    <3> QED  BY <2>3, <3>1, <3>2, <3>3, MoveKeeps DEF Take
  <2> QED  BY <1>17, <2>2, <2>3 DEF OpenWrite
<1>18. CASE Write(w)
  <2>1. PICK k \in 0 .. Len(data[w]) : Reach(w, k)  BY <1>18 DEF Write
  <2>2. Own(w)  BY <2>1, ReachOwn
  <2>3. PICK to \in {"fclose", "failed"} : Goto(w, to)  BY <1>18 DEF Write
  <2>4. held' = [held EXCEPT ![w] = held[w]] /\ held[w] \subseteq Holds(to)
    BY <1>18 DEF Write, CallInv
  <2> QED  BY <1>18, <2>2, <2>3, <2>4, MoveKeeps DEF Write
<1>19. CASE CloseWritten(w)
  <2>1. PICK k \in 0 .. Len(data[w]) : Reach(w, k)  BY <1>19 DEF CloseWritten
  <2>2. Own(w)  BY <2>1, ReachOwn
  <2>3. /\ held' = [held EXCEPT ![w] = held[w] \ {"file", "decoded"}]
        /\ held[w] \ {"file", "decoded"} \subseteq Holds("stat")
    BY <1>19 DEF CloseWritten, Drop, Give
  <2> QED  BY <1>19, <2>2, <2>3, MoveKeeps DEF CloseWritten, Drop
<1>20. CASE CloseFailed(w)
  <2>1. PICK k \in 0 .. Len(data[w]) : Reach(w, k)  BY <1>20 DEF CloseFailed
  <2>2. Own(w)  BY <2>1, ReachOwn
  <2> QED  BY <1>20, <2>2, ReturnChanged DEF CloseFailed
<1>21. CASE StatWritten(w)  BY <1>21, ReturnKeeps DEF StatWritten
<1>22. CASE Delete(w)
  <2>1. Own(w)  BY <1>22 DEF Delete, Change, CallInv, Own
  <2> QED  BY <1>22, <2>1, ReturnChanged DEF Delete
<1> QED
  BY <1>1, <1>2, <1>3, <1>4, <1>5, <1>6, <1>7, <1>8, <1>9, <1>10, <1>11, <1>12, <1>13, <1>14, <1>15,
     <1>16, <1>17, <1>18, <1>19, <1>20, <1>21, <1>22 DEF FsStep

\* So does the screen capture; it changes no file.
LEMMA FrameKeeps ==
  ASSUME CallInv, NEW w \in Workers, FrameStep(w), UNCHANGED fsVars
  PROVE  CallInv'
<1> USE HereHolds DEF At, Asked, Holds, fsVars, ToolPCs, Whys, BeforeOpen
<1>1. CASE Capture(w)  BY <1>1, TakeKeeps DEF Capture
<1>2. CASE Jpeg(w)  BY <1>2, TakeKeeps DEF Jpeg
<1>3. CASE NoJpeg(w)  BY <1>3, TakeKeeps DEF NoJpeg
<1>4. CASE Dispatch(w)  BY <1>4, TakeKeeps DEF Dispatch
<1>5. CASE Refused(w)
  <2>1. held' = [held EXCEPT ![w] = held[w] \ {"jpeg"}] /\ held[w] \ {"jpeg"} \subseteq Holds("captured")
    BY <1>5 DEF Refused, Drop, Give
  <2>2. Own(w) /\ ~changed'[w]  BY <1>5 DEF Refused, Own, CallInv
  <2> QED  BY <1>5, <2>1, <2>2, MoveKeeps DEF Refused, Drop
<1>6. CASE Encode(w)
  <2>1. /\ held' = [held EXCEPT ![w] = (held[w] \ {"jpeg"}) \cup {"b64"}]
        /\ (held[w] \ {"jpeg"}) \cup {"b64"} \subseteq Holds("captured")
    BY <1>6 DEF Encode
  <2>2. Own(w) /\ ~changed'[w]  BY <1>6 DEF Encode, Own, CallInv
  <2> QED  BY <1>6, <2>1, <2>2, MoveKeeps DEF Encode
<1>7. CASE EncodeFails(w)  BY <1>7, TakeKeeps DEF EncodeFails
<1>8. ("b64" \in held[w]) \in BOOLEAN  OBVIOUS
<1>9. CASE Captured(w)
  <2>1. held[w] \subseteq {"b64"} /\ ~changed[w] /\ changed' = changed  BY <1>9 DEF Captured
  <2>2. CASE Take(w, "report", {})  BY <2>1, <2>2, TakeKeeps
  <2>3. CASE Return(w, {"b64"}, "b64" \in held[w], "capture")  BY <1>8, <2>1, <2>3, ReturnKeeps
  <2> QED  BY <1>9, <2>2, <2>3 DEF Captured
<1>10. CASE Report(w)
  <2>1. held[w] \subseteq {"b64"} /\ ~changed[w] /\ changed' = changed  BY <1>10 DEF Report
  <2>2. Return(w, {"b64"}, "b64" \in held[w], "capture")  BY <1>10 DEF Report
  <2> QED  BY <1>8, <2>1, <2>2, ReturnKeeps
<1> QED  BY <1>1, <1>2, <1>3, <1>4, <1>5, <1>6, <1>7, <1>9, <1>10 DEF FrameStep

\* Between two calls, in the log, and in the system information.
LEMMA OtherKeeps ==
  ASSUME CallInv, NEW w \in Workers,
         \/ \E r \in Requests : Call(w, r)
         \/ BuildStatus(w) \/ RenderStatus(w)
         \/ LogStep(w) /\ UNCHANGED <<callVars, fsVars, frameVars>>
         \/ Processed(w)
  PROVE  CallInv'
<1> USE HereHolds DEF At, Asked, Holds, fsVars, ToolPCs, Whys, BeforeOpen
<1>1. CASE \E r \in Requests : Call(w, r)
  <2>1. /\ held' = held /\ held[w] = {} /\ changed' = changed /\ ~changed[w]
        /\ Goto(w, "call") /\ answer' = answer
    BY <1>1 DEF Call
  <2>2. /\ pc' \in [Workers -> ToolPCs] /\ pc'[w] = "call"
        /\ \A v \in Workers \ {w} : pc'[v] = pc[v]
    BY <2>1 DEF Goto, CallInv
  <2> QED  BY <2>1, <2>2 DEF CallInv, Changes
<1>2. CASE BuildStatus(w)  BY <1>2, TakeKeeps, ReturnKeeps DEF BuildStatus
<1>3. CASE RenderStatus(w)  BY <1>3, ReturnKeeps DEF RenderStatus
<1>4. CASE LogStep(w) /\ UNCHANGED <<callVars, fsVars, frameVars>>
  BY <1>4 DEF callVars, CallInv, Changes
<1>5. CASE Processed(w)
  <2>1. /\ pc' \in [Workers -> ToolPCs] /\ pc'[w] = "idle"
        /\ \A v \in Workers \ {w} : pc'[v] = pc[v]
    BY <1>5 DEF Processed, CallEnd, Goto, CallInv
  <2>2. /\ answer' \in [Workers -> [ok : BOOLEAN, why : Whys]]
        /\ \A v \in Workers \ {w} : answer'[v] = answer[v]
    BY <1>5 DEF Processed, CallEnd, NoAnswer, CallInv
  <2>3. Own(w) /\ ~changed'[w]  BY <1>5 DEF Processed, FsEnd, CallInv, Own
  <2>4. held' = held /\ held[w] = {}  BY <1>5 DEF Processed, CallEnd, CallInv
  <2> QED  BY <2>1, <2>2, <2>3, <2>4 DEF CallInv, Changes, Own
<1> QED  BY <1>1, <1>2, <1>3, <1>4, <1>5

\* What a worker holds, and what it has changed, follows from where it is.
THEOREM ToolsCalls == Spec => []CallInv
<1>1. Init => CallInv
  BY DEF Init, CallInit, FsInit, NoAnswer, CallInv, Holds, Changes, ToolPCs, Whys, BeforeOpen
<1>2. CallInv /\ [Next]_vars => CallInv'
  <2>1. ASSUME CallInv, NEW w \in Workers, Step(w) PROVE CallInv'
    BY <2>1, FsKeeps, FrameKeeps, OtherKeeps DEF Step
  <2>2. ASSUME CallInv, UNCHANGED vars PROVE CallInv'
    BY <2>2 DEF vars, callVars, fsVars, CallInv, Changes
  <2> QED  BY <2>1, <2>2 DEF Next
<1> QED  BY <1>1, <1>2, PTL DEF Spec

\* No call leaves memory, a file or the log's mutex behind, however it ends.
THEOREM ToolsNothingHeld == Spec => []NothingHeld
<1>1. CallInv /\ LogInv => NothingHeld
  BY DEF CallInv, LogInv, NothingHeld, Holds, Inside
<1> QED  BY <1>1, ToolsCalls, ToolsLog, PTL

\* A refused call has changed no file.
THEOREM ToolsRefused == Spec => []RefusedLeavesFiles
<1>1. CallInv => RefusedLeavesFiles
  BY DEF CallInv, Changes, RefusedLeavesFiles
<1> QED  BY <1>1, ToolsCalls, PTL

-----------------------------------------------------------------------------
(* What the calls read and write *)

Files == {"opendir", "open", "list", "size", "read", "fwrite", "fclose", "failed", "stat"}

\* As far as nobody else has touched the file, what was read is its beginning.
Partial(w) ==
  /\ Path(w) \in Paths
  /\ Len(data[w]) <= size[w]
  /\ size[w] <= req[w].limit
  /\ torn[w] \/ /\ size[w] = Len(Content(w))
                /\ data[w] = SubSeq(Content(w), 1, Len(data[w]))

\* As far as nobody else has touched the file, it ends with s, or is s.
Wrote(w, s) ==
  torn[w] \/ IF req[w].append THEN \E u \in Seq(Bytes) : Content(w) = u \o s
             ELSE Content(w) = s

\* What is left to write follows what has been written.
Progress(w) == \E s \in Seq(Bytes) : req[w].text = s \o data[w] /\ Wrote(w, s)

\* What a worker relies on where it is.
Local(w) ==
  /\ pc[w] # "idle" => req[w] \in Requests
  /\ pc[w] \in Files => Path(w) \in Paths
  /\ pc[w] \in {"fwrite", "fclose", "failed", "stat"} => req[w].text \in Seq(Bytes)
  /\ pc[w] \in {"fwrite", "fclose", "failed"} => Progress(w)
  /\ pc[w] = "stat" => lost[w] \/ Wrote(w, req[w].text)
  /\ pc[w] \in {"idle", "call", "open", "size"} => data[w] = <<>>
  /\ pc[w] = "read" => Partial(w)
  /\ pc[w] = "done" /\ answer[w] = [ok |-> TRUE, why |-> "read"] =>
       /\ Partial(w)
       /\ Len(data[w]) = size[w]

DataTypes ==
  /\ req \in [Workers -> Requests \cup {NoRequest}]
  /\ card \in [Paths -> [kind : {"none", "dir", "file"}, data : Seq(Bytes)]]
  /\ data \in [Workers -> Seq(Bytes)]
  /\ size \in [Workers -> Nat]
  /\ torn \in [Workers -> BOOLEAN]
  /\ lost \in [Workers -> BOOLEAN]

DataInv == DataTypes /\ \A w \in Workers : Local(w)

\* The other workers are where they were, and their view of a file that the step
\* changes is torn.
Alone(w) ==
  \A v \in Workers \ {w} :
    /\ pc'[v] = pc[v] /\ req'[v] = req[v] /\ answer'[v] = answer[v]
    /\ data'[v] = data[v] /\ size'[v] = size[v] /\ lost'[v] = lost[v]
    /\ torn'[v] \/ (torn'[v] = torn[v] /\ (Path(v) \in Paths => card'[Path(v)] = card[Path(v)]))

LEMMA AloneKeeps ==
  ASSUME DataInv, NEW w \in Workers, Alone(w), DataTypes', Local(w)'
  PROVE  DataInv'
<1>1. ASSUME NEW v \in Workers \ {w} PROVE Local(v)'
  <2>1. Local(v)  BY <1>1 DEF DataInv
  <2>2. /\ pc'[v] = pc[v] /\ req'[v] = req[v] /\ answer'[v] = answer[v]
        /\ data'[v] = data[v] /\ size'[v] = size[v] /\ lost'[v] = lost[v]
    BY <1>1 DEF Alone
  <2>3. torn'[v] \/ (torn'[v] = torn[v] /\ (Path(v) \in Paths => card'[Path(v)] = card[Path(v)]))
    BY <1>1 DEF Alone
  <2>4. Partial(v) => Partial(v)'
    BY <2>2, <2>3 DEF Partial, Path, Content
  <2>5. Path(v) \in Paths => \A s : Wrote(v, s) => Wrote(v, s)'
    BY <2>2, <2>3 DEF Wrote, Path, Content
  <2>6. Path(v) \in Paths /\ Progress(v) => Progress(v)'
    BY <2>2, <2>5 DEF Progress
  <2> QED  BY <2>1, <2>2, <2>4, <2>5, <2>6 DEF Local, Path, Files
<1> QED  BY <1>1 DEF DataInv

\* A return, with or without something read.
LEMMA ReturnData ==
  ASSUME CallInv, DataInv, NEW w \in Workers, pc[w] # "idle",
         NEW what, NEW ok \in BOOLEAN, NEW why \in Whys, Return(w, what, ok, why),
         UNCHANGED <<card, data, size, torn, lost>>,
         (ok /\ why = "read") => (pc[w] = "read" /\ Len(data[w]) = size[w])
  PROVE  DataInv'
<1>1. /\ pc'[w] = "done" /\ req' = req
      /\ \A v \in Workers \ {w} : pc'[v] = pc[v]
  BY DEF CallInv, Return, Goto
<1>2. /\ answer'[w] = [ok |-> ok, why |-> why]
      /\ \A v \in Workers \ {w} : answer'[v] = answer[v]
  BY DEF CallInv, Return
<1>3. Alone(w)  BY <1>1, <1>2 DEF Alone
<1>4. DataTypes'  BY <1>1 DEF DataInv, DataTypes
<1>5. Local(w)'
  <2>1. Local(w)  BY DEF DataInv
  <2>2. Partial(w) => Partial(w)'  BY <1>1 DEF Partial, Path, Content
  <2>3. answer'[w] = [ok |-> TRUE, why |-> "read"] => ok /\ why = "read"  BY <1>2
  <2> QED  BY <1>1, <2>1, <2>2, <2>3 DEF Local, Files
<1> QED  BY <1>3, <1>4, <1>5, AloneKeeps

\* A step to a place where nothing has been read yet.
LEMMA MoveData ==
  ASSUME CallInv, DataInv, NEW w \in Workers, NEW to \in ToolPCs, Goto(w, to),
         UNCHANGED <<answer, req, card, data, size, torn, lost>>,
         to \notin {"idle", "read", "fwrite", "fclose", "failed", "stat", "done"},
         req[w] \in Requests,
         to \in Files => Path(w) \in Paths,
         to \in {"call", "open", "size"} => data[w] = <<>>
  PROVE  DataInv'
<1>1. pc'[w] = to /\ \A v \in Workers \ {w} : pc'[v] = pc[v]
  BY DEF CallInv, Goto
<1>2. Alone(w)  BY <1>1 DEF Alone
<1>3. DataTypes'  BY DEF DataInv, DataTypes
<1>4. Local(w)'  BY <1>1 DEF Local, Path
<1> QED  BY <1>2, <1>3, <1>4, AloneKeeps

\* A call that is not refused has a path and, when it writes, a text.
LEMMA ValidRequest ==
  ASSUME DataInv, NEW w \in Workers, pc[w] # "idle"
  PROVE  /\ req[w] \in Requests
         /\ req[w].limit \in Nat
         /\ req[w].path # Unsafe => Path(w) \in Paths
         /\ req[w].text \notin {NoText, Garbled} => req[w].text \in Seq(Bytes)
BY FsAssumption DEF FsAssumption, DataInv, DataTypes, Local, Path

\* A step that leaves all of this alone.
LEMMA SameData ==
  ASSUME DataInv, UNCHANGED <<pc, req, answer, card, data, size, torn, lost>>
  PROVE  DataInv'
<1>1. ASSUME NEW w \in Workers PROVE Local(w)'
  <2>1. Local(w)  BY <1>1 DEF DataInv
  <2>2. Partial(w) => Partial(w)'  BY DEF Partial, Path, Content
  <2>3. \A s : Wrote(w, s) => Wrote(w, s)'  BY DEF Wrote, Path, Content
  <2>4. Progress(w) => Progress(w)'  BY <2>3 DEF Progress
  <2> QED  BY <2>1, <2>2, <2>3, <2>4 DEF Local, Path
<1> QED  BY <1>1 DEF DataInv, DataTypes

\* Other tools than the file tool, and what the log does.
LEMMA OtherData ==
  ASSUME CallInv, DataInv, NEW w \in Workers,
         \/ FrameStep(w) /\ UNCHANGED fsVars
         \/ BuildStatus(w) \/ RenderStatus(w)
         \/ LogStep(w) /\ UNCHANGED <<callVars, fsVars, frameVars>>
  PROVE  DataInv'
<1> USE ValidRequest DEF At, Asked, fsVars, ToolPCs, Whys, BeforeOpen, Files
<1>1. CASE LogStep(w) /\ UNCHANGED <<callVars, fsVars, frameVars>>
  BY <1>1, SameData DEF callVars
<1>2. CASE BuildStatus(w)  BY <1>2, ReturnData, MoveData DEF BuildStatus, Take
<1>4. CASE RenderStatus(w)  BY <1>4, ReturnData DEF RenderStatus
<1>3. CASE FrameStep(w) /\ UNCHANGED fsVars
  <2>1. ("b64" \in held[w]) \in BOOLEAN  OBVIOUS
  <2>2. CASE Captured(w) \/ Report(w)
    BY <1>3, <2>1, <2>2, ReturnData, MoveData DEF Captured, Report, Take
  <2>3. CASE Capture(w) \/ Jpeg(w) \/ NoJpeg(w) \/ Dispatch(w)
    BY <1>3, <2>3, MoveData DEF Capture, Jpeg, NoJpeg, Dispatch, Take
  <2>4. CASE Refused(w) \/ Encode(w) \/ EncodeFails(w)
    BY <1>3, <2>4, MoveData DEF Refused, Encode, EncodeFails, Take, Drop
  <2> QED  BY <1>3, <2>2, <2>3, <2>4 DEF FrameStep
<1> QED  BY <1>1, <1>2, <1>3, <1>4

\* Whoever changes a path tears the views that others have of it.
Torn(w) ==
  /\ card' \in [Paths -> [kind : {"none", "dir", "file"}, data : Seq(Bytes)]]
  /\ torn' \in [Workers -> BOOLEAN]
  /\ \A v \in Workers \ {w} :
       torn'[v] \/ (torn'[v] = torn[v] /\ (Path(v) \in Paths => card'[Path(v)] = card[Path(v)]))

LEMMA LeaveTears ==
  ASSUME DataTypes, NEW w \in Workers, NEW p,
         NEW node \in [kind : {"none", "dir", "file"}, data : Seq(Bytes)], Leave(w, p, node)
  PROVE  Torn(w)
<1>1. card' \in [Paths -> [kind : {"none", "dir", "file"}, data : Seq(Bytes)]]
  BY DEF DataTypes, Leave
<1>2. torn' \in [Workers -> BOOLEAN]  BY Zenon DEF DataTypes, Leave
<1>3. ASSUME NEW v \in Workers \ {w}
      PROVE  torn'[v] \/ (torn'[v] = torn[v] /\ (Path(v) \in Paths => card'[Path(v)] = card[Path(v)]))
  <2>1. torn'[v] = (torn[v] \/ Path(v) = p)  BY DEF Leave
  <2>2. torn[v] \in BOOLEAN  BY DEF DataTypes
  <2>3. Path(v) # p /\ Path(v) \in Paths => card'[Path(v)] = card[Path(v)]  BY DEF Leave, DataTypes
  <2> QED  BY <2>1, <2>2, <2>3
<1> QED  BY <1>1, <1>2, <1>3 DEF Torn

\* Bytes written over bytes are bytes.
LEMMA OverwriteType ==
  ASSUME NEW old \in Seq(Bytes), NEW piece \in Seq(Bytes), NEW off \in Int
  PROVE  Overwrite(old, off, piece) \in Seq(Bytes)
<1> DEFINE n == IF off + Len(piece) > Len(old) THEN off + Len(piece) ELSE Len(old)
           byte(k) == IF k > off /\ k <= off + Len(piece) THEN piece[k - off]
                      ELSE IF k <= Len(old) THEN old[k] ELSE 0
<1>1. n \in Nat  OBVIOUS
<1>2. \A k \in 1 .. n : byte(k) \in Bytes
  BY FsAssumption DEF FsAssumption
<1>3. [k \in 1 .. n |-> byte(k)] \in Seq(Bytes)
  <2> HIDE DEF n, byte
  <2> QED  BY <1>1, <1>2
<1> QED  BY <1>3 DEF Overwrite

\* A piece of the text that is left reaches the file.
LEMMA ReachTears ==
  ASSUME DataInv, NEW w \in Workers, pc[w] \in {"fwrite", "fclose", "failed"},
         NEW k \in 0 .. Len(data[w]), Reach(w, k)
  PROVE  Torn(w)
<1> DEFINE piece == SubSeq(data[w], 1, k)
           off == Len(req[w].text) - Len(data[w])
           new == IF req[w].append THEN Content(w) \o piece ELSE Overwrite(Content(w), off, piece)
<1>1. CASE k = 0
  BY <1>1 DEF Reach, Torn, DataInv, DataTypes
<1>2. CASE k # 0
  <2>1. /\ data[w] \in Seq(Bytes) /\ Path(w) \in Paths /\ req[w].text \in Seq(Bytes)
    BY DEF DataInv, DataTypes, Local, Files
  <2>2. piece \in Seq(Bytes)  BY <2>1, SubSeqProperties
  <2>3. Content(w) \in Seq(Bytes)  BY <2>1 DEF DataInv, DataTypes, Content
  <2>4. off \in Int  BY <2>1
  <2>5. Overwrite(Content(w), off, piece) \in Seq(Bytes)
    <3> HIDE DEF piece, off
    <3> QED  BY <2>2, <2>3, <2>4, OverwriteType
  <2>6. Content(w) \o piece \in Seq(Bytes)
    <3> HIDE DEF piece
    <3> QED  BY <2>2, <2>3
  <2>7. new \in Seq(Bytes)
    <3> HIDE DEF piece, off
    <3> QED  BY <2>5, <2>6
  <2>8. Leave(w, Path(w), File(new))  BY <1>2 DEF Reach, Change
  <2> HIDE DEF new
  <2> QED  BY <2>7, <2>8, LeaveTears DEF DataInv, File
<1> QED  BY <1>1, <1>2

\* Bytes written behind the last one are appended.
LEMMA OverwriteEnd ==
  ASSUME NEW s \in Seq(Bytes), NEW piece \in Seq(Bytes)
  PROVE  Overwrite(s, Len(s), piece) = s \o piece
<1> DEFINE n == IF Len(s) + Len(piece) > Len(s) THEN Len(s) + Len(piece) ELSE Len(s)
           byte(k) == IF k > Len(s) /\ k <= Len(s) + Len(piece) THEN piece[k - Len(s)]
                      ELSE IF k <= Len(s) THEN s[k] ELSE 0
           o == [k \in 1 .. n |-> byte(k)]
<1>1. n = Len(s) + Len(piece) /\ n \in Nat  BY LenProperties
<1>2. \A k \in 1 .. n : (s \o piece)[k] = IF k <= Len(s) THEN s[k] ELSE piece[k - Len(s)]
  BY <1>1, ConcatProperties
<1>3. \A k \in 1 .. n : byte(k) = (s \o piece)[k]
  <2> SUFFICES ASSUME NEW k \in 1 .. n PROVE byte(k) = (s \o piece)[k]
    OBVIOUS
  <2>1. k \in Int /\ 1 <= k /\ k <= Len(s) + Len(piece) /\ Len(s) \in Nat  BY <1>1, LenProperties
  <2>2. byte(k) = IF k <= Len(s) THEN s[k] ELSE piece[k - Len(s)]  BY <2>1
  <2> HIDE DEF byte
  <2> QED  BY <1>2, <2>2
<1>4. s \o piece \in Seq(Bytes) /\ Len(s \o piece) = n  BY <1>1, ConcatProperties
<1>5. o = s \o piece
  <2>1. o \in Seq(Bytes) /\ Len(o) = n
    <3>1. \A k \in 1 .. n : byte(k) \in Bytes  BY <1>3, <1>4, ElementOfSeq
    <3> HIDE DEF n, byte
    <3> QED  BY <1>1, <3>1
  <2>2. \A k \in 1 .. n : o[k] = (s \o piece)[k]  BY <1>3
  <2> HIDE DEF o
  <2> QED  BY <1>4, <2>1, <2>2, SeqEqual
<1> QED  BY <1>5 DEF Overwrite

\* Pieces can be put together in any order.
LEMMA Regroup ==
  ASSUME NEW a \in Seq(Bytes), NEW b \in Seq(Bytes), NEW c \in Seq(Bytes)
  PROVE  (a \o b) \o c = a \o (b \o c)
BY ConcatAssociative

\* What reaches the file follows what has been written.
LEMMA ReachWrites ==
  ASSUME DataInv, NEW w \in Workers, pc[w] \in {"fwrite", "fclose", "failed"},
         NEW k \in 0 .. Len(data[w]), Reach(w, k), req' = req
  PROVE  \E s \in Seq(Bytes) :
           req[w].text = s \o SubSeq(data[w], k + 1, Len(data[w])) /\ Wrote(w, s)'
<1> DEFINE d == data[w]
           piece == SubSeq(d, 1, k)
           rest == SubSeq(d, k + 1, Len(d))
<1>1. /\ d \in Seq(Bytes) /\ Path(w) \in Paths /\ req[w].text \in Seq(Bytes) /\ Progress(w)
      /\ Content(w) \in Seq(Bytes) /\ Len(d) \in Nat /\ k \in Nat /\ k <= Len(d)
  BY LenProperties DEF DataInv, DataTypes, Local, Files, Content
<1>2. PICK s \in Seq(Bytes) : req[w].text = s \o d /\ Wrote(w, s)
  BY <1>1 DEF Progress
<1>3. piece \in Seq(Bytes) /\ rest \in Seq(Bytes) /\ d = piece \o rest
  <2> HIDE DEF d
  <2>1. piece \in Seq(Bytes) /\ rest \in Seq(Bytes)  BY <1>1, SubSeqProperties
  <2>2. 1 \in 1 .. Len(d) + 1 /\ k \in 1 - 1 .. Len(d) /\ Len(d) \in k .. Len(d)  BY <1>1
  <2>3. piece \o rest = SubSeq(d, 1, Len(d))  BY <1>1, <2>2, ConcatAdjacentSubSeq
  <2> QED  BY <1>1, <2>1, <2>3, SubSeqFull
<1> HIDE DEF d, piece, rest
<1>4. PICK t \in Seq(Bytes) : t = s \o piece
  BY <1>3, ConcatProperties
<1>5. req[w].text = t \o rest
  <2>1. (s \o piece) \o rest = s \o (piece \o rest)  BY <1>2, <1>3, Regroup
  <2> QED  BY <1>2, <1>3, <1>4, <2>1, Zenon
<1>6. Wrote(w, t)'
  <2>1. CASE k = 0
    <3>1. card' = card /\ torn' = torn  BY <2>1 DEF Reach
    <3>2. piece = <<>>
      <4> HIDE DEF d
      <4>1. SubSeq(d, 1, 0) = <<>>  BY SubSeqEmpty
      <4> QED  BY <2>1, <4>1 DEF piece
    <3>3. t = s  BY <1>4, <3>2, ConcatEmptySeq
    <3> QED  BY <1>2, <3>1, <3>3 DEF Wrote, Content, Path
  <2>2. CASE k # 0
    <3> DEFINE new == IF req[w].append THEN Content(w) \o piece
                      ELSE Overwrite(Content(w), Len(req[w].text) - Len(d), piece)
    <3>1. Leave(w, Path(w), File(new))  BY <2>2 DEF Reach, Change, d, piece
    <3>2. torn'[w] = torn[w]  BY <3>1 DEF Leave
    <3>3. Len(req[w].text) - Len(d) = Len(s)
      <4>1. Len(req[w].text) = Len(s) + Len(d)  BY <1>1, <1>2, ConcatProperties DEF d
      <4> QED  BY <1>1, <4>1, LenProperties
    <3>4. CASE torn[w]  BY <3>2, <3>4 DEF Wrote
    <3>5. CASE ~torn[w] /\ req[w].append
      <4>1. PICK u \in Seq(Bytes) : Content(w) = u \o s  BY <1>2, <3>5 DEF Wrote
      <4>2. (u \o s) \o piece = u \o t
        <5>1. (u \o s) \o piece = u \o (s \o piece)  BY <1>2, <1>3, Regroup
        <5> QED  BY <1>4, <5>1, Zenon
      <4>3. new = u \o t  BY <3>5, <4>1, <4>2
      <4>4. card'[Path(w)] = File(u \o t)  BY <1>1, <3>1, <4>3 DEF Leave, DataInv, DataTypes
      <4>5. Content(w)' = u \o t  BY <4>4 DEF Content, Path, File
      <4> QED  BY <3>5, <4>5 DEF Wrote
    <3>6. CASE ~torn[w] /\ ~req[w].append
      <4>1. Content(w) = s  BY <1>2, <3>6 DEF Wrote
      <4>2. Overwrite(s, Len(s), piece) = t  BY <1>3, <1>4, OverwriteEnd
      <4>3. new = t  BY <3>3, <3>6, <4>1, <4>2
      <4>4. card'[Path(w)] = File(t)  BY <1>1, <3>1, <4>3 DEF Leave, DataInv, DataTypes
      <4>5. Content(w)' = t  BY <4>4 DEF Content, Path, File
      <4> QED  BY <3>6, <4>5 DEF Wrote
    <3> QED  BY <3>4, <3>5, <3>6
  <2> QED  BY <2>1, <2>2
<1> QED  BY <1>5, <1>6 DEF rest, d

\* A step that stays where it is, or goes to a place where nothing is read, with
\* whatever it does to the card.
LEMMA WriteData ==
  ASSUME CallInv, DataInv, NEW w \in Workers, NEW to \in ToolPCs, Goto(w, to),
         UNCHANGED <<answer, req, size>>, Torn(w),
         NEW d \in Seq(Bytes), data' = [data EXCEPT ![w] = d],
         NEW b \in BOOLEAN, lost' = [lost EXCEPT ![w] = b],
         req[w] \in Requests, to \notin {"read", "done"},
         to \in Files => Path(w) \in Paths,
         to \in {"fwrite", "fclose", "failed", "stat"} => req[w].text \in Seq(Bytes),
         to \in {"fwrite", "fclose", "failed"} => Progress(w)',
         to = "stat" => b \/ Wrote(w, req[w].text)',
         to \in {"idle", "call", "open", "size"} => d = <<>>
  PROVE  DataInv'
<1>1. pc'[w] = to /\ \A v \in Workers \ {w} : pc'[v] = pc[v]
  BY DEF CallInv, Goto
<1>2. /\ data' \in [Workers -> Seq(Bytes)] /\ data'[w] = d
      /\ \A v \in Workers \ {w} : data'[v] = data[v]
  BY DEF DataInv, DataTypes
<1>3. /\ lost' \in [Workers -> BOOLEAN] /\ lost'[w] = b
      /\ \A v \in Workers \ {w} : lost'[v] = lost[v]
  BY DEF DataInv, DataTypes
<1>4. Alone(w)  BY <1>1, <1>2, <1>3 DEF Alone, Torn
<1>5. DataTypes'  BY <1>2, <1>3 DEF DataInv, DataTypes, Torn
<1>6. Local(w)'
  <2>1. to = "stat" => lost'[w] \/ Wrote(w, req[w].text)'  BY <1>3
  <2> QED  BY <1>1, <1>2, <2>1 DEF Local, Path
<1> QED  BY <1>4, <1>5, <1>6, AloneKeeps

\* A return after the card has been changed.
LEMMA ReturnTorn ==
  ASSUME CallInv, DataInv, NEW w \in Workers, pc[w] # "idle",
         NEW what, NEW ok \in BOOLEAN, NEW why \in Whys \ {"read"}, Return(w, what, ok, why),
         UNCHANGED <<data, size, lost>>, Torn(w)
  PROVE  DataInv'
<1>1. /\ pc'[w] = "done" /\ req' = req
      /\ \A v \in Workers \ {w} : pc'[v] = pc[v]
  BY DEF CallInv, Return, Goto
<1>2. /\ answer'[w] = [ok |-> ok, why |-> why]
      /\ \A v \in Workers \ {w} : answer'[v] = answer[v]
  BY DEF CallInv, Return
<1>3. Alone(w)  BY <1>1, <1>2 DEF Alone, Torn
<1>4. DataTypes'  BY <1>1 DEF DataInv, DataTypes, Torn
<1>5. Local(w)'
  <2>1. Local(w)  BY DEF DataInv
  <2>2. answer'[w] # [ok |-> TRUE, why |-> "read"]  BY <1>2
  <2> QED  BY <1>1, <2>1, <2>2 DEF Local, Files
<1> QED  BY <1>3, <1>4, <1>5, AloneKeeps

\* read_file_bytes: what it knows of the file grows with what it reads.
LEMMA ReadData ==
  ASSUME CallInv, DataInv, NEW w \in Workers,
         OpenRead(w) \/ Size(w) \/ Read(w) \/ ReadShort(w) \/ ReadDone(w) \/ BlobNoMemory(w)
  PROVE  DataInv'
<1> USE DEF At, Asked, Valid, fsVars, ToolPCs, Whys, BeforeOpen
<1>1. /\ Local(w) /\ data[w] \in Seq(Bytes) /\ size[w] \in Nat
      /\ torn[w] \in BOOLEAN /\ lost[w] \in BOOLEAN
  BY DEF DataInv, DataTypes
<1>0. UNCHANGED lost => lost' = [lost EXCEPT ![w] = lost[w]]  BY DEF DataInv, DataTypes
<1>2. CASE ReadShort(w) \/ ReadDone(w) \/ BlobNoMemory(w)
  BY <1>2, ReturnData DEF ReadShort, ReadDone, BlobNoMemory
<1>3. CASE OpenRead(w)
  <2>1. pc[w] \in {"call", "open"} /\ Path(w) \in Paths /\ req[w] \in Requests /\ data[w] = <<>>
    BY <1>1, <1>3, ValidRequest DEF OpenRead, Local, Files, Invalid, BadPath
  <2>2. CASE Return(w, {"item"}, FALSE, "open") /\ UNCHANGED torn
    BY <1>3, <2>1, <2>2, ReturnData DEF OpenRead
  <2>3. CASE Take(w, "size", {"file"}) /\ torn' = [torn EXCEPT ![w] = FALSE]
    <3>1. Torn(w)  BY <1>3, <2>3 DEF OpenRead, Torn, DataInv, DataTypes
    <3>2. data' = [data EXCEPT ![w] = <<>>]  BY <1>3, <2>1 DEF OpenRead, DataInv, DataTypes
    <3> QED  BY <1>0, <1>1, <1>3, <2>1, <2>3, <3>1, <3>2, WriteData DEF OpenRead, Take
  <2> QED  BY <1>3, <2>2, <2>3 DEF OpenRead
<1>4. CASE Size(w)
  <2>1. pc[w] = "size" /\ Path(w) \in Paths /\ req[w] \in Requests /\ data[w] = <<>>
    BY <1>1, <1>4 DEF Size, Local, Files
  <2>2. CASE Return(w, {"file", "item"}, FALSE, "size") /\ UNCHANGED size
    BY <1>4, <2>1, <2>2, ReturnData DEF Size
  <2>3. CASE /\ Len(Content(w)) <= req[w].limit /\ Take(w, "read", {"buf"})
             /\ size' = [size EXCEPT ![w] = Len(Content(w))]
    <3>1. /\ pc'[w] = "read" /\ \A v \in Workers \ {w} : pc'[v] = pc[v]
          /\ UNCHANGED <<req, answer, card, data, torn, lost>>
      BY <1>4, <2>3 DEF Size, Take, Goto, CallInv
    <3>2. Content(w) \in Seq(Bytes)  BY <2>1 DEF DataInv, DataTypes, Content
    <3>3. /\ size' \in [Workers -> Nat] /\ size'[w] = Len(Content(w))
          /\ \A v \in Workers \ {w} : size'[v] = size[v]
      BY <2>3, <3>2, LenProperties DEF DataInv, DataTypes
    <3>4. SubSeq(Content(w), 1, 0) = <<>>  BY <3>2, SubSeqProperties, EmptySeq
    <3>5. Partial(w)'
      <4>1. Content(w)' = Content(w) /\ Path(w)' = Path(w) /\ data'[w] = <<>> /\ Len(data'[w]) = 0
        BY <2>1, <3>1 DEF Content, Path
      <4>2. Len(Content(w)) \in Nat  BY <3>2, LenProperties
      <4>3. Len(data'[w]) <= size'[w] /\ size'[w] <= req'[w].limit  BY <2>3, <3>1, <3>3, <4>1, <4>2
      <4>4. size'[w] = Len(Content(w)') /\ data'[w] = SubSeq(Content(w)', 1, Len(data'[w]))
        BY <3>3, <3>4, <4>1
      <4> QED  BY <2>1, <4>1, <4>3, <4>4 DEF Partial
    <3>6. Local(w)'  BY <2>1, <3>1, <3>5 DEF Local, Path
    <3>7. Alone(w)  BY <3>1, <3>3 DEF Alone
    <3>8. DataTypes'  BY <3>1, <3>3 DEF DataInv, DataTypes
    <3> QED  BY <3>6, <3>7, <3>8, AloneKeeps
  <2> QED  BY <1>4, <2>2, <2>3 DEF Size
<1>5. CASE Read(w)
  <2>1. pc[w] = "read" /\ Path(w) \in Paths /\ req[w] \in Requests /\ Partial(w)
    BY <1>1, <1>5 DEF Read, Local, Files
  <2>2. PICK k \in Len(data[w]) + 1 .. size[w] :
          /\ k <= Len(Content(w))
          /\ data' = [data EXCEPT ![w] = data[w] \o SubSeq(Content(w), Len(data[w]) + 1, k)]
    BY <1>5 DEF Read
  <2>3. UNCHANGED <<pc, req, answer, card, size, torn, lost>>  BY <1>5 DEF Read, callVars
  <2> DEFINE new == data[w] \o SubSeq(Content(w), Len(data[w]) + 1, k)
  <2>4. Content(w) \in Seq(Bytes)  BY <2>1 DEF DataInv, DataTypes, Content
  <2>5. Len(data[w]) \in Nat /\ k \in Nat /\ k <= size[w] /\ k \in Len(data[w]) + 1 .. Len(Content(w))
    BY <1>1, <2>2, <2>4, LenProperties
  <2>6. new \in Seq(Bytes) /\ Len(new) = k
    <3> DEFINE b == SubSeq(Content(w), Len(data[w]) + 1, k)
    <3>1. b \in Seq(Bytes) /\ Len(b) = k - Len(data[w])
      <4> DEFINE c == Content(w)
                 l == Len(data[w])
      <4>1. c \in Seq(Bytes) /\ l \in Nat /\ k \in l + 1 .. Len(c)  BY <2>4, <2>5
      <4> HIDE DEF c, l
      <4>2. SubSeq(c, l + 1, k) \in Seq(Bytes) /\ Len(SubSeq(c, l + 1, k)) = k - l
        BY <4>1, SubSeqProperties
      <4> QED  BY <4>2 DEF c, l
    <3> HIDE DEF b
    <3>2. data[w] \o b \in Seq(Bytes) /\ Len(data[w] \o b) = Len(data[w]) + Len(b)
      BY <1>1, <3>1, ConcatProperties, Zenon
    <3>3. Len(data[w] \o b) = k  BY <2>5, <3>1, <3>2
    <3> QED  BY <3>2, <3>3 DEF b
  <2>7. torn[w] \/ new = SubSeq(Content(w), 1, k)
    <3> DEFINE c == Content(w)
               l == Len(data[w])
    <3>1. 1 \in 1 .. Len(c) + 1 /\ l \in 0 .. Len(c) /\ k \in l .. Len(c) /\ c \in Seq(Bytes)
      BY <2>4, <2>5, LenProperties
    <3>2. SubSeq(c, 1, l) \o SubSeq(c, l + 1, k) = SubSeq(c, 1, k)
      <4> HIDE DEF c, l
      <4>1. l \in 1 - 1 .. Len(c)  BY <3>1
      <4> QED  BY <3>1, <4>1, ConcatAdjacentSubSeq
    <3> QED  BY <2>1, <3>2 DEF Partial
  <2> HIDE DEF new
  <2>8. /\ data' \in [Workers -> Seq(Bytes)] /\ data'[w] = new
        /\ \A v \in Workers \ {w} : data'[v] = data[v]
    BY <2>2, <2>6 DEF DataInv, DataTypes, new
  <2>9. Partial(w)'
    BY <2>1, <2>3, <2>5, <2>6, <2>7, <2>8 DEF Partial, Path, Content
  <2>10. Local(w)'  BY <2>1, <2>3, <2>9 DEF Local, Path
  <2>11. Alone(w)  BY <2>3, <2>8 DEF Alone
  <2>12. DataTypes'  BY <2>3, <2>8 DEF DataInv, DataTypes
  <2> QED  BY <2>10, <2>11, <2>12, AloneKeeps
<1> QED  BY <1>2, <1>3, <1>4, <1>5

\* The actions that change files, and whoever has one of them open.
LEMMA ChangeData ==
  ASSUME CallInv, DataInv, NEW w \in Workers,
         MkdirStep(w) \/ OpenWrite(w) \/ Write(w) \/ CloseWritten(w) \/ CloseFailed(w) \/ Delete(w)
  PROVE  DataInv'
<1> USE DEF At, Asked, Valid, fsVars, ToolPCs, Whys, BeforeOpen
<1>1. /\ Local(w) /\ data[w] \in Seq(Bytes) /\ size[w] \in Nat
      /\ torn[w] \in BOOLEAN /\ lost[w] \in BOOLEAN
  BY DEF DataInv, DataTypes
<1>0. UNCHANGED lost => lost' = [lost EXCEPT ![w] = lost[w]]  BY DEF DataInv, DataTypes
<1>2. UNCHANGED <<card, torn>> => Torn(w)  BY DEF Torn, DataInv, DataTypes
<1>3. UNCHANGED data => data' = [data EXCEPT ![w] = data[w]]  BY DEF DataInv, DataTypes
<1>4. Folder \in [kind : {"none", "dir", "file"}, data : Seq(Bytes)]
      /\ Absent \in [kind : {"none", "dir", "file"}, data : Seq(Bytes)]
  BY DEF Folder, Absent
<1>5. CASE MkdirStep(w)
  <2>1. pc[w] = "call" /\ data[w] = <<>> /\ req[w] \in Requests /\ Goto(w, "call")
        /\ UNCHANGED <<answer, req, size, data, lost>>
    BY <1>1, <1>5 DEF MkdirStep, Local, callVars, Goto, CallInv
  <2>2. Torn(w)
    <3>1. CASE UNCHANGED <<card, torn>>  BY <1>2, <3>1
    <3>2. CASE Leave(w, SubSeq(Path(w), 1, at[w]), Folder)
      BY <1>4, <3>2, LeaveTears DEF DataInv
    <3> QED  BY <1>5, <3>1, <3>2 DEF MkdirStep
  <2> QED  BY <1>0, <1>1, <1>3, <2>1, <2>2, WriteData DEF Files
<1>6. CASE OpenWrite(w)
  <2>1. /\ pc[w] = "call" /\ Path(w) \in Paths /\ req[w] \in Requests
        /\ req[w].text \in Seq(Bytes)
    BY <1>1, <1>6, ValidRequest DEF OpenWrite, Ready, Local, Invalid, BadPath, Writes
  <2>2. CASE Return(w, Decoded(w), FALSE, "open") /\ UNCHANGED <<card, torn, changed, data>>
    BY <1>6, <2>1, <2>2, ReturnData DEF OpenWrite
  <2>3. CASE /\ card' = [card EXCEPT ![Path(w)] = File(IF req[w].append THEN Content(w) ELSE <<>>)]
             /\ torn' = [v \in Workers |-> v # w /\ (torn[v] \/ Path(v) = Path(w))]
             /\ data' = [data EXCEPT ![w] = req[w].text]
             /\ Take(w, "fwrite", {"file"} \cup Decoded(w))
    <3>1. Content(w) \in Seq(Bytes)  BY <2>1 DEF DataInv, DataTypes, Content
    <3>2. card' \in [Paths -> [kind : {"none", "dir", "file"}, data : Seq(Bytes)]]
      <4> DEFINE new == IF req[w].append THEN Content(w) ELSE <<>>
      <4>1. new \in Seq(Bytes)  BY <3>1
      <4> HIDE DEF new
      <4>2. File(new) \in [kind : {"none", "dir", "file"}, data : Seq(Bytes)]  BY <4>1 DEF File
      <4>3. card' = [card EXCEPT ![Path(w)] = File(new)]  BY <2>3 DEF new
      <4> QED  BY <4>2, <4>3 DEF DataInv, DataTypes
    <3>3. torn' \in [Workers -> BOOLEAN]  BY <2>3, Zenon
    <3>4. ASSUME NEW v \in Workers \ {w}
          PROVE  torn'[v] \/ (torn'[v] = torn[v] /\ (Path(v) \in Paths => card'[Path(v)] = card[Path(v)]))
      <4>1. torn'[v] = (torn[v] \/ Path(v) = Path(w))  BY <2>3, <3>4
      <4>2. torn[v] \in BOOLEAN  BY <3>4 DEF DataInv, DataTypes
      <4>3. Path(v) # Path(w) /\ Path(v) \in Paths => card'[Path(v)] = card[Path(v)]
        BY <2>3 DEF DataInv, DataTypes
      <4> QED  BY <4>1, <4>2, <4>3
    <3>5. Torn(w)  BY <3>2, <3>3, <3>4 DEF Torn
    <3>6. /\ data'[w] = req[w].text /\ req' = req
          /\ Content(w)' = IF req[w].append THEN Content(w) ELSE <<>>
      BY <2>1, <2>3 DEF Take, DataInv, DataTypes, Content, Path, File
    <3>7. /\ <<>> \in Seq(Bytes) /\ <<>> \o req[w].text = req[w].text
          /\ Content(w) \o <<>> = Content(w)
      BY <2>1, <3>1, ConcatEmptySeq
    <3>8. Wrote(w, <<>>)'  BY <3>1, <3>6, <3>7 DEF Wrote
    <3>9. Progress(w)'  BY <3>6, <3>7, <3>8 DEF Progress
    <3> QED  BY <1>0, <1>1, <1>6, <2>1, <2>3, <3>5, <3>9, WriteData DEF OpenWrite, Take
  <2> QED  BY <1>6, <2>2, <2>3 DEF OpenWrite
<1>7. CASE Write(w)
  <2>1. pc[w] = "fwrite" /\ Path(w) \in Paths /\ req[w] \in Requests /\ req[w].text \in Seq(Bytes)
    BY <1>1, <1>7 DEF Write, Local, Files
  <2>2. PICK k \in 0 .. Len(data[w]) :
          Reach(w, k) /\ data' = [data EXCEPT ![w] = SubSeq(data[w], k + 1, Len(data[w]))]
    BY <1>7 DEF Write
  <2>3. Torn(w)  BY <2>1, <2>2, ReachTears
  <2>4. SubSeq(data[w], k + 1, Len(data[w])) \in Seq(Bytes)
    BY <1>1, LenProperties, SubSeqProperties
  <2>5. PICK to \in {"fclose", "failed"} : Goto(w, to)  BY <1>7 DEF Write
  <2>6. req' = req  BY <1>7 DEF Write
  <2>7. Progress(w)'
    <3>1. data'[w] = SubSeq(data[w], k + 1, Len(data[w]))  BY <2>2 DEF DataInv, DataTypes
    <3> QED  BY <2>1, <2>2, <2>6, <3>1, ReachWrites DEF Progress
  <2> QED  BY <1>0, <1>1, <1>7, <2>1, <2>2, <2>3, <2>4, <2>5, <2>7, WriteData DEF Write
<1>8. CASE CloseWritten(w)
  <2>1. pc[w] = "fclose" /\ Path(w) \in Paths /\ req[w] \in Requests
    BY <1>1, <1>8 DEF CloseWritten, Local, Files
  <2>2. PICK k \in 0 .. Len(data[w]) :
          Reach(w, k) /\ lost' = [lost EXCEPT ![w] = k < Len(data[w])]
    BY <1>8 DEF CloseWritten
  <2>3. Torn(w)  BY <2>1, <2>2, ReachTears
  <2>4. req' = req /\ req[w].text \in Seq(Bytes)  BY <1>1, <1>8, <2>1 DEF CloseWritten, Drop, Local
  <2>5. (k < Len(data[w])) \/ Wrote(w, req[w].text)'
    <3> SUFFICES ASSUME ~(k < Len(data[w])) PROVE Wrote(w, req[w].text)'
      OBVIOUS
    <3>1. k = Len(data[w])  BY <1>1, LenProperties
    <3>2. SubSeq(data[w], k + 1, Len(data[w])) = <<>>  BY <1>1, <3>1, LenProperties, SubSeqEmpty
    <3>3. PICK s \in Seq(Bytes) : req[w].text = s \o <<>> /\ Wrote(w, s)'
      BY <2>1, <2>2, <2>4, <3>2, ReachWrites
    <3>4. req'[w].text = s  BY <2>4, <3>3, ConcatEmptySeq
    <3> QED  BY <3>3, <3>4 DEF Wrote
  <2>6. (k < Len(data[w])) \in BOOLEAN  OBVIOUS
  <2> QED  BY <1>1, <1>3, <1>8, <2>1, <2>2, <2>3, <2>4, <2>5, <2>6, WriteData DEF CloseWritten, Drop
<1>9. CASE CloseFailed(w)
  <2>1. pc[w] = "failed"  BY <1>9 DEF CloseFailed
  <2>2. Torn(w)  BY <1>9, <2>1, ReachTears DEF CloseFailed
  <2> QED  BY <1>9, <2>1, <2>2, ReturnTorn DEF CloseFailed
<1>10. CASE Delete(w)
  <2>1. pc[w] = "call"  BY <1>10 DEF Delete
  <2>2. CASE UNCHANGED <<card, torn, changed>>
    BY <1>2, <1>10, <2>1, <2>2, ReturnTorn DEF Delete
  <2>3. CASE Change(w, Absent)
    <3>1. Torn(w)  BY <1>4, <2>3, LeaveTears DEF Change, DataInv
    <3> QED  BY <1>10, <2>1, <3>1, ReturnTorn DEF Delete
  <2> QED  BY <1>10, <2>2, <2>3 DEF Delete
<1> QED  BY <1>5, <1>6, <1>7, <1>8, <1>9, <1>10

\* Every step of the file tool.
LEMMA FsData ==
  ASSUME CallInv, DataInv, NEW w \in Workers, FsStep(w)
  PROVE  DataInv'
<1> USE ValidRequest DEF At, Asked, Valid, fsVars, ToolPCs, Whys, BeforeOpen, Files
<1>1. CASE Refuse(w) \/ Stat(w)  BY <1>1, ReturnData DEF Refuse, Stat
<1>2. CASE ResourceStat(w)
  <2>1. pc[w] = "call" /\ Path(w) \in Paths /\ req[w] \in Requests /\ data[w] = <<>>
    BY <1>2 DEF ResourceStat, Invalid, BadPath, DataInv, Local
  <2> QED  BY <1>2, <2>1, ReturnData, MoveData DEF ResourceStat, Take
<1>3. CASE OpenDir(w)
  <2>1. pc[w] \in {"call", "opendir"} /\ Path(w) \in Paths /\ req[w] \in Requests
    BY <1>3 DEF OpenDir, Invalid, BadPath, DataInv, Local
  <2> QED  BY <1>3, <2>1, ReturnData, MoveData DEF OpenDir, Take
<1>4. CASE ListDone(w)  BY <1>4, ReturnData DEF ListDone
<1>5. CASE MkdirFails(w) \/ MkdirDone(w)  BY <1>5, ReturnData DEF MkdirFails, MkdirDone
<1>6. CASE NoMemory(w) \/ BadBase64(w)  BY <1>6, ReturnData DEF NoMemory, BadBase64, Ready
<1>7. CASE StatWritten(w)  BY <1>7, ReturnData DEF StatWritten
<1> QED  BY <1>1, <1>2, <1>3, <1>4, <1>5, <1>6, <1>7, ReadData, ChangeData DEF FsStep

LEMMA DataInvStep ==
  ASSUME CallInv, DataInv, NEW w \in Workers, Step(w)
  PROVE  DataInv'
<1>1. CASE \E r \in Requests : Call(w, r)
  <2>1. PICK r \in Requests : Call(w, r)  BY <1>1
  <2>2. /\ pc[w] = "idle" /\ pc'[w] = "call" /\ \A v \in Workers \ {w} : pc'[v] = pc[v]
        /\ UNCHANGED <<answer, card, data, size, torn, lost>>
    BY <2>1 DEF Call, At, Goto, CallInv, fsVars
  <2>3. /\ req' \in [Workers -> Requests \cup {NoRequest}] /\ req'[w] = r
        /\ \A v \in Workers \ {w} : req'[v] = req[v]
    BY <2>1 DEF Call, DataInv, DataTypes
  <2>4. Alone(w)  BY <2>2, <2>3 DEF Alone
  <2>5. DataTypes'  BY <2>2, <2>3 DEF DataInv, DataTypes
  <2>6. Local(w)'  BY <2>2, <2>3 DEF Local, Files, DataInv
  <2> QED  BY <2>4, <2>5, <2>6, AloneKeeps
<1>2. CASE Processed(w)
  <2>1. /\ pc'[w] = "idle" /\ \A v \in Workers \ {w} : pc'[v] = pc[v]
        /\ card' = card
    BY <1>2 DEF Processed, CallEnd, FsEnd, Goto, CallInv
  <2>2. /\ req' \in [Workers -> Requests \cup {NoRequest}]
        /\ data' \in [Workers -> Seq(Bytes)] /\ data'[w] = <<>>
        /\ size' \in [Workers -> Nat] /\ torn' \in [Workers -> BOOLEAN]
        /\ lost' \in [Workers -> BOOLEAN]
    BY <1>2 DEF Processed, CallEnd, FsEnd, DataInv, DataTypes
  <2>3. \A v \in Workers \ {w} :
          /\ req'[v] = req[v] /\ data'[v] = data[v] /\ size'[v] = size[v] /\ torn'[v] = torn[v]
          /\ answer'[v] = answer[v] /\ lost'[v] = lost[v]
    BY <1>2 DEF Processed, CallEnd, FsEnd, DataInv, DataTypes, CallInv
  <2>4. Alone(w)  BY <2>1, <2>3 DEF Alone
  <2>5. DataTypes'  BY <2>1, <2>2 DEF DataInv, DataTypes
  <2>6. Local(w)'  BY <2>1, <2>2 DEF Local, Files
  <2> QED  BY <2>4, <2>5, <2>6, AloneKeeps
<1> QED  BY <1>1, <1>2, FsData, OtherData DEF Step

\* What the calls read and write, for any number of workers and any files.
THEOREM ToolsData == Spec => []DataInv
<1>1. Init => DataInv
  <2> SUFFICES ASSUME Init PROVE DataInv
    OBVIOUS
  <2>1. Absent \in [kind : {"none", "dir", "file"}, data : Seq(Bytes)]  BY DEF Absent
  <2>2. DataTypes  BY <2>1 DEF Init, CallInit, FsInit, DataTypes
  <2>3. \A w \in Workers : pc[w] = "idle" /\ data[w] = <<>>  BY DEF Init, CallInit, FsInit
  <2>4. \A w \in Workers : Local(w)  BY <2>3 DEF Local, Files
  <2> QED  BY <2>2, <2>4 DEF DataInv
<1>2. CallInv /\ DataInv /\ [Next]_vars => DataInv'
  <2>1. ASSUME CallInv, DataInv, NEW w \in Workers, Step(w) PROVE DataInv'
    BY <2>1, DataInvStep
  <2>2. ASSUME DataInv, UNCHANGED vars PROVE DataInv'
    BY <2>2, SameData DEF vars, callVars, fsVars
  <2> QED  BY <2>1, <2>2 DEF Next
<1> QED  BY <1>1, <1>2, ToolsCalls, PTL DEF Spec

\* A read that succeeds has the bytes that the file had when its size was asked
\* for, within the limit, unless another worker changed the file meanwhile
\* (read_file_bytes, source/tools/fs_ops.c).
THEOREM ToolsReadIsWhole == Spec => []ReadIsWhole
<1>1. ASSUME DataInv PROVE ReadIsWhole
  <2> SUFFICES ASSUME NEW w \in Workers, pc[w] = "done", answer[w] = [ok |-> TRUE, why |-> "read"]
               PROVE  /\ Len(data[w]) = size[w] /\ size[w] <= req[w].limit
                      /\ torn[w] \/ data[w] = Content(w)
    BY DEF ReadIsWhole
  <2>1. Partial(w) /\ Len(data[w]) = size[w]  BY <1>1 DEF DataInv, Local
  <2>2. Content(w) \in Seq(Bytes)  BY <1>1, <2>1 DEF Partial, DataInv, DataTypes, Content
  <2>3. SubSeq(Content(w), 1, Len(Content(w))) = Content(w)  BY <2>2, SubSeqFull
  <2> QED  BY <2>1, <2>3 DEF Partial
<1> QED  BY <1>1, ToolsData, PTL

\* A sequence with its elements in reverse order
LEMMA ReverseProperties ==
  ASSUME NEW S, NEW s \in Seq(S)
  PROVE  /\ Reverse(s) \in Seq(S) /\ Len(Reverse(s)) = Len(s)
         /\ \A i \in 1 .. Len(s) : Reverse(s)[i] = s[Len(s) - i + 1]
<1> DEFINE n == Len(s)
<1>1. n \in Nat  BY LenProperties
<1>2. \A i \in 1 .. n : s[(n - i) + 1] \in S  BY <1>1, ElementOfSeq
<1> DEFINE r == [i \in 1 .. n |-> s[(n - i) + 1]]
<1>3. r \in Seq(S) /\ Len(r) = n /\ \A i \in 1 .. n : r[i] = s[n - i + 1]
  <2> HIDE DEF n
  <2> QED  BY <1>1, <1>2
<1>4. Reverse(s) = r  BY DEF Reverse
<1> QED  BY <1>3, <1>4

\* What is written behind something is its end.
LEMMA SuffixOfConcat ==
  ASSUME NEW u \in Seq(Bytes), NEW s \in Seq(Bytes)
  PROVE  IsSuffix(s, u \o s)
<1> DEFINE t == u \o s
           a == Reverse(s)
           b == Reverse(t)
           n == Len(s)
           m == Len(u)
<1>1. n \in Nat /\ m \in Nat  BY LenProperties
<1>2. /\ t \in Seq(Bytes) /\ Len(t) = m + n
      /\ \A i \in 1 .. m + n : t[i] = IF i <= m THEN u[i] ELSE s[i - m]
  BY ConcatProperties
<1> HIDE DEF t
<1>3. a \in Seq(Bytes) /\ Len(a) = n /\ \A i \in 1 .. n : a[i] = s[n - i + 1]
  BY ReverseProperties
<1>4. b \in Seq(Bytes) /\ Len(b) = m + n /\ \A i \in 1 .. m + n : b[i] = t[m + n - i + 1]
  <2>1. t \in Seq(Bytes)  BY <1>2
  <2>2. /\ b \in Seq(Bytes) /\ Len(b) = Len(t)
        /\ \A i \in 1 .. Len(t) : b[i] = t[Len(t) - i + 1]
    BY <2>1, ReverseProperties
  <2> HIDE DEF b, n, m
  <2>3. Len(t) = m + n  BY <1>2
  <2> QED  BY <1>1, <2>2, <2>3
<1> HIDE DEF a, b, n, m
<1>5. \A i \in 1 .. n : a[i] = b[i]
  <2> SUFFICES ASSUME NEW i \in 1 .. n PROVE a[i] = b[i]
    OBVIOUS
  <2>1. a[i] = s[n - i + 1]  BY <1>3
  <2>2. b[i] = t[m + n - i + 1]  BY <1>1, <1>4
  <2>3. t[m + n - i + 1] = s[(m + n - i + 1) - m]  BY <1>1, <1>2
  <2>4. (m + n - i + 1) - m = n - i + 1  BY <1>1
  <2> QED  BY <2>1, <2>2, <2>3, <2>4
<1>6. SubSeq(b, 1, n) = SubSeq(a, 1, n)
  <2>1. \A i \in 1 .. n : a[i] \in Bytes /\ b[i] \in Bytes
    BY <1>1, <1>3, <1>4, ElementOfSeq
  <2>2. /\ SubSeq(a, 1, n) \in Seq(Bytes) /\ Len(SubSeq(a, 1, n)) = n
        /\ \A i \in 1 .. n : SubSeq(a, 1, n)[i] = a[i]
    BY <1>1, <2>1, SubSeqProperties
  <2>3. /\ SubSeq(b, 1, n) \in Seq(Bytes) /\ Len(SubSeq(b, 1, n)) = n
        /\ \A i \in 1 .. n : SubSeq(b, 1, n)[i] = b[i]
    BY <1>1, <2>1, SubSeqProperties
  <2>4. \A i \in 1 .. n : SubSeq(b, 1, n)[i] = SubSeq(a, 1, n)[i]  BY <1>5, <2>2, <2>3
  <2> QED  BY <2>2, <2>3, <2>4, SeqEqual
<1>7. IsPrefix(a, b)  BY <1>1, <1>3, <1>4, <1>6 DEF IsPrefix
<1> QED  BY <1>7 DEF IsSuffix, a, b, t

\* A write that goes on to report success has put its whole text into the file, or
\* behind what was there, unless another worker changed the file meanwhile or
\* fclose lost bytes (write_text and write_binary, source/tools/fs_ops.c).
THEOREM ToolsWriteIsWhole == Spec => []WriteIsWhole
<1>1. ASSUME DataInv PROVE WriteIsWhole
  <2> SUFFICES ASSUME NEW w \in Workers, pc[w] = "stat", ~torn[w], ~lost[w]
               PROVE  IF req[w].append THEN IsSuffix(req[w].text, Content(w))
                      ELSE Content(w) = req[w].text
    BY DEF WriteIsWhole
  <2>1. Wrote(w, req[w].text) /\ req[w].text \in Seq(Bytes)  BY <1>1 DEF DataInv, Local
  <2>2. CASE req[w].append
    <3>1. PICK u \in Seq(Bytes) : Content(w) = u \o req[w].text  BY <2>1, <2>2 DEF Wrote
    <3> QED  BY <2>1, <2>2, <3>1, SuffixOfConcat
  <2>3. CASE ~req[w].append  BY <2>1, <2>3 DEF Wrote
  <2> QED  BY <2>2, <2>3
<1> QED  BY <1>1, ToolsData, PTL

-----------------------------------------------------------------------------
(* The buffers for base64 *)

\* The room was computed from the size of the picture the worker still has.
Encoded == {"captured", "report", "done"}
RoomInv ==
  /\ jpeg \in [Workers -> Nat]
  /\ room \in [Workers -> Nat]
  /\ \A w \in Workers : room[w] = 0 \/ (room[w] = FrameRoom(jpeg[w]) /\ pc[w] \in Encoded)

\* The file tool never works on a call that has a picture.
LEMMA FsElsewhere ==
  ASSUME CallInv, NEW w \in Workers, FsStep(w)
  PROVE  pc[w] \notin Encoded /\ \A v \in Workers \ {w} : pc'[v] = pc[v]
<1> USE DEF At, Asked, Valid, Ready, Encoded, CallInv
<1>1. pc[w] \notin Encoded
  BY DEF FsStep, Refuse, Stat, ResourceStat, OpenDir, ListDone, OpenRead, Size, Read, ReadShort, ReadDone,
         BlobNoMemory, MkdirStep, MkdirFails, MkdirDone, NoMemory, BadBase64, OpenWrite, Write, CloseWritten,
         CloseFailed, StatWritten, Delete
<1>2. pc' = pc \/ \E to \in ToolPCs : Goto(w, to)
  <2> USE DEF Return, Take, Drop, callVars, ToolPCs
  <2>1. CASE \/ Refuse(w) \/ Stat(w) \/ ResourceStat(w) \/ OpenDir(w) \/ ListDone(w)
             \/ OpenRead(w) \/ Size(w) \/ Read(w) \/ ReadShort(w) \/ ReadDone(w) \/ BlobNoMemory(w)
    BY <2>1 DEF Refuse, Stat, ResourceStat, OpenDir, ListDone, OpenRead, Size, Read, ReadShort, ReadDone,
                BlobNoMemory
  <2>2. CASE \/ MkdirStep(w) \/ MkdirFails(w) \/ MkdirDone(w) \/ NoMemory(w) \/ BadBase64(w)
             \/ OpenWrite(w) \/ Write(w) \/ CloseWritten(w) \/ CloseFailed(w) \/ StatWritten(w) \/ Delete(w)
    BY <2>2 DEF MkdirStep, MkdirFails, MkdirDone, NoMemory, BadBase64, OpenWrite, Write, CloseWritten,
                CloseFailed, StatWritten, Delete
  <2> QED  BY <2>1, <2>2 DEF FsStep
<1> QED  BY <1>1, <1>2 DEF Goto

LEMMA RoomInvStep ==
  ASSUME CallInv, RoomInv, NEW w \in Workers, Step(w)
  PROVE  RoomInv'
<1> USE DEF At, Asked, Goto, Encoded, CallInv, RoomInv
<1>1. CASE \E r \in Requests : Call(w, r)  BY <1>1 DEF Call, frameVars
<1>2. CASE FsStep(w) /\ UNCHANGED <<logVars, frameVars>>  BY <1>2, FsElsewhere DEF frameVars
<1>3. CASE FrameStep(w) /\ UNCHANGED fsVars
  <2>1. CASE Capture(w) \/ Jpeg(w) \/ NoJpeg(w) \/ Refused(w) \/ EncodeFails(w)
    BY <2>1 DEF Capture, Jpeg, NoJpeg, Refused, EncodeFails, Take, Drop, frameVars
  <2>2. CASE Dispatch(w)  BY <2>2, FrameAssumption DEF Dispatch, Take, FrameAssumption
  <2>3. CASE Encode(w)
    <3>1. FrameRoom(jpeg[w]) \in Nat  BY FrameEnough
    <3>2. /\ room' = [room EXCEPT ![w] = FrameRoom(jpeg[w])] /\ jpeg' = jpeg
          /\ pc' = [pc EXCEPT ![w] = "captured"]
      BY <2>3 DEF Encode
    <3> QED  BY <3>1, <3>2
  <2>4. CASE Captured(w) \/ Report(w)
    BY <2>4 DEF Captured, Report, Take, Return, frameVars
  <2> QED  BY <1>3, <2>1, <2>2, <2>3, <2>4 DEF FrameStep
<1>4. CASE BuildStatus(w) \/ RenderStatus(w)
  BY <1>4 DEF BuildStatus, RenderStatus, Take, Return, frameVars
<1>5. CASE LogStep(w) /\ UNCHANGED <<callVars, fsVars, frameVars>>
  BY <1>5 DEF callVars, frameVars
<1>6. CASE Processed(w)  BY <1>6 DEF Processed, CallEnd, FrameEnd
<1> QED  BY <1>1, <1>2, <1>3, <1>4, <1>5, <1>6 DEF Step

\* Base64 never leaves its buffer: the text of a picture or of a file with the
\* zero behind it, and what write_binary decodes, whatever the sizes are
\* (source/tools/cur_frame.c, source/tools/fs_ops.c).
THEOREM ToolsBase64Fits == Spec => []Base64Fits
<1>1. Init => RoomInv  BY DEF Init, FrameInit, RoomInv
<1>2. CallInv /\ RoomInv /\ [Next]_vars => RoomInv'
  <2>1. ASSUME CallInv, RoomInv, NEW w \in Workers, Step(w) PROVE RoomInv'
    BY <2>1, RoomInvStep
  <2>2. ASSUME RoomInv, UNCHANGED vars PROVE RoomInv'
    BY <2>2 DEF RoomInv, vars, callVars, frameVars
  <2> QED  BY <2>1, <2>2 DEF Next
<1>3. ASSUME DataInv, RoomInv PROVE Base64Fits
  <2> SUFFICES ASSUME NEW w \in Workers
               PROVE  /\ room[w] > 0 => EncodedLen(jpeg[w]) < room[w]
                      /\ EncodedLen(size[w]) < BlobRoom(size[w])
                      /\ \A m \in EncodedLen(Len(data[w])) .. EncodedLen(Len(data[w])) + 3 :
                           DecodedLen(m) <= DecodeRoom(m)
    BY DEF Base64Fits
  <2>1. jpeg[w] \in Nat /\ size[w] \in Nat /\ Len(data[w]) \in Nat
    BY <1>3, LenProperties DEF DataInv, DataTypes, RoomInv
  <2>2. EncodedLen(Len(data[w])) \in Nat
    <3> DEFINE n == Len(data[w])
    <3>1. n \in Nat  BY <2>1
    <3> HIDE DEF n
    <3>2. EncodedLen(n) \in Nat  BY <3>1 DEF EncodedLen
    <3> QED  BY <3>2 DEF n
  <2>3. room[w] > 0 => EncodedLen(jpeg[w]) < room[w]
    <3>1. EncodedLen(jpeg[w]) < FrameRoom(jpeg[w])  BY <2>1, FrameEnough
    <3>2. room[w] > 0 => room[w] = FrameRoom(jpeg[w])  BY <1>3 DEF RoomInv
    <3> QED  BY <3>1, <3>2
  <2> QED  BY <2>1, <2>2, <2>3, BlobEnough, DecodeEnough
<1> QED  BY <1>1, <1>2, <1>3, ToolsCalls, ToolsData, PTL DEF Spec
=============================================================================
