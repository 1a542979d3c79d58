------------------------------- MODULE FsOps -------------------------------
(***************************************************************************)
(* The file tool and the file resource (source/tools/fs_ops.c): workers    *)
(* that read and change files of one card, each call a sequence of system  *)
(* calls with those of the other workers in between.                       *)
(*                                                                         *)
(* The file system (newlib and the console) is external.  A file can be    *)
(* opened, written and removed while another worker has it open; every     *)
(* call may fail, and so may malloc.  stdio keeps what it likes of a write *)
(* until fclose.                                                           *)
(***************************************************************************)
EXTENDS ToolCall, SequencesExt

CONSTANTS
  Paths,      \* absolute paths, as sequences of names; <<>> is the root
  Textual,    \* those whose extension has a textual mime type
  Bytes,      \* what files are made of; 0 fills a gap
  CardSize,   \* no file gets longer than this
  Unsafe,     \* a path that is not absolute, or has ".." in it
  NoText,     \* no text among the arguments
  Garbled     \* a text that is no base64

ASSUME FsAssumption ==
  /\ Paths \subseteq Seq(STRING) \ {<<>>}
  /\ \A p \in Paths : Len(p) > 1 => Front(p) \in Paths
  /\ Textual \subseteq Paths
  /\ 0 \in Bytes
  /\ CardSize \in Nat
  /\ Unsafe \notin Paths
  /\ NoText \notin Seq(Bytes) /\ Garbled \notin Seq(Bytes)
  /\ \A r \in Requests :
       /\ r.path \in Paths \cup {Unsafe}
       /\ r.text \in Seq(Bytes) \cup {NoText, Garbled}
       /\ r.text = Garbled => r.action = "write_binary"
       /\ r.append \in BOOLEAN
       /\ r.limit \in Nat

VARIABLES
  card,     \* what is at each path
  at,       \* the loop index of ensure_dir_recursive, in names
  data,     \* the bytes read so far; the bytes fwrite or fclose have yet to write
  size,     \* what ftell said
  torn,     \* history: another worker changed the file since this one opened it
  lost,     \* history: fclose could not write all that stdio had kept
  changed   \* history: this call has changed a file
fsVars == <<card, at, data, size, torn, lost, changed>>

Absent == [kind |-> "none", data |-> <<>>]
Folder == [kind |-> "dir", data |-> <<>>]
File(bytes) == [kind |-> "file", data |-> bytes]

Writes  == {"write_text", "write_binary"}
Actions == Writes \cup {"stat", "list", "read_text", "mkdir", "delete"}

FsInit ==
  /\ card = [p \in Paths |-> Absent]
  /\ at = [w \in Workers |-> 1]
  /\ data = [w \in Workers |-> <<>>]
  /\ size = [w \in Workers |-> 0]
  /\ torn = [w \in Workers |-> FALSE]
  /\ lost = [w \in Workers |-> FALSE]
  /\ changed = [w \in Workers |-> FALSE]

\* The locals of a call, and what the history says of it, go with it.
FsEnd(w) ==
  /\ at' = [at EXCEPT ![w] = 1]
  /\ data' = [data EXCEPT ![w] = <<>>]
  /\ size' = [size EXCEPT ![w] = 0]
  /\ torn' = [torn EXCEPT ![w] = FALSE]
  /\ lost' = [lost EXCEPT ![w] = FALSE]
  /\ changed' = [changed EXCEPT ![w] = FALSE]
  /\ UNCHANGED card

-----------------------------------------------------------------------------
(* The card *)

Path(w)    == req[w].path
Content(w) == card[Path(w)].data
HasParent(p) == Len(p) > 1 => card[Front(p)] = Folder
IsEmpty(p)   == \A q \in Paths : Front(q) = p => card[q] = Absent

\* Worker w leaves node at path p; the others who work there have a torn view.
Leave(w, p, node) ==
  /\ card' = [card EXCEPT ![p] = node]
  /\ torn' = [v \in Workers |-> IF v = w THEN torn[v] ELSE torn[v] \/ Path(v) = p]

Change(w, node) ==
  /\ Leave(w, Path(w), node)
  /\ changed' = [changed EXCEPT ![w] = TRUE]

\* piece, written over old behind its first off bytes
Overwrite(old, off, piece) ==
  [k \in 1 .. (IF off + Len(piece) > Len(old) THEN off + Len(piece) ELSE Len(old)) |->
     IF k > off /\ k <= off + Len(piece) THEN piece[k - off]
     ELSE IF k <= Len(old) THEN old[k] ELSE 0]

\* The first k of the bytes that are left to write reach the file: at its end
\* ("ab"), or where the ones before them ended ("wb").
Reach(w, k) ==
  IF k = 0 THEN UNCHANGED <<card, torn, changed>>
  ELSE LET piece == SubSeq(data[w], 1, k)
           new == IF req[w].append THEN Content(w) \o piece
                  ELSE Overwrite(Content(w), Len(req[w].text) - Len(data[w]), piece)
       IN /\ card[Path(w)].kind = "file"
          /\ Len(new) <= CardSize
          /\ Change(w, File(new))

-----------------------------------------------------------------------------
(* Arguments, stat, list *)

\* is_safe_path, and decode_file_uri for the resource
BadPath(r) == r.path = Unsafe

\* What is refused before anyone looks at the card.
Invalid(r) ==
  \/ BadPath(r)
  \/ r.action \in Writes /\ r.text = NoText
  \/ r.action = "nonsense"
Valid(w, actions) == Asked(w, actions) /\ ~Invalid(req[w])

Refuse(w) ==
  /\ Asked(w, Actions \cup {"resource", "nonsense"})
  /\ Invalid(req[w])
  /\ Return(w, {}, FALSE, "arguments")
  /\ UNCHANGED fsVars

\* There is an answer whether the file exists or not, if there is memory for it.
Stat(w) ==
  /\ Valid(w, {"stat"})
  /\ \E ok \in BOOLEAN : Return(w, {}, ok, "memory")
  /\ UNCHANGED fsVars

\* read_file_resource: stat decides what is read, now or never.
ResourceStat(w) ==
  /\ Valid(w, {"resource"})
  /\ \/ Return(w, {}, FALSE, "stat")
     \/ card[Path(w)].kind = "dir" /\ Take(w, "opendir", {"item"})
     \/ card[Path(w)].kind = "file" /\ Take(w, "open", {"item"})
  /\ UNCHANGED fsVars

OpenDir(w) ==
  /\ Valid(w, {"list"}) \/ At(w, "opendir")
  /\ \/ card[Path(w)] = Folder /\ Take(w, "list", {"dir", "json"})
     \/ Return(w, {"item"}, FALSE, "opendir")
  /\ UNCHANGED fsVars

\* After the last readdir: closedir, and the text, if there is memory for it.
ListDone(w) ==
  /\ At(w, "list")
  /\ \E ok \in BOOLEAN : Return(w, {"dir", "json", "item"}, ok, "memory")
  /\ UNCHANGED fsVars

-----------------------------------------------------------------------------
(* read_file_bytes and its callers *)

OpenRead(w) ==
  /\ Valid(w, {"read_text"}) \/ At(w, "open")
  /\ \/ /\ card[Path(w)].kind = "file"
        /\ Take(w, "size", {"file"})
        /\ torn' = [torn EXCEPT ![w] = FALSE]
     \/ Return(w, {"item"}, FALSE, "open") /\ UNCHANGED torn
  /\ UNCHANGED <<card, at, data, size, lost, changed>>

\* fseek, ftell, fseek, the limit, malloc; a failure closes the file.
Size(w) ==
  /\ At(w, "size")
  /\ \/ /\ Len(Content(w)) <= req[w].limit
        /\ Take(w, "read", {"buf"})
        /\ size' = [size EXCEPT ![w] = Len(Content(w))]
     \/ Return(w, {"file", "item"}, FALSE, "size") /\ UNCHANGED size
  /\ UNCHANGED <<card, at, data, torn, lost, changed>>

\* Some more of what fread was asked for.
Read(w) ==
  /\ At(w, "read")
  /\ \E k \in Len(data[w]) + 1 .. size[w] :
       /\ k <= Len(Content(w))
       /\ data' = [data EXCEPT ![w] = @ \o SubSeq(Content(w), Len(@) + 1, k)]
  /\ UNCHANGED <<callVars, card, at, size, torn, lost, changed>>

\* Mutant: the value fread returns is not looked at.
ReadShortAnswered(w) ==
  /\ At(w, "read")
  /\ Len(data[w]) < size[w]
  /\ Return(w, {"file", "buf", "item"}, TRUE, "read")
  /\ UNCHANGED fsVars

\* The file has become shorter, or the card fails.
ReadShort(w) ==
  /\ At(w, "read")
  /\ Len(data[w]) < size[w]
  /\ Return(w, {"file", "buf", "item"}, FALSE, "read")
  /\ UNCHANGED fsVars

\* The text (up to its first zero), or the base64 of a resource that is none.
ReadDone(w) ==
  /\ At(w, "read")
  /\ Len(data[w]) = size[w]
  /\ Return(w, {"file", "buf", "item"}, TRUE, "read")
  /\ UNCHANGED fsVars

\* mime_is_textual of guess_mime_type: others are sent as base64.
IsTextual(w) == Path(w) \in Textual

\* Mutant: the buffer is not freed when there is no room for the base64.
BlobNoMemoryKeeping(w) ==
  /\ At(w, "read")
  /\ Len(data[w]) = size[w]
  /\ req[w].action = "resource" /\ ~IsTextual(w)
  /\ Return(w, {"file", "item"}, FALSE, "blob")
  /\ UNCHANGED fsVars

BlobNoMemory(w) ==
  /\ At(w, "read")
  /\ Len(data[w]) = size[w]
  /\ req[w].action = "resource" /\ ~IsTextual(w)
  /\ Return(w, {"file", "buf", "item"}, FALSE, "blob")
  /\ UNCHANGED fsVars

-----------------------------------------------------------------------------
(* ensure_parent_dir, ensure_dir_recursive, and the actions that change files *)

\* How many directories there have to be before the action itself.
Depth(w) == Len(Path(w)) - (IF req[w].action = "mkdir" THEN 0 ELSE 1)

\* mkdir of the next prefix; whatever exists there already is as good.
MkdirStep(w) ==
  LET p == SubSeq(Path(w), 1, at[w]) IN
  /\ Valid(w, Writes \cup {"mkdir"})
  /\ at[w] <= Depth(w)
  /\ \/ card[p] # Absent /\ UNCHANGED <<card, torn>>
     \/ card[p] = Absent /\ HasParent(p) /\ Leave(w, p, Folder)
  /\ at' = [at EXCEPT ![w] = @ + 1]
  /\ UNCHANGED <<callVars, data, size, lost, changed>>

MkdirFails(w) ==
  /\ Valid(w, Writes \cup {"mkdir"})
  /\ at[w] <= Depth(w)
  /\ Return(w, {}, FALSE, "parents")
  /\ UNCHANGED fsVars

MkdirDone(w) ==
  /\ Valid(w, {"mkdir"})
  /\ at[w] > Depth(w)
  /\ Return(w, {}, TRUE, "mkdir")
  /\ UNCHANGED fsVars

Ready(w) == Valid(w, Writes) /\ at[w] > Depth(w)

\* write_binary decodes before it opens the file.
Decoded(w) == IF req[w].action = "write_binary" THEN {"decoded"} ELSE {}

NoMemory(w) ==
  /\ Ready(w) /\ Decoded(w) # {}
  /\ Return(w, {}, FALSE, "memory")
  /\ UNCHANGED fsVars

\* Mutant: the file is opened before the text is decoded.
BadBase64Opened(w) ==
  /\ Ready(w) /\ req[w].text = Garbled
  /\ HasParent(Path(w)) /\ card[Path(w)] # Folder
  /\ Change(w, File(IF req[w].append THEN Content(w) ELSE <<>>))
  /\ Return(w, Decoded(w), FALSE, "base64")
  /\ UNCHANGED <<at, data, size, lost>>

BadBase64(w) ==
  /\ Ready(w) /\ req[w].text = Garbled
  /\ Return(w, Decoded(w), FALSE, "base64")
  /\ UNCHANGED fsVars

\* fopen with "wb" or "ab"
OpenWrite(w) ==
  /\ Ready(w) /\ req[w].text # Garbled
  /\ \/ /\ HasParent(Path(w)) /\ card[Path(w)] # Folder
        /\ card' = [card EXCEPT ![Path(w)] = File(IF req[w].append THEN Content(w) ELSE <<>>)]
        /\ torn' = [v \in Workers |-> v # w /\ (torn[v] \/ Path(v) = Path(w))]
        /\ changed' = [changed EXCEPT ![w] = TRUE]
        /\ data' = [data EXCEPT ![w] = req[w].text]
        /\ Take(w, "fwrite", {"file"} \cup Decoded(w))
     \/ /\ Return(w, Decoded(w), FALSE, "open")
        /\ UNCHANGED <<card, torn, changed, data>>
  /\ UNCHANGED <<at, size, lost>>

\* Mutant: the value fwrite returns is not looked at.
WriteUnchecked(w) ==
  /\ At(w, "fwrite")
  /\ \E k \in 0 .. Len(data[w]) :
       /\ Reach(w, k)
       /\ data' \in {[data EXCEPT ![w] = SubSeq(@, k + 1, Len(@))], [data EXCEPT ![w] = <<>>]}
  /\ Goto(w, "fclose")
  /\ UNCHANGED <<req, held, answer, at, size, lost>>

\* fwrite: some bytes reach the file; the rest is kept for fclose, or refused.
Write(w) ==
  /\ At(w, "fwrite")
  /\ \E k \in 0 .. Len(data[w]) :
       /\ Reach(w, k)
       /\ data' = [data EXCEPT ![w] = SubSeq(@, k + 1, Len(@))]
  /\ \E to \in {"fclose", "failed"} : Goto(w, to)
  /\ UNCHANGED <<req, held, answer, at, size, lost>>

\* fclose writes what is left, or some of it; nobody looks at its result.
CloseWritten(w) ==
  /\ At(w, "fclose")
  /\ \E k \in 0 .. Len(data[w]) :
       /\ Reach(w, k)
       /\ lost' = [lost EXCEPT ![w] = k < Len(data[w])]
  /\ Drop(w, "stat", {"file", "decoded"})
  /\ UNCHANGED <<at, data, size>>

CloseFailed(w) ==
  /\ At(w, "failed")
  /\ \E k \in 0 .. Len(data[w]) : Reach(w, k)
  /\ Return(w, {"file", "decoded"}, FALSE, "write")
  /\ UNCHANGED <<at, data, size, lost>>

\* The answer tells the file's size, if there is memory for the text.
StatWritten(w) ==
  /\ At(w, "stat")
  /\ \E ok \in BOOLEAN : Return(w, {}, ok, "report")
  /\ UNCHANGED fsVars

Delete(w) ==
  /\ Valid(w, {"delete"})
  /\ \/ /\ card[Path(w)] # Absent /\ IsEmpty(Path(w))
        /\ Change(w, Absent)
        /\ Return(w, {}, TRUE, "delete")
     \/ Return(w, {}, FALSE, "delete") /\ UNCHANGED <<card, torn, changed>>
  /\ UNCHANGED <<at, data, size, lost>>

FsStep(w) ==
  \/ Refuse(w) \/ Stat(w) \/ ResourceStat(w) \/ OpenDir(w) \/ ListDone(w)
  \/ OpenRead(w) \/ Size(w) \/ Read(w) \/ ReadShort(w) \/ ReadDone(w) \/ BlobNoMemory(w)
  \/ MkdirStep(w) \/ MkdirFails(w) \/ MkdirDone(w)
  \/ NoMemory(w) \/ BadBase64(w) \/ OpenWrite(w) \/ Write(w) \/ CloseWritten(w) \/ CloseFailed(w)
  \/ StatWritten(w) \/ Delete(w)

-----------------------------------------------------------------------------
(* Properties *)

FsTypeOK ==
  /\ card \in [Paths -> [kind : {"none", "dir", "file"}, data : Seq(Bytes)]]
  /\ at \in [Workers -> Nat]
  /\ data \in [Workers -> Seq(Bytes)]
  /\ size \in [Workers -> Nat]
  /\ torn \in [Workers -> BOOLEAN]
  /\ lost \in [Workers -> BOOLEAN]
  /\ changed \in [Workers -> BOOLEAN]

\* A read that succeeds has as many bytes as the file had when it was asked for
\* its size, within the limit; they are the file, unless another worker changed
\* it meanwhile.
ReadIsWhole ==
  \A w \in Workers : pc[w] = "done" /\ answer[w] = [ok |-> TRUE, why |-> "read"] =>
    /\ Len(data[w]) = size[w] /\ size[w] <= req[w].limit
    /\ torn[w] \/ data[w] = Content(w)

\* A write that goes on to report success has put its whole text into the file,
\* or behind what was there, unless another worker changed the file meanwhile or
\* fclose lost bytes, which the code does not notice.
WriteIsWhole ==
  \A w \in Workers : pc[w] = "stat" /\ ~torn[w] /\ ~lost[w] =>
    IF req[w].append THEN IsSuffix(req[w].text, Content(w)) ELSE Content(w) = req[w].text

\* A call that is refused for its arguments, for a directory it cannot make, for
\* want of memory, for its base64 or by fopen has changed no file.
BeforeOpen == {"arguments", "parents", "memory", "base64", "open"}
RefusedLeavesFiles ==
  \A w \in Workers : pc[w] = "done" /\ ~answer[w].ok /\ answer[w].why \in BeforeOpen => ~changed[w]
=============================================================================
