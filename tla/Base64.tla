------------------------------- MODULE Base64 -------------------------------
(***************************************************************************)
(* How long base64 texts and what they decode to are                       *)
(* (source/third_party/stb_base64.h), and the buffers its three callers    *)
(* ask for.  All arithmetic is on size_t, far from its end.                *)
(***************************************************************************)
EXTENDS Integers

\* stb_base64_encode: four characters for every three bytes, the last ones padded.
EncodedLen(n) == 4 * ((n + 2) \div 3)

\* stb_base64_decode: at most three bytes for every four characters; what is left
\* behind the last four is dropped.
DecodedLen(m) == 3 * (m \div 4)

\* Mutant: no slack for the padding and the zero.
FrameRoomTight(n) == (n * 4) \div 3 + 1

\* capture_jpeg_screenshot
FrameRoom(n) == (n * 4) \div 3 + 16 + 1

\* read_file_resource
BlobRoom(n) == (n * 4) \div 3 + 8

\* call_fs_ops, write_binary
DecodeRoom(m) == (m * 3) \div 4 + 4
=============================================================================
