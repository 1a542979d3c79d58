--------------------------- MODULE RequestReader ---------------------------
(***************************************************************************)
(* recv_full_request (source/transport/streamable_http.c): one worker      *)
(* reads one request of a peer that sends it in pieces, closes early or    *)
(* resets the connection, into a buffer that grows once.                   *)
(*                                                                         *)
(* Bytes are counted, not stored.  A request is the length of its header   *)
(* with the blank line, the length of its body, whether its header has a   *)
(* Content-Length in one of the two spellings the code looks for, and the  *)
(* number it announces there.  int is IntMax + 1 wide on either side.      *)
(***************************************************************************)
EXTENDS Integers

CONSTANTS
  InitialSize,  \* INITIAL_REQUEST_SIZE
  MaxSize,      \* MAX_REQUEST_SIZE
  IntMax,       \* the largest int
  Heads,        \* header lengths the peers use
  Bodies,       \* body lengths
  Lengths       \* what they announce

ASSUME ReaderAssumption ==
  /\ InitialSize \in Nat /\ MaxSize \in Nat /\ IntMax \in Nat
  /\ 1 < InitialSize /\ InitialSize < MaxSize /\ MaxSize < IntMax
  /\ Heads \subseteq Nat \ {0} /\ Bodies \subseteq Nat
  /\ Lengths \subseteq Int /\ \A l \in Lengths : l <= IntMax
  /\ \A h \in Heads : h <= IntMax

Requests == [head : Heads, body : Bodies, announced : BOOLEAN, length : Lengths]

VARIABLES
  req,    \* what the peer means to send
  given,  \* how much of it has reached the console
  peer,   \* "open", "closed" (what was given can still be read), or "reset"
  pc,     \* where recv_full_request is
  total,  \* total
  size,   \* buf_size
  need,   \* need
  oom     \* history: the malloc of the larger buffer failed

peerVars == <<req, given, peer>>
vars == <<peerVars, pc, total, size, need, oom>>

PCs == {"head", "parse", "body", "returned", "failed"}

\* What the peer sends in all, and signed addition on overflow.
Whole == req.head + req.body
Wrap(x) == IF x > IntMax THEN x - 2 * (IntMax + 1) ELSE x

Init ==
  /\ req \in Requests
  /\ given = 0 /\ peer = "open"
  /\ pc = "head"
  /\ total = 0 /\ size = InitialSize /\ need = 0
  /\ oom = FALSE

-----------------------------------------------------------------------------
(* The peer *)

PeerSends ==
  /\ peer = "open" /\ given < Whole
  /\ given' \in given + 1 .. Whole
  /\ UNCHANGED <<req, peer, pc, total, size, need, oom>>

PeerEnds ==
  /\ peer = "open"
  /\ peer' \in {"closed", "reset"}
  /\ UNCHANGED <<req, given, pc, total, size, need, oom>>

\* What recv can return: up to space bytes, or nothing any more.
Received(space) == {n \in 1 .. space : n <= given - total}
Ended == peer = "reset" \/ (peer = "closed" /\ given = total)

-----------------------------------------------------------------------------
(* The header loop *)

\* Mutant: no room is kept for the terminating zero.
ReadHeadFull ==
  /\ pc = "head" /\ total < size
  /\ \E n \in Received(size - total) : total' = total + n
  /\ pc' = IF total' >= req.head THEN "parse" ELSE "head"
  /\ UNCHANGED <<peerVars, size, need, oom>>

ReadHead ==
  /\ pc = "head" /\ total < size - 1
  /\ \E n \in Received(size - 1 - total) : total' = total + n
  /\ pc' = IF total' >= req.head THEN "parse" ELSE "head"
  /\ UNCHANGED <<peerVars, size, need, oom>>

HeadTooLong ==
  /\ pc = "head" /\ total >= size - 1
  /\ pc' = "returned"
  /\ UNCHANGED <<peerVars, total, size, need, oom>>

HeadEnds ==
  /\ pc = "head" /\ total < size - 1
  /\ Ended
  /\ pc' = IF total > 0 THEN "returned" ELSE "failed"
  /\ UNCHANGED <<peerVars, total, size, need, oom>>

-----------------------------------------------------------------------------
(* Content-Length, and the larger buffer *)

NoLength ==
  /\ pc = "parse"
  /\ ~req.announced \/ req.length <= 0
  /\ pc' = "returned"
  /\ UNCHANGED <<peerVars, total, size, need, oom>>

\* Mutant: the larger buffer has no room for the terminating zero.
GrownTight(n) == IF n > MaxSize THEN MaxSize ELSE n

\* new_size: room for n bytes and a zero, capped.
Grown(n) == IF Wrap(n + 1) > MaxSize THEN MaxSize ELSE Wrap(n + 1)

\* A buffer that is too small is replaced if malloc can; a negative new_size is
\* a huge size_t, which it cannot.
Length ==
  /\ pc = "parse"
  /\ req.announced /\ req.length > 0
  /\ pc' = "body"
  /\ LET n == Wrap(req.head + req.length) IN
       \/ /\ n < size
          /\ need' = n
          /\ UNCHANGED <<size, oom>>
       \/ /\ n >= size /\ Grown(n) > 0
          /\ size' = Grown(n)
          /\ need' = IF n >= size' THEN size' - 1 ELSE n
          /\ UNCHANGED oom
       \/ /\ n >= size
          /\ need' = size - 1
          /\ oom' = TRUE
          /\ UNCHANGED size
  /\ UNCHANGED <<peerVars, total>>

-----------------------------------------------------------------------------
(* The body loop *)

ReadBody ==
  /\ pc = "body" /\ total < need
  /\ \E n \in Received(need - total) : total' = total + n
  /\ UNCHANGED <<peerVars, pc, size, need, oom>>

\* Mutant: recv returning 0 is not the end.
BodyEndsFull ==
  /\ pc = "body" /\ total >= need
  /\ pc' = "returned"
  /\ UNCHANGED <<peerVars, total, size, need, oom>>

BodyEnds ==
  /\ pc = "body"
  /\ total >= need \/ Ended
  /\ pc' = "returned"
  /\ UNCHANGED <<peerVars, total, size, need, oom>>

-----------------------------------------------------------------------------

Reader == ReadHead \/ HeadTooLong \/ HeadEnds \/ NoLength \/ Length \/ ReadBody \/ BodyEnds

Next == PeerSends \/ PeerEnds \/ Reader

Spec == Init /\ [][Next]_vars

\* The worker is scheduled, and the peer goes on sending unless it gives up.
Fairness == WF_vars(Reader) /\ WF_vars(PeerSends)
FairSpec == Spec /\ Fairness

-----------------------------------------------------------------------------
(* Properties *)

TypeOK ==
  /\ req \in Requests
  /\ given \in Nat
  /\ peer \in {"open", "closed", "reset"}
  /\ pc \in PCs
  /\ total \in Nat /\ size \in Nat /\ need \in Int
  /\ oom \in BOOLEAN

\* Nothing is written behind the buffer, the zero at buf[total] included, however
\* the request is cut into pieces and whatever length it announces: recv's room,
\* the copy into the larger buffer and an overflowing need all depend on it.
InBounds == total < size

\* The request is read whole when it can be: the header fits the first buffer,
\* an announced body fits the largest one, memory is there and the peer stays.
WholeWhenItFits ==
  (/\ pc = "returned" /\ peer = "open" /\ ~oom
   /\ req.head < InitialSize
   /\ req.announced /\ req.length = req.body /\ req.body > 0
   /\ Whole < MaxSize)
  => total = Whole

\* recv_full_request returns when the peer sends what it announced or gives up:
\* it never waits for a byte that nobody owes it.
Returns ==
  (req.announced => req.length <= req.body) => <>(pc \in {"returned", "failed"})
=============================================================================
