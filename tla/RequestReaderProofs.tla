------------------------ MODULE RequestReaderProofs ------------------------
(***************************************************************************)
(* Proof, for buffers, ints, requests and pieces of any size, that         *)
(* recv_full_request never writes behind its buffer.                       *)
(***************************************************************************)
EXTENDS RequestReader, TLAPS

\* The buffer has at least its first size, and the body loop stops short of it.
ReaderInv ==
  /\ TypeOK
  /\ InitialSize <= size
  /\ total < size
  /\ pc \in {"head", "parse"} => size = InitialSize
  /\ pc = "body" => need < size

\* An overflowing sum is negative, the others are what they are.
LEMMA WrapSum ==
  ASSUME NEW x \in Nat, NEW y \in Nat, x <= IntMax, y <= IntMax
  PROVE  Wrap(x + y) \in Int /\ (Wrap(x + y) >= 0 => Wrap(x + y) = x + y /\ x + y <= IntMax)
  BY ReaderAssumption DEF Wrap

\* A larger buffer is larger, or malloc is asked for a negative size.
LEMMA GrownSize ==
  ASSUME NEW n \in Nat, n <= IntMax, n >= InitialSize, Grown(n) > 0
  PROVE  Grown(n) \in Nat /\ Grown(n) > InitialSize
  BY ReaderAssumption DEF Grown, Wrap

LEMMA ReaderInit == Init => ReaderInv
  <1> SUFFICES ASSUME Init PROVE ReaderInv
    OBVIOUS
  <1>1. req \in Requests /\ oom \in BOOLEAN
    BY Zenon DEF Init
  <1> QED BY <1>1, ReaderAssumption DEF Init, ReaderInv, TypeOK, PCs

LEMMA ReaderStep == ReaderInv /\ [Next]_vars => ReaderInv'
  <1> SUFFICES ASSUME ReaderInv, [Next]_vars PROVE ReaderInv'
    OBVIOUS
  <1> USE ReaderAssumption DEF ReaderInv, TypeOK
  <1>0. /\ req.head \in Nat /\ req.body \in Nat /\ req.length \in Int
        /\ req.head <= IntMax /\ req.length <= IntMax
    BY DEF Requests
  <1>1. CASE PeerSends
    <2>1. given' \in Nat
      BY <1>0, <1>1 DEF PeerSends, Whole
    <2> QED BY <1>1, <2>1 DEF PeerSends
  <1>2. CASE PeerEnds
    BY <1>2 DEF PeerEnds, peerVars
  <1>3. CASE ReadHead
    <2>1. total' \in Nat /\ total' < size
      BY <1>3 DEF ReadHead, Received
    <2>2. pc' \in {"head", "parse"}
      BY <1>3 DEF ReadHead
    <2> QED BY <1>3, <2>1, <2>2 DEF ReadHead, PCs, peerVars
  <1>4. CASE HeadTooLong \/ HeadEnds \/ NoLength \/ BodyEnds
    BY <1>4 DEF HeadTooLong, HeadEnds, NoLength, BodyEnds, PCs, peerVars
  <1>5. CASE Length
    <2> DEFINE n == Wrap(req.head + req.length)
    <2>1. n \in Int /\ (n >= 0 => n <= IntMax)
      BY <1>0, <1>5, WrapSum DEF Length
    <2>2. /\ size' \in Nat /\ InitialSize <= size' /\ total < size'
          /\ need' \in Int /\ need' < size'
      <3>1. CASE n < size /\ need' = n /\ size' = size
        BY <3>1, <2>1
      <3>2. CASE n >= size /\ Grown(n) > 0 /\ size' = Grown(n)
                 /\ need' = IF n >= size' THEN size' - 1 ELSE n
        <4>1. size = InitialSize
          BY <1>5 DEF Length
        <4>2. n \in Nat /\ Grown(n) \in Nat /\ Grown(n) > InitialSize
          BY <2>1, <3>2, <4>1, GrownSize
        <4> HIDE DEF n
        <4> QED BY <3>2, <4>1, <4>2
      <3>3. CASE n >= size /\ need' = size - 1 /\ size' = size
        BY <3>3
      <3> QED BY <1>5, <3>1, <3>2, <3>3 DEF Length
    <2>3. oom' \in BOOLEAN
      BY <1>5, Zenon DEF Length
    <2> HIDE DEF n
    <2> QED BY <1>5, <2>2, <2>3 DEF Length, PCs, peerVars
  <1>6. CASE ReadBody
    BY <1>6 DEF ReadBody, Received, peerVars
  <1>7. CASE UNCHANGED vars
    BY <1>7 DEF vars, peerVars
  <1> QED BY <1>1, <1>2, <1>3, <1>4, <1>5, <1>6, <1>7 DEF Next, Reader

\* Nothing is written behind the buffer, whatever the peer sends and announces.
THEOREM ReaderInBounds == Spec => []InBounds
  <1>1. ReaderInv => InBounds
    BY DEF ReaderInv, InBounds
  <1> QED BY <1>1, ReaderInit, ReaderStep, PTL DEF Spec

\* Every variable keeps its type, total never negative.
THEOREM ReaderTypes == Spec => []TypeOK
  <1>1. ReaderInv => TypeOK
    BY DEF ReaderInv
  <1> QED BY <1>1, ReaderInit, ReaderStep, PTL DEF Spec
-----------------------------------------------------------------------------
(* Completeness *)

\* The requests the buffers are made for.
Fits ==
  /\ req.head < InitialSize
  /\ req.announced /\ req.length = req.body /\ req.body > 0
  /\ Whole < MaxSize

\* The reader is never ahead of the peer, looks for a length as soon as it has
\* the header, and then wants the request, the whole request and nothing else.
WholeInv ==
  /\ total <= given /\ given <= Whole
  /\ pc = "head" => total < req.head
  /\ pc = "parse" => total >= req.head
  /\ Fits /\ ~oom /\ pc = "body" => need = Whole
  /\ Fits /\ ~oom /\ pc = "returned" /\ peer = "open" => total = Whole

LEMMA WholeInit == Init => WholeInv
  <1> SUFFICES ASSUME Init PROVE WholeInv
    OBVIOUS
  <1>1. req.head \in Nat \ {0} /\ req.body \in Nat
    BY ReaderAssumption DEF Init, Requests
  <1> QED BY <1>1 DEF Init, WholeInv, Whole

LEMMA WholeStep == ReaderInv /\ WholeInv /\ [Next]_vars => WholeInv'
  <1> SUFFICES ASSUME ReaderInv, WholeInv, [Next]_vars PROVE WholeInv'
    OBVIOUS
  <1> USE ReaderAssumption DEF ReaderInv, TypeOK
  <1>0. /\ req.head \in Nat /\ req.body \in Nat /\ req.length \in Int
        /\ req.head <= IntMax /\ req.length <= IntMax
        /\ Whole = req.head + req.body
    BY DEF Requests, Whole
  <1>1. CASE PeerSends
    BY <1>0, <1>1 DEF PeerSends, WholeInv, Fits, Whole
  <1>2. CASE PeerEnds
    BY <1>0, <1>2 DEF PeerEnds, WholeInv, Fits, Whole
  <1>3. CASE ReadHead
    <2>1. PICK n \in Received(size - 1 - total) : total' = total + n
      BY <1>3 DEF ReadHead
    <2>2. total' <= given /\ total' \in Nat
      BY <2>1 DEF Received
    <2> QED BY <1>0, <1>3, <2>2 DEF ReadHead, WholeInv, Fits, Whole, peerVars
  <1>4. CASE HeadTooLong
    BY <1>0, <1>4 DEF HeadTooLong, WholeInv, Fits, Whole, peerVars
  <1>5. CASE HeadEnds
    BY <1>0, <1>5 DEF HeadEnds, Ended, WholeInv, Fits, Whole, peerVars
  <1>6. CASE NoLength
    BY <1>0, <1>6 DEF NoLength, WholeInv, Fits, Whole, peerVars
  <1>7. CASE Length
    <2>1. /\ UNCHANGED <<req, given, peer, total>> /\ pc' = "body"
      BY <1>7 DEF Length, peerVars
    <2>2. ASSUME Fits, ~oom' PROVE need' = Whole
      <3>1. Whole < IntMax /\ Wrap(req.head + req.length) = Whole
        BY <1>0, <2>2 DEF Fits, Wrap
      <3>2. Grown(Whole) = Whole + 1
        BY <1>0, <3>1, <2>2 DEF Fits, Grown, Wrap
      <3> QED BY <1>0, <1>7, <2>2, <3>1, <3>2 DEF Length
    <2> QED BY <1>0, <2>1, <2>2 DEF WholeInv, Fits, Whole
  <1>8. CASE ReadBody
    <2>1. PICK n \in Received(need - total) : total' = total + n
      BY <1>8 DEF ReadBody
    <2>2. total' <= given /\ total' \in Nat
      BY <2>1 DEF Received
    <2> QED BY <1>0, <1>8, <2>2 DEF ReadBody, WholeInv, Fits, Whole, peerVars
  <1>9. CASE BodyEnds
    BY <1>0, <1>9 DEF BodyEnds, Ended, WholeInv, Fits, Whole, peerVars
  <1>10. CASE UNCHANGED vars
    BY <1>10 DEF vars, peerVars, WholeInv, Fits, Whole
  <1> QED BY <1>1, <1>2, <1>3, <1>4, <1>5, <1>6, <1>7, <1>8, <1>9, <1>10 DEF Next, Reader

\* A request whose header fits the first buffer, and that fits the largest one
\* as a whole, is read whole, in however many pieces it comes.
THEOREM ReaderWhole == Spec => []WholeWhenItFits
  <1>1. WholeInv => WholeWhenItFits
    BY DEF WholeInv, Fits, WholeWhenItFits
  <1> QED BY <1>1, ReaderInit, ReaderStep, WholeInit, WholeStep, PTL DEF Spec
============================================================================
