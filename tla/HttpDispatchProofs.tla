------------------------- MODULE HttpDispatchProofs -------------------------
(***************************************************************************)
(* Proofs, for every number of workers, ids and sessions, that a request   *)
(* gets exactly one reply before its worker is done with it, and that      *)
(* "method not found" is said when it is true and only then.               *)
(***************************************************************************)
EXTENDS HttpDispatch, TLAPS

\* What went out is the reply that was formed, once.
Functions ==
  /\ wpc = [w \in Workers |-> wpc[w]]
  /\ reply = [w \in Workers |-> reply[w]]
  /\ sent = [w \in Workers |-> sent[w]]
SentOnce ==
  \A w \in Workers : sent[w] = <<>> \/ (wpc[w] = "idle" /\ sent[w] = <<reply[w]>>)

DispatchInv == Functions /\ SentOnce

LEMMA DispatchInit == Init => DispatchInv
  BY DEF Init, DispatchInv, Functions, SentOnce

\* The ways in which a worker goes on without sending: it forms a reply, or it
\* only moves.
LEMMA FormStep ==
  ASSUME DispatchInv, NEW w \in Workers, NEW from, from # "idle", NEW rep, Form(w, from, rep)
  PROVE  DispatchInv'
  <1>1. wpc[w] # "idle"
    BY DEF Form
  <1>2. Functions'
    BY DEF Form, DispatchInv, Functions
  <1>3. SentOnce'
    BY <1>1 DEF Form, DispatchInv, Functions, SentOnce
  <1> QED BY <1>2, <1>3 DEF DispatchInv

LEMMA DispatchStep == DispatchInv /\ [Next]_vars => DispatchInv'
  <1> SUFFICES ASSUME DispatchInv, [Next]_vars PROVE DispatchInv'
    OBVIOUS
  <1>1. ASSUME NEW w \in Workers, NEW r \in Requests, Receive(w, r) PROVE DispatchInv'
    BY <1>1 DEF Receive, DispatchInv, Functions, SentOnce
  <1>2. ASSUME NEW w \in Workers, Send(w) \/ Unprinted(w) PROVE DispatchInv'
    <2>1. sent[w] = <<>>
      BY <1>2 DEF Send, Unprinted, DispatchInv, SentOnce
    <2>2. CASE Send(w)
      <3>1. sent'[w] = <<reply[w]>> /\ \A v \in Workers \ {w} : sent'[v] = sent[v]
        BY <2>1, <2>2 DEF Send, DispatchInv, Functions
      <3> QED BY <2>2, <3>1 DEF Send, DispatchInv, Functions, SentOnce
    <2>3. CASE Unprinted(w)
      <3>1. /\ sent'[w] = <<Http(500)>> /\ reply'[w] = Http(500) /\ wpc'[w] = "idle"
            /\ \A v \in Workers \ {w} : sent'[v] = sent[v] /\ reply'[v] = reply[v] /\ wpc'[v] = wpc[v]
        BY <2>1, <2>3 DEF Unprinted, DispatchInv, Functions
      <3>2. Functions'
        BY <2>3 DEF Unprinted, DispatchInv, Functions
      <3> QED BY <3>1, <3>2 DEF DispatchInv, SentOnce
    <2> QED BY <1>2, <2>2, <2>3
  <1>3. ASSUME NEW w \in Workers, NEW from \in {"received", "generated", "calling", "reading"}, NEW rep,
               Form(w, from, rep)
        PROVE DispatchInv'
    BY <1>3, FormStep
  <1>4. ASSUME NEW w \in Workers, Outside(w) \/ Malformed(w) \/ Notified(w) \/ Initialize(w)
        PROVE DispatchInv'
    BY <1>3, <1>4 DEF Outside, Malformed, Notified, Initialize
  <1>5. ASSUME NEW w \in Workers, ListResources(w) \/ ListTemplates(w) \/ ListTools(w) \/ Ping(w)
        PROVE DispatchInv'
    BY <1>3, <1>5 DEF ListResources, ListTemplates, ListTools, Ping, Answer
  <1>6. ASSUME NEW w \in Workers, Nameless(w) \/ Uriless(w) \/ NoHandler(w) \/ Unsupported(w)
        PROVE DispatchInv'
    BY <1>3, <1>6 DEF Nameless, Uriless, Incomplete, NoHandler, Unsupported
  <1>7. ASSUME NEW w \in Workers, ToolReturns(w) \/ ResourceReturns(w) PROVE DispatchInv'
    BY <1>3, <1>7 DEF ToolReturns, ResourceReturns
  <1>8. ASSUME NEW w \in Workers, Generate(w) \/ CallTool(w) \/ ReadResource(w) PROVE DispatchInv'
    BY <1>8 DEF Generate, CallTool, ReadResource, Enter, DispatchInv, Functions, SentOnce
  <1>9. ASSUME UNCHANGED vars PROVE DispatchInv'
    BY <1>9 DEF vars, DispatchInv, Functions, SentOnce
  <1> QED BY <1>1, <1>2, <1>4, <1>5, <1>6, <1>7, <1>8, <1>9 DEF Next, Handle

\* No branch of handle_http_request replies twice.
THEOREM DispatchOneReply == Spec => []OneReply
  <1>1. DispatchInv => OneReply
    <2> SUFFICES ASSUME DispatchInv, NEW w \in Workers
                 PROVE Len(sent[w]) <= IF wpc[w] = "idle" THEN 1 ELSE 0
      BY DEF OneReply
    <2>1. CASE sent[w] = <<>>
      <3>1. Len(sent[w]) = 0
        BY <2>1
      <3> QED BY <3>1
    <2>2. CASE wpc[w] = "idle" /\ sent[w] = <<reply[w]>>
      <3>1. Len(sent[w]) = 1
        BY <2>2
      <3> QED BY <2>2, <3>1
    <2> QED BY <2>1, <2>2 DEF DispatchInv, SentOnce
  <1> QED BY <1>1, DispatchInit, DispatchStep, PTL DEF Spec

-----------------------------------------------------------------------------
(* The right answer *)

\* A method is not found when README.md does not list it, or when the id that
\* its answer would carry is missing.
Refused(r) ==
  /\ r.target = "mcp" /\ r.body = "rpc"
  /\ \/ r.method \notin Implemented
     \/ r.id = NoId /\ r.method \notin {"initialize", "notifications/initialized"}
NotFound(a) == a.kind = "error" /\ a.what = -32601
Right(r, a) ==
  /\ NotFound(a) => Refused(r)
  /\ Refused(r) => NotFound(a) \/ a = Http(500)
  /\ a.kind # "http" => a.id = r.id

\* The reply that is formed is right for the request in hand, and a handler
\* runs only for a request that has asked for it.
Place(w) ==
  /\ wpc[w] = "generated" => Rpc(w, "initialize")
  /\ wpc[w] = "calling" => Asked(w, "tools/call")
  /\ wpc[w] = "reading" => Asked(w, "resources/read")
  /\ wpc[w] = "reply" => Right(req[w], reply[w])
  /\ Answered(w) => Right(req[w], reply[w])
RightInv == DispatchInv /\ req = [w \in Workers |-> req[w]] /\ \A w \in Workers : Place(w)

\* What the branches answer: the only error -32601 is Unsupported's.
LEMMA RightReplies ==
  ASSUME NEW r
  PROVE  /\ \A s : ~ Refused(r) => Right(r, Http(s))
         /\ Right(r, Http(500))
         /\ \A c : c # -32601 /\ ~ Refused(r) => Right(r, Error(r.id, c))
         /\ Refused(r) => Right(r, Error(r.id, -32601))
         /\ \A x, s : ~ Refused(r) => Right(r, Reply("result", x, r.id, s))
         /\ \A rc : ~ Refused(r) => Right(r, ToolReply(r.id, rc)) /\ Right(r, ReadReply(r.id, rc))
  <1>1. \A k, x, i, s : LET a == Reply(k, x, i, s) IN a.kind = k /\ a.what = x /\ a.id = i
    BY DEF Reply
  <1>2. \A k, x, s : ~ Refused(r) /\ ~ (k = "error" /\ x = -32601) => Right(r, Reply(k, x, r.id, s))
    BY <1>1 DEF Right, NotFound
  <1>3. \A s : ~ Refused(r) => Right(r, Http(s))
    BY <1>1 DEF Right, NotFound, Http
  <1>4. Right(r, Http(500))
    BY <1>1 DEF Right, NotFound, Http
  <1>5. /\ \A c : c # -32601 /\ ~ Refused(r) => Right(r, Error(r.id, c))
        /\ \A x : ~ Refused(r) => Right(r, Result(r.id, x))
    BY <1>2 DEF Error, Result
  <1>6. Refused(r) => Right(r, Error(r.id, -32601))
    BY <1>1 DEF Right, NotFound, Error
  <1>7. \A rc : ~ Refused(r) => Right(r, ToolReply(r.id, rc)) /\ Right(r, ReadReply(r.id, rc))
    BY <1>2, <1>5 DEF ToolReply, ReadReply, Reply
  <1> QED BY <1>2, <1>3, <1>5, <1>6, <1>7, <1>4

\* Forming the right reply keeps the invariant of its worker and of the others.
LEMMA FormRight ==
  ASSUME RightInv, DispatchInv', NEW w \in Workers, NEW from, from # "idle", NEW rep,
         Form(w, from, rep), Right(req[w], rep)
  PROVE  RightInv'
  <1>1. /\ wpc'[w] = "reply" /\ reply'[w] = rep /\ req' = req /\ sent' = sent
        /\ \A v \in Workers \ {w} : wpc'[v] = wpc[v] /\ reply'[v] = reply[v]
    BY DEF Form, RightInv, DispatchInv, Functions
  <1>2. Place(w)'
    BY <1>1 DEF Place, Answered, Right, NotFound, Refused
  <1>3. ASSUME NEW v \in Workers, v # w PROVE Place(v)'
    BY <1>1, <1>3 DEF RightInv, Place, Answered, Asked, Rpc, Right, NotFound, Refused
  <1> QED BY <1>1, <1>2, <1>3 DEF RightInv

LEMMA RightStep == RightInv /\ [Next]_vars => RightInv'
  <1> SUFFICES ASSUME RightInv, [Next]_vars PROVE RightInv'
    OBVIOUS
  <1>0. DispatchInv'
    BY DispatchStep DEF RightInv
  <1>1. ASSUME NEW w \in Workers, NEW r \in Requests, Receive(w, r) PROVE RightInv'
    <2>1. /\ wpc'[w] = "received" /\ sent'[w] = <<>>
          /\ \A v \in Workers \ {w} : wpc'[v] = wpc[v] /\ reply'[v] = reply[v] /\ req'[v] = req[v] /\ sent'[v] = sent[v]
          /\ req' = [v \in Workers |-> req'[v]]
      BY <1>1 DEF Receive, RightInv, DispatchInv, Functions
    <2>2. Place(w)'
      BY <2>1 DEF Place, Answered
    <2>3. ASSUME NEW v \in Workers, v # w PROVE Place(v)'
      BY <2>1, <2>3 DEF RightInv, Place, Answered, Asked, Rpc, Right, NotFound, Refused
    <2> QED BY <1>0, <2>1, <2>2, <2>3 DEF RightInv
  <1>2. ASSUME NEW w \in Workers, Send(w) PROVE RightInv'
    <2>1. /\ wpc[w] = "reply" /\ wpc'[w] = "idle" /\ req' = req /\ reply' = reply
          /\ \A v \in Workers \ {w} : wpc'[v] = wpc[v] /\ sent'[v] = sent[v]
      BY <1>2 DEF Send, RightInv, DispatchInv, Functions
    <2>2. Place(w)'
      BY <2>1 DEF RightInv, Place, Answered, Right, NotFound, Refused
    <2>3. ASSUME NEW v \in Workers, v # w PROVE Place(v)'
      BY <2>1, <2>3 DEF RightInv, Place, Answered, Asked, Rpc, Right, NotFound, Refused
    <2> QED BY <1>0, <2>1, <2>2, <2>3 DEF RightInv
  <1>3. ASSUME NEW w \in Workers, Generate(w) \/ CallTool(w) \/ ReadResource(w) PROVE RightInv'
    <2>1. /\ wpc'[w] \in {"generated", "calling", "reading"} /\ req' = req /\ reply' = reply /\ sent' = sent
          /\ wpc'[w] = "generated" => Rpc(w, "initialize")
          /\ wpc'[w] = "calling" => Asked(w, "tools/call")
          /\ wpc'[w] = "reading" => Asked(w, "resources/read")
          /\ \A v \in Workers \ {w} : wpc'[v] = wpc[v]
      BY <1>3 DEF Generate, CallTool, ReadResource, Enter, RightInv, DispatchInv, Functions
    <2>2. Place(w)'
      BY <2>1 DEF Place, Answered, Asked, Rpc
    <2>3. ASSUME NEW v \in Workers, v # w PROVE Place(v)'
      BY <2>1, <2>3 DEF RightInv, Place, Answered, Asked, Rpc, Right, NotFound, Refused
    <2> QED BY <1>0, <2>1, <2>2, <2>3 DEF RightInv
  <1>4. ASSUME NEW w \in Workers, NEW from \in {"received", "generated", "calling", "reading"}, NEW rep,
               Form(w, from, rep), Right(req[w], rep)
        PROVE RightInv'
    BY <1>0, <1>4, FormRight
  <1>5. ASSUME NEW w \in Workers, NEW m, Rpc(w, m),
               m \in {"initialize", "notifications/initialized"} \/ (m \in Implemented /\ req[w].id # NoId)
        PROVE ~ Refused(req[w])
    BY <1>5 DEF Rpc, Refused, Implemented
  <1>6. ASSUME NEW w \in Workers, Outside(w) \/ Malformed(w) PROVE RightInv'
    <2>1. ~ Refused(req[w])
      BY <1>6 DEF Outside, Malformed, StatusOf, BodyStatus, Refused
    <2> QED BY <1>4, <1>6, <2>1, RightReplies DEF Outside, Malformed
  <1>7. ASSUME NEW w \in Workers, Initialize(w) PROVE RightInv'
    <2>1. ~ Refused(req[w])
      BY <1>5, <1>7 DEF Initialize, Form, RightInv, Place
    <2>2. Right(req[w], Reply("result", "initialize", req[w].id, session_id))
      BY <2>1, RightReplies
    <2>3. Form(w, "generated", Reply("result", "initialize", req[w].id, session_id))
      BY <1>7 DEF Initialize
    <2> QED BY <1>4, <2>2, <2>3
  <1>8. ASSUME NEW w \in Workers, Notified(w) \/ ListResources(w) \/ ListTemplates(w) \/ ListTools(w) \/ Ping(w)
        PROVE RightInv'
    <2>1. ~ Refused(req[w])
      BY <1>5, <1>8 DEF Notified, ListResources, ListTemplates, ListTools, Ping, Answer, Asked, Implemented
    <2>2. \A m : Right(req[w], Result(req[w].id, m))
      BY <2>1, RightReplies DEF Result
    <2> QED BY <1>4, <1>8, <2>1, <2>2, RightReplies DEF Notified, ListResources, ListTemplates, ListTools, Ping, Answer
  <1>9. ASSUME NEW w \in Workers, Nameless(w) \/ Uriless(w) \/ NoHandler(w) PROVE RightInv'
    <2>1. ~ Refused(req[w])
      BY <1>5, <1>9 DEF Nameless, Uriless, Incomplete, NoHandler, Asked, Implemented
    <2>2. Right(req[w], Error(req[w].id, -32602))
      BY <2>1, RightReplies
    <2> QED BY <1>4, <1>9, <2>1, <2>2, RightReplies DEF Nameless, Uriless, Incomplete, NoHandler
  <1>10. ASSUME NEW w \in Workers, ToolReturns(w) \/ ResourceReturns(w) PROVE RightInv'
    <2>1. Asked(w, "tools/call") \/ Asked(w, "resources/read")
      BY <1>10 DEF ToolReturns, ResourceReturns, RightInv, Place
    <2>2. ~ Refused(req[w])
      BY <1>5, <2>1 DEF Asked, Implemented
    <2> QED BY <1>4, <1>10, <2>2, RightReplies DEF ToolReturns, ResourceReturns
  <1>11. ASSUME NEW w \in Workers, Unsupported(w) PROVE RightInv'
    <2>1. Refused(req[w])
      BY <1>11 DEF Unsupported, Rpc, Refused, Methods, Implemented, NeedId
    <2> QED BY <1>4, <1>11, <2>1, RightReplies DEF Unsupported
  <1>12. ASSUME UNCHANGED vars PROVE RightInv'
    BY <1>0, <1>12 DEF vars, RightInv, Place, Answered, Asked, Rpc, Right, NotFound, Refused
  <1>13. ASSUME NEW w \in Workers, Unprinted(w) PROVE RightInv'
    <2>1. /\ wpc'[w] = "idle" /\ reply'[w] = Http(500) /\ sent'[w] = Append(sent[w], Http(500)) /\ req' = req
          /\ \A v \in Workers \ {w} : wpc'[v] = wpc[v] /\ reply'[v] = reply[v] /\ sent'[v] = sent[v]
      BY <1>13 DEF Unprinted, RightInv, DispatchInv, Functions
    <2>2. Place(w)'
      BY <2>1, RightReplies DEF Place, Answered, Right, NotFound, Refused, Http
    <2>3. ASSUME NEW v \in Workers, v # w PROVE Place(v)'
      BY <2>1, <2>3 DEF RightInv, Place, Answered, Asked, Rpc, Right, NotFound, Refused
    <2> QED BY <1>0, <2>1, <2>2, <2>3 DEF RightInv
  <1> QED BY <1>1, <1>2, <1>3, <1>6, <1>7, <1>8, <1>9, <1>10, <1>11, <1>12, <1>13 DEF Next, Handle

LEMMA RightInit == Init => RightInv
  BY DispatchInit DEF Init, RightInv, Place, Answered

\* "Method not found" is only said of what is not implemented or lacks its id,
\* and of all of that unless the reply could not be printed; an answer bears the
\* id of its request, whatever runs beside it.
THEOREM DispatchMethods == Spec => []MethodNotFoundIsTrue
  <1>1. RightInv => MethodNotFoundIsTrue
    <2> SUFFICES ASSUME RightInv, NEW w \in Workers, Answered(w)
                 PROVE Right(req[w], sent[w][1])
      BY DEF MethodNotFoundIsTrue, Right, NotFound, Refused
    <2>1. sent[w][1] = reply[w]
      BY DEF RightInv, DispatchInv, SentOnce, Answered
    <2> QED BY <2>1 DEF RightInv, Place
  <1> QED BY <1>1, RightInit, RightStep, PTL DEF Spec

\* A worker leaves a request with its one answer sent, whichever branch it took.
THEOREM DispatchAnswers == Spec => EveryRequestAnswered
  <1>1. DispatchInv /\ [Next]_vars =>
          [\A w \in Workers : wpc[w] # "idle" /\ wpc'[w] = "idle" => Len(sent'[w]) = 1]_vars
    <2> SUFFICES ASSUME DispatchInv, Next, NEW w \in Workers, wpc[w] # "idle", wpc'[w] = "idle"
                 PROVE Len(sent'[w]) = 1
      OBVIOUS
    <2>1. Send(w) \/ Unprinted(w)
      BY DEF Next, Receive, Handle, Outside, Malformed, Generate, Initialize, Answer, ListResources,
             ListTemplates, ListTools, Ping, Notified, Nameless, Uriless, Incomplete, CallTool,
             ReadResource, NoHandler, Unsupported, ToolReturns, ResourceReturns, Enter, Form, Send,
             Unprinted, DispatchInv, Functions
    <2>2. sent[w] = <<>>
      BY DEF DispatchInv, SentOnce
    <2>3. sent'[w] = <<reply[w]>> \/ sent'[w] = <<Http(500)>>
      BY <2>1, <2>2 DEF Send, Unprinted, DispatchInv, Functions
    <2> QED BY <2>3
  <1> QED BY <1>1, DispatchInit, DispatchStep, PTL DEF Spec, EveryRequestAnswered
=============================================================================
