---------------------------- MODULE HttpDispatch ----------------------------
(***************************************************************************)
(* handle_http_request (source/transport/http.c) and the registry of tools *)
(* and resources (source/transport/registry.c): how each of the HTTP       *)
(* workers turns one request into one reply, while the others do the same  *)
(* beside it and share session_id.                                         *)
(*                                                                         *)
(* A request is what the code distinguishes of it: the target its first    *)
(* line starts with, the state of its body, the method, the id, and the    *)
(* tool name or URI among the parameters.  A reply is its status, its id,  *)
(* and the session id in its headers.  A step ends where the code calls    *)
(* the kernel: in a tool, a resource, or a send; and the other worker may  *)
(* come between the generation of a session id and its copy, too.  Memory  *)
(* is taken to suffice while a reply is put together, where the code does  *)
(* not look, and may be short when it is printed, where it does.           *)
(***************************************************************************)
EXTENDS Integers, Sequences

CONSTANTS
  Workers,    \* HTTP worker threads
  Ids, NoId,  \* the ids of requests; a message without one
  Sessions,   \* what gen_session_id can produce
  NoSession   \* session_id before the first initialize; a reply without one

ASSUME DispatchAssumption == NoId \notin Ids /\ NoSession \notin Sessions

OK == 0
NOT_FOUND == 1
ERROR == 2

\* g_tools and g_resources, with the values their handlers return.
Tools == [controller          |-> {0, 1, -1},
          cur_frame           |-> {0, 1},
          controller_recorder |-> {0, 1},
          system_info         |-> {0, 1},
          fs_ops              |-> {0, 1}]
Resources == [screen |-> {0, 1}, status |-> {0, 1}, file |-> {0, 1}]
NoName == ""
Names == {NoName, "nonsense"}

\* The replies to what is no JSON-RPC request to /mcp.
StatusOf == [oauth_server |-> 200, oauth_client |-> 200, authorize |-> 501, token |-> 501, other |-> 404]
BodyStatus == [missing |-> 400, invalid |-> 400, not_rpc |-> 202]

\* What README.md lists as implemented, and a method it does not list.
Implemented == {"initialize", "tools/list", "tools/call", "resources/list", "resources/templates/list",
                "resources/read", "ping", "notifications/initialized"}
Methods == Implemented \cup {"nonsense"}

\* The methods whose branches ask for an id.
NeedId == {"resources/list", "resources/templates/list", "resources/read", "tools/list", "tools/call", "ping"}

Request(target, body, method, id, name) ==
  [target |-> target, body |-> body, method |-> method, id |-> id, name |-> name]
Requests ==
  {Request(t, "missing", "nonsense", NoId, NoName) : t \in DOMAIN StatusOf} \cup
  {Request("mcp", b, "nonsense", NoId, NoName) : b \in DOMAIN BodyStatus} \cup
  {Request("mcp", "rpc", m, i, NoName) : m \in Methods, i \in Ids \cup {NoId}} \cup
  {Request("mcp", "rpc", "tools/call", i, n) : i \in Ids \cup {NoId}, n \in Names \cup DOMAIN Tools} \cup
  {Request("mcp", "rpc", "resources/read", i, n) : i \in Ids \cup {NoId}, n \in Names \cup DOMAIN Resources}

VARIABLES
  session_id,  \* session_id
  wpc,         \* where each worker is
  req,         \* the request it works on
  reply,       \* the reply it has formed
  sent         \* what went out on its connection
vars == <<session_id, wpc, req, reply, sent>>

WorkerPCs == {"idle", "received", "generated", "calling", "reading", "reply"}

Reply(kind, what, id, session) == [kind |-> kind, what |-> what, id |-> id, session |-> session]
Http(status)    == Reply("http", status, NoId, NoSession)
Error(id, code) == Reply("error", code, id, NoSession)
Result(id, of)  == Reply("result", of, id, NoSession)
NoReply == Reply("none", 0, NoId, NoSession)

Init ==
  /\ session_id = NoSession
  /\ wpc = [w \in Workers |-> "idle"]
  /\ req \in [Workers -> {Request("other", "missing", "nonsense", NoId, NoName)}]
  /\ reply = [w \in Workers |-> NoReply]
  /\ sent = [w \in Workers |-> <<>>]

\* recv_full_request has returned something that does not start with GET /mcp.
Receive(w, r) ==
  /\ wpc[w] = "idle"
  /\ wpc' = [wpc EXCEPT ![w] = "received"]
  /\ req' = [req EXCEPT ![w] = r]
  /\ reply' = [reply EXCEPT ![w] = NoReply]
  /\ sent' = [sent EXCEPT ![w] = <<>>]
  /\ UNCHANGED session_id

Form(w, from, rep) ==
  /\ wpc[w] = from
  /\ wpc' = [wpc EXCEPT ![w] = "reply"]
  /\ reply' = [reply EXCEPT ![w] = rep]
  /\ UNCHANGED <<req, sent>>

Send(w) ==
  /\ wpc[w] = "reply"
  /\ wpc' = [wpc EXCEPT ![w] = "idle"]
  /\ sent' = [sent EXCEPT ![w] = Append(@, reply[w])]
  /\ UNCHANGED <<session_id, req, reply>>

\* cJSON_PrintUnformatted has no memory for the text of the reply: HTTP 500,
\* and neither JSON-RPC nor the headers of the reply.
Unprinted(w) ==
  /\ wpc[w] = "reply" /\ reply[w].kind # "http"
  /\ wpc' = [wpc EXCEPT ![w] = "idle"]
  /\ reply' = [reply EXCEPT ![w] = Http(500)]
  /\ sent' = [sent EXCEPT ![w] = Append(@, Http(500))]
  /\ UNCHANGED <<session_id, req>>

-----------------------------------------------------------------------------
(* Requests that never reach a method *)

Outside(w) ==
  /\ req[w].target \in DOMAIN StatusOf
  /\ Form(w, "received", Http(StatusOf[req[w].target]))
  /\ UNCHANGED session_id

Malformed(w) ==
  /\ req[w].target = "mcp" /\ req[w].body \in DOMAIN BodyStatus
  /\ Form(w, "received", Http(BodyStatus[req[w].body]))
  /\ UNCHANGED session_id

-----------------------------------------------------------------------------
(* The methods; all but initialize and the notification want an id *)

Rpc(w, method) == req[w].target = "mcp" /\ req[w].body = "rpc" /\ req[w].method = method
Asked(w, method) == Rpc(w, method) /\ req[w].id # NoId

\* gen_session_id fills session_id with whatever rand gives ...
Generate(w) ==
  /\ Rpc(w, "initialize") /\ wpc[w] = "received"
  /\ wpc' = [wpc EXCEPT ![w] = "generated"]
  /\ session_id' \in Sessions
  /\ UNCHANGED <<req, reply, sent>>

\* ... and the headers get what session_id holds when they are written.
Initialize(w) ==
  /\ Form(w, "generated", Reply("result", "initialize", req[w].id, session_id))
  /\ UNCHANGED session_id

\* The branches that need nothing but an id.
Answer(w, method) ==
  /\ Asked(w, method)
  /\ Form(w, "received", Result(req[w].id, method))
  /\ UNCHANGED session_id

\* Mutant: the branch compares with another name, and the request falls through.
TemplatesMissed(w) ==
  /\ Asked(w, "resources/templates/list")
  /\ Form(w, "received", Error(req[w].id, -32601))
  /\ UNCHANGED session_id

ListResources(w) == Answer(w, "resources/list")
ListTemplates(w) == Answer(w, "resources/templates/list")
ListTools(w)     == Answer(w, "tools/list")
Ping(w)          == Answer(w, "ping")

Notified(w) ==
  /\ Rpc(w, "notifications/initialized")
  /\ Form(w, "received", Http(202))
  /\ UNCHANGED session_id

ToolReply(id, rc) ==
  IF rc = NOT_FOUND THEN Reply("unknown_tool", 0, id, NoSession)
                    ELSE Reply("tool", IF rc = OK THEN OK ELSE ERROR, id, NoSession)
ReadReply(id, rc) ==
  IF rc = NOT_FOUND THEN Error(id, -32002)
    ELSE IF rc = OK THEN Result(id, "resources/read") ELSE Error(id, -32603)

\* Mutant: no return after the reply about the missing name.
NamelessGoesOn(w) ==
  /\ Asked(w, "tools/call")
  /\ req[w].name = NoName /\ wpc[w] = "received"
  /\ wpc' = [wpc EXCEPT ![w] = "reply"]
  /\ sent' = [sent EXCEPT ![w] = Append(@, Error(req[w].id, -32602))]
  /\ reply' = [reply EXCEPT ![w] = ToolReply(req[w].id, NOT_FOUND)]
  /\ UNCHANGED <<session_id, req>>

\* A call without its tool name, and a read without its uri.
Incomplete(w, method) ==
  /\ Asked(w, method) /\ req[w].name = NoName
  /\ Form(w, "received", Error(req[w].id, -32602))
  /\ UNCHANGED session_id

Nameless(w) == Incomplete(w, "tools/call")
Uriless(w)  == Incomplete(w, "resources/read")

\* registry_call_tool and registry_read_resource find the handler ...
Enter(w, method, table, to) ==
  /\ Asked(w, method) /\ wpc[w] = "received"
  /\ req[w].name \in DOMAIN table
  /\ wpc' = [wpc EXCEPT ![w] = to]
  /\ UNCHANGED <<session_id, req, reply, sent>>

CallTool(w)     == Enter(w, "tools/call", Tools, "calling")
ReadResource(w) == Enter(w, "resources/read", Resources, "reading")

ToolReturns(w) ==
  /\ wpc[w] = "calling"
  /\ \E rc \in Tools[req[w].name] : Form(w, "calling", ToolReply(req[w].id, rc))
  /\ UNCHANGED session_id

ResourceReturns(w) ==
  /\ wpc[w] = "reading"
  /\ \E rc \in Resources[req[w].name] : Form(w, "reading", ReadReply(req[w].id, rc))
  /\ UNCHANGED session_id

NoHandler(w) ==
  /\ req[w].name # NoName
  /\ \/ /\ Asked(w, "tools/call") /\ req[w].name \notin DOMAIN Tools
        /\ Form(w, "received", ToolReply(req[w].id, NOT_FOUND))
     \/ /\ Asked(w, "resources/read") /\ req[w].name \notin DOMAIN Resources
        /\ Form(w, "received", ReadReply(req[w].id, NOT_FOUND))
  /\ UNCHANGED session_id

\* Mutant: the end of the chain logs and returns.
UnsupportedSilent(w) ==
  /\ \E m \in Methods \ {"initialize", "notifications/initialized"} :
       Rpc(w, m) /\ (m \in NeedId => req[w].id = NoId)
  /\ wpc[w] = "received" /\ wpc' = [wpc EXCEPT ![w] = "idle"]
  /\ UNCHANGED <<session_id, req, reply, sent>>

\* The end of the chain, for a method without its id too.
Unsupported(w) ==
  /\ \E m \in Methods \ {"initialize", "notifications/initialized"} :
       Rpc(w, m) /\ (m \in NeedId => req[w].id = NoId)
  /\ Form(w, "received", Error(req[w].id, -32601))
  /\ UNCHANGED session_id

-----------------------------------------------------------------------------

Handle(w) ==
  \/ Outside(w) \/ Malformed(w) \/ Generate(w) \/ Initialize(w) \/ Notified(w)
  \/ ListResources(w) \/ ListTemplates(w) \/ ListTools(w) \/ Ping(w)
  \/ Nameless(w) \/ Uriless(w) \/ CallTool(w) \/ ReadResource(w) \/ NoHandler(w)
  \/ ToolReturns(w) \/ ResourceReturns(w) \/ Unsupported(w) \/ Send(w) \/ Unprinted(w)

Next ==
  \/ \E w \in Workers, r \in Requests : Receive(w, r)
  \/ \E w \in Workers : Handle(w)

Spec == Init /\ [][Next]_vars

-----------------------------------------------------------------------------
(* Properties *)

Kinds == {"http", "error", "result", "tool", "unknown_tool"}

TypeOK ==
  /\ session_id \in Sessions \cup {NoSession}
  /\ wpc \in [Workers -> WorkerPCs]
  /\ req \in [Workers -> Requests]
  /\ \A w \in Workers : /\ reply[w].id \in Ids \cup {NoId}
                       /\ reply[w].session \in Sessions \cup {NoSession}
                       /\ \A k \in 1 .. Len(sent[w]) : sent[w][k].kind \in Kinds

\* One request, one reply: every branch of the chain ends in a return, so that
\* nothing is written before the reply is complete or after it was sent.
OneReply == \A w \in Workers : Len(sent[w]) <= IF wpc[w] = "idle" THEN 1 ELSE 0

Answered(w) == wpc[w] = "idle" /\ sent[w] # <<>>

\* "Method not found" is only said of what README.md does not list as implemented
\* and of a listed method that lacks the id its answer would carry, and whoever
\* asks for these is told so, unless the text could not be printed (HTTP 500).
\* An answer bears the id of its request, whatever the other workers answer.
MethodNotFoundIsTrue ==
  \A w \in Workers : Answered(w) =>
    LET r == req[w]
        a == sent[w][1]
        notFound == a.kind = "error" /\ a.what = -32601
        refused == /\ r.target = "mcp" /\ r.body = "rpc"
                   /\ \/ r.method \notin Implemented
                      \/ r.id = NoId /\ r.method \notin {"initialize", "notifications/initialized"}
    IN /\ notFound => refused
       /\ refused => notFound \/ a = Http(500)
       /\ a.kind # "http" => a.id = r.id

\* A worker is done with a request when it has answered it, once.
EveryRequestAnswered ==
  [][\A w \in Workers : wpc[w] # "idle" /\ wpc'[w] = "idle" => Len(sent'[w]) = 1]_vars

\* "Unknown tool" (http.c, line 77) is said of tools that g_tools does not have,
\* and "Resource not found" (line 238) of URIs no handler matches: a handler that
\* fails is "Failed to read resource" (line 245).
UnknownIsUnknown ==
  \A w \in Workers : Answered(w) =>
    /\ sent[w][1].kind = "unknown_tool" => req[w].name \notin DOMAIN Tools
    /\ sent[w][1].kind = "error" /\ sent[w][1].what = -32002 => req[w].name \notin DOMAIN Resources
=============================================================================
