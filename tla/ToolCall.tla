------------------------------ MODULE ToolCall ------------------------------
(***************************************************************************)
(* What the calls of all tools and resources have in common: a worker has  *)
(* a request, is somewhere in the tool's code, has memory and open files   *)
(* that the code has to give back, and in the end an answer, the value the *)
(* tool's function returns (tool_spec and resource_spec,                   *)
(* source/transport/registry.h).                                           *)
(***************************************************************************)
EXTENDS Log

CONSTANTS
  Requests  \* the calls clients make: [action, path, text, append, limit]

VARIABLES
  pc,      \* where each worker is in a tool
  req,     \* the request it works on
  held,    \* the blocks and files it has got and not given back
  answer   \* what the tool returned: [ok, why]
callVars == <<pc, req, held, answer>>

NoRequest == [action |-> "none", path |-> <<>>, text |-> <<>>, append |-> FALSE, limit |-> 0]
NoAnswer  == [ok |-> FALSE, why |-> "none"]

CallInit ==
  /\ pc = [w \in Workers |-> "idle"]
  /\ req = [w \in Workers |-> NoRequest]
  /\ held = [w \in Workers |-> {}]
  /\ answer = [w \in Workers |-> NoAnswer]

At(w, where) == pc[w] = where /\ lpc[w] = "out"
Asked(w, actions) == At(w, "call") /\ req[w].action \in actions
Goto(w, to)   == pc' = [pc EXCEPT ![w] = to]
Get(w, what)  == held' = [held EXCEPT ![w] = @ \cup what]
Give(w, what) == held' = [held EXCEPT ![w] = @ \ what]

\* The tool returns, having given back what is named.
Return(w, what, ok, why) ==
  /\ Goto(w, "done")
  /\ Give(w, what)
  /\ answer' = [answer EXCEPT ![w] = [ok |-> ok, why |-> why]]
  /\ UNCHANGED req

\* The reply has gone out, and nothing is left of the call.
CallEnd(w) ==
  /\ Goto(w, "idle")
  /\ req' = [req EXCEPT ![w] = NoRequest]
  /\ answer' = [answer EXCEPT ![w] = NoAnswer]
  /\ UNCHANGED held

\* It goes on, holding more or less.
Take(w, to, what) == Goto(w, to) /\ Get(w, what) /\ UNCHANGED <<req, answer>>
Drop(w, to, what) == Goto(w, to) /\ Give(w, what) /\ UNCHANGED <<req, answer>>
=============================================================================
