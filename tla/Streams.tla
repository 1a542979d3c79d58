------------------------------ MODULE Streams ------------------------------
(***************************************************************************)
(* What source/transport/sse.c promises the clients, without descriptors,  *)
(* slots or threads: a connection is answered and closed, or becomes the   *)
(* stream of its session; and a stream is closed when its peer has gone or *)
(* when the same session comes back, and for no other reason.              *)
(***************************************************************************)
CONSTANTS
  Conns,     \* client connections
  SessionOf  \* the session each of them names

VARIABLES
  status,  \* what each connection is: new, held by a worker, a stream, closed
  gone     \* the connections whose peer has gone
vars == <<status, gone>>

Init ==
  /\ status = [c \in Conns |-> "new"]
  /\ gone = {}

Become(c, from, to) ==
  /\ status[c] = from
  /\ status' = [status EXCEPT ![c] = to]
  /\ UNCHANGED gone

Accept(c) == Become(c, "new", "held")
Answer(c) == Become(c, "held", "closed")
Stream(c) == Become(c, "held", "stream")

Replace(c) ==
  /\ \E d \in Conns \ {c} : status[d] = "held" /\ SessionOf[d] = SessionOf[c]
  /\ Become(c, "stream", "closed")

Lose(c) ==
  /\ c \in gone
  /\ Become(c, "stream", "closed")

PeerGoes(c) ==
  /\ status[c] \in {"held", "stream"}
  /\ gone' = gone \cup {c}
  /\ UNCHANGED status

Next ==
  \E c \in Conns :
    Accept(c) \/ Answer(c) \/ Stream(c) \/ Replace(c) \/ Lose(c) \/ PeerGoes(c)

Spec == Init /\ [][Next]_vars
=============================================================================
