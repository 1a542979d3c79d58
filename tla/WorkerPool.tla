----------------------------- MODULE WorkerPool -----------------------------
(***************************************************************************)
(* The listener thread and the HTTP workers of                             *)
(* source/transport/streamable_http.c: how an accepted connection reaches  *)
(* a worker through worker_client_fd and worker_busy, and who closes it.   *)
(* Two flags per worker are the whole protocol: there is no lock and no    *)
(* queue, and a connection that finds every worker busy is closed.         *)
(*                                                                         *)
(* What a request asks for is left open: a worker hands its connection to  *)
(* the SSE table (SseTable) or answers and closes it.                      *)
(***************************************************************************)
EXTENDS Integers, FiniteSets

CONSTANTS
  WorkerCount,  \* WORKER_COUNT
  Fds,          \* descriptors for client connections
  NoFd          \* worker_client_fd[i] = -1, and no connection in hand

ASSUME PoolAssumption ==
  /\ WorkerCount \in Nat \ {0}
  /\ NoFd \notin Fds

Workers == 1 .. WorkerCount

VARIABLES
  lpc,        \* where the listener (run) is
  next,       \* its loop index over the workers
  client,     \* its local client_fd
  listening,  \* listen_fd >= 0
  stale,      \* a listening socket the program gave up still holds the port
  client_fd,  \* worker_client_fd
  busy,       \* worker_busy
  wpc,        \* where each worker (worker_func) is
  taken,      \* its local client_fd
  open,       \* client connections that are open
  sse         \* those the SSE table is responsible for

listenVars == <<lpc, next, client, listening, stale>>
workerVars == <<wpc, taken>>
sockVars   == <<open, sse>>
vars == <<listenVars, client_fd, busy, workerVars, sockVars>>

ListenerPCs == {"spawn", "accept", "scan", "mark", "reject", "returned"}
WorkerPCs   == {"none", "poll", "recv", "serve", "register", "close", "release"}

Init ==
  /\ lpc = "spawn"
  /\ next = 1
  /\ client = NoFd
  /\ listening = FALSE
  /\ stale = FALSE
  /\ client_fd = [i \in Workers |-> NoFd]
  /\ busy = [i \in Workers |-> 0]
  /\ wpc = [i \in Workers |-> "none"]
  /\ taken = [i \in Workers |-> NoFd]
  /\ open = {}
  /\ sse = {}

-----------------------------------------------------------------------------
(* run: start the workers *)

Spawn ==
  /\ lpc = "spawn"
  /\ next <= WorkerCount
  /\ busy' = [busy EXCEPT ![next] = 0]
  /\ client_fd' = [client_fd EXCEPT ![next] = NoFd]
  /\ \/ /\ wpc' = [wpc EXCEPT ![next] = "poll"]
        /\ next' = next + 1
        /\ lpc' = lpc
     \/ /\ lpc' = "returned"             \* threadCreate or threadStart failed
        /\ UNCHANGED <<wpc, next>>
  /\ UNCHANGED <<client, listening, stale, taken, sockVars>>

Spawned ==
  /\ lpc = "spawn"
  /\ next > WorkerCount
  /\ lpc' = "accept"
  /\ UNCHANGED <<next, client, listening, stale, client_fd, busy, workerVars, sockVars>>

-----------------------------------------------------------------------------
(* run: listen, accept, assign *)

\* socket_init: bind needs the port to be free, and any of its calls can fail,
\* after which the listener sleeps and tries again.
Listen ==
  /\ lpc = "accept"
  /\ ~listening
  /\ ~stale
  /\ listening' = TRUE
  /\ UNCHANGED <<lpc, next, client, stale, client_fd, busy, workerVars, sockVars>>

Accept ==
  /\ lpc = "accept"
  /\ listening
  /\ \E f \in Fds \ open :
       /\ client' = f
       /\ open' = open \cup {f}
  /\ next' = 1
  /\ lpc' = "scan"
  /\ UNCHANGED <<listening, stale, client_fd, busy, workerVars, sse>>

\* accept failed: listen_fd is set to -1 without a close.  The socket behind it
\* is gone (the network went down) or still bound to the port.
AcceptFails ==
  /\ lpc = "accept"
  /\ listening
  /\ listening' = FALSE
  /\ stale' \in BOOLEAN
  /\ UNCHANGED <<lpc, next, client, client_fd, busy, workerVars, sockVars>>

ScanBusy ==
  /\ lpc = "scan"
  /\ next <= WorkerCount
  /\ busy[next] = 1
  /\ next' = next + 1
  /\ UNCHANGED <<lpc, client, listening, stale, client_fd, busy, workerVars, sockVars>>

\* Mutant: the first worker is taken, busy or not.
ScanAny ==
  /\ lpc = "scan"
  /\ next <= WorkerCount
  /\ client_fd' = [client_fd EXCEPT ![next] = client]
  /\ lpc' = "mark"
  /\ UNCHANGED <<next, client, listening, stale, busy, workerVars, sockVars>>

ScanFree ==
  /\ lpc = "scan"
  /\ next <= WorkerCount
  /\ busy[next] = 0
  /\ client_fd' = [client_fd EXCEPT ![next] = client]
  /\ lpc' = "mark"
  /\ UNCHANGED <<next, client, listening, stale, busy, workerVars, sockVars>>

\* worker_busy[i] = 1 hands the connection over.
Mark ==
  /\ lpc = "mark"
  /\ busy' = [busy EXCEPT ![next] = 1]
  /\ client' = NoFd
  /\ lpc' = "accept"
  /\ UNCHANGED <<next, listening, stale, client_fd, workerVars, sockVars>>

ScanDone ==
  /\ lpc = "scan"
  /\ next > WorkerCount
  /\ lpc' = "reject"
  /\ UNCHANGED <<next, client, listening, stale, client_fd, busy, workerVars, sockVars>>

\* Mutant: a rejected connection is not closed.
RejectKeeping ==
  /\ lpc = "reject"
  /\ client' = NoFd
  /\ lpc' = "accept"
  /\ UNCHANGED <<next, listening, stale, client_fd, busy, workerVars, sockVars>>

Reject ==
  /\ lpc = "reject"
  /\ open' = open \ {client}
  /\ client' = NoFd
  /\ lpc' = "accept"
  /\ UNCHANGED <<next, listening, stale, client_fd, busy, workerVars, sse>>

-----------------------------------------------------------------------------
(* worker_func *)

Take(i) ==
  /\ wpc[i] = "poll"
  /\ busy[i] = 1
  /\ taken' = [taken EXCEPT ![i] = client_fd[i]]
  /\ wpc' = [wpc EXCEPT ![i] = "recv"]
  /\ UNCHANGED <<listenVars, client_fd, busy, sockVars>>

\* recv_full_request: nothing came, a GET /mcp with a session id came, or any
\* other request.  It returns when the peer sends or closes: no timeout.
Receive(i) ==
  /\ wpc[i] = "recv"
  /\ \E pc \in {"close", "register", "serve"} : wpc' = [wpc EXCEPT ![i] = pc]
  /\ UNCHANGED <<listenVars, client_fd, busy, taken, sockVars>>

\* handle_http_request, or the 400 answer to a GET without a session id.
Serve(i) ==
  /\ wpc[i] = "serve"
  /\ wpc' = [wpc EXCEPT ![i] = "close"]
  /\ UNCHANGED <<listenVars, client_fd, busy, taken, sockVars>>

Close(i) ==
  /\ wpc[i] = "close"
  /\ open' = open \ {taken[i]}
  /\ taken' = [taken EXCEPT ![i] = NoFd]
  /\ wpc' = [wpc EXCEPT ![i] = "release"]
  /\ UNCHANGED <<listenVars, client_fd, busy, sse>>

\* add_sse_connection puts the connection into its table or closes it.
Register(i) ==
  /\ wpc[i] = "register"
  /\ \/ sse' = sse \cup {taken[i]} /\ UNCHANGED open
     \/ open' = open \ {taken[i]} /\ UNCHANGED sse
  /\ taken' = [taken EXCEPT ![i] = NoFd]
  /\ wpc' = [wpc EXCEPT ![i] = "release"]
  /\ UNCHANGED <<listenVars, client_fd, busy>>

\* Mutant: worker_busy is not reset.
ReleaseBusy(i) ==
  /\ wpc[i] = "release"
  /\ wpc' = [wpc EXCEPT ![i] = "poll"]
  /\ UNCHANGED <<listenVars, client_fd, busy, taken, sockVars>>

Release(i) ==
  /\ wpc[i] = "release"
  /\ busy' = [busy EXCEPT ![i] = 0]
  /\ wpc' = [wpc EXCEPT ![i] = "poll"]
  /\ UNCHANGED <<listenVars, client_fd, taken, sockVars>>

\* The SSE table closes one of its connections.
SseCloses(f) ==
  /\ f \in sse
  /\ sse' = sse \ {f}
  /\ open' = open \ {f}
  /\ UNCHANGED <<listenVars, client_fd, busy, workerVars>>

-----------------------------------------------------------------------------

\* What the listener does without waiting for a client.
ListenerOwnStep ==
  \/ Spawn \/ Spawned \/ Listen
  \/ ScanBusy \/ ScanFree \/ Mark \/ ScanDone \/ Reject

ListenerStep == ListenerOwnStep \/ Accept \/ AcceptFails

WorkerStep(i) ==
  \/ Take(i) \/ Receive(i) \/ Serve(i) \/ Close(i) \/ Register(i) \/ Release(i)

Next ==
  \/ ListenerStep
  \/ \E i \in Workers : WorkerStep(i)
  \/ \E f \in Fds : SseCloses(f)

Spec == Init /\ [][Next]_vars

\* The threads keep running.  No client has to connect.  For a worker this also
\* assumes that every peer sends its request or closes, and that every tool
\* call returns.
Fairness ==
  /\ WF_vars(ListenerOwnStep)
  /\ \A i \in Workers : WF_vars(WorkerStep(i))

FairSpec == Spec /\ Fairness

-----------------------------------------------------------------------------
(* Properties *)

TypeOK ==
  /\ lpc \in ListenerPCs
  /\ next \in 1 .. WorkerCount + 1
  /\ client \in Fds \cup {NoFd}
  /\ listening \in BOOLEAN
  /\ stale \in BOOLEAN
  /\ client_fd \in [Workers -> Fds \cup {NoFd}]
  /\ busy \in [Workers -> {0, 1}]
  /\ wpc \in [Workers -> WorkerPCs]
  /\ taken \in [Workers -> Fds \cup {NoFd}]
  /\ open \subseteq Fds
  /\ sse \subseteq open

\* Who is responsible for a connection: the listener until it has marked a
\* worker busy, then that worker through the shared array, then through its own
\* variable, and the SSE table.
ListenerHolds == lpc \in {"scan", "mark", "reject"}
Handed(i)     == busy[i] = 1 /\ wpc[i] = "poll"
InHand(i)     == wpc[i] \in {"recv", "serve", "register", "close"}
Has(i, f)     == \/ Handed(i) /\ client_fd[i] = f
                 \/ InHand(i) /\ taken[i] = f

\* No two threads work on one connection, and none works on a closed one: each
\* descriptor that anybody is responsible for is open, and has one holder.
OneHolder ==
  /\ ListenerHolds => client \in open \ sse
  /\ \A i \in Workers, f \in Fds : Has(i, f) =>
       /\ f \in open \ sse
       /\ ~ (ListenerHolds /\ client = f)
       /\ \A j \in Workers : Has(j, f) => j = i

\* No connection is forgotten: whatever is open has a holder who will close it.
NothingLeaked ==
  \A f \in open :
    \/ f \in sse
    \/ ListenerHolds /\ client = f
    \/ \E i \in Workers : Has(i, f)

\* Every accepted connection is closed in the end, or becomes an SSE stream.
Finished == \A f \in Fds : f \in open \ sse ~> f \notin open \ sse
=============================================================================
