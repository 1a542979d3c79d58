------------------------------ MODULE SseTable ------------------------------
(***************************************************************************)
(* The table of SSE connections (source/transport/sse.c): HTTP workers     *)
(* that register a GET /mcp connection, and the heartbeat thread that      *)
(* sends an event to every connection and drops those whose send fails.    *)
(* Nothing locks the table.                                                *)
(*                                                                         *)
(* A step runs to the next kernel call (send, close, or the file I/O of a  *)
(* log line), where the other threads of the process, all of one priority  *)
(* on one core, can run.  The worker pool around it is reduced to what the *)
(* table sees of it: connections are accepted on the lowest free           *)
(* descriptor, and one that is not for SSE is closed by its worker.        *)
(***************************************************************************)
EXTENDS Integers, FiniteSets

CONSTANTS
  Workers,         \* HTTP worker threads
  Conns,           \* client connections
  Sessions,        \* Mcp-Session-Id values
  SessionOf,       \* the session a connection's GET names
  NoSession,       \* Mcp_Session_Id = NULL, a slot not in use
  NoConn,          \* a descriptor that is not open
  MaxConnections,  \* MAX_SSE_CONNECTIONS
  Fds              \* descriptors the process can have open for sockets

ASSUME SseAssumption ==
  /\ MaxConnections \in Nat \ {0}
  /\ NoSession \notin Sessions
  /\ NoConn \notin Conns
  /\ SessionOf \in [Conns -> Sessions]
  /\ Fds \subseteq Nat \ {0}

VARIABLES
  count,   \* sse_connection
  slots,   \* sse_connections
  wpc,     \* where each worker is in add_sse_connection
  wfd,     \* its argument client_fd
  wconn,   \* history: the connection that was accepted as client_fd
  indx,    \* its local indx
  hpc,     \* where the heartbeat thread is in notificate_all
  i,       \* its loop index
  conn,    \* the connection each descriptor stands for
  new,     \* the connections that have not been accepted yet
  gone,    \* the connections whose peer has gone
  met      \* history: a reconnect has met the heartbeat or another reconnect

tableVars  == <<count, slots>>
workerVars == <<wpc, wfd, wconn, indx>>
beatVars   == <<hpc, i>>
netVars    == <<conn, new, gone>>
sysVars    == <<tableVars, workerVars, beatVars, netVars>>
vars == <<sysVars, met>>

Slots == 1 .. MaxConnections
Zero  == [client_fd |-> 0, Mcp_Session_Id |-> NoSession]

WorkerPCs == {"idle", "add", "full", "oom", "reuse", "store", "header", "post"}
BeatPCs   == {"sleep", "loop", "failed", "closed"}

Init ==
  /\ count = 0
  /\ slots = [k \in Slots |-> Zero]
  /\ wpc = [w \in Workers |-> "idle"]
  /\ wfd = [w \in Workers |-> 0]
  /\ wconn = [w \in Workers |-> NoConn]
  /\ indx = [w \in Workers |-> 0]
  /\ hpc = "sleep"
  /\ i = 1
  /\ conn = [f \in Fds |-> NoConn]
  /\ new = Conns
  /\ gone = {}
  /\ met = FALSE

Goto(w, pc) == wpc' = [wpc EXCEPT ![w] = pc]

-----------------------------------------------------------------------------
(* Sockets *)

\* The connection a call on descriptor f reaches: 0 is no socket (it is stdin).
At(f) == IF f \in Fds THEN conn[f] ELSE NoConn

\* close(f): closing what is not open is an error nobody looks at.
Close(f) == conn' = [g \in Fds |-> IF g = f THEN NoConn ELSE conn[g]]

\* A send on f fails on a closed descriptor, and may fail once the peer has
\* gone; TCP can also take the bytes of a send to a peer that has gone.
Fails(f) == At(f) = NoConn \/ At(f) \in gone

PeerGoes(c) ==
  /\ \E f \in Fds : conn[f] = c
  /\ gone' = gone \cup {c}
  /\ UNCHANGED <<tableVars, workerVars, beatVars, conn, new>>

-----------------------------------------------------------------------------
(* Workers *)

Finish(w) ==
  /\ Goto(w, "idle")
  /\ wfd' = [wfd EXCEPT ![w] = 0]
  /\ wconn' = [wconn EXCEPT ![w] = NoConn]
  /\ indx' = [indx EXCEPT ![w] = 0]

\* A connection reaches a free worker on the lowest free descriptor: GET /mcp
\* with a session id, or any other request.
Accept(w, c) ==
  /\ wpc[w] = "idle"
  /\ c \in new
  /\ \E f \in Fds :
       /\ conn[f] = NoConn
       /\ \A g \in Fds : conn[g] = NoConn => f <= g
       /\ conn' = [conn EXCEPT ![f] = c]
       /\ wfd' = [wfd EXCEPT ![w] = f]
  /\ wconn' = [wconn EXCEPT ![w] = c]
  /\ new' = new \ {c}
  /\ \E pc \in {"add", "post"} : Goto(w, pc)
  /\ UNCHANGED <<tableVars, indx, beatVars, gone>>

\* Any other request: the response, and close(client_fd).
Post(w) ==
  /\ wpc[w] = "post"
  /\ Close(wfd[w])
  /\ Finish(w)
  /\ UNCHANGED <<tableVars, beatVars, new, gone>>

\* Mutant: the last slot in use is not looked at.
MatchingButLast(s) == {k \in 1 .. count - 1 : slots[k].Mcp_Session_Id = s}

\* The slots connected(s) looks for; it returns the first of them.
Matching(s) == {k \in 1 .. count : slots[k].Mcp_Session_Id = s}

AddFull(w) ==
  /\ wpc[w] = "add"
  /\ count >= MaxConnections
  /\ Goto(w, "full")
  /\ UNCHANGED <<tableVars, wfd, wconn, indx, beatVars, netVars>>

AddReuse(w) ==
  /\ wpc[w] = "add"
  /\ count < MaxConnections
  /\ \E k \in Matching(SessionOf[wconn[w]]) :
       /\ \A l \in Matching(SessionOf[wconn[w]]) : k <= l
       /\ indx' = [indx EXCEPT ![w] = k]
  /\ Goto(w, "reuse")
  /\ UNCHANGED <<tableVars, wfd, wconn, beatVars, netVars>>

\* A new session, if malloc has room for the copy of its id.
AddNew(w) ==
  /\ wpc[w] = "add"
  /\ count < MaxConnections
  /\ Matching(SessionOf[wconn[w]]) = {}
  /\ slots' = [slots EXCEPT ![count + 1] =
                 [client_fd |-> wfd[w], Mcp_Session_Id |-> SessionOf[wconn[w]]]]
  /\ count' = count + 1
  /\ Goto(w, "header")
  /\ UNCHANGED <<wfd, wconn, indx, beatVars, netVars>>

\* Mutant: the slot counts although malloc had no room.
AddNoMemoryCounted(w) ==
  /\ wpc[w] = "add"
  /\ count < MaxConnections
  /\ Matching(SessionOf[wconn[w]]) = {}
  /\ slots' = [slots EXCEPT ![count + 1].client_fd = wfd[w]]
  /\ count' = count + 1
  /\ Goto(w, "oom")
  /\ UNCHANGED <<wfd, wconn, indx, beatVars, netVars>>

\* malloc has no room: the slot keeps the descriptor, and count does not move.
AddNoMemory(w) ==
  /\ wpc[w] = "add"
  /\ count < MaxConnections
  /\ Matching(SessionOf[wconn[w]]) = {}
  /\ slots' = [slots EXCEPT ![count + 1].client_fd = wfd[w]]
  /\ Goto(w, "oom")
  /\ UNCHANGED <<count, wfd, wconn, indx, beatVars, netVars>>

CloseRefused(w) ==
  /\ wpc[w] \in {"full", "oom"}
  /\ Close(wfd[w])
  /\ Finish(w)
  /\ UNCHANGED <<tableVars, beatVars, new, gone>>

\* After the warning: close the old descriptor of the slot found before it.
CloseOld(w) ==
  /\ wpc[w] = "reuse"
  /\ Close(slots[indx[w]].client_fd)
  /\ Goto(w, "store")
  /\ UNCHANGED <<tableVars, wfd, wconn, indx, beatVars, new, gone>>

\* Store the new one in that slot (event_id is never read).
StoreNew(w) ==
  /\ wpc[w] = "store"
  /\ slots' = [slots EXCEPT ![indx[w]].client_fd = wfd[w]]
  /\ Goto(w, "header")
  /\ UNCHANGED <<count, wfd, wconn, indx, beatVars, netVars>>

\* sse_send_header: a failing send is logged, and left to the heartbeat.
SendHeader(w) ==
  /\ wpc[w] = "header"
  /\ Finish(w)
  /\ UNCHANGED <<tableVars, beatVars, netVars>>

-----------------------------------------------------------------------------
(* sse_heartbeat, notificate_all, free_connection and compact_connections *)

Beat ==
  /\ hpc = "sleep"
  /\ count > 0
  /\ hpc' = "loop"
  /\ i' = 1
  /\ UNCHANGED <<tableVars, workerVars, netVars>>

BeatSend ==
  /\ hpc = "loop"
  /\ i <= count
  /\ At(slots[i].client_fd) # NoConn
  /\ i' = i + 1
  /\ UNCHANGED <<tableVars, workerVars, hpc, netVars>>

\* Mutant: a connection whose send failed is passed over.
BeatSkip ==
  /\ hpc = "loop"
  /\ i <= count
  /\ Fails(slots[i].client_fd)
  /\ i' = i + 1
  /\ UNCHANGED <<tableVars, workerVars, hpc, netVars>>

\* Mutant: what send returns is misread, and a connection that is well dropped.
BeatFailAlways ==
  /\ hpc = "loop"
  /\ i <= count
  /\ hpc' = "failed"
  /\ UNCHANGED <<tableVars, workerVars, i, netVars>>

BeatFail ==
  /\ hpc = "loop"
  /\ i <= count
  /\ Fails(slots[i].client_fd)
  /\ hpc' = "failed"
  /\ UNCHANGED <<tableVars, workerVars, i, netVars>>

BeatDone ==
  /\ hpc = "loop"
  /\ i > count
  /\ hpc' = "sleep"
  /\ i' = 1
  /\ UNCHANGED <<tableVars, workerVars, netVars>>

\* After the log line: free_connection(i) closes whatever slot i holds by now.
\* Only this thread lowers count, so i is still in use here and below.
FreeClose ==
  /\ hpc = "failed"
  /\ Close(slots[i].client_fd)
  /\ hpc' = "closed"
  /\ UNCHANGED <<tableVars, workerVars, i, new, gone>>

\* Mutant: the last slot is dropped, whichever failed.
CompactLast ==
  /\ slots' = [slots EXCEPT ![count] = Zero]
  /\ count' = count - 1

\* Shift the slots behind i down by one, and count with them.
Compact ==
  /\ slots' = [k \in Slots |->
                 IF k >= i /\ k < count THEN slots[k + 1]
                 ELSE IF k = count THEN Zero ELSE slots[k]]
  /\ count' = count - 1

FreeCompact ==
  /\ hpc = "closed"
  /\ Compact
  /\ hpc' = "loop"
  /\ UNCHANGED <<workerVars, i, netVars>>

-----------------------------------------------------------------------------

WorkerStep(w) ==
  \/ Post(w) \/ AddFull(w) \/ AddReuse(w) \/ AddNew(w) \/ AddNoMemory(w)
  \/ CloseRefused(w) \/ CloseOld(w) \/ StoreNew(w) \/ SendHeader(w)

BeatStep ==
  Beat \/ BeatSend \/ BeatFail \/ BeatDone \/ FreeClose \/ FreeCompact

Step ==
  \/ \E w \in Workers, c \in Conns : Accept(w, c)
  \/ \E c \in Conns : PeerGoes(c)
  \/ \E w \in Workers : WorkerStep(w)
  \/ BeatStep

\* A worker holds the index of the slot it found, and the heartbeat is on its
\* way through the table, or another worker holds the same index.
HoldsIndex(w) == wpc[w] \in {"reuse", "store"}
Meeting ==
  \E w \in Workers :
    /\ HoldsIndex(w)
    /\ hpc # "sleep" \/ \E v \in Workers \ {w} : HoldsIndex(v) /\ indx[v] = indx[w]

Next == Step /\ met' = (met \/ Meeting')

Spec == Init /\ [][Next]_vars

\* Threads keep running, and TCP gives up on a peer that has gone.
Fairness ==
  /\ \A w \in Workers : WF_sysVars(WorkerStep(w))
  /\ WF_sysVars(BeatStep)
  /\ SF_sysVars(BeatFail)

FairSpec == Spec /\ Fairness

-----------------------------------------------------------------------------
(* Properties *)

TypeOK ==
  /\ count \in 0 .. MaxConnections
  /\ slots \in [Slots -> [client_fd : Fds \cup {0}, Mcp_Session_Id : Sessions \cup {NoSession}]]
  /\ wpc \in [Workers -> WorkerPCs]
  /\ wfd \in [Workers -> Fds \cup {0}]
  /\ wconn \in [Workers -> Conns \cup {NoConn}]
  /\ indx \in [Workers -> Slots \cup {0}]
  /\ hpc \in BeatPCs
  /\ i \in 1 .. MaxConnections + 1
  /\ conn \in [Fds -> Conns \cup {NoConn}]
  /\ new \subseteq Conns
  /\ gone \subseteq Conns
  /\ met \in BOOLEAN

\* A worker that has not handed its connection over yet holds it alone.
Holding == {w \in Workers : wpc[w] \in {"add", "full", "oom", "reuse", "store", "post"}}

\* Nobody closes the connection of a client whose request is being worked on:
\* until the worker itself closes it or hands it over, its descriptor stands
\* for the connection that was accepted on it.
KeepsItsConnection == ~met => \A w \in Holding : At(wfd[w]) = wconn[w]

\* Slots in use, but for those in the middle of being freed or reused.
Live == {k \in 1 .. count : /\ ~ (hpc = "closed" /\ k = i)
                            /\ \A w \in Workers : ~ (wpc[w] = "store" /\ indx[w] = k)}

\* The table never goes stale: a slot in use holds an open descriptor, that of
\* a connection of the session the slot names.
SlotIsItsStream ==
  ~met => \A k \in Live :
    /\ At(slots[k].client_fd) # NoConn
    /\ SessionOf[At(slots[k].client_fd)] = slots[k].Mcp_Session_Id

\* No connection is lost: one that is open is in a worker's hands or in the
\* table, where the heartbeat will reach it.
NothingLost ==
  ~met => \A f \in Fds : conn[f] # NoConn =>
    \/ \E w \in Holding : wfd[w] = f
    \/ \E k \in 1 .. count : slots[k].client_fd = f

Fate(c) ==
  IF c \in new THEN "new"
  ELSE IF \A f \in Fds : conn[f] # c THEN "closed"
  ELSE IF \E w \in Holding : wconn[w] = c THEN "held" ELSE "stream"

Abstract == INSTANCE Streams WITH status <- [c \in Conns |-> Fate(c)]

\* To its client the table behaves like Streams until a reconnect meets the
\* heartbeat: no stream whose peer is still there is closed, but for one of the
\* same session, and none that was closed comes back.
KeepsItsPromise == Abstract!Init /\ [][met' \/ Abstract!Next]_(Abstract!vars)

\* Whatever reconnects meet, a session has one slot, so that the next reconnect
\* finds the only one there is.
SessionsUnique ==
  \A k, l \in 1 .. count : slots[k].Mcp_Session_Id = slots[l].Mcp_Session_Id => k = l

\* The heartbeat removes every connection whose peer has gone, unless a
\* reconnect has met it.
GoneIsClosed ==
  \A c \in Conns : c \in gone ~> met \/ \A f \in Fds : conn[f] # c

\* "reuse this slot: close the old fd, keep the session id (same value)" (line
\* 139): the slot the new descriptor is stored in is in use for that session.
SlotReused ==
  [][\A w \in Workers : wpc[w] = "store" /\ wpc'[w] = "header" =>
       /\ indx[w] <= count'
       /\ slots'[indx[w]].Mcp_Session_Id = SessionOf[wconn[w]]]_vars
=============================================================================
