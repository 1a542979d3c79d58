--------------------------- MODULE SseTableProofs ---------------------------
(***************************************************************************)
(* Theorems about SseTable, for every table size and every set of workers, *)
(* connections, sessions and descriptors, reconnects included: types and   *)
(* sessions, then who owns each descriptor, then that the table implements *)
(* Streams.                                                                *)
(***************************************************************************)
EXTENDS SseTable, TLAPS

\* The heartbeat thread frees a slot in use, and a worker in the middle of a
\* call has its arguments.
InUse ==
  /\ hpc \in {"failed", "closed"} => i <= count
  /\ \A w \in Workers : wpc[w] # "idle" => wfd[w] \in Fds /\ wconn[w] \in Conns

\* The types but for the history variable met, which each step only raises.
TableTypes ==
  /\ count \in 0 .. MaxConnections
  /\ slots \in [Slots -> [client_fd : Fds \cup {0}, Mcp_Session_Id : Sessions \cup {NoSession}]]
  /\ wpc \in [Workers -> WorkerPCs]
  /\ wfd \in [Workers -> Fds \cup {0}]
  /\ wconn \in [Workers -> Conns \cup {NoConn}]
  /\ indx \in [Workers -> Slots \cup {0}]
  /\ hpc \in BeatPCs
  /\ i \in 1 .. MaxConnections + 1
  /\ conn \in [Fds -> Conns \cup {NoConn}]
  /\ new \subseteq Conns
  /\ gone \subseteq Conns

MetType == met \in BOOLEAN

SseInv == TableTypes /\ InUse /\ SessionsUnique

\* The boot state.
LEMMA SseInit == Init => SseInv
BY SseAssumption
   DEF SseAssumption, Init, SseInv, TableTypes, InUse, SessionsUnique, Slots, Zero, WorkerPCs, BeatPCs

\* A connection is accepted, or its peer goes: the table is not touched.
LEMMA NetKeeps ==
  ASSUME SseAssumption, SseInv,
         \/ \E w \in Workers, c \in Conns : Accept(w, c)
         \/ \E c \in Conns : PeerGoes(c)
  PROVE  SseInv'
<1>1. ASSUME NEW w \in Workers, NEW c \in Conns, Accept(w, c)
      PROVE  SseInv'
  BY <1>1 DEF Accept, SseInv, TableTypes, InUse, SessionsUnique, tableVars, beatVars, Goto, WorkerPCs
<1>2. ASSUME NEW c \in Conns, PeerGoes(c)
      PROVE  SseInv'
  BY <1>2 DEF PeerGoes, SseInv, TableTypes, InUse, SessionsUnique, tableVars, workerVars, beatVars
<1> QED  BY <1>1, <1>2

\* Closing keeps the descriptors well typed.
LEMMA CloseTypes ==
  ASSUME TableTypes, NEW f, Close(f)
  PROVE  conn' \in [Fds -> Conns \cup {NoConn}]
<1>1. \A g \in Fds : conn[g] \in Conns \cup {NoConn}
  BY DEF TableTypes
<1> QED  BY <1>1 DEF Close

\* A worker adds a session only when no slot in use has it.
LEMMA WorkerKeeps ==
  ASSUME SseAssumption, SseInv, NEW w \in Workers, WorkerStep(w)
  PROVE  SseInv'
<1> USE DEF SseInv, Goto, WorkerPCs, tableVars, beatVars, netVars
<1>1. CASE Post(w) \/ CloseRefused(w)
  BY <1>1, CloseTypes DEF Post, CloseRefused, Finish, TableTypes, InUse, SessionsUnique
<1>2. CASE AddFull(w)
  BY <1>2 DEF AddFull, TableTypes, InUse, SessionsUnique
<1>3. CASE AddReuse(w)
  BY <1>3, SseAssumption
     DEF AddReuse, Matching, Slots, TableTypes, InUse, SessionsUnique, SseAssumption
<1>4. CASE AddNew(w)
  <2>1. /\ count' = count + 1 /\ count < MaxConnections /\ count \in Nat
        /\ wfd[w] \in Fds /\ SessionOf[wconn[w]] \in Sessions \cup {NoSession}
        /\ \A k \in 1 .. count : slots[k].Mcp_Session_Id # SessionOf[wconn[w]]
    BY <1>4, SseAssumption DEF AddNew, Matching, TableTypes, InUse, SseAssumption
  <2>2. /\ slots' \in [Slots -> [client_fd : Fds \cup {0}, Mcp_Session_Id : Sessions \cup {NoSession}]]
        /\ slots'[count + 1].Mcp_Session_Id = SessionOf[wconn[w]]
        /\ \A k \in 1 .. count : slots'[k] = slots[k]
    BY <1>4, <2>1, SseAssumption DEF AddNew, Slots, TableTypes, SseAssumption
  <2>3. SessionsUnique'
    BY <2>1, <2>2 DEF SessionsUnique
  <2>4. TableTypes' /\ InUse'
    BY <1>4, <2>1, <2>2, SseAssumption DEF AddNew, TableTypes, InUse, SseAssumption
  <2> QED  BY <2>3, <2>4
<1>5. CASE AddNoMemory(w)
  <2>1. count + 1 \in Slots /\ wfd[w] \in Fds
    BY <1>5, SseAssumption DEF AddNoMemory, Slots, TableTypes, InUse, SseAssumption
  <2>2. /\ slots' \in [Slots -> [client_fd : Fds \cup {0}, Mcp_Session_Id : Sessions \cup {NoSession}]]
        /\ \A k \in Slots : slots'[k].Mcp_Session_Id = slots[k].Mcp_Session_Id
    BY <1>5, <2>1 DEF AddNoMemory, TableTypes
  <2> QED  BY <1>5, <2>2, SseAssumption
           DEF AddNoMemory, TableTypes, InUse, SessionsUnique, Slots, SseAssumption
<1>6. CASE CloseOld(w)
  BY <1>6, CloseTypes DEF CloseOld, TableTypes, InUse, SessionsUnique
<1>7. CASE StoreNew(w)
  <2>1. wfd[w] \in Fds
    BY <1>7 DEF StoreNew, InUse
  <2>2. /\ slots' \in [Slots -> [client_fd : Fds \cup {0}, Mcp_Session_Id : Sessions \cup {NoSession}]]
        /\ \A k \in Slots : slots'[k].Mcp_Session_Id = slots[k].Mcp_Session_Id
    <3>1. CASE indx[w] \in Slots
      BY <1>7, <2>1, <3>1 DEF StoreNew, TableTypes
    <3>2. CASE indx[w] \notin Slots
      <4>1. slots' = slots
        BY <1>7, <3>2 DEF StoreNew, TableTypes
      <4> QED  BY <4>1 DEF TableTypes
    <3> QED  BY <3>1, <3>2
  <2> QED  BY <1>7, <2>2, SseAssumption
           DEF StoreNew, TableTypes, InUse, SessionsUnique, Slots, SseAssumption
<1>8. CASE SendHeader(w)
  BY <1>8, CloseTypes DEF SendHeader, Finish, TableTypes, InUse, SessionsUnique
<1> QED  BY <1>1, <1>2, <1>3, <1>4, <1>5, <1>6, <1>7, <1>8 DEF WorkerStep

\* The heartbeat only removes slots: what it shifts stays unique.
LEMMA BeatKeeps ==
  ASSUME SseAssumption, SseInv, BeatStep
  PROVE  SseInv'
<1> USE DEF SseInv, BeatPCs, tableVars, workerVars, netVars
<1>1. CASE Beat \/ BeatDone
  BY <1>1, SseAssumption DEF Beat, BeatDone, TableTypes, InUse, SessionsUnique, SseAssumption
<1>2. CASE BeatSend
  BY <1>2, CloseTypes, SseAssumption DEF BeatSend, TableTypes, InUse, SessionsUnique, SseAssumption
<1>3. CASE BeatFail
  BY <1>3 DEF BeatFail, TableTypes, InUse, SessionsUnique
<1>4. CASE FreeClose
  BY <1>4, CloseTypes DEF FreeClose, TableTypes, InUse, SessionsUnique
<1>5. CASE FreeCompact
  <2>1. /\ i \in 1 .. count /\ count \in 1 .. MaxConnections /\ count' = count - 1
        /\ MaxConnections \in Nat
    BY <1>5, SseAssumption DEF FreeCompact, Compact, TableTypes, InUse, SseAssumption
  <2>2. \A k \in Slots : slots'[k] = IF k >= i /\ k < count THEN slots[k + 1]
                                     ELSE IF k = count THEN Zero ELSE slots[k]
    BY <1>5 DEF FreeCompact, Compact
  <2>3. slots' \in [Slots -> [client_fd : Fds \cup {0}, Mcp_Session_Id : Sessions \cup {NoSession}]]
    <3>1. Zero \in [client_fd : Fds \cup {0}, Mcp_Session_Id : Sessions \cup {NoSession}]
      BY DEF Zero
    <3>2. \A k \in Slots : k < count => k + 1 \in Slots
      BY <2>1 DEF Slots
    <3> QED  BY <1>5, <3>1, <3>2 DEF FreeCompact, Compact, TableTypes
  <2>4. SessionsUnique'
    <3>1. \A k \in 1 .. count' :
            slots'[k] = slots[IF k >= i THEN k + 1 ELSE k]
      BY <2>1, <2>2 DEF Slots
    <3>2. SUFFICES ASSUME NEW k \in 1 .. count', NEW l \in 1 .. count',
                          slots'[k].Mcp_Session_Id = slots'[l].Mcp_Session_Id
                   PROVE  k = l
      BY DEF SessionsUnique
    <3> DEFINE Old(n) == IF n >= i THEN n + 1 ELSE n
    <3>3. Old(k) \in 1 .. count /\ Old(l) \in 1 .. count
      BY <2>1, <3>2
    <3>4. Old(k) = Old(l)
      BY <3>1, <3>2, <3>3 DEF SessionsUnique
    <3> QED  BY <2>1, <3>2, <3>4
  <2> QED  BY <1>5, <2>1, <2>3, <2>4 DEF FreeCompact, Compact, TableTypes, InUse
<1> QED  BY <1>1, <1>2, <1>3, <1>4, <1>5 DEF BeatStep

\* The invariant holds in every reachable state.
THEOREM SseSafe == Spec => []SseInv
<1>1. SseInv /\ [Next]_vars => SseInv'
  <2>1. ASSUME SseInv, UNCHANGED vars
        PROVE  SseInv'
    BY <2>1 DEF SseInv, TableTypes, InUse, SessionsUnique, vars, sysVars, tableVars, workerVars, beatVars, netVars
  <2> QED  BY <2>1, SseAssumption, NetKeeps, WorkerKeeps, BeatKeeps DEF Next, Step
<1> QED  BY <1>1, SseInit, PTL DEF Spec

\* A session never has two slots, whatever reconnects and removals interleave.
THEOREM SseSessionsUnique == Spec => []SessionsUnique
BY SseSafe, PTL DEF SseInv

\* The table never overflows, and every variable keeps its type.
THEOREM SseTypeCorrect == Spec => []TypeOK
<1>1. Init => MetType
  BY Zenon DEF Init, MetType
<1>2. MetType /\ [Next]_vars => MetType'
  BY Zenon DEF Next, vars, MetType
<1>3. SseInv /\ MetType => TypeOK
  BY DEF TypeOK, TableTypes, SseInv, MetType
<1> QED  BY <1>1, <1>2, <1>3, SseSafe, PTL DEF Spec
-----------------------------------------------------------------------------
(* Who owns which descriptor.  As long as no reconnect has met the heartbeat *)
(* or another reconnect, every open descriptor has exactly one owner: the    *)
(* worker that holds it or the slot that lists it.                           *)

\* Whatever meets, a connection has one descriptor, and only after its accept.
Descriptors ==
  /\ \A f, g \in Fds : conn[f] = conn[g] /\ conn[f] # NoConn => f = g
  /\ \A f \in Fds : conn[f] \notin new
  /\ \A w \in Workers : wconn[w] \notin new

\* The slot a reconnecting worker has found is in use for its session.
Indices ==
  \A w \in Workers : HoldsIndex(w) =>
    /\ indx[w] \in 1 .. count
    /\ slots[indx[w]].Mcp_Session_Id = SessionOf[wconn[w]]

\* What SlotIsItsStream says of one slot.
IsStream(k) ==
  /\ At(slots[k].client_fd) # NoConn
  /\ SessionOf[At(slots[k].client_fd)] = slots[k].Mcp_Session_Id

OneOwner ==
  /\ \A w \in Holding : At(wfd[w]) = wconn[w]
  /\ \A v, w \in Holding : wfd[v] = wfd[w] => v = w
  /\ \A k \in Live : IsStream(k)
  /\ \A k \in Live, w \in Holding : slots[k].client_fd # wfd[w]
  /\ \A k, l \in Live : slots[k].client_fd = slots[l].client_fd => k = l
  /\ \A f \in Fds : conn[f] # NoConn =>
       \/ \E w \in Holding : wfd[w] = f
       \/ \E k \in Live : slots[k].client_fd = f

\* The slot the heartbeat is about to free has a peer that has gone.
Broken == hpc = "failed" => At(slots[i].client_fd) \in gone

Owned == ~met => ~Meeting /\ Indices /\ OneOwner /\ Broken

OwnInv == Descriptors /\ Owned

LEMMA OwnInit == ASSUME SseAssumption PROVE Init => OwnInv
<1> SUFFICES ASSUME Init PROVE OwnInv
  OBVIOUS
<1>1. Descriptors
  BY DEF Descriptors, Init, SseAssumption
<1>2. ~Meeting /\ Indices /\ Broken
  BY DEF Meeting, HoldsIndex, Indices, Broken, Init
<1>3. Holding = {} /\ Live = {}
  BY DEF Holding, Live, Init
<1>4. OneOwner
  BY <1>3 DEF OneOwner, Init
<1> QED  BY <1>1, <1>2, <1>4 DEF OwnInv, Owned

\* Descriptors are only ever closed, but for the free one that accept gives to
\* a connection that is new.
LEMMA DescriptorsKept ==
  ASSUME SseAssumption, SseInv, Descriptors, [Next]_vars
  PROVE  Descriptors'
<1>1. ASSUME NEW f, Close(f), new' = new, \A w \in Workers : wconn'[w] \in {wconn[w], NoConn}
      PROVE  Descriptors'
  BY <1>1, SseAssumption DEF Close, Descriptors, SseAssumption, SseInv, TableTypes
<1>2. ASSUME conn' = conn, new' = new, \A w \in Workers : wconn'[w] \in {wconn[w], NoConn}
      PROVE  Descriptors'
  BY <1>2, SseAssumption DEF Descriptors, SseAssumption, SseInv, TableTypes
<1>3. ASSUME NEW w \in Workers, NEW c \in Conns, Accept(w, c)
      PROVE  Descriptors'
  <2>1. PICK f \in Fds : conn[f] = NoConn /\ conn' = [conn EXCEPT ![f] = c]
    BY <1>3 DEF Accept
  <2>2. \A g \in Fds : conn'[g] = IF g = f THEN c ELSE conn[g]
    BY <2>1 DEF SseInv, TableTypes
  <2>3. c \in new /\ new' = new \ {c} /\ \A v \in Workers : wconn'[v] = IF v = w THEN c ELSE wconn[v]
    BY <1>3 DEF Accept, SseInv, TableTypes
  <2> QED  BY <2>1, <2>2, <2>3 DEF Descriptors
<1>4. ASSUME NEW w \in Workers, WorkerStep(w)
      PROVE  Descriptors'
  <2>1. new' = new /\ \A v \in Workers : wconn'[v] \in {wconn[v], NoConn}
    BY <1>4 DEF WorkerStep, Post, AddFull, AddReuse, AddNew, AddNoMemory, CloseRefused,
                CloseOld, StoreNew, SendHeader, Finish, netVars, SseInv, TableTypes
  <2>2. CASE Post(w) \/ CloseRefused(w) \/ CloseOld(w)
    BY <2>1, <2>2, <1>1 DEF Post, CloseRefused, CloseOld
  <2>3. CASE AddFull(w) \/ AddReuse(w) \/ AddNew(w) \/ AddNoMemory(w) \/ StoreNew(w) \/ SendHeader(w)
    BY <2>1, <2>3, <1>2 DEF AddFull, AddReuse, AddNew, AddNoMemory, StoreNew, SendHeader, netVars
  <2> QED  BY <1>4, <2>2, <2>3 DEF WorkerStep
<1>5. CASE FreeClose
  BY <1>5, <1>1 DEF FreeClose, workerVars
<1>6. CASE UNCHANGED <<conn, new, wconn>>
  BY <1>6, <1>2
<1>7. ASSUME Beat \/ BeatSend \/ BeatFail \/ BeatDone \/ FreeCompact \/ (\E c \in Conns : PeerGoes(c)) \/ UNCHANGED vars
      PROVE  UNCHANGED <<conn, new, wconn>>
  BY <1>7 DEF Beat, BeatSend, BeatFail, BeatDone, FreeCompact, PeerGoes, workerVars, netVars, vars, sysVars
<1> QED  BY <1>3, <1>4, <1>5, <1>6, <1>7 DEF Next, Step, BeatStep

\* Nothing an owner is told by changes.
LEMMA OwnersSame ==
  ASSUME OneOwner, Holding' = Holding, Live' = Live, conn' = conn,
         \A w \in Holding : wfd'[w] = wfd[w] /\ wconn'[w] = wconn[w],
         \A k \in Live : slots'[k] = slots[k]
  PROVE  OneOwner'
BY DEF OneOwner, At, IsStream

\* A worker closes the descriptor it holds.
LEMMA HolderCloses ==
  ASSUME SseAssumption, OneOwner, NEW w \in Holding, Close(wfd[w]), Holding' = Holding \ {w}, Live' = Live,
         \A v \in Holding' : wfd'[v] = wfd[v] /\ wconn'[v] = wconn[v],
         \A k \in Live : slots'[k] = slots[k]
  PROVE  OneOwner'
<1>1. \A f : f # wfd[w] => At(f)' = At(f)
  BY DEF At, Close
<1>2. \A f \in Fds : conn'[f] # NoConn => f # wfd[w] /\ conn[f] # NoConn
  BY DEF Close
<1>3. \A v \in Holding' : wfd'[v] # wfd[w]
  BY DEF OneOwner
<1>4. \A k \in Live' : slots'[k].client_fd # wfd[w] /\ IsStream(k)'
  BY <1>1 DEF OneOwner, IsStream
<1> QED  BY <1>1, <1>2, <1>3, <1>4 DEF OneOwner

\* The descriptor of a slot is closed, by the heartbeat or by a reconnect.
LEMMA SlotCloses ==
  ASSUME SseAssumption, OneOwner, NEW k \in Live, Close(slots[k].client_fd), Holding' = Holding, Live' = Live \ {k},
         \A w \in Holding : wfd'[w] = wfd[w] /\ wconn'[w] = wconn[w],
         slots' = slots
  PROVE  OneOwner'
<1> DEFINE x == slots[k].client_fd
<1>1. \A f : f # x => At(f)' = At(f)
  BY DEF At, Close
<1>2. \A f \in Fds : conn'[f] # NoConn => f # x /\ conn[f] # NoConn
  BY DEF Close
<1>3. \A v \in Holding' : wfd'[v] # x
  BY DEF OneOwner
<1>4. \A l \in Live' : slots'[l].client_fd # x /\ IsStream(l)'
  BY <1>1 DEF OneOwner, IsStream
<1> QED  BY <1>1, <1>2, <1>3, <1>4 DEF OneOwner

\* A worker hands the descriptor it holds over to a slot that has none.
LEMMA HandsOver ==
  ASSUME SseAssumption, OneOwner, NEW w \in Holding, NEW k, k \notin Live, wconn[w] \in Conns,
         Holding' = Holding \ {w}, Live' = Live \cup {k}, conn' = conn,
         \A v \in Holding' : wfd'[v] = wfd[v] /\ wconn'[v] = wconn[v],
         \A l \in Live : slots'[l] = slots[l],
         slots'[k].client_fd = wfd[w],
         slots'[k].Mcp_Session_Id = SessionOf[wconn[w]]
  PROVE  OneOwner'
<1>1. \A f : At(f)' = At(f)
  BY DEF At
<1>2. IsStream(k)'
  BY <1>1 DEF OneOwner, IsStream, SseAssumption
<1>3. \A l \in Live : IsStream(l)'
  BY <1>1 DEF OneOwner, IsStream
<1> QED  BY <1>1, <1>2, <1>3 DEF OneOwner

\* While nothing has met, no reconnect is on its way beside the heartbeat, and
\* no two share a slot.
LEMMA Unmet ==
  ASSUME SseInv, ~Meeting
  PROVE  /\ \A w \in Workers : HoldsIndex(w) =>
              /\ hpc = "sleep"
              /\ \A v \in Workers : HoldsIndex(v) /\ indx[v] = indx[w] => v = w
         /\ hpc # "sleep" => Live = {k \in 1 .. count : ~ (hpc = "closed" /\ k = i)}
BY DEF Meeting, HoldsIndex, Live

\* The slots a step of one worker takes out of use or puts into it.
LEMMA WorkerLive ==
  ASSUME NEW w \in Workers, hpc' = hpc, i' = i, count' = count,
         \A v \in Workers \ {w} : wpc'[v] = wpc[v] /\ indx'[v] = indx[v]
  PROVE  /\ \A v \in Workers \ {w} : v \in Holding' <=> v \in Holding
         /\ wpc[w] # "store" /\ wpc'[w] # "store" => Live' = Live
BY DEF Holding, Live

\* A step of a worker that takes or gives no descriptor.
LEMMA QuietOwner ==
  ASSUME SseAssumption, SseInv, OneOwner, NEW w \in Workers,
         AddFull(w) \/ AddReuse(w) \/ AddNoMemory(w) \/ SendHeader(w)
  PROVE  /\ OneOwner'
         /\ Holding' = Holding
         /\ \A v \in Holding : wconn'[v] = wconn[v]
<1> USE DEF SseInv, TableTypes, Goto, beatVars, netVars, tableVars
<1>1. \A v \in Workers \ {w} : wpc'[v] = wpc[v] /\ indx'[v] = indx[v]
  BY DEF AddFull, AddReuse, AddNoMemory, SendHeader, Finish
<1>2. /\ hpc' = hpc /\ i' = i /\ count' = count /\ conn' = conn
      /\ wpc[w] # "store" /\ wpc'[w] # "store"
      /\ w \in Holding' <=> w \in Holding
  BY DEF AddFull, AddReuse, AddNoMemory, SendHeader, Finish, Holding
<1>3. Holding' = Holding
  <2>1. \A v \in Holding : v \in Workers
    BY DEF Holding
  <2>2. \A v \in Holding' : v \in Workers
    BY DEF Holding
  <2>3. \A v \in Workers \ {w} : v \in Holding' <=> v \in Holding
    BY <1>1, <1>2, WorkerLive
  <2>4. \A v : v \in Holding' <=> v \in Holding
    BY <1>2, <2>1, <2>2, <2>3
  <2> QED  BY <2>4
<1>4. \A v \in Holding : wfd'[v] = wfd[v] /\ wconn'[v] = wconn[v]
  BY DEF AddFull, AddReuse, AddNoMemory, SendHeader, Finish, Holding
<1>5. \A k \in Live : slots'[k] = slots[k]
  BY SseAssumption DEF AddFull, AddReuse, AddNoMemory, SendHeader, Live, SseAssumption, Slots
<1>6. Live' = Live
  BY <1>1, <1>2, WorkerLive
<1> QED  BY <1>2, <1>3, <1>4, <1>5, <1>6, OwnersSame

\* A worker answers or refuses its connection.
LEMMA CloserOwner ==
  ASSUME SseAssumption, SseInv, OneOwner, NEW w \in Workers,
         Post(w) \/ CloseRefused(w)
  PROVE  /\ OneOwner'
         /\ w \in Holding /\ Holding' = Holding \ {w}
         /\ \A v \in Holding' : wconn'[v] = wconn[v]
<1> USE DEF SseInv, TableTypes, Goto, beatVars, tableVars
<1>1. \A v \in Workers \ {w} : wpc'[v] = wpc[v] /\ indx'[v] = indx[v]
  BY DEF Post, CloseRefused, Finish
<1>2. /\ hpc' = hpc /\ i' = i /\ count' = count /\ slots' = slots
      /\ wpc[w] # "store" /\ wpc'[w] # "store"
      /\ w \in Holding /\ w \notin Holding' /\ Close(wfd[w])
  BY DEF Post, CloseRefused, Finish, Holding
<1>3. Holding' = Holding \ {w}
  <2>1. \A v \in Holding : v \in Workers
    BY DEF Holding
  <2>2. \A v \in Holding' : v \in Workers
    BY DEF Holding
  <2> QED  BY <1>1, <1>2, <2>1, <2>2, WorkerLive
<1>4. \A v \in Holding' : wfd'[v] = wfd[v] /\ wconn'[v] = wconn[v]
  BY DEF Post, CloseRefused, Finish, Holding
<1>5. Live' = Live
  BY <1>1, <1>2, WorkerLive
<1> QED  BY <1>2, <1>3, <1>4, <1>5, HolderCloses

\* A new session, or a reconnect whose slot is free by now: the descriptor goes
\* from its worker into the table.
LEMMA GiverOwner ==
  ASSUME SseAssumption, SseInv, ~Meeting, Indices, OneOwner, NEW w \in Workers,
         AddNew(w) \/ StoreNew(w)
  PROVE  /\ OneOwner'
         /\ w \in Holding /\ Holding' = Holding \ {w}
         /\ \A v \in Holding' : wconn'[v] = wconn[v]
<1> USE DEF SseInv, TableTypes, Goto, beatVars, netVars, tableVars
<1>1. \A v \in Workers \ {w} : wpc'[v] = wpc[v]
  BY DEF AddNew, StoreNew
<1>2. /\ hpc' = hpc /\ i' = i /\ conn' = conn /\ indx' = indx /\ wfd' = wfd /\ wconn' = wconn
      /\ wpc'[w] = "header"
      /\ w \in Holding /\ w \notin Holding'
  BY DEF AddNew, StoreNew, Holding
<1>3. Holding' = Holding \ {w}
  BY <1>1, <1>2 DEF Holding
<1>4. wconn[w] \in Conns /\ wfd[w] \in Fds
  BY DEF AddNew, StoreNew, InUse
<1>5. CASE AddNew(w)
  <2> DEFINE k == count + 1
  <2>1. /\ k \in Slots /\ k \notin Live /\ count' = k
        /\ slots' = [slots EXCEPT ![k] = [client_fd |-> wfd[w], Mcp_Session_Id |-> SessionOf[wconn[w]]]]
    BY <1>5, SseAssumption DEF AddNew, Slots, SseAssumption, Live
  <2>2. \A l \in Live : l # k /\ l \in Slots
    BY SseAssumption DEF Live, Slots, SseAssumption
  <2>3. \A l \in Live : slots'[l] = slots[l]
    BY <2>1, <2>2
  <2>4. \A v \in Workers : wpc[v] = "store" => indx[v] \in 1 .. count
    BY DEF Indices, HoldsIndex
  <2>5. ~ (hpc = "closed" /\ k = i)
    BY DEF InUse
  <2>6. wpc[w] = "add"
    BY <1>5 DEF AddNew
  <2>7. 1 .. count' = (1 .. count) \cup {k}
    <3>1. count \in Nat /\ count' = count + 1
      BY <2>1, SseAssumption DEF SseAssumption
    <3>2. \A n : n \in 1 .. count' <=> n \in (1 .. count) \cup {k}
      BY <3>1
    <3> QED  BY <3>2
  <2>8. Live' = Live \cup {k}
    BY <1>1, <1>2, <2>4, <2>5, <2>6, <2>7 DEF Live
  <2>9. /\ slots'[k].client_fd = wfd[w] 
        /\ slots'[k].Mcp_Session_Id = SessionOf[wconn[w]]
    BY <2>1
  <2> HIDE DEF k
  <2> QED  BY <1>2, <1>3, <1>4, <2>1, <2>3, <2>8, <2>9, HandsOver
<1>6. CASE StoreNew(w)
  <2> DEFINE k == indx[w]
  <2>1. /\ wpc[w] = "store" /\ HoldsIndex(w) /\ count' = count
        /\ slots' = [slots EXCEPT ![k].client_fd = wfd[w]]
    BY <1>6 DEF StoreNew, HoldsIndex
  <2>2. /\ k \in 1 .. count /\ k \in Slots /\ k \notin Live
        /\ slots[k].Mcp_Session_Id = SessionOf[wconn[w]]
    BY <2>1, SseAssumption DEF Indices, Live, Slots, SseAssumption
  <2>3. \A l \in Live : slots'[l] = slots[l]
    BY <2>1, <2>2
  <2>4. /\ slots'[k].client_fd = wfd[w]
        /\ slots'[k].Mcp_Session_Id = SessionOf[wconn[w]]
    BY <2>1, <2>2
  <2>5. hpc = "sleep" /\ \A v \in Workers : wpc[v] = "store" /\ indx[v] = k => v = w
    BY <2>1, Unmet DEF HoldsIndex
  <2>6. Live' = Live \cup {k}
    BY <1>1, <1>2, <2>1, <2>2, <2>5 DEF Live
  <2> HIDE DEF k
  <2> QED  BY <1>2, <1>3, <1>4, <2>2, <2>3, <2>4, <2>6, HandsOver
<1> QED  BY <1>2, <1>3, <1>5, <1>6

\* A reconnect closes the old descriptor of its slot.
LEMMA ReplacerOwner ==
  ASSUME SseAssumption, SseInv, ~Meeting, Indices, OneOwner, NEW w \in Workers, CloseOld(w)
  PROVE  OneOwner' /\ indx[w] \in Live /\ w \in Holding /\ Holding' = Holding
<1> USE DEF SseInv, TableTypes, Goto, beatVars, tableVars
<1>1. /\ \A v \in Workers \ {w} : wpc'[v] = wpc[v]
      /\ hpc' = hpc /\ i' = i /\ indx' = indx /\ wfd' = wfd /\ wconn' = wconn /\ slots' = slots /\ count' = count
      /\ wpc[w] = "reuse" /\ wpc'[w] = "store" /\ HoldsIndex(w)
      /\ Close(slots[indx[w]].client_fd)
  BY DEF CloseOld, HoldsIndex
<1>2. Holding' = Holding /\ w \in Holding
  BY <1>1 DEF Holding
<1>3. hpc = "sleep" /\ \A v \in Workers : wpc[v] = "store" => indx[v] # indx[w]
  BY <1>1, Unmet DEF HoldsIndex
<1>4. indx[w] \in Live
  BY <1>1, <1>3 DEF Indices, Live
<1>5. Live' = Live \ {indx[w]}
  BY <1>1, <1>3 DEF Live
<1> QED  BY <1>1, <1>2, <1>4, <1>5, SlotCloses

\* A connection is accepted: the lowest free descriptor has no owner yet.
LEMMA AcceptOwner ==
  ASSUME SseAssumption, SseInv, OneOwner, NEW w \in Workers, NEW c \in Conns, Accept(w, c)
  PROVE  /\ OneOwner'
         /\ w \notin Holding /\ Holding' = Holding \cup {w}
         /\ wconn' = [wconn EXCEPT ![w] = c]
         /\ \E f \in Fds : conn[f] = NoConn /\ conn' = [conn EXCEPT ![f] = c]
<1> USE DEF SseInv, TableTypes, Goto, beatVars, tableVars
<1>1. PICK f \in Fds : conn[f] = NoConn /\ conn' = [conn EXCEPT ![f] = c] /\ wfd' = [wfd EXCEPT ![w] = f]
  BY DEF Accept
<1>2. /\ \A v \in Workers \ {w} : wpc'[v] = wpc[v] /\ wfd'[v] = wfd[v] /\ wconn'[v] = wconn[v]
      /\ hpc' = hpc /\ i' = i /\ indx' = indx /\ slots' = slots /\ count' = count
      /\ wpc[w] = "idle" /\ wpc'[w] \in {"add", "post"} /\ wfd'[w] = f /\ wconn'[w] = c
  BY <1>1 DEF Accept
<1>3. w \notin Holding /\ Holding' = Holding \cup {w}
  BY <1>2 DEF Holding
<1>4. Live' = Live
  BY <1>2, WorkerLive
<1>5. \A g : At(g)' = IF g = f THEN c ELSE At(g)
  BY <1>1 DEF At
<1>6. At(f) = NoConn /\ c # NoConn
  BY <1>1, SseAssumption DEF At, SseAssumption
<1>7. \A v \in Holding : wfd[v] # f /\ v \in Workers
  BY <1>6, SseAssumption DEF OneOwner, Holding, SseAssumption, InUse
<1>8. \A k \in Live : slots[k].client_fd # f
  BY <1>6 DEF OneOwner, IsStream
<1>9. /\ \A v \in Holding' : At(wfd[v])' = wconn'[v]
      /\ \A u, v \in Holding' : wfd'[u] = wfd'[v] => u = v
  <2>1. \A v \in Holding : At(wfd[v])' = wconn'[v]
    BY <1>2, <1>3, <1>5, <1>7 DEF OneOwner
  <2> QED  BY <1>2, <1>3, <1>5, <1>7, <2>1 DEF OneOwner
<1>10. /\ \A k \in Live' : IsStream(k)'
       /\ \A k \in Live', v \in Holding' : slots'[k].client_fd # wfd'[v]
       /\ \A k, l \in Live' : slots'[k].client_fd = slots'[l].client_fd => k = l
  BY <1>2, <1>3, <1>4, <1>5, <1>7, <1>8 DEF OneOwner, IsStream
<1>11. \A g \in Fds : conn'[g] # NoConn => g = f \/ conn[g] # NoConn
  BY <1>1
<1>12. \A g \in Fds : conn'[g] # NoConn =>
       \/ \E v \in Holding' : wfd'[v] = g
       \/ \E k \in Live' : slots'[k].client_fd = g
  BY <1>2, <1>3, <1>4, <1>7, <1>11 DEF OneOwner
<1>13. OneOwner'
  BY <1>9, <1>10, <1>12 DEF OneOwner
<1>14. wconn' = [wconn EXCEPT ![w] = c]
  BY DEF Accept
<1> QED  BY <1>1, <1>3, <1>13, <1>14
\* The heartbeat looks and goes on, or a peer goes: nothing changes hands.
LEMMA LookerOwner ==
  ASSUME OneOwner,
         Beat \/ BeatSend \/ BeatFail \/ BeatDone \/ (\E c \in Conns : PeerGoes(c)) \/ UNCHANGED vars
  PROVE  /\ OneOwner'
         /\ UNCHANGED <<workerVars, tableVars, conn, new>>
<1>1. UNCHANGED <<workerVars, tableVars, conn, new>>
  BY DEF Beat, BeatSend, BeatFail, BeatDone, PeerGoes, netVars, vars, sysVars
<1>2. Holding' = Holding
  BY <1>1 DEF Holding, workerVars
<1>3. \/ hpc # "closed" /\ hpc' # "closed"
      \/ hpc' = hpc /\ i' = i
  BY DEF Beat, BeatSend, BeatFail, BeatDone, PeerGoes, beatVars, vars, sysVars
<1>4. Live' = Live
  BY <1>1, <1>3 DEF Live, workerVars, tableVars
<1> QED  BY <1>1, <1>2, <1>4, OwnersSame DEF workerVars, tableVars

\* The heartbeat closes the descriptor of slot i.
LEMMA FreerOwner ==
  ASSUME SseAssumption, SseInv, ~Meeting, OneOwner, FreeClose
  PROVE  OneOwner' /\ i \in Live /\ Holding' = Holding
<1>1. /\ hpc = "failed" /\ hpc' = "closed" /\ i' = i /\ Close(slots[i].client_fd)
      /\ UNCHANGED <<workerVars, tableVars>>
  BY DEF FreeClose
<1>2. i \in 1 .. count
  BY <1>1, SseAssumption DEF SseInv, InUse, TableTypes, SseAssumption
<1>3. \A w \in Workers : ~ HoldsIndex(w)
  BY <1>1, Unmet
<1>4. i \in Live /\ Live' = Live \ {i}
  BY <1>1, <1>2, <1>3 DEF Live, HoldsIndex, workerVars, tableVars
<1>5. Holding' = Holding
  BY <1>1 DEF Holding, workerVars
<1> QED  BY <1>1, <1>4, <1>5, SlotCloses DEF workerVars, tableVars

\* The heartbeat closes the gap that slot i has left.
LEMMA CompactOwner ==
  ASSUME SseAssumption, SseInv, ~Meeting, OneOwner, FreeCompact
  PROVE  OneOwner' /\ Holding' = Holding
<1>1. /\ hpc = "closed" /\ hpc' = "loop"
      /\ i \in 1 .. count /\ count \in 1 .. MaxConnections /\ count' = count - 1
      /\ MaxConnections \in Nat
      /\ UNCHANGED <<workerVars, netVars>>
  BY SseAssumption DEF FreeCompact, Compact, SseInv, TableTypes, InUse, SseAssumption
<1> DEFINE Old(n) == IF n >= i THEN n + 1 ELSE n
<1>2. \A k \in 1 .. count' : slots'[k] = slots[Old(k)]
  BY <1>1 DEF FreeCompact, Compact, Slots
<1>3. \A w \in Workers : ~ HoldsIndex(w)
  BY <1>1, Unmet
<1>4. Holding' = Holding
  BY <1>1 DEF Holding, workerVars
<1>5. \A k : k \in Live <=> k \in 1 .. count /\ k # i
  BY <1>1, <1>3 DEF Live, HoldsIndex
<1>6. \A k : k \in Live' <=> k \in 1 .. count'
  BY <1>1, <1>3 DEF Live, HoldsIndex, workerVars
<1>7. \A k \in Live' : Old(k) \in Live /\ slots'[k] = slots[Old(k)]
  BY <1>1, <1>2, <1>5, <1>6
<1>8. \A k, l \in Live' : Old(k) = Old(l) => k = l
  BY <1>1, <1>6
<1>9. \A k \in Live : \E l \in Live' : Old(l) = k
  <2> SUFFICES ASSUME NEW k \in Live
               PROVE  \E l \in Live' : Old(l) = k
    OBVIOUS
  <2>1. k \in 1 .. count /\ k # i
    BY <1>5
  <2>2. CASE k < i
    BY <1>1, <1>6, <2>1, <2>2
  <2>3. CASE k > i
    <3>1. k - 1 \in Live' /\ Old(k - 1) = k
      BY <1>1, <1>6, <2>1, <2>3
    <3> QED  BY <3>1
  <2> QED  BY <1>1, <2>1, <2>2, <2>3
<1> HIDE DEF Old
<1>10. conn' = conn /\ wfd' = wfd /\ wconn' = wconn /\ \A f : At(f)' = At(f)
  BY <1>1 DEF At, netVars, workerVars
<1>11. \A k \in Live' : IsStream(k)'
  BY <1>7, <1>10 DEF OneOwner, IsStream
<1>12. /\ \A k \in Live', w \in Holding' : slots'[k].client_fd # wfd'[w]
       /\ \A k, l \in Live' : slots'[k].client_fd = slots'[l].client_fd => k = l
  BY <1>4, <1>7, <1>8, <1>10 DEF OneOwner
<1>13. \A f \in Fds : conn'[f] # NoConn =>
         \/ \E w \in Holding' : wfd'[w] = f
         \/ \E k \in Live' : slots'[k].client_fd = f
  <2> SUFFICES ASSUME NEW f \in Fds, conn'[f] # NoConn, NEW k \in Live, slots[k].client_fd = f
               PROVE  \E l \in Live' : slots'[l].client_fd = f
    BY <1>4, <1>10 DEF OneOwner
  <2>1. PICK l \in Live' : Old(l) = k
    BY <1>9
  <2> QED  BY <2>1, <1>7
<1> QED  BY <1>4, <1>10, <1>11, <1>12, <1>13 DEF OneOwner

\* Every step that meets nothing leaves each open descriptor with one owner.
LEMMA OneOwnerKept ==
  ASSUME SseAssumption, SseInv, ~Meeting, Indices, OneOwner, [Next]_vars
  PROVE  OneOwner'
BY LookerOwner, FreerOwner, CompactOwner, QuietOwner, CloserOwner, GiverOwner, ReplacerOwner, AcceptOwner
   DEF Next, Step, WorkerStep, BeatStep

\* A worker only lists new slots or rewrites descriptors.
LEMMA WorkerSlots ==
  ASSUME SseAssumption, SseInv, NEW w \in Workers, WorkerStep(w)
  PROVE  /\ count' \in {count, count + 1}
         /\ \A k \in 1 .. count :
              /\ slots'[k].Mcp_Session_Id = slots[k].Mcp_Session_Id
              /\ slots'[k] = slots[k] \/ (StoreNew(w) /\ k = indx[w])
<1> USE SseAssumption DEF SseInv, TableTypes, tableVars, Slots, SseAssumption
<1>1. \A k \in 1 .. count : k \in Slots /\ k # count + 1
  OBVIOUS
<1>2. CASE AddNew(w)
  BY <1>1, <1>2 DEF AddNew
<1>3. CASE AddNoMemory(w)
  BY <1>1, <1>3 DEF AddNoMemory
<1>4. CASE StoreNew(w)
  BY <1>1, <1>4 DEF StoreNew
<1>5. CASE Post(w) \/ AddFull(w) \/ AddReuse(w) \/ CloseRefused(w) \/ CloseOld(w) \/ SendHeader(w)
  BY <1>5 DEF Post, AddFull, AddReuse, CloseRefused, CloseOld, SendHeader
<1> QED  BY <1>2, <1>3, <1>4, <1>5 DEF WorkerStep

\* While nothing meets, the slot a reconnect has found stays where it is.
LEMMA IndicesKept ==
  ASSUME SseAssumption, SseInv, ~Meeting, Indices, [Next]_vars
  PROVE  Indices'
<1> USE DEF Indices, HoldsIndex
<1>1. ASSUME NEW w \in Workers, WorkerStep(w)
      PROVE  Indices'
  <2>1. \A v \in Workers \ {w} : wpc'[v] = wpc[v] /\ indx'[v] = indx[v] /\ wconn'[v] = wconn[v]
    BY <1>1 DEF WorkerStep, Post, AddFull, AddReuse, AddNew, AddNoMemory, CloseRefused,
                CloseOld, StoreNew, SendHeader, Finish, Goto, SseInv, TableTypes
  <2>2. \A n \in 1 .. count : n \in 1 .. count'
    BY <1>1, WorkerSlots, SseAssumption DEF SseInv, TableTypes, SseAssumption
  <2>3. ASSUME NEW v \in Workers \ {w}, HoldsIndex(v)'
        PROVE  indx'[v] \in 1 .. count' /\ slots'[indx'[v]].Mcp_Session_Id = SessionOf[wconn'[v]]
    BY <1>1, <2>1, <2>2, <2>3, WorkerSlots
  <2>4. CASE AddReuse(w)
    <3>1. /\ indx'[w] \in Matching(SessionOf[wconn[w]]) /\ wconn' = wconn
          /\ count' = count /\ slots' = slots
      BY <2>4 DEF AddReuse, SseInv, TableTypes, tableVars
    <3> QED  BY <2>3, <3>1 DEF Matching
  <2>5. CASE CloseOld(w)
    BY <2>3, <2>5 DEF CloseOld, tableVars
  <2>6. CASE Post(w) \/ AddFull(w) \/ AddNew(w) \/ AddNoMemory(w) \/ CloseRefused(w) \/ StoreNew(w) \/ SendHeader(w)
    <3>1. ~ HoldsIndex(w)'
      BY <2>6 DEF Post, AddFull, AddNew, AddNoMemory, CloseRefused, StoreNew, SendHeader,
                  Finish, Goto, SseInv, TableTypes
    <3> QED  BY <2>3, <3>1
  <2> QED  BY <1>1, <2>4, <2>5, <2>6 DEF WorkerStep
<1>2. ASSUME NEW w \in Workers, NEW c \in Conns, Accept(w, c)
      PROVE  Indices'
  BY <1>2 DEF Accept, Goto, SseInv, TableTypes, tableVars
<1>3. CASE FreeCompact
  <2>1. \A w \in Workers : ~ HoldsIndex(w)
    BY <1>3, Unmet DEF FreeCompact
  <2> QED  BY <1>3, <2>1 DEF FreeCompact, workerVars
<1>4. CASE UNCHANGED <<workerVars, tableVars>>
  BY <1>4 DEF workerVars, tableVars
<1>5. ASSUME Beat \/ BeatSend \/ BeatFail \/ BeatDone \/ FreeClose \/ (\E c \in Conns : PeerGoes(c)) \/ UNCHANGED vars
      PROVE  UNCHANGED <<workerVars, tableVars>>
  BY <1>5 DEF Beat, BeatSend, BeatFail, BeatDone, FreeClose, PeerGoes, vars, sysVars
<1> QED  BY <1>1, <1>2, <1>3, <1>4, <1>5 DEF Next, Step, BeatStep

\* While nothing meets, nobody repairs the slot the heartbeat is about to free:
\* the peer of its connection stays gone, and the slot keeps its descriptor.
LEMMA BrokenKept ==
  ASSUME SseAssumption, SseInv, ~Meeting, Indices, OneOwner, Broken, [Next]_vars
  PROVE  Broken'
<1> SUFFICES ASSUME hpc' = "failed"
             PROVE  At(slots[i].client_fd)' \in gone'
  BY DEF Broken
<1> DEFINE x == slots[i].client_fd
<1>1. CASE BeatFail
  <2>1. i \in Live
    BY <1>1, Unmet, SseAssumption DEF BeatFail, SseInv, TableTypes, SseAssumption
  <2>2. At(x) \in gone
    BY <1>1, <2>1 DEF BeatFail, Fails, OneOwner, IsStream
  <2> QED  BY <1>1, <2>2 DEF BeatFail, At, tableVars, netVars
<1>2. CASE hpc = "failed"
  <2>1. i \in Live /\ i \in 1 .. count /\ At(x) \in gone /\ At(x) # NoConn
    BY <1>2, Unmet, SseAssumption DEF SseInv, TableTypes, InUse, SseAssumption, Broken
  <2>2. \A w \in Workers : ~ HoldsIndex(w)
    BY <1>2, Unmet
  <2>3. ASSUME NEW w \in Workers, WorkerStep(w)
        PROVE  At(slots[i].client_fd)' \in gone'
    <3>1. ~ CloseOld(w) /\ ~ StoreNew(w)
      BY <2>2 DEF CloseOld, StoreNew, HoldsIndex
    <3>2. i' = i /\ gone' = gone
      BY <2>3, <3>1 DEF WorkerStep, Post, AddFull, AddReuse, AddNew, AddNoMemory, CloseRefused,
                        SendHeader, netVars, beatVars
    <3>3. slots'[i] = slots[i]
      BY <2>1, <2>3, <3>1, WorkerSlots
    <3>4. CASE Post(w) \/ CloseRefused(w)
      <4>1. w \in Holding /\ Close(wfd[w])
        BY <3>4 DEF Post, CloseRefused, Holding
      <4>2. x # wfd[w]
        BY <2>1, <4>1 DEF OneOwner
      <4> QED  BY <2>1, <3>2, <3>3, <4>1, <4>2 DEF At, Close
    <3>5. CASE AddFull(w) \/ AddReuse(w) \/ AddNew(w) \/ AddNoMemory(w) \/ SendHeader(w)
      <4>1. conn' = conn
        BY <3>5 DEF AddFull, AddReuse, AddNew, AddNoMemory, SendHeader, netVars
      <4> QED  BY <2>1, <3>2, <3>3, <4>1 DEF At
    <3> QED  BY <2>3, <3>1, <3>4, <3>5 DEF WorkerStep
  <2>4. ASSUME NEW w \in Workers, NEW c \in Conns, Accept(w, c)
        PROVE  At(slots[i].client_fd)' \in gone'
    <3>1. PICK f \in Fds : conn[f] = NoConn /\ conn' = [conn EXCEPT ![f] = c]
      BY <2>4 DEF Accept
    <3> QED  BY <2>1, <2>4, <3>1 DEF Accept, At, SseInv, TableTypes, tableVars, beatVars
  <2>5. CASE (\E c \in Conns : PeerGoes(c)) \/ UNCHANGED vars
    BY <2>1, <2>5 DEF PeerGoes, At, tableVars, beatVars, netVars, vars, sysVars
  <2>6. ASSUME Beat \/ BeatSend \/ BeatDone \/ FreeClose \/ FreeCompact
        PROVE  FALSE
    BY <1>2, <2>6 DEF Beat, BeatSend, BeatDone, FreeClose, FreeCompact
  <2> QED  BY <1>1, <2>3, <2>4, <2>5, <2>6 DEF Next, Step, BeatStep
<1>3. CASE hpc # "failed"
  <2>1. BeatFail
    <3>1. ASSUME NEW w \in Workers, WorkerStep(w)
          PROVE  hpc' = hpc
      BY <3>1 DEF WorkerStep, Post, AddFull, AddReuse, AddNew, AddNoMemory, CloseRefused,
                  CloseOld, StoreNew, SendHeader, beatVars
    <3>2. ASSUME NEW w \in Workers, NEW c \in Conns, Accept(w, c) \/ PeerGoes(c)
          PROVE  hpc' = hpc
      BY <3>2 DEF Accept, PeerGoes, beatVars
    <3>3. ASSUME \E c \in Conns : PeerGoes(c)
          PROVE  hpc' = hpc
      BY <3>3 DEF PeerGoes, beatVars
    <3>4. ASSUME Beat \/ BeatSend \/ BeatDone \/ FreeClose \/ FreeCompact \/ UNCHANGED vars
          PROVE  hpc' # "failed" \/ hpc' = hpc
      BY <3>4 DEF Beat, BeatSend, BeatDone, FreeClose, FreeCompact, vars, sysVars, beatVars
    <3> QED  BY <1>3, <3>1, <3>2, <3>3, <3>4 DEF Next, Step, BeatStep
  <2> QED  BY <2>1, <1>1
<1> QED  BY <1>2, <1>3

\* The invariant holds in every reachable state.
THEOREM SseOwners == Spec => []OwnInv
<1>1. SseInv /\ OwnInv /\ [Next]_vars => OwnInv'
  <2> SUFFICES ASSUME SseInv, OwnInv, [Next]_vars
               PROVE  OwnInv'
    OBVIOUS
  <2>1. Descriptors'
    BY DescriptorsKept, SseAssumption DEF OwnInv
  <2>2. ASSUME ~met'
        PROVE  /\ ~Meeting' /\ ~met
               /\ Indices' /\ OneOwner' /\ Broken'
    <3>1. ~met /\ ~Meeting'
      <4>1. CASE Next
        BY <2>2, <4>1 DEF Next
      <4>2. CASE UNCHANGED vars
        <5>1. ~met
          BY <2>2, <4>2 DEF vars
        <5>2. ~Meeting
          BY <5>1 DEF OwnInv, Owned
        <5> QED  BY <4>2, <5>1, <5>2 DEF Meeting, HoldsIndex, vars, sysVars, workerVars, beatVars
      <4> QED  BY <4>1, <4>2
    <3>2. ~Meeting /\ Indices /\ OneOwner /\ Broken
      BY <3>1 DEF OwnInv, Owned
    <3> QED  BY <3>1, <3>2, OneOwnerKept, IndicesKept, BrokenKept, SseAssumption
  <2> QED  BY <2>1, <2>2 DEF OwnInv, Owned
<1> QED  BY <1>1, SseSafe, OwnInit, SseAssumption, PTL DEF Spec

\* Nobody closes the connection of a client whose request is being worked on.
THEOREM SseKeepsConnections == Spec => []KeepsItsConnection
<1>1. OwnInv => KeepsItsConnection
  BY DEF OwnInv, Owned, OneOwner, KeepsItsConnection
<1> QED  BY <1>1, SseOwners, PTL

\* A slot in use lists an open connection of its own session.
THEOREM SseNoStaleSlot == Spec => []SlotIsItsStream
<1>1. OwnInv => SlotIsItsStream
  BY DEF OwnInv, Owned, OneOwner, IsStream, SlotIsItsStream
<1> QED  BY <1>1, SseOwners, PTL

\* An open connection is held by a worker or listed in the table.
THEOREM SseNothingLost == Spec => []NothingLost
<1>1. OwnInv => NothingLost
  <2>1. \A k \in Live : k \in 1 .. count
    BY DEF Live
  <2> QED  BY <2>1 DEF OwnInv, Owned, OneOwner, NothingLost
<1> QED  BY <1>1, SseOwners, PTL

\* A reconnect stores its descriptor in a slot in use for its session (comment
\* at line 139) unless it has met the heartbeat or another reconnect: without
\* that, what SlotReused says is true of every step.
THEOREM SseSlotReused ==
  Spec => [][met' \/ \A w \in Workers : wpc[w] = "store" /\ wpc'[w] = "header" =>
               /\ indx[w] <= count'
               /\ slots'[indx[w]].Mcp_Session_Id = SessionOf[wconn[w]]]_vars
<1>1. ASSUME SseInv, OwnInv, Next, ~met', NEW w \in Workers, wpc[w] = "store", wpc'[w] = "header"
      PROVE  indx[w] <= count' /\ slots'[indx[w]].Mcp_Session_Id = SessionOf[wconn[w]]
  <2>1. /\ indx[w] \in 1 .. count
        /\ slots[indx[w]].Mcp_Session_Id = SessionOf[wconn[w]]
        /\ hpc = "sleep"
    <3>1. ~met
      BY <1>1 DEF Next
    <3>2. ~Meeting /\ Indices /\ HoldsIndex(w)
      BY <1>1, <3>1 DEF OwnInv, Owned, HoldsIndex
    <3> QED  BY <1>1, <3>2, Unmet DEF Indices
  <2>2. \E v \in Workers : WorkerStep(v)
    <3>1. wpc' # wpc
      BY <1>1
    <3>2. ASSUME NEW v \in Workers, NEW c \in Conns, Accept(v, c)
          PROVE  FALSE
      BY <1>1, <3>2 DEF Accept, Goto, SseInv, TableTypes
    <3>3. ~ BeatStep /\ ~ \E c \in Conns : PeerGoes(c)
      BY <3>1 DEF BeatStep, Beat, BeatSend, BeatFail, BeatDone, FreeClose, FreeCompact, PeerGoes, workerVars
    <3> QED  BY <1>1, <3>2, <3>3 DEF Next, Step
  <2> QED  BY <1>1, <2>1, <2>2, WorkerSlots, SseAssumption DEF SseInv, TableTypes, SseAssumption
<1>2. SseInv /\ OwnInv /\ [Next]_vars =>
        [met' \/ \A w \in Workers : wpc[w] = "store" /\ wpc'[w] = "header" =>
           /\ indx[w] <= count'
           /\ slots'[indx[w]].Mcp_Session_Id = SessionOf[wconn[w]]]_vars
  BY <1>1
<1> QED  BY <1>2, SseSafe, SseOwners, PTL DEF Spec

-----------------------------------------------------------------------------
(* The table implements Streams: each connection's fate follows from who     *)
(* owns its descriptor.                                                      *)

IsOpen(c) == \E f \in Fds : conn[f] = c
IsHeld(c) == \E w \in Holding : wconn[w] = c

LEMMA FateIs ==
  ASSUME NEW c \in Conns
  PROVE  /\ Fate(c) = IF c \in new THEN "new"
                      ELSE IF ~ IsOpen(c) THEN "closed"
                      ELSE IF IsHeld(c) THEN "held" ELSE "stream"
         /\ Fate(c)' = IF c \in new' THEN "new"
                       ELSE IF ~ IsOpen(c)' THEN "closed"
                       ELSE IF IsHeld(c)' THEN "held" ELSE "stream"
BY DEF Fate, IsOpen, IsHeld

LEMMA FateSame ==
  ASSUME NEW c \in Conns, c \in new' <=> c \in new,
         IsOpen(c)' <=> IsOpen(c), IsHeld(c)' <=> IsHeld(c)
  PROVE  Fate(c)' = Fate(c)
BY FateIs

\* One connection's fate changes: the abstract step.
LEMMA OneBecomes ==
  ASSUME NEW c \in Conns, NEW from, NEW to, gone' = gone,
         Fate(c) = from, Fate(c)' = to,
         \A d \in Conns : d # c => Fate(d)' = Fate(d)
  PROVE  Abstract!Become(c, from, to)
BY DEF Abstract!Become

LEMMA NoneBecomes ==
  ASSUME \A c \in Conns : Fate(c)' = Fate(c)
  PROVE  [c \in Conns |-> Fate(c)]' = [c \in Conns |-> Fate(c)]
OBVIOUS

\* The connection a worker holds, and the one a slot lists.
LEMMA HeldFate ==
  ASSUME SseInv, Descriptors, OneOwner, NEW w \in Holding
  PROVE  /\ wconn[w] \in Conns /\ wfd[w] \in Fds /\ conn[wfd[w]] = wconn[w]
         /\ Fate(wconn[w]) = "held"
<1>1. w \in Workers /\ wconn[w] \in Conns /\ wfd[w] \in Fds
  BY DEF Holding, SseInv, InUse
<1>2. conn[wfd[w]] = wconn[w]
  BY <1>1 DEF OneOwner, At
<1>3. wconn[w] \notin new /\ IsOpen(wconn[w]) /\ IsHeld(wconn[w])
  BY <1>1, <1>2 DEF Descriptors, IsOpen, IsHeld
<1> QED  BY <1>1, <1>2, <1>3, FateIs

LEMMA ListedFate ==
  ASSUME SseAssumption, SseInv, Descriptors, OneOwner, NEW k \in Live
  PROVE  LET f == slots[k].client_fd IN
         /\ f \in Fds /\ conn[f] \in Conns /\ At(f) = conn[f]
         /\ Fate(conn[f]) = "stream"
         /\ SessionOf[conn[f]] = slots[k].Mcp_Session_Id
<1> DEFINE f == slots[k].client_fd
<1>1. f \in Fds /\ conn[f] \in Conns /\ conn[f] # NoConn /\ At(f) = conn[f]
      /\ SessionOf[conn[f]] = slots[k].Mcp_Session_Id
  <2>1. f \in Fds /\ conn[f] # NoConn /\ At(f) = conn[f]
        /\ SessionOf[conn[f]] = slots[k].Mcp_Session_Id
    BY DEF OneOwner, IsStream, At
  <2> QED  BY <2>1 DEF SseInv, TableTypes
<1>2. conn[f] \notin new /\ IsOpen(conn[f])
  BY <1>1 DEF Descriptors, IsOpen
<1>3. ~ IsHeld(conn[f])
  <2> SUFFICES ASSUME NEW w \in Holding, wconn[w] = conn[f]
               PROVE  FALSE
    BY DEF IsHeld
  <2>1. wfd[w] \in Fds /\ conn[wfd[w]] = conn[f]
    BY HeldFate
  <2>2. wfd[w] = f
    BY <1>1, <2>1 DEF Descriptors
  <2> QED  BY <2>2 DEF OneOwner
<1> QED  BY <1>1, <1>2, <1>3, FateIs

\* Closing a descriptor ends its connection and no other.
LEMMA CloseEnds ==
  ASSUME SseAssumption, Descriptors, NEW f \in Fds, NEW c \in Conns, conn[f] = c, Close(f)
  PROVE  /\ ~ IsOpen(c)'
         /\ \A d \in Conns : d # c => (IsOpen(d)' <=> IsOpen(d))
<1>1. \A g \in Fds : conn'[g] = IF g = f THEN NoConn ELSE conn[g]
  BY DEF Close
<1>2. c # NoConn
  BY SseAssumption DEF SseAssumption
<1>3. \A g \in Fds : conn'[g] # c
  BY <1>1, <1>2 DEF Descriptors
<1>4. ASSUME NEW d \in Conns, d # c
      PROVE  IsOpen(d)' <=> IsOpen(d)
  BY <1>1, <1>4, SseAssumption DEF IsOpen, SseAssumption
<1> QED  BY <1>3, <1>4 DEF IsOpen

\* A worker that lets go of its connection was its only holder.
LEMMA ReleaseEnds ==
  ASSUME SseAssumption, SseInv, Descriptors, OneOwner, NEW w \in Holding, NEW c \in Conns, wconn[w] = c,
         Holding' = Holding \ {w}, \A v \in Holding' : wconn'[v] = wconn[v]
  PROVE  /\ ~ IsHeld(c)'
         /\ \A d \in Conns : d # c => (IsHeld(d)' <=> IsHeld(d))
<1>1. ASSUME NEW v \in Holding, v # w
      PROVE  wconn[v] # c
  <2>1. wfd[v] # wfd[w] /\ wfd[v] \in Fds /\ wfd[w] \in Fds
    BY <1>1, HeldFate DEF OneOwner
  <2>2. conn[wfd[v]] = wconn[v] /\ conn[wfd[w]] = c /\ c # NoConn
    BY HeldFate, SseAssumption DEF SseAssumption
  <2> QED  BY <2>1, <2>2 DEF Descriptors
<1> QED  BY <1>1 DEF IsHeld
\* A step after which everybody holds and lists the same connections.
LEMMA QuietPromise ==
  ASSUME new' = new, Holding' = Holding, \A f \in Fds : conn'[f] = conn[f],
         \A w \in Holding : wconn'[w] = wconn[w], gone' = gone
  PROVE  UNCHANGED Abstract!vars
<1>1. ASSUME NEW c \in Conns
      PROVE  Fate(c)' = Fate(c)
  <2>1. (IsOpen(c)' <=> IsOpen(c)) /\ (IsHeld(c)' <=> IsHeld(c))
    BY DEF IsOpen, IsHeld
  <2> QED  BY <2>1, FateSame
<1> QED  BY <1>1, NoneBecomes DEF Abstract!vars

\* The heartbeat looks, or a peer goes.
LEMMA LookerPromise ==
  ASSUME SseAssumption, SseInv, Descriptors, OneOwner,
         Beat \/ BeatSend \/ BeatFail \/ BeatDone \/ (\E c \in Conns : PeerGoes(c)) \/ UNCHANGED vars
  PROVE  Abstract!Next \/ UNCHANGED Abstract!vars
<1>1. UNCHANGED <<workerVars, tableVars, conn, new>>
  BY LookerOwner
<1>2. Holding' = Holding
  BY <1>1 DEF Holding, workerVars
<1>3. CASE gone' = gone
  BY <1>1, <1>2, <1>3, QuietPromise DEF workerVars
<1>4. ASSUME NEW c \in Conns, PeerGoes(c)
      PROVE  Abstract!Next
  <2>1. \A d \in Conns : Fate(d)' = Fate(d)
    <3> TAKE d \in Conns
    <3>1. (IsOpen(d)' <=> IsOpen(d)) /\ (IsHeld(d)' <=> IsHeld(d))
      BY <1>1, <1>2 DEF IsOpen, IsHeld, workerVars
    <3> QED  BY <1>1, <3>1, FateSame
  <2>2. c \notin new /\ IsOpen(c)
    BY <1>4 DEF PeerGoes, Descriptors, IsOpen
  <2>3. Fate(c) \in {"held", "stream"}
    BY <2>2, FateIs
  <2>4. Abstract!PeerGoes(c)
    BY <1>4, <2>1, <2>3, NoneBecomes DEF Abstract!PeerGoes, PeerGoes
  <2> QED  BY <2>4 DEF Abstract!Next
<1>5. ASSUME Beat \/ BeatSend \/ BeatFail \/ BeatDone \/ UNCHANGED vars
      PROVE  gone' = gone
  BY <1>5 DEF Beat, BeatSend, BeatFail, BeatDone, netVars, vars, sysVars
<1> QED  BY <1>3, <1>4, <1>5

\* A worker answers or refuses the connection it holds.
LEMMA CloserPromise ==
  ASSUME SseAssumption, SseInv, Descriptors, OneOwner, NEW w \in Workers, Post(w) \/ CloseRefused(w)
  PROVE  Abstract!Next
<1>1. w \in Holding /\ Holding' = Holding \ {w} /\ \A v \in Holding' : wconn'[v] = wconn[v]
  BY CloserOwner
<1>2. Close(wfd[w]) /\ new' = new /\ gone' = gone
  BY DEF Post, CloseRefused
<1>3. PICK c \in Conns : wconn[w] = c
  BY <1>1, HeldFate
<1>4. wfd[w] \in Fds /\ conn[wfd[w]] = c /\ Fate(c) = "held"
  BY <1>1, <1>3, HeldFate
<1>5. PICK f \in Fds : wfd[w] = f
  BY <1>4
<1>6. ~ IsOpen(c)' /\ \A d \in Conns : d # c => (IsOpen(d)' <=> IsOpen(d))
  BY <1>2, <1>4, <1>5, CloseEnds
<1>7. \A d \in Conns : d # c => (IsHeld(d)' <=> IsHeld(d))
  BY <1>1, <1>3, ReleaseEnds
<1>8. c \notin new'
  BY <1>2, <1>4, <1>5 DEF Descriptors
<1>9. Fate(c)' = "closed"
  BY <1>6, <1>8, FateIs
<1>10. \A d \in Conns : d # c => Fate(d)' = Fate(d)
  BY <1>2, <1>6, <1>7, FateSame
<1>11. Abstract!Become(c, "held", "closed")
  BY <1>2, <1>4, <1>9, <1>10, OneBecomes
<1> QED  BY <1>11 DEF Abstract!Next, Abstract!Answer

\* A worker hands its connection over to the table.
LEMMA GiverPromise ==
  ASSUME SseAssumption, SseInv, Descriptors, ~Meeting, Indices, OneOwner, NEW w \in Workers,
         AddNew(w) \/ StoreNew(w)
  PROVE  Abstract!Next
<1>1. w \in Holding /\ Holding' = Holding \ {w} /\ \A v \in Holding' : wconn'[v] = wconn[v]
  BY GiverOwner
<1>2. conn' = conn /\ new' = new /\ gone' = gone
  BY DEF AddNew, StoreNew, netVars
<1>3. PICK c \in Conns : wconn[w] = c
  BY <1>1, HeldFate
<1>4. wfd[w] \in Fds /\ conn[wfd[w]] = c /\ Fate(c) = "held"
  BY <1>1, <1>3, HeldFate
<1>5. \A d \in Conns : IsOpen(d)' <=> IsOpen(d)
  BY <1>2 DEF IsOpen
<1>6. ~ IsHeld(c)' /\ \A d \in Conns : d # c => (IsHeld(d)' <=> IsHeld(d))
  BY <1>1, <1>3, ReleaseEnds
<1>7. c \notin new' /\ IsOpen(c)'
  BY <1>2, <1>4, <1>5 DEF Descriptors, IsOpen
<1>8. Fate(c)' = "stream"
  BY <1>6, <1>7, FateIs
<1>9. \A d \in Conns : d # c => Fate(d)' = Fate(d)
  BY <1>2, <1>5, <1>6, FateSame
<1>10. Abstract!Become(c, "held", "stream")
  BY <1>2, <1>4, <1>8, <1>9, OneBecomes
<1> QED  BY <1>10 DEF Abstract!Next, Abstract!Stream

\* The descriptor of a slot is closed: its stream ends.
LEMMA StreamEnds ==
  ASSUME SseAssumption, SseInv, Descriptors, OneOwner, NEW k \in Live, NEW c \in Conns,
         conn[slots[k].client_fd] = c, Close(slots[k].client_fd),
         Holding' = Holding, \A v \in Holding : wconn'[v] = wconn[v], new' = new, gone' = gone
  PROVE  Abstract!Become(c, "stream", "closed")
<1>1. slots[k].client_fd \in Fds /\ Fate(c) = "stream"
  BY ListedFate
<1>2. PICK f \in Fds : slots[k].client_fd = f
  BY <1>1
<1>3. ~ IsOpen(c)' /\ \A d \in Conns : d # c => (IsOpen(d)' <=> IsOpen(d))
  BY <1>2, CloseEnds
<1>4. \A d \in Conns : IsHeld(d)' <=> IsHeld(d)
  BY DEF IsHeld
<1>5. Fate(c)' = "closed"
  BY <1>1, <1>3, FateIs
<1>6. \A d \in Conns : d # c => Fate(d)' = Fate(d)
  BY <1>3, <1>4, FateSame
<1> QED  BY <1>1, <1>5, <1>6, OneBecomes

\* A reconnect ends the stream its session had.
LEMMA ReplacerPromise ==
  ASSUME SseAssumption, SseInv, Descriptors, ~Meeting, Indices, OneOwner, NEW w \in Workers, CloseOld(w)
  PROVE  Abstract!Next
<1> DEFINE k == indx[w]
<1>1. k \in Live /\ w \in Holding /\ Holding' = Holding
  BY ReplacerOwner
<1>2. /\ Close(slots[k].client_fd) /\ wconn' = wconn /\ new' = new /\ gone' = gone
      /\ HoldsIndex(w)
  BY DEF CloseOld, HoldsIndex
<1>3. PICK c \in Conns : conn[slots[k].client_fd] = c
  BY <1>1, ListedFate
<1>4. Abstract!Become(c, "stream", "closed")
  BY <1>1, <1>2, <1>3, StreamEnds
<1>5. Fate(c) = "stream" /\ SessionOf[c] = slots[k].Mcp_Session_Id
  BY <1>1, <1>3, ListedFate
<1>6. SessionOf[wconn[w]] = SessionOf[c]
  BY <1>2, <1>5 DEF Indices
<1>7. wconn[w] \in Conns /\ Fate(wconn[w]) = "held"
  BY <1>1, HeldFate
<1>8. Abstract!Replace(c)
  BY <1>4, <1>5, <1>6, <1>7 DEF Abstract!Replace
<1> QED  BY <1>8 DEF Abstract!Next

\* The heartbeat ends a stream whose peer has gone.
LEMMA FreerPromise ==
  ASSUME SseAssumption, SseInv, Descriptors, ~Meeting, OneOwner, Broken, FreeClose
  PROVE  Abstract!Next
<1>1. i \in Live /\ Holding' = Holding
  BY FreerOwner
<1>2. hpc = "failed" /\ Close(slots[i].client_fd) /\ wconn' = wconn /\ new' = new /\ gone' = gone
  BY DEF FreeClose, workerVars
<1>3. PICK c \in Conns : conn[slots[i].client_fd] = c
  BY <1>1, ListedFate
<1>4. c \in gone
  BY <1>1, <1>2, <1>3, ListedFate DEF Broken
<1>5. Abstract!Become(c, "stream", "closed")
  BY <1>1, <1>2, <1>3, StreamEnds
<1> QED  BY <1>4, <1>5 DEF Abstract!Next, Abstract!Lose

\* A connection is accepted.
LEMMA AcceptPromise ==
  ASSUME SseAssumption, SseInv, Descriptors, OneOwner, NEW w \in Workers, NEW c \in Conns, Accept(w, c)
  PROVE  Abstract!Next
<1>1. w \notin Holding /\ Holding' = Holding \cup {w} /\ wconn' = [wconn EXCEPT ![w] = c]
  BY AcceptOwner
<1>2. PICK f \in Fds : conn[f] = NoConn /\ conn' = [conn EXCEPT ![f] = c]
  BY AcceptOwner
<1>3. c \in new /\ new' = new \ {c} /\ gone' = gone
  BY DEF Accept
<1>4. \A g \in Fds : conn'[g] = IF g = f THEN c ELSE conn[g]
  BY <1>2 DEF SseInv, TableTypes
<1>5. \A v \in Holding' : wconn'[v] = IF v = w THEN c ELSE wconn[v]
  BY <1>1 DEF SseInv, TableTypes, Holding
<1>6. IsOpen(c)' /\ \A d \in Conns : d # c => (IsOpen(d)' <=> IsOpen(d))
  BY <1>2, <1>4, SseAssumption DEF IsOpen, SseAssumption
<1>7. IsHeld(c)' /\ \A d \in Conns : d # c => (IsHeld(d)' <=> IsHeld(d))
  BY <1>1, <1>5 DEF IsHeld
<1>8. Fate(c) = "new" /\ Fate(c)' = "held"
  BY <1>3, <1>6, <1>7, FateIs
<1>9. \A d \in Conns : d # c => Fate(d)' = Fate(d)
  BY <1>3, <1>6, <1>7, FateSame
<1>10. Abstract!Become(c, "new", "held")
  BY <1>3, <1>8, <1>9, OneBecomes
<1> QED  BY <1>10 DEF Abstract!Next, Abstract!Accept

\* Every step that meets nothing is a step of Streams or stutters there.
LEMMA StepPromise ==
  ASSUME SseAssumption, SseInv, Descriptors, ~Meeting, Indices, OneOwner, Broken, [Next]_vars
  PROVE  [Abstract!Next]_(Abstract!vars)
<1>1. ASSUME NEW w \in Workers, AddFull(w) \/ AddReuse(w) \/ AddNoMemory(w) \/ SendHeader(w)
      PROVE  UNCHANGED Abstract!vars
  <2>1. Holding' = Holding /\ \A v \in Holding : wconn'[v] = wconn[v]
    BY <1>1, QuietOwner
  <2>2. conn' = conn /\ new' = new /\ gone' = gone
    BY <1>1 DEF AddFull, AddReuse, AddNoMemory, SendHeader, netVars
  <2> QED  BY <2>1, <2>2, QuietPromise
<1>2. CASE FreeCompact
  <2>1. Holding' = Holding
    BY <1>2, CompactOwner
  <2> QED  BY <1>2, <2>1, QuietPromise DEF FreeCompact, workerVars, netVars
<1> QED  BY <1>1, <1>2, LookerPromise, CloserPromise, GiverPromise, ReplacerPromise, FreerPromise, AcceptPromise
         DEF Next, Step, WorkerStep, BeatStep

\* To its clients the table is Streams, for every number of workers, sessions
\* and slots, until a reconnect meets the heartbeat or another reconnect.
THEOREM SseKeepsItsPromise == Spec => KeepsItsPromise
<1>1. Init => Abstract!Init
  <2> SUFFICES ASSUME Init
               PROVE  Abstract!Init
    OBVIOUS
  <2>1. \A c \in Conns : Fate(c) = "new"
    BY DEF Init, Fate
  <2> QED  BY <2>1 DEF Init, Abstract!Init
<1>2. SseInv /\ OwnInv /\ [Next]_vars => [met' \/ Abstract!Next]_(Abstract!vars)
  <2> SUFFICES ASSUME SseInv, OwnInv, [Next]_vars, ~met'
               PROVE  [Abstract!Next]_(Abstract!vars)
    OBVIOUS
  <2>1. ~met
    BY DEF Next, vars
  <2>2. Descriptors /\ ~Meeting /\ Indices /\ OneOwner /\ Broken
    BY <2>1 DEF OwnInv, Owned
  <2> QED  BY <2>2, StepPromise, SseAssumption
<1> QED  BY <1>1, <1>2, SseSafe, SseOwners, PTL DEF Spec, KeepsItsPromise
=============================================================================
