-------------------------- MODULE WorkerPoolProofs --------------------------
(* Theorems about WorkerPool, for every number of workers and descriptors.  *)
EXTENDS WorkerPool, TLAPS

\* What the flags mean between the listener and the workers: a worker is busy
\* unless it polls or does not exist; the slot about to be marked is a free one
\* and already holds the connection; connections are accepted only once every
\* worker runs; who is busy has a descriptor.
Protocol ==
  /\ \A i \in Workers : wpc[i] \notin {"none", "poll"} => busy[i] = 1
  /\ \A i \in Workers : wpc[i] = "none" => busy[i] = 0
  /\ lpc = "mark" => next \in Workers /\ busy[next] = 0 /\ client_fd[next] = client
  /\ lpc \in {"accept", "scan", "mark", "reject"} => \A i \in Workers : wpc[i] # "none"
  /\ lpc = "spawn" => \A i \in Workers : wpc[i] = "none" <=> i >= next
  /\ \A i \in Workers : Handed(i) => client_fd[i] \in Fds
  /\ \A i \in Workers : InHand(i) => taken[i] \in Fds

PoolInv == TypeOK /\ Protocol /\ OneHolder /\ NothingLeaked

\* The boot state.
LEMMA PoolInit == Init => PoolInv
<1>1. Init => listening \in BOOLEAN /\ stale \in BOOLEAN
  BY Zenon DEF Init
<1> QED
  BY <1>1, PoolAssumption
  DEF PoolAssumption, Init, PoolInv, TypeOK, Protocol, OneHolder, NothingLeaked, ListenerPCs,
      WorkerPCs, ListenerHolds, Handed, InHand, Has, Workers

\* The steps that start the workers move no connection.
LEMMA SpawnKeeps ==
  ASSUME PoolAssumption, PoolInv, Spawn \/ Spawned
  PROVE  PoolInv'
<1> USE PoolAssumption DEF PoolAssumption, PoolInv, workerVars, sockVars
<1>1. TypeOK'
  BY DEF Spawn, Spawned, TypeOK, ListenerPCs, WorkerPCs, Workers
<1>2. Protocol'
  <2>1. CASE Spawned
    BY <2>1 DEF Spawned, TypeOK, Protocol, Workers, Handed, InHand
  <2>2. CASE Spawn
    <3>1. next \in Workers /\ wpc[next] = "none" /\ lpc = "spawn"
      BY <2>2 DEF Spawn, TypeOK, Protocol, Workers
    <3>2. \A j \in Workers : Handed(j)' => Handed(j) /\ client_fd'[j] = client_fd[j]
      BY <2>2, <3>1 DEF Spawn, TypeOK, Protocol, Workers, Handed
    <3>3. \A j \in Workers : InHand(j)' => InHand(j) /\ taken'[j] = taken[j]
      BY <2>2, <3>1 DEF Spawn, TypeOK, InHand
    <3>4. lpc' = "spawn" => \A j \in Workers : wpc'[j] = "none" <=> j >= next'
      BY <2>2, <3>1 DEF Spawn, TypeOK, Protocol, Workers
    <3>5. /\ lpc' \in {"spawn", "returned"}
          /\ \A j \in Workers : wpc'[j] \notin {"none", "poll"} => busy'[j] = 1
          /\ \A j \in Workers : wpc'[j] = "none" => busy'[j] = 0
      BY <2>2, <3>1 DEF Spawn, TypeOK, Protocol
    <3> QED  BY <3>2, <3>3, <3>4, <3>5 DEF Protocol
  <2> QED  BY <2>1, <2>2
<1>3. OneHolder' /\ NothingLeaked'
  BY DEF Spawn, Spawned, TypeOK, Protocol, OneHolder, NothingLeaked, ListenerHolds, Handed,
         InHand, Has, Workers
<1> QED  BY <1>1, <1>2, <1>3

\* Nor do those that open the listening socket or look for a free worker.
LEMMA ListenKeeps ==
  ASSUME PoolAssumption, PoolInv, Listen \/ AcceptFails \/ ScanBusy \/ ScanFree \/ ScanDone
  PROVE  PoolInv'
<1> USE PoolAssumption DEF PoolAssumption, PoolInv, workerVars, sockVars
<1>0. listening' \in BOOLEAN /\ stale' \in BOOLEAN
  BY Zenon DEF Listen, AcceptFails, ScanBusy, ScanFree, ScanDone, TypeOK
<1>1. TypeOK'
  BY <1>0 DEF Listen, AcceptFails, ScanBusy, ScanFree, ScanDone, TypeOK, ListenerPCs, ListenerHolds,
         OneHolder, Workers
<1>2. Protocol'
  BY DEF Listen, AcceptFails, ScanBusy, ScanFree, ScanDone, TypeOK, Protocol, Workers, Handed,
         InHand
<1>3. OneHolder' /\ NothingLeaked'
  BY DEF Listen, AcceptFails, ScanBusy, ScanFree, ScanDone, TypeOK, OneHolder, NothingLeaked,
         ListenerHolds, Handed, InHand, Has
<1> QED  BY <1>1, <1>2, <1>3

\* A connection comes to the listener, and leaves it for a worker or is closed.
LEMMA ClientKeeps ==
  ASSUME PoolAssumption, PoolInv, Accept \/ Mark \/ Reject
  PROVE  PoolInv'
<1> USE PoolAssumption DEF PoolAssumption, PoolInv, workerVars, sockVars
<1>1. TypeOK'
  BY DEF Accept, Mark, Reject, TypeOK, ListenerPCs, OneHolder, ListenerHolds, Workers
<1>2. Protocol'
  BY DEF Accept, Mark, Reject, TypeOK, Protocol, OneHolder, ListenerHolds, Workers, Handed,
         InHand
<1>3. OneHolder' /\ NothingLeaked'
  <2>1. CASE Accept
    BY <2>1 DEF Accept, TypeOK, OneHolder, NothingLeaked, ListenerHolds, Handed, InHand, Has
  <2>2. CASE Mark
    BY <2>2 DEF Mark, TypeOK, Protocol, OneHolder, NothingLeaked, ListenerHolds, Handed, InHand,
                Has
  <2>3. CASE Reject
    BY <2>3 DEF Reject, TypeOK, OneHolder, NothingLeaked, ListenerHolds, Handed, InHand, Has
  <2> QED  BY <2>1, <2>2, <2>3
<1> QED  BY <1>1, <1>2, <1>3

\* A worker takes its connection, closes it or gives it to the SSE table, and
\* only then becomes free.
LEMMA WorkerKeeps ==
  ASSUME PoolAssumption, PoolInv, NEW i \in Workers, WorkerStep(i)
  PROVE  PoolInv'
<1> USE PoolAssumption DEF PoolAssumption, PoolInv, listenVars, sockVars
<1>1. TypeOK'
  <2>1. CASE Take(i)
    BY <2>1 DEF Take, TypeOK, WorkerPCs
  <2>2. CASE Receive(i) \/ Serve(i)
    BY <2>2 DEF Receive, Serve, TypeOK, WorkerPCs
  <2>3. CASE Close(i) \/ Register(i)
    <3>1. taken[i] \in open \ sse
      BY <2>3 DEF Close, Register, Protocol, OneHolder, InHand, Has
    <3>2. sse' \subseteq open' /\ open' \subseteq Fds
      BY <2>3, <3>1 DEF Close, Register, TypeOK
    <3>3. listening' \in BOOLEAN /\ stale' \in BOOLEAN
      BY <2>3, Zenon DEF Close, Register, TypeOK
    <3> QED  BY <2>3, <3>2, <3>3 DEF Close, Register, TypeOK, WorkerPCs
  <2>4. CASE Release(i)
    BY <2>4 DEF Release, TypeOK, WorkerPCs
  <2> QED  BY <2>1, <2>2, <2>3, <2>4 DEF WorkerStep
<1>2. Protocol'
  BY DEF WorkerStep, Take, Receive, Serve, Close, Register, Release, TypeOK, Protocol, Handed,
         InHand
<1>3. OneHolder' /\ NothingLeaked'
  <2>1. CASE Take(i)
    BY <2>1 DEF Take, TypeOK, OneHolder, NothingLeaked, ListenerHolds, Handed, InHand, Has
  <2>2. CASE Receive(i) \/ Serve(i)
    BY <2>2 DEF Receive, Serve, TypeOK, OneHolder, NothingLeaked, ListenerHolds, Handed, InHand,
                Has
  <2>3. CASE Close(i)
    BY <2>3 DEF Close, TypeOK, OneHolder, NothingLeaked, ListenerHolds, Handed, InHand, Has
  <2>4. CASE Register(i)
    BY <2>4 DEF Register, TypeOK, OneHolder, NothingLeaked, ListenerHolds, Handed, InHand, Has
  <2>5. CASE Release(i)
    BY <2>5 DEF Release, TypeOK, OneHolder, NothingLeaked, ListenerHolds, Handed, InHand, Has
  <2> QED  BY <2>1, <2>2, <2>3, <2>4, <2>5 DEF WorkerStep
<1> QED  BY <1>1, <1>2, <1>3

\* The SSE table closes only what it holds.
LEMMA SseKeeps ==
  ASSUME PoolAssumption, PoolInv, NEW f \in Fds, SseCloses(f)
  PROVE  PoolInv'
BY DEF PoolInv, SseCloses, TypeOK, Protocol, OneHolder, NothingLeaked, ListenerHolds, Handed,
       InHand, Has, listenVars, workerVars

\* Every connection has one holder, and every open connection has one.
THEOREM PoolSafe == Spec => []PoolInv
<1>1. PoolInv /\ [Next]_vars => PoolInv'
  <2>1. CASE ListenerStep
    BY <2>1, PoolAssumption, SpawnKeeps, ListenKeeps, ClientKeeps
       DEF ListenerStep, ListenerOwnStep
  <2>2. ASSUME PoolInv, UNCHANGED vars
        PROVE  PoolInv'
    BY <2>2 DEF PoolInv, TypeOK, Protocol, OneHolder, NothingLeaked, ListenerHolds, Handed,
                InHand, Has, vars, listenVars, workerVars, sockVars
  <2> QED  BY <2>1, <2>2, PoolAssumption, WorkerKeeps, SseKeeps DEF Next
<1> QED  BY <1>1, PoolInit, PTL DEF Spec

\* No two threads work on one connection, and none works on a closed one.
THEOREM PoolOneHolder == Spec => []OneHolder
BY PoolSafe, PTL DEF PoolInv

\* No connection is forgotten by the hand-over.
THEOREM PoolNothingLeaked == Spec => []NothingLeaked
BY PoolSafe, PTL DEF PoolInv
=============================================================================
