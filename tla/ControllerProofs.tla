-------------------------- MODULE ControllerProofs --------------------------
(***************************************************************************)
(* Proofs about Controller for every number of workers, pads, inputs and   *)
(* initialisations, and whatever fails: its types, and, until two workers  *)
(* have been inside controllerInitialize at once, that one HDLS thread     *)
(* plays the inputs and that a long press stays.                           *)
(***************************************************************************)
EXTENDS Controller, TLAPS

\* Whoever is about to post has something to post.
PostPCs == {"lock", "write", "flags"}
PostsHaveInput == \A w \in Workers : wpc[w] \in PostPCs => call[w].state \in Inputs

TypeInv == TypeOK /\ PostsHaveInput

LEMMA TypeInit == Init => TypeInv
  <1> SUFFICES ASSUME Init PROVE TypeOK /\ PostsHaveInput
    BY DEF TypeInv
  <1> USE ControllerAssumption
  <1>1. curr \in InputStates /\ next \in InputStates
    BY DEF Init, InputStates, Zeroed
  <1>2. wpc \in [Workers -> WorkerPCs] /\ tpc \in [Threads -> ThreadPCs]
    BY DEF Init, WorkerPCs, ThreadPCs
  <1>3. call \in [Workers -> Calls]
    BY DEF Init, Calls, NoCall
  <1>4. attached \in [Threads -> BOOLEAN]
    BY Zenon DEF Init
  <1>5. PostsHaveInput
    BY DEF Init, PostsHaveInput, PostPCs
  <1>6. initialized \in BOOLEAN
    BY Zenon DEF Init
  <1>7. shown \in [Devices -> Inputs \cup {Off}]
    BY DEF Init
  <1>8. inits \in 0 .. MaxInits /\ workmem \in 0 .. MaxInits /\ thread \in 0 .. MaxInits
    BY DEF Init
  <1>9. raced \in BOOLEAN /\ misled \in BOOLEAN
    BY Zenon DEF Init
  <1> QED BY <1>1, <1>2, <1>3, <1>4, <1>5, <1>6, <1>7, <1>8, <1>9 DEF Init, TypeOK

\* Exchanging two input states, or setting one of their fields, gives input states.
LEMMA InputStateFields ==
  ASSUME NEW is \in InputStates
  PROVE  /\ \A s \in Inputs : [is EXCEPT !.state = s] \in InputStates
         /\ \A b \in BOOLEAN : [is EXCEPT !.idle = b] \in InputStates
         /\ [is EXCEPT !.state = Neutral, !.idle = TRUE] \in InputStates
         /\ \A b \in BOOLEAN : [is EXCEPT !.idle = FALSE, !.long = b] \in InputStates
         /\ Zeroed \in InputStates
  BY ControllerAssumption DEF InputStates, Zeroed

\* A worker's move keeps the types of wpc and call.
LEMMA WorkerMoves ==
  ASSUME TypeOK, NEW w \in Workers, NEW from \in WorkerPCs, NEW to \in WorkerPCs
  PROVE  /\ Goto(w, from, to) => wpc' \in [Workers -> WorkerPCs]
         /\ Done(w, from) => wpc' \in [Workers -> WorkerPCs] /\ call' \in [Workers -> Calls]
  <1>1. Goto(w, from, to) => wpc' \in [Workers -> WorkerPCs]
    BY DEF TypeOK, Goto
  <1>2. NoCall \in Calls /\ "idle" \in WorkerPCs
    BY ControllerAssumption DEF NoCall, Calls, WorkerPCs
  <1>3. Done(w, from) => wpc' \in [Workers -> WorkerPCs] /\ call' \in [Workers -> Calls]
    BY <1>2 DEF TypeOK, Done, Goto
  <1> QED BY <1>1, <1>3

LEMMA TypeStep == TypeInv /\ [Next]_vars => TypeOK'
  <1> SUFFICES ASSUME TypeOK, PostsHaveInput, [Next]_vars PROVE TypeOK'
    BY DEF TypeInv
  <1> USE ControllerAssumption
  <1>0. raced' \in BOOLEAN /\ misled' \in BOOLEAN
    <2>1. CASE Next
      BY <2>1, Zenon DEF Next, TwoSetups, Misleads, TypeOK
    <2>2. CASE UNCHANGED vars
      BY <2>2 DEF vars, TypeOK
    <2> QED BY <2>1, <2>2
  <1>1. ASSUME NEW w \in Workers, NEW s \in Inputs \cup {NoInput}, NEW l \in BOOLEAN, Call(w, s, l) PROVE TypeOK'
    <2>1. wpc' \in [Workers -> WorkerPCs]
      BY <1>1, WorkerMoves DEF Call, WorkerPCs
    <2>2. call' \in [Workers -> Calls]
      BY <1>1 DEF Call, TypeOK, Calls
    <2> QED BY <1>0, <1>1, <2>1, <2>2 DEF Call, TypeOK, heapVars, hdlVars, padVars
  <1>2. ASSUME NEW w \in Workers, NEW s \in Inputs \cup {NoInput}, NEW l \in BOOLEAN, Begin(w, s, l) PROVE TypeOK'
    <2>1. wpc' \in [Workers -> WorkerPCs]
      BY <1>2, WorkerMoves DEF Begin, WorkerPCs, SetupPCs
    <2>2. inits + 1 \in 0 .. MaxInits
      BY <1>2 DEF Begin, TypeOK
    <2>3. call' \in [Workers -> Calls]
      BY <1>2, <2>2 DEF Begin, TypeOK, Calls
    <2> QED BY <1>0, <1>2, <2>1, <2>2, <2>3 DEF Begin, TypeOK, heapVars, hdlVars
  <1>3. ASSUME NEW w \in Workers, Clear(w) PROVE TypeOK'
    <2>1. wpc' \in [Workers -> WorkerPCs] /\ call' \in [Workers -> Calls]
      BY <1>3, WorkerMoves DEF Clear, WorkerPCs, SetupPCs, TypeOK
    <2>2. workmem' \in 0 .. MaxInits
      BY <1>3 DEF Clear, TypeOK, Calls
    <2>3. curr' \in InputStates /\ next' \in InputStates
      BY <1>3, InputStateFields DEF Clear, TypeOK
    <2> QED BY <1>0, <1>3, <2>1, <2>2, <2>3 DEF Clear, TypeOK, heapVars, hdlVars, padVars
  <1>4. ASSUME NEW w \in Workers, Work(w) PROVE TypeOK'
    <2>1. wpc' \in [Workers -> WorkerPCs]
      BY <1>4, WorkerMoves DEF Work, WorkerPCs, SetupPCs
    <2>2. lent' \subseteq Inits
      BY <1>4 DEF Work, TypeOK, Inits
    <2>3. curr' \in InputStates /\ next' \in InputStates
      BY <1>4, InputStateFields DEF Work, TypeOK
    <2> QED BY <1>0, <1>4, <2>1, <2>2, <2>3 DEF Work, TypeOK, hdlVars, padVars
  <1>5. ASSUME NEW w \in Workers, Create(w) PROVE TypeOK'
    <2>1. wpc' \in [Workers -> WorkerPCs]
      BY <1>5, WorkerMoves DEF Create, WorkerPCs, SetupPCs
    <2>2. thread' \in 0 .. MaxInits /\ tpc' \in [Threads -> ThreadPCs]
      BY <1>5 DEF Create, TypeOK, Calls, ThreadPCs
    <2> QED BY <1>0, <1>5, <2>1, <2>2 DEF Create, TypeOK, heapVars, padVars
  <1>6. ASSUME NEW w \in Workers, FreeWork(w) PROVE TypeOK'
    <2>1. wpc' \in [Workers -> WorkerPCs] /\ call' \in [Workers -> Calls]
      BY <1>6, WorkerMoves DEF FreeWork, WorkerPCs, SetupPCs
    <2>2. freed' \subseteq Inits /\ workmem' \in 0 .. MaxInits
      BY <1>6 DEF FreeWork, TypeOK, Inits
    <2> QED BY <1>0, <1>6, <2>1, <2>2 DEF FreeWork, TypeOK, hdlVars, padVars
  <1>7. ASSUME NEW w \in Workers, Launch(w) PROVE TypeOK'
    <2>1. wpc' \in [Workers -> WorkerPCs]
      BY <1>7, WorkerMoves DEF Launch, WorkerPCs, SetupPCs
    <2>2. tpc' \in [Threads -> ThreadPCs]
      BY <1>7 DEF Launch, Step, TypeOK, ThreadPCs, Alive
    <2> QED BY <1>0, <1>7, <2>1, <2>2 DEF Launch, TypeOK, heapVars, padVars
  <1>8. ASSUME NEW w \in Workers, CloseThread(w) PROVE TypeOK'
    <2>1. wpc' \in [Workers -> WorkerPCs] /\ call' \in [Workers -> Calls]
      BY <1>8, WorkerMoves DEF CloseThread, WorkerPCs, SetupPCs
    <2>2. tpc' \in [Threads -> ThreadPCs]
      BY <1>8 DEF CloseThread, TypeOK, ThreadPCs
    <2> QED BY <1>0, <1>8, <2>1, <2>2 DEF CloseThread, TypeOK, heapVars, padVars
  <1>9. ASSUME NEW w \in Workers, Launched(w) PROVE TypeOK'
    <2>1. wpc' \in [Workers -> WorkerPCs] /\ call' \in [Workers -> Calls]
      BY <1>9, WorkerMoves DEF Launched, WorkerPCs, SetupPCs, TypeOK
    <2> QED BY <1>0, <1>9, <2>1 DEF Launched, TypeOK, heapVars, hdlVars, padVars
  <1>10. ASSUME NEW w \in Workers, Lock(w) PROVE TypeOK'
    <2>1. wpc' \in [Workers -> WorkerPCs]
      BY <1>10, WorkerMoves DEF Lock, WorkerPCs
    <2> QED BY <1>0, <1>10, <2>1 DEF Lock, TypeOK, heapVars, hdlVars, padVars
  <1>11. ASSUME NEW w \in Workers, Write(w) PROVE TypeOK'
    <2>1. wpc' \in [Workers -> WorkerPCs]
      BY <1>11, WorkerMoves DEF Write, WorkerPCs
    <2>2. call[w].state \in Inputs
      BY <1>11 DEF Write, Goto, PostsHaveInput, PostPCs
    <2>3. next' \in InputStates
      BY <1>11, <2>2, InputStateFields DEF Write, TypeOK
    <2> QED BY <1>0, <1>11, <2>1, <2>3 DEF Write, TypeOK, heapVars, hdlVars, padVars
  <1>12. ASSUME NEW w \in Workers, Flags(w) PROVE TypeOK'
    <2>1. wpc' \in [Workers -> WorkerPCs] /\ call' \in [Workers -> Calls]
      BY <1>12, WorkerMoves DEF Flags, WorkerPCs
    <2>2. call[w].long \in BOOLEAN
      BY DEF TypeOK, Calls
    <2>3. next' \in InputStates
      BY <1>12, <2>2, InputStateFields DEF Flags, TypeOK
    <2> QED BY <1>0, <1>12, <2>1, <2>3 DEF Flags, TypeOK, heapVars, hdlVars, padVars
  <1>13. ASSUME NEW t \in Threads, Query(t) PROVE TypeOK'
    <2>1. attached' \in [Threads -> BOOLEAN]
      BY <1>13, Zenon DEF Query, On, TypeOK
    <2>2. tpc' \in [Threads -> ThreadPCs]
      BY <1>13 DEF Query, Step, TypeOK, ThreadPCs, Alive
    <2> QED BY <1>0, <1>13, <2>1, <2>2 DEF Query, TypeOK, heapVars, padVars
  <1>14. ASSUME NEW t \in Threads, AttachOk(t) PROVE TypeOK'
    <2>1. tpc' \in [Threads -> ThreadPCs]
      BY <1>14 DEF AttachOk, Step, TypeOK, ThreadPCs, Alive
    <2>2. handle' \in Devices /\ shown' \in [Devices -> Inputs \cup {Off}]
      BY <1>14 DEF AttachOk, TypeOK
    <2> QED BY <1>0, <1>14, <2>1, <2>2 DEF AttachOk, TypeOK, heapVars
  <1>15. ASSUME NEW t \in Threads, AttachRefused(t) PROVE TypeOK'
    <2>1. tpc' \in [Threads -> ThreadPCs]
      BY <1>15 DEF AttachRefused, Step, TypeOK, ThreadPCs, Alive
    <2> QED BY <1>0, <1>15, <2>1 DEF AttachRefused, TypeOK, heapVars, padVars
  <1>16. ASSUME NEW t \in Threads, SetOk(t) PROVE TypeOK'
    <2>1. tpc' \in [Threads -> ThreadPCs]
      BY <1>16 DEF SetOk, Step, TypeOK, ThreadPCs, Alive
    <2>2. attached' \in [Threads -> BOOLEAN]
      BY <1>16, Zenon DEF SetOk, TypeOK
    <2>3. shown' \in [Devices -> Inputs \cup {Off}]
      BY <1>16 DEF SetOk, TypeOK, InputStates
    <2> QED BY <1>0, <1>16, <2>1, <2>2, <2>3 DEF SetOk, TypeOK, heapVars
  <1>17. ASSUME NEW t \in Threads, SetFails(t) PROVE TypeOK'
    <2>1. tpc' \in [Threads -> ThreadPCs]
      BY <1>17 DEF SetFails, Step, TypeOK, ThreadPCs, Alive
    <2>2. attached' \in [Threads -> BOOLEAN]
      BY <1>17, Zenon DEF SetFails, TypeOK
    <2> QED BY <1>0, <1>17, <2>1, <2>2 DEF SetFails, TypeOK, heapVars, padVars
  <1>18. ASSUME NEW t \in Threads, LockHdl(t) PROVE TypeOK'
    <2>1. tpc' \in [Threads -> ThreadPCs]
      BY <1>18 DEF LockHdl, Step, TypeOK, ThreadPCs, Alive
    <2> QED BY <1>0, <1>18, <2>1 DEF LockHdl, TypeOK, heapVars, padVars
  <1>19. ASSUME NEW t \in Threads, Swap(t) PROVE TypeOK'
    <2>1. tpc' \in [Threads -> ThreadPCs]
      BY <1>19 DEF Swap, Step, TypeOK, ThreadPCs, Alive
    <2>2. curr' \in InputStates /\ next' \in InputStates
      BY <1>19, InputStateFields DEF Swap, Exchange, TypeOK
    <2> QED BY <1>0, <1>19, <2>1, <2>2 DEF Swap, TypeOK, heapVars, padVars
  <1>20. ASSUME NEW d \in Devices, Drop(d) PROVE TypeOK'
    BY <1>0, <1>20 DEF Drop, TypeOK, heapVars, hdlVars
  <1>21. ASSUME UNCHANGED vars PROVE TypeOK'
    BY <1>0, <1>21 DEF vars, sysVars, TypeOK, heapVars, hdlVars, padVars
  <1> QED
    BY <1>1, <1>2, <1>3, <1>4, <1>5, <1>6, <1>7, <1>8, <1>9, <1>10, <1>11, <1>12, <1>13, <1>14,
       <1>15, <1>16, <1>17, <1>18, <1>19, <1>20, <1>21
    DEF Next, SysNext, SetupStep, PostStep, HdlsStep

LEMMA PostsStep == TypeInv /\ [SysNext]_sysVars => PostsHaveInput'
  <1> SUFFICES ASSUME TypeOK, PostsHaveInput, [SysNext]_sysVars, NEW v \in Workers, wpc'[v] \in PostPCs
               PROVE call'[v].state \in Inputs
    BY DEF TypeInv, PostsHaveInput
  <1>1. ASSUME NEW w \in Workers, NEW s \in Inputs \cup {NoInput}, NEW l \in BOOLEAN,
               Call(w, s, l) \/ Begin(w, s, l)
        PROVE call'[v].state \in Inputs
    BY <1>1 DEF Call, Begin, Goto, PostsHaveInput, PostPCs, TypeOK, WorkerPCs
  <1>2. ASSUME NEW w \in Workers, SetupStep(w) PROVE call'[v].state \in Inputs
    <2>1. call[v].state \in Inputs \cup {NoInput}
      BY DEF TypeOK, Calls
    <2>2. \/ wpc[v] \in PostPCs /\ call'[v] = call[v]
          \/ Launched(v) /\ call[v].state # NoInput /\ call'[v] = call[v]
      BY <1>2 DEF SetupStep, Clear, Work, Create, FreeWork, Launch, CloseThread, Launched, Done,
                  Goto, PostPCs, TypeOK
    <2> QED BY <2>1, <2>2 DEF PostsHaveInput
  <1>3. ASSUME NEW w \in Workers, PostStep(w) PROVE call'[v].state \in Inputs
    BY <1>3 DEF PostStep, Lock, Write, Flags, Done, Goto, PostsHaveInput, PostPCs, TypeOK
  <1>4. ASSUME UNCHANGED <<wpc, call>> PROVE call'[v].state \in Inputs
    BY <1>4 DEF PostsHaveInput
  <1>5. ASSUME NEW t \in Threads, HdlsStep(t) PROVE UNCHANGED <<wpc, call>>
    BY <1>5 DEF HdlsStep, Query, AttachOk, AttachRefused, SetOk, SetFails, LockHdl, Swap
  <1> QED BY <1>1, <1>2, <1>3, <1>4, <1>5 DEF SysNext, Drop, sysVars

LEMMA SystemStep == [Next]_vars => [SysNext]_sysVars
  BY DEF Next, vars

LEMMA TypeInvStep == TypeInv /\ [Next]_vars => TypeInv'
  BY TypeStep, PostsStep, SystemStep DEF TypeInv

\* Every variable keeps its type, whatever fails and however initialisations race.
THEOREM ControllerTypes == Spec => []TypeOK
  <1>1. TypeInv => TypeOK
    BY DEF TypeInv
  <1> QED BY <1>1, TypeInit, TypeInvStep, PTL DEF Spec

-----------------------------------------------------------------------------
(* One initialisation at a time *)

\* Of the workers at most one sets the controller up, and none once the flag is
\* set; an HDLS thread lives only when the flag is set or about to be, and it is
\* the one hdlThread names.
SetupAlone ==
  \A v, w \in Workers : wpc[v] \in SetupPCs /\ wpc[w] \in SetupPCs => v = w
NoSetupAfter ==
  initialized => \A w \in Workers : wpc[w] \notin SetupPCs
ThreadFollowsFlag ==
  \A t \in Threads : tpc[t] \in Alive =>
    /\ t = thread
    /\ initialized \/ \E w \in Workers : wpc[w] = "launched"

SetupInv == TypeInv /\ SetupAlone /\ NoSetupAfter /\ ThreadFollowsFlag

LEMMA SetupInit == Init => SetupInv
  BY TypeInit DEF Init, SetupInv, SetupAlone, NoSetupAfter, ThreadFollowsFlag, SetupPCs, Alive

LEMMA SetupAloneStep ==
  ASSUME ~TwoSetups', SetupInv, [SysNext]_sysVars
  PROVE  SetupAlone' /\ NoSetupAfter'
  <1> USE DEF SetupInv, TypeInv, TypeOK
  <1>1. ASSUME NEW w \in Workers, NEW s \in Inputs \cup {NoInput}, NEW l \in BOOLEAN,
               Call(w, s, l) \/ Begin(w, s, l)
        PROVE SetupAlone' /\ NoSetupAfter'
    <2>1. CASE Call(w, s, l)
      BY <2>1 DEF Call, Goto, SetupAlone, NoSetupAfter, SetupPCs
    <2>2. CASE Begin(w, s, l)
      <3>1. wpc'[w] = "clear" /\ ~initialized' /\ \A v \in Workers \ {w} : wpc'[v] = wpc[v]
        BY <2>2 DEF Begin, Goto
      <3>2. \A v \in Workers \ {w} : wpc'[v] \notin SetupPCs
        BY <3>1 DEF TwoSetups, SetupPCs
      <3> QED BY <3>1, <3>2 DEF SetupAlone, NoSetupAfter
    <2> QED BY <1>1, <2>1, <2>2
  <1>2. ASSUME NEW w \in Workers, SetupStep(w) PROVE SetupAlone' /\ NoSetupAfter'
    <2>1. wpc[w] \in SetupPCs /\ \A v \in Workers \ {w} : wpc'[v] = wpc[v]
      BY <1>2 DEF SetupStep, Clear, Work, Create, FreeWork, Launch, CloseThread, Launched, Done,
                  Goto, SetupPCs
    <2>2. ~initialized /\ \A v \in Workers \ {w} : wpc[v] \notin SetupPCs
      BY <2>1 DEF SetupAlone, NoSetupAfter
    <2>3. initialized' => wpc'[w] \notin SetupPCs
      BY <1>2, <2>2 DEF SetupStep, Clear, Work, Create, FreeWork, Launch, CloseThread, Launched, Done,
                  Goto, SetupPCs
    <2> QED BY <2>1, <2>2, <2>3 DEF SetupAlone, NoSetupAfter
  <1>3. ASSUME NEW w \in Workers, PostStep(w) PROVE SetupAlone' /\ NoSetupAfter'
    BY <1>3 DEF PostStep, Lock, Write, Flags, Done, Goto, SetupAlone, NoSetupAfter, SetupPCs
  <1>4. ASSUME UNCHANGED <<wpc, initialized>> PROVE SetupAlone' /\ NoSetupAfter'
    BY <1>4 DEF SetupAlone, NoSetupAfter
  <1>5. ASSUME NEW t \in Threads, HdlsStep(t) PROVE UNCHANGED <<wpc, initialized>>
    BY <1>5 DEF HdlsStep, Query, AttachOk, AttachRefused, SetOk, SetFails, LockHdl, Swap
  <1> QED BY <1>1, <1>2, <1>3, <1>4, <1>5 DEF SysNext, Drop, sysVars

LEMMA ThreadStep ==
  ASSUME ~TwoSetups', SetupInv, [SysNext]_sysVars
  PROVE  ThreadFollowsFlag'
  <1> USE DEF SetupInv, TypeInv, TypeOK
  <1>1. ASSUME NEW w \in Workers, NEW s \in Inputs \cup {NoInput}, NEW l \in BOOLEAN,
               Call(w, s, l) \/ Begin(w, s, l)
        PROVE ThreadFollowsFlag'
    BY <1>1 DEF Call, Begin, Goto, ThreadFollowsFlag, hdlVars
  <1>2. ASSUME NEW w \in Workers, SetupStep(w) PROVE ThreadFollowsFlag'
    <2>1. wpc[w] \in SetupPCs
      BY <1>2 DEF SetupStep, Clear, Work, Create, FreeWork, Launch, CloseThread, Launched, Done,
                  Goto, SetupPCs
    <2>2. ~initialized /\ \A v \in Workers : wpc[v] = "launched" => v = w
      BY <2>1 DEF SetupAlone, NoSetupAfter, SetupPCs
    <2>3. wpc[w] # "launched" => \A t \in Threads : tpc[t] \notin Alive
      BY <2>2 DEF ThreadFollowsFlag
    <2>4. CASE Launched(w)
      BY <2>4 DEF Launched, Done, Goto, ThreadFollowsFlag, hdlVars
    <2>5. CASE Clear(w) \/ Work(w) \/ FreeWork(w)
      <3>1. wpc[w] # "launched" /\ tpc' = tpc
        BY <2>5 DEF Clear, Work, FreeWork, Done, Goto, hdlVars
      <3> QED BY <3>1, <2>3 DEF ThreadFollowsFlag
    <2>6. CASE Create(w)
      <3>1. wpc[w] # "launched"
        BY <2>6 DEF Create, Goto
      <3>2. \A t \in Threads : tpc'[t] \in Alive => tpc[t] \in Alive
        BY <2>6 DEF Create, Alive
      <3> QED BY <3>1, <3>2, <2>3 DEF ThreadFollowsFlag
    <2>7. CASE CloseThread(w)
      <3>1. wpc[w] # "launched"
        BY <2>7 DEF CloseThread, Done, Goto
      <3>2. \A t \in Threads : tpc'[t] \in Alive => tpc[t] \in Alive
        BY <2>7 DEF CloseThread, Alive
      <3> QED BY <3>1, <3>2, <2>3 DEF ThreadFollowsFlag
    <2>8. CASE Launch(w)
      <3>1. wpc[w] # "launched" /\ thread' = thread
        BY <2>8 DEF Launch, Goto
      <3>2. \A t \in Threads : tpc'[t] \in Alive => t = thread /\ wpc'[w] = "launched"
        BY <2>8, <3>1, <2>3 DEF Launch, Goto, Step
      <3> QED BY <3>1, <3>2 DEF ThreadFollowsFlag
    <2> QED BY <1>2, <2>4, <2>5, <2>6, <2>7, <2>8 DEF SetupStep
  <1>3. ASSUME NEW w \in Workers, PostStep(w) PROVE ThreadFollowsFlag'
    BY <1>3 DEF PostStep, Lock, Write, Flags, Done, Goto, ThreadFollowsFlag, hdlVars
  <1>4. ASSUME NEW t \in Threads, HdlsStep(t) PROVE ThreadFollowsFlag'
    <2>1. UNCHANGED <<wpc, initialized, thread>>
      BY <1>4 DEF HdlsStep, Query, AttachOk, AttachRefused, SetOk, SetFails, LockHdl, Swap
    <2>2. \A u \in Threads : tpc'[u] \in Alive => tpc[u] \in Alive
      BY <1>4 DEF HdlsStep, Query, AttachOk, AttachRefused, SetOk, SetFails, LockHdl, Swap, Step, Alive
    <2> QED BY <2>1, <2>2 DEF ThreadFollowsFlag
  <1>5. ASSUME UNCHANGED <<wpc, initialized, thread, tpc>> PROVE ThreadFollowsFlag'
    BY <1>5 DEF ThreadFollowsFlag
  <1> QED BY <1>1, <1>2, <1>3, <1>4, <1>5 DEF SysNext, Drop, sysVars, hdlVars

\* As long as initialisations have not overlapped, this step overlaps none.
LEMMA UnracedStep ==
  ASSUME [Next]_vars, ~raced', ~raced => SetupInv
  PROVE  ~raced /\ ~TwoSetups'
  <1>1. CASE Next
    BY <1>1, Zenon DEF Next
  <1>2. CASE UNCHANGED vars
    BY <1>2 DEF vars, sysVars, SetupInv, SetupAlone, TwoSetups
  <1> QED BY <1>1, <1>2

\* What holds of every state until two initialisations overlap.
Unraced == TypeInv /\ (~raced => SetupInv)

LEMMA SetupInvStep ==
  ASSUME Unraced, [Next]_vars, ~raced'
  PROVE  SetupInv /\ SetupInv'
  <1>1. TypeInv /\ ~raced /\ ~TwoSetups' /\ SetupInv
    BY UnracedStep DEF Unraced
  <1>2. TypeInv'
    BY <1>1, TypeInvStep
  <1>3. [SysNext]_sysVars
    BY SystemStep
  <1> QED BY <1>1, <1>2, <1>3, SetupAloneStep, ThreadStep DEF SetupInv

LEMMA UnracedInit == Init => Unraced
  BY SetupInit, TypeInit DEF Unraced

LEMMA UnracedKept == Unraced /\ [Next]_vars => Unraced'
  BY SetupInvStep, TypeInvStep DEF Unraced

\* One HDLS thread plays the inputs, however often a setup fails half-way and is
\* tried again; only two workers inside controllerInitialize at once start two.
THEOREM ControllerOneThread == Spec => []OneHdlsThread
  <1>1. Unraced => OneHdlsThread
    BY DEF Unraced, SetupInv, ThreadFollowsFlag, OneHdlsThread
  <1> QED BY <1>1, UnracedInit, UnracedKept, PTL DEF Spec

-----------------------------------------------------------------------------
(* A long press stays *)

\* What a user sees as the held and the waiting press, read back from the states.
LEMMA LongHeld ==
  ASSUME SetupInv, Held.long, Waiting = Pad!Nothing
  PROVE  /\ initialized /\ ~curr.idle /\ curr.long /\ next.idle
         /\ \A w \in Workers : wpc[w] # "clear" /\ wpc[w] # "flags"
  <1> USE ControllerAssumption DEF SetupInv, TypeInv, TypeOK
  <1>1. initialized /\ ~curr.idle /\ curr.long /\ Ready
    BY DEF Held, Press, Ready
  <1>2. ASSUME NEW w \in Workers, wpc[w] = "flags" PROVE FALSE
    <2> DEFINE v == CHOOSE u \in Workers : wpc[u] = "flags"
    <2>1. v \in Workers /\ wpc[v] = "flags"
      BY <1>2
    <2>2. call[v].state \in Inputs
      BY <2>1 DEF PostsHaveInput, PostPCs
    <2>3. Waiting = Press(call[v])
      BY <1>2 DEF Waiting
    <2> HIDE DEF v
    <2> QED BY <2>2, <2>3 DEF Press, Pad!Nothing
  <1>3. next.idle
    <2> SUFFICES ASSUME ~next.idle PROVE FALSE
      OBVIOUS
    <2>1. Waiting = Press(next)
      BY <1>1, <1>2 DEF Waiting
    <2>2. next.state \in Inputs
      BY DEF InputStates
    <2> QED BY <2>1, <2>2 DEF Press, Pad!Nothing
  <1> QED BY <1>1, <1>2, <1>3 DEF Ready

LEMMA LongStep ==
  ASSUME ~TwoSetups', SetupInv, [SysNext]_sysVars, Held.long, Waiting = Pad!Nothing
  PROVE  Held' = Held
  <1>1. /\ initialized /\ ~curr.idle /\ curr.long /\ next.idle
        /\ \A w \in Workers : wpc[w] # "clear" /\ wpc[w] \notin SetupPCs
    BY LongHeld DEF SetupInv, NoSetupAfter
  <1>2. SUFFICES /\ curr' = curr /\ initialized' = initialized
                 /\ \A w \in Workers : wpc'[w] # "clear"
    BY <1>1 DEF Held, Ready
  <1>3. ASSUME NEW w \in Workers, NEW s \in Inputs \cup {NoInput}, NEW l \in BOOLEAN,
               Call(w, s, l) \/ Begin(w, s, l)
        PROVE curr' = curr /\ initialized' = initialized /\ \A v \in Workers : wpc'[v] # "clear"
    BY <1>1, <1>3 DEF Call, Begin, Goto, SetupInv, TypeInv, TypeOK
  <1>4. ASSUME NEW w \in Workers, SetupStep(w) PROVE FALSE
    BY <1>1, <1>4 DEF SetupStep, Clear, Work, Create, FreeWork, Launch, CloseThread, Launched, Done,
                      Goto, SetupPCs
  <1>5. ASSUME NEW w \in Workers, PostStep(w)
        PROVE curr' = curr /\ initialized' = initialized /\ \A v \in Workers : wpc'[v] # "clear"
    BY <1>1, <1>5 DEF PostStep, Lock, Write, Flags, Done, Goto, SetupInv, TypeInv, TypeOK
  <1>6. ASSUME NEW t \in Threads, HdlsStep(t)
        PROVE UNCHANGED <<curr, initialized, wpc>>
    BY <1>1, <1>6 DEF HdlsStep, Query, AttachOk, AttachRefused, SetOk, SetFails, LockHdl, Swap
  <1> QED BY <1>1, <1>3, <1>4, <1>5, <1>6 DEF SysNext, Drop, sysVars

\* A long press is played until another input is posted (line 99), whatever the
\* console refuses and drops, unless two workers initialise at once.
THEOREM ControllerLongPress == Spec => LongPressStays
  <1>1. Unraced /\ [Next]_vars => [raced' \/ KeepsLong]_vars
    BY SetupInvStep, UnracedStep, LongStep, SystemStep DEF Unraced, KeepsLong
  <1> QED BY <1>1, UnracedInit, UnracedKept, PTL DEF Spec, LongPressStays
=============================================================================
