------------------------- MODULE ControllerPadProofs -------------------------
(***************************************************************************)
(* Proofs, for every number of workers, pads, inputs and initialisations   *)
(* and whatever fails, that the heap gets hid's work buffer back in one    *)
(* way only, that there is one virtual pad and that the controller         *)
(* implements VirtualPad, up to the two things nothing in the code         *)
(* prevents and the history variables record: overlapping initialisations  *)
(* and an unanswered question taken for "no pad".                          *)
(***************************************************************************)
EXTENDS ControllerProofs

-----------------------------------------------------------------------------
(* The work buffer *)

\* The initialisation in hand is the newest; until hid maps its buffer nobody
\* else knows it.
BufferInv ==
  /\ lent \cup freed \subseteq 1 .. inits
  /\ \A w \in Workers : wpc[w] \in SetupPCs => call[w].init = inits /\ inits \in Inits
  /\ \A w \in Workers : wpc[w] \in {"clear", "work", "work_failed"} => inits \notin lent \cup freed
  /\ \A w \in Workers : wpc[w] \in {"work", "work_failed", "create", "create_failed"} => workmem = inits

LEMMA BufferStep ==
  ASSUME ~TwoSetups', SetupInv, BufferInv, [SysNext]_sysVars
  PROVE  BufferInv'
  <1> USE DEF BufferInv
  <1>0. /\ wpc \in [Workers -> WorkerPCs] /\ call \in [Workers -> Calls]
        /\ inits \in 0 .. MaxInits /\ MaxInits \in Nat /\ workmem \in 0 .. MaxInits
    BY ControllerAssumption DEF SetupInv, TypeInv, TypeOK, ControllerAssumption
  <1>1. ASSUME NEW w \in Workers, NEW s \in Inputs \cup {NoInput}, NEW l \in BOOLEAN, Call(w, s, l)
        PROVE BufferInv'
    BY <1>0, <1>1 DEF Call, Goto, SetupPCs, heapVars
  <1>2. ASSUME NEW w \in Workers, NEW s \in Inputs \cup {NoInput}, NEW l \in BOOLEAN, Begin(w, s, l)
        PROVE BufferInv'
    <2>1. /\ inits' = inits + 1 /\ inits' \in Inits /\ UNCHANGED <<lent, freed, workmem>>
          /\ wpc'[w] = "clear" /\ call'[w].init = inits'
          /\ \A v \in Workers \ {w} : wpc'[v] = wpc[v]
      BY <1>0, <1>2 DEF Begin, Goto, heapVars, Inits
    <2>2. \A v \in Workers \ {w} : wpc'[v] \notin SetupPCs
      BY <2>1 DEF TwoSetups, SetupPCs
    <2> QED BY <1>0, <2>1, <2>2 DEF SetupPCs
  <1>3. ASSUME NEW w \in Workers, SetupStep(w) PROVE BufferInv'
    <2>1. /\ wpc[w] \in SetupPCs /\ inits' = inits /\ \A v \in Workers \ {w} : wpc'[v] = wpc[v]
          /\ call'[w] = call[w] \/ wpc'[w] = "idle"
      BY <1>0, <1>3 DEF SetupStep, Clear, Work, Create, FreeWork, Launch, CloseThread, Launched, Done,
                        Goto, SetupPCs
    <2>2. call[w].init = inits /\ inits \in Inits /\ \A v \in Workers \ {w} : wpc'[v] \notin SetupPCs
      BY <2>1 DEF SetupInv, SetupAlone
    <2>3. CASE Clear(w)
      BY <1>0, <2>1, <2>2, <2>3 DEF Clear, Done, Goto, SetupPCs
    <2>4. CASE Work(w)
      <3>1. wpc[w] = "work" /\ workmem = inits /\ inits \notin lent \cup freed /\ inits # 0
        BY <1>0, <2>2, <2>4 DEF Work, Goto, Inits
      <3>2. UNCHANGED <<workmem, freed>> /\ wpc'[w] \in {"create", "work_failed"}
        BY <1>0, <2>4 DEF Work, Goto
      <3>3. (lent' = lent \cup {inits} /\ wpc'[w] = "create") \/ lent' = lent
        BY <1>0, <2>4, <3>1 DEF Work, Goto
      <3> QED BY <1>0, <2>1, <2>2, <3>1, <3>2, <3>3 DEF SetupPCs, Inits
    <2>5. CASE FreeWork(w)
      <3>1. wpc[w] \in {"work_failed", "create_failed"} /\ workmem = inits
        BY <2>5 DEF FreeWork, Done, Goto
      <3>2. lent' = lent /\ freed' = freed \cup ({inits} \ {0}) /\ wpc'[w] = "idle"
        BY <1>0, <2>5, <3>1 DEF FreeWork, Done, Goto
      <3> QED BY <1>0, <2>1, <2>2, <3>1, <3>2 DEF SetupPCs, Inits
    <2>6. CASE Create(w)
      <3>1. /\ UNCHANGED <<lent, freed, workmem>> /\ workmem = inits
            /\ wpc'[w] \in {"launch", "create_failed"}
        BY <1>0, <2>6 DEF Create, Goto, heapVars
      <3>2. call'[w] = call[w]
        BY <2>1, <3>1
      <3> QED BY <1>0, <2>1, <2>2, <3>1, <3>2 DEF SetupPCs
    <2>7. CASE Launch(w) \/ CloseThread(w) \/ Launched(w)
      <3>1. /\ UNCHANGED <<lent, freed, workmem>>
            /\ wpc'[w] \notin {"clear", "work", "work_failed", "create", "create_failed"}
        BY <1>0, <2>7 DEF Launch, CloseThread, Launched, Done, Goto, heapVars
      <3>2. call'[w] = call[w] \/ wpc'[w] \notin SetupPCs
        BY <2>1 DEF SetupPCs
      <3> QED BY <1>0, <2>1, <2>2, <3>1, <3>2 DEF SetupPCs
    <2> QED BY <1>3, <2>3, <2>4, <2>5, <2>6, <2>7 DEF SetupStep
  <1>4. ASSUME NEW w \in Workers, PostStep(w) PROVE BufferInv'
    <2>1. /\ UNCHANGED <<inits, lent, freed, workmem>> /\ wpc'[w] \notin SetupPCs
          /\ \A v \in Workers \ {w} : wpc'[v] = wpc[v] /\ call'[v] = call[v]
      BY <1>0, <1>4 DEF PostStep, Lock, Write, Flags, Done, Goto, heapVars, SetupPCs
    <2> QED BY <1>0, <2>1 DEF SetupPCs
  <1>5. ASSUME UNCHANGED <<inits, heapVars, wpc, call>> PROVE BufferInv'
    BY <1>0, <1>5 DEF heapVars
  <1>6. ASSUME NEW t \in Threads, HdlsStep(t) PROVE UNCHANGED <<inits, heapVars, wpc, call>>
    BY <1>6 DEF HdlsStep, Query, AttachOk, AttachRefused, SetOk, SetFails, LockHdl, Swap
  <1> QED BY <1>1, <1>2, <1>3, <1>4, <1>5, <1>6 DEF SysNext, Drop, sysVars

\* What the action property says of one step: a failed create frees its own
\* buffer, a failed attach one that was never mapped, nothing else frees any.
LEMMA BufferFreed ==
  ASSUME SetupInv, BufferInv, [SysNext]_sysVars, NEW b \in lent \cap (freed' \ freed)
  PROVE  \E w \in Workers : wpc[w] = "create_failed" /\ call[w].init = b
  <1>1. freed' # freed
    OBVIOUS
  <1>2. PICK w \in Workers : FreeWork(w)
    BY <1>1 DEF SysNext, Call, Begin, SetupStep, Clear, Work, Create, Launch, CloseThread, Launched,
                PostStep, Lock, Write, Flags, HdlsStep, Query, AttachOk, AttachRefused, SetOk, SetFails,
                LockHdl, Swap, Drop, sysVars, heapVars
  <1>3. wpc[w] \in {"work_failed", "create_failed"} /\ b = workmem
    BY <1>2 DEF FreeWork, Done, Goto
  <1>4. workmem = inits /\ call[w].init = inits
    BY <1>3 DEF BufferInv, SetupPCs
  <1>5. wpc[w] # "work_failed"
    BY <1>3, <1>4 DEF BufferInv
  <1> QED BY <1>3, <1>4, <1>5

\* As long as initialisations do not overlap, the heap gets a work buffer back
\* that hid has mapped only when threadCreate fails, and then that very one.
THEOREM ControllerBuffer == Spec => WorkBufferHeld
  <1> DEFINE Inv == Unraced /\ (~raced => BufferInv)
  <1>1. Init => Inv
    BY UnracedInit DEF Init, BufferInv, SetupPCs
  <1>2. ASSUME Inv, [Next]_vars, ~raced' PROVE SetupInv /\ BufferInv /\ BufferInv' /\ [SysNext]_sysVars
    <2>1. SetupInv /\ ~raced /\ ~TwoSetups' /\ [SysNext]_sysVars
      BY <1>2, SetupInvStep, UnracedStep, SystemStep DEF Unraced
    <2> QED BY <1>2, <2>1, BufferStep
  <1>3. Inv /\ [Next]_vars => Inv'
    BY <1>2, UnracedKept
  <1>4. Inv /\ [Next]_vars =>
          [raced' \/ \A b \in lent \cap (freed' \ freed) :
             \E w \in Workers : wpc[w] = "create_failed" /\ call[w].init = b]_vars
    BY <1>2, BufferFreed
  <1> QED BY <1>1, <1>3, <1>4, PTL DEF Spec, WorkBufferHeld

-----------------------------------------------------------------------------
(* One pad *)

\* The pad on the console is the one the handle names; there is none before the
\* HDLS thread runs, nor when the thread is about to attach one.
PadInv ==
  /\ \A d \in Devices : On(d) => d = handle
  /\ ~initialized /\ (\A w \in Workers : wpc[w] # "launched") => \A d \in Devices : ~On(d)
  /\ \A t \in Threads : tpc[t] = "attach" => \A d \in Devices : ~On(d)

\* While a setup is under way nothing polls, and so there is no pad yet.
LEMMA PadStep ==
  ASSUME ~TwoSetups', ~Misleads, SetupInv, PadInv, [SysNext]_sysVars
  PROVE  PadInv'
  <1> USE DEF PadInv, On
  <1>0. /\ wpc \in [Workers -> WorkerPCs] /\ tpc \in [Threads -> ThreadPCs]
        /\ attached \in [Threads -> BOOLEAN] /\ handle \in Devices \cup {NoDevice} /\ NoDevice \notin Devices
        /\ shown \in [Devices -> Inputs \cup {Off}] /\ Off \notin Inputs /\ Neutral \in Inputs
        /\ curr \in InputStates
    BY ControllerAssumption DEF SetupInv, TypeInv, TypeOK, ControllerAssumption
  <1>1. ASSUME NEW w \in Workers, NEW s \in Inputs \cup {NoInput}, NEW l \in BOOLEAN, Call(w, s, l)
        PROVE PadInv'
    BY <1>0, <1>1 DEF Call, Goto, hdlVars, padVars
  <1>2. ASSUME NEW w \in Workers, NEW s \in Inputs \cup {NoInput}, NEW l \in BOOLEAN, Begin(w, s, l)
        PROVE PadInv'
    <2>1. /\ ~initialized /\ wpc[w] = "idle" /\ wpc'[w] = "clear"
          /\ \A v \in Workers \ {w} : wpc'[v] = wpc[v]
      BY <1>0, <1>2 DEF Begin, Goto
    <2>2. \A v \in Workers : wpc[v] \notin SetupPCs
      BY <2>1 DEF TwoSetups, SetupPCs
    <2>3. \A d \in Devices : ~On(d)
      BY <2>1, <2>2 DEF SetupPCs
    <2> QED BY <1>2, <2>3 DEF Begin, hdlVars
  <1>3. ASSUME NEW w \in Workers, SetupStep(w) PROVE PadInv'
    <2>1. wpc[w] \in SetupPCs /\ ~initialized /\ \A v \in Workers \ {w} : wpc[v] # "launched"
      BY <1>3 DEF SetupStep, Clear, Work, Create, FreeWork, Launch, CloseThread, Launched, Done, Goto,
                  SetupPCs, SetupInv, SetupAlone, NoSetupAfter
    <2>2. UNCHANGED padVars
      BY <1>3 DEF SetupStep, Clear, Work, Create, FreeWork, Launch, CloseThread, Launched
    <2>3. CASE Launched(w)
      <3>1. initialized' /\ tpc' = tpc
        BY <2>3 DEF Launched, hdlVars
      <3> QED BY <2>2, <3>1 DEF padVars
    <2>4. CASE ~Launched(w)
      <3>1. wpc[w] # "launched"
        BY <1>3, <2>4 DEF SetupStep, Clear, Work, Create, FreeWork, Launch, CloseThread, Done, Goto
      <3>2. \A d \in Devices : ~On(d)
        BY <2>1, <3>1
      <3> QED BY <2>2, <3>2 DEF padVars
    <2> QED BY <2>3, <2>4
  <1>4. ASSUME NEW w \in Workers, PostStep(w) PROVE PadInv'
    <2>1. UNCHANGED <<initialized, handle, shown, tpc>> /\ wpc[w] # "launched"
      BY <1>4 DEF PostStep, Lock, Write, Flags, Done, Goto, hdlVars, padVars
    <2>2. \A v \in Workers : wpc[v] = "launched" => wpc'[v] = "launched"
      BY <1>0, <1>4, <2>1 DEF PostStep, Lock, Write, Flags, Done, Goto
    <2> QED BY <2>1, <2>2
  <1>5. ASSUME NEW t \in Threads, HdlsStep(t) PROVE PadInv'
    <2>1. /\ tpc[t] \in Alive /\ UNCHANGED <<initialized, wpc>>
          /\ \A u \in Threads \ {t} : tpc'[u] = tpc[u]
      BY <1>0, <1>5 DEF HdlsStep, Query, AttachOk, AttachRefused, SetOk, SetFails, LockHdl, Swap, Step, Alive
    <2>2. /\ initialized \/ \E w \in Workers : wpc[w] = "launched"
          /\ \A u \in Threads \ {t} : tpc[u] \notin Alive
      BY <2>1 DEF SetupInv, ThreadFollowsFlag
    <2>3. \A u \in Threads \ {t} : tpc'[u] # "attach"
      BY <2>1, <2>2 DEF Alive
    <2>4. CASE Query(t)
      <3>1. tpc[t] = "query"
        BY <2>4 DEF Query, Step
      <3>2. ~On(handle) \/ tpc'[t] # "attach"
        BY <3>1 DEF Misleads
      <3>3. ~On(handle) => \A d \in Devices : ~On(d)
        OBVIOUS
      <3>4. UNCHANGED <<handle, shown>>
        BY <2>4 DEF Query, padVars
      <3> QED BY <2>1, <2>2, <2>3, <3>2, <3>3, <3>4
    <2>5. CASE AttachOk(t)
      BY <1>0, <2>1, <2>2, <2>3, <2>5 DEF AttachOk, Step
    <2>6. CASE SetOk(t)
      <3>1. curr.state \in Inputs
        BY <1>0 DEF InputStates
      <3> QED BY <1>0, <2>1, <2>2, <2>3, <2>6, <3>1 DEF SetOk, Step
    <2>7. CASE AttachRefused(t) \/ SetFails(t) \/ LockHdl(t) \/ Swap(t)
      <3>1. tpc'[t] # "attach" /\ UNCHANGED padVars
        BY <1>0, <2>7 DEF AttachRefused, SetFails, LockHdl, Swap, Step
      <3> QED BY <2>1, <2>2, <2>3, <3>1 DEF padVars
    <2> QED BY <1>5, <2>4, <2>5, <2>6, <2>7 DEF HdlsStep
  <1>6. ASSUME NEW d \in Devices, Drop(d) PROVE PadInv'
    <2>1. \A c \in Devices : On(c)' => On(c)
      BY <1>0, <1>6 DEF Drop
    <2> QED BY <1>6, <2>1 DEF Drop, hdlVars
  <1>7. ASSUME UNCHANGED sysVars PROVE PadInv'
    BY <1>7 DEF sysVars, hdlVars, padVars
  <1> QED BY <1>1, <1>2, <1>3, <1>4, <1>5, <1>6, <1>7 DEF SysNext

LEMMA PadInit == Init => PadInv
  BY DEF Init, PadInv, On, Alive

\* As long as nothing misleads, this step does not.
LEMMA UnmisledStep ==
  ASSUME [Next]_vars, ~misled'
  PROVE  ~misled /\ ~Misleads
  <1>1. CASE Next
    BY <1>1, Zenon DEF Next
  <1>2. CASE UNCHANGED vars
    BY <1>2 DEF vars, sysVars, hdlVars, Misleads
  <1> QED BY <1>1, <1>2

\* What holds of every state until initialisations overlap or a pad is hidden.
Unmisled == Unraced /\ (~raced /\ ~misled => PadInv)

LEMMA UnmisledInit == Init => Unmisled
  BY UnracedInit, PadInit DEF Unmisled

LEMMA UnmisledKept == Unmisled /\ [Next]_vars => Unmisled'
  <1> SUFFICES ASSUME Unmisled, [Next]_vars, ~raced', ~misled' PROVE PadInv'
    BY UnracedKept DEF Unmisled
  <1>1. SetupInv /\ ~raced /\ ~TwoSetups' /\ [SysNext]_sysVars
    BY SetupInvStep, UnracedStep, SystemStep DEF Unmisled, Unraced
  <1>2. ~misled /\ ~Misleads
    BY UnmisledStep
  <1> QED BY <1>1, <1>2, PadStep DEF Unmisled

\* The tool never leaves a second pad behind, however often one is dropped,
\* unless two workers initialise at once or a question stays unanswered while a
\* pad is there.
THEOREM ControllerOnePad == Spec => []OneVirtualPad
  <1>1. Unmisled => OneVirtualPad
    BY DEF Unmisled, PadInv, OneVirtualPad
  <1> QED BY <1>1, UnmisledInit, UnmisledKept, PTL DEF Spec

-----------------------------------------------------------------------------
(* The two states and their lock *)

\* The mutex is with whoever is inside; a post comes after the initialisation
\* and has written the input it is about to flag.
LockInv ==
  /\ \A w \in Workers : wpc[w] \in {"write", "flags"} => mutex = w
  /\ \A t \in Threads : tpc[t] = "swap" => mutex = t
  /\ \A w \in Workers : wpc[w] \in PostPCs => initialized
  /\ \A w \in Workers : wpc[w] = "flags" => next.state = call[w].state

\* A state that is idle shows nothing pressed, unless a post is writing it; the
\* first initialisation leaves both states idle.
Prepared == \E w \in Workers : wpc[w] \in {"create", "launch", "launched"}
IdleInv ==
  /\ \A w \in Workers : wpc[w] = "work" => curr = Zeroed /\ next = Zeroed
  /\ Prepared => curr.idle /\ next.idle
  /\ initialized \/ Prepared =>
       /\ curr.idle => curr.state = Neutral
       /\ next.idle => next.state = Neutral \/ \E w \in Workers : wpc[w] = "flags"

\* Whoever sets up does so before any post, and before any thread runs unless
\* it has just started one.
LEMMA SetupIsEarly ==
  ASSUME SetupInv, LockInv, NEW w \in Workers, wpc[w] \in SetupPCs
  PROVE  /\ ~initialized
         /\ \A v \in Workers : wpc[v] \notin PostPCs
         /\ \A v \in Workers \ {w} : wpc[v] \notin SetupPCs
         /\ wpc[w] # "launched" => \A t \in Threads : tpc[t] \notin Alive
  BY DEF SetupInv, SetupAlone, NoSetupAfter, ThreadFollowsFlag, LockInv, SetupPCs

LEMMA LockStep ==
  ASSUME ~TwoSetups', SetupInv, LockInv, [SysNext]_sysVars
  PROVE  LockInv'
  <1> USE DEF PostPCs
  <1>0. /\ wpc \in [Workers -> WorkerPCs] /\ tpc \in [Threads -> ThreadPCs]
        /\ call \in [Workers -> Calls] /\ next \in InputStates /\ curr \in InputStates
    BY DEF SetupInv, TypeInv, TypeOK
  <1>d. /\ \A w \in Workers, t \in Threads : w # t
        /\ \A w \in Workers : w # NoOwner
        /\ \A t \in Threads : t # NoOwner
    BY ControllerAssumption DEF ControllerAssumption, Threads, Inits
  <1>1. ASSUME NEW w \in Workers, NEW s \in Inputs \cup {NoInput}, NEW l \in BOOLEAN, Call(w, s, l)
        PROVE LockInv'
    BY <1>0, <1>1 DEF LockInv, Call, Goto, hdlVars
  <1>2. ASSUME NEW w \in Workers, NEW s \in Inputs \cup {NoInput}, NEW l \in BOOLEAN, Begin(w, s, l)
        PROVE LockInv'
    BY <1>0, <1>2 DEF LockInv, Begin, Goto, hdlVars
  <1>3. ASSUME NEW w \in Workers, SetupStep(w) PROVE LockInv'
    <2>1. /\ wpc[w] \in SetupPCs /\ mutex' = mutex /\ \A v \in Workers \ {w} : wpc'[v] = wpc[v]
          /\ wpc'[w] \notin {"write", "flags"}
          /\ wpc'[w] \in PostPCs => initialized'
          /\ initialized => initialized'
      BY <1>0, <1>3 DEF SetupStep, Clear, Work, Create, FreeWork, Launch, CloseThread, Launched, Done, Goto,
                  SetupPCs
    <2>2. \A t \in Threads : tpc'[t] = "swap" => tpc[t] = "swap"
      BY <1>0, <1>3 DEF SetupStep, Clear, Work, Create, FreeWork, Launch, CloseThread, Launched, Step, hdlVars, Alive
    <2> QED BY <2>1, <2>2, SetupIsEarly DEF LockInv
  <1>4. ASSUME NEW w \in Workers, PostStep(w) PROVE LockInv'
    <2>1. /\ UNCHANGED <<initialized, tpc>> /\ \A v \in Workers \ {w} : wpc'[v] = wpc[v] /\ call'[v] = call[v]
      BY <1>0, <1>4 DEF PostStep, Lock, Write, Flags, Done, Goto, hdlVars
    <2>2. CASE Lock(w)
      BY <1>0, <1>d, <2>1, <2>2 DEF LockInv, Lock, Goto
    <2>3. CASE Write(w)
      <3>1. next'.state = call[w].state /\ mutex' = mutex /\ call' = call /\ wpc[w] = "write" /\ wpc'[w] = "flags"
        BY <1>0, <2>3 DEF Write, Goto, InputStates
      <3> QED BY <2>1, <3>1 DEF LockInv
    <2>4. CASE Flags(w)
      <3>1. wpc[w] = "flags" /\ wpc'[w] = "idle" /\ mutex' = NoOwner
        BY <1>0, <2>4 DEF Flags, Done, Goto
      <3> QED BY <1>d, <2>1, <3>1 DEF LockInv
    <2> QED BY <1>4, <2>2, <2>3, <2>4 DEF PostStep
  <1>5. ASSUME NEW t \in Threads, HdlsStep(t) PROVE LockInv'
    <2>1. /\ UNCHANGED <<initialized, wpc, call>> /\ \A u \in Threads \ {t} : tpc'[u] = tpc[u]
      BY <1>0, <1>5 DEF HdlsStep, Query, AttachOk, AttachRefused, SetOk, SetFails, LockHdl, Swap, Step
    <2>2. CASE Swap(t)
      <3>1. tpc[t] = "swap" /\ tpc'[t] = "query" /\ mutex' = NoOwner
        BY <1>0, <2>2 DEF Swap, Step
      <3> QED BY <1>d, <2>1, <3>1 DEF LockInv
    <2>3. CASE LockHdl(t)
      <3>1. tpc'[t] = "swap" /\ mutex = NoOwner /\ mutex' = t /\ next' = next
        BY <1>0, <2>3 DEF LockHdl, Step
      <3> QED BY <1>d, <2>1, <3>1 DEF LockInv
    <2>4. CASE Query(t) \/ AttachOk(t) \/ AttachRefused(t) \/ SetOk(t) \/ SetFails(t)
      <3>1. tpc'[t] # "swap" /\ mutex' = mutex /\ next' = next
        BY <1>0, <2>4 DEF Query, AttachOk, AttachRefused, SetOk, SetFails, Step
      <3> QED BY <2>1, <3>1 DEF LockInv
    <2> QED BY <1>5, <2>2, <2>3, <2>4 DEF HdlsStep
  <1>6. ASSUME UNCHANGED <<initialized, wpc, call, tpc, mutex, next>> PROVE LockInv'
    BY <1>6 DEF LockInv
  <1> QED BY <1>1, <1>2, <1>3, <1>4, <1>5, <1>6 DEF SysNext, Drop, sysVars, hdlVars

LEMMA IdleStep ==
  ASSUME ~TwoSetups', SetupInv, LockInv, IdleInv, [SysNext]_sysVars
  PROVE  IdleInv'
  <1> USE DEF IdleInv, Prepared
  <1>0. /\ wpc \in [Workers -> WorkerPCs] /\ tpc \in [Threads -> ThreadPCs]
        /\ next \in InputStates /\ curr \in InputStates
    BY DEF SetupInv, TypeInv, TypeOK
  <1>1. ASSUME NEW w \in Workers, NEW s \in Inputs \cup {NoInput}, NEW l \in BOOLEAN, Call(w, s, l)
        PROVE IdleInv'
    BY <1>0, <1>1 DEF Call, Goto
  <1>2. ASSUME NEW w \in Workers, NEW s \in Inputs \cup {NoInput}, NEW l \in BOOLEAN, Begin(w, s, l)
        PROVE IdleInv'
    <2>1. ~initialized' /\ wpc'[w] = "clear"
      BY <1>0, <1>2 DEF Begin, Goto
    <2>2. \A v \in Workers \ {w} : wpc'[v] \notin SetupPCs
      BY <2>1 DEF TwoSetups, SetupPCs
    <2> QED BY <2>1, <2>2 DEF SetupPCs
  <1>3. ASSUME NEW w \in Workers, SetupStep(w) PROVE IdleInv'
    <2>1. wpc[w] \in SetupPCs /\ \A v \in Workers \ {w} : wpc'[v] = wpc[v]
      BY <1>0, <1>3 DEF SetupStep, Clear, Work, Create, FreeWork, Launch, CloseThread, Launched, Done, Goto,
                  SetupPCs
    <2>2. ~initialized /\ \A v \in Workers \ {w} : wpc'[v] \notin SetupPCs \cup PostPCs
      BY <2>1, SetupIsEarly
    <2>3. CASE Clear(w)
      BY <1>0, <2>1, <2>2, <2>3 DEF Clear, Goto, Done, SetupPCs
    <2>4. CASE Work(w)
      <3>1. /\ wpc[w] = "work" /\ wpc'[w] \in {"create", "work_failed"} /\ ~initialized'
            /\ wpc'[w] = "create" => curr' = [Zeroed EXCEPT !.idle = TRUE] /\ next' = [Zeroed EXCEPT !.idle = TRUE]
        BY <1>0, <2>2, <2>4 DEF Work, Goto
      <3> QED BY <2>2, <3>1 DEF SetupPCs, Zeroed
    <2>5. CASE FreeWork(w) \/ CloseThread(w)
      <3>1. ~initialized' /\ wpc'[w] = "idle"
        BY <1>0, <2>2, <2>5 DEF FreeWork, CloseThread, Done, Goto
      <3> QED BY <2>2, <3>1 DEF SetupPCs
    <2>6. CASE Create(w) \/ Launch(w)
      <3>1. /\ wpc[w] \in {"create", "launch"} /\ wpc'[w] \in {"launch", "launched", "create_failed", "start_failed"}
            /\ ~initialized' /\ UNCHANGED <<curr, next>>
        BY <1>0, <2>2, <2>6 DEF Create, Launch, Goto
      <3>2. \A v \in Workers : wpc[v] # "flags"
        BY <2>1, SetupIsEarly DEF PostPCs
      <3> QED BY <2>2, <3>1, <3>2 DEF SetupPCs
    <2>7. CASE Launched(w)
      <3>1. wpc[w] = "launched" /\ wpc'[w] \in {"idle", "lock"} /\ UNCHANGED <<curr, next>>
        BY <1>0, <2>7 DEF Launched, Done, Goto
      <3>2. \A v \in Workers : wpc[v] # "flags"
        BY <2>1, SetupIsEarly DEF PostPCs
      <3> QED BY <2>2, <3>1, <3>2 DEF SetupPCs
    <2> QED BY <1>3, <2>3, <2>4, <2>5, <2>6, <2>7 DEF SetupStep
  <1>4. ASSUME NEW w \in Workers, PostStep(w) PROVE IdleInv'
    <2>1. /\ initialized /\ initialized' = initialized /\ curr' = curr
          /\ \A v \in Workers \ {w} : wpc'[v] = wpc[v]
          /\ wpc'[w] \in {"write", "flags", "idle"}
      BY <1>0, <1>4 DEF PostStep, Lock, Write, Flags, Done, Goto, LockInv, PostPCs
    <2>2. \A v \in Workers : wpc'[v] \notin SetupPCs
      BY <2>1 DEF SetupInv, NoSetupAfter, SetupPCs
    <2>3. CASE Lock(w)
      <3>1. next' = next /\ wpc[w] # "flags"
        BY <2>3 DEF Lock, Goto
      <3> QED BY <2>1, <2>2, <3>1 DEF SetupPCs
    <2>4. CASE Write(w)
      <3>1. wpc'[w] = "flags"
        BY <1>0, <2>4 DEF Write, Goto
      <3> QED BY <2>1, <2>2, <3>1 DEF SetupPCs
    <2>5. CASE Flags(w)
      <3>1. ~next'.idle
        BY <1>0, <2>5 DEF Flags, InputStates
      <3> QED BY <2>1, <2>2, <3>1 DEF SetupPCs
    <2> QED BY <1>4, <2>3, <2>4, <2>5 DEF PostStep
  <1>5. ASSUME NEW t \in Threads, Swap(t) PROVE IdleInv'
    <2>1. UNCHANGED <<initialized, wpc>> /\ tpc[t] = "swap" /\ mutex = t
      BY <1>5 DEF Swap, Step, LockInv
    <2>2. (initialized \/ Prepared) /\ \A w \in Workers : wpc[w] # "work"
      BY <2>1 DEF SetupInv, ThreadFollowsFlag, Alive, SetupAlone, NoSetupAfter, SetupPCs
    <2>3. \A w \in Workers : wpc[w] # "flags"
      BY <2>1, ControllerAssumption DEF LockInv, ControllerAssumption, Threads, Inits
    <2>4. CASE UNCHANGED <<curr, next>>
      BY <2>1, <2>2, <2>4
    <2>5. CASE Exchange
      <3>1. curr' = next /\ next'.idle /\ next'.state = Neutral
        BY <1>0, <2>5 DEF Exchange, InputStates
      <3> QED BY <2>1, <2>2, <2>3, <3>1
    <2> QED BY <1>5, <2>4, <2>5 DEF Swap
  <1>6. ASSUME UNCHANGED <<initialized, wpc, curr, next>> PROVE IdleInv'
    BY <1>6
  <1>7. ASSUME NEW t \in Threads, HdlsStep(t) PROVE IdleInv'
    <2>1. CASE Query(t) \/ AttachOk(t) \/ AttachRefused(t) \/ SetOk(t) \/ SetFails(t) \/ LockHdl(t)
      <3>1. UNCHANGED <<initialized, wpc, curr, next>>
        BY <2>1 DEF Query, AttachOk, AttachRefused, SetOk, SetFails, LockHdl
      <3> QED BY <1>6, <3>1
    <2> QED BY <1>5, <1>7, <2>1 DEF HdlsStep
  <1> QED BY <1>1, <1>2, <1>3, <1>4, <1>6, <1>7 DEF SysNext, Drop, sysVars

-----------------------------------------------------------------------------
(* Refinement *)

ViewInv == SetupInv /\ PadInv /\ LockInv /\ IdleInv
Offered == \E t \in Threads : tpc[t] \in {"lock", "swap"}

\* The four variables of VirtualPad, read from the state of the controller.
LEMMA HeldIs ==
  ViewInv => Held = IF initialized /\ ~curr.idle THEN Press(curr) ELSE Pad!Rest
  BY DEF ViewInv, SetupInv, NoSetupAfter, SetupPCs, Held, Ready, Pad!Rest

LEMMA WaitingIs ==
  ViewInv =>
    /\ \A w \in Workers : wpc[w] = "flags" => Waiting = Press(call[w])
    /\ (\A w \in Workers : wpc[w] # "flags") =>
         Waiting = IF initialized /\ ~next.idle THEN Press(next) ELSE Pad!Nothing
  <1> SUFFICES ASSUME ViewInv
               PROVE  /\ \A w \in Workers : wpc[w] = "flags" => Waiting = Press(call[w])
                      /\ (\A w \in Workers : wpc[w] # "flags") =>
                           Waiting = IF initialized /\ ~next.idle THEN Press(next) ELSE Pad!Nothing
    OBVIOUS
  <1>1. ASSUME NEW w \in Workers, wpc[w] = "flags"
        PROVE Waiting = Press(call[w])
    <2> DEFINE v == CHOOSE u \in Workers : wpc[u] = "flags"
    <2>1. v \in Workers /\ wpc[v] = "flags"
      BY <1>1
    <2>2. v = w
      BY <1>1, <2>1 DEF ViewInv, LockInv
    <2> QED BY <1>1, <2>2 DEF Waiting
  <1>2. (\A w \in Workers : wpc[w] # "flags") =>
          Waiting = IF initialized /\ ~next.idle THEN Press(next) ELSE Pad!Nothing
    BY DEF ViewInv, SetupInv, NoSetupAfter, SetupPCs, Waiting, Ready, Pad!Nothing
  <1> QED BY <1>1, <1>2

LEMMA ShownIs ==
  ViewInv =>
    /\ \A d \in Devices : On(d) => Shown = shown[d]
    /\ (\A d \in Devices : ~On(d)) => Shown = Off
  <1> SUFFICES ASSUME ViewInv, NEW d \in Devices, On(d)
               PROVE  Shown = shown[d]
    BY DEF Shown
  <1> DEFINE e == CHOOSE c \in Devices : On(c)
  <1>1. e \in Devices /\ On(e)
    OBVIOUS
  <1>2. e = d
    BY <1>1 DEF ViewInv, PadInv
  <1> QED BY <1>2 DEF Shown

LEMMA OfferedIs ==
  ViewInv =>
    /\ \A t \in Threads : tpc[t] \in Alive => (Offered <=> tpc[t] \in {"lock", "swap"})
    /\ (\A t \in Threads : tpc[t] \notin Alive) => ~Offered
  BY DEF ViewInv, SetupInv, ThreadFollowsFlag, Offered, Alive

\* The same in the next state.
LEMMA NextViews ==
  ASSUME ViewInv'
  PROVE  /\ Held' = IF initialized' /\ ~curr'.idle THEN Press(curr)' ELSE Pad!Rest
         /\ \A w \in Workers : wpc'[w] = "flags" => Waiting' = Press(call'[w])
         /\ (\A w \in Workers : wpc'[w] # "flags") =>
              Waiting' = IF initialized' /\ ~next'.idle THEN Press(next)' ELSE Pad!Nothing
         /\ \A d \in Devices : On(d)' => Shown' = shown'[d]
         /\ (\A d \in Devices : ~On(d)') => Shown' = Off
         /\ \A t \in Threads : tpc'[t] \in Alive => (Offered' <=> tpc'[t] \in {"lock", "swap"})
         /\ (\A t \in Threads : tpc'[t] \notin Alive) => ~Offered'
  <1>1. (ViewInv => Held = IF initialized /\ ~curr.idle THEN Press(curr) ELSE Pad!Rest)'
    BY HeldIs, PTL
  <1>2. (ViewInv =>
          /\ \A w \in Workers : wpc[w] = "flags" => Waiting = Press(call[w])
          /\ (\A w \in Workers : wpc[w] # "flags") =>
               Waiting = IF initialized /\ ~next.idle THEN Press(next) ELSE Pad!Nothing)'
    BY WaitingIs, PTL
  <1>3. (ViewInv =>
          /\ \A d \in Devices : On(d) => Shown = shown[d]
          /\ (\A d \in Devices : ~On(d)) => Shown = Off)'
    BY ShownIs, PTL
  <1>4. (ViewInv =>
          /\ \A t \in Threads : tpc[t] \in Alive => (Offered <=> tpc[t] \in {"lock", "swap"})
          /\ (\A t \in Threads : tpc[t] \notin Alive) => ~Offered)'
    BY OfferedIs, PTL
  <1> QED BY <1>1, <1>2, <1>3, <1>4 DEF Pad!Rest, Pad!Nothing, Press

\* A step that leaves the four as they are is a stutter of VirtualPad.
LEMMA PadStutter ==
  ASSUME Held' = Held, Waiting' = Waiting, Shown' = Shown, Offered' <=> Offered
  PROVE  UNCHANGED Pad!vars
  BY DEF Pad!vars, Offered

\* Before the initialisation is complete the user sees nothing at all.
LEMMA SetupRefines ==
  ASSUME ViewInv, ViewInv', NEW w \in Workers, SetupStep(w)
  PROVE  UNCHANGED Pad!vars
  <1>0. wpc \in [Workers -> WorkerPCs] /\ tpc \in [Threads -> ThreadPCs]
    BY DEF ViewInv, SetupInv, TypeInv, TypeOK
  <1>1. wpc[w] \in SetupPCs /\ \A v \in Workers \ {w} : wpc'[v] = wpc[v]
    BY <1>0 DEF SetupStep, Clear, Work, Create, FreeWork, Launch, CloseThread, Launched, Done, Goto, SetupPCs
  <1>2. /\ ~initialized /\ \A v \in Workers : wpc[v] # "flags"
        /\ wpc[w] # "launched" => \A t \in Threads : tpc[t] \notin Alive
    BY <1>1, SetupIsEarly DEF ViewInv, PostPCs
  <1>3. wpc'[w] # "flags"
    BY <1>0, <1>1 DEF SetupStep, Clear, Work, Create, FreeWork, Launch, CloseThread, Launched, Done, Goto
  <1>4. \A v \in Workers : wpc'[v] # "flags"
    BY <1>1, <1>2, <1>3
  <1>5. handle' = handle /\ shown' = shown
    BY DEF SetupStep, Clear, Work, Create, FreeWork, Launch, CloseThread, Launched, padVars
  <1>6. Shown' = Shown
    BY <1>5 DEF Shown, On
  <1>7. Held = Pad!Rest /\ Waiting = Pad!Nothing
    BY <1>2, HeldIs, WaitingIs
  <1>8. CASE Launched(w)
    <2>1. curr' = curr /\ next' = next /\ tpc' = tpc /\ wpc[w] = "launched"
      BY <1>8 DEF Launched, Done, Goto, hdlVars
    <2>2. curr.idle /\ next.idle
      BY <2>1 DEF ViewInv, IdleInv, Prepared
    <2>3. Held' = Pad!Rest /\ Waiting' = Pad!Nothing
      BY <1>4, <2>1, <2>2, NextViews
    <2>4. Offered' <=> Offered
      BY <2>1 DEF Offered
    <2> QED BY <1>6, <1>7, <2>3, <2>4, PadStutter
  <1>9. CASE ~Launched(w)
    <2>1. ~initialized' /\ wpc[w] # "launched"
      BY <1>2, <1>9 DEF SetupStep, Clear, Work, Create, FreeWork, Launch, CloseThread, Done, Goto
    <2>2. Held' = Pad!Rest /\ Waiting' = Pad!Nothing
      BY <1>4, <2>1, NextViews
    <2>3. \A t \in Threads : tpc'[t] \notin {"lock", "swap"}
      BY <1>0, <1>2, <1>9, <2>1 DEF SetupStep, Clear, Work, Create, FreeWork, Launch, CloseThread, Step, hdlVars, Alive
    <2>4. Offered' <=> Offered
      BY <1>2, <2>1, <2>3 DEF Offered, Alive
    <2> QED BY <1>6, <1>7, <2>2, <2>4, PadStutter
  <1> QED BY <1>8, <1>9

\* A post is Post when its input is written, and nothing before and after.
LEMMA PostRefines ==
  ASSUME ViewInv, ViewInv', NEW w \in Workers, PostStep(w)
  PROVE  [Pad!Next]_(Pad!vars)
  <1>0. /\ wpc \in [Workers -> WorkerPCs] /\ call \in [Workers -> Calls]
        /\ next \in InputStates /\ curr \in InputStates /\ PostsHaveInput
    BY DEF ViewInv, SetupInv, TypeInv, TypeOK
  <1>1. /\ UNCHANGED <<initialized, curr, tpc, handle, shown>>
        /\ \A v \in Workers \ {w} : wpc'[v] = wpc[v]
    BY <1>0 DEF PostStep, Lock, Write, Flags, Done, Goto, hdlVars, padVars
  <1>2. wpc[w] \in PostPCs /\ initialized
    BY DEF PostStep, Lock, Write, Flags, Done, Goto, ViewInv, LockInv, PostPCs
  <1>3. Shown' = Shown /\ (Offered' <=> Offered)
    BY <1>1 DEF Shown, On, Offered
  <1>4. Held' = Held
    BY <1>1, HeldIs, NextViews DEF Press
  <1>5. CASE Lock(w)
    <2>1. next' = next /\ wpc[w] # "flags" /\ wpc'[w] # "flags" /\ call' = call
      BY <1>0, <1>5 DEF Lock, Goto
    <2>2. Waiting' = Waiting
      <3>1. CASE \A v \in Workers : wpc[v] # "flags"
        BY <1>1, <2>1, <3>1, WaitingIs, NextViews DEF Press
      <3>2. CASE \E v \in Workers : wpc[v] = "flags"
        BY <1>1, <2>1, <3>2, WaitingIs, NextViews DEF Press
      <3> QED BY <3>1, <3>2
    <2> QED BY <1>3, <1>4, <2>2, PadStutter
  <1>6. CASE Write(w)
    <2>1. wpc'[w] = "flags" /\ call' = call /\ call[w].state \in Inputs /\ call[w].long \in BOOLEAN
      BY <1>0, <1>2, <1>6 DEF Write, Goto, PostsHaveInput, Calls
    <2>2. Waiting' = [state |-> call[w].state, long |-> call[w].long]
      BY <2>1, NextViews DEF Press
    <2>3. Pad!Post
      BY <1>3, <1>4, <2>1, <2>2 DEF Pad!Post, Pad!Presses, Offered
    <2> QED BY <2>3 DEF Pad!Next
  <1>7. CASE Flags(w)
    <2>1. wpc[w] = "flags" /\ wpc'[w] = "idle" /\ next' = [next EXCEPT !.idle = FALSE, !.long = call[w].long]
      BY <1>0, <1>7 DEF Flags, Done, Goto
    <2>2. \A v \in Workers : wpc'[v] # "flags"
      BY <1>1, <2>1 DEF ViewInv, LockInv
    <2>3. ~next'.idle /\ next'.long = call[w].long /\ next'.state = call[w].state
      BY <1>0, <2>1 DEF InputStates, ViewInv, LockInv
    <2>4. Waiting' = Waiting
      BY <1>1, <1>2, <2>1, <2>2, <2>3, WaitingIs, NextViews DEF Press
    <2> QED BY <1>3, <1>4, <2>4, PadStutter
  <1> QED BY <1>5, <1>6, <1>7 DEF PostStep

\* One turn of the HDLS thread is Plug, Offer and one of Take, Release and Keep.
LEMMA HdlsRefines ==
  ASSUME ViewInv, ViewInv', NEW t \in Threads, HdlsStep(t)
  PROVE  [Pad!Next]_(Pad!vars)
  <1>0. /\ wpc \in [Workers -> WorkerPCs] /\ tpc \in [Threads -> ThreadPCs]
        /\ shown \in [Devices -> Inputs \cup {Off}] /\ Off \notin Inputs /\ Neutral \in Inputs
        /\ next \in InputStates /\ curr \in InputStates
    BY ControllerAssumption DEF ViewInv, SetupInv, TypeInv, TypeOK, ControllerAssumption
  <1>1. /\ tpc[t] \in Alive /\ tpc'[t] \in Alive /\ UNCHANGED <<initialized, wpc, call>>
    BY <1>0 DEF HdlsStep, Query, AttachOk, AttachRefused, SetOk, SetFails, LockHdl, Swap, Step, Alive
  <1>2. /\ Offered <=> tpc[t] \in {"lock", "swap"}
        /\ Offered' <=> tpc'[t] \in {"lock", "swap"}
    BY <1>1, OfferedIs, NextViews
  <1>3. initialized \/ Prepared
    BY <1>1 DEF ViewInv, SetupInv, ThreadFollowsFlag, Prepared
  <1>4. /\ curr.idle => curr.state = Neutral
        /\ ~initialized => curr.idle /\ next.idle
    BY <1>3 DEF ViewInv, IdleInv
  <1>5. ASSUME UNCHANGED <<curr, next>> PROVE Held' = Held /\ Waiting' = Waiting
    <2>1. Held' = Held
      BY <1>1, <1>5, HeldIs, NextViews DEF Press
    <2>2. CASE \A v \in Workers : wpc[v] # "flags"
      BY <1>1, <1>5, <2>1, <2>2, WaitingIs, NextViews DEF Press
    <2>3. CASE \E v \in Workers : wpc[v] = "flags"
      BY <1>1, <2>1, <2>3, WaitingIs, NextViews DEF Press
    <2> QED BY <2>1, <2>2, <2>3
  <1>6. ASSUME UNCHANGED padVars PROVE Shown' = Shown
    BY <1>6 DEF padVars, Shown, On
  <1>7. Held.state = curr.state
    BY <1>4, HeldIs DEF Press, Pad!Rest
  <1>8. CASE Query(t) \/ AttachRefused(t) \/ LockHdl(t)
    <2>1. UNCHANGED <<curr, next>> /\ UNCHANGED padVars
      BY <1>8 DEF Query, AttachRefused, LockHdl
    <2>2. tpc[t] \in {"lock", "swap"} <=> tpc'[t] \in {"lock", "swap"}
      BY <1>0, <1>8 DEF Query, AttachRefused, LockHdl, Step
    <2> QED BY <1>2, <1>5, <1>6, <2>1, <2>2, PadStutter
  <1>9. CASE AttachOk(t)
    <2>1. UNCHANGED <<curr, next>> /\ tpc[t] = "attach" /\ tpc'[t] = "set"
      BY <1>0, <1>9 DEF AttachOk, Step
    <2>2. Shown = Off
      BY <2>1, ShownIs DEF ViewInv, PadInv
    <2>3. PICK d \in Devices : shown' = [shown EXCEPT ![d] = Neutral]
      BY <1>9 DEF AttachOk
    <2>4. Shown' = Neutral
      BY <1>0, <2>3, NextViews DEF On
    <2>5. Pad!Plug
      BY <1>2, <1>5, <2>1, <2>2, <2>4 DEF Pad!Plug, Offered
    <2> QED BY <2>5 DEF Pad!Next
  <1>10. CASE SetOk(t) \/ SetFails(t)
    <2>1. UNCHANGED <<curr, next>> /\ tpc[t] = "set" /\ tpc'[t] = "lock"
      BY <1>0, <1>10 DEF SetOk, SetFails, Step
    <2>2. Shown' \in {Held.state, Shown}
      <3>1. CASE SetOk(t)
        <4>1. /\ handle \in Devices /\ shown[handle] # Off
              /\ shown' = [shown EXCEPT ![handle] = curr.state] /\ curr.state \in Inputs
          BY <1>0, <3>1 DEF SetOk, On, InputStates
        <4>2. Shown' = curr.state
          BY <1>0, <4>1, NextViews DEF On
        <4> QED BY <1>7, <4>2
      <3>2. CASE SetFails(t)
        BY <1>6, <3>2 DEF SetFails
      <3> QED BY <1>10, <3>1, <3>2
    <2>3. Pad!Offer
      BY <1>2, <1>5, <2>1, <2>2 DEF Pad!Offer, Offered
    <2> QED BY <2>3 DEF Pad!Next
  <1>11. CASE Swap(t)
    <2>1. tpc[t] = "swap" /\ tpc'[t] = "query" /\ mutex = t /\ UNCHANGED padVars
      BY <1>0, <1>11 DEF Swap, Step, ViewInv, LockInv
    <2>2. \A v \in Workers : wpc[v] # "flags" /\ wpc'[v] # "flags"
      BY <1>1, <2>1, ControllerAssumption DEF ViewInv, LockInv, ControllerAssumption, Threads, Inits
    <2>3. Offered /\ ~Offered' /\ Shown' = Shown
      BY <1>2, <1>6, <2>1
    <2>4. Waiting = IF initialized /\ ~next.idle THEN Press(next) ELSE Pad!Nothing
      BY <2>2, WaitingIs
    <2>5. Waiting' = IF initialized /\ ~next'.idle THEN Press(next)' ELSE Pad!Nothing
      BY <1>1, <2>2, NextViews
    <2>6. CASE initialized /\ ~next.idle
      <3>1. curr' = next /\ next'.idle
        BY <1>0, <1>11, <2>6 DEF Swap, Exchange, InputStates
      <3>2. Waiting = Press(next) /\ Waiting # Pad!Nothing
        BY <1>0, <2>4, <2>6 DEF Press, Pad!Nothing, InputStates
      <3>3. Held' = Waiting /\ Waiting' = Pad!Nothing
        BY <1>1, <2>5, <2>6, <3>1, <3>2, NextViews DEF Press
      <3>4. Pad!Take
        BY <2>3, <3>2, <3>3 DEF Pad!Take, Offered
      <3> QED BY <3>4 DEF Pad!Next
    <2>7. CASE ~(initialized /\ ~next.idle)
      <3>1. Waiting = Pad!Nothing /\ next.idle
        BY <1>4, <2>4, <2>7
      <3>2. CASE initialized /\ ~curr.idle /\ curr.long
        <4>1. curr' = curr /\ next' = next
          BY <1>11, <3>1, <3>2 DEF Swap
        <4>2. Held.long
          BY <3>2, HeldIs DEF Press
        <4>3. Pad!Keep
          BY <1>5, <2>3, <3>1, <4>1, <4>2 DEF Pad!Keep, Offered
        <4> QED BY <4>3 DEF Pad!Next
      <3>3. CASE ~(initialized /\ ~curr.idle /\ curr.long)
        <4>1. ~Held.long
          BY <1>0, <3>3, HeldIs DEF Press, Pad!Rest, InputStates
        <4>2. ~initialized \/ curr'.idle
          BY <1>11, <3>1, <3>3 DEF Swap, Exchange
        <4>3. Held' = Pad!Rest
          BY <1>1, <4>2, NextViews
        <4>4. initialized => next'.idle
          BY <1>0, <1>11, <3>1 DEF Swap, Exchange, InputStates
        <4>5. Waiting' = Pad!Nothing
          BY <2>5, <4>4
        <4>6. Pad!Release
          BY <2>3, <3>1, <4>1, <4>3, <4>5 DEF Pad!Release, Offered
        <4> QED BY <4>6 DEF Pad!Next
      <3> QED BY <3>2, <3>3
    <2> QED BY <2>6, <2>7
  <1> QED BY <1>8, <1>9, <1>10, <1>11 DEF HdlsStep

\* A call that arrives shows nothing, and a pad that drops is unplugged.
LEMMA PadRefines ==
  ASSUME ViewInv, ViewInv', [SysNext]_sysVars
  PROVE  [Pad!Next]_(Pad!vars)
  <1>0. wpc \in [Workers -> WorkerPCs] /\ shown \in [Devices -> Inputs \cup {Off}]
    BY DEF ViewInv, SetupInv, TypeInv, TypeOK
  <1>1. ASSUME NEW w \in Workers, NEW s \in Inputs \cup {NoInput}, NEW l \in BOOLEAN,
               Call(w, s, l) \/ Begin(w, s, l)
        PROVE UNCHANGED Pad!vars
    <2>1. /\ \A v \in Workers \ {w} : wpc'[v] = wpc[v] /\ call'[v] = call[v]
          /\ wpc[w] = "idle" /\ wpc'[w] # "flags" /\ UNCHANGED <<initialized, tpc, shown>>
      BY <1>0, <1>1 DEF Call, Begin, Goto, ViewInv, SetupInv, TypeInv, TypeOK, hdlVars, padVars
    <2>2. Shown' = Shown /\ (Offered' <=> Offered)
      BY <2>1 DEF Shown, On, Offered
    <2>3. ~initialized \/ UNCHANGED <<curr, next>>
      BY <1>1 DEF Call, Begin
    <2>4. Held' = Held
      BY <2>1, <2>3, HeldIs, NextViews DEF Press
    <2>5. Waiting' = Waiting
      <3>1. CASE \A v \in Workers : wpc[v] # "flags"
        BY <2>1, <2>3, <3>1, WaitingIs, NextViews DEF Press
      <3>2. CASE \E v \in Workers : wpc[v] = "flags"
        BY <2>1, <3>2, WaitingIs, NextViews DEF Press
      <3> QED BY <3>1, <3>2
    <2> QED BY <2>2, <2>4, <2>5, PadStutter
  <1>2. ASSUME NEW d \in Devices, Drop(d) PROVE Pad!Unplug
    <2>1. Held' = Held /\ Waiting' = Waiting /\ (Offered' <=> Offered)
      BY <1>2 DEF Drop, Held, Waiting, Ready, Press, Offered, hdlVars
    <2>2. \A c \in Devices : ~On(c)'
      BY <1>0, <1>2 DEF Drop, On, ViewInv, PadInv
    <2>3. Shown' = Off
      BY <2>2, NextViews
    <2> QED BY <2>1, <2>3 DEF Pad!Unplug, Offered
  <1>3. ASSUME UNCHANGED sysVars PROVE UNCHANGED Pad!vars
    BY <1>3 DEF sysVars, hdlVars, padVars, Pad!vars, Held, Waiting, Shown, Ready, Press, On
  <1> QED BY <1>1, <1>2, <1>3, SetupRefines, PostRefines, HdlsRefines DEF SysNext, Pad!Next

\* The tool implements VirtualPad until two initialisations overlap or an
\* unanswered question hides the pad: no press is torn, played twice, skipped
\* without having been offered, or dropped while there is no pad to play it on.
THEOREM ControllerPlaysLikeAPad == Spec => PlaysLikeAPad
  <1> DEFINE Inv == Unmisled /\ (~raced /\ ~misled => LockInv /\ IdleInv)
  <1>1. Init => Inv
    BY UnmisledInit DEF Init, LockInv, PostPCs, IdleInv, Prepared
  <1>2. ASSUME Inv, [Next]_vars, ~raced', ~misled' PROVE ViewInv /\ ViewInv' /\ [SysNext]_sysVars
    <2>1. SetupInv /\ SetupInv' /\ ~raced /\ ~TwoSetups' /\ [SysNext]_sysVars
      BY <1>2, SetupInvStep, UnracedStep, SystemStep DEF Unmisled, Unraced
    <2>2. ~misled /\ ~Misleads
      BY <1>2, UnmisledStep
    <2>3. PadInv /\ LockInv /\ IdleInv
      BY <1>2, <2>1, <2>2 DEF Unmisled
    <2> QED BY <2>1, <2>2, <2>3, PadStep, LockStep, IdleStep DEF ViewInv
  <1>3. Inv /\ [Next]_vars => Inv'
    BY <1>2, UnmisledKept DEF ViewInv
  <1>4. Init => Pad!Init
    BY DEF Init, Pad!Init, Held, Waiting, Shown, Ready, On, Pad!Rest, Pad!Nothing
  <1>5. Inv /\ [Next]_vars => [raced' \/ misled' \/ Pad!Next]_(Pad!vars)
    BY <1>2, PadRefines
  <1> QED BY <1>1, <1>3, <1>4, <1>5, PTL DEF Spec, PlaysLikeAPad
=============================================================================
