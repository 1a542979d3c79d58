----------------------------- MODULE Controller -----------------------------
(***************************************************************************)
(* The controller tool (source/tools/controller.c): the HTTP workers that  *)
(* post inputs, the first of which sets everything up, the HDLS thread     *)
(* that plays them on a virtual pad, and the hid system, which may refuse  *)
(* any call and drop the pad at any time.                                  *)
(*                                                                         *)
(* A step ends at a kernel call (IPC, thread call, log line, contended     *)
(* mutex) or inside a critical section.  inputStateCurr and inputStateNext *)
(* are only ever exchanged or replaced together and never kept across a    *)
(* step, so that curr and next stand for the states they point to.  Stick  *)
(* and sensor values are part of an opaque input; the two small mallocs    *)
(* are taken to succeed (the code does not look).                          *)
(***************************************************************************)
EXTENDS Integers, FiniteSets

CONSTANTS
  Workers,       \* HTTP worker threads
  Devices,       \* virtual pads the console has room for
  NoDevice,      \* hdlHandle zeroed
  NoOwner,       \* the mutex is free
  Inputs,        \* a full HdlsState
  Neutral,       \* the zeroed HdlsState with battery_level 4
  NoInput,       \* a call without any field of the schema
  Off,           \* a device that is not attached
  Failures,      \* what can fail: see AllFailures
  MaxInits       \* bound on the calls of controllerInitialize

AllFailures == {"alloc", "work", "create", "start", "query", "attach", "set"}

ASSUME ControllerAssumption ==
  /\ NoDevice \notin Devices
  /\ Neutral \in Inputs /\ NoInput \notin Inputs /\ Off \notin Inputs
  /\ Failures \subseteq AllFailures
  /\ MaxInits \in Nat
  /\ Workers \cap Nat = {} /\ NoOwner \notin Workers \cup Nat

Inits   == 1 .. MaxInits              \* the k-th initialisation owns the
Threads == Inits                      \* k-th thread and the k-th work buffer
InputStates == [state : Inputs, idle : BOOLEAN, long : BOOLEAN]
Zeroed  == [state |-> Neutral, idle |-> FALSE, long |-> FALSE]

VARIABLES
  initialized,  \* initialized
  inits,        \* calls of controllerInitialize so far
  curr, next,   \* *inputStateCurr, *inputStateNext
  workmem,      \* workmem: the initialisation that allocated it, 0 for NULL
  freed,        \* work buffers given back to the heap
  lent,         \* work buffers the hid system has mapped
  handle,       \* hdlHandle
  thread,       \* hdlThread, 0 before the first threadCreate
  mutex,        \* holder of hdlStateMutex
  wpc, call,    \* where each worker is; its arguments and its initialisation
  tpc, attached,\* where each HDLS thread is; its local isAttached
  shown,        \* what each virtual pad shows on the console
  raced,        \* history: two workers have been inside controllerInitialize
  misled        \* history: an unanswered question has hidden a pad that is there

heapVars == <<workmem, freed, lent>>
padVars  == <<handle, shown>>
hdlVars  == <<tpc, attached>>
sysVars == <<initialized, inits, curr, next, heapVars, thread, mutex, wpc, call, hdlVars, padVars>>
vars == <<sysVars, raced, misled>>

SetupPCs  == {"clear", "work", "create", "launch", "launched", "work_failed",
              "create_failed", "start_failed"}
WorkerPCs == {"idle", "lock", "write", "flags"} \cup SetupPCs
Alive     == {"query", "attach", "set", "lock", "swap"}
ThreadPCs == {"none", "created", "closed", "faulted"} \cup Alive

Calls == [state : Inputs \cup {NoInput}, long : BOOLEAN, init : 0 .. MaxInits]
NoCall == [state |-> NoInput, long |-> FALSE, init |-> 0]

Init ==
  /\ initialized = FALSE /\ inits = 0
  /\ curr = Zeroed /\ next = Zeroed
  /\ workmem = 0 /\ freed = {} /\ lent = {}
  /\ handle = NoDevice /\ thread = 0 /\ mutex = NoOwner
  /\ wpc = [w \in Workers |-> "idle"] /\ call = [w \in Workers |-> NoCall]
  /\ tpc = [t \in Threads |-> "none"] /\ attached = [t \in Threads |-> FALSE]
  /\ shown = [d \in Devices |-> Off]
  /\ raced = FALSE /\ misled = FALSE

Goto(w, from, to) == wpc[w] = from /\ wpc' = [wpc EXCEPT ![w] = to]
Done(w, from) == Goto(w, from, "idle") /\ call' = [call EXCEPT ![w] = NoCall]
Step(t, from, to) == tpc[t] = from /\ tpc' = [tpc EXCEPT ![t] = to]
Fails(what) == what \in Failures

-----------------------------------------------------------------------------
(* call_controller and controllerInitialize *)

\* A call on a running controller; without a field it is refused.
Call(w, s, l) ==
  /\ initialized /\ s \in Inputs
  /\ Goto(w, "idle", "lock")
  /\ call' = [call EXCEPT ![w] = [state |-> s, long |-> l, init |-> 0]]
  /\ UNCHANGED <<initialized, inits, curr, next, heapVars, thread, mutex, hdlVars, padVars>>

\* A call that finds initialized = 0.  The new states hold what the heap held.
Begin(w, s, l) ==
  /\ ~initialized /\ inits < MaxInits
  /\ Goto(w, "idle", "clear")
  /\ inits' = inits + 1
  /\ call' = [call EXCEPT ![w] = [state |-> s, long |-> l, init |-> inits + 1]]
  /\ handle' = NoDevice
  /\ curr' \in InputStates /\ next' \in InputStates
  /\ UNCHANGED <<initialized, heapVars, thread, mutex, hdlVars, shown>>

Clear(w) ==
  /\ curr' = Zeroed /\ next' = Zeroed
  /\ \/ /\ Goto(w, "clear", "work")
        /\ workmem' = call[w].init
        /\ UNCHANGED call
     \/ /\ Fails("alloc") /\ Done(w, "clear")
        /\ workmem' = 0
  /\ UNCHANGED <<initialized, inits, freed, lent, thread, mutex, hdlVars, padVars>>

\* hiddbgAttachHdlsWorkBuffer, then the defaults of both states.
Work(w) ==
  /\ \/ /\ workmem # 0
        /\ Goto(w, "work", "create")
        /\ lent' = lent \cup {workmem}
        /\ curr' = [curr EXCEPT !.idle = TRUE] /\ next' = [next EXCEPT !.idle = TRUE]
     \/ /\ workmem = 0 \/ Fails("work")
        /\ Goto(w, "work", "work_failed")
        /\ UNCHANGED <<lent, curr, next>>
  /\ UNCHANGED <<initialized, inits, workmem, freed, thread, mutex, call, hdlVars, padVars>>

Create(w) ==
  /\ \/ /\ Goto(w, "create", "launch")
        /\ thread' = call[w].init
        /\ tpc' = [tpc EXCEPT ![thread'] = "created"]
     \/ /\ Fails("create") /\ Goto(w, "create", "create_failed")
        /\ UNCHANGED <<thread, tpc>>
  /\ UNCHANGED <<initialized, inits, curr, next, heapVars, mutex, call, attached, padVars>>

\* Both failures free workmem, whichever initialisation allocated it.
FreeWork(w) ==
  /\ Done(w, "work_failed") \/ Done(w, "create_failed")
  /\ freed' = freed \cup ({workmem} \ {0})
  /\ workmem' = 0
  /\ UNCHANGED <<initialized, inits, curr, next, lent, thread, mutex, hdlVars, padVars>>

\* threadStart refuses a thread that is not newly created.
Launch(w) ==
  /\ \/ /\ Goto(w, "launch", "launched") /\ Step(thread, "created", "query")
     \/ /\ Goto(w, "launch", "start_failed")
        /\ Fails("start") \/ tpc[thread] # "created"
        /\ UNCHANGED tpc
  /\ UNCHANGED <<initialized, inits, curr, next, heapVars, thread, mutex, call, attached, padVars>>

\* Mutant: the failed start cleans up like the failed create above it.
CloseAndFree(w) ==
  /\ Done(w, "start_failed")
  /\ tpc' = [tpc EXCEPT ![thread] = IF @ \in Alive THEN "faulted" ELSE "closed"]
  /\ freed' = freed \cup ({workmem} \ {0})
  /\ workmem' = 0
  /\ UNCHANGED <<initialized, inits, curr, next, lent, thread, mutex, attached, padVars>>

\* threadClose unmaps the stack, under a thread that runs too.
CloseThread(w) ==
  /\ Done(w, "start_failed")
  /\ tpc' = [tpc EXCEPT ![thread] = IF @ \in Alive THEN "faulted" ELSE "closed"]
  /\ UNCHANGED <<initialized, inits, curr, next, heapVars, thread, mutex, attached, padVars>>

\* Mutant: initialized is never set.
LaunchedSilently(w) ==
  /\ IF call[w].state = NoInput THEN Done(w, "launched")
                                ELSE Goto(w, "launched", "lock") /\ UNCHANGED call
  /\ UNCHANGED <<initialized, inits, curr, next, heapVars, thread, mutex, hdlVars, padVars>>

\* The call goes on to its own input when it has one.
Launched(w) ==
  /\ initialized' = TRUE
  /\ IF call[w].state = NoInput THEN Done(w, "launched")
                                ELSE Goto(w, "launched", "lock") /\ UNCHANGED call
  /\ UNCHANGED <<inits, curr, next, heapVars, thread, mutex, hdlVars, padVars>>

-----------------------------------------------------------------------------
(* update_hdls_state *)

\* Mutant: the update does not take the mutex.
LockUnchecked(w) ==
  /\ Goto(w, "lock", "write")
  /\ UNCHANGED <<initialized, inits, curr, next, heapVars, thread, mutex, call, hdlVars, padVars>>

Lock(w) ==
  /\ Goto(w, "lock", "write")
  /\ mutex = NoOwner /\ mutex' = w
  /\ UNCHANGED <<initialized, inits, curr, next, heapVars, thread, call, hdlVars, padVars>>

Write(w) ==
  /\ Goto(w, "write", "flags")
  /\ next' = [next EXCEPT !.state = call[w].state]
  /\ UNCHANGED <<initialized, inits, curr, heapVars, thread, mutex, call, hdlVars, padVars>>

Flags(w) ==
  /\ Done(w, "flags")
  /\ next' = [next EXCEPT !.idle = FALSE, !.long = call[w].long]
  /\ mutex' = NoOwner
  /\ UNCHANGED <<initialized, inits, curr, heapVars, thread, hdlVars, padVars>>

-----------------------------------------------------------------------------
(* hdls_state_thread *)

On(d) == d \in Devices /\ shown[d] # Off

\* hiddbgIsHdlsVirtualDeviceAttached; when it fails, isAttached keeps its value.
Query(t) ==
  /\ \/ attached' = [attached EXCEPT ![t] = On(handle)]
     \/ Fails("query") /\ UNCHANGED attached
  /\ Step(t, "query", IF attached'[t] THEN "set" ELSE "attach")
  /\ UNCHANGED <<initialized, inits, curr, next, heapVars, thread, mutex, wpc, call, padVars>>

AttachOk(t) ==
  /\ Step(t, "attach", "set")
  /\ \E d \in Devices :
       /\ ~On(d)
       /\ handle' = d
       /\ shown' = [shown EXCEPT ![d] = Neutral]
  /\ UNCHANGED <<initialized, inits, curr, next, heapVars, thread, mutex, wpc, call, attached>>

\* The thread sleeps for a second and asks again.
AttachRefused(t) ==
  /\ Fails("attach") \/ \A d \in Devices : On(d)
  /\ Step(t, "attach", "query")
  /\ UNCHANGED <<initialized, inits, curr, next, heapVars, thread, mutex, wpc, call, attached, padVars>>

\* Mutant: an idle state is not sent.
SetPressesOnly(t) ==
  /\ Step(t, "set", "lock")
  /\ On(handle)
  /\ shown' = IF curr.idle THEN shown ELSE [shown EXCEPT ![handle] = curr.state]
  /\ attached' = [attached EXCEPT ![t] = TRUE]
  /\ UNCHANGED <<initialized, inits, curr, next, heapVars, thread, mutex, wpc, call, handle>>

SetOk(t) ==
  /\ Step(t, "set", "lock")
  /\ On(handle)
  /\ shown' = [shown EXCEPT ![handle] = curr.state]
  /\ attached' = [attached EXCEPT ![t] = TRUE]
  /\ UNCHANGED <<initialized, inits, curr, next, heapVars, thread, mutex, wpc, call, handle>>

\* Mutant: a failed set attaches a new pad at once, without asking for the old one.
SetReattaches(t) ==
  /\ Step(t, "set", "attach")
  /\ Fails("set") \/ ~On(handle)
  /\ attached' = [attached EXCEPT ![t] = FALSE]
  /\ UNCHANGED <<initialized, inits, curr, next, heapVars, thread, mutex, wpc, call, padVars>>

SetFails(t) ==
  /\ Step(t, "set", "lock")
  /\ Fails("set") \/ ~On(handle)
  /\ attached' = [attached EXCEPT ![t] = FALSE]
  /\ UNCHANGED <<initialized, inits, curr, next, heapVars, thread, mutex, wpc, call, padVars>>

LockHdl(t) ==
  /\ Step(t, "lock", "swap")
  /\ mutex = NoOwner /\ mutex' = t
  /\ UNCHANGED <<initialized, inits, curr, next, heapVars, thread, wpc, call, attached, padVars>>

Exchange == curr' = next /\ next' = [curr EXCEPT !.state = Neutral, !.idle = TRUE]

\* Mutant: the long_press flag is not looked at.
SwapAlways(t) ==
  /\ Step(t, "swap", "query")
  /\ Exchange
  /\ mutex' = NoOwner
  /\ UNCHANGED <<initialized, inits, heapVars, thread, wpc, call, attached, padVars>>

\* Mutant: a long press stays whether or not there is a new input.
SwapHolding(t) ==
  /\ Step(t, "swap", "query")
  /\ IF curr.long THEN UNCHANGED <<curr, next>> ELSE Exchange
  /\ mutex' = NoOwner
  /\ UNCHANGED <<initialized, inits, heapVars, thread, wpc, call, attached, padVars>>

\* A long press without a new input stays; otherwise the played state is reset,
\* its long_press flag excepted, and the two states change places.
Swap(t) ==
  /\ Step(t, "swap", "query")
  /\ IF curr.long /\ next.idle THEN UNCHANGED <<curr, next>> ELSE Exchange
  /\ mutex' = NoOwner
  /\ UNCHANGED <<initialized, inits, heapVars, thread, wpc, call, attached, padVars>>

\* Outside the program: the console drops a pad, when it sleeps or re-pairs.
Drop(d) ==
  /\ On(d)
  /\ shown' = [shown EXCEPT ![d] = Off]
  /\ UNCHANGED <<initialized, inits, curr, next, heapVars, thread, mutex, wpc, call, hdlVars, handle>>

-----------------------------------------------------------------------------

SetupStep(w) ==
  \/ Clear(w) \/ Work(w) \/ Create(w) \/ FreeWork(w)
  \/ Launch(w) \/ CloseThread(w) \/ Launched(w)

PostStep(w) == Lock(w) \/ Write(w) \/ Flags(w)

HdlsStep(t) ==
  \/ Query(t) \/ AttachOk(t) \/ AttachRefused(t) \/ SetOk(t) \/ SetFails(t)
  \/ LockHdl(t) \/ Swap(t)

SysNext ==
  \/ \E w \in Workers, s \in Inputs \cup {NoInput}, l \in BOOLEAN : Call(w, s, l) \/ Begin(w, s, l)
  \/ \E w \in Workers : SetupStep(w) \/ PostStep(w)
  \/ \E t \in Threads : HdlsStep(t)
  \/ \E d \in Devices : Drop(d)

\* What nothing in the code prevents and the history variables remember: two
\* first calls at once, since initialized is tested long before it is set, and
\* an answer that never came taken for "no pad", since it is not looked at.
TwoSetups == \E v, w \in Workers : v # w /\ wpc[v] \in SetupPCs /\ wpc[w] \in SetupPCs
Misleads  == \E t \in Threads : tpc[t] = "query" /\ tpc'[t] = "attach" /\ On(handle)

Next ==
  /\ SysNext
  /\ raced' = (raced \/ TwoSetups')
  /\ misled' = (misled \/ Misleads)

Spec == Init /\ [][Next]_vars

\* The query gets an answer.
Answered(t) == Query(t) /\ attached' = [attached EXCEPT ![t] = On(handle)]

\* Every thread keeps being scheduled and gets the mutex it waits for; the hid
\* system does not refuse for ever what it is asked again and again.
Fairness ==
  /\ \A w \in Workers : WF_sysVars(SetupStep(w) \/ PostStep(w)) /\ SF_sysVars(Lock(w))
  /\ \A t \in Threads : WF_sysVars(HdlsStep(t)) /\ SF_sysVars(LockHdl(t))
  /\ SF_sysVars(\E t \in Threads : Answered(t))
  /\ SF_sysVars(\E t \in Threads : AttachOk(t))
  /\ SF_sysVars(\E t \in Threads : SetOk(t))

FairSpec == Spec /\ Fairness

-----------------------------------------------------------------------------
(* Properties *)

TypeOK ==
  /\ initialized \in BOOLEAN /\ inits \in 0 .. MaxInits
  /\ curr \in InputStates /\ next \in InputStates
  /\ workmem \in 0 .. MaxInits /\ freed \subseteq Inits /\ lent \subseteq Inits
  /\ handle \in Devices \cup {NoDevice}
  /\ thread \in 0 .. MaxInits
  /\ mutex \in Workers \cup Threads \cup {NoOwner}
  /\ wpc \in [Workers -> WorkerPCs] /\ call \in [Workers -> Calls]
  /\ tpc \in [Threads -> ThreadPCs] /\ attached \in [Threads -> BOOLEAN]
  /\ shown \in [Devices -> Inputs \cup {Off}]
  /\ raced \in BOOLEAN /\ misled \in BOOLEAN

\* One HDLS thread plays the inputs, through every failed and repeated
\* initialisation: two would fight over curr, next and the pad.  It takes two
\* workers inside controllerInitialize at once (line 120) to start a second.
OneHdlsThread ==
  ~raced => \A s, t \in Threads : tpc[s] \in Alive /\ tpc[t] \in Alive => s = t

\* However often the console drops it, the tool never leaves a second pad
\* behind, which nobody would update any more, unless two workers initialised
\* at once or the question of line 245 got no answer while a pad was there.
OneVirtualPad ==
  ~raced /\ ~misled => \A c, d \in Devices : On(c) /\ On(d) => c = d

\* The heap gets back a work buffer that the hid system has mapped in one way
\* only, a failed threadCreate (line 321), and then the buffer of the very
\* initialisation that failed, as long as initialisations do not overlap.
WorkBufferHeld ==
  [][raced' \/ \A b \in lent \cap (freed' \ freed) :
                  \E w \in Workers : wpc[w] = "create_failed" /\ call[w].init = b]_vars

\* The press that is played and the press that waits, as a user sees them: a
\* state that is idle is no press whatever its long_press flag still says, and
\* a post counts from its first write.
Ready == initialized /\ \A w \in Workers : wpc[w] # "clear"
Press(is) == [state |-> is.state, long |-> is.long]
Held == IF Ready /\ ~curr.idle THEN Press(curr) ELSE [state |-> Neutral, long |-> FALSE]
Waiting ==
  IF \E w \in Workers : wpc[w] = "flags"
    THEN Press(call[CHOOSE w \in Workers : wpc[w] = "flags"])
    ELSE IF Ready /\ ~next.idle THEN Press(next) ELSE [state |-> Off, long |-> FALSE]
Shown == IF \E d \in Devices : On(d) THEN shown[CHOOSE d \in Devices : On(d)] ELSE Off

Pad == INSTANCE VirtualPad WITH
  held <- Held, waiting <- Waiting, shown <- Shown,
  offered <- \E t \in Threads : tpc[t] \in {"lock", "swap"}

\* The tool implements VirtualPad: no press is torn, played twice, skipped
\* without having been offered, or dropped while there is no pad to play it on,
\* until two initialisations overlap or an unanswered question hides the pad.
PlaysLikeAPad == Pad!Init /\ [][raced' \/ misled' \/ Pad!Next]_(Pad!vars)

\* A long press is played until another input is posted, whatever fails.
KeepsLong == Held.long /\ Waiting = Pad!Nothing => Held' = Held

\* "long press will not auto reset the value" (line 99), when initialisations do
\* not overlap.
LongPressStays == [][raced' \/ KeepsLong]_vars

\* Every posted input is taken in the end, a long press notwithstanding.
PostsAreTaken == Waiting # Pad!Nothing ~> Waiting = Pad!Nothing

\* Buttons do not stick: once the clients are quiet, the console shows either a
\* long press somebody asked for, or nothing pressed.
NothingSticks ==
  <>[](\A w \in Workers : wpc[w] = "idle") => <>[](Held.long \/ Shown \in {Neutral, Off})
=============================================================================
