------------------------------ MODULE Recorder ------------------------------
(***************************************************************************)
(* The controller_recorder tool (source/tools/controller_recorder.c): the  *)
(* HTTP workers that execute its actions, the polling thread that samples  *)
(* the physical pad, and the state they share under g_recorderMutex.       *)
(*                                                                         *)
(* A step is one access to shared state, one kernel call, or one critical  *)
(* section after its lock has been taken.  libnx's Mutex is not recursive, *)
(* and threadWaitForExit and threadClose read g_real_thread when called.   *)
(* A local variable returns to its initial value where the code is done    *)
(* with it, so that dead values do not multiply states.                    *)
(***************************************************************************)
EXTENDS Integers, Sequences, FiniteSets

CONSTANTS
  Workers,          \* HTTP worker threads that may call the tool
  Threads,          \* identities the kernel can give to polling threads
  NoThread,         \* g_real_thread.handle = 0
  NoOwner,          \* the mutex is free
  Actions,          \* the tool actions the clients use
  Preallocs,        \* the max_events numbers the clients send with "start"
  Buttons, Sticks,  \* what a sample can hold: a button mask, a stick axis
  StickThreshold,   \* TH, the jitter filter
  InitialCapacity,  \* 256 in ensure_capacity
  EventSize,        \* sizeof(RecordedEvent)
  SizeLimit,        \* size_t counts modulo this power of two
  HeapBytes         \* most bytes the process heap can give to g_events

AllActions == {"start", "stop", "clear", "dump", "save"}

ASSUME RecorderAssumption ==
  /\ NoThread \notin Threads
  /\ Workers \cap Threads = {}
  /\ NoOwner \notin Workers \cup Threads
  /\ Actions \subseteq AllActions
  /\ Preallocs \subseteq Int
  /\ 0 \in Buttons
  /\ 0 \in Sticks /\ Sticks \subseteq Int
  /\ StickThreshold \in Nat
  /\ InitialCapacity \in Nat \ {0}
  /\ EventSize \in Nat \ {0}
  /\ SizeLimit \in Nat
  /\ HeapBytes \in Nat
  /\ 2 * HeapBytes < SizeLimit                 \* the address space dwarfs the heap
  /\ InitialCapacity * EventSize < SizeLimit

VARIABLES
  mutex,      \* holder of g_recorderMutex
  recording,  \* g_recording
  capacity,   \* g_capacity
  allocated,  \* the bytes behind g_events
  events,     \* g_events[0 .. g_count-1].state
  last,       \* g_last_real_state
  handle,     \* g_real_thread
  tpc,        \* where each polling thread is
  sample,     \* its local variable cur
  wpc,        \* where each worker is
  want,       \* a worker's max_events argument
  waitOn,     \* the thread a worker waits for in threadWaitForExit
  out,        \* the array events_to_json is building
  gap         \* history: this recording has lost an event to a failed realloc

lockVars   == <<mutex>>
dataVars   == <<recording, capacity, allocated, events, last, gap>>
threadVars == <<handle, tpc, sample>>
workerVars == <<wpc, want, waitOn, out>>
vars == <<lockVars, dataVars, threadVars, workerVars>>

Inputs  == [buttons : Buttons, stick : Sticks]
Neutral == [buttons |-> 0, stick |-> 0]

\* The states of a polling thread: unused, created, running (six of them),
\* exited, closed before it ran, running when its stack was unmapped, or past
\* the end of the allocation (the process is lost with it, the mutex held).
Running   == {"init", "loop", "poll", "lock", "append", "overrun"}
ThreadPCs == {"none", "created", "exited", "dead", "faulted"} \cup Running

WorkerPCs == {"idle",
              "start_lock", "start_cs", "create", "launch", "scrap", "abort_lock", "abort_cs",
              "stop_lock", "stop_cs", "join", "wait", "close", "zero",
              "clear_lock", "clear_cs", "dump_lock", "dump_cs",
              "save_lock", "save_cs", "save_relock",
              "status_lock", "status_cs"}

\* The program points at which a worker is inside a critical section.
Critical == {"start_cs", "abort_cs", "stop_cs", "clear_cs", "dump_cs",
             "save_cs", "save_relock", "status_cs"}

\* real_state_changed: any button, or a stick axis beyond the jitter filter.
Changed(a, b) ==
  \/ a.buttons # b.buttons
  \/ a.stick - b.stick > StickThreshold
  \/ b.stick - a.stick > StickThreshold

Init ==
  /\ mutex = NoOwner
  /\ recording = FALSE
  /\ capacity = 0
  /\ allocated = 0
  /\ events = <<>>
  /\ last = Neutral
  /\ gap = FALSE
  /\ handle = NoThread
  /\ tpc = [t \in Threads |-> "none"]
  /\ sample = [t \in Threads |-> Neutral]
  /\ wpc = [w \in Workers |-> "idle"]
  /\ want = [w \in Workers |-> 0]
  /\ waitOn = [w \in Workers |-> NoThread]
  /\ out = [w \in Workers |-> <<>>]

Goto(w, pc) == wpc' = [wpc EXCEPT ![w] = pc]
MoveTo(t, pc) == tpc' = [tpc EXCEPT ![t] = pc]

-----------------------------------------------------------------------------
(* The mutex *)

\* Mutant: the caller goes on without the mutex.
AcquireUnchecked(w, from, to) ==
  /\ wpc[w] = from
  /\ mutex' = w
  /\ Goto(w, to)

Acquire(w, from, to) ==
  /\ wpc[w] = from
  /\ mutex = NoOwner
  /\ mutex' = w
  /\ Goto(w, to)

LockStart(w)  == Acquire(w, "start_lock", "start_cs")
LockAbort(w)  == Acquire(w, "abort_lock", "abort_cs")
LockStop(w)   == Acquire(w, "stop_lock", "stop_cs")
LockClear(w)  == Acquire(w, "clear_lock", "clear_cs")
LockDump(w)   == Acquire(w, "dump_lock", "dump_cs")
LockSave(w)   == Acquire(w, "save_lock", "save_cs")
LockStatus(w) == Acquire(w, "status_lock", "status_cs")

\* Every mutexLock of a worker but one.  The one left out is line 209 reached
\* from save (line 306): the caller already owns the mutex, so the call never
\* returns and "save_relock" has no successor.
Lock(w) ==
  /\ \/ LockStart(w) \/ LockAbort(w) \/ LockStop(w) \/ LockClear(w)
     \/ LockDump(w) \/ LockSave(w) \/ LockStatus(w)
  /\ UNCHANGED <<dataVars, threadVars, want, waitOn, out>>

\* Each mutexUnlock of the module.
Unlock == mutex' = NoOwner

-----------------------------------------------------------------------------
(* Sizes in bytes *)

\* The argument of realloc: a product of two size_t.
Bytes(n) == (n * EventSize) % SizeLimit

\* What realloc can grant.  (A request for no bytes leaves newlib's smallest block.)
Granted(n) == Bytes(n) <= HeapBytes

-----------------------------------------------------------------------------
(* call_controller_recorder: the requests, and the status line of the reply *)

\* Mutant: the number is taken as it comes.
SizeAsSent(d) == d

\* (size_t)me->valuedouble.  C leaves a number outside of size_t open; the
\* AArch64 instruction the build uses stops at the ends of the range.
SizeOf(d) == IF d < 0 THEN 0 ELSE IF d >= SizeLimit THEN SizeLimit - 1 ELSE d

Call(w, a, n) ==
  /\ wpc[w] = "idle"
  /\ a \in Actions
  /\ \/ a = "start" /\ Goto(w, "start_lock")
     \/ a = "stop"  /\ Goto(w, "stop_lock")
     \/ a = "clear" /\ Goto(w, "clear_lock")
     \/ a = "dump"  /\ Goto(w, "dump_lock")
     \/ a = "save"  /\ Goto(w, "save_lock")
  /\ want' = [want EXCEPT ![w] = IF a = "start" THEN SizeOf(n) ELSE 0]
  /\ UNCHANGED <<lockVars, dataVars, threadVars, waitOn, out>>

Status(w) ==
  /\ wpc[w] = "status_cs"
  /\ Unlock
  /\ Goto(w, "idle")
  /\ UNCHANGED <<dataVars, threadVars, want, waitOn, out>>

-----------------------------------------------------------------------------
(* start_recording *)

\* Mutant: the early return keeps the mutex.
StartRefusedLocked(w) ==
  /\ wpc[w] = "start_cs"
  /\ recording
  /\ want' = [want EXCEPT ![w] = 0]
  /\ Goto(w, "status_lock")
  /\ UNCHANGED <<lockVars, dataVars, threadVars, waitOn, out>>

\* Already recording: log a warning and return.
StartRefused(w) ==
  /\ wpc[w] = "start_cs"
  /\ recording
  /\ want' = [want EXCEPT ![w] = 0]
  /\ Unlock
  /\ Goto(w, "status_lock")
  /\ UNCHANGED <<dataVars, threadVars, waitOn, out>>

\* Preallocate if asked and if the heap allows, forget the old recording.
StartReset(w) ==
  /\ wpc[w] = "start_cs"
  /\ ~recording
  /\ \/ UNCHANGED <<capacity, allocated>>   \* not asked for, not needed, or realloc fails
     \/ /\ want[w] > capacity
        /\ Granted(want[w])
        /\ capacity' = want[w]
        /\ allocated' = Bytes(want[w])
  /\ events' = <<>>
  /\ gap' = FALSE
  /\ recording' = TRUE
  /\ last' = Neutral
  /\ want' = [want EXCEPT ![w] = 0]
  /\ Unlock
  /\ Goto(w, "create")
  /\ UNCHANGED <<threadVars, waitOn, out>>

\* Identities threadCreate may use: closed ones nobody still refers to.
Unused == {t \in Threads :
             /\ tpc[t] \in {"none", "dead"}
             /\ t # handle
             /\ \A w \in Workers : waitOn[w] # t}

CreateThread(w) ==
  /\ wpc[w] = "create"
  /\ \/ \E t \in Unused :
          /\ handle' = t
          /\ MoveTo(t, "created")
          /\ Goto(w, "launch")
     \/ /\ Goto(w, "abort_lock")
        /\ UNCHANGED <<handle, tpc>>
  /\ UNCHANGED <<lockVars, dataVars, sample, want, waitOn, out>>

\* threadStart(&g_real_thread): it fails on a thread that is closed or already
\* started, and may fail on a new one.
LaunchThread(w) ==
  /\ wpc[w] = "launch"
  /\ \/ /\ handle \in Threads
        /\ tpc[handle] = "created"
        /\ MoveTo(handle, "init")
        /\ Goto(w, "status_lock")
     \/ /\ Goto(w, "scrap")
        /\ UNCHANGED tpc
  /\ UNCHANGED <<lockVars, dataVars, handle, sample, want, waitOn, out>>

\* What closing does to a thread; one that still runs loses its stack.
Closed(pc) ==
  IF pc = "exited" THEN "none"
  ELSE IF pc = "created" THEN "dead"
  ELSE IF pc \in Running THEN "faulted" ELSE pc

\* threadClose(&g_real_thread), whatever thread that is by now.
CloseThread ==
  tpc' = [t \in Threads |-> IF t = handle THEN Closed(tpc[t]) ELSE tpc[t]]

\* After a failed threadStart: the handle is closed but not zeroed.
ScrapThread(w) ==
  /\ wpc[w] = "scrap"
  /\ CloseThread
  /\ Goto(w, "abort_lock")
  /\ UNCHANGED <<lockVars, dataVars, handle, sample, want, waitOn, out>>

\* Mutant: the flag stays set when no thread could be started.
AbortStartFlagged(w) ==
  /\ wpc[w] = "abort_cs"
  /\ Unlock
  /\ Goto(w, "status_lock")
  /\ UNCHANGED <<dataVars, threadVars, want, waitOn, out>>

AbortStart(w) ==
  /\ wpc[w] = "abort_cs"
  /\ recording' = FALSE
  /\ Unlock
  /\ Goto(w, "status_lock")
  /\ UNCHANGED <<capacity, allocated, events, last, gap, threadVars, want, waitOn, out>>

-----------------------------------------------------------------------------
(* stop_recording *)

\* Mutant: stop does not wait for the poller.
StopWithoutJoin(w) ==
  /\ wpc[w] = "stop_cs"
  /\ recording' = FALSE
  /\ Unlock
  /\ Goto(w, "status_lock")
  /\ UNCHANGED <<capacity, allocated, events, last, gap, threadVars, want, waitOn, out>>

StopRecording(w) ==
  /\ wpc[w] = "stop_cs"
  /\ recording' = FALSE
  /\ Unlock
  /\ Goto(w, "join")
  /\ UNCHANGED <<capacity, allocated, events, last, gap, threadVars, want, waitOn, out>>

\* Mutant: the thread is closed without waiting for its exit.
JoinWithoutWait(w) ==
  /\ wpc[w] = "join"
  /\ Goto(w, IF handle = NoThread THEN "status_lock" ELSE "close")
  /\ UNCHANGED <<lockVars, dataVars, threadVars, want, waitOn, out>>

\* The test of the handle, and the wait it guards: waiting on a handle that is
\* already closed returns at once with an error the code ignores.
Join(w) ==
  /\ wpc[w] = "join"
  /\ \/ /\ handle = NoThread
        /\ Goto(w, "status_lock")
        /\ UNCHANGED waitOn
     \/ /\ handle # NoThread
        /\ tpc[handle] \in {"none", "dead", "faulted"}
        /\ Goto(w, "close")
        /\ UNCHANGED waitOn
     \/ /\ handle # NoThread
        /\ tpc[handle] \notin {"none", "dead", "faulted"}
        /\ Goto(w, "wait")
        /\ waitOn' = [waitOn EXCEPT ![w] = handle]
  /\ UNCHANGED <<lockVars, dataVars, threadVars, want, out>>

Joined(w) ==
  /\ wpc[w] = "wait"
  /\ tpc[waitOn[w]] \in {"exited", "none"}
  /\ waitOn' = [waitOn EXCEPT ![w] = NoThread]
  /\ Goto(w, "close")
  /\ UNCHANGED <<lockVars, dataVars, threadVars, want, out>>

CloseJoined(w) ==
  /\ wpc[w] = "close"
  /\ CloseThread
  /\ Goto(w, "zero")
  /\ UNCHANGED <<lockVars, dataVars, handle, sample, want, waitOn, out>>

ZeroHandle(w) ==
  /\ wpc[w] = "zero"
  /\ handle' = NoThread
  /\ Goto(w, "status_lock")
  /\ UNCHANGED <<lockVars, dataVars, tpc, sample, want, waitOn, out>>

-----------------------------------------------------------------------------
(* clear_events, dump (events_to_json) and save (save_events_to_file) *)

\* Mutant: clear does not take the mutex.
ClearUnlocked(w) ==
  /\ wpc[w] = "clear_lock"
  /\ events' = <<>>
  /\ gap' = FALSE
  /\ Goto(w, "status_lock")
  /\ UNCHANGED <<lockVars, recording, capacity, allocated, last, threadVars, want, waitOn, out>>

ClearEvents(w) ==
  /\ wpc[w] = "clear_cs"
  /\ events' = <<>>
  /\ gap' = FALSE
  /\ Unlock
  /\ Goto(w, "status_lock")
  /\ UNCHANGED <<recording, capacity, allocated, last, threadVars, want, waitOn, out>>

\* One turn of the loop of events_to_json, under the lock.
CopyEvent(w) ==
  /\ wpc[w] = "dump_cs"
  /\ Len(out[w]) < Len(events)
  /\ out' = [out EXCEPT ![w] = Append(@, events[Len(@) + 1])]
  /\ UNCHANGED <<lockVars, dataVars, threadVars, wpc, want, waitOn>>

DumpDone(w) ==
  /\ wpc[w] = "dump_cs"
  /\ Len(out[w]) >= Len(events)
  /\ out' = [out EXCEPT ![w] = <<>>]
  /\ Unlock
  /\ Goto(w, "idle")
  /\ UNCHANGED <<dataVars, threadVars, want, waitOn>>

\* Nothing recorded: save_events_to_file returns false.
SaveEmpty(w) ==
  /\ wpc[w] = "save_cs"
  /\ events = <<>>
  /\ Unlock
  /\ Goto(w, "idle")
  /\ UNCHANGED <<dataVars, threadVars, want, waitOn, out>>

\* Something recorded: events_to_json is called with the mutex held.
SaveEvents(w) ==
  /\ wpc[w] = "save_cs"
  /\ events # <<>>
  /\ Goto(w, "save_relock")
  /\ UNCHANGED <<lockVars, dataVars, threadVars, want, waitOn, out>>

-----------------------------------------------------------------------------
(* real_poll_thread *)

PollerBegin(t) ==
  /\ tpc[t] = "init"
  /\ last' = Neutral
  /\ MoveTo(t, "loop")
  /\ UNCHANGED <<lockVars, recording, capacity, allocated, events, gap, handle, sample, workerVars>>

PollerTest(t) ==
  /\ tpc[t] = "loop"
  /\ MoveTo(t, IF recording THEN "poll" ELSE "exited")
  /\ UNCHANGED <<lockVars, dataVars, handle, sample, workerVars>>

\* No pad, or a sample within the jitter filter: sleep and test again.
PollerQuiet(t) ==
  /\ tpc[t] = "poll"
  /\ MoveTo(t, "loop")
  /\ UNCHANGED <<lockVars, dataVars, handle, sample, workerVars>>

\* Mutant: every sample is recorded.
PollerUnfiltered(t) ==
  /\ tpc[t] = "poll"
  /\ \E x \in Inputs : sample' = [sample EXCEPT ![t] = x]
  /\ MoveTo(t, "lock")
  /\ UNCHANGED <<lockVars, dataVars, handle, workerVars>>

PollerChange(t) ==
  /\ tpc[t] = "poll"
  /\ \E x \in Inputs :
       /\ Changed(x, last)
       /\ sample' = [sample EXCEPT ![t] = x]
  /\ MoveTo(t, "lock")
  /\ UNCHANGED <<lockVars, dataVars, handle, workerVars>>

PollerLock(t) ==
  /\ tpc[t] = "lock"
  /\ mutex = NoOwner
  /\ mutex' = t
  /\ MoveTo(t, "append")
  /\ UNCHANGED <<dataVars, handle, sample, workerVars>>

\* ensure_capacity doubles once at most: g_count + 1 <= g_capacity + 1.
Grown == IF capacity = 0 THEN InitialCapacity ELSE 2 * capacity

\* Mutant: the comparison with the capacity is off by one.
RoomOffByOne == Len(events) <= capacity

Room == Len(events) < capacity

\* Mutant: the event is written over the last one.
RecordOverLast(x) == events' = Append(SubSeq(events, 1, Len(events) - 1), x)

Record(x) == events' = Append(events, x)

\* The next event lies inside the block behind g_events.
Fits == (Len(events) + 1) * EventSize <= allocated

\* ensure_capacity(g_count + 1), then append if there is room.  When realloc
\* fails the event is dropped, and last moves on all the same.
PollerAppend(t) ==
  /\ tpc[t] = "append"
  /\ \/ Room /\ Fits /\ Record(sample[t]) /\ UNCHANGED <<capacity, allocated, gap>>
     \/ /\ ~Room /\ Granted(Grown)
        /\ capacity' = Grown /\ allocated' = Bytes(Grown)
        /\ Record(sample[t]) /\ UNCHANGED gap
     \/ ~Room /\ gap' = TRUE /\ UNCHANGED <<capacity, allocated, events>>
  /\ last' = sample[t]
  /\ sample' = [sample EXCEPT ![t] = Neutral]
  /\ Unlock
  /\ MoveTo(t, "loop")
  /\ UNCHANGED <<recording, handle, workerVars>>

\* The capacity says there is room where the allocation has none.
PollerOverrun(t) ==
  /\ tpc[t] = "append"
  /\ Room /\ ~Fits
  /\ MoveTo(t, "overrun")
  /\ UNCHANGED <<lockVars, dataVars, handle, sample, workerVars>>

-----------------------------------------------------------------------------

WorkerStep(w) ==
  \/ Lock(w) \/ Status(w)
  \/ StartRefused(w) \/ StartReset(w) \/ CreateThread(w) \/ LaunchThread(w)
  \/ ScrapThread(w) \/ AbortStart(w)
  \/ StopRecording(w) \/ Join(w) \/ Joined(w) \/ CloseJoined(w) \/ ZeroHandle(w)
  \/ ClearEvents(w) \/ CopyEvent(w) \/ DumpDone(w) \/ SaveEmpty(w) \/ SaveEvents(w)

PollerStep(t) ==
  \/ PollerBegin(t) \/ PollerTest(t) \/ PollerQuiet(t) \/ PollerChange(t)
  \/ PollerLock(t) \/ PollerAppend(t) \/ PollerOverrun(t)

Next ==
  \/ \E w \in Workers, a \in AllActions, n \in Preallocs : Call(w, a, n)
  \/ \E w \in Workers : WorkerStep(w)
  \/ \E t \in Threads : PollerStep(t)

Spec == Init /\ [][Next]_vars

\* Every thread of the process keeps being scheduled; a thread waiting for the
\* mutex gets it, since svcArbitrateUnlock hands it to a waiter.
Fairness ==
  /\ \A w \in Workers : WF_vars(WorkerStep(w)) /\ SF_vars(Lock(w))
  /\ \A t \in Threads : WF_vars(PollerStep(t)) /\ SF_vars(PollerLock(t))

FairSpec == Spec /\ Fairness

-----------------------------------------------------------------------------
(* Properties *)

TypeOK ==
  /\ mutex \in Workers \cup Threads \cup {NoOwner}
  /\ recording \in BOOLEAN
  /\ capacity \in Nat
  /\ allocated \in 0 .. HeapBytes
  /\ events \in Seq(Inputs)
  /\ last \in Inputs
  /\ gap \in BOOLEAN
  /\ handle \in Threads \cup {NoThread}
  /\ tpc \in [Threads -> ThreadPCs]
  /\ sample \in [Threads -> Inputs]
  /\ wpc \in [Workers -> WorkerPCs]
  /\ want \in [Workers -> Nat]
  /\ waitOn \in [Workers -> Threads \cup {NoThread}]
  /\ out \in [Workers -> Seq(Inputs)]

\* g_recorderMutex does its work: whoever is inside a critical section, worker
\* or poller, is the one holder of the mutex (a faulted poller excepted: the
\* process is lost with it).
MutualExclusion ==
  /\ \A w \in Workers : wpc[w] \in Critical => mutex = w
  /\ \A t \in Threads : tpc[t] \in {"append", "overrun"} => mutex = t

\* The pollers write inside the allocation behind g_events (lines 144-147),
\* through every start, clear, growth and failed realloc, as long as the size
\* in bytes of what max_events asked for did not wrap (line 165).
WritesWithinAllocation ==
  (\E t \in Threads : tpc[t] = "overrun") => capacity * EventSize >= SizeLimit

\* max_events preallocates (line 62): g_capacity events fit behind g_events.
CapacityIsAllocated == capacity * EventSize <= allocated

\* A dump is the recording at one moment: what events_to_json has copied so far
\* is a prefix of the recording as it is now, whatever other workers and the
\* poller do meanwhile.
DumpIsSnapshot ==
  \A w \in Workers : wpc[w] = "dump_cs" =>
    /\ Len(out[w]) <= Len(events)
    /\ out[w] = SubSeq(events, 1, Len(out[w]))

\* A recording only grows at its end, or starts over empty: no step reorders,
\* rewrites or removes single events.
AppendOrReset ==
  [][\/ events' = <<>>
     \/ Len(events') = Len(events) + 1 /\ SubSeq(events', 1, Len(events)) = events]_events

\* g_real_thread is "the" polling thread (comment at line 21): never two alive.
OnePoller ==
  \A s, t \in Threads : tpc[s] \in Running /\ tpc[t] \in Running => s = t

\* threadClose is only ever called on a thread that has exited or never ran.
NoThreadClosedAlive == \A t \in Threads : tpc[t] # "faulted"

\* Every polling thread that still has resources is reachable through
\* g_real_thread, so that a later stop can release it.
NoThreadLost ==
  \A t \in Threads : tpc[t] \notin {"none", "dead"} => t = handle

\* Between calls the flag tells the truth: a poller runs exactly when
\* g_recording says so, so that "recording=" in the replies can be trusted.
FlagMatchesPoller ==
  (\A w \in Workers : wpc[w] = "idle") =>
    (recording <=> \E t \in Threads : tpc[t] \in Running)

\* While no event has been lost, a recording never holds two consecutive events
\* that the jitter filter calls equal, and g_last_real_state is the last
\* recorded state (comment at line 22).
RecordingIsFiltered ==
  ~gap => /\ \A k \in 1 .. Len(events) - 1 : Changed(events[k], events[k + 1])
          /\ events # <<>> => last = events[Len(events)]

\* Every call of the tool returns, stop included, which waits for the poller.
EveryCallReturns == \A w \in Workers : wpc[w] # "idle" ~> wpc[w] = "idle"

\* save is a supported action (README), so a save returns like the others.
SaveReturns == \A w \in Workers : wpc[w] = "save_lock" ~> wpc[w] = "idle"
=============================================================================
