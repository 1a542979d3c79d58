--------------------------- MODULE RecorderProofs ---------------------------
(* Theorems about Recorder, for every set of workers, threads and inputs,   *)
(* every jitter threshold, every event size and every heap size.            *)
EXTENDS Recorder, SequenceTheorems, TLAPS

-----------------------------------------------------------------------------
(* Sequences *)

\* Taking the whole of a sequence after an append gives the old sequence back.
LEMMA SubSeqOfAppend ==
  ASSUME NEW S, NEW s \in Seq(S), NEW x \in S, NEW n \in 0 .. Len(s)
  PROVE  SubSeq(Append(s, x), 1, n) = SubSeq(s, 1, n)
<1>1. Append(s, x) \in Seq(S) /\ Len(Append(s, x)) = Len(s) + 1
  BY AppendProperties
<1>2. \A i \in 1 .. Len(s) : Append(s, x)[i] = s[i]
  BY AppendProperties
<1>3. Len(s) \in Nat /\ \A i \in 1 .. Len(s) : s[i] \in S
  BY LenProperties, ElementOfSeq
<1>4. /\ SubSeq(s, 1, n) \in Seq(S)
      /\ Len(SubSeq(s, 1, n)) = n
      /\ \A i \in 1 .. n : SubSeq(s, 1, n)[i] = s[i]
  BY <1>3, SubSeqProperties
<1>5. \A i \in 1 .. n : Append(s, x)[i] \in S
  BY <1>2, <1>3
<1>6. /\ SubSeq(Append(s, x), 1, n) \in Seq(S)
      /\ Len(SubSeq(Append(s, x), 1, n)) = n
      /\ \A i \in 1 .. n : SubSeq(Append(s, x), 1, n)[i] = Append(s, x)[i]
  BY <1>3, <1>5, SubSeqProperties
<1> QED  BY <1>2, <1>3, <1>4, <1>6, SeqEqual

\* Copying one more element keeps a copy a prefix.
LEMMA PrefixExtended ==
  ASSUME NEW S, NEW s \in Seq(S), NEW n \in 0 .. Len(s) - 1
  PROVE  Append(SubSeq(s, 1, n), s[n + 1]) = SubSeq(s, 1, n + 1)
<1>1. Len(s) \in Nat /\ \A i \in 1 .. Len(s) : s[i] \in S
  BY LenProperties, ElementOfSeq
<1>2. /\ SubSeq(s, 1, n) \in Seq(S)
      /\ Len(SubSeq(s, 1, n)) = n
  BY <1>1, SubSeqProperties
<1>3. n + 1 \in 1 .. Len(s) /\ s[n + 1] \in S
  BY <1>1
<1>4. SubSeq(s, 1, n + 1) = SubSeq(s, 1, n) \o <<s[n + 1]>>
  <2>1. 1 \in 1 .. Len(s)  BY <1>1
  <2>2. n + 1 - 1 = n  OBVIOUS
  <2> QED  BY <2>1, <2>2, <1>3, SubSeqRecursiveSecond
<1> QED  BY <1>2, <1>3, <1>4, AppendIsConcat

-----------------------------------------------------------------------------
(* Sizes in bytes *)

\* A number below the modulus is its own remainder.
LEMMA SmallRemainder ==
  ASSUME NEW a \in Nat, NEW b \in Nat, a < b
  PROVE  a % b = a
OBVIOUS

\* More events never take fewer bytes.
LEMMA MoreBytes ==
  ASSUME NEW a \in Nat, NEW b \in Nat, NEW e \in Nat, a <= b
  PROVE  a * e <= b * e /\ a * e \in Nat
OBVIOUS

\* What realloc is asked for is a number of bytes, and the right one unless the
\* product wraps.
LEMMA BytesOf ==
  ASSUME RecorderAssumption, NEW n \in Nat
  PROVE  Bytes(n) \in Nat /\ (n * EventSize < SizeLimit => Bytes(n) = n * EventSize)
<1>1. n * EventSize \in Nat /\ SizeLimit \in Nat /\ SizeLimit > 0
  BY MoreBytes DEF RecorderAssumption
<1>2. Bytes(n) \in Nat
  BY <1>1 DEF Bytes
<1> QED  BY <1>1, <1>2, SmallRemainder DEF Bytes

-----------------------------------------------------------------------------
(* Type correctness *)

\* The two flags stay Boolean.
LEMMA FlagStep ==
  ASSUME TypeOK, [Next]_vars
  PROVE  recording' \in BOOLEAN /\ gap' \in BOOLEAN
<1> USE DEF dataVars
<1>0. recording \in BOOLEAN /\ gap \in BOOLEAN
  BY DEF TypeOK
<1>1. ASSUME UNCHANGED <<recording, gap>>
      PROVE  recording' \in BOOLEAN /\ gap' \in BOOLEAN
  BY <1>0, <1>1, Zenon
<1>2. ASSUME NEW w \in Workers, WorkerStep(w)
      PROVE  recording' \in BOOLEAN /\ gap' \in BOOLEAN
  <2>1. CASE StartReset(w) \/ AbortStart(w) \/ StopRecording(w) \/ ClearEvents(w)
    BY <1>0, <2>1, Zenon DEF StartReset, AbortStart, StopRecording, ClearEvents
  <2>2. CASE Lock(w) \/ Status(w) \/ StartRefused(w) \/ CreateThread(w) \/ LaunchThread(w)
             \/ ScrapThread(w)
    BY <1>1, <2>2, Zenon
       DEF Lock, Status, StartRefused, CreateThread, LaunchThread, ScrapThread
  <2>3. CASE Join(w) \/ Joined(w) \/ CloseJoined(w) \/ ZeroHandle(w)
             \/ CopyEvent(w) \/ DumpDone(w) \/ SaveEmpty(w) \/ SaveEvents(w)
    BY <1>1, <2>3, Zenon
       DEF Join, Joined, CloseJoined, ZeroHandle, CopyEvent, DumpDone, SaveEmpty, SaveEvents
  <2> QED  BY <1>2, <2>1, <2>2, <2>3 DEF WorkerStep
<1>3. ASSUME NEW t \in Threads, PollerStep(t)
      PROVE  recording' \in BOOLEAN /\ gap' \in BOOLEAN
  <2>1. CASE PollerAppend(t)
    BY <1>0, <2>1, Zenon DEF PollerAppend
  <2>2. CASE PollerBegin(t) \/ PollerTest(t) \/ PollerQuiet(t) \/ PollerChange(t) \/ PollerLock(t)
             \/ PollerOverrun(t)
    BY <1>1, <2>2, Zenon DEF PollerBegin, PollerTest, PollerQuiet, PollerChange, PollerLock, PollerOverrun
  <2> QED  BY <1>3, <2>1, <2>2 DEF PollerStep
<1>4. ASSUME NEW w \in Workers, NEW a \in AllActions, NEW n \in Preallocs, Call(w, a, n)
      PROVE  recording' \in BOOLEAN /\ gap' \in BOOLEAN
  BY <1>1, <1>4, Zenon DEF Call
<1>5. CASE UNCHANGED vars
  BY <1>1, <1>5 DEF vars
<1> QED  BY <1>2, <1>3, <1>4, <1>5 DEF Next

\* One step of any thread keeps every variable in its type.
LEMMA TypeStep ==
  ASSUME RecorderAssumption, TypeOK, [Next]_vars
  PROVE  TypeOK'
<1> USE DEF TypeOK, Goto, MoveTo, Unlock
<1>0. Neutral \in Inputs /\ <<>> \in Seq(Inputs)
  BY DEF RecorderAssumption, Neutral, Inputs
<1>f. recording' \in BOOLEAN /\ gap' \in BOOLEAN
  BY FlagStep
<1>1. ASSUME NEW w \in Workers, NEW a \in AllActions, NEW n \in Preallocs, Call(w, a, n)
      PROVE  TypeOK'
  <2>1. SizeOf(n) \in Nat
    BY DEF SizeOf, RecorderAssumption
  <2> QED  BY <1>1, <2>1 DEF Call, AllActions, WorkerPCs, RecorderAssumption, lockVars, dataVars, threadVars
<1>2. ASSUME NEW w \in Workers, WorkerStep(w)
      PROVE  TypeOK'
  <2> USE DEF lockVars, dataVars, threadVars, WorkerPCs
  <2>1. CASE Lock(w)
    BY <2>1 DEF Lock, LockStart, LockAbort, LockStop, LockClear, LockDump, LockSave, LockStatus, Acquire
  <2>2. CASE Status(w) \/ SaveEmpty(w) \/ SaveEvents(w)
    BY <2>2 DEF Status, SaveEmpty, SaveEvents
  <2>3. CASE StartReset(w)
    <3>1. Granted(want[w]) => Bytes(want[w]) \in 0 .. HeapBytes
      BY BytesOf DEF Granted, RecorderAssumption
    <3> QED  BY <1>0, <1>f, <2>3, <3>1 DEF StartReset
  <2>4. CASE CreateThread(w)
    BY <2>4 DEF CreateThread, Unused, ThreadPCs
  <2>5. CASE ScrapThread(w) \/ CloseJoined(w)
    <3>1. \A t \in Threads : Closed(tpc[t]) \in ThreadPCs
      BY DEF Closed, ThreadPCs, Running
    <3>2. tpc' \in [Threads -> ThreadPCs]
      <4>1. CloseThread
        BY <2>5 DEF ScrapThread, CloseJoined
      <4>2. tpc \in [Threads -> ThreadPCs]
        BY DEF TypeOK
      <4> QED  BY <4>1, <4>2, <3>1 DEF CloseThread
    <3>3. wpc' \in [Workers -> WorkerPCs]
      BY <2>5 DEF ScrapThread, CloseJoined
    <3> QED  BY <2>5, <3>2, <3>3 DEF ScrapThread, CloseJoined
  <2>6. CASE Join(w)
    BY <2>6 DEF Join
  <2>9. CASE Joined(w)
    BY <2>9 DEF Joined
  <2>10. CASE LaunchThread(w)
    BY <2>10 DEF LaunchThread, ThreadPCs, Running
  <2>11. CASE StartRefused(w)
    BY <2>11 DEF StartRefused
  <2>12. CASE AbortStart(w) \/ StopRecording(w)
    BY <1>f, <2>12 DEF AbortStart, StopRecording
  <2>13. CASE ZeroHandle(w)
    BY <2>13 DEF ZeroHandle
  <2>7. CASE ClearEvents(w)
    BY <1>f, <1>0, <2>7 DEF ClearEvents
  <2>14. CASE DumpDone(w)
    BY <1>0, <2>14 DEF DumpDone
  <2>8. CASE CopyEvent(w)
    <3>1. Len(out[w]) + 1 \in 1 .. Len(events)
      BY <2>8, LenProperties DEF CopyEvent
    <3>2. events[Len(out[w]) + 1] \in Inputs
      BY <3>1, ElementOfSeq
    <3>3. Append(out[w], events[Len(out[w]) + 1]) \in Seq(Inputs)
      BY <3>2, AppendProperties
    <3> QED  BY <2>8, <3>3 DEF CopyEvent
  <2> QED  BY <1>2, <2>1, <2>2, <2>3, <2>4, <2>5, <2>6, <2>7, <2>8, <2>9, <2>10, <2>11, <2>12,
           <2>13, <2>14 DEF WorkerStep
<1>3. ASSUME NEW t \in Threads, PollerStep(t)
      PROVE  TypeOK'
  <2> USE DEF lockVars, dataVars, workerVars, ThreadPCs, Running
  <2>1. CASE PollerBegin(t) \/ PollerTest(t) \/ PollerQuiet(t) \/ PollerLock(t) \/ PollerOverrun(t)
    BY <1>0, <2>1 DEF PollerBegin, PollerTest, PollerQuiet, PollerLock, PollerOverrun
  <2>2. CASE PollerChange(t)
    BY <1>0, <2>2 DEF PollerChange
  <2>3. CASE PollerAppend(t)
    <3>1. Append(events, sample[t]) \in Seq(Inputs)
      BY AppendProperties
    <3>2. Grown \in Nat
      BY DEF Grown, RecorderAssumption
    <3>3. Granted(Grown) => Bytes(Grown) \in 0 .. HeapBytes
      BY <3>2, BytesOf DEF Granted, RecorderAssumption
    <3> QED  BY <1>0, <1>f, <2>3, <3>1, <3>2, <3>3 DEF PollerAppend, Record
  <2> QED  BY <1>3, <2>1, <2>2, <2>3 DEF PollerStep
<1>4. CASE UNCHANGED vars
  BY <1>4 DEF vars, lockVars, dataVars, threadVars, workerVars
<1> QED  BY <1>1, <1>2, <1>3, <1>4 DEF Next

\* The boot state has every variable in its type.
LEMMA TypeInit == Init => TypeOK
<1>1. Neutral \in Inputs /\ <<>> \in Seq(Inputs)
  BY RecorderAssumption DEF RecorderAssumption, Neutral, Inputs
<1>2. Init => recording \in BOOLEAN /\ gap \in BOOLEAN
  BY Zenon DEF Init
<1>3. Init => allocated \in 0 .. HeapBytes
  BY RecorderAssumption DEF RecorderAssumption, Init
<1> QED  BY <1>1, <1>2, <1>3 DEF Init, TypeOK, ThreadPCs, WorkerPCs

\* Every variable has its type in every reachable state.
THEOREM TypeCorrect == Spec => []TypeOK
<1>1. TypeOK /\ [Next]_vars => TypeOK'
  BY RecorderAssumption, TypeStep
<1> QED  BY <1>1, TypeInit, PTL DEF Spec

-----------------------------------------------------------------------------
(* Mutual exclusion *)

\* A worker step keeps the mutex with the one thread inside a critical section.
LEMMA WorkerExclusion ==
  ASSUME RecorderAssumption, TypeOK, MutualExclusion,
         NEW w \in Workers, WorkerStep(w)
  PROVE  MutualExclusion'
<1> USE RecorderAssumption
    DEF RecorderAssumption, MutualExclusion, Critical, Goto, MoveTo, Unlock,
        lockVars, dataVars, threadVars
<1>0. /\ wpc \in [Workers -> WorkerPCs]
      /\ tpc \in [Threads -> ThreadPCs]
  BY DEF TypeOK
<1>1. CASE Lock(w)
  BY <1>0, <1>1 DEF Lock, LockStart, LockAbort, LockStop, LockClear, LockDump, LockSave, LockStatus, Acquire
<1>2. CASE Status(w) \/ StartRefused(w) \/ StartReset(w) \/ AbortStart(w)
  BY <1>0, <1>2 DEF Status, StartRefused, StartReset, AbortStart
<1>3. CASE StopRecording(w) \/ ClearEvents(w) \/ DumpDone(w) \/ SaveEmpty(w)
  BY <1>0, <1>3 DEF StopRecording, ClearEvents, DumpDone, SaveEmpty
<1>4. CASE CreateThread(w)
  BY <1>0, <1>4 DEF CreateThread, Unused
<1>5. CASE LaunchThread(w)
  BY <1>0, <1>5 DEF LaunchThread
<1>6. CASE ScrapThread(w) \/ CloseJoined(w)
  <2>1. CloseThread /\ mutex' = mutex
    BY <1>6 DEF ScrapThread, CloseJoined
  <2>2. \A t \in Threads : tpc'[t] \in {"append", "overrun"} => tpc[t] = tpc'[t]
    BY <2>1, <1>0 DEF CloseThread, Closed, Running
  <2>3. \A x \in Workers : wpc'[x] \in Critical => wpc[x] \in Critical
    BY <1>0, <1>6 DEF ScrapThread, CloseJoined
  <2> QED  BY <2>1, <2>2, <2>3
<1>7. CASE Join(w) \/ Joined(w) \/ ZeroHandle(w) \/ CopyEvent(w) \/ SaveEvents(w)
  BY <1>0, <1>7 DEF Join, Joined, ZeroHandle, CopyEvent, SaveEvents
<1> QED  BY <1>1, <1>2, <1>3, <1>4, <1>5, <1>6, <1>7 DEF WorkerStep

\* So does a step of a polling thread.
LEMMA PollerExclusion ==
  ASSUME RecorderAssumption, TypeOK, MutualExclusion,
         NEW t \in Threads, PollerStep(t)
  PROVE  MutualExclusion'
<1> USE RecorderAssumption
    DEF RecorderAssumption, MutualExclusion, Critical, MoveTo, Unlock,
        lockVars, dataVars, workerVars
<1>0. tpc \in [Threads -> ThreadPCs]
  BY DEF TypeOK
<1>1. CASE PollerBegin(t) \/ PollerTest(t) \/ PollerQuiet(t) \/ PollerChange(t) \/ PollerOverrun(t)
  BY <1>0, <1>1 DEF PollerBegin, PollerTest, PollerQuiet, PollerChange, PollerOverrun
<1>2. CASE PollerLock(t)
  BY <1>0, <1>2 DEF PollerLock
<1>3. CASE PollerAppend(t)
  BY <1>0, <1>3 DEF PollerAppend
<1> QED  BY <1>1, <1>2, <1>3 DEF PollerStep

\* And every step of the process.
LEMMA ExclusionStep ==
  ASSUME RecorderAssumption, TypeOK, MutualExclusion, [Next]_vars
  PROVE  MutualExclusion'
<1>1. ASSUME NEW w \in Workers, NEW a \in AllActions, NEW n \in Preallocs, Call(w, a, n)
      PROVE  MutualExclusion'
  <2>1. wpc \in [Workers -> WorkerPCs]
    BY DEF TypeOK
  <2> QED  BY <1>1, <2>1 DEF Call, MutualExclusion, Critical, Goto, lockVars, threadVars
<1>2. CASE UNCHANGED vars
  BY <1>2 DEF MutualExclusion, vars, lockVars, threadVars, workerVars
<1> QED  BY <1>1, <1>2, WorkerExclusion, PollerExclusion DEF Next

-----------------------------------------------------------------------------
(* The recording and its allocation *)

\* Of a worker's steps only the reset of a start and a clear touch the events
\* or their allocation.
LEMMA WorkerAlloc ==
  ASSUME NEW w \in Workers, WorkerStep(w)
  PROVE  \/ StartReset(w) \/ ClearEvents(w)
         \/ UNCHANGED <<capacity, allocated, events>>
<1>1. CASE AbortStart(w) \/ StopRecording(w)
  BY <1>1 DEF AbortStart, StopRecording
<1>2. CASE dataVars' = dataVars
  BY <1>2 DEF dataVars
<1>3. CASE Lock(w) \/ Status(w) \/ StartRefused(w) \/ CreateThread(w) \/ LaunchThread(w)
           \/ ScrapThread(w) \/ Join(w) \/ Joined(w) \/ CloseJoined(w) \/ ZeroHandle(w)
           \/ CopyEvent(w) \/ DumpDone(w) \/ SaveEmpty(w) \/ SaveEvents(w)
  BY <1>2, <1>3, Zenon
     DEF Lock, Status, StartRefused, CreateThread, LaunchThread, ScrapThread, Join, Joined,
         CloseJoined, ZeroHandle, CopyEvent, DumpDone, SaveEmpty, SaveEvents
<1> QED  BY <1>1, <1>3 DEF WorkerStep

\* What one step can do to the recording: nothing, empty it, or append one
\* event to it; only the holder of the mutex does.
LEMMA EventsStep ==
  ASSUME RecorderAssumption, TypeOK, MutualExclusion, [Next]_vars
  PROVE  \/ UNCHANGED events
         \/ events' = <<>> /\ \E w \in Workers : mutex = w /\ wpc[w] # "dump_cs"
         \/ \E t \in Threads : mutex = t /\ events' = Append(events, sample[t])
<1>1. ASSUME NEW w \in Workers, WorkerStep(w), events' # events
      PROVE  events' = <<>> /\ mutex = w /\ wpc[w] # "dump_cs"
  <2>1. CASE StartReset(w) \/ ClearEvents(w)
    BY <2>1 DEF StartReset, ClearEvents, MutualExclusion, Critical
  <2>2. ASSUME UNCHANGED <<capacity, allocated, events>>
        PROVE  FALSE
    BY <1>1, <2>2
  <2> QED  BY <1>1, <2>1, <2>2, WorkerAlloc
<1>2. ASSUME NEW t \in Threads, PollerStep(t), events' # events
      PROVE  mutex = t /\ events' = Append(events, sample[t])
  <2>1. PollerAppend(t)
    BY <1>2 DEF PollerStep, PollerBegin, PollerTest, PollerQuiet, PollerChange, PollerLock, PollerOverrun, dataVars
  <2> QED  BY <1>2, <2>1 DEF PollerAppend, Record, MutualExclusion
<1>3. ASSUME \/ \E w \in Workers, a \in AllActions, n \in Preallocs : Call(w, a, n)
             \/ UNCHANGED vars
      PROVE  UNCHANGED events
  BY <1>3 DEF Call, vars, dataVars
<1> QED  BY <1>1, <1>2, <1>3 DEF Next

-----------------------------------------------------------------------------
(* The inductive invariant *)

\* The array of events_to_json is empty outside the loop that fills it.
FreshOut == \A w \in Workers : wpc[w] # "dump_cs" => out[w] = <<>>

\* The capacity is the allocation, counted in events, unless the product wrapped;
\* what is recorded lies inside the allocation either way.
AllocInv ==
  /\ capacity * EventSize < SizeLimit => capacity * EventSize = allocated
  /\ Len(events) <= capacity
  /\ Len(events) * EventSize <= allocated
  /\ WritesWithinAllocation

RecorderInv ==
  TypeOK /\ MutualExclusion /\ AllocInv /\ DumpIsSnapshot /\ FreshOut

\* A worker's dump is untouched by others, starts empty and grows by copies.
LEMMA OutStep ==
  ASSUME RecorderInv, [Next]_vars, NEW w \in Workers
  PROVE  \/ wpc'[w] = wpc[w] /\ out'[w] = out[w]
         \/ out'[w] = <<>>
         \/ /\ wpc[w] = "dump_cs" /\ wpc'[w] = "dump_cs"
            /\ Len(out[w]) < Len(events)
            /\ out'[w] = Append(out[w], events[Len(out[w]) + 1])
<1> USE DEF Goto
<1>0. /\ wpc \in [Workers -> WorkerPCs]
      /\ out \in [Workers -> Seq(Inputs)]
      /\ wpc[w] # "dump_cs" => out[w] = <<>>
  BY DEF RecorderInv, TypeOK, FreshOut
<1>1. ASSUME NEW x \in Workers, WorkerStep(x), out' # out
      PROVE  CopyEvent(x) \/ DumpDone(x)
  BY <1>1, Zenon
     DEF WorkerStep, Lock, Status, StartRefused, StartReset, CreateThread, LaunchThread,
         ScrapThread, AbortStart, StopRecording, Join, Joined, CloseJoined, ZeroHandle,
         ClearEvents, SaveEmpty, SaveEvents
<1>2. ASSUME NEW x \in Workers, WorkerStep(x), x # w
      PROVE  wpc'[w] = wpc[w]
  BY <1>0, <1>2
     DEF WorkerStep, Lock, LockStart, LockAbort, LockStop, LockClear, LockDump, LockSave, LockStatus,
         Acquire, Status, StartRefused, StartReset, CreateThread,
         LaunchThread, ScrapThread, AbortStart, StopRecording, Join, Joined, CloseJoined,
         ZeroHandle, ClearEvents, CopyEvent, DumpDone, SaveEmpty, SaveEvents
<1>3. ASSUME WorkerStep(w), wpc[w] = "dump_cs"
      PROVE  CopyEvent(w) \/ DumpDone(w)
  BY <1>3
     DEF WorkerStep, Lock, LockStart, LockAbort, LockStop, LockClear, LockDump, LockSave, LockStatus,
         Acquire, Status, StartRefused, StartReset, CreateThread,
         LaunchThread, ScrapThread, AbortStart, StopRecording, Join, Joined, CloseJoined,
         ZeroHandle, ClearEvents, SaveEmpty, SaveEvents
<1>4. ASSUME NEW x \in Workers, WorkerStep(x)
      PROVE  \/ wpc'[w] = wpc[w] /\ out'[w] = out[w]
             \/ out'[w] = <<>>
             \/ /\ wpc[w] = "dump_cs" /\ wpc'[w] = "dump_cs"
                /\ Len(out[w]) < Len(events)
                /\ out'[w] = Append(out[w], events[Len(out[w]) + 1])
  <2>1. CASE CopyEvent(x)
    BY <1>0, <1>2, <2>1 DEF CopyEvent
  <2>2. CASE DumpDone(x)
    BY <1>0, <1>2, <1>4, <2>2 DEF DumpDone
  <2>3. CASE out' = out
    BY <1>0, <1>2, <1>3, <1>4, <2>1, <2>2, <2>3
  <2> QED  BY <1>1, <1>4, <2>1, <2>2, <2>3
<1>5. ASSUME NEW x \in Workers, NEW a \in AllActions, NEW n \in Preallocs, Call(x, a, n)
      PROVE  (wpc'[w] = wpc[w] /\ out'[w] = out[w]) \/ out'[w] = <<>>
  BY <1>0, <1>5 DEF Call
<1>6. ASSUME NEW t \in Threads, PollerStep(t)
      PROVE  wpc'[w] = wpc[w] /\ out'[w] = out[w]
  BY <1>6 DEF PollerStep, PollerBegin, PollerTest, PollerQuiet, PollerChange, PollerLock, PollerOverrun,
              PollerAppend, workerVars
<1>7. ASSUME UNCHANGED vars
      PROVE  wpc'[w] = wpc[w] /\ out'[w] = out[w]
  BY <1>7 DEF vars, workerVars
<1> QED  BY <1>4, <1>5, <1>6, <1>7 DEF Next

\* One step keeps the copy of every running dump a prefix of the recording.
LEMMA SnapshotStep ==
  ASSUME RecorderAssumption, RecorderInv, [Next]_vars
  PROVE  DumpIsSnapshot' /\ FreshOut'
<1>1. FreshOut'
  BY OutStep DEF RecorderInv, FreshOut
<1>2. SUFFICES ASSUME NEW w \in Workers, wpc'[w] = "dump_cs"
               PROVE  /\ Len(out'[w]) <= Len(events')
                      /\ out'[w] = SubSeq(events', 1, Len(out'[w]))
  BY <1>1 DEF DumpIsSnapshot
<1>3. /\ events \in Seq(Inputs) /\ out[w] \in Seq(Inputs)
      /\ Len(events) \in Nat /\ Len(out[w]) \in Nat
  BY LenProperties DEF RecorderInv, TypeOK
<1>4. events' \in Seq(Inputs) /\ Len(events') \in Nat
  BY TypeStep, LenProperties DEF RecorderInv, TypeOK
<1>5. ASSUME wpc[w] = "dump_cs"
      PROVE  events' = events
  BY <1>5, EventsStep
     DEF RecorderInv, MutualExclusion, Critical, RecorderAssumption
<1>6. CASE wpc'[w] = wpc[w] /\ out'[w] = out[w]
  BY <1>2, <1>5, <1>6 DEF RecorderInv, DumpIsSnapshot
<1>7. CASE out'[w] = <<>>
  <2>1. Len(out'[w]) = 0
    BY <1>7
  <2>2. SubSeq(events', 1, 0) = <<>>
    BY SubSeqEmpty
  <2> QED  BY <1>4, <1>7, <2>1, <2>2
<1>8. CASE /\ wpc[w] = "dump_cs"
           /\ Len(out[w]) < Len(events)
           /\ out'[w] = Append(out[w], events[Len(out[w]) + 1])
  <2>1. out[w] = SubSeq(events, 1, Len(out[w]))
    BY <1>8 DEF RecorderInv, DumpIsSnapshot
  <2>2. Len(out[w]) \in 0 .. Len(events) - 1
    BY <1>3, <1>8
  <2>3. out'[w] = SubSeq(events, 1, Len(out[w]) + 1)
    BY <1>3, <1>8, <2>1, <2>2, PrefixExtended
  <2>4. Len(out'[w]) = Len(out[w]) + 1
    <3>1. events[Len(out[w]) + 1] \in Inputs
      BY <1>3, <2>2, ElementOfSeq
    <3> QED  BY <1>3, <1>8, <3>1, AppendProperties
  <2> QED  BY <1>3, <1>5, <1>8, <2>2, <2>3, <2>4
<1> QED  BY <1>6, <1>7, <1>8, OutStep

\* A worker's step keeps the events inside the allocation.
LEMMA AllocWorker ==
  ASSUME RecorderAssumption, TypeOK, MutualExclusion, AllocInv, NEW w \in Workers, WorkerStep(w)
  PROVE  AllocInv'
<1> USE DEF AllocInv, WritesWithinAllocation
<1>0. /\ capacity \in Nat /\ allocated \in Nat /\ want \in [Workers -> Nat]
      /\ EventSize \in Nat /\ Len(<<>>) = 0 /\ 0 * EventSize = 0
  BY DEF TypeOK, RecorderAssumption
<1>1. ASSUME NEW t \in Threads, tpc'[t] = "overrun"
      PROVE  tpc[t] = "overrun"
  BY <1>1 DEF WorkerStep, Lock, Status, StartRefused, StartReset, CreateThread, LaunchThread, ScrapThread,
              AbortStart, StopRecording, Join, Joined, CloseJoined, ZeroHandle, ClearEvents, CopyEvent,
              DumpDone, SaveEmpty, SaveEvents, CloseThread, Closed, Running, MoveTo, threadVars, TypeOK
<1>2. CASE StartReset(w)
  <2>1. \A t \in Threads : tpc[t] # "overrun"
    BY <1>2 DEF StartReset, MutualExclusion, Critical, RecorderAssumption
  <2>2. events' = <<>>
    BY <1>2 DEF StartReset
  <2>3. CASE UNCHANGED <<capacity, allocated>>
    BY <1>0, <1>1, <2>1, <2>2, <2>3
  <2>4. CASE capacity' = want[w] /\ allocated' = Bytes(want[w])
    <3>1. want[w] \in Nat
      BY <1>0
    <3>2. capacity' * EventSize < SizeLimit => allocated' = capacity' * EventSize
      BY <2>4, <3>1, BytesOf
    <3>3. allocated' \in Nat /\ capacity' \in Nat
      BY <2>4, <3>1, BytesOf
    <3>4. Len(events') = 0 /\ Len(events') * EventSize = 0
      BY <1>0, <2>2
    <3>5. WritesWithinAllocation'
      BY <1>1, <2>1
    <3>6. Len(events') <= capacity' /\ Len(events') * EventSize <= allocated'
      BY <3>3, <3>4
    <3> QED  BY <3>2, <3>5, <3>6
  <2> QED  BY <1>2, <2>3, <2>4 DEF StartReset
<1>3. CASE ClearEvents(w)
  BY <1>0, <1>1, <1>3 DEF ClearEvents
<1>4. CASE UNCHANGED <<capacity, allocated, events>>
  BY <1>1, <1>4
<1> QED  BY <1>2, <1>3, <1>4, WorkerAlloc

\* An append fits: into the block there is, or into the one twice its size.
LEMMA AllocAppend ==
  ASSUME RecorderAssumption, TypeOK, MutualExclusion, AllocInv, NEW t \in Threads, PollerAppend(t)
  PROVE  AllocInv'
<1>0. /\ capacity \in Nat /\ allocated \in 0 .. HeapBytes /\ EventSize \in Nat
      /\ events \in Seq(Inputs) /\ sample[t] \in Inputs /\ Len(events) \in Nat
      /\ Len(Append(events, sample[t])) = Len(events) + 1
  BY LenProperties, AppendProperties DEF TypeOK, RecorderAssumption
<1>1. \A u \in Threads : tpc'[u] # "overrun"
  BY DEF PollerAppend, MoveTo, TypeOK, MutualExclusion
<1>2. CASE Room /\ Fits /\ Record(sample[t]) /\ UNCHANGED <<capacity, allocated>>
  BY <1>0, <1>1, <1>2 DEF Room, Fits, Record, AllocInv, WritesWithinAllocation
<1>3. CASE ~Room /\ Granted(Grown) /\ capacity' = Grown /\ allocated' = Bytes(Grown) /\ Record(sample[t])
  <2>1. Len(events) = capacity
    BY <1>0, <1>3 DEF Room, AllocInv
  <2>2. Grown \in Nat /\ capacity + 1 <= Grown
    BY <1>0 DEF Grown, RecorderAssumption
  <2>3. Grown * EventSize < SizeLimit
    <3>1. CASE capacity = 0
      BY <3>1 DEF Grown, RecorderAssumption
    <3>2. CASE capacity # 0
      <4>1. Grown = 2 * capacity
        BY <3>2 DEF Grown
      <4>2. capacity * EventSize <= HeapBytes
        BY <1>0, <2>1 DEF AllocInv
      <4>3. (2 * capacity) * EventSize = 2 * (capacity * EventSize)
        BY <1>0
      <4>4. capacity * EventSize \in Nat
        BY <1>0, MoreBytes
      <4> QED  BY <4>1, <4>2, <4>3, <4>4 DEF RecorderAssumption
    <3> QED  BY <3>1, <3>2
  <2>4. allocated' = Grown * EventSize
    BY <1>3, <2>2, <2>3, BytesOf
  <2>5. (Len(events) + 1) * EventSize <= Grown * EventSize
    BY <1>0, <2>1, <2>2, MoreBytes
  <2> QED  BY <1>0, <1>1, <1>3, <2>1, <2>2, <2>4, <2>5 DEF Record, AllocInv, WritesWithinAllocation
<1>4. CASE UNCHANGED <<capacity, allocated, events>>
  BY <1>1, <1>4 DEF AllocInv, WritesWithinAllocation
<1> QED  BY <1>2, <1>3, <1>4 DEF PollerAppend

\* Every step keeps the events inside the allocation.
LEMMA AllocStep ==
  ASSUME RecorderAssumption, RecorderInv, [Next]_vars
  PROVE  AllocInv'
<1> USE DEF RecorderInv
<1>1. ASSUME NEW t \in Threads, PollerOverrun(t)
      PROVE  AllocInv'
  <2>1. /\ capacity \in Nat /\ allocated \in Nat /\ EventSize \in Nat /\ Len(events) \in Nat
        /\ UNCHANGED <<capacity, allocated, events>>
    BY <1>1, LenProperties DEF PollerOverrun, dataVars, TypeOK, RecorderAssumption
  <2>2. Len(events) + 1 <= capacity /\ (Len(events) + 1) * EventSize > allocated
    BY <1>1, <2>1 DEF PollerOverrun, Room, Fits
  <2>3. capacity * EventSize >= SizeLimit
    <3>1. (Len(events) + 1) * EventSize <= capacity * EventSize
      BY <2>1, <2>2, MoreBytes
    <3>2. (Len(events) + 1) * EventSize \in Nat /\ capacity * EventSize \in Nat
      BY <2>1, MoreBytes
    <3> QED  BY <2>1, <2>2, <3>1, <3>2 DEF AllocInv, RecorderAssumption
  <2> QED  BY <2>1, <2>3 DEF AllocInv, WritesWithinAllocation
<1>2. ASSUME UNCHANGED <<capacity, allocated, events>>,
             \A t \in Threads : tpc'[t] = "overrun" => tpc[t] = "overrun"
      PROVE  AllocInv'
  BY <1>2 DEF AllocInv, WritesWithinAllocation
<1>3. ASSUME NEW t \in Threads, PollerStep(t)
      PROVE  AllocInv'
  <2>1. CASE PollerBegin(t) \/ PollerTest(t) \/ PollerQuiet(t) \/ PollerChange(t) \/ PollerLock(t)
    <3>1. UNCHANGED <<capacity, allocated, events>>
      BY <2>1 DEF PollerBegin, PollerTest, PollerQuiet, PollerChange, PollerLock, dataVars
    <3>2. \A u \in Threads : tpc'[u] = "overrun" => tpc[u] = "overrun"
      BY <2>1 DEF PollerBegin, PollerTest, PollerQuiet, PollerChange, PollerLock, MoveTo, TypeOK
    <3> QED  BY <1>2, <3>1, <3>2
  <2> QED  BY <1>1, <1>3, <2>1, AllocAppend DEF PollerStep
<1>4. ASSUME \/ \E w \in Workers, a \in AllActions, n \in Preallocs : Call(w, a, n)
             \/ UNCHANGED vars
      PROVE  AllocInv'
  BY <1>2, <1>4 DEF Call, vars, dataVars, threadVars
<1> QED  BY <1>3, <1>4, AllocWorker DEF Next

\* The invariant holds in every reachable state.
THEOREM RecorderSafe == Spec => []RecorderInv
<1>1. Init => RecorderInv
  <2>1. Init => MutualExclusion /\ FreshOut /\ DumpIsSnapshot
    BY DEF Init, MutualExclusion, Critical, FreshOut, DumpIsSnapshot
  <2>2. Init => AllocInv
    BY RecorderAssumption DEF Init, AllocInv, WritesWithinAllocation, RecorderAssumption
  <2>3. Init => TypeOK
    BY TypeInit
  <2> QED  BY <2>1, <2>2, <2>3 DEF RecorderInv
<1>2. RecorderInv /\ [Next]_vars => RecorderInv'
  BY RecorderAssumption, TypeStep, ExclusionStep, AllocStep, SnapshotStep DEF RecorderInv
<1> QED  BY <1>1, <1>2, PTL DEF Spec

\* At most one thread, worker or poller, is inside a critical section.
THEOREM RecorderExclusion == Spec => []MutualExclusion
BY RecorderSafe, PTL DEF RecorderInv

\* The pollers write inside the allocation, whatever the heap grants or refuses,
\* unless max_events times the size of an event wrapped.
THEOREM RecorderCapacity == Spec => []WritesWithinAllocation
BY RecorderSafe, PTL DEF RecorderInv, AllocInv

\* In events: no wrap, and there is room for g_capacity of them behind g_events.
THEOREM RecorderAllocation == Spec => [](capacity * EventSize < SizeLimit => CapacityIsAllocated)
<1>1. RecorderInv /\ capacity * EventSize < SizeLimit => CapacityIsAllocated
  <2>1. RecorderInv => allocated \in Nat
    BY RecorderAssumption DEF RecorderInv, TypeOK, RecorderAssumption
  <2> QED  BY <2>1 DEF RecorderInv, AllocInv, CapacityIsAllocated
<1> QED  BY <1>1, RecorderSafe, PTL

\* A dump is the recording at one moment, whatever runs beside it.
THEOREM RecorderDump == Spec => []DumpIsSnapshot
BY RecorderSafe, PTL DEF RecorderInv

\* No step rewrites, reorders or removes single events of the recording.
THEOREM RecorderAppends == Spec => AppendOrReset
<1>1. RecorderInv /\ [Next]_vars =>
        [\/ events' = <<>>
         \/ Len(events') = Len(events) + 1 /\ SubSeq(events', 1, Len(events)) = events]_events
  <2>1. SUFFICES ASSUME RecorderInv, [Next]_vars, events' # events, events' # <<>>
                 PROVE  /\ Len(events') = Len(events) + 1
                        /\ SubSeq(events', 1, Len(events)) = events
    OBVIOUS
  <2>2. PICK t \in Threads : events' = Append(events, sample[t])
    BY <2>1, RecorderAssumption, EventsStep DEF RecorderInv
  <2>3. events \in Seq(Inputs) /\ sample[t] \in Inputs /\ Len(events) \in Nat
    BY <2>1, LenProperties DEF RecorderInv, TypeOK
  <2>4. SubSeq(Append(events, sample[t]), 1, Len(events)) = events
    BY <2>3, SubSeqOfAppend, SubSeqFull
  <2> QED  BY <2>2, <2>3, <2>4, AppendProperties
<1> QED  BY <1>1, RecorderSafe, PTL DEF Spec, AppendOrReset

-----------------------------------------------------------------------------
(* One start or stop at a time *)

\* The part of start and stop that must not overlap with another of them: from
\* the first critical section to the end of what follows it without the mutex.
Control == {"start_cs", "create", "launch", "scrap", "abort_lock", "abort_cs",
            "stop_cs", "join", "wait", "close", "zero"}
SerialControl ==
  \A v, w \in Workers : wpc[v] \in Control /\ wpc[w] \in Control => v = w

\* What g_real_thread stands for: nothing or a thread that was closed before it
\* ran; a thread that polls; one that polls or has seen the flag fall.
Gone   == handle = NoThread \/ (handle \in Threads /\ tpc[handle] = "dead")
Up     == handle \in Threads /\ tpc[handle] \in Running
Ending == handle \in Threads /\ tpc[handle] \in Running \cup {"exited"}

\* The flag and the thread at each point of start and stop, and outside them.
Stage(w) ==
  /\ wpc[w] \in {"create", "abort_lock", "abort_cs"} => recording /\ Gone
  /\ wpc[w] \in {"launch", "scrap"} => recording /\ handle \in Threads /\ tpc[handle] = "created"
  /\ wpc[w] = "join" => ~recording /\ (Gone \/ Ending)
  /\ wpc[w] = "wait" => ~recording /\ Ending /\ waitOn[w] = handle
  /\ wpc[w] = "close" => ~recording /\ handle \in Threads /\ tpc[handle] \in {"exited", "dead"}
  /\ wpc[w] = "zero" => ~recording /\ handle \in Threads /\ tpc[handle] \in {"none", "dead"}
Settled ==
  (\A w \in Workers : wpc[w] \notin Control \ {"start_cs", "stop_cs"}) => IF recording THEN Up ELSE Gone

ThreadInv ==
  /\ NoThreadLost
  /\ NoThreadClosedAlive
  /\ \A w \in Workers : Stage(w)
  /\ Settled

\* A thread that has not reset g_last_real_state yet finds the recording empty,
\* and what is about to be appended differs from g_last_real_state still.
FilterInv ==
  /\ RecordingIsFiltered
  /\ \A w \in Workers : wpc[w] \in {"create", "launch", "scrap"} => events = <<>>
  /\ \A t \in Threads : tpc[t] = "init" => events = <<>>
  /\ \A t \in Threads : tpc[t] \in {"lock", "append"} => Changed(sample[t], last)

\* A step of start or stop: nobody else is in the part that must not overlap.
LEMMA ControlStep ==
  ASSUME RecorderAssumption, TypeOK, SerialControl, ThreadInv, NEW w \in Workers,
         \/ StartReset(w) \/ CreateThread(w) \/ LaunchThread(w) \/ ScrapThread(w) \/ AbortStart(w)
         \/ StopRecording(w) \/ Join(w) \/ Joined(w) \/ CloseJoined(w) \/ ZeroHandle(w)
  PROVE  ThreadInv'
<1> USE DEF RecorderAssumption, Goto, MoveTo, Unlock, lockVars, dataVars, threadVars
<1>0. /\ wpc \in [Workers -> WorkerPCs] /\ tpc \in [Threads -> ThreadPCs]
      /\ waitOn \in [Workers -> Threads \cup {NoThread}] /\ handle \in Threads \cup {NoThread}
      /\ NoThread \notin Threads
      /\ NoThreadLost /\ NoThreadClosedAlive /\ Stage(w) /\ Settled
  BY DEF TypeOK, ThreadInv
<1>1. \A v \in Workers \ {w} : wpc'[v] = wpc[v] /\ wpc[v] \notin Control
  BY <1>0 DEF SerialControl, Control, StartReset, CreateThread, LaunchThread, ScrapThread, AbortStart,
              StopRecording, Join, Joined, CloseJoined, ZeroHandle
<1>2. \A v \in Workers \ {w} : Stage(v)'
  BY <1>1 DEF Stage, Control
<1>3. (wpc[w] \in {"start_cs", "stop_cs"}) => IF recording THEN Up ELSE Gone
  BY <1>0, <1>1 DEF Settled
<1>4. SUFFICES /\ NoThreadLost' /\ NoThreadClosedAlive' /\ Stage(w)'
               /\ wpc'[w] \notin Control \ {"start_cs", "stop_cs"} => (IF recording THEN Up ELSE Gone)'
  BY <1>2 DEF ThreadInv, Settled
<1> USE DEF Stage, Control
<1>5. CASE StartReset(w)
  BY <1>0, <1>3, <1>5 DEF StartReset, NoThreadLost, NoThreadClosedAlive, Gone
<1>6. CASE CreateThread(w)
  BY <1>0, <1>6 DEF CreateThread, Unused, NoThreadLost, NoThreadClosedAlive, Gone
<1>7. CASE LaunchThread(w)
  BY <1>0, <1>7 DEF LaunchThread, NoThreadLost, NoThreadClosedAlive, Up, Running
<1>8. CASE ScrapThread(w)
  <2>1. handle' = handle /\ recording' = recording /\ recording /\ wpc'[w] = "abort_lock"
    BY <1>0, <1>8 DEF ScrapThread
  <2>2. \A t \in Threads : tpc'[t] = IF t = handle THEN "dead" ELSE tpc[t]
    BY <1>0, <1>8 DEF ScrapThread, CloseThread, Closed
  <2> QED BY <1>0, <1>8, <2>1, <2>2 DEF ScrapThread, NoThreadLost, NoThreadClosedAlive, Gone
<1>9. CASE AbortStart(w)
  BY <1>0, <1>9 DEF AbortStart, NoThreadLost, NoThreadClosedAlive, Gone
<1>10. CASE StopRecording(w)
  BY <1>0, <1>3, <1>10 DEF StopRecording, NoThreadLost, NoThreadClosedAlive, Gone, Ending, Up
<1>11. CASE Join(w)
  BY <1>0, <1>11 DEF Join, NoThreadLost, NoThreadClosedAlive, Gone, Ending, Running
<1>12. CASE Joined(w)
  BY <1>0, <1>12 DEF Joined, NoThreadLost, NoThreadClosedAlive, Ending, Running
<1>13. CASE CloseJoined(w)
  <2>1. /\ handle' = handle /\ recording' = recording /\ ~recording /\ wpc'[w] = "zero"
        /\ handle \in Threads /\ tpc[handle] \in {"exited", "dead"}
    BY <1>0, <1>13 DEF CloseJoined
  <2>2. \A t \in Threads : tpc'[t] = IF t = handle THEN (IF tpc[t] = "exited" THEN "none" ELSE "dead") ELSE tpc[t]
    BY <1>0, <1>13, <2>1 DEF CloseJoined, CloseThread, Closed, Running
  <2> QED BY <1>0, <2>1, <2>2 DEF NoThreadLost, NoThreadClosedAlive
<1>14. CASE ZeroHandle(w)
  BY <1>0, <1>14 DEF ZeroHandle, NoThreadLost, NoThreadClosedAlive, Gone
<1> QED  BY <1>5, <1>6, <1>7, <1>8, <1>9, <1>10, <1>11, <1>12, <1>13, <1>14

\* A worker that is neither starting nor stopping touches neither flag nor thread.
LEMMA OtherWorkerStep ==
  ASSUME TypeOK, ThreadInv, NEW w \in Workers,
         \/ Lock(w) \/ Status(w) \/ StartRefused(w) \/ ClearEvents(w) \/ CopyEvent(w) \/ DumpDone(w)
         \/ SaveEmpty(w) \/ SaveEvents(w)
         \/ \E a \in AllActions, n \in Preallocs : Call(w, a, n)
  PROVE  ThreadInv'
<1>1. UNCHANGED <<recording, handle, tpc, waitOn>>
  BY DEF Lock, Status, StartRefused, ClearEvents, CopyEvent, DumpDone, SaveEmpty, SaveEvents, Call,
         dataVars, threadVars
<1>2. \A v \in Workers : wpc'[v] = wpc[v] \/ wpc'[v] \notin Control \ {"abort_cs", "start_cs", "stop_cs"}
  BY DEF TypeOK, Lock, LockStart, LockAbort, LockStop, LockClear, LockDump, LockSave, LockStatus,
         Acquire, Status, StartRefused, ClearEvents, CopyEvent, DumpDone, SaveEmpty,
         SaveEvents, Call, Goto, Control
<1>3. \A v \in Workers : wpc'[v] = "abort_cs" => wpc[v] \in {"abort_lock", "abort_cs"}
  BY DEF TypeOK, Lock, LockStart, LockAbort, LockStop, LockClear, LockDump, LockSave, LockStatus,
         Acquire, Status, StartRefused, ClearEvents, CopyEvent, DumpDone, SaveEmpty,
         SaveEvents, Call, Goto
<1>4. \A v \in Workers : wpc'[v] \notin Control \ {"start_cs", "stop_cs"} => wpc[v] \notin Control \ {"start_cs", "stop_cs"}
  BY DEF TypeOK, Lock, LockStart, LockAbort, LockStop, LockClear, LockDump, LockSave, LockStatus,
         Acquire, Status, StartRefused, ClearEvents, CopyEvent, DumpDone, SaveEmpty,
         SaveEvents, Call, Goto, Control
<1>5. \A v \in Workers : Stage(v)'
  BY <1>1, <1>2, <1>3 DEF ThreadInv, Stage, Gone, Ending, Control
<1>6. Settled'
  BY <1>1, <1>4 DEF ThreadInv, Settled, Gone, Up
<1> QED  BY <1>1, <1>5, <1>6 DEF ThreadInv, NoThreadLost, NoThreadClosedAlive

\* The poller is the thread the handle names, and leaves only when the flag fell.
LEMMA PollerThreadStep ==
  ASSUME RecorderAssumption, TypeOK, ThreadInv, NEW t \in Threads, PollerStep(t)
  PROVE  ThreadInv'
<1> USE DEF RecorderAssumption, ThreadInv
<1>1. tpc[t] \in Running /\ t = handle /\ UNCHANGED <<recording, handle, wpc, waitOn>>
  BY DEF PollerStep, PollerBegin, PollerTest, PollerQuiet, PollerChange, PollerLock, PollerOverrun, PollerAppend,
         NoThreadLost, Running, dataVars, workerVars
<1>2. /\ tpc'[t] \in Running \cup {"exited"} /\ (recording => tpc'[t] \in Running)
      /\ \A u \in Threads \ {t} : tpc'[u] = tpc[u]
  BY DEF PollerStep, PollerBegin, PollerTest, PollerQuiet, PollerChange, PollerLock, PollerOverrun, PollerAppend,
         MoveTo, Running, TypeOK
<1>3. ~Gone
  BY <1>1 DEF Gone, Running
<1>4. NoThreadLost' /\ NoThreadClosedAlive'
  BY <1>1, <1>2 DEF NoThreadLost, NoThreadClosedAlive, Running
<1>5. \A w \in Workers : Stage(w)'
  BY <1>1, <1>2, <1>3 DEF Stage, Ending, Running
<1>6. Settled'
  BY <1>1, <1>2, <1>3 DEF Settled, Up
<1> QED  BY <1>4, <1>5, <1>6

LEMMA ThreadStep ==
  ASSUME RecorderAssumption, TypeOK, SerialControl, ThreadInv, [Next]_vars
  PROVE  ThreadInv'
<1>1. ASSUME UNCHANGED vars
      PROVE  ThreadInv'
  BY <1>1 DEF vars, dataVars, threadVars, workerVars, ThreadInv, NoThreadLost, NoThreadClosedAlive,
              Stage, Settled, Gone, Up, Ending
<1>2. ASSUME NEW w \in Workers, WorkerStep(w)
      PROVE  ThreadInv'
  BY <1>2, ControlStep, OtherWorkerStep DEF WorkerStep
<1> QED  BY <1>1, <1>2, OtherWorkerStep, PollerThreadStep DEF Next

\* The filter compares both ways.
LEMMA ChangedBothWays == \A a, b : Changed(a, b) => Changed(b, a)
BY DEF Changed

\* The events of an extended sequence, the last one included.
LEMMA AppendedEvents ==
  ASSUME NEW S, NEW s \in Seq(S), NEW x \in S
  PROVE  /\ Append(s, x) \in Seq(S) /\ Len(Append(s, x)) = Len(s) + 1 /\ Len(s) \in Nat
         /\ \A k \in 1 .. Len(s) : Append(s, x)[k] = s[k]
         /\ Append(s, x)[Len(s) + 1] = x
         /\ s = <<>> <=> Len(s) = 0
BY AppendProperties, LenProperties, EmptySeq

\* An append keeps the recording filtered.
LEMMA FilterAppend ==
  ASSUME RecorderAssumption, TypeOK, ThreadInv, FilterInv, NEW t \in Threads, PollerAppend(t)
  PROVE  FilterInv'
<1> USE DEF FilterInv, RecorderAssumption
<1>0. /\ events \in Seq(Inputs) /\ sample[t] \in Inputs /\ tpc[t] = "append" /\ tpc \in [Threads -> ThreadPCs]
      /\ last' = sample[t] /\ UNCHANGED <<wpc, handle>>
      /\ Changed(sample[t], last) /\ t = handle
  BY DEF TypeOK, PollerAppend, workerVars, ThreadInv, NoThreadLost
<1>1. tpc'[t] = "loop" /\ \A u \in Threads \ {t} : tpc'[u] = tpc[u] /\ tpc[u] \in {"none", "dead"}
  BY <1>0 DEF PollerAppend, MoveTo, ThreadInv, NoThreadLost
<1>2. \A w \in Workers : wpc'[w] \notin {"create", "launch", "scrap"}
  BY <1>0 DEF ThreadInv, Stage, Gone
<1>3. RecordingIsFiltered'
  <2>1. CASE gap'
    BY <2>1 DEF RecordingIsFiltered
  <2>2. CASE ~gap' /\ events' = Append(events, sample[t]) /\ gap' = gap
    <3>1. /\ \A k \in 1 .. Len(events) - 1 : Changed(events[k], events[k + 1])
          /\ events # <<>> => last = events[Len(events)]
      BY <2>2 DEF RecordingIsFiltered
    <3>2. SUFFICES /\ \A k \in 1 .. Len(events') - 1 : Changed(events'[k], events'[k + 1])
                   /\ last' = events'[Len(events')]
      BY DEF RecordingIsFiltered
    <3>3. /\ Len(events') = Len(events) + 1 /\ Len(events) \in Nat
          /\ \A k \in 1 .. Len(events) : events'[k] = events[k]
          /\ events'[Len(events) + 1] = sample[t]
          /\ events = <<>> <=> Len(events) = 0
      BY <1>0, <2>2, AppendedEvents
    <3>4. ASSUME NEW k \in 1 .. Len(events) PROVE Changed(events'[k], events'[k + 1])
      <4>1. CASE k < Len(events)
        BY <3>1, <3>3, <4>1
      <4>2. CASE k = Len(events)
        <5>1. events'[k] = last /\ events'[k + 1] = sample[t]
          BY <3>1, <3>3, <4>2
        <5> QED  BY <1>0, <5>1, ChangedBothWays
      <4> QED  BY <3>3, <4>1, <4>2
    <3> QED  BY <1>0, <3>3, <3>4
  <2> QED  BY <2>1, <2>2, Zenon DEF PollerAppend, Record
<1> QED  BY <1>1, <1>2, <1>3

\* So do all other steps, as long as starts and stops do not overlap.
LEMMA FilterStep ==
  ASSUME RecorderAssumption, TypeOK, SerialControl, ThreadInv, FilterInv, [Next]_vars
  PROVE  FilterInv'
<1> USE DEF FilterInv, Goto, MoveTo
<1>0. /\ wpc \in [Workers -> WorkerPCs] /\ tpc \in [Threads -> ThreadPCs]
      /\ handle \in Threads \cup {NoThread} /\ sample \in [Threads -> Inputs]
  BY DEF TypeOK
<1>1. ASSUME UNCHANGED <<events, gap, last, sample, tpc>>,
             \A v \in Workers : wpc'[v] \in {"create", "launch", "scrap"} => wpc[v] \in {"create", "launch", "scrap"}
      PROVE  FilterInv'
  BY <1>1 DEF RecordingIsFiltered, Changed
<1>2. ASSUME NEW w \in Workers,
             \/ Lock(w) \/ Status(w) \/ StartRefused(w) \/ CopyEvent(w) \/ DumpDone(w) \/ SaveEmpty(w)
             \/ SaveEvents(w) \/ \E a \in AllActions, n \in Preallocs : Call(w, a, n)
      PROVE  FilterInv'
  <2>1. \A v \in Workers : wpc'[v] = wpc[v] \/ wpc'[v] \notin {"create", "launch", "scrap"}
    BY <1>0, <1>2 DEF Lock, LockStart, LockAbort, LockStop, LockClear, LockDump, LockSave, LockStatus,
         Acquire, Status, StartRefused, CopyEvent, DumpDone, SaveEmpty, SaveEvents, Call
  <2>2. UNCHANGED <<events, gap, last, sample, tpc>>
    BY <1>2 DEF Lock, Status, StartRefused, CopyEvent, DumpDone, SaveEmpty, SaveEvents, Call,
                dataVars, threadVars
  <2> QED  BY <1>1, <2>1, <2>2
<1>3. ASSUME NEW w \in Workers, AbortStart(w) \/ StopRecording(w) \/ Join(w) \/ Joined(w) \/ ZeroHandle(w)
      PROVE  FilterInv'
  <2>1. \A v \in Workers : wpc'[v] = wpc[v] \/ wpc'[v] \notin {"create", "launch", "scrap"}
    BY <1>0, <1>3 DEF AbortStart, StopRecording, Join, Joined, ZeroHandle
  <2>2. UNCHANGED <<events, gap, last, sample, tpc>>
    BY <1>3 DEF AbortStart, StopRecording, Join, Joined, ZeroHandle, dataVars, threadVars
  <2> QED  BY <1>1, <2>1, <2>2
<1>4. ASSUME NEW w \in Workers, ScrapThread(w) \/ CloseJoined(w)
      PROVE  FilterInv'
  <2>1. \A v \in Workers : wpc'[v] = wpc[v] \/ wpc'[v] \notin {"create", "launch", "scrap"}
    BY <1>0, <1>4 DEF ScrapThread, CloseJoined
  <2>2. UNCHANGED <<events, gap, last, sample>> /\ CloseThread
    BY <1>4 DEF ScrapThread, CloseJoined, dataVars
  <2>3. \A t \in Threads : tpc'[t] \in {"init", "lock", "append"} => tpc[t] = tpc'[t]
    BY <2>2, <1>0 DEF CloseThread, Closed, Running
  <2> QED  BY <2>1, <2>2, <2>3 DEF RecordingIsFiltered, Changed
<1>5. ASSUME NEW w \in Workers, ClearEvents(w)
      PROVE  FilterInv'
  <2>1. events' = <<>> /\ UNCHANGED <<last, sample, tpc>> /\ Len(<<>>) = 0
    BY <1>5 DEF ClearEvents, threadVars
  <2> QED  BY <2>1 DEF RecordingIsFiltered, Changed
<1>6. ASSUME NEW w \in Workers, StartReset(w)
      PROVE  FilterInv'
  <2>1. events' = <<>> /\ UNCHANGED <<sample, tpc>> /\ Len(<<>>) = 0
    BY <1>6 DEF StartReset, threadVars
  <2>2. \A v \in Workers : wpc[v] \notin Control \ {"start_cs", "stop_cs"}
    BY <1>6 DEF StartReset, SerialControl, Control
  <2>3. Gone
    BY <1>6, <2>2 DEF StartReset, ThreadInv, Settled
  <2>4. \A t \in Threads : tpc[t] \in {"none", "dead"}
    BY <2>3, RecorderAssumption DEF Gone, ThreadInv, NoThreadLost, RecorderAssumption
  <2> QED  BY <2>1, <2>4 DEF RecordingIsFiltered
<1>7. ASSUME NEW w \in Workers, CreateThread(w) \/ LaunchThread(w)
      PROVE  FilterInv'
  <2>1. UNCHANGED <<events, gap, last, sample>> /\ events = <<>>
    BY <1>7 DEF CreateThread, LaunchThread, dataVars
  <2>2. \A t \in Threads : tpc'[t] \in {"lock", "append"} => tpc[t] = tpc'[t]
    BY <1>0, <1>7 DEF CreateThread, LaunchThread
  <2> QED  BY <2>1, <2>2 DEF RecordingIsFiltered, Changed
<1>8. ASSUME NEW t \in Threads, PollerBegin(t)
      PROVE  FilterInv'
  <2>1. /\ events' = <<>> /\ UNCHANGED <<gap, sample, wpc>> /\ Len(<<>>) = 0
    BY <1>8 DEF PollerBegin, workerVars
  <2>2. \A u \in Threads : tpc'[u] \notin {"lock", "append"}
    BY <1>0, <1>8 DEF PollerBegin, ThreadInv, NoThreadLost
  <2> QED  BY <2>1, <2>2 DEF RecordingIsFiltered
<1>9. ASSUME NEW t \in Threads, PollerTest(t) \/ PollerQuiet(t) \/ PollerLock(t) \/ PollerOverrun(t)
      PROVE  FilterInv'
  <2>1. UNCHANGED <<events, gap, last, sample, wpc>>
    BY <1>9 DEF PollerTest, PollerQuiet, PollerLock, PollerOverrun, dataVars, workerVars
  <2>2. \A u \in Threads : /\ tpc'[u] # "init" \/ tpc[u] = "init"
                           /\ tpc'[u] \in {"lock", "append"} => tpc[u] \in {"lock", "append"}
    BY <1>0, <1>9 DEF PollerTest, PollerQuiet, PollerLock, PollerOverrun
  <2> QED  BY <2>1, <2>2 DEF RecordingIsFiltered, Changed
<1>10. ASSUME NEW t \in Threads, PollerChange(t)
      PROVE  FilterInv'
  <2>1. UNCHANGED <<events, gap, last, wpc>> /\ Changed(sample'[t], last)
    BY <1>0, <1>10 DEF PollerChange, dataVars, workerVars
  <2>2. /\ tpc'[t] = "lock"
        /\ \A u \in Threads \ {t} : tpc'[u] = tpc[u] /\ sample'[u] = sample[u]
    BY <1>0, <1>10 DEF PollerChange
  <2> QED  BY <2>1, <2>2 DEF RecordingIsFiltered, Changed
<1>11. ASSUME UNCHANGED vars
      PROVE  FilterInv'
  BY <1>1, <1>11 DEF vars, dataVars, threadVars, workerVars
<1>12. ASSUME NEW w \in Workers, WorkerStep(w)
      PROVE  FilterInv'
  BY <1>2, <1>3, <1>4, <1>5, <1>6, <1>7, <1>12 DEF WorkerStep
<1>13. ASSUME NEW t \in Threads, PollerStep(t)
      PROVE  FilterInv'
  BY <1>8, <1>9, <1>10, <1>13, FilterAppend DEF PollerStep
<1> QED  BY <1>2, <1>11, <1>12, <1>13 DEF Next

LEMMA SerialInit == Init => ThreadInv /\ FilterInv
<1>1. Len(<<>>) = 0
  OBVIOUS
<1>2. Init => ThreadInv
  BY RecorderAssumption
     DEF RecorderAssumption, Init, ThreadInv, NoThreadLost, NoThreadClosedAlive, Stage, Settled, Gone
<1>3. Init => FilterInv
  BY <1>1 DEF Init, FilterInv, RecordingIsFiltered
<1> QED  BY <1>2, <1>3

\* As long as no two starts or stops overlap, with any number of dumps, clears
\* and saves beside them, the flag, the thread and the recording stay together.
THEOREM RecorderSerial == Spec /\ []SerialControl => [](ThreadInv /\ FilterInv)
<1>1. TypeOK /\ SerialControl /\ ThreadInv /\ FilterInv /\ [Next]_vars => (ThreadInv /\ FilterInv)'
  BY RecorderAssumption, ThreadStep, FilterStep
<1> QED  BY <1>1, SerialInit, TypeCorrect, PTL DEF Spec

\* Then there are never two polling threads (comment at line 21).
THEOREM RecorderOnePoller == Spec /\ []SerialControl => []OnePoller
<1>1. ThreadInv => OnePoller
  BY DEF ThreadInv, NoThreadLost, OnePoller, Running
<1> QED  BY <1>1, RecorderSerial, PTL

\* Then each thread that has resources is the one the next stop will release.
THEOREM RecorderNoThreadLost == Spec /\ []SerialControl => []NoThreadLost
BY RecorderSerial, PTL DEF ThreadInv

\* Then no thread is closed before it has exited, unless it never ran.
THEOREM RecorderNoThreadClosedAlive == Spec /\ []SerialControl => []NoThreadClosedAlive
BY RecorderSerial, PTL DEF ThreadInv

\* Then "recording=" is true between calls.
THEOREM RecorderFlag == Spec /\ []SerialControl => []FlagMatchesPoller
<1>1. ThreadInv => FlagMatchesPoller
  <2> SUFFICES ASSUME ThreadInv, \A w \in Workers : wpc[w] = "idle"
               PROVE  recording <=> \E t \in Threads : tpc[t] \in Running
    BY DEF FlagMatchesPoller
  <2>1. IF recording THEN Up ELSE Gone
    BY DEF ThreadInv, Settled, Control
  <2>2. Gone => \A t \in Threads : tpc[t] \notin Running
    BY RecorderAssumption DEF RecorderAssumption, Gone, ThreadInv, NoThreadLost, Running
  <2>3. Up => \E t \in Threads : tpc[t] \in Running
    BY DEF Up
  <2> QED  BY <2>1, <2>2, <2>3
<1> QED  BY <1>1, RecorderSerial, PTL

\* Then a recording that has lost no event is filtered.
THEOREM RecorderFiltered == Spec /\ []SerialControl => []RecordingIsFiltered
BY RecorderSerial, PTL DEF FilterInv

=============================================================================
