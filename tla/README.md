# A verification of switch-mcp-server

switch-mcp-server is a Nintendo Switch sysmodule: it serves the Model Context
Protocol over HTTP on port 12345 so that a client can press buttons on a
virtual pad, record the physical one, capture the screen and work on files of
the SD card. This directory holds TLA+ models of its components, TLC
configurations that check them on small instances, and proofs, checked by
TLAPS, of what holds for every instance.

Run a check with `tlc -workers 2 -config <X>.cfg <MC module>` (PROJECT.json
says which module goes with which configuration), a proof with
`tlapm <X>Proofs.tla`.

## 1. Inventory

| Component | Source | State it keeps | Operations |
|---|---|---|---|
| Listener and worker pool | `transport/streamable_http.c` | `listen_fd`; per worker `worker_client_fd`, `worker_busy` | `run` (start, listen, accept, hand over, reject), `worker_func` |
| Request reader | `transport/streamable_http.c` | a buffer per request, `total`, `buf_size`, `need` | `recv_full_request`, `get_header` |
| SSE table and heartbeat | `transport/sse.c` | `sse_connections`, `sse_connection` | `add_sse_connection`, `free_connection`, `notificate_all`, the heartbeat loop |
| JSON-RPC dispatch, registry | `transport/http.c`, `registry.c` | `session_id`; the tables of tools and resources | `handle_http_request`, `registry_call_tool`, `registry_read_resource` |
| Virtual controller | `tools/controller.c` | `initialized`, the two input states, `workmem`, the HDLS handle and thread, `hdlStateMutex` | `call_controller`, `controllerInitialize`, `hdls_state_thread` |
| Controller recorder | `tools/controller_recorder.c` | `g_recording`, `g_events`/`g_count`/`g_capacity`, `g_last_real_state`, `g_real_thread`, `g_recorderMutex` | start, stop, clear, dump, save; `real_poll_thread` |
| SD-card file tool | `tools/fs_ops.c` | none in memory; the file system | `call_fs_ops`: stat, list, read, write, mkdir, delete; `read_file_resource` |
| Screen capture | `tools/cur_frame.c` | the heap | `capture_jpeg_screenshot` and its two callers |
| System information | `tools/system_info.c` | none | `build_system_status` and its two callers |
| Logging | `util/log.c` | `log_mutex`, `log_file`, the static `timebuf` | `log_write`, `cur_time` |
| Boot and exit | `main.c` | the heap, the services | start everything, sleep |
| cJSON, stb_base64 | `third_party/` | vendored | |

**How they interact.** `main` starts `run` (the listener) and the heartbeat.
`run` starts `WORKER_COUNT` workers and gives each accepted connection to one
of them through two plain variables that the worker polls. A worker reads the
request (`recv_full_request`) and either registers the connection with the SSE
table, from where the heartbeat thread uses and closes it, or lets
`handle_http_request` answer and closes it. The dispatch calls a tool of the
registry on the worker's own thread, so that two workers can be inside one tool
at once; the controller and the recorder have a thread of their own each, which
share state with the workers that call them.

**Which scheduling.** config.json pins the process to one core, and every
thread is created with the same priority. The kernel does not preempt among
equals, so threads change places at kernel calls: IPC (hid, file I/O, sockets),
sleeping, thread calls, contended mutexes, and the file I/O of every log line.
A step of the models ends at such a call; shared state accessed between two of
them is accessed in one step. The recorder model is finer (every access to
shared state outside a critical section is a step), so that its results do not
depend on this.

**What is hard here**, and what a correct component does about it:

* *Pool*: the hand-over is two writes and a polled flag without a lock. Correct
  means that every open connection has exactly one thread that will close it.
* *SSE table*: three threads work on an array without a lock, keep indices
  across kernel calls, and descriptor numbers are reused at once. Correct means
  that a slot, its session and its connection stay together, nobody closes a
  connection that belongs to somebody else, no session has two slots, and a dead
  connection is closed in the end.
* *Recorder*: a thread that is started, told to stop, waited for and closed by
  whoever calls, with an allocation that may fail at each change. Correct means
  one poller at a time, no thread lost or closed alive, a recording that only
  grows or restarts, a dump that is a snapshot, and calls that return.
* *Controller*: lazy initialisation with five ways to fail, a thread that
  exchanges two states while others write one of them, a console that drops the
  pad at any time. Correct means one thread, one pad, each input offered once
  before it is released, and long presses that stay; all this holds only until two
  first calls meet (section 5).
* *Dispatch*: a chain of some fifteen branches that reply and return, and a
  session id in a static buffer shared by the workers. Correct means one reply
  to each request, whether or not it can be printed, and the right refusal.
* *Reader*: a peer that cuts its request up at will and lies about its length.
  Correct means never a byte behind the buffer, and a whole request when it fits.
* *Tools*: two workers on one card, one heap and one log file, where every open,
  write and malloc may fail and every way out has its own list of things to give
  back. Correct means nothing kept, a read that is the file or fails, a write
  that reports success only when its bytes were accepted, a refusal that leaves the file
  alone, and whole log lines.

PROJECT.json lists each such hazard at its line, with the properties that cover
it or the reason why none does.

## 2. Plan

In the order of the importance of the behaviour; (1) to (8) are built.

1. `Recorder`, `RecorderProofs`: the component with most shared state.
2. `WorkerPool`, `WorkerPoolProofs`: the way of every connection.
3. `SseTable`, `SseTableProofs`: the unlocked table.
4. `VirtualPad`, `Controller`, `ControllerProofs`, `ControllerPadProofs`: an abstract
   pad and the two buffers, the thread and the lock that implement it.
5. `HttpDispatch`, `HttpDispatchProofs`.
6. `RequestReader`, `RequestReaderProofs`.
7. `Streams`: what the SSE table promises its clients, implemented by `SseTable`.
8. `Log`, `ToolCall`, `FsOps`, `Base64`, `CurFrame`, composed in `Tools`;
   `ToolsProofs`: the tools that share the card, the heap and the log.
9. Left, `Server`: `WorkerPool` and `SseTable` composed over one set of descriptors.
   Each is modelled with what it needs of the other (`SseCloses`; `Accept`,
   `Post`), so that this adds the hand-over between them.
10. Proofs: every invariant, every action property and both refinements that the passing
    runs check are stated by a theorem. Left is what the prover cannot reach, the
    liveness properties (end of section 6).

## 3. The modules and the code

Each module names the functions it models in section comments, keeps the
source's names for variables, and `map` in PROJECT.json gives the lines of each
definition. An operator whose comment starts with "Mutant" is not part of a
specification: it is a plausible bug, kept to show that a property would notice.

### Recorder

The workers' program counters follow the five branches of
`call_controller_recorder`: take the lock, do the critical section, release it.
`start` sets `g_recording`, preallocates, creates and starts the thread, each of
which can fail; `stop` clears the flag, unlocks, waits for the thread and
closes it. `threadWaitForExit` and `threadClose` read the shared `g_real_thread`
when they are called, and closing a thread that runs unmaps its stack
(`"faulted"`). The poller reads the pad, compares with `g_last_real_state`
*outside* the lock, then locks and appends, growing by `realloc`. A sample is a
button mask and one stick axis, filtered as `real_state_changed` does. libnx's `Mutex`
is not recursive: locking it again waits for ever.

Sizes are counted in bytes. `SizeOf` is the conversion of the client's number to
`size_t`, `Bytes` the product with `EventSize`, which wraps at `SizeLimit`, and a
`realloc` may grant what is within `HeapBytes`. `allocated` is what lies behind
`g_events`, and need not be what `g_capacity` says; a poller that would write past it
goes to `"overrun"`, where the process is lost.

### WorkerPool

`Spawn` to `ScanDone` and `Reject` are `run`; `Take` to `Release` are
`worker_func`. What the peer asks for is open: `Serve` answers, `Register` hands
the descriptor to the SSE table (`sse`), which closes it in `SseCloses`.
An accept that fails forgets `listen_fd`; `stale` says that the abandoned socket
still holds the port, in which case the next bind fails.

### SseTable

`count` and `slots` are the table. The worker's steps follow
`add_sse_connection`: full, reuse of the slot of a known session (log, close,
store), a new slot (store, malloc, count, log, header). The heartbeat's steps
follow `notificate_all` and `free_connection`: send, and on failure close,
free, compact, and stay at the index. Descriptors are numbers with the lowest free
one given out next, as newlib does; `conn` says which connection a number
stands for now. A send fails when the number is closed or the peer has gone; it
may still succeed a while after the peer went, as TCP does.

`met` is a history variable that no guard reads: it becomes true when a reconnect
holds the index of its slot while the heartbeat is on its way through the table, or
while another reconnect holds the same index. What the table promises about single connections is stated for
the executions where this has not happened; finding 2 shows what happens when
it does. What it promises about sessions (`SessionsUnique`) has no such condition.

A connection may be a GET, which becomes a stream, or any other request of its
session, which is answered and closed; a worker decides after it has accepted it.

### Streams

`Streams` is the table seen by its clients: a connection is new, held by a worker, a
stream or closed, and a stream ends when its peer has gone or when a connection of
the same session takes its place. `SseTable` maps *new* to connections not yet
accepted, *closed* to those no descriptor stands for, *held* to those in a
worker's hands, *stream* to the rest (`Fate`). `KeepsItsPromise` says that
every step is one of `Streams` until `met`; from then on nothing is promised,
for the reason of finding 2.

### VirtualPad and Controller

`VirtualPad` is what the tool promises: one pad that plays one input at a time, a
posted input that waits and replaces another waiting one, an input that is offered
to the console at least once, long presses that end only with the next input.

`Controller` is the code: `Call` and `Begin` test `initialized`; `Clear` to
`Launched` are `controllerInitialize` with its failure paths (including the close and
free of the thread and the work buffer); `Lock`, `Write` and
`Flags` post an input; `Query` to `Swap` are one turn of `hdls_state_thread`. `Drop` is the
console removing the pad. The refinement maps *held* to the current state (or
rest while it is idle), *waiting* to the next state while it is not idle,
*offered* to the thread being past `hiddbgSetHdlsState`, and *shown* to the attached
pad.

Two history variables, which no guard reads, remember what nothing in the code
prevents: `raced`, that two workers have been inside `controllerInitialize` at
once, and `misled`, that a question of line 245 whose result was never looked at
has hidden a pad that is there. The properties say what the tool promises
until then: `PlaysLikeAPad` is `Pad!Init` and, for every step, `Pad!Next` or one
of the two. `WorkBufferHeld` says which step may give a mapped buffer back to the heap: the
clean-up after a failed `threadCreate`, and no other.

### HttpDispatch

A request is what the code distinguishes of it: target, kind of body, method, id,
tool name or URI. Each branch is an action; they share `Form`, which stores
the reply that the worker then sends. A tool or resource handler runs between
`Enter` and `ToolReturns`/`ResourceReturns`, and may return any value its
source can return. A reply that has been formed is sent (`Send`), or there is no memory to
print it, and the client gets HTTP 500 without a JSON-RPC answer (`Unprinted`). Where
the code does not look at the result of a `cJSON_Create...`, memory is taken to suffice.

`session_id` is shared, and its value is anything `gen_session_id` can produce, the
same one again included. `Generate` fills the buffer and `Initialize` copies it: two
steps, although no kernel call lies between them, so that nothing depends on the
scheduling of section 1. What one client is told may then be the id made for
another. Nothing in the repository says what a session id has to be (the server
neither stores nor checks it), so no property is stated about it.

### RequestReader

Bytes are counted, not stored: `total`, `size` and `need` are the code's
variables, and `Wrap` is `int` addition with overflow. The peer sends in pieces of
any size, closes or resets. `ReadHead`, `HeadTooLong`, `HeadEnds` are the header loop,
`NoLength` and `Length` the part between, `ReadBody` and `BodyEnds` the body loop.

### Tools: Log, ToolCall, FsOps, CurFrame, Base64

`ToolCall` holds what every call has: the worker's place in the code (`pc`), its
request, what it has taken and not given back (`held`: buffers, open files, JSON
objects) and the value its function returns, with the reason. An action runs to the
next kernel or stdio call that another worker could come before or that can fail.

* `Log` is `log_write`: the mutex, the file that is opened with the first line, the
  static buffer of `cur_time`, and the three prints of a line. A tool that logs
  (`Saying`) goes on when the line is out.
* `FsOps` follows `call_fs_ops` and `read_file_resource`. `MkdirStep` is one `mkdir` of
  `ensure_dir_recursive`, for which a file of that name is as good as a directory.
  `OpenRead`, `Size`, `Read` and `ReadDone` are `read_file_bytes`. `OpenWrite`, `Write` and
  `CloseWritten` are both write actions: any part of the bytes reaches the file
  in `fwrite` and the rest, or part of it, in `fclose`. The text of `write_binary` is
  modelled decoded; `Garbled` is one that does not decode. Decoding drops an incomplete last
  group without an error, so that what is written is the decoded text and not
  always what the client meant. A text is an answer up to its first zero byte.
* `CurFrame` is `capture_jpeg_screenshot` with its two buffers, and its two callers.
* `Base64` has the lengths of stb_base64 and the sizes its three callers ask for.
* `Tools` puts them side by side, adds `build_system_status` and its callers, the
  arrival of a call and `Processed`, after which the worker logs its line and the locals of
  the call are gone. Its step is one step of one worker in one of the parts.

The history variables `torn` (another worker changed the file since this one opened
it), `lost` (fclose could not write what was left) and `changed` (the call has changed a
file) are read by no guard; they say under which condition a read or a write is
whole.

## 4. The runs

| Run | Shows | Bounds |
|---|---|---|
| recorder_serial | one client: one poller, no thread lost or closed alive, the flag is truthful, the recording is filtered, every call returns | 1 worker, 2 thread identities, 2 button masks, 3 stick values, threshold 1, heap of 2 events, preallocation of 0 or 2 events |
| recorder_concurrent | two clients, all actions: exclusion, no write outside the allocation unless a size wrapped, a dump is a snapshot, the recording grows or restarts | 2 workers, 2 threads, 2 button masks, heap of 2 events of 4 bytes, bytes counted modulo 32, preallocation of -1, 2 or 9 events (-1 becomes 0, 9 wraps to 4 bytes) |
| recorder_save_hangs | finding 1 | 1 worker, one event |
| pool | every open connection has one holder, none is forgotten, and each is closed in the end or becomes a stream | 2 workers (as in the program), 3 descriptors |
| sse | table, descriptors and streams stay together unless a reconnect met the heartbeat; a session never gets two slots; a broken stream is closed in the end; the table keeps the promise of `Streams` | 2 workers, 2 slots, 3 connections of 2 sessions, each a GET or another request, 3 descriptors |
| sse_reconnect_race | finding 2 | 1 worker, else as sse |
| controller_safe | until two initialisations overlap: one thread, a mapped work buffer is freed by a failed threadCreate only, long presses stay; and until an unanswered question hides a pad: one pad, plays like the abstract pad | 2 workers that make first calls at once, 2 pads, 2 initialisations, inputs rest and a, every failure |
| controller_live | posts are taken, buttons do not stick | 1 worker, 1 pad, 2 initialisations, every failure |
| dispatch | one reply each, right refusals, and no way out of a request but a reply | 2 workers, every kind of request, 2 session ids, replies that cannot be printed |
| dispatch_refusals | finding 3 | 1 worker |
| reader | no byte behind the buffer, whole when it fits; the reader ends | buffers of 4 and 8, int up to 15 |
| tools | nothing kept on any way out, whole reads and writes, refusals that change no file, whole log lines, base64 inside its buffers | 2 workers, a directory and a file in it, files of up to 2 bytes, 18 different calls of every tool and every kind of refusal |

**Why the bounds are enough.** The interesting cases are all inside: a table and
a pool that overflow by one, a heap that refuses to grow and later does
not, a size that wraps to less than one event, a second initialisation after a failed one
or beside it, two workers in any operation,
thread identities that are reused, a request that ends one byte before, at
and after each buffer's end, an announced length that makes the int sum
overflow, a file that is removed and written anew between any two calls of its reader. Two workers are what the program has. More sessions, events or
bytes repeat these cases; for the theorems of section 6 they are covered by proof.

**Deadlock** is checked where no thread may stop (recorder_serial, the
dispatch and the tools). It is off where the bounds let the system come to
rest: no connection left, a request read, no initialisation left, every worker
waiting for the mutex that a save will not release.

**Where the claims end.** Some properties are false of the code in general. They are
stated, or checked, up to the point where they fail, and each such point is named:

* `controller_safe`: until `raced`, for one pad and `PlaysLikeAPad` until `misled` too. The
  constraint `NoClaimBeyond` stops TLC where `raced` becomes true; the step that
  makes it true is still checked. All failures, `threadCreate` and the attached-query included, and first
  calls at once are in the run.
* `recorder_concurrent`: `WritesWithinAllocation` excepts a capacity whose size in bytes has
  wrapped, and the run sends a number for which it does.
* `recorder_serial` has one caller: a `start` between the unlock and the join of a `stop` is
  out of its reach (section 5), and nothing is claimed of it.
* The SSE properties of single connections are stated for executions without `met`
  (section 3); `sse_reconnect_race` is the one with it.
* `tools`: `RefusedLeavesFiles` speaks of files. The parent directories that
  `ensure_parent_dir` made before a write was refused stay.

### Fairness

* Recorder: weak fairness of each worker and poller, because the kernel schedules
  every ready thread; strong fairness of taking the mutex, because a libnx
  mutex is handed to a waiter by the kernel (svcArbitrateUnlock).
* Pool: weak fairness of the listener's own steps, not of accept, and of the
  workers, which assumes peers that send something and tools that return:
  `recv` has no timeout and the program promises nothing to a silent peer.
* SSE: weak fairness of the threads; strong fairness of a failing send to a peer that
  has gone, because TCP gives up after its retransmissions.
* Controller: weak fairness of workers and thread, strong fairness of the mutex and of
  the hid calls that succeed (the query's answer, attach, set): the console refuses
  now and then, not for ever.
* Dispatch: none. Deadlock is checked, so that some step is always possible, and
  `EveryRequestAnswered` says that a worker leaves a request only with a reply;
  the chain has no loop.
* Tools: none. The loops of the code end with the path, the file or the directory.
* Reader: weak fairness of the reader and of a peer that goes on sending; none of a
  peer that closes.

## 5. Findings

Each is a run of its own that TLC refutes; PROJECT.json quotes the text it disagrees with.

1. `save` locks a mutex it already holds and hangs (controller_recorder.c:305).
2. A reconnect stores its descriptor at an index the heartbeat has made stale (sse.c:141).
3. A failing tool is answered as an unknown one, and a failing resource as one
   that is not there (http.c:283, :235).

The models also contain these behaviours of the code, for which no run is kept; the
properties above are stated so that they allow them. The first three are races or
wraps that break what a client relies on:

* A `start` that meets another worker's `stop` between its unlock and its join
  (controller_recorder.c:192) finds the flag clear before the old poller has, sets it again and overwrites
  `g_real_thread`: two pollers run. With a second worker in RecorderSerial.cfg TLC
  refutes `FlagMatchesPoller` and, checked alone, `OnePoller`.
* `max_events` times the size of an event is not checked (controller_recorder.c:165): from 2^64 divided by that
  size on it wraps, `realloc` grants too little, and the poller writes past it.
  `CapacityIsAllocated` as an invariant in RecorderConcurrent.cfg is refuted.
* Two first calls of the controller both initialise (controller.c:120): two threads play, and
  the slower initialisation zeroes the states (line 285) under an input that the other has
  posted, a long press included. `OneHdlsThread` and `LongPressStays` without their condition are
  refuted in ControllerSafe.cfg when `NoClaimBeyond` is taken out.
* A failed `threadCreate` frees the work buffer hid has just mapped (controller.c:321), and an
  attached-query that fails after a failed set makes a second pad (controller.c:245).
* The session id a client is told may be the one made for another (http.c:177).
* After a failed realloc one event is dropped, and later ones are recorded all the
  same when the memory suffices again (controller_recorder.c:31), so that a recording may have a gap.
* A failing accept gives up the listening socket; when the old one still holds the
  port, every later bind fails and the server no longer listens (streamable_http.c:188).
* A heartbeat event can precede the HTTP header of its own stream (sse.c:161).
* A full table refuses the reconnect of a session that is in it, because it is
  tested before the session is looked up (sse.c:121).
* A request that does not fit its buffer is cut off and handed on as if it were
  whole (streamable_http.c:72).
* A write is reported as successful although `fclose` could not write all of it
  (fs_ops.c:390, :441), and as failed although the file was written, when there is no
  memory for the report (fs_ops.c:396, :448).
* A write that fails half-way leaves the file emptied or cut (fs_ops.c:385, :435).
* `mkdir` answers "ok" where a file of that name exists (fs_ops.c:73).

## 6. What is proved

TLAPS checks these for every value of the constants that satisfies the module's
ASSUME, with no other assumption unless the theorem states one.

* **Recorder**, any number of callers (`RecorderSafe` and its corollaries). The invariant is types, mutual
  exclusion, the allocation, a dump is a prefix of the recording, and its buffer is empty
  outside a dump. The last conjunct is what makes the snapshot inductive; the proof
  splits a step by who takes it, and shows that nobody but the holder of the
  mutex changes the events, and that it appends or resets. *AllocInv* is the relation of
  `g_capacity` and the bytes behind `g_events`: as long as the product does not wrap they agree
  (`RecorderAllocation`), from which no poller overruns (`RecorderCapacity`), for every number a client sends.
  That growing does not wrap follows from the heap being less than half of the
  address space (`RecorderAssumption`). `RecorderAppends` is the action property.
* **Recorder**, one start or stop at a time (`RecorderSerial` and its corollaries `RecorderOnePoller`,
  `RecorderNoThreadLost`, `RecorderNoThreadClosedAlive`, `RecorderFlag`, `RecorderFiltered`). Their hypothesis is
  `[]SerialControl`: between the critical section of a start or stop and the end of what it does
  without the mutex, nobody else is in that part. Any number of dumps, clears and saves may run beside it.
  Without the hypothesis the properties are false (section 5); clients that start and stop one
  after the other fulfil it. *ThreadInv* says what
  flag, thread identity and thread are at each point of start and stop (`Stage`), and
  outside them (`Settled`): flag up and the thread polling, or flag down and the thread gone. *FilterInv*
  adds to `RecordingIsFiltered` that a sample on its way into the recording still differs from
  `g_last_real_state`, which nobody else writes, and that a thread which has yet to reset
  that state finds the recording empty.
* **Pool** (`PoolSafe`, `PoolOneHolder`, `PoolNothingLeaked`). *Protocol* says what the two flags mean at each
  point of worker and listener (who may write them, when the descriptor in them
  is the one in hand); with it, one holder and nothing leaked are inductive for
  any number of workers.
* **SSE, sessions** (`SseSafe`, `SseSessionsUnique`, `SseTypeCorrect`). The table never overflows and no session has two slots,
  reconnects and removals interleaving at will. Needed beside them: the
  heartbeat's index is in use whenever it is going to free it.
* **SSE, connections** (`SseOwners`, from it `SseKeepsConnections`, `SseNoStaleSlot`, `SseNothingLost`, `SseSlotReused`).
  *OneOwner* is the heart: every open descriptor is in the hands of exactly one worker
  or in exactly one slot in use. Beside it: a connection has one descriptor, and only after
  its accept (*Descriptors*, always true); the slot a reconnect found is in use for its session (*Indices*),
  and the slot about to be freed has a peer that is gone (*Broken*), both while `~met`. The
  steps come down to four: a holder closes, a slot closes, a holder hands over to
  a slot, an accept; each has a lemma, and the compaction of the table one more. `SseSlotReused`
  proves that what finding 2 refutes is true of every step without `met`: the finding has no other cause.
* **SSE implements Streams** (`SseKeepsItsPromise`). From one owner to each descriptor follows the fate
  of its connection; only the owner's step changes it, and it is an action of `Streams`:
  `Replace` in `CloseOld` by *Indices*, `Lose` in `FreeClose` by *Broken*.
* **Controller** (`ControllerTypes`, `ControllerOneThread`, `ControllerLongPress`), with first calls at once and every
  failure. *Unraced* is the invariant: types, and *SetupInv* until `raced`. *SetupAlone*,
  *NoSetupAfter* and *ThreadFollowsFlag* in it say that one worker sets up at a time, none after
  `initialized`, and that a live thread belongs to the initialisation in hand or the
  one that succeeded. A step that is not made by two initialisations at once keeps it.
* **Work buffer and pad** (`ControllerBuffer`, `ControllerOnePad`). *BufferInv*: the initialisation in hand is the newest,
  and its buffer is nobody else's until hid maps it, so that what a clean-up frees is its
  own. *PadInv*, until `raced` or `misled` (*Unmisled*): no pad before a thread
  polls, and none when it is about to attach one; a question that fails keeps it unless it
  hides a pad, which is what `misled` records.
* **Controller implements VirtualPad** (`ControllerPlaysLikeAPad`), up to the same two events.
  *LockInv*: who is inside the mutex, and that a post has written the state it is about to
  flag. *IdleInv*: a state marked idle shows nothing pressed, unless a post is writing it. Each of the
  four variables of `VirtualPad` has a lemma that reads it off the controller's state (`HeldIs`,
  `WaitingIs`, `ShownIs`, `OfferedIs`); setup, posting and the thread's turn are then mapped one at a time.
* **Dispatch** (`DispatchOneReply`, `DispatchMethods`, `DispatchAnswers`). At most one reply to each request.
  *RightInv* says that a reply is right for its request from the moment a
  branch forms it, and that a handler runs only for a request that asked for it, so that
  no later step can answer "method not found" for another reason; what is refused gets that
  answer, or HTTP 500 when it cannot be printed. `DispatchAnswers` is the action property.
* **Reader** (`ReaderInBounds`, `ReaderTypes`, `ReaderWhole`). For buffers, ints, requests and pieces of every size, with
  overflow: `total < size`, strengthened by `need < size` in the body loop; and a
  request that fits is whole, strengthened by the position of the header's end.
* **Tools**, for any number of workers, any card, requests and picture sizes.
  `ToolsLines`: the owner of the mutex is the one inside `log_write`, and the line is as far
  as it is. `ToolsNothingHeld` and `ToolsRefused`: *CallInv* says what a worker may hold at each place
  (`Holds`) and where it can have changed a file; the lemmas on returns and moves carry
  the proof through all of the tools. `ToolsReadIsWhole`: *DataInv* says that what has been read is the
  beginning of the file, until another worker tears it; a step of one worker disturbs
  the others in nothing but `torn` (`AloneKeeps`). `ToolsWriteIsWhole`: by the same invariant, the text is what
  has been written and what is left, and the file is, or ends with, the first of these. `ToolsBase64Fits`: integer lemmas on
  the three buffers, and that the room was computed from the picture the worker has.

Every invariant above was checked by TLC on the run's instance before it was proved. The
theorems about a recorder with one start or stop at a time assume `[]SerialControl`, which the one
client of `recorder_serial` fulfils. The conditions `~met`, `~raced` and `~misled` are part of the
properties themselves, in the runs as in the theorems; no theorem leaves a failure out.

**Only model-checked**: everything under fairness (`EveryCallReturns`, `Finished`, `GoneIsClosed`,
`PostsAreTaken`, `NothingSticks`, `Returns`). Liveness and ENABLED are outside the prover's reach; it
has no rule for them. What a run refutes (section 5) is of course no theorem.

## 7. External parts, and what is not modelled

Taken from how the code uses them: libnx threads and mutexes (not recursive,
handed over), sockets (lowest free descriptor, a bind that fails while an
abandoned socket holds the port), the hid debug service (refuses or drops at
any time), malloc/realloc (fail where the code looks), the file system (every call
may fail; a file that is open can be written, emptied and removed by others;
stdio keeps what it likes of a write until `fclose`), the screenshot service.

Assumptions about data: in `FsOps`, a path is a sequence of names, and one that is too
long is one whose `mkdir` fails; the failures of `cJSON_Create...` are modelled where the
code looks at the result, together with those of printing the text. The loop index of
`ensure_dir_recursive` counts names. The locals of a call are forgotten with `Processed`.

Not modelled:

* The text of requests, replies and JSON, timestamps, sensor values, the values
  of a system status, and the tool descriptions (`list_...`): no control depends on them.
* The file of a `save`, which is never reached (finding 1).
* Boot and exit (`main.c`): a straight line of service initialisations and then an
  endless sleep; `__appExit`, `controllerFinalize` and `cur_frameFinalize` are not reached while
  the server runs. Its heap size appears as "any malloc may fail" (main.c:26 sets 4 MB, the
  repository's README.md:172 speaks of 2 MB).
* The vendored libraries, but for the lengths in `Base64`.
