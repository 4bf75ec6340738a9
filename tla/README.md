# A TLA+ verification project for chez-async

chez-async is an asynchronous I/O runtime for Chez Scheme: a C++ task runtime
(libuv on a thread of its own) under a fiber scheduler written in Scheme. This
directory holds TLA+ modules that model it, TLC configurations that check small
instances, and TLAPS proofs. File names below are relative to the repository's
root (`src/` in `PROJECT.json`).

## 1. Inventory

| Component | State | Operations | Hard part |
|---|---|---|---|
| Task and CompletionQueue (`native/runtime/task.hpp`, FFI in `rt_ffi.cpp`) | `done_`, `cq`, `refs_`, `q_`, storage | `new_task`, `Complete`, `Wait`, `Post`, `WaitOne`, `TryPop`, `Retain`, `Release`, `rt_task_free`, `rt_cq_free` | three threads, notify outside of the lock, manual lifetimes |
| Runtime (`runtime.hpp`, `runtime.cpp`) | `running_`, `stopping_`, `queue_`, own uv handles | `Start`, `Stop`, `Submit`, `OnAsync`, `Drain`, `OnSignal`, `OnShutdownTimer` | coalesced wakeups, stop racing submit, restart |
| Net handles (`net.hpp`, net cases of `Dispatch`, callbacks) | listeners, backlog, parked accepts, streams, queued reads, registry | listen, connect, accept, read, write, close, signal | asynchronous close and delete, graceful shutdown at any moment |
| Fiber scheduler (`high-level/io-async.ss`) | ready list, waiter and completed tables, futures | `run-async`, `async`, `await`, `scheduler-loop`, `deliver-one!`, `settle!` | completions before the await, no fiber lost or resumed twice, handles reused |
| Binding layer (`internal/io-runtime.ss`) | `await-hook`, `current-cq` | `task-run`, `submit-*` | which queue a task is routed to |
| Processes, watchers (`net.hpp`, `Dispatch`) | `wait_task`, `exited`; `pending_next`, `events` | spawn, wait, kill, close; watch, next, close | one waiter slot, close with a waiter parked |
| Timers, fs, DNS, stdio (`Dispatch`, callbacks) | the request, the buffer and the results inside of the Task | start, callback, copy of the results, free | what libuv works on is deleted by the awaiter |
| Pinned I/O (`new_pinned_task`, `rt_task_free`) | locks on bytevectors | lock, read or write in place, unlock | a bytevector that several fibers use |
| High-level operations (`io-fs.ss`, `io-net.ss`, `io-proc.ss`, `buffer.ss`) | chunk list, byte count, addresses left to try | read-file, write-file, pipe, connect, run, run/output | errors between two steps, short reads, pipes that fill up |

Interaction: a Scheme thread allocates a Task and submits it (`Submit` pushes to
`queue_` and sends the async handle); the loop thread drains the queue,
dispatches each task to libuv, and a callback runs `Complete`, which publishes
the result, signals the task's condition variable and, if the task is routed to
a queue, posts its handle there. A thread outside of `run-async` blocks in
`rt_await`; inside, the scheduler parks the fiber and reaps the queue.
The hazards this gives rise to are listed, each at its line, in `PROJECT.json`.

## 2. Modules

| Module | Models |
|---|---|
| `TaskCompletion` | `Task::Complete`/`Wait`, `CompletionQueue`, and the FFI calls around them |
| `...Proofs` | for each of `TaskCompletion`, `TaskRuntime`, `AsyncScheduler`, `NetHandles`, `ProcWatch`, `HighLevelOps`: its inductive invariant, one lemma per action, and the theorems |
| `HighLevelOpsDataProofs` | the data that the calls of `HighLevelOps` move: a second inductive invariant, and its theorems |
| `SequenceLemmas` | lemmas on sequences that the proofs share, and induction over natural numbers as sets |
| `SubmitFifo` | abstract: what `Submit` promises, one FIFO channel |
| `TaskRuntime` | `Start`, `Stop`, `Submit`, `Drain`, the loop and the signal handles; implements `SubmitFifo` |
| `AsyncScheduler` | one `run-async`: fibers, futures, tables, loop |
| `NetHandles` | listeners, streams, close and delete, graceful shutdown; its `inbox` is the channel of `SubmitFifo` |
| `ProcWatch` | child processes and file-system watchers, the two handles with one waiter slot |
| `Requests` | one-shot requests: the Task from `new_task` to `rt_task_free`, its dispatch and callbacks, pinned bytevectors |
| `HighLevelOps` | the calls of `io-fs.ss`, `io-net.ss`, `io-proc.ss` as programs over `Requests`, with the operating system and a child process |
| `MC...` | the instances for TLC |

**TaskCompletion.** One step is one critical section, one notify, or one atomic
update of `refs_`. `stage[t]` is where the loop thread is with task `t`; the
values `notify`, `post`, `qnotify`, `release` are the points inside
`Complete()`. `awaiter[t]` is the Scheme side of the task, `reader[c]` the
thread in `WaitOne`. Condition variables may wake spuriously. The `notify_one`
on a task that was freed is undefined in C++: `CompleteNotifyFreed` lets it
return without effect or never return (`wedged`). A handle is allocated once, so
a use after free is visible. `Await` is `rt_await` as it is: it does not look at
`cq`, so a thread may block on a task that is routed to a queue, and `TaskFree`
follows either the return of `rt_await` or a handle reaped from the queue
(`reaped`). `QueuedHandlesValid` and `HandedOutAfterUse` name that misuse as their
exception, and `RoutedAwaitHarmless` shows what it does. `Outstanding` and
`OwnerRunning` are the discipline of `run-async`: one thread owns a queue, and
waits on it only with a task out.

**TaskRuntime.** `handles` are the runtime's own open handles, which keep
`uv_run` going; `pending` is the send flag of the async handle, which libuv
clears before the callback runs. `Drain` is three steps (swap, one step per
dispatched task, look at `stopping_`), because `Submit` and `Stop` interleave
with it. `HandlesAfterDrain` stands for the four `uv_close` calls: what remains
open after them is nothing the runtime owns. Of a dispatched operation `op[t]` keeps
two things apart, whether the Task has completed and whether libuv has anything
active of it, because `uv_run` goes by the second only: a `request` is in libuv and
not completed; a `parked` task (accept, wait, watch-next) waits in a member of a
handle and is nothing to libuv; a `handle` is completed and left an active handle
behind (listener, watcher, child); `ended` is through. `LoopEnds` asks for no own
handle and nothing `Alive`, so `Stop` may return with a task parked for good (an
overwritten wait, a wait on a closed process, an accept on a closed listener) and may
hang with every task completed. Which task is parked on which handle is left open:
`HandleServes` and `HandleEnds` complete any of them, all or none. The tasks of
`Endless` may stay `request` for ever (a read on which nothing arrives). `accepted`,
`promised`, `midBatch` and `leftover` are history. `Start` and `Stop` are called by one thread, `Submit` by the others,
never outside of `Start`..`Stop`, as the assertion of `Submit` demands. A graceful
`OnSignal` needs an open handle; one that exits is possible at any time, because
the model does not say which handles are listeners (`NetHandles` does).

**AsyncScheduler.** A fiber is its future. What its code does is arbitrary. The
ready list is newest first as in the code; `batch` is what is left of the list
`for-each` walks. `got[f]` is the task whose result `f` is resumed with; the
handle is freed when `f` runs (`task-run`) and its address may come back.
`aims[f]` is the future `f` is looking at in `await-future`, which looks again
after a resume. A handle is awaited once, as `task-run` requires.

**NetHandles.** A step is one callback or one `Dispatch`: the loop thread does
not interleave with itself. `held` are the handles Scheme may use: from the
result that carried it to the submission of its close. `state` goes
`none`, (`connecting`), `open`, `closing`, and a stream's storage is used again.
A listener is created once and stays `deleted`, so that a late accept on it is
visible. `AbortListeners` and `StopReading` take sets, because `OnSignal` applies
them to every listener and every reading stream in one callback. `uv_close`
reports pending writes as cancelled before `OnClosed` (libuv). The signal
handles are taken to be installed.

**ProcWatch.** Same conventions. `exited` and `waitTask` are the fields of
`Process`, `pendingNext` and `events` those of `Watcher`; events are numbered as
they arrive and `seen` is the history of what next-tasks got. A process that is
closing gets no exit callback (libuv). The captured pipes are Streams, whose life
`NetHandles` models; here they only come into being and are closed.

**Requests.** A caller has one Task at a time, because every high-level call
submits, awaits and frees before it submits again; `Turn` is the free of one and
the submit of the next. `uv` are the callers to whose Task libuv (or a handle on
the loop) has a pointer, `task[c].at` how far the Task is; a Task that is `done`
may be freed at any moment. `locks` counts `Slock_object`, `task_data` chooses
between the Task's own buffer and the pinned bytes. How an await is woken is
`TaskCompletion`; how tasks reach the loop is `SubmitFifo`.

**HighLevelOps.** EXTENDS `Requests`. `Call` is the first request of a call,
`Resume` what the Scheme code does from the return of one await to the next:
`ReadFile`, `WriteFile`, `Pipe`, `Connect`, `Run` have one disjunct per await.
`Raise` is `raise-io-error` out of the whole call, with nothing closed, as in the
code; only `io-tcp-connect` catches. The system is `source` (what a descriptor or
stream has yet to deliver, in parts of any size), `sink`, `handles`, and `child`,
which writes to two pipes of `PipeCap` bytes in any order, blocks on a full one,
and exits when all is written and its input has ended. Bytes are numbered, so a
byte lost, doubled or moved shows. `PackStrings` and `UnpackStrings` are the two
ends of a command line. `given` and `failed` are history.

## 3. Runs

| Run | Bounds | Shows |
|---|---|---|
| `TaskCompletion` | 3 tasks, 1 queue | the safety properties that are also proved, and that blocked threads return |
| `TaskCompletionNotify` | 2 tasks, 1 queue | violation: `notify_one` on a freed task (finding) |
| `TaskRuntime` | 2 tasks, one of them endless, 2 workers, 2 starts | no lost wakeup, a `Stop` outside of a batch drains, `SubmitFifo` is implemented, submitted tasks are dispatched, `Stop` waits for nothing but an endless request or a handle left open |
| `TaskRuntimeStop` | 2 tasks, 1 worker | violation: `Stop` does not drain (finding) |
| `AsyncScheduler` | 3 fibers, 2 handles, 3 submissions | fibers and completions are conserved, blocking is served, deadlock report is sound, FIFO, termination |
| `AsyncSchedulerReturn` | 3 fibers, 1 handle | violation: `run-async` returns with fibers unsettled (finding) |
| `NetHandles` | 1 listener, 2 streams, 3 tasks | read state, listener state, ownership, FIFO protection of streams, reads end after a signal, closes complete |
| `NetHandlesAccept` | 1 listener, 1 stream, 2 tasks | violation: an accept parks on a closing or deleted listener (finding) |
| `ProcWatch` | 1 process, 1 watcher, 3 tasks, 3 events | waiter slots are valid, events in order, a parked next is served, a sole wait returns |
| `ProcWatchWait` | 1 process, 2 tasks | violation: the first of two waits is lost (finding) |
| `HighLevelOps` | 2 callers, 3 bytes in chunks of 2, answers of 3 addresses, 2 arguments, pipes of 1 byte | storage and locks outlive their use, data arrives unchanged, addresses are tried in order, returned calls leave nothing open, calls end |
| `HighLevelOpsOutput` | 1 caller, 2 bytes to a stderr pipe of 1 | violation: `io-run/output` does not return (finding) |

Three more configurations are kept beside the runs. Each refutes a comment of the
repository that a passing property must not rely on; it shows that the exception
which that property names is needed.

| Configuration | Bounds | Property, and what TLC finds |
|---|---|---|
| `TaskCompletionRouted.cfg` (`MCTaskCompletion`) | 1 task, 1 queue | `RoutedAwaitHarmless` is violated: a blocking await of a routed task, and its free, leave a dead handle in the queue. The exception of `QueuedHandlesValid` |
| `TaskRuntimeHandles.cfg` (`MCTaskRuntime`) | 1 task, 1 worker | `StopWaitsForOperations` is violated: with every operation completed `Stop` waits for a handle that one of them left open. The exception of `StopReturns` |
| `HighLevelOpsWrite.cfg` (`MCHighLevelOps`) | 1 caller, 2 bytes | `WriteFileWritesAll` is violated: `io-write-file` returns after a short write. Why `DataIntact` asks only for a prefix of it |

Why the bounds are enough. `TaskCompletion`: queues do not interact, so one is
enough; three tasks let one be posted, one be in `Complete` and one be awaited
or in flight when the owner frees the queue. `TaskRuntime`: the races are between
a task in `local`, one in `queue_` or on its way, and `Stop`; the second
start shows what a new life inherits. `AsyncScheduler`: three fibers form every
shape of waiting (chain, fan-in, cycle beside the root), two handles complete out
of order and the third submission reuses an address. `NetHandles`: two readers on
a stream with its close, or an acceptor, a listener close and a signal.
`ProcWatch`: two waiters and a close of the same handle, a backlog of two
and an event that goes to a waiter. `HighLevelOps`: three bytes in chunks of two
give full, partial and several chunks, and unread space at the end of a buffer;
three answers hold a duplicate behind another address; callers meet only in the
inbox and in a shared bytevector, so the second one only sends and receives. The
passing run needs `ErrLen <= PipeCap` for `CallEnds`; `HighLevelOpsOutput` has
`ErrLen > PipeCap`. The named bounds
are `MaxStarts`, `MaxSubmits`, `MaxEvents`, `MaxAnswer`, `MaxArgs`; the sets and
lengths bound the rest. Deadlock checking is on in every passing run: states in
which the system may rest are the explicit actions `Quiescent`, `Finished`,
`Returned`, `Exited`, `Asleep`, `AllEnded`. It is off in `HighLevelOpsOutput`,
where the stop is the violation.

Fairness. Threads that can run do run (weak fairness of the loop thread, of a
thread that was woken, of a thread inside `Submit`, `Start`, `Stop`, of the
scheduler, of a caller whose await returned); the loop thread serves the async
handle whatever else is ready, since libuv polls all of its handles in one
iteration. Operations handed to libuv end in `TaskCompletion`, `AsyncScheduler`
and, except for `Endless`, in `TaskRuntime`, where nobody has to close a handle or to
serve a parked task; in `NetHandles` only connects,
writes and closes do, and in `ProcWatch` a child ends. In `HighLevelOps` the
system answers what it can answer and the child runs while it is not blocked; an
error is never owed (with fairness on errors a blocked read would be saved by
one). No fairness on submissions, awaits, connections, signals or the shutdown
deadline. The liveness properties of `TaskCompletion` except a `wedged` loop
thread, the outcome of the finding on `notify_one`.

## 4. Proofs

Each proof module `XProofs` EXTENDS `X` and proves its safety properties for
every value of the constants, from the one named assumption of `X`. The scheme
is the same: the properties are not inductive one by one, so a conjunction
`IInv` is, which TLC checked as an invariant of the instances first; `InitInv`,
one lemma per action, `NextInv`, and `Inductive == Spec => []IInv`. The theorems
that name a property of a run follow from `IInv` (and, for the data of
`HighLevelOps`, from `DataInv`, checked and proved in the same way).

| Module | Assumed of the constants | Proved |
|---|---|---|
| `TaskCompletionProofs` | finitely many tasks (`refs_` is a cardinality); the null queue is not a queue | `TypeOK`, `RefsExact`, `QueueLiveWhenUsed`, `QueuedHandlesValid`, `NoCompletionLost`, `NoLostWakeup`, `HandedOutAfterUse` |
| `TaskRuntimeProofs` | null task is not a task, `Endless` are tasks | `TypeOK`, `NoLostWakeup`, `StopDrainsBetweenBatches`, the refinement `ImplementsFifo` |
| `AsyncSchedulerProofs` | null fiber and null task are none | `TypeOK`, `FiberInOnePlace`, `HandleInOnePlace`, `BlockedIsServed`, `ResumedAwaitIsSettled`, `DeadlockIsReal`, the action property `RunOrderFifo` |
| `NetHandlesProofs` | listeners, streams and the null handle are disjoint | `TypeOK`, `ReadStateAgrees`, `ListenerStateAgrees`, `StreamIsOwned`, `QueuedStreamOpFindsItOpen` |
| `ProcWatchProofs` | the same of processes and watchers | `TypeOK`, `WaitSlotValid`, `NextIsServed`, `EventsInOrder` |
| `HighLevelOpsProofs` | finitely many callers (locks are counted); the shared bytevector and null are no caller's | `StorageOutlivesUse`, `PinsCoverIo`, `NothingLeftOpen` |
| `HighLevelOpsDataProofs` | sizes are natural numbers, chunk, file and pipe not empty; no argument has a NUL in it; the other family is no address | `DataIntact`, `ConnectsInOrder` |

What each inductive invariant adds, and why.

- **TaskCompletion.** `TaskFieldsAgree` (a task's stage determines whether it
  exists, is done and has a queue, and who may have freed it), `ReaderIsOwner` (a
  thread in `WaitOne` still holds the creator's reference), `QueuesInUseExist`.
  `TypeOK` itself needs the exact count: that `refs_` stays a natural number is not a
  local fact. `WakeupNeverLost` and `CompletionNeverLost` are inductive relative to
  `IInv`.
- **TaskRuntime.** `NoLostWakeup` speaks of a sleeping loop; `WakeupDue` says what
  holds while `Drain` is under way: only between the clearing of the send flag
  and the swap may a task be queued without a wakeup. `SubmittersHold` and
  `PushedOnce` say that no task is pushed twice, `NothingDropped` that what was
  accepted is in the channel or dispatched with an outcome, `LoopStages` relates the
  loop thread to the life of the runtime. `LastSwap` is what `StopDrainsBetweenBatches`
  rests on: while `stopping_` is not set the async handle is open, so a `Stop` that does
  not fall into a batch has a swap to come, and that swap takes all that was
  promised. The refinement maps the channel of
  `SubmitFifo` to `local \o queue`: a push appends, the swap moves the whole
  queue to an empty `local` and is a stutter, a dispatch takes the head.
- **AsyncScheduler.** The counts of `FiberInOnePlace` and `HandleInOnePlace` are
  not what the steps preserve. `ListsOnce` (no list names a fiber twice), `Apart`
  (no fiber in two lists), `UnsettledIsSomewhere`, `PostedOnce` and `HandedOnce`
  are, and the counts follow (`PlacesOf`, `OneIndex`). `AimsAgree` relates
  the loop of `await-future` to the lists of waiters: it is what makes a wake
  never spurious and a reported deadlock real. `RunOrderFifo` is proved step by
  step over `batch \o Reverse(ready)` (`ReverseOfPush`, `EnqueueIsLast`).
- **NetHandles, ProcWatch.** `NothingBehindClose` is the heart: behind a close
  in the inbox there is no task of the same handle, because Scheme gives a
  handle up with its close (`ClosedIsGivenUp`, `HandlesOwned`); hence a dispatched
  operation finds its handle open. `OpeningIsAlone` says that nobody can name a
  handle before its task has returned it. `ReadersQueued`, `AcceptorsQueued`,
  `BacklogUntouched` and the slot invariants say who may wait where. The signal
  closes every listener and stops every reading stream in one step, so the lemmas
  on `AbortListeners` and `StopReading` are about sets.
- **HighLevelOps.** `Stages` ties the stage of a Task to the inbox, to `uv` and to
  the call; `LocksCounted` is a set of users that gains and loses an element per
  `Turn`. `HandlesFollow` gives what a call has open as a function of the request
  it is at (`OpenBefore`, `OpenAfter`), so each `Resume` step is a look-up. The
  members of a Task that hold data have no type in this proof: its steps need none.
- **HighLevelOps, the data.** Bytes are numbered, so data in any place are a
  `Span(a, b)`, the bytes `a + 1` to `b`. `DataInv` says where each Span begins and
  ends: `LoopData` for the loops that read to the end (the chunks are
  `Span(0, total)`, the chunk just read begins at `total`, the source begins behind
  it), `PipeData` for the bytevector that a read fills and the next write empties,
  `ReceiveData` and `WriteData` for single requests, `ChildAgrees` for what a child
  has yet to write, `ConnectData` for the addresses (`failed \o acc` is what the
  lookup gave, while the head of `acc` is being tried), `Submitted` for what a request
  holds until it is dispatched. Then `DataIntact` is a matter of joining Spans.
  `DataInv` is inductive relative to `IInv`, which says at which requests a call can
  be. `OneCaller` reduces a step to the caller that takes it: all else it leaves alone.
  The lemmas about the recursive functions of the model hold for every input:
  `ConcatAppend` and `ChunkAdded` (chunks consed, reversed and copied are the data in
  order), `UnpackPack` (what `UnpackStrings` finds is what `pack-strings` packed),
  `CollectIsDistinct` (the filter of `on_getaddrinfo` keeps the first occurrence of
  each address). They rest on `SetInduction`: a set of natural numbers with 0 and
  closed under successor is all of them, which follows from the well-foundedness of
  `<` without an operator parameter; `Iteration` derives from it that a function
  defined by recursion over `0..n` exists.

Only model-checked: liveness (`WaitersReturn`, `SubmittedIsDispatched`,
`StopReturns`, `Terminates`, `ReadsEndAfterSignal`, `CloseCompletes`, `WaitReturns`,
`CallEnds`), because TLAPS handles neither fairness nor `ENABLED`. Every invariant
and action property of the passing runs is proved.

## 5. Findings

Each is shown by a violated property of section 3; those of the runs are also listed in
`PROJECT.json`.

1. `Task::Complete` calls `cv_.notify_one()` after `done_` became visible, when a
   blocking awaiter may have freed the task (`task.hpp:208`).
2. A blocking await of a task that is routed to a queue is not harmless: the task is
   freed, and its handle is posted (`task.hpp:210`, against `io-runtime.ss:196`). In
   `run-async` the await hook and the queue are set together, so it does not arise.
3. `Stop` can strand a task that was submitted before it: `Drain` swaps once and
   then looks at `stopping_` (`runtime.cpp:348`, against `runtime.hpp:31`).
4. `Stop` waits for more than outstanding operations: a listener, watcher or child
   whose task has completed keeps `uv_run` going (`runtime.cpp:713`, against the
   comment at 349).
5. `run-async` returns while spawned fibers that wait for one another are
   unsettled (`io-async.ss:135`, against its comment at 167).
6. `TcpAccept` does not look at the registry, so an accept that meets a signal
   parks on a closing listener or uses a deleted one (`runtime.cpp:455`).
7. A second `ProcWait` overwrites the first, which then never returns
   (`runtime.cpp:599`, against `net.hpp:91`).
8. `io-run/output` captures stderr and never reads it; a child that fills the
   pipe blocks, and both sides wait for ever (`io-proc.ss:73`, against its
   comment at 66).
9. `io-write-file` ignores the count of its write, so a short write truncates the
   file silently (`io-fs.ss:176`, against its comment at 170).

Beside these, a call that raises leaves open what it had opened. The model has it;
no line of the repository promises otherwise, and no property forbids it.

## 6. Plan

1. Done: the modules and runs above; proofs of every safety property of the
   passing runs.
2. Left as an extension: several schedulers beside one loop, and `NetHandles` and
   `TaskRuntime` as one module (the FIFO channel is their interface so far).

## 7. Not modelled

Error codes and names, formatting of results, open flags, modes and offsets, the
environment of a child (packed like its arguments) and its exit code, the FFI
declarations and the header `rt_runtime.h`, loading the library, GC interaction
(`__collect_safe`), the C++ memory model below mutexes and acquire/release flags,
calls of `Start` and `Stop` by several threads at once, the `rt_debug_*`
counters, `rt_stream_write_queue_size` (an unsynchronised read of one member),
build scripts, tests, and the documents of the earlier pure-Scheme design under
`docs/`, which describe code that is no longer there.
