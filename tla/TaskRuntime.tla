----------------------------- MODULE TaskRuntime -----------------------------
(***************************************************************************)
(* The submission path and the life cycle of the runtime: Runtime::Start,  *)
(* Stop, Submit, Drain and the signal callbacks of native/runtime/         *)
(* runtime.cpp.                                                            *)
(*                                                                         *)
(* Scheme worker threads run Submit; one thread, the script's main thread, *)
(* runs Start and Stop; the loop thread runs uv_run and, when the async    *)
(* handle fires, Drain.  A step is one critical section of qmutex_, one    *)
(* access to an atomic flag, or one libuv call.  What a dispatched         *)
(* operation does is left to other modules.  What matters here is kept     *)
(* apart: whether its Task has completed, and whether libuv has an active  *)
(* handle or request of it, which is what uv_run goes by.                  *)
(***************************************************************************)
EXTENDS Naturals, Sequences, SequencesExt

CONSTANTS
    Task,
    Endless,         \* tasks whose request may never end: a read of a stream
                     \* on which nothing arrives
    Worker,          \* threads that submit
    NoTask,
    ExitOnSignal,    \* exit_on_signal_, fixed before Start as its comment asks
    MaxStarts        \* bound on the calls of Start

ASSUME RuntimeAssumption ==
    /\ NoTask \notin Task /\ Endless \subseteq Task
    /\ ExitOnSignal \in BOOLEAN
    /\ MaxStarts \in Nat

VARIABLES
    running,     \* running_
    stopping,    \* stopping_
    queue,       \* queue_, guarded by qmutex_
    handles,     \* the runtime's own open uv handles: they keep uv_run going
    pending,     \* the async handle was sent and has not fired yet
    loop,        \* the loop thread: "off", "poll", "swap", "dispatch", "ended"
    local,       \* Drain's local vector, what is left of it
    signaled,    \* shutdown_signaled_
    exited,      \* the process is gone: std::_Exit
    life,        \* where the main thread is in Start or Stop
    starts,      \* calls of Start that took effect
    step,        \* per worker: "idle", or where it is in Submit
    holds,       \* per worker: the task it is submitting
    accepted,    \* tasks whose Submit has returned
    dispatched,  \* tasks handed to Dispatch, oldest first
    op,          \* per task: what Dispatch and the callbacks made of it
    promised,    \* history: accepted when Stop was last called
    midBatch,    \* history: Drain was past its swap when stopping_ was set
    leftover     \* history: in queue_ when Start was last called

callerVars == <<step, holds, accepted>>
flagVars == <<running, stopping>>
lifeVars == <<life, starts, promised, midBatch, leftover>>
signalVars == <<signaled, exited>>
loopVars == <<loop, local, dispatched, op>>
vars == <<flagVars, queue, handles, pending, loopVars, signalVars, lifeVars, callerVars>>

(***************************************************************************)
(* What Dispatch can make of a task.                                       *)
(*   "request": not completed; libuv has its request or its active handle  *)
(*     (fs, dns, timer, connect, read, write, every close until its        *)
(*     callback).                                                          *)
(*   "parked":  not completed, and nothing of it is in libuv: it is in     *)
(*     pending_accepts, wait_task or pending_next.  If the handle it hangs *)
(*     on is gone, or a second wait takes its place, nobody completes it.  *)
(*   "handle":  completed, and it left an active handle in the loop (an    *)
(*     open listener, a watcher, a running child).                         *)
(*   "ended":   completed, and nothing of it is left in libuv.             *)
(***************************************************************************)
Outcome == {"request", "parked", "handle", "ended"}

Init ==
    /\ running = FALSE /\ stopping = FALSE
    /\ queue = <<>> /\ handles = {} /\ pending = FALSE
    /\ loop = "off" /\ local = <<>> /\ dispatched = <<>>
    /\ op = [t \in Task |-> "none"]
    /\ signaled = FALSE /\ exited = FALSE
    /\ life = "idle" /\ starts = 0 /\ promised = {} /\ midBatch = FALSE /\ leftover = {}
    /\ step = [w \in Worker |-> "idle"]
    /\ holds = [w \in Worker |-> NoTask]
    /\ accepted = {}

\* The tasks of which libuv has an active handle or request.
Alive == {t \in Task : op[t] \in {"request", "handle"}}

Parked == {t \in Task : op[t] = "parked"}

\* The operations S come to their end.
Ended(S) == [t \in Task |-> IF t \in S THEN "ended" ELSE op[t]]

Submitted == accepted \cup ({holds[w] : w \in Worker} \ {NoTask})

\* uv_async_send: coalesces with a send that has not fired; without effect on
\* a handle that is closed or whose loop is gone.
uv_async_send == pending' = (pending \/ "async" \in handles)

-----------------------------------------------------------------------------
(* Worker threads: Submit. *)

\* Mutant of Handed: the handle is lost on its way into Submit.
HandedNull(w, t) == holds

Handed(w, t) == [holds EXCEPT ![w] = t]

\* The caller keeps to the contract the assert states: the runtime has been
\* started and not stopped.  NDEBUG builds do not check it again.
SubmitEnter(w, t) ==
    /\ step[w] = "idle"
    /\ running /\ life = "idle"
    /\ t \notin Submitted
    /\ step' = [step EXCEPT ![w] = "push"]
    /\ holds' = Handed(w, t)
    /\ UNCHANGED <<flagVars, queue, handles, pending, loopVars, signalVars, lifeVars, accepted>>

SubmitPush(w) ==
    /\ step[w] = "push"
    /\ queue' = Append(queue, holds[w])
    /\ step' = [step EXCEPT ![w] = "send"]
    /\ UNCHANGED <<flagVars, handles, pending, loopVars, signalVars, lifeVars, holds, accepted>>

\* Mutant of WakeLoop: no send while the loop thread is inside Drain.
WakeLoopIfPolling == pending' = (pending \/ ("async" \in handles /\ loop = "poll"))

WakeLoop == uv_async_send

SubmitSend(w) ==
    /\ step[w] = "send"
    /\ WakeLoop
    /\ accepted' = accepted \cup {holds[w]}
    /\ step' = [step EXCEPT ![w] = "idle"]
    /\ holds' = [holds EXCEPT ![w] = NoTask]
    /\ UNCHANGED <<flagVars, queue, handles, loopVars, signalVars, lifeVars>>

-----------------------------------------------------------------------------
(* Loop thread. *)

\* uv_run calls OnAsync, which calls Drain; the send flag is cleared first.
OnAsync ==
    /\ loop = "poll" /\ "async" \in handles /\ pending
    /\ pending' = FALSE
    /\ loop' = "swap"
    /\ UNCHANGED <<flagVars, queue, handles, local, dispatched, op, signalVars, lifeVars, callerVars>>

\* Mutant of Batch: the batch is taken from its end.
BatchReversed == Reverse(queue)

Batch == queue

\* Drain: take everything that was queued.
DrainSwap ==
    /\ loop = "swap"
    /\ local' = Batch
    /\ queue' = <<>>
    /\ loop' = "dispatch"
    /\ UNCHANGED <<flagVars, handles, pending, dispatched, op, signalVars, lifeVars, callerVars>>

\* Drain: Dispatch(t), in which a libuv call may fail at once.
DrainDispatch ==
    /\ loop = "dispatch" /\ local # <<>>
    /\ dispatched' = Append(dispatched, Head(local))
    /\ local' = Tail(local)
    /\ \E o \in Outcome : op' = [op EXCEPT ![Head(local)] = o]
    /\ UNCHANGED <<flagVars, queue, handles, pending, loop, signalVars, lifeVars, callerVars>>

\* Mutant of HandlesAfterDrain: a running shutdown timer is left open.
HandlesAfterDrainTimerLeft == IF stopping THEN handles \ {"async", "signal"} ELSE handles

\* What Drain closes when it finds stopping_ set: the async handle, the signal
\* handles and a running shutdown timer, that is, all of the runtime's own.
HandlesAfterDrain == IF stopping THEN {} ELSE handles

\* Drain: look at stopping_ after the batch.
DrainCheck ==
    /\ loop = "dispatch" /\ local = <<>>
    /\ handles' = HandlesAfterDrain
    /\ loop' = "poll"
    /\ UNCHANGED <<flagVars, queue, pending, local, dispatched, op, signalVars, lifeVars, callerVars>>

\* The callback of a request completes its task.
OperationDone(t) ==
    /\ loop = "poll" /\ op[t] = "request"
    /\ op' = Ended({t})
    /\ UNCHANGED <<flagVars, queue, handles, pending, loop, local, dispatched, signalVars, lifeVars, callerVars>>

\* An open handle has something for a task that is parked on it: a connection,
\* a file event.  Which task is parked on which handle is left open.
HandleServes(t) ==
    /\ loop = "poll" /\ op[t] = "parked"
    /\ \E h \in Task : op[h] = "handle"
    /\ op' = Ended({t})
    /\ UNCHANGED <<flagVars, queue, handles, pending, loop, local, dispatched, signalVars, lifeVars, callerVars>>

\* An open handle goes: the child has exited, or Dispatch closes the handle for
\* a close task (the closed handle is out of the loop before uv_run looks
\* again).  All, one or none of the tasks parked on it are completed: every
\* acceptor, the last wait only, no wait at all when the process is closed.
HandleEnds(h) ==
    /\ loop \in {"poll", "dispatch"} /\ op[h] = "handle"
    /\ \E S \in SUBSET Parked : op' = Ended({h} \cup S)
    /\ UNCHANGED <<flagVars, queue, handles, pending, loop, local, dispatched, signalVars, lifeVars, callerVars>>

\* uv_run returns: no active handle and no request is left.  Parked tasks are
\* nothing to it.
LoopEnds ==
    /\ loop = "poll" /\ handles = {} /\ Alive = {}
    /\ loop' = "ended"
    /\ UNCHANGED <<flagVars, queue, handles, pending, local, dispatched, op, signalVars, lifeVars, callerVars>>

\* OnSignal, hard exit: a second signal, or no open listener to wind down (an
\* open handle may be another one).
OnSignalExit ==
    /\ loop = "poll" /\ "signal" \in handles
    /\ exited' = TRUE
    /\ signaled' = TRUE
    /\ UNCHANGED <<flagVars, queue, handles, pending, loopVars, lifeVars, callerVars>>

\* OnSignal, graceful: the first signal with listeners L open.  It closes them
\* with their parked accepts and cancels the reads in progress, S together.
OnSignalGraceful ==
    /\ loop = "poll" /\ "signal" \in handles /\ ~signaled
    /\ \E L \in SUBSET {t \in Task : op[t] = "handle"} :
         /\ L # {}
         /\ \E S \in SUBSET {t \in Task : op[t] \in {"parked", "request"}} :
              op' = Ended(L \cup S)
    /\ signaled' = TRUE
    /\ handles' = handles \cup {"timer"}
    /\ UNCHANGED <<flagVars, queue, pending, loop, local, dispatched, exited, lifeVars, callerVars>>

OnShutdownTimer ==
    /\ loop = "poll" /\ "timer" \in handles
    /\ exited' = TRUE
    /\ UNCHANGED <<flagVars, queue, handles, pending, loopVars, signaled, lifeVars, callerVars>>

-----------------------------------------------------------------------------
(* Main thread: Start and Stop.  A call that finds running_ as it wants it  *)
(* returns at once and changes nothing.                                     *)

StartClaim ==
    /\ life = "idle" /\ ~running /\ starts < MaxStarts
    /\ running' = TRUE
    /\ life' = "init"
    /\ starts' = starts + 1
    /\ UNCHANGED <<stopping, queue, handles, pending, loopVars, signalVars, promised, midBatch, leftover, callerVars>>

\* Mutant of StoppingAtStart: the flag of the previous life is kept.
StoppingKept == stopping

StoppingAtStart == FALSE

\* Reset the flags, initialise the loop and its handles.
StartInit ==
    /\ life = "init"
    /\ stopping' = StoppingAtStart
    /\ signaled' = FALSE
    /\ handles' = {"async"} \cup (IF ExitOnSignal THEN {"signal"} ELSE {})
    /\ pending' = FALSE
    /\ leftover' = Range(queue)
    /\ life' = "spawn"
    /\ UNCHANGED <<running, queue, loopVars, exited, starts, promised, midBatch, callerVars>>

StartSpawn ==
    /\ life = "spawn"
    /\ loop' = "poll"
    /\ life' = "idle"
    /\ UNCHANGED <<flagVars, queue, handles, pending, local, dispatched, op, signalVars, starts, promised, midBatch, leftover, callerVars>>

StopClaim ==
    /\ life = "idle" /\ running
    /\ running' = FALSE
    /\ promised' = accepted
    /\ life' = "flag"
    /\ UNCHANGED <<stopping, queue, handles, pending, loopVars, signalVars, starts, midBatch, leftover, callerVars>>

StopFlag ==
    /\ life = "flag"
    /\ stopping' = TRUE
    /\ midBatch' = (loop = "dispatch")
    /\ life' = "send"
    /\ UNCHANGED <<running, queue, handles, pending, loopVars, signalVars, starts, promised, leftover, callerVars>>

StopSend ==
    /\ life = "send"
    /\ uv_async_send
    /\ life' = "join"
    /\ UNCHANGED <<flagVars, queue, handles, loopVars, signalVars, starts, promised, midBatch, leftover, callerVars>>

\* Mutant of LoopThreadGone: the loop thread is not joined.
LoopThreadDetached == TRUE

LoopThreadGone == loop = "ended"

\* thread_.join() returns, uv_loop_close.
StopJoin ==
    /\ life = "join" /\ LoopThreadGone
    /\ loop' = "off"
    /\ life' = "idle"
    /\ UNCHANGED <<flagVars, queue, handles, pending, local, dispatched, op, signalVars, starts, promised, midBatch, leftover, callerVars>>

-----------------------------------------------------------------------------

LoopThread ==
    \/ OnAsync \/ DrainSwap \/ DrainDispatch \/ DrainCheck \/ LoopEnds
    \/ \E t \in Task : OperationDone(t) \/ HandleServes(t) \/ HandleEnds(t)

Signals == OnSignalExit \/ OnSignalGraceful \/ OnShutdownTimer

MainThread ==
    StartClaim \/ StartInit \/ StartSpawn \/ StopClaim \/ StopFlag \/ StopSend \/ StopJoin

\* The process is gone, or the runtime is stopped for good.
Finished ==
    /\ exited \/ (life = "idle" /\ ~running /\ starts = MaxStarts)
    /\ UNCHANGED vars

Next ==
    \/ ~exited /\ (LoopThread \/ Signals \/ MainThread)
    \/ ~exited /\ \E w \in Worker :
         SubmitPush(w) \/ SubmitSend(w) \/ \E t \in Task : SubmitEnter(w, t)
    \/ Finished

Spec == Init /\ [][Next]_vars

(***************************************************************************)
(* Fairness.  A thread inside Submit, Start or Stop keeps going, the loop  *)
(* thread serves the async handle whatever else is going on, and every     *)
(* request outside of Endless ends.  Nobody has to call Submit, Start or   *)
(* Stop, to close a handle or to connect to it, and signals and the 30 s   *)
(* deadline may or may not come.                                           *)
(***************************************************************************)
Fairness ==
    /\ WF_vars(~exited /\ (OnAsync \/ DrainSwap \/ DrainDispatch \/ DrainCheck \/ LoopEnds))
    /\ \A t \in Task \ Endless : WF_vars(~exited /\ OperationDone(t))
    /\ \A w \in Worker : WF_vars(~exited /\ (SubmitPush(w) \/ SubmitSend(w)))
    /\ WF_vars(~exited /\ (StartInit \/ StartSpawn \/ StopFlag \/ StopSend \/ StopJoin))

FairSpec == Spec /\ Fairness

-----------------------------------------------------------------------------
(* Properties. *)

\* Every variable has its type.
TypeOK ==
    /\ running \in BOOLEAN /\ stopping \in BOOLEAN
    /\ queue \in Seq(Task) /\ local \in Seq(Task) /\ dispatched \in Seq(Task)
    /\ handles \subseteq {"async", "signal", "timer"}
    /\ pending \in BOOLEAN
    /\ loop \in {"off", "poll", "swap", "dispatch", "ended"}
    /\ op \in [Task -> Outcome \cup {"none"}]
    /\ signaled \in BOOLEAN /\ exited \in BOOLEAN
    /\ life \in {"idle", "init", "spawn", "flag", "send", "join"}
    /\ starts \in 0..MaxStarts
    /\ step \in [Worker -> {"idle", "push", "send"}]
    /\ holds \in [Worker -> Task \cup {NoTask}]
    /\ accepted \subseteq Task /\ promised \subseteq Task /\ leftover \subseteq Task
    /\ midBatch \in BOOLEAN

\* uv_async_send coalesces, and Drain clears the flag before it swaps: while
\* the loop sleeps with the async handle open, a task that was queued since
\* Start has a wakeup pending or a send still due.
NoLostWakeup ==
    ("async" \in handles /\ loop = "poll") =>
      \A i \in DOMAIN queue :
        \/ queue[i] \in leftover
        \/ pending
        \/ \E w \in Worker : step[w] = "send"

\* Stop drains, unless it catches Drain between its swap and its look at
\* stopping_: otherwise every task whose Submit had returned when Stop was called
\* has been dispatched when Stop returns, and has completed and left the loop,
\* but for one that was parked on a handle that went without it.
StopDrainsBetweenBatches ==
    (life = "idle" /\ ~running /\ ~midBatch) =>
      \A t \in promised : op[t] \in {"ended", "parked"}

\* "Stop() drains and joins it": a task whose Submit had returned when Stop was
\* called has at least been dispatched when Stop returns.
StopDrains ==
    (life = "idle" /\ ~running) => promised \subseteq Range(dispatched)

\* Submission implements one FIFO channel: local followed by queue_.
Fifo == INSTANCE SubmitFifo WITH chan <- local \o queue, out <- dispatched
ImplementsFifo == Fifo!Spec

\* A task whose Submit is about to return while the runtime is up is
\* dispatched, unless Stop is called first or the process exits.
SubmittedIsDispatched ==
    \A t \in Task :
      (running /\ life = "idle" /\ \E w \in Worker : holds[w] = t /\ step[w] = "send")
      ~> t \in Range(dispatched) \/ ~running \/ exited

\* Stop returns, also after a signal has started the shutdown timer and with
\* tasks parked for good, unless a request never ends or a handle is left open.
\* A handle does hold it up after its task has completed: StopWaitsForOperations,
\* which does not allow for that, does not hold.
StopReturns ==
    life \in {"flag", "send", "join"} ~>
      \/ life = "idle" \/ exited
      \/ \E t \in Task : op[t] = "handle" \/ (t \in Endless /\ op[t] = "request")

\* runtime.cpp, Drain: "closing the async lets uv_run() return once outstanding
\* operations finish".  Read on the code: a Stop that waits with every submitted
\* operation completed returns.  It does not hold (TaskRuntimeHandles.cfg).
StopWaitsForOperations ==
    life \in {"flag", "send", "join"} ~>
      \/ life = "idle" \/ exited
      \/ \E t \in Submitted : op[t] \notin {"handle", "ended"}
=============================================================================
