--------------------------- MODULE AsyncScheduler ---------------------------
(***************************************************************************)
(* The fiber scheduler of chez-async/high-level/io-async.ss: one call of   *)
(* run-async on one Scheme thread, its fibers, their futures, and the      *)
(* completion queue the loop thread posts finished tasks to.               *)
(*                                                                         *)
(* A future is also the identity of the fiber that computes it.  What a    *)
(* fiber does between two suspensions is arbitrary: it may spawn fibers,   *)
(* submit tasks, await a task, await a future, return or raise.  shift* /  *)
(* reset* appear only as what they are for, suspending and resuming the    *)
(* current fiber.  Only the loop thread (Complete) runs concurrently.      *)
(***************************************************************************)
EXTENDS Naturals, Sequences, FiniteSets, SequencesExt

CONSTANTS
    Fiber,        \* fibers, that is, futures; each is created at most once
    Root,         \* the fiber of run-async's thunk
    NoFiber,
    Task,         \* task handles; an address is used again after task-free
    NoTask,
    MaxSubmits    \* bound on the submissions of a run

ASSUME SchedulerAssumption ==
    /\ Root \in Fiber /\ NoFiber \notin Fiber
    /\ NoTask \notin Task
    /\ MaxSubmits \in Nat

VARIABLES
    fut,          \* future-state: "none" (not created), "pending", "ok", "err"
    futWaiters,   \* future-waiters, newest first
    aims,         \* the future a fiber is awaiting, looked at again on resume
    got,          \* the task whose result a fiber is resumed with
    ready,        \* scheduler-ready: a list, newest first
    batch,        \* what is left of the batch being run, next first
    cur,          \* current-fiber
    waiters,      \* scheduler-waiters: task -> parked fiber
    completed,    \* scheduler-completed: delivered before anybody awaited
    cq,           \* the completion queue's q_
    op,           \* per handle: "free", "inflight", "posted" or "handed"
    submits,      \* submissions so far
    at,           \* scheduler-loop: "take", "run", "wait", "poll" or "done"
    outcome       \* of run-async: "none", "ok", "err" or "deadlock"

fiberVars == <<fut, futWaiters, aims>>
tableVars == <<waiters, completed>>
vars == <<fiberVars, got, ready, batch, cur, tableVars, cq, op, submits, at, outcome>>

\* run-async up to scheduler-loop: (async root-thunk) on a fresh scheduler.
Init ==
    /\ fut = [f \in Fiber |-> IF f = Root THEN "pending" ELSE "none"]
    /\ futWaiters = [f \in Fiber |-> <<>>]
    /\ aims = [f \in Fiber |-> NoFiber]
    /\ got = [f \in Fiber |-> NoTask]
    /\ ready = <<Root>>
    /\ batch = <<>>
    /\ cur = NoFiber
    /\ waiters = [t \in Task |-> NoFiber]
    /\ completed = {}
    /\ cq = <<>>
    /\ op = [t \in Task |-> "free"]
    /\ submits = 0
    /\ at = "take"
    /\ outcome = "none"

\* enqueue-ready! of several items, the first of them first.
Enqueue(items) == Reverse(items) \o ready

\* The value of await ends in task-run, which frees the handle.
TaskFree(t) == [op EXCEPT ![t] = "free"]

-----------------------------------------------------------------------------
(* The current fiber. *)

\* f runs its own code; it is not on its way through await-future.
InBody(f) == cur = f /\ aims[f] = NoFiber

\* async: a new future, its first step at the end of the run queue.
Async(f, g) ==
    /\ InBody(f)
    /\ fut[g] = "none"
    /\ fut' = [fut EXCEPT ![g] = "pending"]
    /\ ready' = Enqueue(<<g>>)
    /\ UNCHANGED <<futWaiters, aims, got, batch, cur, tableVars, cq, op, submits, at, outcome>>

\* An rt_* submission with current-cq bound to this scheduler's queue.
SubmitTask(f, t) ==
    /\ InBody(f)
    /\ op[t] = "free" /\ submits < MaxSubmits
    /\ op' = [op EXCEPT ![t] = "inflight"]
    /\ submits' = submits + 1
    /\ UNCHANGED <<fiberVars, got, ready, batch, cur, tableVars, cq, at, outcome>>

\* A handle of a submission nobody has awaited yet.  Awaiting one handle twice
\* is outside of the contract of task-run: the first await frees it.
Awaitable(t) == op[t] \in {"inflight", "posted"} /\ waiters[t] = NoFiber

\* Mutant of Claim: hashtable-delete! is missing.
ClaimKeeps(t) == completed

\* The completed table without the entry an await has used.
Claim(t) == completed \ {t}

\* scheduler-await: the completion is in the table already.
AwaitTaskDone(f, t) ==
    /\ InBody(f) /\ Awaitable(t)
    /\ t \in completed
    /\ completed' = Claim(t)
    /\ op' = TaskFree(t)
    /\ UNCHANGED <<fiberVars, got, ready, batch, cur, waiters, cq, submits, at, outcome>>

\* Mutant of NotDelivered: parks without a look at the completed table.
NotDeliveredAssumed(t) == TRUE

NotDelivered(t) == t \notin completed

\* scheduler-await: park until deliver-one! finds the waiter.
AwaitTaskPark(f, t) ==
    /\ InBody(f) /\ Awaitable(t)
    /\ NotDelivered(t)
    /\ waiters' = [waiters EXCEPT ![t] = f]
    /\ cur' = NoFiber
    /\ UNCHANGED <<fiberVars, got, ready, batch, completed, cq, op, submits, at, outcome>>

\* await-future on a pending future, at first or again after a resume.  A
\* settled future returns or raises at once and leaves the scheduler alone.
AwaitFuturePark(f, g) ==
    /\ cur = f /\ aims[f] \in {NoFiber, g}
    /\ fut[g] = "pending"
    /\ futWaiters' = [futWaiters EXCEPT ![g] = <<f>> \o @]
    /\ aims' = [aims EXCEPT ![f] = g]
    /\ cur' = NoFiber
    /\ UNCHANGED <<fut, got, ready, batch, tableVars, cq, op, submits, at, outcome>>

\* await-future after a resume: the future has settled.
AwaitFutureDone(f) ==
    /\ cur = f /\ aims[f] # NoFiber
    /\ fut[aims[f]] \in {"ok", "err"}
    /\ aims' = [aims EXCEPT ![f] = NoFiber]
    /\ UNCHANGED <<fut, futWaiters, got, ready, batch, cur, tableVars, cq, op, submits, at, outcome>>

\* Mutant of Settled: an error wakes the waiters but is not recorded.
SettledOnlyOk(f, result) == IF result = "ok" THEN [fut EXCEPT ![f] = result] ELSE fut

Settled(f, result) == [fut EXCEPT ![f] = result]

\* Mutant of WaitersCleared: settle! does not empty the list of waiters.
WaitersKept(f) == futWaiters

WaitersCleared(f) == [futWaiters EXCEPT ![f] = <<>>]

\* handle-step with an outcome: settle! wakes the waiters in list order.
Finish(f, result) ==
    /\ InBody(f)
    /\ fut' = Settled(f, result)
    /\ futWaiters' = WaitersCleared(f)
    /\ ready' = Enqueue(futWaiters[f])
    /\ cur' = NoFiber
    /\ UNCHANGED <<aims, got, batch, tableVars, cq, op, submits, at, outcome>>

-----------------------------------------------------------------------------
(* scheduler-loop. *)

\* Mutant of OldestFirst: the newest-first list is run as it is.
NewestFirst(items) == items

OldestFirst(items) == Reverse(items)

\* Take the whole ready list as the next batch, oldest first.
TakeBatch ==
    /\ at = "take"
    /\ batch' = OldestFirst(ready)
    /\ ready' = <<>>
    /\ at' = "run"
    /\ UNCHANGED <<fiberVars, got, cur, tableVars, cq, op, submits, outcome>>

\* run-fiber!: start the fiber or resume it; a task result is consumed here.
RunFiber ==
    /\ at = "run" /\ cur = NoFiber /\ batch # <<>>
    /\ LET f == Head(batch) IN
         /\ cur' = f
         /\ op' = IF got[f] = NoTask THEN op ELSE TaskFree(got[f])
         /\ got' = [got EXCEPT ![f] = NoTask]
    /\ batch' = Tail(batch)
    /\ UNCHANGED <<fiberVars, ready, tableVars, cq, submits, at, outcome>>

BatchOver == at = "run" /\ cur = NoFiber /\ batch = <<>>

TaskWaiting == \E t \in Task : waiters[t] # NoFiber

\* The batch produced new work.
LoopAgain ==
    /\ BatchOver /\ ready # <<>>
    /\ at' = "take"
    /\ UNCHANGED <<fiberVars, got, ready, batch, cur, tableVars, cq, op, submits, outcome>>

\* Nothing to run, a fiber is parked on a task: go and block in rt_cq_wait.
LoopBlock ==
    /\ BatchOver /\ ready = <<>> /\ TaskWaiting
    /\ at' = "wait"
    /\ UNCHANGED <<fiberVars, got, ready, batch, cur, tableVars, cq, op, submits, outcome>>

\* Mutant of NobodyWaits: parked fibers do not keep the loop going.
NobodyWaitsAssumed == TRUE

NobodyWaits == ~TaskWaiting

\* Quiescent: run-async looks at the root and frees the queue.
LoopQuiet ==
    /\ BatchOver /\ ready = <<>> /\ NobodyWaits
    /\ at' = "done"
    /\ outcome' = IF fut[Root] = "pending" THEN "deadlock" ELSE fut[Root]
    /\ UNCHANGED <<fiberVars, got, ready, batch, cur, tableVars, cq, op, submits>>

\* Mutant of HasWaiter: a wake procedure is assumed to be there.
HasWaiterAssumed(t) == TRUE

HasWaiter(t) == waiters[t] # NoFiber

\* Mutant of Kept: a completion nobody waits for yet is dropped.
KeptNot(t) == completed

Kept(t) == completed \cup {t}

\* deliver-one! of the front of the queue.
Deliver(t) ==
    LET f == waiters[t] IN
    IF HasWaiter(t)
      THEN /\ waiters' = [waiters EXCEPT ![t] = NoFiber]
           /\ ready' = Enqueue(<<f>>)
           /\ got' = [got EXCEPT ![f] = t]
           /\ op' = [op EXCEPT ![t] = "handed"]
           /\ UNCHANGED completed
      ELSE /\ completed' = Kept(t)
           /\ UNCHANGED <<waiters, ready, got, op>>

\* completion-queue-wait returns a handle.
WaitOne ==
    /\ at = "wait" /\ cq # <<>>
    /\ Deliver(Head(cq))
    /\ cq' = Tail(cq)
    /\ at' = "poll"
    /\ UNCHANGED <<fiberVars, batch, cur, submits, outcome>>

\* completion-queue-try-pop returns a handle.
TryPop ==
    /\ at = "poll" /\ cq # <<>>
    /\ Deliver(Head(cq))
    /\ cq' = Tail(cq)
    /\ UNCHANGED <<fiberVars, batch, cur, submits, at, outcome>>

\* completion-queue-try-pop returns #f.
PollOver ==
    /\ at = "poll" /\ cq = <<>>
    /\ at' = "take"
    /\ UNCHANGED <<fiberVars, got, ready, batch, cur, tableVars, cq, op, submits, outcome>>

-----------------------------------------------------------------------------

\* The loop thread: Task::Complete posts the handle.
Complete(t) ==
    /\ op[t] = "inflight"
    /\ op' = [op EXCEPT ![t] = "posted"]
    /\ cq' = Append(cq, t)
    /\ UNCHANGED <<fiberVars, got, ready, batch, cur, tableVars, submits, at, outcome>>

FiberStep(f) ==
    \/ \E g \in Fiber : Async(f, g) \/ AwaitFuturePark(f, g)
    \/ \E t \in Task : SubmitTask(f, t) \/ AwaitTaskDone(f, t) \/ AwaitTaskPark(f, t)
    \/ AwaitFutureDone(f)
    \/ \E result \in {"ok", "err"} : Finish(f, result)

LoopStep ==
    \/ TakeBatch \/ RunFiber \/ LoopAgain \/ LoopBlock \/ LoopQuiet
    \/ WaitOne \/ TryPop \/ PollOver

SchedulerThread == LoopStep \/ \E f \in Fiber : FiberStep(f)

\* run-async has returned.
Returned == at = "done" /\ UNCHANGED vars

Next == SchedulerThread \/ (\E t \in Task : Complete(t)) \/ Returned

Spec == Init /\ [][Next]_vars

(***************************************************************************)
(* Fairness.  The Scheme thread keeps running and fibers are finite        *)
(* programs (MaxSubmits and Fiber bound what they can do); an operation    *)
(* that was submitted ends.                                                *)
(***************************************************************************)
Fairness ==
    /\ WF_vars(SchedulerThread)
    /\ \A t \in Task : WF_vars(Complete(t))

FairSpec == Spec /\ Fairness

-----------------------------------------------------------------------------
(* Properties. *)

\* Every variable has its type.
TypeOK ==
    /\ fut \in [Fiber -> {"none", "pending", "ok", "err"}]
    /\ futWaiters \in [Fiber -> Seq(Fiber)]
    /\ aims \in [Fiber -> Fiber \cup {NoFiber}]
    /\ got \in [Fiber -> Task \cup {NoTask}]
    /\ ready \in Seq(Fiber) /\ batch \in Seq(Fiber)
    /\ cur \in Fiber \cup {NoFiber}
    /\ waiters \in [Task -> Fiber \cup {NoFiber}]
    /\ completed \subseteq Task
    /\ cq \in Seq(Task)
    /\ op \in [Task -> {"free", "inflight", "posted", "handed"}]
    /\ submits \in 0..MaxSubmits
    /\ at \in {"take", "run", "wait", "poll", "done"}
    /\ outcome \in {"none", "ok", "err", "deadlock"}

\* Everywhere fiber f can be found.
Places(f) ==
    (IF cur = f THEN {<<"cur">>} ELSE {})
    \cup {<<"batch", i>> : i \in {j \in DOMAIN batch : batch[j] = f}}
    \cup {<<"ready", i>> : i \in {j \in DOMAIN ready : ready[j] = f}}
    \cup {<<"task", t>> : t \in {u \in Task : waiters[u] = f}}
    \cup UNION {{<<"future", g, i>> : i \in {j \in DOMAIN futWaiters[g] : futWaiters[g][j] = f}}
                : g \in Fiber}

\* A fiber that has not settled is in exactly one place: running, queued to
\* run, or parked on one task or one future.  It is never lost and never
\* resumed twice; a settled fiber is nowhere.
FiberInOnePlace ==
    \A f \in Fiber : Cardinality(Places(f)) = (IF fut[f] = "pending" THEN 1 ELSE 0)

\* A completion is never lost and never stale.  A posted handle is in the queue
\* or in the completed table, once; a handle that was freed is in no table, so
\* that the next submission at this address cannot meet an old entry.
HandleInOnePlace ==
    \A t \in Task :
      LET queued == Cardinality({i \in DOMAIN cq : cq[i] = t})
          tabled == IF t \in completed THEN 1 ELSE 0
          given == Cardinality({f \in Fiber : got[f] = t})
      IN /\ queued + tabled = (IF op[t] = "posted" THEN 1 ELSE 0)
         /\ given = (IF op[t] = "handed" THEN 1 ELSE 0)
         /\ (op[t] \in {"free", "handed"} \/ t \in completed) => waiters[t] = NoFiber

\* The scheduler blocks in rt_cq_wait only when a completion is on its way: no
\* fiber is parked on a task whose completion has been taken off the queue.
BlockedIsServed ==
    at = "wait" => \E t \in Task :
      waiters[t] # NoFiber /\ (op[t] = "inflight" \/ t \in Range(cq))

\* A fiber queued to run that was awaiting a future finds it settled: waking is
\* never spurious, and a resumed await-future does not park again.
ResumedAwaitIsSettled ==
    \A f \in Fiber :
      (aims[f] # NoFiber /\ (cur = f \/ f \in Range(ready) \cup Range(batch)))
      => fut[aims[f]] \in {"ok", "err"}

\* "deadlock: root fiber never settled" is raised only in a deadlock: every
\* fiber that has not settled awaits a future that has not settled.
DeadlockIsReal ==
    outcome = "deadlock" =>
      \A f \in Fiber : fut[f] = "pending" =>
        aims[f] # NoFiber /\ fut[aims[f]] = "pending"

\* The fibers queued to run, next first.
RunQueue == batch \o Reverse(ready)

\* Fibers run in the order they became ready, across batches: a step takes the
\* first of the run queue or adds to its end, never anything else.
RunOrderFifo ==
    [][ LET rest == IF cur = NoFiber /\ cur' # NoFiber THEN Tail(RunQueue) ELSE RunQueue
        IN /\ IsPrefix(rest, RunQueue')
           /\ (cur = NoFiber /\ cur' # NoFiber) => cur' = Head(RunQueue) ]_vars

\* run-async: "returns its value after it and all the fibers it spawned have
\* settled".
AllSettledAtReturn ==
    outcome \in {"ok", "err"} => \A f \in Fiber : fut[f] # "pending"

\* run-async returns or raises.
Terminates == <>(at = "done")
=============================================================================
