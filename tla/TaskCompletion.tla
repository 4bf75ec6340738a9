--------------------------- MODULE TaskCompletion ---------------------------
(***************************************************************************)
(* The hand-off of a finished task from the loop thread to the Scheme      *)
(* threads: Task::Complete/Wait and the reference-counted CompletionQueue  *)
(* of native/runtime/task.hpp, driven through rt_ffi.cpp.                  *)
(*                                                                         *)
(* Three kinds of threads interleave:                                      *)
(*   - the loop thread, which runs Complete() for one task at a time;      *)
(*   - Scheme threads that block in rt_await (the default await-hook),     *)
(*     whether or not the task is routed to a queue as well;               *)
(*   - one Scheme thread per queue (the thread inside run-async), which    *)
(*     creates the queue, routes its tasks to it, reaps them with          *)
(*     rt_cq_wait / rt_cq_try_pop and finally drops it with rt_cq_free.    *)
(* A step is what happens between two visible synchronisations: a critical *)
(* section of Task::m_ or CompletionQueue::m_, a notify_one, or an atomic  *)
(* update of refs_.                                                        *)
(***************************************************************************)
EXTENDS Naturals, Sequences, FiniteSets

CONSTANTS
    Task,      \* task handles: each is allocated at most once
    Queue,     \* completion queue handles
    NoQueue    \* the null cq of a task awaited through its own cv

ASSUME TaskAssumption == IsFiniteSet(Task)
ASSUME QueueAssumption == NoQueue \notin Queue

VARIABLES
    mem,       \* storage of the Task object: "absent", "live" or "freed"
    cq,        \* Task::cq, which Complete() caches before it publishes done_
    done,      \* Task::done_
    stage,     \* how far the task is on its way through the loop thread
    awaiter,   \* the thread in rt_await: asleep or awake in Wait(), or it "has"
               \* the result
    reaped,    \* WaitOne or TryPop has returned the task's handle
    qmem,      \* storage of the CompletionQueue object
    refs,      \* CompletionQueue::refs_
    creator,   \* the creator still holds its reference (rt_cq_free not called)
    q,         \* CompletionQueue::q_
    reader     \* the thread in WaitOne(): "idle", "asleep" or "awake"

taskVars == <<mem, cq, done, stage, awaiter, reaped>>
queueVars == <<qmem, refs, creator, q, reader>>
vars == <<taskVars, queueVars>>

(***************************************************************************)
(* The stages of a task.  "created": new_task has returned, Submit has     *)
(* not.  "inflight": the runtime owns it.  The next four are the points    *)
(* inside Complete(): done_ is published and cv_.notify_one is due, the    *)
(* push to the queue is due, the queue's notify_one is due, Release is     *)
(* due.  "wedged": the loop thread is stuck inside the notify_one of a     *)
(* condition variable that no longer exists.                               *)
(***************************************************************************)
InComplete == {"notify", "post", "qnotify", "release"}
Stage == {"none", "created", "inflight", "finished", "wedged"} \cup InComplete

\* The stages in which a task owns a reference to its queue.
Retaining == {"created", "inflight", "wedged"} \cup InComplete

Storage == {"absent", "live", "freed"}

Wedged == \E t \in Task : stage[t] = "wedged"

\* The loop thread is between two callbacks.
LoopIdle == \A t \in Task : stage[t] \notin InComplete \cup {"wedged"}

Init ==
    /\ mem = [t \in Task |-> "absent"]
    /\ cq = [t \in Task |-> NoQueue]
    /\ done = [t \in Task |-> FALSE]
    /\ stage = [t \in Task |-> "none"]
    /\ awaiter = [t \in Task |-> "idle"]
    /\ reaped = [t \in Task |-> FALSE]
    /\ qmem = [c \in Queue |-> "absent"]
    /\ refs = [c \in Queue |-> 0]
    /\ creator = [c \in Queue |-> FALSE]
    /\ q = [c \in Queue |-> <<>>]
    /\ reader = [c \in Queue |-> "idle"]

-----------------------------------------------------------------------------
(* The reference count. *)

\* Mutant of Retain: new_task forgets to take the task's reference.
RetainForgotten(c) == UNCHANGED refs

Retain(c) == refs' = [refs EXCEPT ![c] = @ + 1]

\* Mutant of Release: compares the value after the decrement.
ReleaseOffByOne(c) ==
    /\ refs' = [refs EXCEPT ![c] = @ - 1]
    /\ IF refs[c] = 2
         THEN /\ qmem' = [qmem EXCEPT ![c] = "freed"]
              /\ q' = [q EXCEPT ![c] = <<>>]
         ELSE UNCHANGED <<qmem, q>>

\* fetch_sub returning 1 deletes the queue; handles still in q_ go with it.
Release(c) ==
    /\ refs' = [refs EXCEPT ![c] = @ - 1]
    /\ IF refs[c] = 1
         THEN /\ qmem' = [qmem EXCEPT ![c] = "freed"]
              /\ q' = [q EXCEPT ![c] = <<>>]
         ELSE UNCHANGED <<qmem, q>>

-----------------------------------------------------------------------------
(* Scheme threads: queues and submission. *)

\* rt_cq_create: refs_ starts at the creator's 1.
CqCreate(c) ==
    /\ qmem[c] = "absent"
    /\ qmem' = [qmem EXCEPT ![c] = "live"]
    /\ refs' = [refs EXCEPT ![c] = 1]
    /\ creator' = [creator EXCEPT ![c] = TRUE]
    /\ UNCHANGED <<taskVars, q, reader>>

\* The owner of queue c is running Scheme code inside run-async: neither in
\* WaitOne() nor between new_task and Submit.
OwnerRunning(c) ==
    /\ creator[c]
    /\ reader[c] = "idle"
    /\ \A t \in Task : cq[t] = c => stage[t] # "created"

\* new_task with cq = 0.
NewTask(t) ==
    /\ mem[t] = "absent"
    /\ mem' = [mem EXCEPT ![t] = "live"]
    /\ stage' = [stage EXCEPT ![t] = "created"]
    /\ UNCHANGED <<cq, done, awaiter, reaped, queueVars>>

\* new_task routed to a queue: the task takes its reference before Submit.
NewQueuedTask(t, c) ==
    /\ mem[t] = "absent"
    /\ OwnerRunning(c)
    /\ mem' = [mem EXCEPT ![t] = "live"]
    /\ cq' = [cq EXCEPT ![t] = c]
    /\ stage' = [stage EXCEPT ![t] = "created"]
    /\ Retain(c)
    /\ UNCHANGED <<done, awaiter, reaped, qmem, creator, q, reader>>

\* From here on the loop thread may complete the task at any moment.
Submit(t) ==
    /\ stage[t] = "created"
    /\ stage' = [stage EXCEPT ![t] = "inflight"]
    /\ UNCHANGED <<mem, cq, done, awaiter, reaped, queueVars>>

\* rt_cq_free, run by run-async's dynamic-wind on every exit.
CqFree(c) ==
    /\ OwnerRunning(c)
    /\ creator' = [creator EXCEPT ![c] = FALSE]
    /\ Release(c)
    /\ UNCHANGED <<taskVars, reader>>

-----------------------------------------------------------------------------
(* Loop thread: Task::Complete, one step per synchronisation. *)

\* Mutant of CompletePublish: notify_one comes before done_ is set.
CompletePublishLate(t) ==
    /\ stage[t] = "inflight"
    /\ LoopIdle
    /\ done' = [done EXCEPT ![t] = TRUE]
    /\ stage' = [stage EXCEPT ![t] = IF cq[t] = NoQueue THEN "finished" ELSE "post"]
    /\ UNCHANGED <<mem, cq, awaiter, reaped, queueVars>>

\* Publish result and done_ under m_.
CompletePublish(t) ==
    /\ stage[t] = "inflight"
    /\ LoopIdle
    /\ done' = [done EXCEPT ![t] = TRUE]
    /\ stage' = [stage EXCEPT ![t] = "notify"]
    /\ UNCHANGED <<mem, cq, awaiter, reaped, queueVars>>

\* The cached queue pointer decides whether there is anything left to do.
AfterNotify(t) == IF cq[t] = NoQueue THEN "finished" ELSE "post"

\* Mutant of CompleteNotify: the task's cv is never signalled.
CompleteNotifyForgotten(t) ==
    /\ stage[t] = "notify"
    /\ mem[t] = "live"
    /\ stage' = [stage EXCEPT ![t] = AfterNotify(t)]
    /\ UNCHANGED <<mem, cq, done, awaiter, reaped, queueVars>>

\* cv_.notify_one() on the task, as written: outside the critical section.
CompleteNotify(t) ==
    /\ stage[t] = "notify"
    /\ mem[t] = "live"
    /\ awaiter' = [awaiter EXCEPT ![t] = IF @ = "asleep" THEN "awake" ELSE @]
    /\ stage' = [stage EXCEPT ![t] = AfterNotify(t)]
    /\ UNCHANGED <<mem, cq, done, reaped, queueVars>>

\* The same notify_one when the awaiter has freed the task in between: the
\* call is undefined; it returns without effect or never returns.
CompleteNotifyFreed(t) ==
    /\ stage[t] = "notify"
    /\ mem[t] = "freed"
    /\ \E s \in {AfterNotify(t), "wedged"} : stage' = [stage EXCEPT ![t] = s]
    /\ UNCHANGED <<mem, cq, done, awaiter, reaped, queueVars>>

\* CompletionQueue::Post, the critical section.
Post(t) ==
    /\ stage[t] = "post"
    /\ q' = [q EXCEPT ![cq[t]] = Append(@, t)]
    /\ stage' = [stage EXCEPT ![t] = "qnotify"]
    /\ UNCHANGED <<mem, cq, done, awaiter, reaped, qmem, refs, creator, reader>>

\* CompletionQueue::Post, the notify_one after it.
PostNotify(t) ==
    /\ stage[t] = "qnotify"
    /\ reader' = [reader EXCEPT ![cq[t]] = IF @ = "asleep" THEN "awake" ELSE @]
    /\ stage' = [stage EXCEPT ![t] = "release"]
    /\ UNCHANGED <<mem, cq, done, awaiter, reaped, qmem, refs, creator, q>>

\* Mutant of CompleteRelease: Complete keeps the reference.
CompleteReleaseForgotten(t) ==
    /\ stage[t] = "release"
    /\ stage' = [stage EXCEPT ![t] = "finished"]
    /\ UNCHANGED <<mem, cq, done, awaiter, reaped, queueVars>>

\* Drop the reference taken by new_task.
CompleteRelease(t) ==
    /\ stage[t] = "release"
    /\ stage' = [stage EXCEPT ![t] = "finished"]
    /\ Release(cq[t])
    /\ UNCHANGED <<mem, cq, done, awaiter, reaped, creator, reader>>

-----------------------------------------------------------------------------
(* Scheme threads: the blocking await. *)

\* Mutant of WaitCheck: the predicate is tested once, not after each wakeup.
WaitCheckOnce(t) ==
    awaiter' = [awaiter EXCEPT ![t] =
                  IF done[t] \/ awaiter[t] = "awake" THEN "has" ELSE "asleep"]

\* The predicate of cv_.wait, evaluated with m_ held.
WaitCheck(t) ==
    awaiter' = [awaiter EXCEPT ![t] = IF done[t] THEN "has" ELSE "asleep"]

\* rt_await, of any submitted task: neither it nor Wait() looks at cq.
Await(t) ==
    /\ mem[t] = "live"
    /\ stage[t] \notin {"none", "created"}
    /\ awaiter[t] = "idle"
    /\ WaitCheck(t)
    /\ UNCHANGED <<mem, cq, done, stage, reaped, queueVars>>

\* A condition variable may wake its waiter without a notify.
SpuriousWake(t) ==
    /\ awaiter[t] = "asleep"
    /\ awaiter' = [awaiter EXCEPT ![t] = "awake"]
    /\ UNCHANGED <<mem, cq, done, stage, reaped, queueVars>>

WaitResume(t) ==
    /\ awaiter[t] = "awake"
    /\ WaitCheck(t)
    /\ UNCHANGED <<mem, cq, done, stage, reaped, queueVars>>

\* task-run's rt_task_free after its await: by the thread that rt_await gave the
\* result to, or by the fiber that was resumed with the reaped handle.
TaskFree(t) ==
    /\ awaiter[t] = "has" \/ (reaped[t] /\ awaiter[t] = "idle")
    /\ mem[t] = "live"
    /\ mem' = [mem EXCEPT ![t] = "freed"]
    /\ UNCHANGED <<cq, done, stage, awaiter, reaped, queueVars>>

-----------------------------------------------------------------------------
(* Scheme threads: reaping a queue. *)

\* Mutant of Pop: the whole deque is emptied for one handle.
PopAll(c) ==
    /\ reaped' = [reaped EXCEPT ![Head(q[c])] = TRUE]
    /\ q' = [q EXCEPT ![c] = <<>>]
    /\ reader' = [reader EXCEPT ![c] = "idle"]

\* Mutant of Pop: front() without pop_front().
PopKeeps(c) ==
    /\ reaped' = [reaped EXCEPT ![Head(q[c])] = TRUE]
    /\ reader' = [reader EXCEPT ![c] = "idle"]
    /\ UNCHANGED q

\* Pop the front handle and hand it to the caller.
Pop(c) ==
    /\ reaped' = [reaped EXCEPT ![Head(q[c])] = TRUE]
    /\ q' = [q EXCEPT ![c] = Tail(@)]
    /\ reader' = [reader EXCEPT ![c] = "idle"]

\* The predicate of WaitOne's cv_.wait and what follows it, m_ held.
WaitOneCheck(c) ==
    /\ \/ q[c] # <<>> /\ Pop(c)
       \/ /\ q[c] = <<>>
          /\ reader' = [reader EXCEPT ![c] = "asleep"]
          /\ UNCHANGED <<reaped, q>>
    /\ UNCHANGED <<mem, cq, done, stage, awaiter, qmem, refs, creator>>

\* Tasks routed to c whose handle the reader has not received yet and that no
\* thread awaits in rt_await: a fiber may be parked on them.
Outstanding(c) == {t \in Task : cq[t] = c /\ ~reaped[t] /\ awaiter[t] = "idle"}

\* rt_cq_wait: scheduler-loop calls it only with a fiber parked on a task.
WaitOne(c) ==
    /\ OwnerRunning(c)
    /\ Outstanding(c) # {}
    /\ WaitOneCheck(c)

CqSpuriousWake(c) ==
    /\ reader[c] = "asleep"
    /\ reader' = [reader EXCEPT ![c] = "awake"]
    /\ UNCHANGED <<taskVars, qmem, refs, creator, q>>

WaitOneResume(c) ==
    /\ reader[c] = "awake"
    /\ WaitOneCheck(c)

\* rt_cq_try_pop on a non-empty queue; on an empty one it changes nothing.
TryPop(c) ==
    /\ OwnerRunning(c)
    /\ q[c] # <<>>
    /\ Pop(c)
    /\ UNCHANGED <<mem, cq, done, stage, awaiter, qmem, refs, creator>>

-----------------------------------------------------------------------------

\* Every task that was submitted is through the loop thread and nobody waits,
\* or the loop thread is stuck for good: the threads may stay as they are.
Quiescent ==
    /\ \/ Wedged
       \/ /\ \A t \in Task : stage[t] \in {"none", "finished"}
          /\ \A t \in Task : awaiter[t] \in {"idle", "has"}
          /\ \A c \in Queue : reader[c] = "idle"
    /\ UNCHANGED vars

LoopStep(t) ==
    \/ CompletePublish(t)
    \/ CompleteNotify(t)
    \/ CompleteNotifyFreed(t)
    \/ Post(t)
    \/ PostNotify(t)
    \/ CompleteRelease(t)

Next ==
    \/ \E c \in Queue :
         \/ CqCreate(c) \/ CqFree(c)
         \/ WaitOne(c) \/ CqSpuriousWake(c) \/ WaitOneResume(c) \/ TryPop(c)
         \/ \E t \in Task : NewQueuedTask(t, c)
    \/ \E t \in Task :
         \/ NewTask(t) \/ Submit(t) \/ LoopStep(t)
         \/ Await(t) \/ SpuriousWake(t) \/ WaitResume(t) \/ TaskFree(t)
    \/ Quiescent

Spec == Init /\ [][Next]_vars

(***************************************************************************)
(* Fairness.  The loop thread keeps running, every operation handed to     *)
(* libuv ends (a parked accept or read is the subject of other modules), a *)
(* thread that was woken is scheduled, and new_task is followed by Submit  *)
(* in the same FFI call.  Nothing obliges a Scheme thread to create, await,*)
(* reap or free.                                                           *)
(***************************************************************************)
Fairness ==
    /\ \A t \in Task : WF_vars(LoopStep(t)) /\ WF_vars(Submit(t))
    /\ \A t \in Task : WF_vars(WaitResume(t))
    /\ \A c \in Queue : WF_vars(WaitOneResume(c))

FairSpec == Spec /\ Fairness

-----------------------------------------------------------------------------
(* Properties. *)

\* Every variable has its type.
TypeOK ==
    /\ mem \in [Task -> Storage]
    /\ cq \in [Task -> Queue \cup {NoQueue}]
    /\ done \in [Task -> BOOLEAN]
    /\ stage \in [Task -> Stage]
    /\ awaiter \in [Task -> {"idle", "asleep", "awake", "has"}]
    /\ reaped \in [Task -> BOOLEAN]
    /\ qmem \in [Queue -> Storage]
    /\ refs \in [Queue -> Nat]
    /\ creator \in [Queue -> BOOLEAN]
    /\ q \in [Queue -> Seq(Task)]
    /\ reader \in [Queue -> {"idle", "asleep", "awake"}]

\* The tasks that own a reference to queue c.
Retainers(c) == {t \in Task : cq[t] = c /\ stage[t] \in Retaining}

CreatorRefs(c) == IF creator[c] THEN 1 ELSE 0

\* refs_ counts exactly the creator and the tasks between new_task and the end
\* of Complete, and the queue exists exactly as long as somebody is counted:
\* no early delete, no double delete, no reference that is never dropped.
RefsExact ==
    \A c \in Queue :
      /\ refs[c] = Cardinality(Retainers(c)) + CreatorRefs(c)
      /\ qmem[c] = "live" <=> refs[c] > 0

\* "This keeps the queue alive until the last in-flight task has posted": the
\* loop thread in Post or Release, and the owner in WaitOne, TryPop or new_task,
\* find the queue live, also when rt_cq_free came before the completion.
QueueLiveWhenUsed ==
    /\ \A t \in Task :
         (cq[t] # NoQueue /\ stage[t] \in Retaining) => qmem[cq[t]] = "live"
    /\ \A c \in Queue :
         (creator[c] \/ reader[c] # "idle" \/ q[c] # <<>>) => qmem[c] = "live"

\* A handle in a queue is a completed task that was routed to this queue, was
\* not reaped yet, and is there once; and unless a blocking rt_await was given
\* the same task, it exists: what WaitOne and TryPop return may be read and
\* freed, whatever blocking awaits of other tasks do.  The exception is needed,
\* although io-runtime.ss:196 says that a non-zero cq does not affect a blocking
\* await: RoutedAwaitHarmless says the same without it and does not hold.
QueuedHandlesValid ==
    \A c \in Queue : \A i \in DOMAIN q[c] :
      LET t == q[c][i] IN
        /\ done[t] /\ cq[t] = c /\ ~reaped[t]
        /\ stage[t] \in {"qnotify", "release", "finished"}
        /\ awaiter[t] # "has" => mem[t] = "live"
        /\ \A j \in DOMAIN q[c] : q[c][j] = t => i = j

\* While the owner keeps the queue, a posted completion is in the queue or was
\* handed to the owner: none is dropped.
NoCompletionLost ==
    \A t \in Task :
      LET c == cq[t] IN
        (/\ c # NoQueue /\ creator[c]
         /\ stage[t] \in {"qnotify", "release", "finished"})
        => reaped[t] \/ \E i \in DOMAIN q[c] : q[c][i] = t

\* No lost wakeup: whoever sleeps although its condition already holds has a
\* notify_one coming.
NoLostWakeup ==
    /\ \A t \in Task :
         (awaiter[t] = "asleep" /\ done[t]) => stage[t] = "notify"
    /\ \A c \in Queue :
         (reader[c] = "asleep" /\ q[c] # <<>>)
         => \E t \in Task : cq[t] = c /\ stage[t] = "qnotify"

\* A task is handed to the thread that reads and frees it only when done_ is
\* set.  One that is handed out by its queue is handed out, and freed, only when
\* Complete no longer touches it: no such free races the loop thread.
HandedOutAfterUse ==
    \A t \in Task :
      /\ (awaiter[t] = "has" \/ reaped[t] \/ mem[t] = "freed") => done[t]
      /\ (reaped[t] \/ (mem[t] = "freed" /\ awaiter[t] # "has"))
         => stage[t] \in {"qnotify", "release", "finished"}

\* io-runtime.ss, current-cq: a non-zero cq "does not affect a blocking await
\* (Task::Complete signals the cv in any case)".  Read on the code: a blocking
\* await that task-run follows with its free may be used on a routed task too,
\* and the queue still gets a handle of a task that exists.  It does not hold
\* (TaskCompletionRouted.cfg).
RoutedAwaitHarmless ==
    \A c \in Queue : \A i \in DOMAIN q[c] : mem[q[c][i]] = "live"

\* task.hpp, Complete: "the instant done_ is visible, a blocking awaiter may
\* wake and free this Task, so no member may be read afterward".  Read on the
\* code: when the loop thread is about to use cv_, the task still exists.
LoopTouchesLiveTask ==
    \A t \in Task : stage[t] = "notify" => mem[t] = "live"

\* A thread blocked in rt_await returns with the result once the operation
\* ended, and a thread blocked in rt_cq_wait with a task outstanding gets a
\* handle, unless the loop thread was lost to the race above.
WaitersReturn ==
    /\ \A t \in Task :
         awaiter[t] \in {"asleep", "awake"} ~> awaiter[t] = "has" \/ Wedged
    /\ \A c \in Queue : reader[c] # "idle" ~> reader[c] = "idle" \/ Wedged
=============================================================================
