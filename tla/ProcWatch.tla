------------------------------ MODULE ProcWatch ------------------------------
(***************************************************************************)
(* Child processes and file-system watchers on the loop thread: the Proc*  *)
(* and FsWatch* cases of Runtime::Dispatch with on_process_exit and        *)
(* on_fs_event of native/runtime/runtime.cpp, and the objects of net.hpp.  *)
(* Both kinds of handle have room for one parked task: Process::wait_task  *)
(* and Watcher::pending_next.                                              *)
(*                                                                         *)
(* As in NetHandles a step is one callback or one Dispatch, inbox is the   *)
(* FIFO channel of SubmitFifo, and Scheme uses a handle from the result    *)
(* that delivered it until it submits the close.                           *)
(***************************************************************************)
EXTENDS Naturals, Sequences, SequencesExt

CONSTANTS
    Task, NoTask,
    Process,      \* process objects, each created at most once
    Watcher,      \* watcher objects, each created at most once
    NoHandle,
    MaxEvents     \* bound on the events of one watcher

ASSUME ProcWatchAssumption ==
    /\ NoTask \notin Task
    /\ Process \cap Watcher = {}
    /\ NoHandle \notin Process \cup Watcher
    /\ MaxEvents \in Nat

Handle == Process \cup Watcher
ProcOp == {"wait", "kill", "close_proc"}
WatchOp == {"next", "close_watch"}
OpOn(h) == IF h \in Process THEN ProcOp ELSE WatchOp
Closes == {"close_proc", "close_watch"}

VARIABLES
    op,           \* the operation of a task, "none" when it is free
    on,           \* the process or watcher it is about
    inbox,        \* submitted, not yet dispatched
    state,        \* of a handle: "none", "open", "closing" or "deleted"
    held,         \* handles the Scheme side may use
    exited,       \* Process::exited
    waitTask,     \* Process::wait_task
    pipes,        \* processes whose captured stdio streams are open
    pendingNext,  \* Watcher::pending_next
    events,       \* Watcher::events
    arrived,      \* events so far, which are numbered 1, 2, ...
    seen          \* history: the events given to next-tasks

taskVars == <<op, on>>
procVars == <<exited, waitTask, pipes>>
watchVars == <<pendingNext, events, arrived, seen>>
vars == <<taskVars, inbox, state, held, procVars, watchVars>>

Init ==
    /\ op = [t \in Task |-> "none"]
    /\ on = [t \in Task |-> NoHandle]
    /\ inbox = <<>>
    /\ state = [h \in Handle |-> "none"]
    /\ held = {}
    /\ exited = [p \in Process |-> FALSE]
    /\ waitTask = [p \in Process |-> NoTask]
    /\ pipes = {}
    /\ pendingNext = [w \in Watcher |-> NoTask]
    /\ events = [w \in Watcher |-> <<>>]
    /\ arrived = [w \in Watcher |-> 0]
    /\ seen = [w \in Watcher |-> <<>>]

\* Mutant of Complete: the finished task still names its target.
CompleteKeepsTarget(ts) ==
    /\ op' = [t \in Task |-> IF t \in ts THEN "none" ELSE op[t]]
    /\ UNCHANGED on

\* Task::Complete for every task of a set; Scheme frees them.
Complete(ts) ==
    /\ op' = [t \in Task |-> IF t \in ts THEN "none" ELSE op[t]]
    /\ on' = [t \in Task |-> IF t \in ts THEN NoHandle ELSE on[t]]

\* LoopHandle::Close.
Close(h) == state' = [state EXCEPT ![h] = "closing"]

-----------------------------------------------------------------------------
(* Scheme threads. *)

\* rt_spawn, rt_fs_watch: the object is created by Dispatch.
SubmitNew(t, h) ==
    /\ op[t] = "none"
    /\ state[h] = "none" /\ \A u \in Task : on[u] # h
    /\ op' = [op EXCEPT ![t] = IF h \in Process THEN "spawn" ELSE "watch"]
    /\ on' = [on EXCEPT ![t] = h]
    /\ inbox' = Append(inbox, t)
    /\ UNCHANGED <<state, held, procVars, watchVars>>

\* Any other operation on a handle the caller has; a close gives it up.
SubmitOn(t, o, h) ==
    /\ op[t] = "none" /\ h \in held /\ o \in OpOn(h)
    /\ op' = [op EXCEPT ![t] = o]
    /\ on' = [on EXCEPT ![t] = h]
    /\ held' = IF o \in Closes THEN held \ {h} ELSE held
    /\ inbox' = Append(inbox, t)
    /\ UNCHANGED <<state, procVars, watchVars>>

\* The captured pipes are Streams; Scheme closes them by StreamClose tasks.
ClosePipes(p) ==
    /\ p \in pipes
    /\ pipes' = pipes \ {p}
    /\ UNCHANGED <<taskVars, inbox, state, held, exited, waitTask, watchVars>>

-----------------------------------------------------------------------------
(* Loop thread: Dispatch of the task at the head of the inbox. *)

Dispatched(t, o) ==
    /\ inbox # <<>> /\ t = Head(inbox) /\ op[t] = o
    /\ inbox' = Tail(inbox)

\* uv_spawn, with or without captured stdio; if it fails, the process and the
\* pipes made for it are closed.
DispatchSpawn(t) ==
    LET p == on[t] IN
    /\ Dispatched(t, "spawn")
    /\ Complete({t})
    /\ \/ /\ state' = [state EXCEPT ![p] = "open"]
          /\ held' = held \cup {p}
          /\ pipes' \in {pipes, pipes \cup {p}}
       \/ Close(p) /\ UNCHANGED <<held, pipes>>
    /\ UNCHANGED <<exited, waitTask, watchVars>>

\* Mutant of HasExited: a process that has exited is waited for.
HasExitedIgnored(p) == FALSE

HasExited(p) == exited[p]

\* Complete now, or become the process's wait_task, whoever was there before.
DispatchWait(t) ==
    LET p == on[t] IN
    /\ Dispatched(t, "wait")
    /\ IF HasExited(p)
         THEN Complete({t}) /\ UNCHANGED waitTask
         ELSE waitTask' = [waitTask EXCEPT ![p] = t] /\ UNCHANGED taskVars
    /\ UNCHANGED <<state, held, exited, pipes, watchVars>>

\* uv_process_kill; that the child may exit is OnProcessExit.
DispatchKill(t) ==
    /\ Dispatched(t, "kill")
    /\ Complete({t})
    /\ UNCHANGED <<state, held, procVars, watchVars>>

\* ProcClose does not look at wait_task.
DispatchProcClose(t) ==
    /\ Dispatched(t, "close_proc")
    /\ Close(on[t])
    /\ UNCHANGED <<taskVars, held, procVars, watchVars>>

DispatchWatchOpen(t) ==
    /\ Dispatched(t, "watch")
    /\ Complete({t})
    /\ \/ /\ state' = [state EXCEPT ![on[t]] = "open"]
          /\ held' = held \cup {on[t]}
       \/ Close(on[t]) /\ UNCHANGED held
    /\ UNCHANGED <<procVars, watchVars>>

\* Mutant of Busy: a second waiter takes the place of the first.
BusyIgnored(w) == FALSE

Busy(w) == pendingNext[w] # NoTask

\* EBUSY beside another waiter, else the oldest event, else wait for one.
DispatchNext(t) ==
    LET w == on[t] IN
    /\ Dispatched(t, "next")
    /\ \/ /\ Busy(w)
          /\ Complete({t})
          /\ UNCHANGED <<pendingNext, events, seen>>
       \/ /\ ~Busy(w) /\ events[w] # <<>>
          /\ Complete({t})
          /\ seen' = [seen EXCEPT ![w] = Append(@, Head(events[w]))]
          /\ events' = [events EXCEPT ![w] = Tail(@)]
          /\ UNCHANGED pendingNext
       \/ /\ ~Busy(w) /\ events[w] = <<>>
          /\ pendingNext' = [pendingNext EXCEPT ![w] = t]
          /\ UNCHANGED <<taskVars, events, seen>>
    /\ UNCHANGED <<state, held, procVars, arrived>>

\* Wake the parked waiter with ECANCELED, stop watching, close.
DispatchWatchClose(t) ==
    LET w == on[t] IN
    /\ Dispatched(t, "close_watch")
    /\ Complete({pendingNext[w]})
    /\ pendingNext' = [pendingNext EXCEPT ![w] = NoTask]
    /\ Close(w)
    /\ UNCHANGED <<held, procVars, events, arrived, seen>>

-----------------------------------------------------------------------------
(* Loop thread: libuv callbacks. *)

\* Mutant of WaitSlotEmptied: the completed task stays in wait_task.
WaitSlotKept(p) == waitTask

WaitSlotEmptied(p) == [waitTask EXCEPT ![p] = NoTask]

\* on_process_exit; a closing process handle gets no exit callback.
OnProcessExit(p) ==
    /\ state[p] = "open" /\ ~exited[p]
    /\ exited' = [exited EXCEPT ![p] = TRUE]
    /\ Complete({waitTask[p]})
    /\ waitTask' = WaitSlotEmptied(p)
    /\ UNCHANGED <<inbox, state, held, pipes, watchVars>>

\* Mutant of BacklogAfter: a waiter gets the event, and the backlog as well.
BacklogAfterAlways(w, e) == [events EXCEPT ![w] = Append(@, e)]

BacklogAfter(w, e) == IF Busy(w) THEN events ELSE [events EXCEPT ![w] = Append(@, e)]

\* on_fs_event: to the waiter if there is one, else to the backlog.
OnFsEvent(w) ==
    LET e == arrived[w] + 1 IN
    /\ state[w] = "open" /\ e <= MaxEvents
    /\ arrived' = [arrived EXCEPT ![w] = e]
    /\ events' = BacklogAfter(w, e)
    /\ Complete({pendingNext[w]})
    /\ pendingNext' = [pendingNext EXCEPT ![w] = NoTask]
    /\ seen' = IF Busy(w) THEN [seen EXCEPT ![w] = Append(@, e)] ELSE seen
    /\ UNCHANGED <<inbox, state, held, procVars>>

\* OnClosed deletes the object, with what it held, and completes the close task.
OnClosed(h) ==
    /\ state[h] = "closing"
    /\ state' = [state EXCEPT ![h] = "deleted"]
    /\ Complete({t \in Task : on[t] = h /\ op[t] \in Closes})
    /\ waitTask' = [p \in Process |-> IF p = h THEN NoTask ELSE waitTask[p]]
    /\ events' = [w \in Watcher |-> IF w = h THEN <<>> ELSE events[w]]
    /\ UNCHANGED <<inbox, held, exited, pipes, pendingNext, arrived, seen>>

-----------------------------------------------------------------------------

Dispatch(t) ==
    \/ DispatchSpawn(t) \/ DispatchWait(t) \/ DispatchKill(t) \/ DispatchProcClose(t)
    \/ DispatchWatchOpen(t) \/ DispatchNext(t) \/ DispatchWatchClose(t)

Scheme ==
    \/ \E t \in Task, h \in Handle : SubmitNew(t, h) \/ \E o \in OpOn(h) : SubmitOn(t, o, h)
    \/ \E p \in Process : ClosePipes(p)

\* With nothing submitted and nothing closing the loop thread may sleep.
Asleep ==
    /\ inbox = <<>> /\ \A h \in Handle : state[h] # "closing"
    /\ UNCHANGED vars

Next ==
    \/ Scheme
    \/ \E t \in Task : Dispatch(t)
    \/ \E p \in Process : OnProcessExit(p)
    \/ \E w \in Watcher : OnFsEvent(w)
    \/ \E h \in Handle : OnClosed(h)
    \/ Asleep

Spec == Init /\ [][Next]_vars

(***************************************************************************)
(* Fairness.  The loop thread drains the inbox, and a child ends.  Nothing *)
(* is assumed of Scheme, of the file system, or of how soon handles close. *)
(***************************************************************************)
Fairness ==
    /\ \A t \in Task : WF_vars(Dispatch(t))
    /\ \A p \in Process : WF_vars(OnProcessExit(p))

FairSpec == Spec /\ Fairness

-----------------------------------------------------------------------------
(* Properties. *)

\* Every variable has its type, and a task names a target of the right kind.
TypeOK ==
    /\ op \in [Task -> {"none", "spawn", "watch"} \cup ProcOp \cup WatchOp]
    /\ on \in [Task -> Handle \cup {NoHandle}]
    /\ \A t \in Task :
         \/ op[t] = "none" /\ on[t] = NoHandle
         \/ op[t] \in ProcOp \cup {"spawn"} /\ on[t] \in Process
         \/ op[t] \in WatchOp \cup {"watch"} /\ on[t] \in Watcher
    /\ inbox \in Seq(Task)
    /\ state \in [Handle -> {"none", "open", "closing", "deleted"}]
    /\ held \subseteq Handle /\ pipes \subseteq Process
    /\ exited \in [Process -> BOOLEAN]
    /\ waitTask \in [Process -> Task \cup {NoTask}]
    /\ pendingNext \in [Watcher -> Task \cup {NoTask}]
    /\ events \in [Watcher -> Seq(1..MaxEvents)]
    /\ arrived \in [Watcher -> 0..MaxEvents]
    /\ seen \in [Watcher -> Seq(1..MaxEvents)]

\* Dispatched, not completed.
Parked(t) == op[t] # "none" /\ t \notin Range(inbox)

\* wait_task is a wait of this process that is still outstanding, and the
\* process has not exited: on_process_exit never completes a task twice or one
\* that Scheme has freed.
WaitSlotValid ==
    \A p \in Process : waitTask[p] # NoTask =>
      /\ Parked(waitTask[p]) /\ op[waitTask[p]] = "wait" /\ on[waitTask[p]] = p
      /\ ~exited[p] /\ state[p] \in {"open", "closing"}

\* A parked io-watch-next is never lost: it is the pending_next of an open
\* watcher without a backlog, whatever other waiters and closes came.
NextIsServed ==
    \A t \in Task : (op[t] = "next" /\ Parked(t)) =>
      /\ pendingNext[on[t]] = t
      /\ state[on[t]] = "open" /\ events[on[t]] = <<>>

\* Events reach the next-tasks in order, none lost and none twice.
EventsInOrder ==
    \A w \in Watcher : state[w] \in {"open", "closing"} =>
      seen[w] \o events[w] = [i \in 1..arrived[w] |-> i]

\* t is the only wait of its process, which nobody is closing.
SoleWait(t) ==
    /\ op[t] = "wait" /\ on[t] \in held
    /\ t \in Range(inbox) \/ waitTask[on[t]] = t
    /\ \A u \in Task \ {t} : ~(op[u] = "wait" /\ on[u] = on[t])

\* io-proc-wait returns, whether the child exits before or after the wait is
\* dispatched, unless a second wait or a close gets in the way.
WaitReturns == \A t \in Task : SoleWait(t) ~> ~SoleWait(t)

\* net.hpp, Process: "The exit callback records the status; a wait task
\* completes then, or immediately if the process has already exited".
WaitEndsAtExit ==
    \A t \in Task : (op[t] = "wait" /\ Parked(t)) => ~exited[on[t]]
=============================================================================
