----------------------------- MODULE NetHandles -----------------------------
(***************************************************************************)
(* TCP listeners and byte streams on the loop thread, and the graceful     *)
(* shutdown that rides on them: the net cases of Runtime::Dispatch, the    *)
(* libuv callbacks, LoopHandle::Close/OnClosed and OnSignal of             *)
(* native/runtime/runtime.cpp and net.hpp.                                 *)
(*                                                                         *)
(* Every step is one libuv callback or one Dispatch, which the loop thread *)
(* runs to its end.  Scheme threads only submit: inbox is the FIFO channel *)
(* that SubmitFifo specifies.  A task is free again when it has completed. *)
(* Scheme uses a handle from the result that delivered it until it submits *)
(* the close of it; a Stream's storage is used again once it is deleted.   *)
(***************************************************************************)
EXTENDS Naturals, Sequences, FiniteSets, SequencesExt

CONSTANTS
    Task,
    Listener,    \* listener objects, each created at most once
    Stream,      \* stream objects; bounds the connections that exist at once
    NoHandle     \* the target of a free task

ASSUME NetAssumption ==
    /\ Listener \cap Stream = {}
    /\ NoHandle \notin Listener \cup Stream

Handle == Listener \cup Stream
StreamOp == {"read", "write", "close_stream"}
ListenerOp == {"accept", "close_listener"}
Op == {"none", "listen", "connect"} \cup StreamOp \cup ListenerOp

VARIABLES
    op,               \* the operation of a task, "none" when it is free
    on,               \* the stream or listener it is about
    inbox,            \* submitted, not yet dispatched
    state,            \* of a handle: "none", "connecting", "open" or "closing";
                      \* of a listener also "deleted"
    held,             \* handles the Scheme side may use
    registry,         \* Runtime::listeners_
    accepted,         \* Listener::accepted
    pendingAccepts,   \* Listener::pending_accepts
    readQueue,        \* Stream::read_queue
    readActive,       \* Stream::read_active
    reading,          \* reading_streams
    signaled,         \* shutdown_signaled_
    timer,            \* the shutdown timer is running
    exited            \* std::_Exit

taskVars == <<op, on>>
listenVars == <<registry, accepted, pendingAccepts>>
readVars == <<readQueue, readActive, reading>>
shutdownVars == <<signaled, timer, exited>>
vars == <<taskVars, inbox, state, held, listenVars, readVars, shutdownVars>>

Init ==
    /\ op = [t \in Task |-> "none"]
    /\ on = [t \in Task |-> NoHandle]
    /\ inbox = <<>>
    /\ state = [h \in Handle |-> "none"]
    /\ held = {}
    /\ registry = {}
    /\ accepted = [l \in Listener |-> <<>>]
    /\ pendingAccepts = [l \in Listener |-> <<>>]
    /\ readQueue = [s \in Stream |-> <<>>]
    /\ readActive = [s \in Stream |-> FALSE]
    /\ reading = {}
    /\ signaled = FALSE /\ timer = FALSE /\ exited = FALSE

\* Task::Complete for every task of a set.
Complete(ts) ==
    /\ op' = [t \in Task |-> IF t \in ts THEN "none" ELSE op[t]]
    /\ on' = [t \in Task |-> IF t \in ts THEN NoHandle ELSE on[t]]

\* LoopHandle::Close: uv_close begins.  The close task, if there is one, is the
\* dispatched task whose operation is the close of the handle.
Close(hs) == state' = [h \in Handle |-> IF h \in hs THEN "closing" ELSE state[h]]

Fresh(h) == state[h] = "none" /\ \A t \in Task : on[t] # h

-----------------------------------------------------------------------------
(* Scheme threads. *)

\* Mutant of Queued: the newest submission is dispatched first.
QueuedFirst(t) == <<t>> \o inbox

Queued(t) == Append(inbox, t)

\* rt_tcp_listen, rt_tcp_connect: the object is created by Dispatch.
SubmitNew(t, o, h) ==
    /\ op[t] = "none" /\ Fresh(h)
    /\ o = (IF h \in Listener THEN "listen" ELSE "connect")
    /\ op' = [op EXCEPT ![t] = o]
    /\ on' = [on EXCEPT ![t] = h]
    /\ inbox' = Queued(t)
    /\ UNCHANGED <<state, held, listenVars, readVars, shutdownVars>>

\* Any other operation, on a handle the caller has; a close gives it up.
SubmitOn(t, o, h) ==
    /\ op[t] = "none" /\ h \in held
    /\ o \in (IF h \in Listener THEN ListenerOp ELSE StreamOp)
    /\ op' = [op EXCEPT ![t] = o]
    /\ on' = [on EXCEPT ![t] = h]
    /\ held' = IF o \in {"close_stream", "close_listener"} THEN held \ {h} ELSE held
    /\ inbox' = Queued(t)
    /\ UNCHANGED <<state, listenVars, readVars, shutdownVars>>

-----------------------------------------------------------------------------
(* Loop thread: Dispatch of the task at the head of the inbox. *)

Dispatched(t, o) ==
    /\ inbox # <<>> /\ t = Head(inbox) /\ op[t] = o
    /\ inbox' = Tail(inbox)

DispatchListen(t) ==
    /\ Dispatched(t, "listen")
    /\ Complete({t})
    /\ \/ /\ state' = [state EXCEPT ![on[t]] = "open"]
          /\ registry' = registry \cup {on[t]}
          /\ held' = held \cup {on[t]}
       \/ Close({on[t]}) /\ UNCHANGED <<registry, held>>
    /\ UNCHANGED <<accepted, pendingAccepts, readVars, shutdownVars>>

DispatchConnect(t) ==
    /\ Dispatched(t, "connect")
    /\ \/ /\ state' = [state EXCEPT ![on[t]] = "connecting"]
          /\ UNCHANGED taskVars
       \/ Complete({t}) /\ Close({on[t]})
    /\ UNCHANGED <<held, listenVars, readVars, shutdownVars>>

\* The listener is used as it is, whether or not its close has begun.
DispatchAccept(t) ==
    LET l == on[t] IN
    /\ Dispatched(t, "accept") /\ state[l] # "deleted"
    /\ IF accepted[l] # <<>>
         THEN /\ Complete({t})
              /\ held' = held \cup {Head(accepted[l])}
              /\ accepted' = [accepted EXCEPT ![l] = Tail(@)]
              /\ UNCHANGED pendingAccepts
         ELSE /\ pendingAccepts' = [pendingAccepts EXCEPT ![l] = Append(@, t)]
              /\ UNCHANGED <<taskVars, held, accepted>>
    /\ UNCHANGED <<state, registry, readVars, shutdownVars>>

\* The same on a listener that is deleted already is undefined: the task is
\* queued where nobody looks, completes with garbage, or the process dies.
DispatchAcceptDeleted(t) ==
    /\ Dispatched(t, "accept") /\ state[on[t]] = "deleted"
    /\ UNCHANGED taskVars \/ Complete({t})
    /\ exited' \in BOOLEAN
    /\ UNCHANGED <<state, held, listenVars, readVars, signaled, timer>>

\* Mutant of ReadsCancelled: during shutdown a read parks as ever.
ReadsCancelledNever == FALSE

ReadsCancelled == signaled

\* A read fails fast during graceful shutdown.
DispatchReadCancelled(t) ==
    /\ Dispatched(t, "read") /\ ReadsCancelled
    /\ Complete({t})
    /\ UNCHANGED <<state, held, listenVars, readVars, shutdownVars>>

\* Queue the read; start the uv-level read unless one is running.
DispatchRead(t) ==
    LET s == on[t] IN
    /\ Dispatched(t, "read") /\ ~ReadsCancelled
    /\ \/ /\ readQueue' = [readQueue EXCEPT ![s] = Append(@, t)]
          /\ readActive' = [readActive EXCEPT ![s] = TRUE]
          /\ UNCHANGED taskVars
       \/ /\ ~readActive[s]      \* uv_read_start fails
          /\ Complete({t})
          /\ UNCHANGED <<readQueue, readActive>>
    /\ reading' = IF readQueue'[s] # <<>> THEN reading \cup {s} ELSE reading
    /\ UNCHANGED <<state, held, listenVars, shutdownVars>>

\* uv_write is under way, or fails at once.
DispatchWrite(t) ==
    /\ Dispatched(t, "write")
    /\ UNCHANGED taskVars \/ Complete({t})
    /\ UNCHANGED <<state, held, listenVars, readVars, shutdownVars>>

\* Mutant of ReadingWithout: a stream stays in reading_streams.
ReadingKept(ss) == reading

ReadingWithout(ss) == reading \ ss

\* Forget the readers of a set of streams.
StopReading(ss) ==
    /\ readQueue' = [s \in Stream |-> IF s \in ss THEN <<>> ELSE readQueue[s]]
    /\ readActive' = [s \in Stream |-> readActive[s] /\ s \notin ss]
    /\ reading' = ReadingWithout(ss)

Readers(ss) == UNION {Range(readQueue[s]) : s \in ss}

DispatchStreamClose(t) ==
    /\ Dispatched(t, "close_stream")
    /\ Complete(Readers({on[t]}))
    /\ StopReading({on[t]})
    /\ Close({on[t]})
    /\ UNCHANGED <<held, listenVars, shutdownVars>>

\* Mutant of Backlog: connections nobody accepted stay open.
BacklogIgnored(ls) == {}

Backlog(ls) == UNION {Range(accepted[l]) : l \in ls}

\* Mutant of RegistryWithout: the listeners stay in the registry.
RegistryKept(ls) == registry

RegistryWithout(ls) == registry \ ls

\* abort_listener: drop unconsumed connections, wake every parked acceptor with
\* ECANCELED, close.  The other tasks of ts complete in the same callback.
AbortListeners(ls, ts) ==
    /\ Close(ls \cup Backlog(ls))
    /\ Complete(ts \cup UNION {Range(pendingAccepts[l]) : l \in ls})
    /\ accepted' = [l \in Listener |-> IF l \in ls THEN <<>> ELSE accepted[l]]
    /\ pendingAccepts' = [l \in Listener |-> IF l \in ls THEN <<>> ELSE pendingAccepts[l]]
    /\ registry' = RegistryWithout(ls)

\* Mutant of AnswerClose: the close task stays without an answer.
AnswerCloseNot(t) == UNCHANGED taskVars

AnswerClose(t) == Complete({t})

\* A listener that is not in the registry was closed by the signal path.
DispatchListenerClose(t) ==
    /\ Dispatched(t, "close_listener")
    /\ IF on[t] \in registry
         THEN AbortListeners({on[t]}, {})
         ELSE AnswerClose(t) /\ UNCHANGED <<state, listenVars>>
    /\ UNCHANGED <<held, readVars, shutdownVars>>

-----------------------------------------------------------------------------
(* Loop thread: libuv callbacks. *)

OnConnect(t) ==
    /\ op[t] = "connect" /\ state[on[t]] = "connecting"
    /\ Complete({t})
    /\ \/ /\ state' = [state EXCEPT ![on[t]] = "open"]
          /\ held' = held \cup {on[t]}
       \/ Close({on[t]}) /\ UNCHANGED held
    /\ UNCHANGED <<inbox, listenVars, readVars, shutdownVars>>

\* Mutant of AcceptorParked: parked acceptors are not looked at.
AcceptorParkedIgnored(l) == FALSE

AcceptorParked(l) == pendingAccepts[l] # <<>>

\* on_connection, uv_accept succeeds: the oldest acceptor or the backlog.
OnConnection(l, s) ==
    /\ state[l] = "open" /\ Fresh(s)
    /\ state' = [state EXCEPT ![s] = "open"]
    /\ IF AcceptorParked(l)
         THEN /\ Complete({Head(pendingAccepts[l])})
              /\ pendingAccepts' = [pendingAccepts EXCEPT ![l] = Tail(@)]
              /\ held' = held \cup {s}
              /\ UNCHANGED accepted
         ELSE /\ accepted' = [accepted EXCEPT ![l] = Append(@, s)]
              /\ UNCHANGED <<taskVars, held, pendingAccepts>>
    /\ UNCHANGED <<inbox, registry, readVars, shutdownVars>>

\* on_connection, uv_accept fails.
OnConnectionFails(l, s) ==
    /\ state[l] = "open" /\ Fresh(s)
    /\ Close({s})
    /\ UNCHANGED <<taskVars, inbox, held, listenVars, readVars, shutdownVars>>

\* on_read with data: the chunk goes to the oldest reader; the uv-level read
\* stops when nobody is queued any more.
OnReadData(s) ==
    /\ readActive[s]
    /\ IF Len(readQueue[s]) <= 1
         THEN Complete(Readers({s})) /\ StopReading({s})
         ELSE /\ Complete({Head(readQueue[s])})
              /\ readQueue' = [readQueue EXCEPT ![s] = Tail(@)]
              /\ UNCHANGED <<readActive, reading>>
    /\ UNCHANGED <<inbox, state, held, listenVars, shutdownVars>>

\* on_read at the end of the stream or with an error: every reader gets it.
OnReadEnd(s) ==
    /\ readActive[s]
    /\ Complete(Readers({s}))
    /\ StopReading({s})
    /\ UNCHANGED <<inbox, state, held, listenVars, shutdownVars>>

\* uv_write has the request until here; closing the stream cancels it first.
OnWrite(t) ==
    /\ op[t] = "write" /\ t \notin Range(inbox)
    /\ Complete({t})
    /\ UNCHANGED <<inbox, state, held, listenVars, readVars, shutdownVars>>

\* Mutant of AfterClose: a stream object is not given back.
AfterCloseLeaks(h) == "deleted"

\* The object is deleted; the storage of a stream may be used again.
AfterClose(h) == IF h \in Listener THEN "deleted" ELSE "none"

\* OnClosed deletes the object and completes its close task.
OnClosed(h) ==
    /\ state[h] = "closing"
    /\ \A t \in Task : ~(op[t] = "write" /\ on[t] = h /\ t \notin Range(inbox))
    /\ state' = [state EXCEPT ![h] = AfterClose(h)]
    /\ Complete({t \in Task : /\ on[t] = h /\ t \notin Range(inbox)
                              /\ op[t] \in {"close_stream", "close_listener"}})
    /\ UNCHANGED <<inbox, held, listenVars, readVars, shutdownVars>>

\* OnSignal: a second signal, or nothing to wind down.
OnSignalExit ==
    /\ signaled \/ registry = {}
    /\ signaled' = TRUE /\ exited' = TRUE
    /\ UNCHANGED <<taskVars, inbox, state, held, listenVars, readVars, timer>>

\* OnSignal: close every listener, cancel every parked read, arm the deadline.
OnSignalGraceful ==
    /\ ~signaled /\ registry # {}
    /\ signaled' = TRUE /\ timer' = TRUE
    /\ AbortListeners(registry, Readers(reading))
    /\ StopReading(reading)
    /\ UNCHANGED <<inbox, held, exited>>

OnShutdownTimer ==
    /\ timer
    /\ exited' = TRUE
    /\ UNCHANGED <<taskVars, inbox, state, held, listenVars, readVars, signaled, timer>>

-----------------------------------------------------------------------------

Dispatch(t) ==
    \/ DispatchListen(t) \/ DispatchConnect(t)
    \/ DispatchAccept(t) \/ DispatchAcceptDeleted(t)
    \/ DispatchReadCancelled(t) \/ DispatchRead(t) \/ DispatchWrite(t)
    \/ DispatchStreamClose(t) \/ DispatchListenerClose(t)

Callback ==
    \/ \E t \in Task : OnConnect(t) \/ OnWrite(t)
    \/ \E l \in Listener, s \in Stream : OnConnection(l, s) \/ OnConnectionFails(l, s)
    \/ \E s \in Stream : OnReadData(s) \/ OnReadEnd(s)
    \/ \E h \in Handle : OnClosed(h)
    \/ OnSignalExit \/ OnSignalGraceful \/ OnShutdownTimer

Submit ==
    \E t \in Task, h \in Handle, o \in Op : SubmitNew(t, o, h) \/ SubmitOn(t, o, h)

\* The process is gone.
Exited == exited /\ UNCHANGED vars

Next ==
    \/ ~exited /\ (Submit \/ Callback)
    \/ ~exited /\ \E t \in Task : Dispatch(t)
    \/ Exited

Spec == Init /\ [][Next]_vars

(***************************************************************************)
(* Fairness.  The loop thread drains the inbox, finishes closing, and a    *)
(* connect or a write ends.  Data, connections, signals, and whatever      *)
(* Scheme submits, may or may not come.                                    *)
(***************************************************************************)
Fairness ==
    /\ \A t \in Task : WF_vars(~exited /\ Dispatch(t))
    /\ \A t \in Task : WF_vars(~exited /\ (OnConnect(t) \/ OnWrite(t)))
    /\ \A h \in Handle : WF_vars(~exited /\ OnClosed(h))

FairSpec == Spec /\ Fairness

-----------------------------------------------------------------------------
(* Properties. *)

\* Every variable has its type.
TypeOK ==
    /\ op \in [Task -> Op]
    /\ on \in [Task -> Handle \cup {NoHandle}]
    /\ inbox \in Seq(Task)
    /\ state \in [Handle -> {"none", "connecting", "open", "closing", "deleted"}]
    /\ \A s \in Stream : state[s] # "deleted"
    /\ \A l \in Listener : state[l] # "connecting"
    /\ held \subseteq Handle
    /\ registry \subseteq Listener
    /\ accepted \in [Listener -> Seq(Stream)]
    /\ pendingAccepts \in [Listener -> Seq(Task)]
    /\ readQueue \in [Stream -> Seq(Task)]
    /\ readActive \in [Stream -> BOOLEAN]
    /\ reading \subseteq Stream
    /\ signaled \in BOOLEAN /\ timer \in BOOLEAN /\ exited \in BOOLEAN

\* reading_streams, read_active and read_queue say the same: the uv-level read
\* runs exactly while a reader is queued, on an open stream, and every queued
\* reader is a read task of this stream, queued once.
ReadStateAgrees ==
    \A s \in Stream :
      /\ (readQueue[s] # <<>>) = readActive[s]
      /\ readActive[s] = (s \in reading)
      /\ readActive[s] => state[s] = "open"
      /\ \A i, j \in DOMAIN readQueue[s] :
           /\ op[readQueue[s][i]] = "read" /\ on[readQueue[s][i]] = s
           /\ readQueue[s][i] = readQueue[s][j] => i = j

\* A connection is never leaked: an open stream is in Scheme's hands, on its
\* way to be closed, or in the backlog of one open listener.
StreamIsOwned ==
    \A s \in Stream : state[s] = "open" =>
      \/ s \in held
      \/ \E i \in DOMAIN inbox : op[inbox[i]] = "close_stream" /\ on[inbox[i]] = s
      \/ \E l \in Listener : state[l] = "open" /\ s \in Range(accepted[l])

\* FIFO submission protects streams: a read, write or close that is still in
\* the inbox finds its stream open, although another fiber may have submitted
\* the close in the meantime.
QueuedStreamOpFindsItOpen ==
    \A i \in DOMAIN inbox : op[inbox[i]] \in StreamOp => state[on[inbox[i]]] = "open"

\* The registry, the backlog and the parked acceptors of a listener agree: the
\* registry holds exactly the open listeners, so that neither the signal path
\* nor ListenerClose closes one twice; a connection and an acceptor never wait
\* side by side; a backlog is of open streams, each in one backlog once.
ListenerStateAgrees ==
    /\ registry = {l \in Listener : state[l] = "open"}
    /\ \A l \in Listener :
         /\ accepted[l] = <<>> \/ pendingAccepts[l] = <<>>
         /\ state[l] # "open" => accepted[l] = <<>>
         /\ \A i, j \in DOMAIN accepted[l] :
              /\ state[accepted[l][i]] = "open" /\ accepted[l][i] \notin held
              /\ accepted[l][i] = accepted[l][j] => i = j

\* "the first signal closes them all, which cancels parked accepts (ECANCELED)
\* and lets the Scheme workers drain and exit": no accept is parked on a
\* listener that is closing or gone.
AcceptParksOnOpenListener ==
    \A t \in Task :
      (op[t] = "accept" /\ t \notin Range(inbox)) => state[on[t]] = "open"

\* After the first signal every read ends, also one that was submitted before
\* the signal and is dispatched after it.
ReadsEndAfterSignal ==
    \A t \in Task : (signaled /\ op[t] = "read") ~> op[t] # "read" \/ exited

\* A close completes, whoever began it.
CloseCompletes ==
    \A t \in Task :
      op[t] \in {"close_stream", "close_listener"} ~> op[t] = "none" \/ exited
=============================================================================
