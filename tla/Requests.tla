------------------------------ MODULE Requests ------------------------------
(***************************************************************************)
(* One-shot requests: the life of the Task object that carries a timer, a  *)
(* file-system request, a name lookup or a pinned read or write, from      *)
(* new_task in rt_ffi.cpp through Dispatch and the callbacks of            *)
(* runtime.cpp to rt_task_free.                                            *)
(*                                                                         *)
(* A Task holds the storage libuv works on (fs_req, timer, addr_req,       *)
(* write_req and the read buffer) and the result fields the caller reads.  *)
(* A caller, a Scheme thread or a fiber, has one Task at a time: every     *)
(* high-level call submits, awaits and frees before it submits again.  How *)
(* the await is woken is TaskCompletion, how the channel to the loop       *)
(* thread works is SubmitFifo.                                             *)
(***************************************************************************)
EXTENDS Integers, Sequences, FiniteSets, SequencesExt

CONSTANTS
    Caller,
    Shared,      \* a bytevector that several callers use; each has its own too
    NoBuffer,
    Address,     \* what a lookup answers with: addresses of AF_INET, AF_INET6
    OtherFamily  \* and an entry of any other family

ASSUME RequestsAssumption ==
    /\ Shared \notin Caller /\ NoBuffer \notin Caller \cup {Shared}
    /\ OtherFamily \notin Address
    /\ IsFiniteSet(Caller)

Bytevector == Caller \cup {Shared}

FsVoidOp == {"unlink"}     \* stands for mkdir, rmdir, unlink and rename
FsPathOp == FsVoidOp \cup {"stat", "realpath", "scandir"}
FsOp == FsPathOp \cup {"fs_open", "fs_read", "fs_write", "fs_close"}
StreamOp == {"stream_read", "stream_write", "close_stdin", "close_stdout", "close_stderr"}
\* Operations that give libuv something to work on.
UvOp == {"timer", "dns", "connect", "close_proc"} \cup FsOp \cup StreamOp
\* Operations that Dispatch answers itself; a wait, if the child has exited.
ImmediateOp == {"stdio", "spawn", "wait"}

VARIABLES
    task,     \* per caller: its Task, or NoTask
    inbox,    \* callers whose Task is submitted and not yet dispatched
    uv,       \* callers to whose Task libuv or a handle on the loop has a pointer
    locks,    \* per bytevector: calls of Slock_object not yet undone
    bytes     \* per bytevector: its contents

requestVars == <<task, inbox, uv, locks, bytes>>

Negative == -1          \* a negative errno
NoName == -2            \* UV_EAI_NONAME

Zeros(n) == [i \in 1..n |-> 0]

\* The members of a Task the caller and the loop thread look at.
NoTask == [op |-> "none", at |-> "none", nbytes |-> 0, buffer |-> <<>>,
           pin |-> NoBuffer, result |-> 0, names |-> <<>>]

new_task(o, n, data) ==
    [NoTask EXCEPT !.op = o, !.at = "queued", !.nbytes = n, !.buffer = data]

\* No buffer: the bytes of the locked bytevector are used in place.
new_pinned_task(o, bv, n) == [new_task(o, n, <<>>) EXCEPT !.pin = bv]

Pins(t, b) == IF t.pin = b THEN 1 ELSE 0

\* Mutant of Unpinned: rt_task_free forgets Sunlock_object.
UnpinnedNever(t, b) == 0

\* Sunlock_object in rt_task_free.
Unpinned(t, b) == Pins(t, b)

\* The caller's side of a hand-over: rt_task_free of the Task it has, if it has
\* one, then new_task and Submit of the next, if there is one.
Turn(c, t) ==
    /\ task' = [task EXCEPT ![c] = t]
    /\ locks' = [b \in Bytevector |-> locks[b] - Unpinned(task[c], b) + Pins(t, b)]
    /\ inbox' = IF t = NoTask THEN inbox ELSE Append(inbox, c)

\* task_data: where the bytes of a read go and those of a write come from.
task_data(t) == IF t.pin = NoBuffer THEN t.buffer ELSE bytes[t.pin]

\* Mutant of ReadInto: the whole buffer is copied, not result bytes of it.
ReadIntoAll(c) == task[c].buffer

\* rt_read_into.
ReadInto(c) == SubSeq(task[c].buffer, 1, task[c].result)

-----------------------------------------------------------------------------
(* Loop thread. *)

Dispatched(c, ops) ==
    /\ inbox # <<>> /\ c = Head(inbox) /\ task[c].op \in ops
    /\ inbox' = Tail(inbox)

\* Task::Complete with result r; the result members are written before it.
Complete(c, r, out) ==
    task' = [task EXCEPT ![c].at = "done", ![c].result = r, ![c].names = out]

\* Dispatch hands the request or the handle inside of the Task to libuv.
DispatchToUv(c) ==
    /\ Dispatched(c, UvOp)
    /\ uv' = uv \cup {c}
    /\ task' = [task EXCEPT ![c].at = "uv"]
    /\ UNCHANGED <<locks, bytes>>

\* The libuv call fails at once: Dispatch completes the task.
DispatchFails(c) ==
    /\ Dispatched(c, {"dns", "connect", "stream_read", "stream_write"})
    /\ Complete(c, Negative, <<>>)
    /\ UNCHANGED <<uv, locks, bytes>>

Pending(c, ops) == task[c].at = "uv" /\ task[c].op \in ops

\* The callback of a request, its last: libuv is through with the Task.
Finished(c, r, out) ==
    /\ uv' = uv \ {c}
    /\ Complete(c, r, out)
    /\ UNCHANGED <<inbox, locks>>

\* on_fs_done: what it copies out of the request before the cleanup.
FsResult(c, r, answer) == IF r >= 0 /\ task[c].op \notin FsVoidOp THEN answer ELSE <<>>

OnFsDone(c, r, answer) == Finished(c, r, FsResult(c, r, answer))

\* Mutant of OnTimer: completes the task and lets the handle close by itself.
OnTimerCompletes(c) ==
    /\ Pending(c, {"timer"})
    /\ Complete(c, 0, <<>>)
    /\ UNCHANGED <<inbox, uv, locks, bytes>>

\* on_timer: stop and close; the handle is in the Task until the close is over.
OnTimer(c) ==
    /\ Pending(c, {"timer"})
    /\ task' = [task EXCEPT ![c].at = "closing"]
    /\ UNCHANGED <<inbox, uv, locks, bytes>>

OnTimerClosed(c) ==
    /\ task[c].at = "closing"
    /\ Finished(c, 0, <<>>)
    /\ UNCHANGED bytes

\* Mutant of Collect: duplicates are kept.
CollectAll(res) == SelectSeq(res, LAMBDA a : a \in Address)

\* on_getaddrinfo: every distinct address, in the order of the answer.
Collect(res) ==
    LET names[i \in 0..Len(res)] ==
          IF i = 0 THEN <<>>
          ELSE IF res[i] \in Address \ Range(names[i - 1]) THEN Append(names[i - 1], res[i])
          ELSE names[i - 1]
    IN names[Len(res)]

\* on_getaddrinfo: an answer without an address is an error.
OnGetaddrinfo(c, res) ==
    /\ Pending(c, {"dns"})
    /\ IF Collect(res) = <<>>
         THEN Finished(c, NoName, <<>>)
         ELSE Finished(c, 0, Collect(res))
    /\ UNCHANGED bytes

\* Data over the front of a buffer.
Filled(buffer, data) == data \o SubSeq(buffer, Len(data) + 1, Len(buffer))

\* A read of fs or stream kind ends: data in the Task's buffer or in the
\* bytevector, their number as the result; 0 is the end of the file.
ReadEnds(c, data) ==
    LET t == task[c] IN
    /\ uv' = uv \ {c}
    /\ task' = [task EXCEPT ![c].at = "done", ![c].result = Len(data),
                            ![c].buffer = IF t.pin = NoBuffer THEN Filled(@, data) ELSE @]
    /\ bytes' = [b \in Bytevector |-> IF b = t.pin THEN Filled(bytes[b], data) ELSE bytes[b]]
    /\ UNCHANGED <<inbox, locks>>

-----------------------------------------------------------------------------
(* Properties. *)

\* "Timer handles are embedded in the Task, so the Task must outlive the
\* close": whenever libuv has a pointer into a Task, the Task exists and is not
\* done, because a Task that is done may be freed by its caller at any moment.
StorageOutlivesUse == \A c \in uv : task[c].at \in {"uv", "closing"}

\* A bytevector is locked while libuv reads or writes its bytes, also when
\* several callers share it and one of them frees its task, and the locks are
\* given back: each Task that names a bytevector accounts for one lock.
PinsCoverIo ==
    /\ \A c \in uv : task[c].pin # NoBuffer => locks[task[c].pin] > 0
    /\ \A b \in Bytevector :
         locks[b] = Cardinality({c \in Caller : task[c].pin = b})
=============================================================================
