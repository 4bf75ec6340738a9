---------------------------- MODULE HighLevelOps ----------------------------
(***************************************************************************)
(* The calls of chez-async/high-level/io-fs.ss, io-net.ss and io-proc.ss   *)
(* as programs over Requests: each is a chain of submit, await, free, and  *)
(* what the Scheme code does between two awaits is one step.  Callers run  *)
(* side by side, as threads or as fibers; each makes one call.             *)
(*                                                                         *)
(* The operating system is the rest of the state: a source a call reads, a *)
(* sink it writes, the handles it has open and the child it runs.  Bytes   *)
(* are numbered in the order the source has them.                          *)
(***************************************************************************)
EXTENDS Requests

CONSTANTS
    Chunk,       \* bytes a read asks for (65536 in the code)
    SourceLen,   \* bytes of the file or stream a call reads or writes
    MaxAnswer,   \* bound on the entries of a directory or an address list
    OutLen,      \* bytes the child writes to stdout
    ErrLen,      \* bytes the child writes to stderr
    PipeCap,     \* bytes a pipe holds
    Char,        \* what command line arguments are made of
    MaxArgs,     \* bound on the arguments of a command
    Calls        \* per caller: the calls it may make

Prog == {"simple", "read_file", "write_file", "receive", "send", "pipe", "connect", "run", "output"}

ASSUME OpsAssumption ==
    /\ {Chunk, SourceLen, PipeCap, MaxArgs} \subseteq Nat \ {0}
    /\ {MaxAnswer, OutLen, ErrLen} \subseteq Nat
    /\ 0 \notin Char
    /\ Calls \in [Caller -> SUBSET Prog]

SimpleOp == FsPathOp \cup {"timer", "dns", "stdio"}

VARIABLES
    prog,      \* the call a caller makes
    call,      \* "no", "busy", "returned" or "raised"
    val,       \* what it returned
    acc,       \* its local list: chunks, newest first, or addresses left to try
    total,     \* its local byte count
    source,    \* bytes the caller's fd or stream has not read yet
    sink,      \* bytes the operating system has taken from it
    handles,   \* its open descriptors, streams and process handles
    given,     \* history: the entries or addresses the system answered with
    failed,    \* history: the addresses that could not be connected to
    args,      \* the arguments it spawned a child with
    argv,      \* the arguments the child was started with
    child      \* its child: what it has yet to write, what stderr's pipe holds

localVars == <<val, acc, total>>
osVars == <<source, sink, handles, given, failed, args, argv, child>>
vars == <<requestVars, prog, call, localVars, osVars>>

NoChild == [state |-> "none", out |-> 0, err |-> 0, errPipe |-> 0]
Numbered(n) == [i \in 1..n |-> i]
Content == Numbered(SourceLen)

Init ==
    /\ task = [c \in Caller |-> NoTask]
    /\ inbox = <<>> /\ uv = {}
    /\ locks = [b \in Bytevector |-> 0]
    /\ bytes = [b \in Bytevector |-> IF b = Shared THEN Content ELSE Zeros(Chunk)]
    /\ prog = [c \in Caller |-> "simple"]
    /\ call = [c \in Caller |-> "no"]
    /\ val = [c \in Caller |-> <<>>]
    /\ acc = [c \in Caller |-> <<>>]
    /\ total = [c \in Caller |-> 0]
    /\ source = [c \in Caller |-> <<>>]
    /\ sink = [c \in Caller |-> <<>>]
    /\ handles = [c \in Caller |-> {}]
    /\ given = [c \in Caller |-> <<>>]
    /\ failed = [c \in Caller |-> <<>>]
    /\ args = [c \in Caller |-> <<>>]
    /\ argv = [c \in Caller |-> <<>>]
    /\ child = [c \in Caller |-> NoChild]

-----------------------------------------------------------------------------
(* Command lines. *)

Strings == {<<>>} \cup {<<x>> : x \in Char}
Commands == UNION {[1..n -> Strings] : n \in 1..MaxArgs}

\* One behind the other.
Concat(seqs) ==
    LET upto[i \in 0..Len(seqs)] == IF i = 0 THEN <<>> ELSE upto[i - 1] \o seqs[i]
    IN upto[Len(seqs)]

\* pack-strings: each string with a NUL behind it (io-spawn refuses no strings).
PackStrings(strs) == Concat([i \in DOMAIN strs |-> Append(strs[i], 0)])

\* strlen: where the string that starts at i ends.
NulFrom(buf, i) == CHOOSE j \in i..Len(buf) : buf[j] = 0 /\ \A k \in i..(j - 1) : buf[k] # 0

\* UnpackStrings: count strings out of the packed buffer.
UnpackStrings(buf, count) ==
    LET start[i \in 1..count] == IF i = 1 THEN 1 ELSE NulFrom(buf, start[i - 1]) + 1
    IN [i \in 1..count |-> SubSeq(buf, start[i], NulFrom(buf, start[i]) - 1)]

-----------------------------------------------------------------------------
(* Scheme: the calls. *)

NewReq(o) == new_task(o, 0, <<>>)
DnsReq == NewReq("dns")
ReadReq(o) == new_task(o, Chunk, Zeros(Chunk))

\* The bytes are copied into the Task by the submit.
WriteReq(o) == new_task(o, SourceLen, Content)

\* io-spawn: the arguments are packed, and copied by the submit.
SpawnReq(strs) == new_task("spawn", Len(strs), PackStrings(strs))

\* The first request of call p, which gets strs as its arguments.
Begin(c, p, t, strs) ==
    /\ call[c] = "no" /\ p \in Calls[c]
    /\ prog' = [prog EXCEPT ![c] = p]
    /\ call' = [call EXCEPT ![c] = "busy"]
    /\ Turn(c, t)
    /\ source' = [source EXCEPT ![c] = IF p \in {"read_file", "receive", "pipe"}
                                       THEN Content ELSE <<>>]
    /\ args' = [args EXCEPT ![c] = strs]
    /\ UNCHANGED <<uv, bytes, localVars, sink, handles, given, failed, argv, child>>

Call(c) ==
    \/ \E o \in SimpleOp : Begin(c, "simple", NewReq(o), <<>>)
    \/ \E p \in {"read_file", "write_file"} : Begin(c, p, NewReq("fs_open"), <<>>)
    \/ \E o \in {"fs_read", "stream_read"} :
         Begin(c, "receive", new_pinned_task(o, c, Chunk), <<>>)
    \/ \E o \in {"fs_write", "stream_write"} :
         \E t \in {WriteReq(o), new_pinned_task(o, Shared, SourceLen)} : Begin(c, "send", t, <<>>)
    \/ Begin(c, "pipe", new_pinned_task("stream_read", c, Chunk), <<>>)
    \/ Begin(c, "connect", DnsReq, <<>>)
    \/ \E strs \in Commands, p \in {"run", "output"} : Begin(c, p, SpawnReq(strs), strs)

At(c, ps, ops) == prog[c] \in ps /\ task[c].op \in ops
Result(c) == task[c].result

\* The await returns, the task is freed and the next request submitted.
Then(c, t) == Turn(c, t) /\ UNCHANGED <<call, localVars>>

Return(c, v) ==
    /\ Turn(c, NoTask)
    /\ call' = [call EXCEPT ![c] = "returned"]
    /\ val' = [val EXCEPT ![c] = v]
    /\ UNCHANGED <<acc, total>>

\* raise-io-error, out of the whole call: what it has open stays open.  Only
\* io-tcp-connect catches an error, while it has another address to try.
Raise(c) ==
    /\ Result(c) < 0
    /\ task[c].op = "connect" => Len(acc[c]) = 1
    /\ Turn(c, NoTask)
    /\ call' = [call EXCEPT ![c] = "raised"]
    /\ UNCHANGED localVars

\* Calls of a single request.
Simple(c) ==
    /\ prog[c] \in {"simple", "receive", "send"}
    /\ Return(c, IF prog[c] = "simple" THEN task[c].names ELSE <<Result(c)>>)

\* A read of a loop that reads to the end: keep the chunk and read on, or go on
\* with the request after.
ReadOn(c, after) ==
    IF Result(c) = 0
      THEN Then(c, NewReq(after))
      ELSE /\ acc' = [acc EXCEPT ![c] = <<ReadInto(c)>> \o @]
           /\ total' = [total EXCEPT ![c] = @ + Result(c)]
           /\ Turn(c, ReadReq(task[c].op))
           /\ UNCHANGED <<call, val>>

\* The chunks copied one behind the other into a bytevector of total bytes.
Assembled(c) == Filled(Zeros(total[c]), Concat(Reverse(acc[c])))

\* io-read-file.
ReadFile(c) ==
    \/ At(c, {"read_file"}, {"fs_open"}) /\ Then(c, ReadReq("fs_read"))
    \/ At(c, {"read_file"}, {"fs_read"}) /\ ReadOn(c, "fs_close")
    \/ At(c, {"read_file"}, {"fs_close"}) /\ Return(c, Assembled(c))

\* io-write-file: the number of bytes written is not looked at.
WriteFile(c) ==
    \/ At(c, {"write_file"}, {"fs_open"}) /\ Then(c, WriteReq("fs_write"))
    \/ At(c, {"write_file"}, {"fs_write"}) /\ Then(c, NewReq("fs_close"))
    \/ At(c, {"write_file"}, {"fs_close"}) /\ Return(c, <<>>)

\* io-stream-pipe: one bytevector is read into and written from in turn.
Pipe(c) ==
    \/ /\ At(c, {"pipe"}, {"stream_read"})
       /\ IF Result(c) = 0
            THEN Return(c, <<total[c]>>)
            ELSE Then(c, new_pinned_task("stream_write", c, Result(c)))
    \/ /\ At(c, {"pipe"}, {"stream_write"})
       /\ Turn(c, new_pinned_task("stream_read", c, Chunk))
       /\ total' = [total EXCEPT ![c] = @ + task[c].nbytes]
       /\ UNCHANGED <<call, val, acc>>

\* io-tcp-connect: the addresses in turn until one answers.
ConnectTo(c, addresses) ==
    /\ acc' = [acc EXCEPT ![c] = addresses]
    /\ Turn(c, NewReq("connect"))
    /\ UNCHANGED <<call, val, total>>

Connect(c) ==
    \/ At(c, {"connect"}, {"dns"}) /\ ConnectTo(c, task[c].names)
    \/ At(c, {"connect"}, {"connect"}) /\ Result(c) > 0 /\ Return(c, <<Head(acc[c])>>)

ConnectNext(c) ==
    /\ At(c, {"connect"}, {"connect"})
    /\ Result(c) < 0 /\ Len(acc[c]) > 1
    /\ ConnectTo(c, Tail(acc[c]))

\* Mutant of FirstOfOutput: stdin stays open while stdout is read.
FirstOfOutputReads == ReadReq("stream_read")

\* io-run/output: closing stdin is the child's end of input.
FirstOfOutput == NewReq("close_stdin")

\* Mutant of LastStream: only the stream that was used is closed.
LastStreamUsed == "wait"

\* io-run/output: stderr is closed too, although nothing was read from it.
LastStream == "close_stderr"

\* io-run and io-run/output.
Run(c) ==
    \/ At(c, {"run"}, {"spawn"}) /\ Then(c, NewReq("wait"))
    \/ At(c, {"output"}, {"spawn"}) /\ Then(c, FirstOfOutput)
    \/ At(c, {"output"}, {"close_stdin"}) /\ Then(c, ReadReq("stream_read"))
    \/ At(c, {"output"}, {"stream_read"}) /\ ReadOn(c, "close_stdout")
    \/ At(c, {"output"}, {"close_stdout"}) /\ Then(c, NewReq(LastStream))
    \/ At(c, {"output"}, {"close_stderr"}) /\ Then(c, NewReq("wait"))
    \/ At(c, {"run", "output"}, {"wait"}) /\ Then(c, NewReq("close_proc"))
    \/ At(c, {"run", "output"}, {"close_proc"}) /\ Return(c, Assembled(c))

\* What a caller does when its await returns, up to its next await.
Resume(c) ==
    /\ task[c].at = "done"
    /\ \/ Raise(c)
       \/ ConnectNext(c)
       \/ /\ Result(c) >= 0
          /\ Simple(c) \/ ReadFile(c) \/ WriteFile(c) \/ Pipe(c) \/ Connect(c) \/ Run(c)
    /\ UNCHANGED <<uv, bytes, prog, osVars>>

-----------------------------------------------------------------------------
(* The loop thread and the operating system. *)

schemeVars == <<prog, call, localVars, args>>

Opened(c, hs) == handles' = [handles EXCEPT ![c] = @ \cup hs]
Closed(c, h) == handles' = [handles EXCEPT ![c] = @ \ {h}]

\* History of the addresses io-tcp-connect could not reach.
Noted(c) == failed' = [failed EXCEPT ![c] = IF task[c].op = "connect"
                                              THEN Append(@, Head(acc[c])) ELSE @]

\* Dispatch of the requests libuv works on; a half-open socket of a connect that
\* fails at once is closed again.
Dispatch(c) ==
    \/ /\ DispatchToUv(c)
       /\ UNCHANGED <<schemeVars, source, sink, handles, given, failed, argv, child>>
    \/ /\ DispatchFails(c)
       /\ Noted(c)
       /\ UNCHANGED <<schemeVars, source, sink, handles, given, argv, child>>

\* The request ends with an error.
UvFails(c) ==
    /\ Pending(c, FsOp \cup {"dns", "connect", "stream_read", "stream_write"})
    /\ Finished(c, Negative, <<>>)
    /\ Noted(c)
    /\ IF task[c].op = "fs_close" THEN Closed(c, "fd") ELSE UNCHANGED handles
    /\ UNCHANGED <<bytes, schemeVars, source, sink, given, argv, child>>

\* A timer fires, and its handle is closed.
Timer(c) ==
    /\ OnTimer(c) \/ OnTimerClosed(c)
    /\ UNCHANGED <<schemeVars, osVars>>

Entries == {s \in UNION {[1..n -> Address] : n \in 0..MaxAnswer} : IsInjective(s)}

\* A request on a path ends: stat and realpath give one result, scandir names.
FsPathDone(c) ==
    /\ Pending(c, FsPathOp)
    /\ \E answer \in Entries :
         /\ task[c].op \in {"stat", "realpath"} => Len(answer) = 1
         /\ task[c].op = "unlink" => answer = <<>>
         /\ OnFsDone(c, IF task[c].op = "scandir" THEN Len(answer) ELSE 0, answer)
         /\ given' = [given EXCEPT ![c] = answer]
    /\ UNCHANGED <<bytes, schemeVars, source, sink, handles, failed, argv, child>>

FsOpenDone(c) ==
    /\ Pending(c, {"fs_open"})
    /\ OnFsDone(c, 3, <<>>)
    /\ Opened(c, {"fd"})
    /\ UNCHANGED <<bytes, schemeVars, source, sink, given, failed, argv, child>>

FsCloseDone(c) ==
    /\ Pending(c, {"fs_close"})
    /\ OnFsDone(c, 0, <<>>)
    /\ Closed(c, "fd")
    /\ UNCHANGED <<bytes, schemeVars, source, sink, given, failed, argv, child>>

\* A captured stdout ends when the child has exited.
AtEnd(c) ==
    /\ source[c] = <<>>
    /\ prog[c] = "output" => child[c].state # "running"

\* A read gets what there is, or a part of it, or the end.
ReadDone(c) ==
    /\ Pending(c, {"fs_read", "stream_read"})
    /\ \E n \in 0..task[c].nbytes :
         /\ n <= Len(source[c])
         /\ n = 0 <=> AtEnd(c)
         /\ ReadEnds(c, SubSeq(source[c], 1, n))
         /\ source' = [source EXCEPT ![c] = SubSeq(@, n + 1, Len(@))]
    /\ UNCHANGED <<schemeVars, sink, handles, given, failed, argv, child>>

\* A write is taken: uv_write takes it all, write(2) perhaps only a part.
WriteDone(c) ==
    /\ Pending(c, {"fs_write", "stream_write"})
    /\ \E n \in 1..task[c].nbytes :
         /\ task[c].op = "stream_write" => n = task[c].nbytes
         /\ Finished(c, n, <<>>)
         /\ sink' = [sink EXCEPT ![c] = @ \o SubSeq(task_data(task[c]), 1, n)]
    /\ UNCHANGED <<bytes, schemeVars, source, handles, given, failed, argv, child>>

Answers == UNION {[1..n -> Address \cup {OtherFamily}] : n \in 0..MaxAnswer}

DnsDone(c) ==
    /\ \E res \in Answers :
         /\ OnGetaddrinfo(c, res)
         /\ given' = [given EXCEPT ![c] = res]
    /\ UNCHANGED <<schemeVars, source, sink, handles, failed, argv, child>>

\* on_connect, the connection is there.
ConnectDone(c) ==
    /\ Pending(c, {"connect"})
    /\ Finished(c, 1, <<>>)
    /\ Opened(c, {"stream"})
    /\ UNCHANGED <<bytes, schemeVars, source, sink, given, failed, argv, child>>

HandleOf(o) == CASE o = "close_stdin" -> "stdin" [] o = "close_stdout" -> "stdout"
                 [] o = "close_stderr" -> "stderr" [] o = "close_proc" -> "proc"

\* LoopHandle::OnClosed.
CloseDone(c) ==
    /\ Pending(c, {"close_stdin", "close_stdout", "close_stderr", "close_proc"})
    /\ Finished(c, 0, <<>>)
    /\ Closed(c, HandleOf(task[c].op))
    /\ UNCHANGED <<bytes, schemeVars, source, sink, given, failed, argv, child>>

\* Dispatch of StdioOpen: 0 for what is no stream, an error, or a stream.
DispatchStdio(c) ==
    /\ Dispatched(c, {"stdio"})
    /\ \E r \in {Negative, 0, 1} :
         /\ Complete(c, r, <<>>)
         /\ Opened(c, IF r = 1 THEN {"stream"} ELSE {})
    /\ UNCHANGED <<uv, locks, bytes, schemeVars, source, sink, given, failed, argv, child>>

\* Dispatch of ProcSpawn.  A child that is captured has its output to write.
DispatchSpawn(c) ==
    LET capture == prog[c] = "output" IN
    /\ Dispatched(c, {"spawn"})
    /\ Complete(c, 1, <<>>)
    /\ argv' = [argv EXCEPT ![c] = UnpackStrings(task[c].buffer, task[c].nbytes)]
    /\ Opened(c, {"proc"} \cup (IF capture THEN {"stdin", "stdout", "stderr"} ELSE {}))
    /\ child' = [child EXCEPT ![c] =
                   [state |-> "running", out |-> IF capture THEN OutLen ELSE 0,
                    err |-> IF capture THEN ErrLen ELSE 0, errPipe |-> 0]]
    /\ UNCHANGED <<uv, locks, bytes, schemeVars, source, sink, given, failed>>

\* uv_spawn fails: the pipes and the process are closed again.
DispatchSpawnFails(c) ==
    /\ Dispatched(c, {"spawn"})
    /\ Complete(c, Negative, <<>>)
    /\ UNCHANGED <<uv, locks, bytes, schemeVars, osVars>>

\* Dispatch of ProcWait: at once, or when the exit is seen.
DispatchWait(c) ==
    /\ Dispatched(c, {"wait"})
    /\ IF child[c].state = "reaped"
         THEN Complete(c, 0, <<>>) /\ UNCHANGED uv
         ELSE task' = [task EXCEPT ![c].at = "uv"] /\ uv' = uv \cup {c}
    /\ UNCHANGED <<locks, bytes, schemeVars, osVars>>

OnProcessExit(c) ==
    /\ child[c].state = "exited"
    /\ child' = [child EXCEPT ![c].state = "reaped"]
    /\ IF Pending(c, {"wait"})
         THEN Finished(c, 0, <<>>) /\ UNCHANGED bytes
         ELSE UNCHANGED requestVars
    /\ UNCHANGED <<schemeVars, source, sink, handles, given, failed, argv>>

\* The child: it writes to its two pipes in any order, blocks on a full one, and
\* exits when it has written everything and its input, if it is a pipe, is at
\* its end.
ChildWritesOut(c) ==
    /\ child[c].out > 0 /\ Len(source[c]) < PipeCap
    /\ source' = [source EXCEPT ![c] = Append(@, OutLen - child[c].out + 1)]
    /\ child' = [child EXCEPT ![c].out = @ - 1]
    /\ UNCHANGED <<requestVars, schemeVars, sink, handles, given, failed, argv>>

ChildWritesErr(c) ==
    /\ child[c].err > 0 /\ child[c].errPipe < PipeCap
    /\ child' = [child EXCEPT ![c].err = @ - 1, ![c].errPipe = @ + 1]
    /\ UNCHANGED <<requestVars, schemeVars, source, sink, handles, given, failed, argv>>

ChildExits(c) ==
    /\ child[c].state = "running" /\ child[c].out = 0 /\ child[c].err = 0
    /\ "stdin" \notin handles[c]
    /\ child' = [child EXCEPT ![c].state = "exited"]
    /\ UNCHANGED <<requestVars, schemeVars, source, sink, handles, given, failed, argv>>

Child(c) == ChildWritesOut(c) \/ ChildWritesErr(c) \/ ChildExits(c)

\* The callback of a request that is answered.
Callback(c) ==
    \/ Timer(c) \/ FsPathDone(c) \/ FsOpenDone(c) \/ FsCloseDone(c)
    \/ ReadDone(c) \/ WriteDone(c) \/ DnsDone(c) \/ ConnectDone(c) \/ CloseDone(c)
    \/ OnProcessExit(c)

DispatchOne(c) ==
    Dispatch(c) \/ DispatchStdio(c) \/ DispatchSpawn(c) \/ DispatchSpawnFails(c) \/ DispatchWait(c)

\* Every call has ended.
AllEnded ==
    /\ \A c \in Caller : call[c] \in {"returned", "raised"}
    /\ UNCHANGED vars

Next ==
    \/ \E c \in Caller : Call(c) \/ Resume(c) \/ DispatchOne(c) \/ Callback(c)
                         \/ UvFails(c) \/ Child(c)
    \/ AllEnded

Spec == Init /\ [][Next]_vars

\* The loop thread, the callers and the child keep running, and the system
\* answers what it can answer; nothing says that it ever reports an error.
FairSpec ==
    /\ Spec
    /\ \A c \in Caller :
         /\ WF_vars(Resume(c)) /\ WF_vars(DispatchOne(c))
         /\ WF_vars(Callback(c)) /\ WF_vars(Child(c))

-----------------------------------------------------------------------------
(* Properties. *)

\* The entries of a list of addresses that are addresses and did not occur before.
Distinct(res) ==
    LET new == {i \in DOMAIN res : /\ res[i] \in Address
                                   /\ \A j \in 1..(i - 1) : res[j] # res[i]}
    IN [k \in 1..Cardinality(new) |->
          res[CHOOSE i \in new : Cardinality({j \in new : j <= i}) = k]]

\* What a call returns is what the system delivered, and what the system has
\* taken is what the caller gave: no byte is lost, doubled, reordered or taken
\* from the unread rest of a buffer by the chunk loops, in the bytevector that a
\* pipe shares between its read and its write, in the packed command line or in
\* a result that is copied from a request.  A single write reports how much was
\* taken.  Of io-write-file this asks only that nothing wrong is written: it may
\* return after a part, see WriteFileWritesAll.
DataIntact ==
    \A c \in Caller :
      /\ call[c] = "returned" =>
           CASE prog[c] = "simple" ->
                  val[c] = Distinct(given[c])
             [] prog[c] = "read_file" -> val[c] = Content
             [] prog[c] = "output" -> val[c] = Numbered(OutLen)
             [] prog[c] = "pipe" -> val[c] = <<SourceLen>> /\ sink[c] = Content
             [] prog[c] = "receive" ->
                  SubSeq(bytes[c], 1, val[c][1]) \o source[c] = Content
             [] prog[c] = "send" -> sink[c] = SubSeq(Content, 1, val[c][1])
             [] OTHER -> TRUE
      /\ IsPrefix(sink[c], Content)
      /\ argv[c] # <<>> => argv[c] = args[c]

\* io-tcp-connect tries every distinct address of the lookup, once, in the
\* system's order, until one answers; it gives up only after all of them.
ConnectsInOrder ==
    \A c \in Caller : prog[c] = "connect" =>
      /\ IsPrefix(failed[c] \o val[c], Distinct(given[c]))
      /\ call[c] = "raised" => failed[c] = Distinct(given[c])

\* A call that returns has closed what it opened, but for the stream that it
\* returns.
NothingLeftOpen ==
    \A c \in Caller : call[c] = "returned" =>
      CASE prog[c] = "connect" -> handles[c] = {"stream"}
        [] prog[c] = "simple" -> handles[c] \subseteq {"stream"}
        [] OTHER -> handles[c] = {}

\* Every call comes to an end, provided that the pipe of stderr holds all that a
\* child writes to it (ErrLen <= PipeCap).  Without that io-run/output may not:
\* see RunOutputReturns.
CallEnds == \A c \in Caller : call[c] = "busy" ~> call[c] # "busy"

\* io-proc.ss: io-run/output runs the child to its exit, captures stdout and
\* returns the exit code and the bytes.
RunOutputReturns ==
    \A c \in Caller : (call[c] = "busy" /\ prog[c] = "output") ~> call[c] # "busy"

\* io-fs.ss: io-write-file writes the whole bytevector to the path.  It does not
\* hold (HighLevelOpsWrite.cfg).
WriteFileWritesAll ==
    \A c \in Caller :
      (call[c] = "returned" /\ prog[c] = "write_file") => sink[c] = Content
=============================================================================
