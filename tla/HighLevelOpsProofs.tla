-------------------------- MODULE HighLevelOpsProofs --------------------------
(***************************************************************************)
(* Proofs about HighLevelOps and the Requests below it, for any finite set *)
(* of callers and any sizes: libuv never has a pointer into a Task that    *)
(* may be freed, a bytevector is locked while libuv uses its bytes, and a  *)
(* call that returns has closed what it opened.                            *)
(***************************************************************************)
EXTENDS HighLevelOps, SequenceLemmas, FiniteSetTheorems

Fields == {"op", "at", "nbytes", "buffer", "pin", "result", "names"}
Resource == {"fd", "stream", "proc", "stdin", "stdout", "stderr"}

(***************************************************************************)
(* Types, as far as the proofs need them: of a Task only its members and   *)
(* its pin.                                                                *)
(***************************************************************************)
Shape ==
    /\ DOMAIN task = Caller
    /\ \A c \in Caller : DOMAIN task[c] = Fields /\ task[c].pin \in Bytevector \cup {NoBuffer}
    /\ inbox \in Seq(Caller) /\ uv \subseteq Caller
    /\ locks \in [Bytevector -> Int]
    /\ prog \in [Caller -> Prog]
    /\ call \in [Caller -> {"no", "busy", "returned", "raised"}]
    /\ handles \in [Caller -> SUBSET Resource]

(***************************************************************************)
(* The stages of a Task: submitted and in the inbox once, with libuv, or   *)
(* done.  A caller has a Task exactly while it is in a call.               *)
(***************************************************************************)
Stages ==
    /\ NoDuplicates(inbox)
    /\ \A c \in Caller :
         /\ task[c].at \in {"none", "queued", "uv", "closing", "done"}
         /\ c \in uv <=> task[c].at \in {"uv", "closing"}
         /\ c \in Range(inbox) <=> task[c].at = "queued"
         /\ call[c] = "busy" <=> task[c].at # "none"
         /\ task[c].at = "closing" => task[c].op = "timer"
         /\ task[c].at = "none" => task[c].pin = NoBuffer

\* Each Task that names a bytevector accounts for one lock of it.
Users(b) == {c \in Caller : task[c].pin = b}
LocksCounted == \A b \in Bytevector : locks[b] = Cardinality(Users(b))

\* The requests that call p is made of.
RequestsOf(p) ==
    CASE p = "simple" -> SimpleOp
      [] p = "read_file" -> {"fs_open", "fs_read", "fs_close"}
      [] p = "write_file" -> {"fs_open", "fs_write", "fs_close"}
      [] p = "receive" -> {"fs_read", "stream_read"}
      [] p = "send" -> {"fs_write", "stream_write"}
      [] p = "pipe" -> {"stream_read", "stream_write"}
      [] p = "connect" -> {"dns", "connect"}
      [] p = "run" -> {"spawn", "wait", "close_proc"}
      [] p = "output" -> {"spawn", "close_stdin", "stream_read", "close_stdout",
                          "close_stderr", "wait", "close_proc"}

\* What call p has open while its request o is under way.
OpenBefore(p, o) ==
    CASE p \in {"read_file", "write_file"} -> IF o = "fs_open" THEN {} ELSE {"fd"}
      [] p = "run" -> IF o = "spawn" THEN {} ELSE {"proc"}
      [] p = "output" -> (CASE o = "spawn" -> {}
                            [] o = "close_stdin" -> {"proc", "stdin", "stdout", "stderr"}
                            [] o = "stream_read" -> {"proc", "stdout", "stderr"}
                            [] o = "close_stdout" -> {"proc", "stdout", "stderr"}
                            [] o = "close_stderr" -> {"proc", "stderr"}
                            [] OTHER -> {"proc"})
      [] OTHER -> {}

\* What it has open when o has ended without an error.
OpenAfter(p, o) ==
    CASE o = "fs_open" -> {"fd"}
      [] o = "connect" -> {"stream"}
      [] o = "spawn" -> IF p = "output" THEN {"proc", "stdin", "stdout", "stderr"} ELSE {"proc"}
      [] o = "fs_close" -> {}
      [] o = "close_stdin" -> {"proc", "stdout", "stderr"}
      [] o = "close_stdout" -> {"proc", "stderr"}
      [] o = "close_stderr" -> {"proc"}
      [] o = "close_proc" -> {}
      [] OTHER -> OpenBefore(p, o)

(***************************************************************************)
(* What a call has open follows from the request it is at.  An open stdio  *)
(* stream is the result of the call.  After an error only a connect goes   *)
(* on, with the next address.                                              *)
(***************************************************************************)
Follows(c) ==
    /\ call[c] = "no" => handles[c] = {}
    /\ call[c] = "busy" =>
         /\ task[c].op \in RequestsOf(prog[c])
         /\ task[c].at # "done" => handles[c] = OpenBefore(prog[c], task[c].op)
         /\ (task[c].at = "done" /\ task[c].op = "connect" /\ Result(c) < 0) => handles[c] = {}
         /\ (task[c].at = "done" /\ Result(c) >= 0) =>
              IF prog[c] = "simple" THEN handles[c] \subseteq {"stream"}
                                    ELSE handles[c] = OpenAfter(prog[c], task[c].op)
    /\ call[c] = "returned" =>
         CASE prog[c] = "connect" -> handles[c] = {"stream"}
           [] prog[c] = "simple" -> handles[c] \subseteq {"stream"}
           [] OTHER -> handles[c] = {}

HandlesFollow == \A c \in Caller : Follows(c)

IInv == Shape /\ Stages /\ LocksCounted /\ HandlesFollow

-----------------------------------------------------------------------------
(* The Task of one caller moves to another stage. *)

\* Only the stage, the result and the data of c's Task change.
Moved(c, stage) ==
    /\ DOMAIN task' = Caller
    /\ \A d \in Caller :
         DOMAIN task'[d] = Fields /\ task'[d].op = task[d].op /\ task'[d].pin = task[d].pin
    /\ \A d \in Caller \ {c} : task'[d].at = task[d].at /\ task'[d].result = task[d].result
    /\ task'[c].at = stage

\* Task::Complete.
LEMMA CompleteMoves ==
    ASSUME Shape, NEW c \in Caller, NEW r, NEW out, Complete(c, r, out)
    PROVE Moved(c, "done") /\ task'[c].result = r
  BY DEF Shape, Fields, Complete, Moved

\* Dispatch hands the Task to libuv; on_timer closes the handle in it.
LEMMA StageMoves ==
    ASSUME Shape, NEW c \in Caller, NEW stage, task' = [task EXCEPT ![c].at = stage]
    PROVE Moved(c, stage)
  BY DEF Shape, Fields, Moved

\* The end of a read fills the buffer, too.
LEMMA ReadMoves ==
    ASSUME Shape, NEW c \in Caller, NEW data, ReadEnds(c, data)
    PROVE Moved(c, "done") /\ task'[c].result = Len(data)
  BY DEF Shape, Fields, ReadEnds, Moved

\* A move changes nobody's pin, and so no count of locks.
LEMMA MoveKeepsLocks ==
    ASSUME Shape, LocksCounted, NEW c \in Caller, NEW stage, Moved(c, stage), UNCHANGED locks
    PROVE LocksCounted'
<1>1. \A b \in Bytevector : Users(b)' = Users(b)
  BY DEF Moved, Users
<1> QED
  BY <1>1 DEF LocksCounted

\* Dispatch takes the front of the inbox and completes it at once.
LEMMA DispatchedDone ==
    ASSUME Shape, Stages, NEW c \in Caller, NEW ops, Dispatched(c, ops), Moved(c, "done"),
           UNCHANGED <<uv, call>>
    PROVE Stages' /\ inbox' \in Seq(Caller) /\ task[c].at = "queued" /\ task[c].op \in ops
<1>1. /\ inbox' \in Seq(Caller) /\ NoDuplicates(inbox')
      /\ Range(inbox) = {c} \cup Range(inbox') /\ c \notin Range(inbox') /\ task[c].op \in ops
  BY RangeTail, NoDuplicatesTail DEF Dispatched, Shape, Stages
<1> QED
  BY <1>1 DEF Stages, Moved

\* Dispatch takes the front of the inbox and gives it to libuv.
LEMMA DispatchedToUv ==
    ASSUME Shape, Stages, NEW c \in Caller, NEW ops, Dispatched(c, ops), Moved(c, "uv"),
           uv' = uv \cup {c}, UNCHANGED call
    PROVE Stages' /\ inbox' \in Seq(Caller) /\ task[c].at = "queued" /\ task[c].op \in ops
<1>1. /\ inbox' \in Seq(Caller) /\ NoDuplicates(inbox')
      /\ Range(inbox) = {c} \cup Range(inbox') /\ c \notin Range(inbox') /\ task[c].op \in ops
  BY RangeTail, NoDuplicatesTail DEF Dispatched, Shape, Stages
<1> QED
  BY <1>1 DEF Stages, Moved

\* A callback ends the request.
LEMMA CallbackDone ==
    ASSUME Shape, Stages, NEW c \in Caller, task[c].at \in {"uv", "closing"}, Moved(c, "done"),
           uv' = uv \ {c}, UNCHANGED <<inbox, call>>
    PROVE Stages'
  BY DEF Stages, Moved, Shape

-----------------------------------------------------------------------------
(* The caller's side: free and submit. *)

\* rt_task_free gives the lock back and the next pinned submit takes one.
LEMMA TurnLocks ==
    ASSUME Shape, LocksCounted, NEW c \in Caller, NEW t, t.pin \in Bytevector \cup {NoBuffer},
           Turn(c, t)
    PROVE LocksCounted' /\ locks' \in [Bytevector -> Int]
<1>1. /\ task[c].pin \in Bytevector \cup {NoBuffer}
      /\ \A d \in Caller : task'[d] = IF d = c THEN t ELSE task[d]
  BY DEF Shape, Turn
<1>2. ASSUME NEW b \in Bytevector
      PROVE locks'[b] = Cardinality(Users(b)') /\ locks'[b] \in Int
  <2> DEFINE U == Users(b)
             V == U \ {c}
             n == Cardinality(V)
  <2>1. locks[b] = Cardinality(U) /\ locks'[b] = locks[b] - Pins(task[c], b) + Pins(t, b)
    BY <1>2 DEF LocksCounted, Turn, Unpinned
  <2>2. IsFiniteSet(U)
    BY FS_Subset, RequestsAssumption DEF Users
  <2>3. IsFiniteSet(V) /\ n \in Nat /\ Cardinality(U) \in Nat
        /\ n = IF c \in U THEN Cardinality(U) - 1 ELSE Cardinality(U)
    BY <2>2, FS_RemoveElement, FS_CardinalityType
  <2>4. c \in U <=> task[c].pin = b
    BY DEF Users
  <2>5. Users(b)' = IF t.pin = b THEN V \cup {c} ELSE V
    BY <1>1 DEF Users
  <2>6. Cardinality(V \cup {c}) = n + 1
    BY <2>3, FS_AddElement
  <2> HIDE DEF U, V, n
  <2>7. locks[b] - Pins(task[c], b) = n
    BY <2>1, <2>3, <2>4 DEF Pins
  <2>8. locks'[b] = n + Pins(t, b)
    BY <2>1, <2>7
  <2>9. CASE t.pin = b
    BY <2>3, <2>5, <2>6, <2>8, <2>9 DEF Pins
  <2>10. CASE t.pin # b
    BY <2>3, <2>5, <2>8, <2>10 DEF Pins, n
  <2> QED
    BY <2>9, <2>10
<1>3. locks' = [b \in Bytevector |-> locks'[b]]
  BY DEF Turn
<1> QED
  BY <1>2, <1>3 DEF LocksCounted

\* What a submit makes.
LEMMA NewTask ==
    ASSUME NEW o, NEW n, NEW data
    PROVE LET t == new_task(o, n, data) IN
          t.op = o /\ t.at = "queued" /\ t.pin = NoBuffer /\ DOMAIN t = Fields /\ t # NoTask
<1>1. NoTask.at = "none"
  BY DEF NoTask
<1>2. new_task(o, n, data).at = "queued"
  BY DEF new_task, NoTask
<1> QED
  BY <1>1, <1>2 DEF new_task, NoTask, Fields

LEMMA NewPinnedTask ==
    ASSUME NEW o, NEW bv \in Bytevector, NEW n
    PROVE LET t == new_pinned_task(o, bv, n) IN
          t.op = o /\ t.at = "queued" /\ t.pin = bv /\ DOMAIN t = Fields /\ t # NoTask
<1>1. NoTask.at = "none"
  BY DEF NoTask
<1>2. new_pinned_task(o, bv, n).at = "queued"
  BY DEF new_pinned_task, new_task, NoTask
<1> QED
  BY <1>1, <1>2 DEF new_pinned_task, new_task, NoTask, Fields

\* A Task as a submit hands it to the loop thread.
Fresh(t) ==
    t.at = "queued" /\ t.pin \in Bytevector \cup {NoBuffer} /\ DOMAIN t = Fields /\ t # NoTask

\* A caller without a request in flight submits the next one.
LEMMA TurnToRequest ==
    ASSUME IInv, NEW c \in Caller, task[c].at \in {"none", "done"}, NEW t, Fresh(t), Turn(c, t),
           UNCHANGED uv,
           call' = call \/ call' = [call EXCEPT ![c] = "busy"], call'[c] = "busy"
    PROVE /\ Stages' /\ LocksCounted'
          /\ DOMAIN task' = Caller /\ task'[c] = t
          /\ \A d \in Caller : DOMAIN task'[d] = Fields /\ task'[d].pin \in Bytevector \cup {NoBuffer}
          /\ \A d \in Caller \ {c} : task'[d] = task[d] /\ call'[d] = call[d]
          /\ inbox' \in Seq(Caller) /\ locks' \in [Bytevector -> Int]
<1>1. LocksCounted' /\ locks' \in [Bytevector -> Int]
  BY TurnLocks DEF IInv, Fresh
<1>2. task' = [task EXCEPT ![c] = t] /\ inbox' = Append(inbox, c)
  BY DEF Turn, Fresh
<1>3. DOMAIN task' = Caller /\ \A d \in Caller : task'[d] = IF d = c THEN t ELSE task[d]
  BY <1>2 DEF IInv, Shape
<1>4. c \notin Range(inbox) /\ c \notin uv
  BY DEF IInv, Stages
<1>5. inbox' \in Seq(Caller) /\ NoDuplicates(inbox') /\ Range(inbox') = Range(inbox) \cup {c}
  BY <1>2, <1>4, RangeAppend, AppendProperties, NoDuplicatesAppend DEF IInv, Shape, Stages
<1>6. \A d \in Caller \ {c} : call'[d] = call[d]
  BY DEF IInv, Shape
<1>7. Stages'
  BY <1>3, <1>4, <1>5, <1>6 DEF IInv, Stages, Fresh
<1>8. \A d \in Caller : DOMAIN task'[d] = Fields /\ task'[d].pin \in Bytevector \cup {NoBuffer}
  BY <1>3 DEF IInv, Shape, Fresh
<1> QED
  BY <1>1, <1>3, <1>5, <1>6, <1>7, <1>8

\* A caller whose request is done frees it and its call ends.
LEMMA TurnToEnd ==
    ASSUME IInv, NEW c \in Caller, task[c].at = "done", Turn(c, NoTask), UNCHANGED uv,
           NEW how \in {"returned", "raised"}, call' = [call EXCEPT ![c] = how]
    PROVE /\ Stages' /\ LocksCounted'
          /\ DOMAIN task' = Caller /\ call'[c] = how
          /\ \A d \in Caller : DOMAIN task'[d] = Fields /\ task'[d].pin \in Bytevector \cup {NoBuffer}
          /\ \A d \in Caller \ {c} : task'[d] = task[d] /\ call'[d] = call[d]
          /\ inbox' = inbox /\ locks' \in [Bytevector -> Int]
<1>1. NoTask.at = "none" /\ NoTask.pin = NoBuffer /\ DOMAIN NoTask = Fields
  BY DEF NoTask, Fields
<1>2. LocksCounted' /\ locks' \in [Bytevector -> Int]
  BY <1>1, TurnLocks DEF IInv
<1>3. task' = [task EXCEPT ![c] = NoTask] /\ inbox' = inbox
  BY DEF Turn
<1>4. DOMAIN task' = Caller /\ \A d \in Caller : task'[d] = IF d = c THEN NoTask ELSE task[d]
  BY <1>3 DEF IInv, Shape
<1>5. c \notin Range(inbox) /\ c \notin uv
  BY DEF IInv, Stages
<1>6. call'[c] = how /\ \A d \in Caller \ {c} : call'[d] = call[d]
  BY DEF IInv, Shape
<1>7. Stages'
  BY <1>1, <1>3, <1>4, <1>5, <1>6 DEF IInv, Stages
<1>8. \A d \in Caller : DOMAIN task'[d] = Fields /\ task'[d].pin \in Bytevector \cup {NoBuffer}
  BY <1>1, <1>4 DEF IInv, Shape
<1> QED
  BY <1>2, <1>3, <1>4, <1>6, <1>7, <1>8

-----------------------------------------------------------------------------
(* What is open when a request ends. *)

\* Which calls make which requests.
LEMMA CallOf ==
    ASSUME NEW p \in Prog, NEW o \in RequestsOf(p)
    PROVE /\ o \in FsPathOp \cup {"timer", "stdio"} => p = "simple"
          /\ o \in {"fs_open", "fs_close"} => p \in {"read_file", "write_file"}
          /\ o = "connect" => p = "connect"
          /\ o = "dns" => p \in {"simple", "connect"}
          /\ o \in {"spawn", "wait", "close_proc"} => p \in {"run", "output"}
          /\ o \in {"close_stdin", "close_stdout", "close_stderr"} => p = "output"
<1>1. CASE p = "simple"
  BY <1>1 DEF RequestsOf, SimpleOp, FsPathOp, FsVoidOp
<1>2. CASE p # "simple"
  BY <1>2 DEF RequestsOf, FsPathOp, FsVoidOp, Prog
<1> QED
  BY <1>1, <1>2

\* A caller with a request that has not ended: its call, and what it has open.
LEMMA UnderWay ==
    ASSUME IInv, NEW c \in Caller, task[c].at \in {"queued", "uv", "closing"}
    PROVE /\ call[c] = "busy" /\ prog[c] \in Prog /\ task[c].op \in RequestsOf(prog[c])
          /\ handles[c] = OpenBefore(prog[c], task[c].op)
<1>1. call[c] = "busy"
  BY DEF IInv, Stages
<1> QED
  BY <1>1 DEF IInv, Shape, HandlesFollow, Follows

\* A move of c's Task that fits to what c has open keeps the invariant.
LEMMA MoveInv ==
    ASSUME IInv, NEW c \in Caller, NEW stage, Moved(c, stage), Stages',
           inbox' \in Seq(Caller), uv' \subseteq Caller, UNCHANGED <<locks, prog, call>>,
           NEW hs \in SUBSET Resource, handles' = [handles EXCEPT ![c] = hs], Follows(c)'
    PROVE IInv'
<1>1. \A d \in Caller : handles'[d] = IF d = c THEN hs ELSE handles[d]
  BY DEF IInv, Shape
<1>2. \A d \in Caller \ {c} : Follows(d)'
  BY <1>1 DEF IInv, HandlesFollow, Follows, Result, Moved
<1>3. Shape'
  BY DEF IInv, Shape, Moved
<1>4. LocksCounted'
  BY MoveKeepsLocks DEF IInv
<1> QED
  BY <1>2, <1>3, <1>4 DEF IInv, HandlesFollow

\* Nothing opens or closes while a request goes on to libuv.
LEMMA GoesOn ==
    ASSUME IInv, NEW c \in Caller, task[c].at \in {"queued", "uv"}, NEW stage \in {"uv", "closing"},
           Moved(c, stage), UNCHANGED <<prog, call, handles>>
    PROVE Follows(c)'
<1>1. call[c] = "busy" /\ task[c].op \in RequestsOf(prog[c])
      /\ handles[c] = OpenBefore(prog[c], task[c].op)
  BY UnderWay
<1> QED
  BY <1>1 DEF Follows, Moved

\* A request that opens and closes nothing ends.
LEMMA EndsPlainly ==
    ASSUME IInv, NEW c \in Caller, task[c].at \in {"queued", "uv", "closing"}, Moved(c, "done"),
           UNCHANGED <<prog, call, handles>>,
           task[c].op \notin {"fs_open", "fs_close", "connect", "spawn", "close_stdin", "close_stdout",
                              "close_stderr", "close_proc"}
    PROVE Follows(c)'
<1>1. call[c] = "busy" /\ prog[c] \in Prog /\ task[c].op \in RequestsOf(prog[c])
      /\ handles[c] = OpenBefore(prog[c], task[c].op)
  BY UnderWay
<1>2. OpenAfter(prog[c], task[c].op) = OpenBefore(prog[c], task[c].op)
  BY DEF OpenAfter
<1>3. prog[c] = "simple" => OpenBefore(prog[c], task[c].op) = {}
  BY DEF OpenBefore
<1> QED
  BY <1>1, <1>2, <1>3 DEF Follows, Moved

\* A request ends with an error; a connect has opened nothing then.
LEMMA EndsInError ==
    ASSUME IInv, NEW c \in Caller, task[c].at \in {"queued", "uv", "closing"}, Moved(c, "done"),
           task'[c].result = Negative, UNCHANGED <<prog, call>>,
           task[c].op = "connect" => handles'[c] = handles[c]
    PROVE Follows(c)'
<1>1. call[c] = "busy" /\ prog[c] \in Prog /\ task[c].op \in RequestsOf(prog[c])
      /\ handles[c] = OpenBefore(prog[c], task[c].op)
  BY UnderWay
<1>2. task[c].op = "connect" => handles'[c] = {}
  BY <1>1, CallOf DEF OpenBefore
<1>3. ~(task'[c].result >= 0)
  BY DEF Negative
<1> QED
  BY <1>1, <1>2, <1>3 DEF Follows, Moved, Result

\* A request of a call with handles of its own ends well.
LEMMA EndsWell ==
    ASSUME IInv, NEW c \in Caller, task[c].at \in {"queued", "uv", "closing"}, Moved(c, "done"),
           task'[c].result \in Nat, UNCHANGED <<prog, call>>, prog[c] # "simple",
           handles'[c] = OpenAfter(prog[c], task[c].op)
    PROVE Follows(c)'
<1>1. call[c] = "busy" /\ task[c].op \in RequestsOf(prog[c])
  BY UnderWay
<1>2. ~(task'[c].result < 0)
  OBVIOUS
<1> QED
  BY <1>1, <1>2 DEF Follows, Moved, Result

\* Steps that leave the Tasks, the calls and the handles alone.
LEMMA UntouchedInv ==
    ASSUME IInv, UNCHANGED <<task, inbox, uv, locks, prog, call, handles>>
    PROVE IInv'
<1>1. Shape' /\ Stages'
  BY DEF IInv, Shape, Stages
<1>2. LocksCounted'
  BY DEF IInv, LocksCounted, Users
<1>3. HandlesFollow'
  BY DEF IInv, HandlesFollow, Follows, Result
<1> QED
  BY <1>1, <1>2, <1>3 DEF IInv

-----------------------------------------------------------------------------
(* Dispatch. *)

\* A Task that Dispatch completes.
LEMMA DispatchEnds ==
    ASSUME IInv, NEW c \in Caller, NEW ops, Dispatched(c, ops), NEW r, NEW out, Complete(c, r, out),
           UNCHANGED <<uv, locks, prog, call>>,
           NEW hs \in SUBSET Resource, handles' = [handles EXCEPT ![c] = hs], Follows(c)'
    PROVE IInv'
<1>1. Shape /\ Stages /\ UNCHANGED <<uv, call>>
  BY DEF IInv
<1>2. Moved(c, "done")
  BY <1>1, CompleteMoves
<1>3. Stages' /\ inbox' \in Seq(Caller)
  BY <1>1, <1>2, DispatchedDone
<1>4. uv' \subseteq Caller
  BY <1>1 DEF Shape
<1> QED
  BY <1>2, <1>3, <1>4, MoveInv

\* What a completed Task looks like to the lemmas above.
LEMMA DispatchFacts ==
    ASSUME IInv, NEW c \in Caller, NEW ops, Dispatched(c, ops), NEW r, NEW out, Complete(c, r, out)
    PROVE /\ Moved(c, "done") /\ task'[c].result = r
          /\ task[c].at = "queued" /\ task[c].op \in ops
          /\ handles[c] \in SUBSET Resource /\ handles = [handles EXCEPT ![c] = handles[c]]
<1>1. Moved(c, "done") /\ task'[c].result = r
  BY CompleteMoves DEF IInv
<1>2. c \in Range(inbox) /\ task[c].op \in ops
  BY RangeTail DEF IInv, Shape, Dispatched
<1>3. task[c].at = "queued"
  BY <1>2 DEF IInv, Stages
<1>4. handles[c] \in SUBSET Resource /\ handles = [handles EXCEPT ![c] = handles[c]]
  BY DEF IInv, Shape
<1> QED
  BY <1>1, <1>2, <1>3, <1>4

\* A request that fails in Dispatch.
LEMMA DispatchErrorInv ==
    ASSUME IInv, NEW c \in Caller, NEW ops, Dispatched(c, ops), NEW out, Complete(c, Negative, out),
           UNCHANGED <<uv, locks, prog, call, handles>>
    PROVE IInv'
<1>1. /\ Moved(c, "done") /\ task'[c].result = Negative /\ task[c].at = "queued"
      /\ handles[c] \in SUBSET Resource /\ handles' = [handles EXCEPT ![c] = handles[c]]
  BY DispatchFacts
<1>2. Follows(c)'
  BY <1>1, EndsInError
<1> QED
  BY <1>1, <1>2, DispatchEnds

\* Dispatch hands the storage in the Task to libuv.
LEMMA DispatchUvInv ==
    ASSUME IInv, NEW c \in Caller, NEW ops, Dispatched(c, ops), task' = [task EXCEPT ![c].at = "uv"],
           uv' = uv \cup {c}, UNCHANGED <<locks, prog, call, handles>>
    PROVE IInv'
<1>1. Shape /\ Stages /\ UNCHANGED call
  BY DEF IInv
<1>2. Moved(c, "uv")
  BY <1>1, StageMoves
<1>3. Stages' /\ inbox' \in Seq(Caller) /\ task[c].at = "queued"
  BY <1>1, <1>2, DispatchedToUv
<1>4. uv' \subseteq Caller /\ handles[c] \in SUBSET Resource
      /\ handles' = [handles EXCEPT ![c] = handles[c]]
  BY <1>1 DEF Shape
<1>5. Follows(c)'
  BY <1>2, <1>3, GoesOn
<1> QED
  BY <1>2, <1>3, <1>4, <1>5, MoveInv

\* Dispatch of StdioOpen.
LEMMA DispatchStdioInv ==
    ASSUME IInv, NEW c \in Caller, DispatchStdio(c)
    PROVE IInv'
<1>1. PICK r \in {Negative, 0, 1} : /\ Complete(c, r, <<>>)
                                    /\ Opened(c, IF r = 1 THEN {"stream"} ELSE {})
  BY DEF DispatchStdio
<1>2. Dispatched(c, {"stdio"}) /\ UNCHANGED <<uv, locks, prog, call>>
  BY DEF DispatchStdio, schemeVars
<1>3. Moved(c, "done") /\ task[c].at = "queued" /\ task[c].op = "stdio"
      /\ handles[c] \in SUBSET Resource
  BY <1>1, <1>2, DispatchFacts
<1>4. call[c] = "busy" /\ prog[c] = "simple" /\ task[c].op \in RequestsOf(prog[c])
      /\ handles[c] = {}
  BY <1>3, UnderWay, CallOf DEF OpenBefore
<1>5. PICK hs \in SUBSET {"stream"} : handles' = [handles EXCEPT ![c] = hs]
  BY <1>1, <1>4 DEF Opened
<1>6. handles'[c] \subseteq {"stream"}
  BY <1>5 DEF IInv, Shape
<1>7. Follows(c)'
  BY <1>2, <1>3, <1>4, <1>6 DEF Follows, Moved
<1>8. hs \in SUBSET Resource
  BY <1>5 DEF Resource
<1> QED
  BY <1>1, <1>2, <1>5, <1>7, <1>8, DispatchEnds

\* Dispatch of ProcSpawn: the process, and the three pipes of a captured child.
LEMMA DispatchSpawnInv ==
    ASSUME IInv, NEW c \in Caller, DispatchSpawn(c)
    PROVE IInv'
<1> DEFINE hs == {"proc"} \cup (IF prog[c] = "output" THEN {"stdin", "stdout", "stderr"} ELSE {})
<1>1. Dispatched(c, {"spawn"}) /\ Complete(c, 1, <<>>) /\ UNCHANGED <<uv, locks, prog, call>>
      /\ Opened(c, hs)
  BY DEF DispatchSpawn, schemeVars
<1>2. Moved(c, "done") /\ task'[c].result = 1 /\ task[c].at = "queued" /\ task[c].op = "spawn"
  BY <1>1, DispatchFacts
<1>3. prog[c] \in {"run", "output"} /\ handles[c] = {}
  BY <1>2, UnderWay, CallOf DEF OpenBefore
<1>4. handles' = [handles EXCEPT ![c] = hs] /\ hs \in SUBSET Resource
  BY <1>1, <1>3 DEF Opened, Resource
<1>5. handles'[c] = OpenAfter(prog[c], task[c].op)
  BY <1>2, <1>3, <1>4 DEF IInv, Shape, OpenAfter
<1>6. Follows(c)'
  BY <1>1, <1>2, <1>3, <1>5, EndsWell
<1> HIDE DEF hs
<1> QED
  BY <1>1, <1>4, <1>6, DispatchEnds

\* Every case of Dispatch.
LEMMA DispatchOneInv ==
    ASSUME IInv, NEW c \in Caller, DispatchOne(c)
    PROVE IInv'
<1>1. CASE DispatchToUv(c) /\ UNCHANGED <<schemeVars, handles>>
  BY <1>1, DispatchUvInv DEF DispatchToUv, schemeVars
<1>2. CASE DispatchFails(c) /\ UNCHANGED <<schemeVars, handles>>
  BY <1>2, DispatchErrorInv DEF DispatchFails, schemeVars
<1>3. CASE Dispatch(c)
  BY <1>1, <1>2, <1>3 DEF Dispatch
<1>4. CASE DispatchSpawnFails(c)
  BY <1>4, DispatchErrorInv DEF DispatchSpawnFails, schemeVars, osVars
<1>5. CASE DispatchWait(c)
  <2>1. Dispatched(c, {"wait"}) /\ UNCHANGED <<locks, prog, call, handles>>
    BY <1>5 DEF DispatchWait, schemeVars, osVars
  <2>2. CASE child[c].state = "reaped"
    <3>1. Complete(c, 0, <<>>) /\ UNCHANGED uv
      BY <1>5, <2>2 DEF DispatchWait
    <3>2. /\ Moved(c, "done") /\ task[c].at = "queued" /\ task[c].op = "wait"
          /\ handles[c] \in SUBSET Resource /\ handles' = [handles EXCEPT ![c] = handles[c]]
      BY <2>1, <3>1, DispatchFacts
    <3>3. Follows(c)'
      BY <2>1, <3>2, EndsPlainly
    <3> QED
      BY <2>1, <3>1, <3>2, <3>3, DispatchEnds
  <2>3. CASE child[c].state # "reaped"
    BY <1>5, <2>1, <2>3, DispatchUvInv DEF DispatchWait
  <2> QED
    BY <2>2, <2>3
<1> QED
  BY <1>3, <1>4, <1>5, DispatchStdioInv, DispatchSpawnInv DEF DispatchOne

-----------------------------------------------------------------------------
(* The callbacks. *)

\* The last callback of a request.
LEMMA CallbackEnds ==
    ASSUME IInv, NEW c \in Caller, task[c].at \in {"uv", "closing"}, Moved(c, "done"),
           uv' = uv \ {c}, UNCHANGED <<inbox, locks, prog, call>>,
           NEW hs \in SUBSET Resource, handles' = [handles EXCEPT ![c] = hs], Follows(c)'
    PROVE IInv'
<1>1. Shape /\ Stages
  BY DEF IInv
<1>2. Stages'
  BY <1>1, CallbackDone
<1>3. inbox' \in Seq(Caller) /\ uv' \subseteq Caller
  BY <1>1 DEF Shape
<1> QED
  BY <1>2, <1>3, MoveInv

\* The callback of a request that opens and closes nothing.
LEMMA PlainCallback ==
    ASSUME IInv, NEW c \in Caller, task[c].at \in {"uv", "closing"}, Moved(c, "done"),
           uv' = uv \ {c}, UNCHANGED <<inbox, locks, prog, call, handles>>,
           task[c].op \notin {"fs_open", "fs_close", "connect", "spawn", "close_stdin", "close_stdout",
                              "close_stderr", "close_proc"}
    PROVE IInv'
<1>1. Follows(c)'
  BY EndsPlainly
<1>2. handles[c] \in SUBSET Resource /\ handles' = [handles EXCEPT ![c] = handles[c]]
  BY DEF IInv, Shape
<1> QED
  BY <1>1, <1>2, CallbackEnds

\* The callback of a request that leaves hs open.
LEMMA OpeningCallback ==
    ASSUME IInv, NEW c \in Caller, task[c].at = "uv", NEW r \in Nat, NEW out, Finished(c, r, out),
           UNCHANGED <<prog, call>>, prog[c] # "simple",
           NEW hs \in SUBSET Resource, handles' = [handles EXCEPT ![c] = hs],
           hs = OpenAfter(prog[c], task[c].op)
    PROVE IInv'
<1>1. Moved(c, "done") /\ task'[c].result = r
  BY CompleteMoves DEF IInv, Finished
<1>2. handles'[c] = OpenAfter(prog[c], task[c].op)
  BY DEF IInv, Shape
<1>3. Follows(c)'
  BY <1>1, <1>2, EndsWell
<1> QED
  BY <1>1, <1>3, CallbackEnds DEF Finished

\* A request ends with an error.
LEMMA UvFailsInv ==
    ASSUME IInv, NEW c \in Caller, UvFails(c)
    PROVE IInv'
<1>1. /\ task[c].at = "uv" /\ uv' = uv \ {c} /\ Complete(c, Negative, <<>>)
      /\ UNCHANGED <<inbox, locks, prog, call>>
  BY DEF UvFails, Pending, Finished, schemeVars
<1>2. Moved(c, "done") /\ task'[c].result = Negative
  BY <1>1, CompleteMoves DEF IInv
<1>3. handles[c] \in SUBSET Resource /\ handles = [handles EXCEPT ![c] = handles[c]]
  BY DEF IInv, Shape
<1>4. CASE task[c].op = "fs_close"
  <2>1. handles' = [handles EXCEPT ![c] = handles[c] \ {"fd"}]
    BY <1>4 DEF UvFails, Closed
  <2>2. Follows(c)'
    BY <1>1, <1>2, <1>4, EndsInError
  <2>3. handles[c] \ {"fd"} \in SUBSET Resource
    BY <1>3
  <2> QED
    BY <1>1, <1>2, <2>1, <2>2, <2>3, CallbackEnds
<1>5. CASE task[c].op # "fs_close"
  <2>1. handles' = handles
    BY <1>5 DEF UvFails
  <2>2. Follows(c)'
    BY <1>1, <1>2, <2>1, EndsInError
  <2> QED
    BY <1>1, <1>2, <1>3, <2>1, <2>2, CallbackEnds
<1> QED
  BY <1>4, <1>5

\* A timer fires and is closed; the Task is done only after the close.
LEMMA TimerInv ==
    ASSUME IInv, NEW c \in Caller, Timer(c)
    PROVE IInv'
<1>1. UNCHANGED <<prog, call, handles>>
  BY DEF Timer, schemeVars, osVars
<1>2. CASE OnTimer(c)
  <2>1. task[c].at = "uv" /\ task[c].op = "timer" /\ UNCHANGED <<inbox, uv, locks>>
        /\ task' = [task EXCEPT ![c].at = "closing"]
    BY <1>2 DEF OnTimer, Pending
  <2>2. Moved(c, "closing")
    BY <2>1, StageMoves DEF IInv
  <2>3. Follows(c)'
    BY <1>1, <2>1, <2>2, GoesOn
  <2>4. Stages'
    BY <1>1, <2>1, <2>2 DEF IInv, Stages, Moved
  <2>5. inbox' \in Seq(Caller) /\ uv' \subseteq Caller /\ handles[c] \in SUBSET Resource
        /\ handles' = [handles EXCEPT ![c] = handles[c]]
    BY <1>1, <2>1 DEF IInv, Shape
  <2> QED
    BY <1>1, <2>1, <2>2, <2>3, <2>4, <2>5, MoveInv
<1>3. CASE OnTimerClosed(c)
  <2>1. task[c].at = "closing" /\ uv' = uv \ {c} /\ UNCHANGED <<inbox, locks>> /\ Complete(c, 0, <<>>)
    BY <1>3 DEF OnTimerClosed, Finished
  <2>2. Moved(c, "done") /\ task[c].op = "timer"
    BY <2>1, CompleteMoves DEF IInv, Stages
  <2> QED
    BY <1>1, <2>1, <2>2, PlainCallback
<1> QED
  BY <1>2, <1>3 DEF Timer

\* Requests on paths, reads, writes and lookups open and close nothing.
LEMMA PlainCallbacksInv ==
    ASSUME IInv, NEW c \in Caller, FsPathDone(c) \/ ReadDone(c) \/ WriteDone(c) \/ DnsDone(c)
    PROVE IInv'
<1>1. UNCHANGED <<prog, call, handles>>
  BY DEF FsPathDone, ReadDone, WriteDone, DnsDone, schemeVars
<1>2. task[c].at = "uv" /\ task[c].op \in FsPathOp \cup {"fs_read", "stream_read", "fs_write", "stream_write", "dns"}
  BY DEF FsPathDone, ReadDone, WriteDone, DnsDone, OnGetaddrinfo, Pending
<1>3. task[c].op \notin {"fs_open", "fs_close", "connect", "spawn", "close_stdin", "close_stdout",
                         "close_stderr", "close_proc"}
  BY <1>2 DEF FsPathOp, FsVoidOp
<1>4. ASSUME NEW r, NEW out, Finished(c, r, out)
      PROVE IInv'
  <2>1. Moved(c, "done") /\ uv' = uv \ {c} /\ UNCHANGED <<inbox, locks>>
    BY <1>4, CompleteMoves DEF IInv, Finished
  <2> QED
    BY <1>1, <1>2, <1>3, <2>1, PlainCallback
<1>5. CASE FsPathDone(c)
  BY <1>4, <1>5 DEF FsPathDone, OnFsDone
<1>6. CASE WriteDone(c)
  BY <1>4, <1>6 DEF WriteDone
<1>7. CASE DnsDone(c)
  <2>1. PICK res \in Answers : OnGetaddrinfo(c, res)
    BY <1>7 DEF DnsDone
  <2>2. CASE Collect(res) = <<>>
    BY <1>4, <2>1, <2>2 DEF OnGetaddrinfo
  <2>3. CASE Collect(res) # <<>>
    BY <1>4, <2>1, <2>3 DEF OnGetaddrinfo
  <2> QED
    BY <2>2, <2>3
<1>8. CASE ReadDone(c)
  <2>1. PICK n \in 0..task[c].nbytes : ReadEnds(c, SubSeq(source[c], 1, n))
    BY <1>8 DEF ReadDone
  <2>2. Moved(c, "done")
    BY <2>1, ReadMoves DEF IInv
  <2>3. uv' = uv \ {c} /\ UNCHANGED <<inbox, locks>>
    BY <2>1 DEF ReadEnds
  <2> QED
    BY <1>1, <1>2, <1>3, <2>2, <2>3, PlainCallback
<1> QED
  BY <1>5, <1>6, <1>7, <1>8

\* open and connect.
LEMMA OpensInv ==
    ASSUME IInv, NEW c \in Caller, FsOpenDone(c) \/ ConnectDone(c)
    PROVE IInv'
<1>1. UNCHANGED <<prog, call>> /\ task[c].at = "uv" /\ task[c].op \in {"fs_open", "connect"}
  BY DEF FsOpenDone, ConnectDone, schemeVars, Pending
<1>2. prog[c] \in {"read_file", "write_file", "connect"}
  BY <1>1, UnderWay, CallOf
<1>3. handles[c] = {}
  BY <1>1, UnderWay, CallOf DEF OpenBefore
<1>4. CASE FsOpenDone(c)
  <2>1. task[c].op = "fs_open" /\ Finished(c, 3, FsResult(c, 3, <<>>)) /\ handles' = [handles EXCEPT ![c] = {"fd"}]
    BY <1>3, <1>4 DEF FsOpenDone, Pending, OnFsDone, Opened
  <2>2. {"fd"} = OpenAfter(prog[c], task[c].op) /\ {"fd"} \in SUBSET Resource
    BY <2>1 DEF OpenAfter, Resource
  <2> QED
    BY <1>1, <1>2, <2>1, <2>2, OpeningCallback
<1>5. CASE ConnectDone(c)
  <2>1. task[c].op = "connect" /\ Finished(c, 1, <<>>) /\ handles' = [handles EXCEPT ![c] = {"stream"}]
    BY <1>3, <1>5 DEF ConnectDone, Pending, Opened
  <2>2. {"stream"} = OpenAfter(prog[c], task[c].op) /\ {"stream"} \in SUBSET Resource
    BY <2>1 DEF OpenAfter, Resource
  <2> QED
    BY <1>1, <1>2, <2>1, <2>2, OpeningCallback
<1> QED
  BY <1>4, <1>5

\* close of a descriptor, a stream or a process.
LEMMA ClosesInv ==
    ASSUME IInv, NEW c \in Caller, FsCloseDone(c) \/ CloseDone(c)
    PROVE IInv'
<1>1. UNCHANGED <<prog, call>> /\ task[c].at = "uv"
      /\ task[c].op \in {"fs_close", "close_stdin", "close_stdout", "close_stderr", "close_proc"}
  BY DEF FsCloseDone, CloseDone, schemeVars, Pending
<1>2. /\ prog[c] \in Prog /\ task[c].op \in RequestsOf(prog[c])
      /\ handles[c] = OpenBefore(prog[c], task[c].op) /\ handles[c] \in SUBSET Resource
  BY <1>1, UnderWay DEF IInv, Shape
<1>3. PICK r, out : r \in Nat /\ Finished(c, r, out)
  BY DEF FsCloseDone, CloseDone, OnFsDone
<1>4. /\ task[c].op = "fs_close" => prog[c] \in {"read_file", "write_file"}
      /\ task[c].op = "close_proc" => prog[c] \in {"run", "output"}
      /\ task[c].op \in {"close_stdin", "close_stdout", "close_stderr"} => prog[c] = "output"
  BY <1>2, CallOf
<1> DEFINE h == IF task[c].op = "fs_close" THEN "fd" ELSE HandleOf(task[c].op)
<1>5. handles' = [handles EXCEPT ![c] = handles[c] \ {h}]
  BY DEF FsCloseDone, CloseDone, Closed, Pending
<1>6. handles[c] \ {h} = OpenAfter(prog[c], task[c].op)
  <2>1. CASE task[c].op = "fs_close"
    BY <1>2, <1>4, <2>1 DEF OpenBefore, OpenAfter
  <2>2. CASE task[c].op = "close_proc"
    BY <1>2, <1>4, <2>2 DEF OpenBefore, OpenAfter, HandleOf
  <2>3. CASE task[c].op = "close_stdin"
    BY <1>2, <1>4, <2>3 DEF OpenBefore, OpenAfter, HandleOf
  <2>4. CASE task[c].op = "close_stdout"
    BY <1>2, <1>4, <2>4 DEF OpenBefore, OpenAfter, HandleOf
  <2>5. CASE task[c].op = "close_stderr"
    BY <1>2, <1>4, <2>5 DEF OpenBefore, OpenAfter, HandleOf
  <2> QED
    BY <1>1, <2>1, <2>2, <2>3, <2>4, <2>5
<1>7. handles[c] \ {h} \in SUBSET Resource /\ prog[c] # "simple"
  BY <1>1, <1>2, <1>4
<1> HIDE DEF h
<1> QED
  BY <1>1, <1>3, <1>5, <1>6, <1>7, OpeningCallback

\* on_process_exit completes a wait that is parked.
LEMMA OnProcessExitInv ==
    ASSUME IInv, NEW c \in Caller, OnProcessExit(c)
    PROVE IInv'
<1>1. UNCHANGED <<prog, call, handles>>
  BY DEF OnProcessExit, schemeVars
<1>2. CASE Pending(c, {"wait"})
  <2>1. task[c].at = "uv" /\ task[c].op = "wait" /\ Finished(c, 0, <<>>)
    BY <1>2 DEF OnProcessExit, Pending
  <2>2. Moved(c, "done") /\ uv' = uv \ {c} /\ UNCHANGED <<inbox, locks>>
    BY <2>1, CompleteMoves DEF IInv, Finished
  <2> QED
    BY <1>1, <2>1, <2>2, PlainCallback
<1>3. CASE ~Pending(c, {"wait"})
  BY <1>1, <1>3, UntouchedInv DEF OnProcessExit, requestVars
<1> QED
  BY <1>2, <1>3

-----------------------------------------------------------------------------
(* The Scheme side of the calls. *)

\* A call goes on to a request that fits to what it has open.
LEMMA NextRequest ==
    ASSUME IInv, NEW c \in Caller, task[c].at \in {"none", "done"}, NEW t, Fresh(t), Turn(c, t),
           UNCHANGED <<uv, handles>>,
           call' = call \/ call' = [call EXCEPT ![c] = "busy"], call'[c] = "busy",
           NEW p \in Prog, prog' = [prog EXCEPT ![c] = p],
           t.op \in RequestsOf(p), handles[c] = OpenBefore(p, t.op)
    PROVE IInv'
<1>1. /\ Stages' /\ LocksCounted'
      /\ DOMAIN task' = Caller /\ task'[c] = t
      /\ \A d \in Caller : DOMAIN task'[d] = Fields /\ task'[d].pin \in Bytevector \cup {NoBuffer}
      /\ \A d \in Caller \ {c} : task'[d] = task[d] /\ call'[d] = call[d]
      /\ inbox' \in Seq(Caller) /\ locks' \in [Bytevector -> Int]
  BY TurnToRequest
<1>2. Shape'
  BY <1>1 DEF IInv, Shape
<1>3. prog'[c] = p /\ \A d \in Caller \ {c} : prog'[d] = prog[d]
  BY DEF IInv, Shape
<1>4. \A d \in Caller \ {c} : Follows(d)'
  BY <1>1, <1>3 DEF IInv, HandlesFollow, Follows, Result
<1>5. Follows(c)'
  BY <1>1, <1>3 DEF Follows, Fresh
<1> QED
  BY <1>1, <1>2, <1>4, <1>5 DEF IInv, HandlesFollow

\* A call ends: with what it may leave open, or with an error.
LEMMA CallEndsInv ==
    ASSUME IInv, NEW c \in Caller, task[c].at = "done", Turn(c, NoTask),
           UNCHANGED <<uv, handles, prog>>,
           NEW how \in {"returned", "raised"}, call' = [call EXCEPT ![c] = how],
           how = "returned" =>
             CASE prog[c] = "connect" -> handles[c] = {"stream"}
               [] prog[c] = "simple" -> handles[c] \subseteq {"stream"}
               [] OTHER -> handles[c] = {}
    PROVE IInv'
<1>1. /\ Stages' /\ LocksCounted'
      /\ DOMAIN task' = Caller /\ call'[c] = how
      /\ \A d \in Caller : DOMAIN task'[d] = Fields /\ task'[d].pin \in Bytevector \cup {NoBuffer}
      /\ \A d \in Caller \ {c} : task'[d] = task[d] /\ call'[d] = call[d]
      /\ inbox' = inbox /\ locks' \in [Bytevector -> Int]
  BY TurnToEnd
<1>2. Shape'
  BY <1>1 DEF IInv, Shape
<1>3. \A d \in Caller \ {c} : Follows(d)'
  BY <1>1 DEF IInv, HandlesFollow, Follows, Result
<1>4. Follows(c)'
  BY <1>1 DEF Follows
<1> QED
  BY <1>1, <1>2, <1>3, <1>4 DEF IInv, HandlesFollow

\* The requests without a pinned bytevector, and the pinned ones.
LEMMA FreshRequests ==
    /\ \A o, n, data : Fresh(new_task(o, n, data)) /\ new_task(o, n, data).op = o
    /\ \A o, n : \A bv \in Bytevector :
         Fresh(new_pinned_task(o, bv, n)) /\ new_pinned_task(o, bv, n).op = o
<1>1. ASSUME NEW o, NEW n, NEW data
      PROVE Fresh(new_task(o, n, data)) /\ new_task(o, n, data).op = o
  BY NewTask DEF Fresh
<1>2. ASSUME NEW o, NEW n, NEW bv \in Bytevector
      PROVE Fresh(new_pinned_task(o, bv, n)) /\ new_pinned_task(o, bv, n).op = o
  BY NewPinnedTask DEF Fresh
<1> QED
  BY <1>1, <1>2

\* The first request of a call: nothing is open.
LEMMA BeginInv ==
    ASSUME IInv, NEW c \in Caller, NEW p \in Prog, NEW t, NEW strs, Begin(c, p, t, strs),
           Fresh(t), t.op \in RequestsOf(p), OpenBefore(p, t.op) = {}
    PROVE IInv'
<1>1. /\ call[c] = "no" /\ prog' = [prog EXCEPT ![c] = p] /\ call' = [call EXCEPT ![c] = "busy"]
      /\ Turn(c, t) /\ UNCHANGED <<uv, handles>>
  BY DEF Begin
<1>2. task[c].at = "none" /\ handles[c] = {} /\ call'[c] = "busy"
  BY <1>1 DEF IInv, Shape, Stages, HandlesFollow, Follows
<1> QED
  BY <1>1, <1>2, NextRequest

LEMMA CallInv ==
    ASSUME IInv, NEW c \in Caller, Call(c)
    PROVE IInv'
<1>1. \A o : Fresh(NewReq(o)) /\ NewReq(o).op = o
  BY FreshRequests DEF NewReq
<1>2. ASSUME NEW o \in SimpleOp, Begin(c, "simple", NewReq(o), <<>>)
      PROVE IInv'
  <2>1. "simple" \in Prog /\ o \in RequestsOf("simple") /\ OpenBefore("simple", o) = {}
    BY DEF Prog, RequestsOf, OpenBefore
  <2> QED
    BY <1>1, <1>2, <2>1, BeginInv
<1>3. ASSUME NEW p \in {"read_file", "write_file"}, Begin(c, p, NewReq("fs_open"), <<>>)
      PROVE IInv'
  <2>1. p \in Prog /\ "fs_open" \in RequestsOf(p) /\ OpenBefore(p, "fs_open") = {}
    BY DEF Prog, RequestsOf, OpenBefore
  <2> QED
    BY <1>1, <1>3, <2>1, BeginInv
<1>4. ASSUME NEW o \in {"fs_read", "stream_read"},
             Begin(c, "receive", new_pinned_task(o, c, Chunk), <<>>)
      PROVE IInv'
  <2>1. "receive" \in Prog /\ o \in RequestsOf("receive") /\ OpenBefore("receive", o) = {}
        /\ c \in Bytevector
    BY DEF Prog, RequestsOf, OpenBefore, Bytevector
  <2> QED
    BY <1>4, <2>1, FreshRequests, BeginInv
<1>5. ASSUME NEW o \in {"fs_write", "stream_write"},
             NEW t \in {WriteReq(o), new_pinned_task(o, Shared, SourceLen)},
             Begin(c, "send", t, <<>>)
      PROVE IInv'
  <2>1. "send" \in Prog /\ o \in RequestsOf("send") /\ OpenBefore("send", o) = {}
        /\ Shared \in Bytevector
    BY DEF Prog, RequestsOf, OpenBefore, Bytevector
  <2>2. Fresh(t) /\ t.op = o
    BY <2>1, FreshRequests DEF WriteReq
  <2> QED
    BY <1>5, <2>1, <2>2, BeginInv
<1>6. ASSUME Begin(c, "pipe", new_pinned_task("stream_read", c, Chunk), <<>>)
      PROVE IInv'
  <2>1. "pipe" \in Prog /\ "stream_read" \in RequestsOf("pipe") /\ OpenBefore("pipe", "stream_read") = {}
        /\ c \in Bytevector
    BY DEF Prog, RequestsOf, OpenBefore, Bytevector
  <2> QED
    BY <1>6, <2>1, FreshRequests, BeginInv
<1>7. ASSUME Begin(c, "connect", DnsReq, <<>>)
      PROVE IInv'
  <2>1. "connect" \in Prog /\ "dns" \in RequestsOf("connect") /\ OpenBefore("connect", "dns") = {}
    BY DEF Prog, RequestsOf, OpenBefore
  <2>2. Fresh(DnsReq) /\ DnsReq.op = "dns"
    BY <1>1 DEF DnsReq
  <2> QED
    BY <1>7, <2>1, <2>2, BeginInv
<1>8. ASSUME NEW strs \in Commands, NEW p \in {"run", "output"}, Begin(c, p, SpawnReq(strs), strs)
      PROVE IInv'
  <2>1. p \in Prog /\ "spawn" \in RequestsOf(p) /\ OpenBefore(p, "spawn") = {}
    BY DEF Prog, RequestsOf, OpenBefore
  <2>2. Fresh(SpawnReq(strs)) /\ SpawnReq(strs).op = "spawn"
    BY FreshRequests DEF SpawnReq
  <2> QED
    BY <1>8, <2>1, <2>2, BeginInv
<1> QED
  BY <1>2, <1>3, <1>4, <1>5, <1>6, <1>7, <1>8 DEF Call

\* A request is done without an error and the call goes on to another one.
LEMMA ThenInv ==
    ASSUME IInv, NEW c \in Caller, task[c].at = "done",
           UNCHANGED <<uv, prog, handles, call>>, NEW t, Fresh(t), Turn(c, t),
           t.op \in RequestsOf(prog[c]), handles[c] = OpenBefore(prog[c], t.op)
    PROVE IInv'
<1>1. prog[c] \in Prog /\ prog' = [prog EXCEPT ![c] = prog[c]] /\ call'[c] = "busy"
  BY DEF IInv, Shape, Stages
<1> QED
  BY <1>1, NextRequest

\* What a call has open after a request without an error.
LEMMA Ended ==
    ASSUME IInv, NEW c \in Caller, task[c].at = "done", Result(c) >= 0
    PROVE /\ prog[c] \in Prog /\ task[c].op \in RequestsOf(prog[c])
          /\ prog[c] = "simple" => handles[c] \subseteq {"stream"}
          /\ prog[c] # "simple" => handles[c] = OpenAfter(prog[c], task[c].op)
<1>1. call[c] = "busy"
  BY DEF IInv, Stages
<1> QED
  BY <1>1 DEF IInv, Shape, HandlesFollow, Follows

\* The end of a call, with or without an error.
LEMMA ReturnInv ==
    ASSUME IInv, NEW c \in Caller, task[c].at = "done", UNCHANGED <<uv, prog, handles>>,
           NEW v, Return(c, v),
           CASE prog[c] = "connect" -> handles[c] = {"stream"}
             [] prog[c] = "simple" -> handles[c] \subseteq {"stream"}
             [] OTHER -> handles[c] = {}
    PROVE IInv'
<1>1. Turn(c, NoTask) /\ call' = [call EXCEPT ![c] = "returned"]
  BY DEF Return
<1> QED
  BY <1>1, CallEndsInv

\* A call resumes with the result of its request.
LEMMA ResumeInv ==
    ASSUME IInv, NEW c \in Caller, Resume(c)
    PROVE IInv'
<1> DEFINE p == prog[c]
           o == task[c].op
<1>1. task[c].at = "done" /\ UNCHANGED <<uv, prog, handles>>
  BY DEF Resume, osVars
<1>2. \A q, n, data : Fresh(new_task(q, n, data)) /\ new_task(q, n, data).op = q
  BY FreshRequests
<1>3. ASSUME NEW t, Fresh(t), Turn(c, t), call' = call,
             t.op \in RequestsOf(p), handles[c] = OpenBefore(p, t.op)
      PROVE IInv'
  BY <1>1, <1>3, ThenInv
<1>4. ASSUME NEW q, NEW n, NEW data, Turn(c, new_task(q, n, data)), call' = call,
             q \in RequestsOf(p), handles[c] = OpenBefore(p, q)
      PROVE IInv'
  BY <1>2, <1>3, <1>4
<1>5. CASE Raise(c)
  <2>1. Turn(c, NoTask) /\ call' = [call EXCEPT ![c] = "raised"]
    BY <1>5 DEF Raise
  <2> QED
    BY <1>1, <2>1, CallEndsInv
<1>6. CASE ConnectNext(c)
  <2>1. p = "connect" /\ o = "connect" /\ Result(c) < 0 /\ Turn(c, NewReq("connect")) /\ call' = call
    BY <1>6 DEF ConnectNext, At, ConnectTo
  <2>2. handles[c] = {}
    BY <1>1, <2>1 DEF IInv, Stages, HandlesFollow, Follows
  <2>3. "connect" \in RequestsOf(p) /\ handles[c] = OpenBefore(p, "connect")
    BY <2>1, <2>2 DEF RequestsOf, OpenBefore
  <2> QED
    BY <1>4, <2>1, <2>3 DEF NewReq
<1>7. CASE Result(c) >= 0 /\ Simple(c)
  <2>1. /\ p \in {"simple", "receive", "send"} /\ o \in RequestsOf(p)
        /\ p = "simple" => handles[c] \subseteq {"stream"}
        /\ p # "simple" => handles[c] = OpenAfter(p, o)
    BY <1>1, <1>7, Ended DEF Simple
  <2>2. p # "simple" => handles[c] = {}
    BY <2>1 DEF RequestsOf, OpenAfter, OpenBefore
  <2> QED
    BY <1>1, <1>7, <2>1, <2>2, ReturnInv DEF Simple
<1>8. CASE Result(c) >= 0 /\ ReadFile(c)
  <2>1. p = "read_file" /\ handles[c] = OpenAfter(p, o)
    BY <1>1, <1>8, Ended DEF ReadFile, At
  <2>2. CASE o = "fs_open"
    <3>1. Turn(c, new_task("fs_read", Chunk, Zeros(Chunk))) /\ call' = call
      BY <1>8, <2>2 DEF ReadFile, At, Then, ReadReq
    <3>2. "fs_read" \in RequestsOf(p) /\ handles[c] = OpenBefore(p, "fs_read")
      BY <2>1, <2>2 DEF RequestsOf, OpenAfter, OpenBefore
    <3> QED
      BY <1>4, <3>1, <3>2
  <2>3. CASE o = "fs_read"
    <3>1. ReadOn(c, "fs_close")
      BY <1>8, <2>3 DEF ReadFile, At
    <3>2. PICK q, n, data : q \in {"fs_read", "fs_close"} /\ Turn(c, new_task(q, n, data)) /\ call' = call
      BY <2>3, <3>1 DEF ReadOn, Then, NewReq, ReadReq
    <3>3. q \in RequestsOf(p) /\ handles[c] = OpenBefore(p, q)
      BY <2>1, <2>3, <3>2 DEF RequestsOf, OpenAfter, OpenBefore
    <3> QED
      BY <1>4, <3>2, <3>3
  <2>4. CASE o = "fs_close"
    <3>1. Return(c, Assembled(c))
      BY <1>8, <2>4 DEF ReadFile, At
    <3>2. handles[c] = {}
      BY <2>1, <2>4 DEF OpenAfter
    <3> QED
      BY <1>1, <2>1, <3>1, <3>2, ReturnInv
  <2> QED
    BY <1>8, <2>2, <2>3, <2>4 DEF ReadFile, At
<1>9. CASE Result(c) >= 0 /\ WriteFile(c)
  <2>1. p = "write_file" /\ handles[c] = OpenAfter(p, o)
    BY <1>1, <1>9, Ended DEF WriteFile, At
  <2>2. CASE o = "fs_open"
    <3>1. Turn(c, new_task("fs_write", SourceLen, Content)) /\ call' = call
      BY <1>9, <2>2 DEF WriteFile, At, Then, WriteReq
    <3>2. "fs_write" \in RequestsOf(p) /\ handles[c] = OpenBefore(p, "fs_write")
      BY <2>1, <2>2 DEF RequestsOf, OpenAfter, OpenBefore
    <3> QED
      BY <1>4, <3>1, <3>2
  <2>3. CASE o = "fs_write"
    <3>1. Turn(c, new_task("fs_close", 0, <<>>)) /\ call' = call
      BY <1>9, <2>3 DEF WriteFile, At, Then, NewReq
    <3>2. "fs_close" \in RequestsOf(p) /\ handles[c] = OpenBefore(p, "fs_close")
      BY <2>1, <2>3 DEF RequestsOf, OpenAfter, OpenBefore
    <3> QED
      BY <1>4, <3>1, <3>2
  <2>4. CASE o = "fs_close"
    <3>1. Return(c, <<>>)
      BY <1>9, <2>4 DEF WriteFile, At
    <3>2. handles[c] = {}
      BY <2>1, <2>4 DEF OpenAfter
    <3> QED
      BY <1>1, <2>1, <3>1, <3>2, ReturnInv
  <2> QED
    BY <1>9, <2>2, <2>3, <2>4 DEF WriteFile, At
<1>10. CASE Result(c) >= 0 /\ Pipe(c)
  <2>1. p = "pipe" /\ o \in {"stream_read", "stream_write"} /\ handles[c] = {}
    BY <1>1, <1>10, Ended DEF Pipe, At, OpenAfter, OpenBefore
  <2>2. ASSUME NEW q \in {"stream_read", "stream_write"}, NEW n,
               Turn(c, new_pinned_task(q, c, n)), call' = call
        PROVE IInv'
    <3>1. c \in Bytevector /\ q \in RequestsOf(p) /\ handles[c] = OpenBefore(p, q)
      BY <2>1 DEF Bytevector, RequestsOf, OpenBefore
    <3> QED
      BY <1>3, <2>2, <3>1, FreshRequests
  <2>3. CASE o = "stream_write"
    BY <1>10, <2>2, <2>3 DEF Pipe, At
  <2>4. CASE o = "stream_read" /\ Result(c) # 0
    BY <1>10, <2>2, <2>4 DEF Pipe, At, Then
  <2>5. CASE o = "stream_read" /\ Result(c) = 0
    <3>1. Return(c, <<total[c]>>)
      BY <1>10, <2>5 DEF Pipe, At
    <3> QED
      BY <1>1, <2>1, <3>1, ReturnInv
  <2> QED
    BY <2>1, <2>3, <2>4, <2>5
<1>11. CASE Result(c) >= 0 /\ Connect(c)
  <2>1. p = "connect" /\ handles[c] = OpenAfter(p, o)
    BY <1>1, <1>11, Ended DEF Connect, At
  <2>2. CASE o = "dns"
    <3>1. Turn(c, new_task("connect", 0, <<>>)) /\ call' = call
      BY <1>11, <2>2 DEF Connect, At, ConnectTo, NewReq
    <3>2. "connect" \in RequestsOf(p) /\ handles[c] = OpenBefore(p, "connect")
      BY <2>1, <2>2 DEF RequestsOf, OpenAfter, OpenBefore
    <3> QED
      BY <1>4, <3>1, <3>2
  <2>3. CASE o = "connect"
    <3>1. Return(c, <<Head(acc[c])>>)
      BY <1>11, <2>3 DEF Connect, At
    <3>2. handles[c] = {"stream"}
      BY <2>1, <2>3 DEF OpenAfter
    <3> QED
      BY <1>1, <2>1, <3>1, <3>2, ReturnInv
  <2> QED
    BY <1>11, <2>2, <2>3 DEF Connect, At
<1>12. CASE Result(c) >= 0 /\ Run(c)
  <2>1. p \in {"run", "output"} /\ handles[c] = OpenAfter(p, o)
    BY <1>1, <1>12, Ended DEF Run, At
  <2>2. CASE o = "close_proc"
    <3>1. Return(c, Assembled(c))
      BY <1>12, <2>2 DEF Run, At
    <3>2. handles[c] = {}
      BY <2>1, <2>2 DEF OpenAfter
    <3> QED
      BY <1>1, <2>1, <3>1, <3>2, ReturnInv
  <2>3. CASE o # "close_proc"
    <3>1. PICK q, n, data :
            /\ Turn(c, new_task(q, n, data)) /\ call' = call
            /\ \/ p = "run" /\ o = "spawn" /\ q = "wait"
               \/ p = "output" /\ o = "spawn" /\ q = "close_stdin"
               \/ p = "output" /\ o = "close_stdin" /\ q = "stream_read"
               \/ p = "output" /\ o = "stream_read" /\ q \in {"stream_read", "close_stdout"}
               \/ p = "output" /\ o = "close_stdout" /\ q = "close_stderr"
               \/ p = "output" /\ o = "close_stderr" /\ q = "wait"
               \/ p \in {"run", "output"} /\ o = "wait" /\ q = "close_proc"
      BY <1>12, <2>3 DEF Run, At, Then, ReadOn, NewReq, ReadReq, FirstOfOutput, LastStream
    <3>2. q \in RequestsOf(p)
      BY <3>1 DEF RequestsOf
    <3>3. handles[c] = OpenBefore(p, q)
      BY <2>1, <3>1 DEF OpenAfter, OpenBefore
    <3> QED
      BY <1>4, <3>1, <3>2, <3>3
  <2> QED
    BY <2>2, <2>3
<1> QED
  BY <1>5, <1>6, <1>7, <1>8, <1>9, <1>10, <1>11, <1>12 DEF Resume

-----------------------------------------------------------------------------
(* The theorems. *)

\* Every step keeps the inductive invariant.
LEMMA NextInv ==
    ASSUME IInv, [Next]_vars
    PROVE IInv'
<1>1. ASSUME NEW c \in Caller, Callback(c)
      PROVE IInv'
  BY <1>1, TimerInv, PlainCallbacksInv, OpensInv, ClosesInv, OnProcessExitInv DEF Callback
<1>2. ASSUME NEW c \in Caller, Child(c)
      PROVE IInv'
  <2>1. UNCHANGED <<task, inbox, uv, locks, prog, call, handles>>
    BY <1>2 DEF Child, ChildWritesOut, ChildWritesErr, ChildExits, requestVars, schemeVars
  <2> QED
    BY <2>1, UntouchedInv
<1>3. CASE UNCHANGED vars
  <2>1. UNCHANGED <<task, inbox, uv, locks, prog, call, handles>>
    BY <1>3 DEF vars, requestVars, osVars
  <2> QED
    BY <2>1, UntouchedInv
<1> QED
  BY <1>1, <1>2, <1>3, CallInv, ResumeInv, DispatchOneInv, UvFailsInv DEF Next, AllEnded

\* The runtime starts in the inductive invariant.
LEMMA InitInv ==
    ASSUME Init
    PROVE IInv
<1>1. NoTask.at = "none" /\ NoTask.pin = NoBuffer /\ DOMAIN NoTask = Fields
  BY DEF NoTask, Fields
<1>2. NoDuplicates(inbox) /\ Range(inbox) = {} /\ inbox \in Seq(Caller)
  BY DEF Init, NoDuplicates, Range
<1>3. DOMAIN task = Caller /\ \A c \in Caller : task[c] = NoTask
  BY DEF Init
<1>4. Shape
  BY <1>1, <1>2, <1>3 DEF Init, Shape, Prog
<1>5. Stages
  BY <1>1, <1>2, <1>3 DEF Init, Stages
<1>6. LocksCounted
  <2>1. \A b \in Bytevector : Users(b) = {} /\ locks[b] = 0
    BY <1>1, <1>3, RequestsAssumption DEF Init, Users, Bytevector
  <2> QED
    BY <2>1, FS_EmptySet DEF LocksCounted
<1>7. HandlesFollow
  BY DEF Init, HandlesFollow, Follows
<1> QED
  BY <1>4, <1>5, <1>6, <1>7 DEF IInv

\* The inductive invariant holds in every state.
THEOREM Inductive == Spec => []IInv
<1>1. Init => IInv
  BY InitInv
<1>2. IInv /\ [Next]_vars => IInv'
  BY NextInv
<1> QED
  BY <1>1, <1>2, PTL DEF Spec

\* Whenever libuv has a pointer into a Task, nobody may free the Task yet.
THEOREM StorageIsAlive == Spec => []StorageOutlivesUse
<1>1. IInv => StorageOutlivesUse
  BY DEF IInv, Shape, Stages, StorageOutlivesUse
<1> QED
  BY <1>1, Inductive, PTL

\* A bytevector is locked while libuv uses it, and all locks are given back.
THEOREM PinnedWhileUsed == Spec => []PinsCoverIo
<1>1. ASSUME IInv
      PROVE PinsCoverIo
  <2>1. ASSUME NEW c \in uv, task[c].pin # NoBuffer
        PROVE locks[task[c].pin] > 0
    <3> DEFINE b == task[c].pin
    <3>1. c \in Caller /\ b \in Bytevector
      BY <1>1, <2>1 DEF IInv, Shape
    <3>2. c \in Users(b) /\ IsFiniteSet(Users(b)) /\ locks[b] = Cardinality(Users(b))
      BY <1>1, <3>1, FS_Subset, RequestsAssumption DEF IInv, LocksCounted, Users
    <3>3. Cardinality(Users(b)) \in Nat /\ Cardinality(Users(b)) # 0
      BY <3>2, FS_CardinalityType, FS_EmptySet
    <3> QED
      BY <3>2, <3>3
  <2>2. \A b \in Bytevector : locks[b] = Cardinality({c \in Caller : task[c].pin = b})
    BY <1>1 DEF IInv, LocksCounted, Users
  <2> QED
    BY <2>1, <2>2 DEF PinsCoverIo
<1> QED
  BY <1>1, Inductive, PTL

\* A call that returns has closed all it opened, but for a stream it returns.
THEOREM CallsCloseWhatTheyOpen == Spec => []NothingLeftOpen
<1>1. IInv => NothingLeftOpen
  BY DEF IInv, HandlesFollow, Follows, NothingLeftOpen
<1> QED
  BY <1>1, Inductive, PTL

=============================================================================
