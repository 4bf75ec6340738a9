-------------------------- MODULE TaskRuntimeProofs --------------------------
(***************************************************************************)
(* Proofs about TaskRuntime, for any sets of tasks and workers and any     *)
(* number of starts: types, no lost wakeup, when Stop drains, and that     *)
(* Submit and Drain implement one FIFO channel.                            *)
(***************************************************************************)
EXTENDS TaskRuntime, SequenceLemmas

(***************************************************************************)
(* A worker has a task exactly while it is inside Submit, and no two       *)
(* workers have the same one.                                              *)
(***************************************************************************)
SubmittersHold ==
    /\ \A w \in Worker : step[w] = "idle" <=> holds[w] = NoTask
    /\ \A v, w \in Worker : (holds[v] = holds[w] /\ holds[v] # NoTask) => v = w

\* Everything that has been pushed to queue_ so far.
Pushed == Range(queue) \cup Range(local) \cup Range(dispatched)

(***************************************************************************)
(* Who may be in the channel: only submitted tasks, and not yet the one    *)
(* that a worker is about to push.                                         *)
(***************************************************************************)
PushedOnce ==
    /\ Pushed \subseteq Submitted
    /\ \A w \in Worker : step[w] = "push" => holds[w] \notin Pushed

(***************************************************************************)
(* Nothing is lost on the way: what was accepted has been pushed, and what *)
(* was dispatched has its outcome.                                         *)
(***************************************************************************)
NothingDropped ==
    /\ accepted \subseteq Pushed /\ promised \subseteq accepted
    /\ \A w \in Worker : step[w] = "send" => holds[w] \in Pushed
    /\ \A t \in Range(dispatched) : op[t] # "none"

(***************************************************************************)
(* The stages of a life.  The loop thread does not exist before StartSpawn *)
(* and has nothing left to do once it has ended; Drain's local vector is   *)
(* in use only between the swap and the look at stopping_.                 *)
(***************************************************************************)
LoopStages ==
    /\ life \in {"init", "spawn"} => running /\ loop = "off"
    /\ life \in {"flag", "send", "join"} => ~running /\ loop # "off"
    /\ (life = "idle" /\ running) => loop # "off"
    /\ (life = "idle" /\ ~running) => loop = "off" /\ handles = {}
    /\ loop = "ended" => handles = {}
    /\ loop \in {"off", "ended"} => Alive = {}
    /\ local # <<>> => loop = "dispatch"

(***************************************************************************)
(* The last swap.  Until stopping_ is set the async handle is open.  Once  *)
(* Stop has set it outside of a batch, either all that was promised is out *)
(* of queue_, or there is a swap to come that takes it.                    *)
(***************************************************************************)
LastSwap ==
    /\ (life \in {"spawn", "flag"} \/ (life = "idle" /\ running))
       => ~stopping /\ "async" \in handles
    /\ (life \in {"send", "join", "idle"} /\ ~running /\ ~midBatch)
       => \/ promised \subseteq Range(local) \cup Range(dispatched)
          \/ loop \in {"poll", "swap"} /\ "async" \in handles

(***************************************************************************)
(* NoLostWakeup while Drain is under way as well: between the moment the   *)
(* send flag is cleared and the swap a task may be queued without a flag,  *)
(* at no other moment.                                                     *)
(***************************************************************************)
WakeupDue ==
    ("async" \in handles /\ loop # "swap") =>
      \A i \in DOMAIN queue :
        \/ queue[i] \in leftover
        \/ pending
        \/ \E w \in Worker : step[w] = "send"

\* What the theorems rest on.
IInv ==
    /\ TypeOK
    /\ SubmittersHold
    /\ PushedOnce
    /\ NothingDropped
    /\ LoopStages
    /\ LastSwap
    /\ WakeupDue

-----------------------------------------------------------------------------

\* Before the first Start IInv holds.
LEMMA InitIInv == Init => IInv
<1> SUFFICES ASSUME Init PROVE IInv
  OBVIOUS
<1>1. TypeOK
  <2>1. <<>> \in Seq(Task) /\ 0 \in 0..MaxStarts
    BY RuntimeAssumption
  <2> QED
    BY <2>1 DEF Init, TypeOK
<1>2. SubmittersHold
  BY DEF Init, SubmittersHold
<1>3. Range(queue) = {} /\ Range(local) = {} /\ Range(dispatched) = {}
  BY DEF Init, Range
<1>4. PushedOnce
  BY <1>3 DEF Init, PushedOnce, Pushed
<1>5. NothingDropped /\ LoopStages /\ LastSwap
  BY <1>3 DEF Init, NothingDropped, Pushed, LoopStages, LastSwap, Alive
<1>6. WakeupDue
  BY DEF Init, WakeupDue
<1> QED
  BY <1>1, <1>2, <1>4, <1>5, <1>6 DEF IInv

-----------------------------------------------------------------------------
(* Worker threads. *)

\* The task handed to Submit is new, so no worker has it and it was never pushed.
LEMMA SubmitEnterInv ==
    ASSUME IInv, NEW w \in Worker, NEW t \in Task, SubmitEnter(w, t)
    PROVE IInv'
<1> USE DEF IInv
<1>1. TypeOK'
  BY DEF SubmitEnter, Handed, flagVars, lifeVars, signalVars, loopVars, TypeOK
<1>2. SubmittersHold'
  BY RuntimeAssumption DEF SubmitEnter, Handed, SubmittersHold, Submitted, TypeOK
<1>3. PushedOnce'
  BY DEF SubmitEnter, Handed, loopVars, PushedOnce, Pushed, Submitted, TypeOK, SubmittersHold
<1>4. WakeupDue'
  BY DEF SubmitEnter, Handed, lifeVars, loopVars, WakeupDue, TypeOK
<1>5. LoopStages' /\ LastSwap'
  BY DEF SubmitEnter, flagVars, lifeVars, loopVars, LoopStages, Alive, LastSwap
<1>6. NothingDropped'
  <2>1. \A v \in Worker : step'[v] = "send" => step[v] = "send" /\ holds'[v] = holds[v]
    BY DEF SubmitEnter, Handed, TypeOK
  <2> QED
    BY <2>1 DEF SubmitEnter, lifeVars, loopVars, NothingDropped, Pushed
<1> QED
  BY <1>1, <1>2, <1>3, <1>4, <1>5, <1>6

\* The push puts a task into the channel that was not in it; a send is due.
LEMMA SubmitPushInv ==
    ASSUME IInv, NEW w \in Worker, SubmitPush(w)
    PROVE IInv'
<1> USE DEF IInv
<1>1. TypeOK'
  BY DEF SubmitPush, flagVars, lifeVars, signalVars, loopVars, TypeOK, SubmittersHold
<1>2. SubmittersHold'
  BY DEF SubmitPush, SubmittersHold, TypeOK
<1>3. holds[w] \in Task
  BY DEF SubmitPush, TypeOK, SubmittersHold
<1>4. Pushed' = Pushed \cup {holds[w]}
  BY <1>3, RangeAppend DEF SubmitPush, loopVars, Pushed, TypeOK
<1>5. PushedOnce'
  <2>1. Submitted' = Submitted /\ holds[w] \in Submitted
    BY <1>3, RuntimeAssumption DEF SubmitPush, Submitted
  <2>2. \A v \in Worker : step'[v] = "push" => step[v] = "push" /\ holds[v] # holds[w]
    BY <1>3, RuntimeAssumption DEF SubmitPush, TypeOK, SubmittersHold
  <2> QED
    BY <1>4, <2>1, <2>2 DEF SubmitPush, PushedOnce
<1>6. WakeupDue'
  BY DEF SubmitPush, lifeVars, loopVars, WakeupDue, TypeOK
<1>7. NothingDropped'
  <2>1. \A v \in Worker : step'[v] = "send" => v = w \/ step[v] = "send"
    BY DEF SubmitPush, TypeOK
  <2>2. UNCHANGED <<holds, accepted, promised, dispatched, op>>
    BY DEF SubmitPush, lifeVars, loopVars
  <2> QED
    BY <1>4, <2>1, <2>2 DEF NothingDropped
<1>8. LoopStages' /\ LastSwap'
  BY DEF SubmitPush, flagVars, lifeVars, loopVars, LoopStages, Alive, LastSwap
<1> QED
  BY <1>1, <1>2, <1>5, <1>6, <1>7, <1>8

\* The send sets the flag of an open async handle.
LEMMA SubmitSendInv ==
    ASSUME IInv, NEW w \in Worker, SubmitSend(w)
    PROVE IInv'
<1> USE DEF IInv
<1>1. TypeOK'
  BY DEF SubmitSend, WakeLoop, uv_async_send, flagVars, lifeVars, signalVars, loopVars,
     TypeOK, SubmittersHold
<1>2. SubmittersHold'
  BY DEF SubmitSend, WakeLoop, uv_async_send, SubmittersHold, TypeOK
<1>3. PushedOnce'
  BY DEF SubmitSend, WakeLoop, uv_async_send, loopVars, PushedOnce, Pushed, Submitted,
     TypeOK, SubmittersHold
<1>4. WakeupDue'
  BY DEF SubmitSend, WakeLoop, uv_async_send, lifeVars, loopVars, WakeupDue, TypeOK
<1>5. LoopStages' /\ LastSwap'
  BY DEF SubmitSend, flagVars, lifeVars, loopVars, LoopStages, Alive, LastSwap
<1>6. NothingDropped'
  <2>1. \A v \in Worker : step'[v] = "send" => step[v] = "send" /\ holds'[v] = holds[v]
    BY DEF SubmitSend, TypeOK
  <2>2. accepted' = accepted \cup {holds[w]} /\ holds[w] \in Pushed
    BY DEF SubmitSend, NothingDropped
  <2>3. Pushed' = Pushed /\ UNCHANGED <<promised, dispatched, op>>
    BY DEF SubmitSend, lifeVars, loopVars, Pushed
  <2> QED
    BY <2>1, <2>2, <2>3 DEF NothingDropped
<1> QED
  BY <1>1, <1>2, <1>3, <1>4, <1>5, <1>6

-----------------------------------------------------------------------------
(* The loop thread. *)

\* The flag is cleared, and the swap is next.
LEMMA OnAsyncInv ==
    ASSUME IInv, OnAsync
    PROVE IInv'
<1> USE DEF IInv
<1>1. TypeOK'
  BY DEF OnAsync, callerVars, flagVars, lifeVars, signalVars, TypeOK
<1>2. LoopStages'
  BY DEF OnAsync, flagVars, lifeVars, LoopStages, Alive
<1>3. NothingDropped' /\ LastSwap'
  BY DEF OnAsync, flagVars, lifeVars, callerVars, NothingDropped, Pushed, LoopStages, LastSwap
<1>4. WakeupDue'
  BY DEF OnAsync, callerVars, lifeVars, WakeupDue
<1>5. SubmittersHold' /\ PushedOnce'
  BY DEF OnAsync, callerVars, SubmittersHold, PushedOnce, Pushed, Submitted
<1> QED
  BY <1>1, <1>2, <1>3, <1>4, <1>5

\* The swap finds the local vector empty and leaves the queue empty.
LEMMA DrainSwapInv ==
    ASSUME IInv, DrainSwap
    PROVE IInv'
<1> USE DEF IInv
<1>1. TypeOK'
  BY DEF DrainSwap, Batch, callerVars, flagVars, lifeVars, signalVars, TypeOK
<1>2. Range(local) = {} /\ Pushed' = Pushed
      /\ Pushed = Range(local') \cup Range(dispatched')
  <2>1. local = <<>>
    BY DEF DrainSwap, LoopStages
  <2>2. Range(<<>>) = {}
    BY DEF Range
  <2> QED
    BY <2>1, <2>2 DEF DrainSwap, Batch, Pushed
<1>3. PushedOnce'
  BY <1>2 DEF DrainSwap, callerVars, PushedOnce, Submitted
<1>4. LoopStages'
  BY DEF DrainSwap, Batch, flagVars, lifeVars, LoopStages, Alive
<1>5. NothingDropped'
  BY <1>2 DEF DrainSwap, lifeVars, callerVars, NothingDropped
<1>6. LastSwap'
  <2>1. promised' \subseteq Range(local') \cup Range(dispatched')
    BY <1>2 DEF DrainSwap, lifeVars, NothingDropped
  <2> QED
    BY <2>1 DEF DrainSwap, flagVars, lifeVars, LastSwap
<1>7. WakeupDue'
  BY DEF DrainSwap, Batch, callerVars, lifeVars, WakeupDue
<1>8. SubmittersHold'
  BY DEF DrainSwap, callerVars, SubmittersHold
<1> QED
  BY <1>1, <1>3, <1>4, <1>5, <1>6, <1>7, <1>8

\* A dispatched task leaves the local vector.
LEMMA DrainDispatchInv ==
    ASSUME IInv, DrainDispatch
    PROVE IInv'
<1> USE DEF IInv
<1>1. TypeOK'
  BY DEF DrainDispatch, callerVars, flagVars, lifeVars, signalVars, TypeOK
<1>2. Head(local) \in Task /\ Range(local) = {Head(local)} \cup Range(local')
  BY RangeTail DEF DrainDispatch, TypeOK
<1>3. Range(dispatched') = Range(dispatched) \cup {Head(local)}
  BY <1>2, RangeAppend DEF DrainDispatch, TypeOK
<1>4. Pushed' = Pushed
  BY <1>2, <1>3 DEF DrainDispatch, Pushed
<1>5. PushedOnce'
  BY <1>4 DEF DrainDispatch, callerVars, PushedOnce, Submitted
<1>6. LoopStages'
  BY DEF DrainDispatch, flagVars, lifeVars, LoopStages, Alive, TypeOK
<1>7. NothingDropped'
  <2>1. \A t \in Range(dispatched') : op'[t] # "none"
    <3>1. Range(dispatched) \subseteq Task
      BY RangeType DEF TypeOK
    <3>2. PICK o \in Outcome : op' = [op EXCEPT ![Head(local)] = o]
      BY DEF DrainDispatch
    <3>3. o # "none"
      BY DEF Outcome
    <3> QED
      BY <1>2, <1>3, <3>1, <3>2, <3>3 DEF TypeOK, NothingDropped
  <2> QED
    BY <1>4, <2>1 DEF DrainDispatch, lifeVars, callerVars, NothingDropped
<1>8. LastSwap'
  <2>1. Range(local') \cup Range(dispatched') = Range(local) \cup Range(dispatched)
    BY <1>2, <1>3
  <2> QED
    BY <2>1 DEF DrainDispatch, flagVars, lifeVars, LastSwap
<1>9. SubmittersHold' /\ WakeupDue'
  BY DEF DrainDispatch, callerVars, lifeVars, SubmittersHold, WakeupDue
<1> QED
  BY <1>1, <1>5, <1>6, <1>7, <1>8, <1>9

\* Drain may close the handles; the batch is over.
LEMMA DrainCheckInv ==
    ASSUME IInv, DrainCheck
    PROVE IInv'
<1> USE DEF IInv
<1>1. TypeOK'
  BY DEF DrainCheck, HandlesAfterDrain, callerVars, flagVars, lifeVars, signalVars, TypeOK
<1>2. LoopStages'
  BY DEF DrainCheck, HandlesAfterDrain, flagVars, lifeVars, LoopStages, Alive
<1>3. NothingDropped' /\ LastSwap'
  BY DEF DrainCheck, HandlesAfterDrain, flagVars, lifeVars, callerVars, NothingDropped, Pushed, LoopStages, LastSwap
<1>4. WakeupDue'
  BY DEF DrainCheck, HandlesAfterDrain, callerVars, lifeVars, WakeupDue
<1>5. SubmittersHold' /\ PushedOnce'
  BY DEF DrainCheck, callerVars, SubmittersHold, PushedOnce, Pushed, Submitted
<1> QED
  BY <1>1, <1>2, <1>3, <1>4, <1>5

\* Operations that end leave the loop with less that is alive, and nothing else
\* is changed.
LEMMA EndedInv ==
    ASSUME IInv, loop # "off", NEW S \in SUBSET Task,
           \A t \in S : op[t] # "none", op' = Ended(S),
           UNCHANGED <<flagVars, queue, handles, pending, loop, local, dispatched,
                       signalVars, lifeVars, callerVars>>
    PROVE IInv'
<1> USE DEF IInv
<1>1. TypeOK'
  BY DEF Ended, Outcome, callerVars, flagVars, lifeVars, signalVars, TypeOK
<1>2. Alive' \subseteq Alive
  BY DEF Alive, Ended
<1>3. LoopStages'
  BY <1>2 DEF flagVars, lifeVars, LoopStages
<1>4. NothingDropped' /\ LastSwap'
  <2>1. \A t \in Range(dispatched) : op'[t] # "none"
    BY RangeType DEF Ended, NothingDropped, TypeOK
  <2> QED
    BY <2>1 DEF callerVars, flagVars, lifeVars, NothingDropped, Pushed, LastSwap
<1>5. SubmittersHold' /\ PushedOnce' /\ WakeupDue'
  BY DEF callerVars, lifeVars, SubmittersHold, PushedOnce, Pushed, Submitted, WakeupDue
<1> QED
  BY <1>1, <1>3, <1>4, <1>5

\* The callbacks of requests and of handles.
LEMMA OperationDoneInv ==
    ASSUME IInv, NEW t \in Task, OperationDone(t) \/ HandleServes(t) \/ HandleEnds(t)
    PROVE IInv'
<1>1. CASE OperationDone(t) \/ HandleServes(t)
  BY <1>1, EndedInv DEF OperationDone, HandleServes
<1>2. CASE HandleEnds(t)
  <2>1. PICK S \in SUBSET Parked : op' = Ended({t} \cup S)
    BY <1>2 DEF HandleEnds
  <2>2. {t} \cup S \in SUBSET Task /\ \A u \in {t} \cup S : op[u] # "none"
    BY <1>2, <2>1 DEF HandleEnds, Parked
  <2> QED
    BY <1>2, <2>1, <2>2, EndedInv DEF HandleEnds
<1> QED
  BY <1>1, <1>2

\* uv_run returns when no handle is open and no operation active.
LEMMA LoopEndsInv ==
    ASSUME IInv, LoopEnds
    PROVE IInv'
<1> USE DEF IInv
<1>1. TypeOK'
  BY DEF LoopEnds, callerVars, flagVars, lifeVars, signalVars, TypeOK
<1>2. LoopStages'
  BY DEF LoopEnds, flagVars, lifeVars, LoopStages, Alive
<1>3. NothingDropped' /\ LastSwap'
  BY DEF LoopEnds, flagVars, lifeVars, callerVars, NothingDropped, Pushed, LoopStages, LastSwap
<1>4. WakeupDue'
  BY DEF LoopEnds, callerVars, lifeVars, WakeupDue
<1>5. SubmittersHold' /\ PushedOnce'
  BY DEF LoopEnds, callerVars, SubmittersHold, PushedOnce, Pushed, Submitted
<1> QED
  BY <1>1, <1>2, <1>3, <1>4, <1>5

\* A signal that ends the process changes no state that IInv is about.
LEMMA OnSignalExitInv ==
    ASSUME IInv, OnSignalExit
    PROVE IInv'
<1> USE DEF IInv
<1>1. TypeOK'
  BY DEF OnSignalExit, callerVars, flagVars, lifeVars, loopVars, TypeOK
<1>2. SubmittersHold' /\ PushedOnce' /\ NothingDropped' /\ LoopStages' /\ LastSwap' /\ WakeupDue'
  BY DEF OnSignalExit, callerVars, loopVars, flagVars, lifeVars, SubmittersHold,
     PushedOnce, Pushed, Submitted, NothingDropped, Pushed, LoopStages, Alive, LastSwap, WakeupDue
<1> QED
  BY <1>1, <1>2

\* The shutdown timer is one more handle of a polling loop.
LEMMA OnSignalGracefulInv ==
    ASSUME IInv, OnSignalGraceful
    PROVE IInv'
<1> USE DEF IInv
<1>1. TypeOK'
  BY DEF OnSignalGraceful, Ended, Outcome, callerVars, flagVars, lifeVars, TypeOK
<1>2. LoopStages'
  BY DEF OnSignalGraceful, flagVars, lifeVars, loopVars, LoopStages, Alive
<1>3. NothingDropped'
  <2>1. PICK S \in SUBSET Task : op' = Ended(S)
    BY DEF OnSignalGraceful
  <2>2. \A t \in Range(dispatched) : op'[t] # "none"
    BY <2>1, RangeType DEF Ended, NothingDropped, TypeOK
  <2> QED
    BY <2>2 DEF OnSignalGraceful, lifeVars, callerVars, NothingDropped, Pushed
<1>4. LastSwap'
  BY DEF OnSignalGraceful, flagVars, lifeVars, LastSwap
<1>5. WakeupDue'
  BY DEF OnSignalGraceful, callerVars, lifeVars, loopVars, WakeupDue
<1>6. SubmittersHold' /\ PushedOnce'
  BY DEF OnSignalGraceful, callerVars, loopVars, SubmittersHold, PushedOnce, Pushed, Submitted
<1> QED
  BY <1>1, <1>2, <1>3, <1>4, <1>5, <1>6

\* The deadline ends the process.
LEMMA OnShutdownTimerInv ==
    ASSUME IInv, OnShutdownTimer
    PROVE IInv'
<1> USE DEF IInv
<1>1. TypeOK'
  BY DEF OnShutdownTimer, callerVars, flagVars, lifeVars, loopVars, TypeOK
<1>2. SubmittersHold' /\ PushedOnce' /\ NothingDropped' /\ LoopStages' /\ LastSwap' /\ WakeupDue'
  BY DEF OnShutdownTimer, callerVars, loopVars, flagVars, lifeVars, SubmittersHold,
     PushedOnce, Pushed, Submitted, NothingDropped, Pushed, LoopStages, Alive, LastSwap, WakeupDue
<1> QED
  BY <1>1, <1>2

-----------------------------------------------------------------------------
(* The main thread. *)

\* Start begins from a runtime that is stopped and clean.
LEMMA StartClaimInv ==
    ASSUME IInv, StartClaim
    PROVE IInv'
<1> USE DEF IInv
<1>1. TypeOK'
  BY RuntimeAssumption DEF StartClaim, callerVars, signalVars, loopVars, TypeOK
<1>2. LoopStages'
  BY DEF StartClaim, loopVars, NothingDropped, Pushed, LoopStages, Alive, LastSwap
<1>3. NothingDropped' /\ LastSwap'
  BY DEF StartClaim, loopVars, callerVars, NothingDropped, Pushed, LoopStages, LastSwap
<1>4. SubmittersHold' /\ PushedOnce' /\ WakeupDue'
  BY DEF StartClaim, callerVars, loopVars, SubmittersHold, PushedOnce, Pushed, Submitted, WakeupDue
<1> QED
  BY <1>1, <1>2, <1>3, <1>4

\* What is in the queue when Start resets the runtime is leftover.
LEMMA StartInitInv ==
    ASSUME IInv, StartInit
    PROVE IInv'
<1> USE DEF IInv
<1>1. TypeOK'
  <2>1. leftover' \subseteq Task
    BY RangeType DEF StartInit, TypeOK
  <2> QED
    BY <2>1 DEF StartInit, StoppingAtStart, callerVars, loopVars, TypeOK
<1>2. LoopStages'
  BY DEF StartInit, StoppingAtStart, loopVars, LoopStages, Alive
<1>3. NothingDropped' /\ LastSwap'
  BY DEF StartInit, StoppingAtStart, loopVars, callerVars, NothingDropped, Pushed, LoopStages, LastSwap
<1>4. WakeupDue'
  <2>1. \A i \in DOMAIN queue : queue[i] \in Range(queue)
    BY DEF Range
  <2> QED
    BY <2>1 DEF StartInit, WakeupDue
<1>5. SubmittersHold' /\ PushedOnce'
  BY DEF StartInit, callerVars, loopVars, SubmittersHold, PushedOnce, Pushed, Submitted
<1> QED
  BY <1>1, <1>2, <1>3, <1>4, <1>5

\* The loop begins to poll; what was queued since StartInit has its wakeup.
LEMMA StartSpawnInv ==
    ASSUME IInv, StartSpawn
    PROVE IInv'
<1> USE DEF IInv
<1>1. TypeOK'
  BY DEF StartSpawn, callerVars, flagVars, signalVars, TypeOK
<1>2. LoopStages'
  BY DEF StartSpawn, flagVars, LoopStages, Alive
<1>3. NothingDropped' /\ LastSwap'
  BY DEF StartSpawn, flagVars, callerVars, NothingDropped, Pushed, LoopStages, LastSwap, LoopStages
<1>4. WakeupDue'
  BY DEF StartSpawn, callerVars, WakeupDue, LoopStages
<1>5. SubmittersHold' /\ PushedOnce'
  BY DEF StartSpawn, callerVars, SubmittersHold, PushedOnce, Pushed, Submitted
<1> QED
  BY <1>1, <1>2, <1>3, <1>4, <1>5

\* Stop begins.
LEMMA StopClaimInv ==
    ASSUME IInv, StopClaim
    PROVE IInv'
<1> USE DEF IInv
<1>1. TypeOK'
  BY DEF StopClaim, callerVars, signalVars, loopVars, TypeOK
<1>2. LoopStages'
  BY DEF StopClaim, loopVars, LoopStages, Alive
<1>3. NothingDropped' /\ LastSwap'
  BY DEF StopClaim, loopVars, callerVars, NothingDropped, Pushed, LoopStages, LastSwap
<1>4. SubmittersHold' /\ PushedOnce' /\ WakeupDue'
  BY DEF StopClaim, callerVars, loopVars, SubmittersHold, PushedOnce, Pushed, Submitted, WakeupDue
<1> QED
  BY <1>1, <1>2, <1>3, <1>4

\* stopping_ is set.
LEMMA StopFlagInv ==
    ASSUME IInv, StopFlag
    PROVE IInv'
<1> USE DEF IInv
<1>1. TypeOK'
  BY DEF StopFlag, callerVars, signalVars, loopVars, TypeOK
<1>2. LoopStages'
  BY DEF StopFlag, loopVars, LoopStages, Alive
<1>3. NothingDropped'
  BY DEF StopFlag, loopVars, callerVars, NothingDropped, Pushed
<1>4. LastSwap'
  <2>1. "async" \in handles /\ loop \in {"poll", "swap", "dispatch"}
    BY DEF StopFlag, LoopStages, LastSwap, TypeOK
  <2> QED
    BY <2>1 DEF StopFlag, loopVars, LastSwap
<1>5. SubmittersHold' /\ PushedOnce' /\ WakeupDue'
  BY DEF StopFlag, callerVars, loopVars, SubmittersHold, PushedOnce, Pushed, Submitted, WakeupDue
<1> QED
  BY <1>1, <1>2, <1>3, <1>4, <1>5

\* Stop's own send sets the flag of an open async handle.
LEMMA StopSendInv ==
    ASSUME IInv, StopSend
    PROVE IInv'
<1> USE DEF IInv
<1>1. TypeOK'
  BY DEF StopSend, uv_async_send, callerVars, flagVars, signalVars, loopVars, TypeOK
<1>2. LoopStages'
  BY DEF StopSend, uv_async_send, flagVars, loopVars, LoopStages, Alive
<1>3. NothingDropped' /\ LastSwap'
  BY DEF StopSend, uv_async_send, flagVars, loopVars, callerVars, NothingDropped, Pushed, LoopStages, LastSwap
<1>4. WakeupDue'
  BY DEF StopSend, uv_async_send, callerVars, loopVars, WakeupDue
<1>5. SubmittersHold' /\ PushedOnce'
  BY DEF StopSend, callerVars, loopVars, SubmittersHold, PushedOnce, Pushed, Submitted
<1> QED
  BY <1>1, <1>2, <1>3, <1>4, <1>5

\* Join returns from a loop that has ended: no handle and no operation is left.
LEMMA StopJoinInv ==
    ASSUME IInv, StopJoin
    PROVE IInv'
<1> USE DEF IInv
<1>1. TypeOK'
  BY DEF StopJoin, LoopThreadGone, callerVars, flagVars, signalVars, TypeOK
<1>2. LoopStages'
  BY DEF StopJoin, LoopThreadGone, flagVars, LoopStages, Alive
<1>3. NothingDropped' /\ LastSwap'
  BY DEF StopJoin, LoopThreadGone, flagVars, callerVars, NothingDropped, Pushed, LoopStages, LastSwap, LoopStages
<1>4. WakeupDue'
  BY DEF StopJoin, LoopThreadGone, callerVars, WakeupDue
<1>5. SubmittersHold' /\ PushedOnce'
  BY DEF StopJoin, callerVars, SubmittersHold, PushedOnce, Pushed, Submitted
<1> QED
  BY <1>1, <1>2, <1>3, <1>4, <1>5

-----------------------------------------------------------------------------

\* Every step preserves IInv.
LEMMA StepIInv == IInv /\ [Next]_vars => IInv'
<1> SUFFICES ASSUME IInv, [Next]_vars PROVE IInv'
  OBVIOUS
<1>1. CASE LoopThread
  BY <1>1, OnAsyncInv, DrainSwapInv, DrainDispatchInv, DrainCheckInv, LoopEndsInv,
     OperationDoneInv DEF LoopThread
<1>2. CASE Signals
  BY <1>2, OnSignalExitInv, OnSignalGracefulInv, OnShutdownTimerInv DEF Signals
<1>3. CASE MainThread
  BY <1>3, StartClaimInv, StartInitInv, StartSpawnInv, StopClaimInv, StopFlagInv,
     StopSendInv, StopJoinInv DEF MainThread
<1>4. ASSUME NEW w \in Worker,
             SubmitPush(w) \/ SubmitSend(w) \/ \E t \in Task : SubmitEnter(w, t)
      PROVE IInv'
  BY <1>4, SubmitPushInv, SubmitSendInv, SubmitEnterInv
<1>5. CASE UNCHANGED vars
  <2> USE DEF vars, callerVars, flagVars, lifeVars, signalVars, loopVars
  <2>1. TypeOK' /\ SubmittersHold' /\ PushedOnce'
    BY <1>5 DEF IInv, TypeOK, SubmittersHold, PushedOnce, Pushed, Submitted
  <2>2. NothingDropped' /\ LoopStages' /\ LastSwap' /\ WakeupDue'
    BY <1>5 DEF IInv, NothingDropped, Pushed, LoopStages, LastSwap, WakeupDue, Alive
  <2> QED
    BY <2>1, <2>2 DEF IInv
<1> QED
  BY <1>1, <1>2, <1>3, <1>4, <1>5 DEF Next, Finished

\* IInv holds throughout.
THEOREM Inductive == Spec => []IInv
  BY InitIInv, StepIInv, PTL DEF Spec

\* The types of TaskRuntime, for any sets of tasks and workers.
THEOREM TypeCorrect == Spec => []TypeOK
<1>1. IInv => TypeOK
  BY DEF IInv
<1> QED
  BY <1>1, Inductive, PTL

\* uv_async_send coalesces and Drain clears the flag before it swaps, and no
\* wakeup is lost: a loop that sleeps in uv_run with its async handle open has
\* nothing in queue_ that was pushed since Start without a wakeup or a send to
\* come.
THEOREM WakeupNeverLost == Spec => []NoLostWakeup
<1>1. IInv => NoLostWakeup
  BY DEF IInv, WakeupDue, NoLostWakeup
<1> QED
  BY <1>1, Inductive, PTL

\* When Stop does drain: if it set stopping_ outside of a batch, every task
\* accepted before it has been dispatched when it returns, and has completed and
\* left the loop or was parked on a handle that went without it.  The condition is
\* needed: TaskRuntimeStop.cfg shows the batch that strands a task.
THEOREM StopDrainsQueue == Spec => []StopDrainsBetweenBatches
<1>1. IInv => StopDrainsBetweenBatches
  <2> SUFFICES ASSUME IInv, life = "idle", ~running, ~midBatch, NEW t \in promised
               PROVE op[t] \in {"ended", "parked"}
    BY DEF StopDrainsBetweenBatches
  <2>1. loop = "off" /\ local = <<>> /\ Alive = {}
    BY DEF IInv, LoopStages
  <2>2. Range(<<>>) = {}
    BY DEF Range
  <2>3. t \in Range(dispatched)
    BY <2>1, <2>2 DEF IInv, LastSwap
  <2>4. t \in Task /\ op[t] # "none" /\ op[t] \in Outcome \cup {"none"}
    BY <2>3 DEF IInv, TypeOK, NothingDropped
  <2> QED
    BY <2>1, <2>4 DEF Alive, Outcome
<1> QED
  BY <1>1, Inductive, PTL

-----------------------------------------------------------------------------
(* Refinement: local followed by queue_ is the channel of SubmitFifo. *)

\* The push of Submit enters the channel, once.
LEMMA PushRefines ==
    ASSUME IInv, NEW w \in Worker, SubmitPush(w)
    PROVE Fifo!Push(holds[w])
<1>1. holds[w] \in Task
  BY DEF IInv, SubmitPush, TypeOK, SubmittersHold
<1>2. holds[w] \notin Range(local \o queue) \cup Range(dispatched)
  BY RangeConcatenation DEF IInv, TypeOK, SubmitPush, PushedOnce, Pushed
<1>3. (local \o queue)' = Append(local \o queue, holds[w])
  BY <1>1, AppendToSecond DEF IInv, TypeOK, SubmitPush, loopVars
<1> QED
  BY <1>2, <1>3 DEF SubmitPush, loopVars, Fifo!Push, Fifo!Range, Range

\* The swap moves the whole queue into an empty local vector: the channel is
\* the same.
LEMMA SwapRefines ==
    ASSUME IInv, DrainSwap
    PROVE UNCHANGED <<local \o queue, dispatched>>
<1>1. local = <<>> /\ queue \in Seq(Task)
  BY DEF IInv, LoopStages, DrainSwap, TypeOK
<1>2. queue \o <<>> = queue /\ <<>> \o queue = queue
  BY <1>1, ConcatEmptySeq
<1> QED
  BY <1>1, <1>2 DEF DrainSwap, Batch

\* A dispatch takes the front of the channel.
LEMMA DispatchRefines ==
    ASSUME IInv, DrainDispatch
    PROVE Fifo!Take
<1>1. local \in Seq(Task) /\ queue \in Seq(Task) /\ local # <<>>
  BY DEF IInv, TypeOK, DrainDispatch
<1>2. local \o queue # <<>> /\ Head(local \o queue) = Head(local)
      /\ Tail(local \o queue) = Tail(local) \o queue
  BY <1>1, TakeFromFirst
<1> QED
  BY <1>2 DEF DrainDispatch, Fifo!Take

\* Runtime::Submit and Drain, with any number of threads, batches and restarts,
\* implement one FIFO channel: every task is pushed at most once, and tasks are
\* dispatched in the order they were pushed, none twice and none skipped.
THEOREM SubmissionIsFifo == Spec => ImplementsFifo
<1>1. Init => Fifo!Init
  <2>1. <<>> \o <<>> = <<>>
    BY ConcatEmptySeq, EmptySeq
  <2> QED
    BY <2>1 DEF Init, Fifo!Init
<1>2. IInv /\ [Next]_vars => [Fifo!Next]_<<local \o queue, dispatched>>
  <2> SUFFICES ASSUME IInv, [Next]_vars
               PROVE Fifo!Next \/ UNCHANGED <<local \o queue, dispatched>>
    OBVIOUS
  <2>1. ASSUME NEW w \in Worker, SubmitPush(w)
        PROVE Fifo!Next
    <3>1. holds[w] \in Task
      BY <2>1 DEF IInv, SubmitPush, TypeOK, SubmittersHold
    <3> QED
      BY <2>1, <3>1, PushRefines DEF Fifo!Next
  <2>2. CASE DrainSwap
    BY <2>2, SwapRefines
  <2>3. CASE DrainDispatch
    BY <2>3, DispatchRefines DEF Fifo!Next
  <2>4. CASE UNCHANGED <<local, queue, dispatched>>
    BY <2>4
  <2>5. \/ UNCHANGED <<local, queue, dispatched>>
        \/ DrainSwap \/ DrainDispatch \/ \E w \in Worker : SubmitPush(w)
    <3>1. CASE LoopThread
      BY <3>1 DEF LoopThread, OnAsync, DrainCheck, LoopEnds, OperationDone,
                  HandleServes, HandleEnds
    <3>2. CASE Signals
      BY <3>2 DEF Signals, OnSignalExit, OnSignalGraceful, OnShutdownTimer, loopVars
    <3>3. CASE MainThread
      BY <3>3 DEF MainThread, StartClaim, StartInit, StartSpawn, StopClaim, StopFlag,
                  StopSend, StopJoin, loopVars
    <3>4. ASSUME NEW w \in Worker, SubmitSend(w) \/ \E t \in Task : SubmitEnter(w, t)
          PROVE UNCHANGED <<local, queue, dispatched>>
      BY <3>4 DEF SubmitSend, SubmitEnter, loopVars
    <3>5. CASE UNCHANGED vars
      BY <3>5 DEF vars, loopVars
    <3> QED
      BY <3>1, <3>2, <3>3, <3>4, <3>5 DEF Next, Finished
  <2> QED
    BY <2>1, <2>2, <2>3, <2>4, <2>5
<1> QED
  BY <1>1, <1>2, Inductive, PTL DEF Spec, ImplementsFifo, Fifo!Spec
=============================================================================
