------------------------- MODULE AsyncSchedulerProofs -------------------------
(***************************************************************************)
(* Proofs about AsyncScheduler, for any sets of fibers and tasks: types,   *)
(* every unsettled fiber and every completion is in one place, a blocked   *)
(* scheduler is served, a resumed await finds its future settled, a        *)
(* reported deadlock is one, and fibers run in the order they became ready.*)
(***************************************************************************)
EXTENDS AsyncScheduler, SequenceLemmas, FiniteSetTheorems

\* The fiber is parked on a task or on a future.
OnTask(f) == \E t \in Task : waiters[t] = f
OnFuture(f) == \E g \in Fiber : f \in Range(futWaiters[g])
Queued(f) == f \in Range(ready) \/ f \in Range(batch)
Parked(f) == OnTask(f) \/ OnFuture(f)

(***************************************************************************)
(* No list names a fiber twice, and no two tasks resume the same one.      *)
(***************************************************************************)
ListsOnce ==
    /\ NoDuplicates(ready) /\ NoDuplicates(batch)
    /\ \A g \in Fiber : NoDuplicates(futWaiters[g])
    /\ \A t, u \in Task : (waiters[t] = waiters[u] /\ waiters[t] # NoFiber) => t = u

\* A fiber is in at most one of the lists and tables.
Apart ==
    \A f \in Fiber :
      /\ cur = f => ~Queued(f) /\ ~Parked(f)
      /\ f \in Range(ready) => f \notin Range(batch)
      /\ Queued(f) => ~Parked(f)
      /\ OnTask(f) => ~OnFuture(f)

\* Exactly the unsettled fibers are in one of them.
UnsettledIsSomewhere ==
    \A f \in Fiber : fut[f] = "pending" <=> cur = f \/ Queued(f) \/ Parked(f)

(***************************************************************************)
(* await-future's loop variable agrees with the lists of waiters: who is   *)
(* in a list awaits that future and the future is unsettled; who awaits a  *)
(* future is in its list or finds it settled.                              *)
(***************************************************************************)
AimsAgree ==
    \A f \in Fiber :
      /\ \A g \in Fiber : f \in Range(futWaiters[g]) => aims[f] = g /\ fut[g] = "pending"
      /\ aims[f] # NoFiber =>
           f \in Range(futWaiters[aims[f]]) \/ fut[aims[f]] \in {"ok", "err"}

\* A posted completion is in the queue or in the table, once.
PostedOnce ==
    /\ NoDuplicates(cq)
    /\ \A t \in Task :
         /\ op[t] = "posted" <=> t \in Range(cq) \/ t \in completed
         /\ t \in Range(cq) => t \notin completed
         /\ (op[t] \in {"free", "handed"} \/ t \in completed) => waiters[t] = NoFiber

\* A completion that was handed over is with one fiber, which is queued to run.
HandedOnce ==
    /\ \A f \in Fiber : got[f] # NoTask => op[got[f]] = "handed" /\ Queued(f)
    /\ \A t \in Task : op[t] = "handed" => \E f \in Fiber : got[f] = t
    /\ \A f, g \in Fiber : (got[f] = got[g] /\ got[f] # NoTask) => f = g

(***************************************************************************)
(* The stages of scheduler-loop: only while a batch is run is there a      *)
(* current fiber or a rest of the batch; it blocks, and it ends, with      *)
(* nothing left to run.                                                    *)
(***************************************************************************)
LoopStages ==
    /\ at # "run" => cur = NoFiber /\ batch = <<>>
    /\ at = "wait" => TaskWaiting
    /\ at = "done" => ready = <<>> /\ ~TaskWaiting
    /\ outcome # "none" => at = "done"

IInv ==
    /\ TypeOK /\ ListsOnce /\ Apart /\ UnsettledIsSomewhere /\ AimsAgree
    /\ PostedOnce /\ HandedOnce /\ LoopStages

-----------------------------------------------------------------------------
(* The run queue. *)

\* enqueue-ready! of fibers that are not queued yet.
LEMMA EnqueueProperties ==
    ASSUME ready \in Seq(Fiber), NoDuplicates(ready),
           NEW items \in Seq(Fiber), NoDuplicates(items),
           \A x \in Range(items) : x \notin Range(ready)
    PROVE /\ Enqueue(items) \in Seq(Fiber)
          /\ NoDuplicates(Enqueue(items))
          /\ Range(Enqueue(items)) = Range(items) \cup Range(ready)
<1> DEFINE r == Reverse(items)
<1>1. r \in Seq(Fiber) /\ NoDuplicates(r) /\ Range(r) = Range(items)
  BY ReverseProperties
<1> HIDE DEF r
<1>2. r \o ready \in Seq(Fiber) /\ Range(r \o ready) = Range(r) \cup Range(ready)
  BY <1>1, ConcatProperties, RangeConcatenation
<1>3. NoDuplicates(r \o ready)
  BY <1>1, NoDuplicatesConcat
<1> QED
  BY <1>1, <1>2, <1>3 DEF r, Enqueue

\* A list of one fiber.
LEMMA OneFiber ==
    ASSUME NEW f \in Fiber
    PROVE <<f>> \in Seq(Fiber) /\ NoDuplicates(<<f>>) /\ Range(<<f>>) = {f}
<1>1. <<f>> \in Seq(Fiber) /\ DOMAIN <<f>> = {1} /\ <<f>>[1] = f
  OBVIOUS
<1> QED
  BY <1>1 DEF NoDuplicates, Range

\* enqueue-ready! of one fiber that is not queued yet.
LEMMA EnqueueOne ==
    ASSUME ready \in Seq(Fiber), NoDuplicates(ready), NEW f \in Fiber, f \notin Range(ready)
    PROVE /\ Enqueue(<<f>>) \in Seq(Fiber)
          /\ NoDuplicates(Enqueue(<<f>>))
          /\ Range(Enqueue(<<f>>)) = {f} \cup Range(ready)
<1> DEFINE s == <<f>>
<1>1. s \in Seq(Fiber) /\ NoDuplicates(s) /\ Range(s) = {f}
  BY OneFiber
<1> HIDE DEF s
<1>2. \A x \in Range(s) : x \notin Range(ready)
  BY <1>1
<1>3. Enqueue(s) \in Seq(Fiber) /\ NoDuplicates(Enqueue(s))
      /\ Range(Enqueue(s)) = Range(s) \cup Range(ready)
  BY <1>1, <1>2, EnqueueProperties
<1> QED
  BY <1>1, <1>3 DEF s

\* future-add-waiter!: one more fiber in front of a list it is not in.
LEMMA PushWaiter ==
    ASSUME NEW s \in Seq(Fiber), NoDuplicates(s), NEW f \in Fiber, f \notin Range(s)
    PROVE /\ <<f>> \o s \in Seq(Fiber)
          /\ NoDuplicates(<<f>> \o s)
          /\ Range(<<f>> \o s) = {f} \cup Range(s)
<1> DEFINE r == <<f>>
<1>1. r \in Seq(Fiber) /\ NoDuplicates(r) /\ Range(r) = {f}
  BY OneFiber
<1> HIDE DEF r
<1>2. r \o s \in Seq(Fiber) /\ Range(r \o s) = Range(r) \cup Range(s)
  BY <1>1, ConcatProperties, RangeConcatenation
<1>3. NoDuplicates(r \o s)
  BY <1>1, NoDuplicatesConcat
<1> QED
  BY <1>1, <1>2, <1>3 DEF r

\* A list with nothing in it.
LEMMA NoFibers ==
    NoDuplicates(<<>>) /\ Range(<<>>) = {} /\ <<>> \in Seq(Fiber)
  BY DEF NoDuplicates, Range

\* A fiber that runs is in none of the lists, and its scheduler runs a batch.
LEMMA CurrentFiber ==
    ASSUME IInv, NEW f \in Fiber, cur = f
    PROVE /\ at = "run" /\ outcome = "none" /\ f # NoFiber /\ cur # NoFiber
          /\ fut[f] = "pending" /\ got[f] = NoTask
          /\ f \notin Range(ready) /\ f \notin Range(batch)
          /\ ~OnTask(f) /\ ~OnFuture(f)
<1>1. f # NoFiber
  BY SchedulerAssumption
<1>2. at = "run" /\ outcome = "none"
  BY <1>1 DEF IInv, LoopStages
<1>3. fut[f] = "pending" /\ ~Queued(f) /\ ~Parked(f)
  BY DEF IInv, Apart, UnsettledIsSomewhere
<1>4. got[f] = NoTask
  BY <1>3 DEF IInv, HandedOnce
<1> QED
  BY <1>1, <1>2, <1>3, <1>4 DEF Queued, Parked

-----------------------------------------------------------------------------
(* One lemma for each action. *)

\* async queues a fiber that was nowhere.
LEMMA AsyncInv ==
    ASSUME IInv, NEW f \in Fiber, NEW g \in Fiber, Async(f, g)
    PROVE IInv'
<1>1. cur = f /\ at = "run" /\ outcome = "none" /\ cur # NoFiber
  BY CurrentFiber DEF Async, InBody
<1>2. fut[g] = "none" /\ cur # g /\ g \notin Range(ready) /\ g \notin Range(batch)
      /\ ~OnTask(g) /\ ~OnFuture(g)
  BY DEF IInv, UnsettledIsSomewhere, Async, Queued, Parked
<1>3. ready' \in Seq(Fiber) /\ NoDuplicates(ready') /\ Range(ready') = {g} \cup Range(ready)
  BY <1>2, EnqueueOne DEF IInv, TypeOK, ListsOnce, Async
<1>4. /\ fut' = [fut EXCEPT ![g] = "pending"]
      /\ UNCHANGED <<futWaiters, aims, got, batch, cur, waiters, completed, cq, op, submits, at, outcome>>
  BY DEF Async, tableVars
<1>5. TypeOK'
  BY <1>1, <1>2, <1>3, <1>4 DEF IInv, TypeOK
<1>6. ListsOnce'
  BY <1>1, <1>2, <1>3, <1>4 DEF IInv, TypeOK, ListsOnce
<1>7. Apart'
  BY <1>1, <1>2, <1>3, <1>4 DEF IInv, TypeOK, Apart, Queued, Parked, OnTask, OnFuture
<1>8. UnsettledIsSomewhere'
  BY <1>1, <1>2, <1>3, <1>4 DEF IInv, TypeOK, UnsettledIsSomewhere, Queued, Parked, OnTask, OnFuture
<1>9. AimsAgree'
  BY <1>1, <1>2, <1>3, <1>4 DEF IInv, TypeOK, AimsAgree
<1>10. PostedOnce'
  BY <1>1, <1>2, <1>3, <1>4 DEF IInv, TypeOK, PostedOnce
<1>11. HandedOnce'
  BY <1>1, <1>2, <1>3, <1>4 DEF IInv, TypeOK, HandedOnce, Queued
<1>12. LoopStages'
  BY <1>1, <1>2, <1>3, <1>4 DEF IInv, TypeOK, LoopStages, TaskWaiting
<1> QED
  BY <1>5, <1>6, <1>7, <1>8, <1>9, <1>10, <1>11, <1>12 DEF IInv

\* A submission takes a handle that is in no table.
LEMMA SubmitTaskInv ==
    ASSUME IInv, NEW f \in Fiber, NEW t \in Task, SubmitTask(f, t)
    PROVE IInv'
<1>1. op[t] = "free" /\ submits < MaxSubmits /\ submits' = submits + 1
  BY DEF SubmitTask
<1>2. /\ op' = [op EXCEPT ![t] = "inflight"]
      /\ UNCHANGED <<fut, futWaiters, aims, got, ready, batch, cur, waiters, completed, cq, at, outcome>>
  BY DEF SubmitTask, fiberVars, tableVars
<1>3. TypeOK'
  BY <1>1, <1>2, SchedulerAssumption DEF IInv, TypeOK
<1>4. ListsOnce'
  BY <1>1, <1>2 DEF IInv, TypeOK, ListsOnce
<1>5. Apart'
  BY <1>1, <1>2 DEF IInv, TypeOK, Apart, Queued, Parked, OnTask, OnFuture
<1>6. UnsettledIsSomewhere'
  BY <1>1, <1>2 DEF IInv, TypeOK, UnsettledIsSomewhere, Queued, Parked, OnTask, OnFuture
<1>7. AimsAgree'
  BY <1>1, <1>2 DEF IInv, TypeOK, AimsAgree
<1>8. PostedOnce'
  BY <1>1, <1>2 DEF IInv, TypeOK, PostedOnce
<1>9. HandedOnce'
  BY <1>1, <1>2 DEF IInv, TypeOK, HandedOnce, Queued
<1>10. LoopStages'
  BY <1>1, <1>2 DEF IInv, TypeOK, LoopStages, TaskWaiting
<1> QED
  BY <1>3, <1>4, <1>5, <1>6, <1>7, <1>8, <1>9, <1>10 DEF IInv

\* An await that finds its completion in the table frees the handle.
LEMMA AwaitTaskDoneInv ==
    ASSUME IInv, NEW f \in Fiber, NEW t \in Task, AwaitTaskDone(f, t)
    PROVE IInv'
<1>1. t \in completed /\ op[t] = "posted" /\ waiters[t] = NoFiber /\ t \notin Range(cq)
  BY DEF IInv, PostedOnce, AwaitTaskDone, Awaitable
<1>2. /\ op' = [op EXCEPT ![t] = "free"] /\ completed' = completed \ {t}
      /\ UNCHANGED <<fut, futWaiters, aims, got, ready, batch, cur, waiters, cq, submits, at, outcome>>
  BY DEF AwaitTaskDone, fiberVars, TaskFree, Claim
<1>3. TypeOK'
  BY <1>1, <1>2 DEF IInv, TypeOK
<1>4. ListsOnce'
  BY <1>1, <1>2 DEF IInv, TypeOK, ListsOnce
<1>5. Apart'
  BY <1>1, <1>2 DEF IInv, TypeOK, Apart, Queued, Parked, OnTask, OnFuture
<1>6. UnsettledIsSomewhere'
  BY <1>1, <1>2 DEF IInv, TypeOK, UnsettledIsSomewhere, Queued, Parked, OnTask, OnFuture
<1>7. AimsAgree'
  BY <1>1, <1>2 DEF IInv, TypeOK, AimsAgree
<1>8. PostedOnce'
  BY <1>1, <1>2 DEF IInv, TypeOK, PostedOnce
<1>9. HandedOnce'
  BY <1>1, <1>2 DEF IInv, TypeOK, HandedOnce, Queued
<1>10. LoopStages'
  BY <1>1, <1>2 DEF IInv, TypeOK, LoopStages, TaskWaiting
<1> QED
  BY <1>3, <1>4, <1>5, <1>6, <1>7, <1>8, <1>9, <1>10 DEF IInv

\* An await that parks is found by the completion.
LEMMA AwaitTaskParkInv ==
    ASSUME IInv, NEW f \in Fiber, NEW t \in Task, AwaitTaskPark(f, t)
    PROVE IInv'
<1>1. cur = f /\ at = "run" /\ outcome = "none" /\ f # NoFiber /\ fut[f] = "pending" /\ got[f] = NoTask
      /\ f \notin Range(ready) /\ f \notin Range(batch) /\ ~OnTask(f) /\ ~OnFuture(f)
  BY CurrentFiber DEF AwaitTaskPark, InBody
<1>2. op[t] \in {"inflight", "posted"} /\ waiters[t] = NoFiber /\ t \notin completed
  BY DEF AwaitTaskPark, Awaitable, NotDelivered
<1>3. /\ waiters' = [waiters EXCEPT ![t] = f] /\ cur' = NoFiber
      /\ UNCHANGED <<fut, futWaiters, aims, got, ready, batch, completed, cq, op, submits, at, outcome>>
  BY DEF AwaitTaskPark, fiberVars
<1>4. TypeOK'
  BY <1>1, <1>2, <1>3 DEF IInv, TypeOK
<1>5. ListsOnce'
  BY <1>1, <1>2, <1>3, SchedulerAssumption DEF IInv, TypeOK, ListsOnce, OnTask
<1>6. Apart'
  BY <1>1, <1>2, <1>3, SchedulerAssumption DEF IInv, TypeOK, Apart, Queued, Parked, OnTask, OnFuture
<1>7. UnsettledIsSomewhere'
  BY <1>1, <1>2, <1>3, SchedulerAssumption DEF IInv, TypeOK, UnsettledIsSomewhere, Queued, Parked, OnTask, OnFuture
<1>8. AimsAgree'
  BY <1>1, <1>2, <1>3 DEF IInv, TypeOK, AimsAgree
<1>9. PostedOnce'
  BY <1>1, <1>2, <1>3 DEF IInv, TypeOK, PostedOnce
<1>10. HandedOnce'
  BY <1>1, <1>2, <1>3 DEF IInv, TypeOK, HandedOnce, Queued
<1>11. LoopStages'
  BY <1>1, <1>2, <1>3 DEF IInv, TypeOK, LoopStages, TaskWaiting
<1> QED
  BY <1>4, <1>5, <1>6, <1>7, <1>8, <1>9, <1>10, <1>11 DEF IInv

\* An await of an unsettled future is in its list of waiters.
LEMMA AwaitFutureParkInv ==
    ASSUME IInv, NEW f \in Fiber, NEW g \in Fiber, AwaitFuturePark(f, g)
    PROVE IInv'
<1>1. cur = f /\ at = "run" /\ outcome = "none" /\ f # NoFiber /\ fut[f] = "pending"
      /\ f \notin Range(ready) /\ f \notin Range(batch) /\ ~OnTask(f)
      /\ \A h \in Fiber : f \notin Range(futWaiters[h])
  BY CurrentFiber DEF AwaitFuturePark, OnFuture
<1>2. /\ fut[g] = "pending"
      /\ aims' = [aims EXCEPT ![f] = g] /\ cur' = NoFiber
      /\ UNCHANGED <<fut, got, ready, batch, waiters, completed, cq, op, submits, at, outcome>>
  BY DEF AwaitFuturePark, tableVars
<1>3. /\ futWaiters' \in [Fiber -> Seq(Fiber)]
      /\ \A h \in Fiber : NoDuplicates(futWaiters'[h])
      /\ \A h \in Fiber : Range(futWaiters'[h]) =
           IF h = g THEN {f} \cup Range(futWaiters[h]) ELSE Range(futWaiters[h])
  <2> DEFINE s == <<f>> \o futWaiters[g]
  <2>1. s \in Seq(Fiber) /\ NoDuplicates(s) /\ Range(s) = {f} \cup Range(futWaiters[g])
    BY <1>1, PushWaiter DEF IInv, TypeOK, ListsOnce
  <2> HIDE DEF s
  <2>2. futWaiters' = [futWaiters EXCEPT ![g] = s]
    BY DEF AwaitFuturePark, s
  <2> QED
    BY <2>1, <2>2 DEF IInv, TypeOK, ListsOnce
<1>4. TypeOK'
  BY <1>1, <1>2, <1>3 DEF IInv, TypeOK
<1>5. ListsOnce'
  BY <1>1, <1>2, <1>3 DEF IInv, TypeOK, ListsOnce
<1>6. Apart'
  BY <1>1, <1>2, <1>3, SchedulerAssumption DEF IInv, TypeOK, Apart, Queued, Parked, OnTask, OnFuture
<1>7. UnsettledIsSomewhere'
  BY <1>1, <1>2, <1>3, SchedulerAssumption DEF IInv, TypeOK, UnsettledIsSomewhere, Queued, Parked, OnTask, OnFuture
<1>8. AimsAgree'
  <2> SUFFICES ASSUME NEW h \in Fiber
               PROVE /\ \A k \in Fiber : h \in Range(futWaiters'[k]) => aims'[h] = k /\ fut'[k] = "pending"
                     /\ aims'[h] # NoFiber =>
                          h \in Range(futWaiters'[aims'[h]]) \/ fut'[aims'[h]] \in {"ok", "err"}
    BY DEF AimsAgree
  <2>1. CASE h = f
    BY <1>1, <1>2, <1>3, <2>1 DEF IInv, TypeOK
  <2>2. CASE h # f
    <3>1. aims'[h] = aims[h] /\ aims[h] \in Fiber \cup {NoFiber} /\ fut' = fut
      BY <1>2, <2>2 DEF IInv, TypeOK
    <3>2. \A k \in Fiber : h \in Range(futWaiters'[k]) <=> h \in Range(futWaiters[k])
      BY <1>3, <2>2
    <3> QED
      BY <3>1, <3>2 DEF IInv, AimsAgree
  <2> QED
    BY <2>1, <2>2
<1>9. PostedOnce'
  BY <1>1, <1>2, <1>3 DEF IInv, TypeOK, PostedOnce
<1>10. HandedOnce'
  BY <1>1, <1>2, <1>3 DEF IInv, TypeOK, HandedOnce, Queued
<1>11. LoopStages'
  BY <1>1, <1>2, <1>3 DEF IInv, TypeOK, LoopStages, TaskWaiting
<1> QED
  BY <1>4, <1>5, <1>6, <1>7, <1>8, <1>9, <1>10, <1>11 DEF IInv

\* A resumed await-future returns or raises.
LEMMA AwaitFutureDoneInv ==
    ASSUME IInv, NEW f \in Fiber, AwaitFutureDone(f)
    PROVE IInv'
<1>1. \A h \in Fiber : f \notin Range(futWaiters[h])
  BY CurrentFiber DEF AwaitFutureDone, OnFuture
<1>2. /\ aims' = [aims EXCEPT ![f] = NoFiber]
      /\ UNCHANGED <<fut, futWaiters, got, ready, batch, cur, waiters, completed, cq, op, submits, at, outcome>>
  BY DEF AwaitFutureDone, tableVars
<1>3. TypeOK'
  BY <1>1, <1>2 DEF IInv, TypeOK
<1>4. ListsOnce'
  BY <1>1, <1>2 DEF IInv, TypeOK, ListsOnce
<1>5. Apart'
  BY <1>1, <1>2 DEF IInv, TypeOK, Apart, Queued, Parked, OnTask, OnFuture
<1>6. UnsettledIsSomewhere'
  BY <1>1, <1>2 DEF IInv, TypeOK, UnsettledIsSomewhere, Queued, Parked, OnTask, OnFuture
<1>7. AimsAgree'
  BY <1>1, <1>2 DEF IInv, TypeOK, AimsAgree
<1>8. PostedOnce'
  BY <1>1, <1>2 DEF IInv, TypeOK, PostedOnce
<1>9. HandedOnce'
  BY <1>1, <1>2 DEF IInv, TypeOK, HandedOnce, Queued
<1>10. LoopStages'
  BY <1>1, <1>2 DEF IInv, TypeOK, LoopStages, TaskWaiting
<1> QED
  BY <1>3, <1>4, <1>5, <1>6, <1>7, <1>8, <1>9, <1>10 DEF IInv

\* settle! moves the waiters of a future to the run queue and the fiber ends.
LEMMA FinishInv ==
    ASSUME IInv, NEW f \in Fiber, NEW result \in {"ok", "err"}, Finish(f, result)
    PROVE IInv'
<1>1. cur = f /\ at = "run" /\ outcome = "none" /\ f # NoFiber /\ fut[f] = "pending" /\ got[f] = NoTask
      /\ f \notin Range(ready) /\ f \notin Range(batch) /\ ~OnTask(f)
      /\ \A h \in Fiber : f \notin Range(futWaiters[h])
  BY CurrentFiber DEF Finish, InBody, OnFuture
<1>2. /\ fut' = [fut EXCEPT ![f] = result] /\ cur' = NoFiber
      /\ UNCHANGED <<aims, got, batch, waiters, completed, cq, op, submits, at, outcome>>
  BY DEF Finish, Settled, tableVars
<1>3. ready' \in Seq(Fiber) /\ NoDuplicates(ready')
      /\ Range(ready') = Range(futWaiters[f]) \cup Range(ready)
  <2>1. ready \in Seq(Fiber) /\ NoDuplicates(ready)
        /\ futWaiters[f] \in Seq(Fiber) /\ NoDuplicates(futWaiters[f])
    BY DEF IInv, TypeOK, ListsOnce
  <2>2. \A x \in Range(futWaiters[f]) : x \notin Range(ready)
    BY <2>1, RangeType DEF IInv, Apart, Queued, Parked, OnFuture
  <2> QED
    BY <2>1, <2>2, EnqueueProperties DEF Finish
<1>4. /\ futWaiters' \in [Fiber -> Seq(Fiber)]
      /\ \A h \in Fiber : NoDuplicates(futWaiters'[h])
      /\ \A h \in Fiber : Range(futWaiters'[h]) = IF h = f THEN {} ELSE Range(futWaiters[h])
  <2>1. futWaiters' = [futWaiters EXCEPT ![f] = <<>>]
    BY DEF Finish, WaitersCleared
  <2>2. \A h \in Fiber : futWaiters'[h] = IF h = f THEN <<>> ELSE futWaiters[h]
    BY <2>1 DEF IInv, TypeOK
  <2>3. futWaiters' \in [Fiber -> Seq(Fiber)]
    BY <2>1, NoFibers DEF IInv, TypeOK
  <2> QED
    BY <2>2, <2>3, NoFibers DEF IInv, ListsOnce
<1>5. TypeOK'
  BY <1>1, <1>2, <1>3, <1>4 DEF IInv, TypeOK
<1>6. ListsOnce'
  BY <1>1, <1>2, <1>3, <1>4 DEF IInv, TypeOK, ListsOnce
<1>7. Apart'
  <2> SUFFICES ASSUME NEW h \in Fiber
               PROVE /\ cur' = h => ~Queued(h)' /\ ~Parked(h)'
                     /\ h \in Range(ready') => h \notin Range(batch')
                     /\ Queued(h)' => ~Parked(h)'
                     /\ OnTask(h)' => ~OnFuture(h)'
    BY DEF Apart
  <2>1. cur' # h /\ (OnTask(h)' <=> OnTask(h)) /\ (h \in Range(batch') <=> h \in Range(batch))
    BY <1>2, SchedulerAssumption DEF OnTask
  <2>2. OnFuture(h)' <=> \E k \in Fiber \ {f} : h \in Range(futWaiters[k])
    BY <1>4 DEF OnFuture
  <2>3. h \in Range(ready') <=> h \in Range(futWaiters[f]) \/ h \in Range(ready)
    BY <1>3
  <2>4. /\ h \in Range(ready) => h \notin Range(batch)
        /\ Queued(h) => ~Parked(h)
        /\ OnTask(h) => ~OnFuture(h)
    BY DEF IInv, Apart
  <2>5. \A k \in Fiber : h \in Range(futWaiters[f]) /\ h \in Range(futWaiters[k]) => k = f
    BY DEF IInv, AimsAgree
  <2>6. OnFuture(h)' => OnFuture(h) /\ h \notin Range(futWaiters[f])
    BY <2>2, <2>5 DEF OnFuture
  <2>7. h \in Range(futWaiters[f]) => OnFuture(h)
    BY DEF OnFuture
  <2> QED
    BY <2>1, <2>3, <2>4, <2>6, <2>7 DEF Queued, Parked
<1>8. UnsettledIsSomewhere'
  <2> SUFFICES ASSUME NEW h \in Fiber
               PROVE fut'[h] = "pending" <=> cur' = h \/ Queued(h)' \/ Parked(h)'
    BY DEF UnsettledIsSomewhere
  <2>1. cur' # h /\ (OnTask(h)' <=> OnTask(h)) /\ (h \in Range(batch') <=> h \in Range(batch))
    BY <1>2, SchedulerAssumption DEF OnTask
  <2>2. OnFuture(h)' <=> \E k \in Fiber \ {f} : h \in Range(futWaiters[k])
    BY <1>4 DEF OnFuture
  <2>3. h \in Range(ready') <=> h \in Range(futWaiters[f]) \/ h \in Range(ready)
    BY <1>3
  <2>4. fut[h] = "pending" <=> cur = h \/ Queued(h) \/ Parked(h)
    BY DEF IInv, UnsettledIsSomewhere
  <2>5. CASE h = f
    <3>1. fut'[h] # "pending"
      BY <1>2, <2>5 DEF IInv, TypeOK
    <3> QED
      BY <1>1, <2>1, <2>2, <2>3, <2>5, <3>1 DEF Queued, Parked
  <2>6. CASE h # f
    <3>1. fut'[h] = fut[h]
      BY <1>2, <2>6 DEF IInv, TypeOK
    <3> QED
      BY <1>1, <2>1, <2>2, <2>3, <2>4, <2>6, <3>1 DEF Queued, Parked, OnFuture
  <2> QED
    BY <2>5, <2>6
<1>9. AimsAgree'
  BY <1>1, <1>2, <1>3, <1>4 DEF IInv, TypeOK, AimsAgree
<1>10. PostedOnce'
  BY <1>1, <1>2, <1>3, <1>4 DEF IInv, TypeOK, PostedOnce
<1>11. HandedOnce'
  BY <1>1, <1>2, <1>3, <1>4 DEF IInv, TypeOK, HandedOnce, Queued
<1>12. LoopStages'
  BY <1>1, <1>2, <1>3, <1>4 DEF IInv, TypeOK, LoopStages, TaskWaiting
<1> QED
  BY <1>5, <1>6, <1>7, <1>8, <1>9, <1>10, <1>11, <1>12 DEF IInv

\* The run queue becomes the batch.
LEMMA TakeBatchInv ==
    ASSUME IInv, TakeBatch
    PROVE IInv'
<1>1. at = "take" /\ batch = <<>> /\ cur = NoFiber /\ outcome = "none" /\ at' = "run" /\ ready' = <<>>
  BY DEF IInv, LoopStages, TakeBatch
<1>2. UNCHANGED <<fut, futWaiters, aims, got, cur, waiters, completed, cq, op, submits, outcome>>
  BY DEF TakeBatch, fiberVars, tableVars
<1>3. batch' \in Seq(Fiber) /\ NoDuplicates(batch') /\ Range(batch') = Range(ready)
  BY ReverseProperties DEF IInv, TypeOK, ListsOnce, TakeBatch, OldestFirst
<1>4. ready' \in Seq(Fiber) /\ NoDuplicates(ready') /\ Range(ready') = {} /\ Range(batch) = {}
  BY <1>1, NoFibers
<1>5. TypeOK'
  BY <1>1, <1>2, <1>3, <1>4 DEF IInv, TypeOK
<1>6. ListsOnce'
  BY <1>1, <1>2, <1>3, <1>4 DEF IInv, TypeOK, ListsOnce
<1>7. Apart'
  BY <1>1, <1>2, <1>3, <1>4 DEF IInv, TypeOK, Apart, Queued, Parked, OnTask, OnFuture
<1>8. UnsettledIsSomewhere'
  BY <1>1, <1>2, <1>3, <1>4 DEF IInv, TypeOK, UnsettledIsSomewhere, Queued, Parked, OnTask, OnFuture
<1>9. AimsAgree'
  BY <1>1, <1>2, <1>3, <1>4 DEF IInv, TypeOK, AimsAgree
<1>10. PostedOnce'
  BY <1>1, <1>2, <1>3, <1>4 DEF IInv, TypeOK, PostedOnce
<1>11. HandedOnce'
  BY <1>1, <1>2, <1>3, <1>4 DEF IInv, TypeOK, HandedOnce, Queued
<1>12. LoopStages'
  BY <1>1, <1>2, <1>3, <1>4 DEF IInv, TypeOK, LoopStages, TaskWaiting
<1> QED
  BY <1>5, <1>6, <1>7, <1>8, <1>9, <1>10, <1>11, <1>12 DEF IInv

\* run-fiber! takes the front of the batch and the result that was handed to it.
LEMMA RunFiberInv ==
    ASSUME IInv, RunFiber
    PROVE IInv'
<1>1. at = "run" /\ cur = NoFiber /\ batch # <<>> /\ outcome = "none"
  BY DEF IInv, LoopStages, RunFiber
<1>2. /\ Head(batch) \in Fiber /\ cur' = Head(batch) /\ Head(batch) # NoFiber
      /\ batch' \in Seq(Fiber) /\ NoDuplicates(batch') /\ Head(batch) \notin Range(batch')
      /\ Range(batch) = {Head(batch)} \cup Range(batch')
  BY <1>1, RangeTail, NoDuplicatesTail, SchedulerAssumption DEF IInv, TypeOK, ListsOnce, RunFiber
<1>3. /\ got' = [got EXCEPT ![Head(batch)] = NoTask]
      /\ op' = IF got[Head(batch)] = NoTask THEN op ELSE [op EXCEPT ![got[Head(batch)]] = "free"]
      /\ UNCHANGED <<fut, futWaiters, aims, ready, waiters, completed, cq, submits, at, outcome>>
  BY DEF RunFiber, fiberVars, tableVars, TaskFree
<1>4. TypeOK'
  BY <1>1, <1>2, <1>3 DEF IInv, TypeOK
<1>5. ListsOnce'
  BY <1>1, <1>2, <1>3 DEF IInv, TypeOK, ListsOnce
<1>6. Apart'
  BY <1>1, <1>2, <1>3 DEF IInv, TypeOK, Apart, Queued, Parked, OnTask, OnFuture
<1>7. UnsettledIsSomewhere'
  <2> SUFFICES ASSUME NEW h \in Fiber
               PROVE fut'[h] = "pending" <=> cur' = h \/ Queued(h)' \/ Parked(h)'
    BY DEF UnsettledIsSomewhere
  <2>1. fut' = fut /\ ready' = ready /\ (Parked(h)' <=> Parked(h))
    BY <1>3 DEF Parked, OnTask, OnFuture
  <2>2. h \in Range(batch) <=> h = cur' \/ h \in Range(batch')
    BY <1>2
  <2>3. fut[h] = "pending" <=> Queued(h) \/ Parked(h)
    BY <1>1, SchedulerAssumption DEF IInv, UnsettledIsSomewhere
  <2> QED
    BY <2>1, <2>2, <2>3 DEF Queued
<1>8. AimsAgree'
  BY <1>1, <1>2, <1>3 DEF IInv, TypeOK, AimsAgree
<1>9. PostedOnce'
  BY <1>1, <1>2, <1>3 DEF IInv, TypeOK, PostedOnce, HandedOnce
<1>10. HandedOnce'
  BY <1>1, <1>2, <1>3 DEF IInv, TypeOK, HandedOnce, Queued
<1>11. LoopStages'
  BY <1>1, <1>2, <1>3 DEF IInv, TypeOK, LoopStages, TaskWaiting
<1> QED
  BY <1>4, <1>5, <1>6, <1>7, <1>8, <1>9, <1>10, <1>11 DEF IInv

\* The batch left work behind.
LEMMA LoopAgainInv ==
    ASSUME IInv, LoopAgain
    PROVE IInv'
<1>1. at = "run" /\ cur = NoFiber /\ batch = <<>> /\ at' = "take"
  BY DEF LoopAgain, BatchOver
<1>2. UNCHANGED <<fut, futWaiters, aims, got, ready, batch, cur, waiters, completed, cq, op, submits, outcome>>
  BY DEF LoopAgain, fiberVars, tableVars
<1>3. TypeOK'
  BY <1>1, <1>2 DEF IInv, TypeOK
<1>4. ListsOnce'
  BY <1>1, <1>2 DEF IInv, TypeOK, ListsOnce
<1>5. Apart'
  BY <1>1, <1>2 DEF IInv, TypeOK, Apart, Queued, Parked, OnTask, OnFuture
<1>6. UnsettledIsSomewhere'
  BY <1>1, <1>2 DEF IInv, TypeOK, UnsettledIsSomewhere, Queued, Parked, OnTask, OnFuture
<1>7. AimsAgree'
  BY <1>1, <1>2 DEF IInv, TypeOK, AimsAgree
<1>8. PostedOnce'
  BY <1>1, <1>2 DEF IInv, TypeOK, PostedOnce
<1>9. HandedOnce'
  BY <1>1, <1>2 DEF IInv, TypeOK, HandedOnce, Queued
<1>10. LoopStages'
  BY <1>1, <1>2 DEF IInv, TypeOK, LoopStages, TaskWaiting
<1> QED
  BY <1>3, <1>4, <1>5, <1>6, <1>7, <1>8, <1>9, <1>10 DEF IInv

\* A scheduler that blocks has a fiber parked on a task.
LEMMA LoopBlockInv ==
    ASSUME IInv, LoopBlock
    PROVE IInv'
<1>1. at = "run" /\ cur = NoFiber /\ batch = <<>> /\ at' = "wait" /\ TaskWaiting
  BY DEF LoopBlock, BatchOver
<1>2. UNCHANGED <<fut, futWaiters, aims, got, ready, batch, cur, waiters, completed, cq, op, submits, outcome>>
  BY DEF LoopBlock, fiberVars, tableVars
<1>3. TypeOK'
  BY <1>1, <1>2 DEF IInv, TypeOK
<1>4. ListsOnce'
  BY <1>1, <1>2 DEF IInv, TypeOK, ListsOnce
<1>5. Apart'
  BY <1>1, <1>2 DEF IInv, TypeOK, Apart, Queued, Parked, OnTask, OnFuture
<1>6. UnsettledIsSomewhere'
  BY <1>1, <1>2 DEF IInv, TypeOK, UnsettledIsSomewhere, Queued, Parked, OnTask, OnFuture
<1>7. AimsAgree'
  BY <1>1, <1>2 DEF IInv, TypeOK, AimsAgree
<1>8. PostedOnce'
  BY <1>1, <1>2 DEF IInv, TypeOK, PostedOnce
<1>9. HandedOnce'
  BY <1>1, <1>2 DEF IInv, TypeOK, HandedOnce, Queued
<1>10. LoopStages'
  BY <1>1, <1>2 DEF IInv, TypeOK, LoopStages, TaskWaiting
<1> QED
  BY <1>3, <1>4, <1>5, <1>6, <1>7, <1>8, <1>9, <1>10 DEF IInv

\* The queue is empty: the next batch.
LEMMA PollOverInv ==
    ASSUME IInv, PollOver
    PROVE IInv'
<1>1. at = "poll" /\ at' = "take"
  BY DEF PollOver
<1>2. UNCHANGED <<fut, futWaiters, aims, got, ready, batch, cur, waiters, completed, cq, op, submits, outcome>>
  BY DEF PollOver, fiberVars, tableVars
<1>3. TypeOK'
  BY <1>1, <1>2 DEF IInv, TypeOK
<1>4. ListsOnce'
  BY <1>1, <1>2 DEF IInv, TypeOK, ListsOnce
<1>5. Apart'
  BY <1>1, <1>2 DEF IInv, TypeOK, Apart, Queued, Parked, OnTask, OnFuture
<1>6. UnsettledIsSomewhere'
  BY <1>1, <1>2 DEF IInv, TypeOK, UnsettledIsSomewhere, Queued, Parked, OnTask, OnFuture
<1>7. AimsAgree'
  BY <1>1, <1>2 DEF IInv, TypeOK, AimsAgree
<1>8. PostedOnce'
  BY <1>1, <1>2 DEF IInv, TypeOK, PostedOnce
<1>9. HandedOnce'
  BY <1>1, <1>2 DEF IInv, TypeOK, HandedOnce, Queued
<1>10. LoopStages'
  BY <1>1, <1>2 DEF IInv, TypeOK, LoopStages, TaskWaiting
<1> QED
  BY <1>3, <1>4, <1>5, <1>6, <1>7, <1>8, <1>9, <1>10 DEF IInv

\* run-async ends with nothing to run and nobody waiting for a task.
LEMMA LoopQuietInv ==
    ASSUME IInv, LoopQuiet
    PROVE IInv'
<1>1. at = "run" /\ cur = NoFiber /\ batch = <<>> /\ ready = <<>> /\ ~TaskWaiting /\ at' = "done"
  BY DEF LoopQuiet, BatchOver, NobodyWaits
<1>2. outcome' \in {"none", "ok", "err", "deadlock"}
  BY SchedulerAssumption DEF IInv, TypeOK, LoopQuiet
<1>3. UNCHANGED <<fut, futWaiters, aims, got, ready, batch, cur, waiters, completed, cq, op, submits>>
  BY DEF LoopQuiet, fiberVars, tableVars
<1>4. TypeOK'
  BY <1>1, <1>2, <1>3 DEF IInv, TypeOK
<1>5. ListsOnce'
  BY <1>1, <1>2, <1>3 DEF IInv, TypeOK, ListsOnce
<1>6. Apart'
  BY <1>1, <1>2, <1>3 DEF IInv, TypeOK, Apart, Queued, Parked, OnTask, OnFuture
<1>7. UnsettledIsSomewhere'
  BY <1>1, <1>2, <1>3 DEF IInv, TypeOK, UnsettledIsSomewhere, Queued, Parked, OnTask, OnFuture
<1>8. AimsAgree'
  BY <1>1, <1>2, <1>3 DEF IInv, TypeOK, AimsAgree
<1>9. PostedOnce'
  BY <1>1, <1>2, <1>3 DEF IInv, TypeOK, PostedOnce
<1>10. HandedOnce'
  BY <1>1, <1>2, <1>3 DEF IInv, TypeOK, HandedOnce, Queued
<1>11. LoopStages'
  BY <1>1, <1>2, <1>3 DEF IInv, TypeOK, LoopStages, TaskWaiting
<1> QED
  BY <1>4, <1>5, <1>6, <1>7, <1>8, <1>9, <1>10, <1>11 DEF IInv

\* A completion is posted for a handle that is in no table.
LEMMA CompleteInv ==
    ASSUME IInv, NEW t \in Task, Complete(t)
    PROVE IInv'
<1>1. op[t] = "inflight" /\ t \notin Range(cq) /\ t \notin completed
  BY DEF IInv, PostedOnce, Complete
<1>2. /\ op' = [op EXCEPT ![t] = "posted"]
      /\ UNCHANGED <<fut, futWaiters, aims, got, ready, batch, cur, waiters, completed, submits, at, outcome>>
  BY DEF Complete, fiberVars, tableVars
<1>3. cq' \in Seq(Task) /\ NoDuplicates(cq') /\ Range(cq') = {t} \cup Range(cq)
  BY <1>1, RangeAppend, AppendProperties, NoDuplicatesAppend DEF IInv, TypeOK, PostedOnce, Complete
<1>4. TypeOK'
  BY <1>1, <1>2, <1>3 DEF IInv, TypeOK
<1>5. ListsOnce'
  BY <1>1, <1>2, <1>3 DEF IInv, TypeOK, ListsOnce
<1>6. Apart'
  BY <1>1, <1>2, <1>3 DEF IInv, TypeOK, Apart, Queued, Parked, OnTask, OnFuture
<1>7. UnsettledIsSomewhere'
  BY <1>1, <1>2, <1>3 DEF IInv, TypeOK, UnsettledIsSomewhere, Queued, Parked, OnTask, OnFuture
<1>8. AimsAgree'
  BY <1>1, <1>2, <1>3 DEF IInv, TypeOK, AimsAgree
<1>9. PostedOnce'
  BY <1>1, <1>2, <1>3 DEF IInv, TypeOK, PostedOnce
<1>10. HandedOnce'
  BY <1>1, <1>2, <1>3 DEF IInv, TypeOK, HandedOnce, Queued
<1>11. LoopStages'
  BY <1>1, <1>2, <1>3 DEF IInv, TypeOK, LoopStages, TaskWaiting
<1> QED
  BY <1>4, <1>5, <1>6, <1>7, <1>8, <1>9, <1>10, <1>11 DEF IInv

\* deliver-one! hands the completion to the fiber that waits for it, or keeps it.
LEMMA DeliverInv ==
    ASSUME IInv, cq # <<>>, at \in {"wait", "poll"}, at' = "poll", cq' = Tail(cq),
           Deliver(Head(cq)), UNCHANGED <<fiberVars, batch, cur, submits, outcome>>
    PROVE IInv'
<1> DEFINE t == Head(cq)
           f == waiters[t]
<1>1. /\ t \in Task /\ cq' \in Seq(Task) /\ NoDuplicates(cq') /\ t \notin Range(cq')
      /\ Range(cq) = {t} \cup Range(cq')
      /\ op[t] = "posted" /\ t \notin completed
  BY RangeTail, NoDuplicatesTail DEF IInv, TypeOK, PostedOnce
<1>2. at # "run" /\ at # "done" /\ at' = "poll" /\ cur = NoFiber /\ batch = <<>> /\ outcome = "none"
      /\ UNCHANGED <<fut, futWaiters, aims, batch, cur, submits, outcome>>
  BY DEF IInv, LoopStages, fiberVars
<1>3. CASE f = NoFiber
  <2>1. completed' = completed \cup {t} /\ UNCHANGED <<waiters, ready, got, op>>
    BY <1>3 DEF Deliver, HasWaiter, Kept
  <2> HIDE DEF t
  <2>2. TypeOK'
    BY <1>1, <1>2, <1>3, <2>1 DEF IInv, TypeOK
  <2>3. ListsOnce'
    BY <1>1, <1>2, <1>3, <2>1 DEF IInv, TypeOK, ListsOnce
  <2>4. Apart'
    BY <1>1, <1>2, <1>3, <2>1 DEF IInv, TypeOK, Apart, Queued, Parked, OnTask, OnFuture
  <2>5. UnsettledIsSomewhere'
    BY <1>1, <1>2, <1>3, <2>1 DEF IInv, TypeOK, UnsettledIsSomewhere, Queued, Parked, OnTask, OnFuture
  <2>6. AimsAgree'
    BY <1>1, <1>2, <1>3, <2>1 DEF IInv, TypeOK, AimsAgree
  <2>7. PostedOnce'
    BY <1>1, <1>2, <1>3, <2>1, SMT DEF IInv, TypeOK, PostedOnce, f
  <2>8. HandedOnce'
    BY <1>1, <1>2, <1>3, <2>1 DEF IInv, TypeOK, HandedOnce, Queued
  <2>9. LoopStages'
    BY <1>1, <1>2, <1>3, <2>1 DEF IInv, TypeOK, LoopStages, TaskWaiting
  <2> QED
    BY <2>2, <2>3, <2>4, <2>5, <2>6, <2>7, <2>8, <2>9 DEF IInv
<1>4. CASE f # NoFiber
  <2>1. /\ f \in Fiber /\ OnTask(f) /\ fut[f] = "pending" /\ got[f] = NoTask
        /\ f \notin Range(ready) /\ f \notin Range(batch)
        /\ \A h \in Fiber : f \notin Range(futWaiters[h])
    <3>1. f \in Fiber /\ OnTask(f)
      BY <1>1, <1>4 DEF IInv, TypeOK, OnTask
    <3>2. fut[f] = "pending" /\ ~Queued(f) /\ ~OnFuture(f)
      BY <3>1 DEF IInv, Apart, UnsettledIsSomewhere, Parked
    <3> QED
      BY <3>1, <3>2 DEF IInv, HandedOnce, Queued, OnFuture
  <2>2. /\ waiters' = [waiters EXCEPT ![t] = NoFiber] /\ got' = [got EXCEPT ![f] = t]
        /\ op' = [op EXCEPT ![t] = "handed"] /\ completed' = completed
        /\ ready' = Enqueue(<<f>>)
    BY <1>4 DEF Deliver, HasWaiter
  <2>3. ready' \in Seq(Fiber) /\ NoDuplicates(ready') /\ Range(ready') = {f} \cup Range(ready)
    BY <2>1, <2>2, EnqueueOne DEF IInv, TypeOK, ListsOnce
  <2> HIDE DEF t
  <2>4. TypeOK'
    BY <1>1, <1>2, <1>4, <2>1, <2>2, <2>3 DEF IInv, TypeOK
  <2>5. ListsOnce'
    BY <1>1, <1>2, <1>4, <2>1, <2>2, <2>3 DEF IInv, TypeOK, ListsOnce
  <2>6. Apart'
    <3> SUFFICES ASSUME NEW h \in Fiber
                 PROVE /\ h \in Range(ready') => h \notin Range(batch')
                       /\ Queued(h)' => ~Parked(h)'
                       /\ OnTask(h)' => ~OnFuture(h)'
      BY <1>2, SchedulerAssumption DEF Apart
    <3>1. ~(h = f /\ OnTask(h)') /\ (OnTask(h)' => OnTask(h)) /\ (OnFuture(h)' <=> OnFuture(h))
      BY <1>1, <1>2, <1>4, <2>1, <2>2, SchedulerAssumption DEF IInv, TypeOK, ListsOnce, OnTask, OnFuture
    <3>2. h \in Range(ready') <=> h = f \/ h \in Range(ready)
      BY <2>3
    <3>3. batch' = batch
      BY <1>2
    <3>4. CASE h = f
      BY <2>1, <3>1, <3>3, <3>4 DEF Queued, Parked, OnFuture
    <3>5. CASE h # f
      BY <3>1, <3>2, <3>3, <3>5 DEF IInv, Apart, Queued, Parked
    <3> QED
      BY <3>4, <3>5
  <2>7. UnsettledIsSomewhere'
    BY <1>1, <1>2, <1>4, <2>1, <2>2, <2>3 DEF IInv, TypeOK, UnsettledIsSomewhere, Queued, Parked, OnTask, OnFuture
  <2>8. AimsAgree'
    BY <1>1, <1>2, <1>4, <2>1, <2>2, <2>3 DEF IInv, TypeOK, AimsAgree
  <2>9. PostedOnce'
    BY <1>1, <1>2, <1>4, <2>1, <2>2, <2>3 DEF IInv, TypeOK, PostedOnce
  <2>10. HandedOnce'
    <3>1. \A h \in Fiber : got'[h] = IF h = f THEN t ELSE got[h]
      BY <2>1, <2>2 DEF IInv, TypeOK
    <3>2. \A u \in Task : op'[u] = IF u = t THEN "handed" ELSE op[u]
      BY <1>1, <2>2 DEF IInv, TypeOK
    <3>3. \A h \in Fiber : got[h] # NoTask => got[h] \in Task \ {t} /\ op[got[h]] = "handed" /\ Queued(h)
      BY <1>1 DEF IInv, TypeOK, HandedOnce
    <3>4. t # NoTask
      BY <1>1, SchedulerAssumption
    <3>5. ASSUME NEW h \in Fiber, got'[h] # NoTask
          PROVE op'[got'[h]] = "handed" /\ Queued(h)'
      BY <1>1, <1>2, <2>3, <3>1, <3>2, <3>3, <3>5 DEF Queued
    <3>6. ASSUME NEW u \in Task, op'[u] = "handed"
          PROVE \E h \in Fiber : got'[h] = u
      <4>1. CASE u = t
        BY <2>1, <3>1, <4>1
      <4>2. CASE u # t
        <5>1. PICK h \in Fiber : got[h] = u
          BY <3>2, <3>6, <4>2 DEF IInv, HandedOnce
        <5>2. h # f
          BY <2>1, <5>1, SchedulerAssumption
        <5> QED
          BY <3>1, <5>1, <5>2
      <4> QED
        BY <4>1, <4>2
    <3>7. ASSUME NEW h \in Fiber, NEW k \in Fiber, got'[h] = got'[k], got'[h] # NoTask
          PROVE h = k
      BY <3>1, <3>3, <3>4, <3>7 DEF IInv, HandedOnce
    <3> QED
      BY <3>5, <3>6, <3>7 DEF HandedOnce
  <2>11. LoopStages'
    BY <1>1, <1>2, <1>4, <2>1, <2>2, <2>3 DEF IInv, TypeOK, LoopStages, TaskWaiting
  <2> QED
    BY <2>4, <2>5, <2>6, <2>7, <2>8, <2>9, <2>10, <2>11 DEF IInv
<1> QED
  BY <1>3, <1>4

\* Every step keeps the inductive invariant.
LEMMA NextInv ==
    ASSUME IInv, [Next]_vars
    PROVE IInv'
<1>1. CASE \E f \in Fiber : FiberStep(f)
  BY <1>1, AsyncInv, SubmitTaskInv, AwaitTaskDoneInv, AwaitTaskParkInv, AwaitFutureParkInv,
     AwaitFutureDoneInv, FinishInv DEF FiberStep
<1>2. CASE WaitOne
  BY <1>2, DeliverInv DEF WaitOne
<1>3. CASE TryPop
  BY <1>3, DeliverInv DEF TryPop
<1>4. CASE LoopStep
  BY <1>2, <1>3, <1>4, TakeBatchInv, RunFiberInv, LoopAgainInv, LoopBlockInv, LoopQuietInv,
     PollOverInv DEF LoopStep
<1>5. CASE \E t \in Task : Complete(t)
  BY <1>5, CompleteInv
<1>6. CASE UNCHANGED vars
  BY <1>6 DEF vars, fiberVars, tableVars, IInv, TypeOK, ListsOnce, Apart, UnsettledIsSomewhere, AimsAgree,
     PostedOnce, HandedOnce, LoopStages, Queued, Parked, OnTask, OnFuture, TaskWaiting
<1> QED
  BY <1>1, <1>4, <1>5, <1>6 DEF Next, SchedulerThread, Returned

\* run-async starts in the inductive invariant.
LEMMA InitInv ==
    ASSUME Init
    PROVE IInv
<1>1. ready = <<Root>> /\ ready \in Seq(Fiber) /\ NoDuplicates(ready) /\ Range(ready) = {Root}
  BY OneFiber, SchedulerAssumption DEF Init
<1>2. /\ NoDuplicates(batch) /\ Range(batch) = {} /\ batch = <<>>
      /\ NoDuplicates(cq) /\ Range(cq) = {} /\ cq = <<>>
      /\ \A g \in Fiber : NoDuplicates(futWaiters[g]) /\ Range(futWaiters[g]) = {}
  BY NoFibers DEF Init
<1>3. TypeOK
  BY <1>1, SchedulerAssumption DEF Init, TypeOK
<1>4. ListsOnce /\ Apart /\ UnsettledIsSomewhere
  BY <1>1, <1>2, SchedulerAssumption DEF Init, ListsOnce, Apart, UnsettledIsSomewhere,
     Queued, Parked, OnTask, OnFuture
<1>5. AimsAgree /\ PostedOnce /\ HandedOnce /\ LoopStages
  BY <1>1, <1>2 DEF Init, AimsAgree, PostedOnce, HandedOnce, LoopStages
<1> QED
  BY <1>3, <1>4, <1>5 DEF IInv

\* The inductive invariant holds in every state of run-async.
THEOREM Inductive == Spec => []IInv
<1>1. Init => IInv
  BY InitInv
<1>2. IInv /\ [Next]_vars => IInv'
  BY NextInv
<1> QED
  BY <1>1, <1>2, PTL DEF Spec

\* Every variable of the scheduler has its type.
THEOREM TypeCorrect == Spec => []TypeOK
<1>1. IInv => TypeOK
  BY DEF IInv
<1> QED
  BY <1>1, Inductive, PTL

-----------------------------------------------------------------------------
(* One place for each fiber and for each completion. *)

\* A list without duplicates has a value at one index or at none.
LEMMA OneIndex ==
    ASSUME NEW S, NEW s \in Seq(S), NoDuplicates(s), NEW x
    PROVE /\ x \in Range(s) => \E i : {j \in DOMAIN s : s[j] = x} = {i}
          /\ x \notin Range(s) => {j \in DOMAIN s : s[j] = x} = {}
<1>1. DOMAIN s = 1..Len(s)
  BY LenProperties
<1>2. ASSUME x \in Range(s)
      PROVE \E i : {j \in DOMAIN s : s[j] = x} = {i}
  <2>1. PICK i \in DOMAIN s : s[i] = x
    BY <1>1, <1>2, InRange
  <2>2. {j \in DOMAIN s : s[j] = x} = {i}
    BY <2>1 DEF NoDuplicates
  <2> QED
    BY <2>2
<1>3. ASSUME x \notin Range(s)
      PROVE {j \in DOMAIN s : s[j] = x} = {}
  BY <1>1, <1>3, InRange
<1> QED
  BY <1>2, <1>3

\* The lists and tables that Places counts, one by one.
LEMMA PlacesOf ==
    ASSUME IInv, NEW f \in Fiber
    PROVE /\ fut[f] = "pending" => \E p : Places(f) = {p}
          /\ fut[f] # "pending" => Places(f) = {}
<1> DEFINE C == IF cur = f THEN {<<"cur">>} ELSE {}
           B == {<<"batch", i>> : i \in {j \in DOMAIN batch : batch[j] = f}}
           R == {<<"ready", i>> : i \in {j \in DOMAIN ready : ready[j] = f}}
           T == {<<"task", t>> : t \in {u \in Task : waiters[u] = f}}
           At(g) == {<<"future", g, i>> :
                       i \in {j \in DOMAIN futWaiters[g] : futWaiters[g][j] = f}}
           F == UNION {At(g) : g \in Fiber}
<1>1. Places(f) = C \cup B \cup R \cup T \cup F
  BY DEF Places
<1>2. (cur = f => \E p : C = {p}) /\ (cur # f => C = {})
  OBVIOUS
<1>3. (f \in Range(batch) => \E p : B = {p}) /\ (f \notin Range(batch) => B = {})
  <2> DEFINE I == {j \in DOMAIN batch : batch[j] = f}
  <2>1. (f \in Range(batch) => \E i : I = {i}) /\ (f \notin Range(batch) => I = {})
    BY OneIndex DEF IInv, TypeOK, ListsOnce
  <2> HIDE DEF I
  <2>2. ASSUME NEW i, I = {i}
        PROVE {<<"batch", j>> : j \in I} = {<<"batch", i>>}
    BY <2>2
  <2>3. I = {} => {<<"batch", j>> : j \in I} = {}
    OBVIOUS
  <2> QED
    BY <2>1, <2>2, <2>3 DEF I
<1>4. (f \in Range(ready) => \E p : R = {p}) /\ (f \notin Range(ready) => R = {})
  <2> DEFINE I == {j \in DOMAIN ready : ready[j] = f}
  <2>1. (f \in Range(ready) => \E i : I = {i}) /\ (f \notin Range(ready) => I = {})
    BY OneIndex DEF IInv, TypeOK, ListsOnce
  <2> HIDE DEF I
  <2>2. ASSUME NEW i, I = {i}
        PROVE {<<"ready", j>> : j \in I} = {<<"ready", i>>}
    BY <2>2
  <2>3. I = {} => {<<"ready", j>> : j \in I} = {}
    OBVIOUS
  <2> QED
    BY <2>1, <2>2, <2>3 DEF I
<1>5. (OnTask(f) => \E p : T = {p}) /\ (~OnTask(f) => T = {})
  <2>1. ASSUME OnTask(f)
        PROVE \E p : T = {p}
    <3>1. PICK t \in Task : waiters[t] = f
      BY <2>1 DEF OnTask
    <3>2. {u \in Task : waiters[u] = f} = {t}
      BY <3>1, SchedulerAssumption DEF IInv, ListsOnce
    <3>3. T = {<<"task", t>>}
      BY <3>2
    <3> QED
      BY <3>3
  <2> QED
    BY <2>1 DEF OnTask
<1>6. (OnFuture(f) => \E p : F = {p}) /\ (~OnFuture(f) => F = {})
  <2>1. \A g \in Fiber : f \notin Range(futWaiters[g]) => At(g) = {}
    BY OneIndex DEF IInv, TypeOK, ListsOnce
  <2>2. ASSUME OnFuture(f)
        PROVE \E p : F = {p}
    <3>1. PICK g \in Fiber : f \in Range(futWaiters[g])
      BY <2>2 DEF OnFuture
    <3>2. \A h \in Fiber : h # g => At(h) = {}
      BY <2>1, <3>1 DEF IInv, AimsAgree
    <3>3. PICK i : {j \in DOMAIN futWaiters[g] : futWaiters[g][j] = f} = {i}
      <4> DEFINE s == futWaiters[g]
      <4>1. s \in Seq(Fiber) /\ NoDuplicates(s) /\ f \in Range(s)
        BY <3>1 DEF IInv, TypeOK, ListsOnce
      <4> HIDE DEF s
      <4>2. PICK i \in DOMAIN s : s[i] = f
        BY <4>1, InRange, LenProperties
      <4>3. {j \in DOMAIN s : s[j] = f} = {i}
        BY <4>1, <4>2 DEF NoDuplicates
      <4> QED
        BY <4>3 DEF s
    <3>4. At(g) = {<<"future", g, i>>}
      BY <3>3
    <3> HIDE DEF At
    <3>5. F = {<<"future", g, i>>}
      BY <3>2, <3>4
    <3> QED
      BY <3>5
  <2>3. ASSUME ~OnFuture(f)
        PROVE F = {}
    <3>1. \A g \in Fiber : At(g) = {}
      BY <2>1, <2>3 DEF OnFuture
    <3> HIDE DEF At
    <3> QED
      BY <3>1
  <2> QED
    BY <2>2, <2>3
<1>7. fut[f] = "pending" <=>
        cur = f \/ f \in Range(ready) \/ f \in Range(batch) \/ OnTask(f) \/ OnFuture(f)
  BY DEF IInv, UnsettledIsSomewhere, Queued, Parked
<1>8. /\ cur = f => f \notin Range(ready) /\ f \notin Range(batch) /\ ~OnTask(f) /\ ~OnFuture(f)
      /\ f \in Range(ready) => f \notin Range(batch) /\ ~OnTask(f) /\ ~OnFuture(f)
      /\ f \in Range(batch) => ~OnTask(f) /\ ~OnFuture(f)
      /\ OnTask(f) => ~OnFuture(f)
  BY DEF IInv, Apart, Queued, Parked
<1> HIDE DEF C, B, R, T, F
<1>9. fut[f] # "pending" => Places(f) = {}
  BY <1>1, <1>2, <1>3, <1>4, <1>5, <1>6, <1>7
<1>10. ASSUME fut[f] = "pending"
       PROVE \E p : Places(f) = {p}
  <2>1. CASE cur = f
    BY <1>1, <1>2, <1>3, <1>4, <1>5, <1>6, <1>8, <2>1
  <2>2. CASE f \in Range(ready)
    BY <1>1, <1>2, <1>3, <1>4, <1>5, <1>6, <1>8, <2>2
  <2>3. CASE f \in Range(batch)
    BY <1>1, <1>2, <1>3, <1>4, <1>5, <1>6, <1>8, <2>3
  <2>4. CASE OnTask(f)
    BY <1>1, <1>2, <1>3, <1>4, <1>5, <1>6, <1>8, <2>4
  <2>5. CASE OnFuture(f)
    BY <1>1, <1>2, <1>3, <1>4, <1>5, <1>6, <1>8, <2>5
  <2> QED
    BY <1>7, <1>10, <2>1, <2>2, <2>3, <2>4, <2>5
<1> QED
  BY <1>9, <1>10

(***************************************************************************)
(* A fiber that has not settled is in exactly one of: current-fiber, the   *)
(* batch, the run queue, the waiters of a task, the waiters of a future.   *)
(***************************************************************************)
THEOREM EveryFiberInOnePlace == Spec => []FiberInOnePlace
<1>1. ASSUME IInv
      PROVE FiberInOnePlace
  <2> SUFFICES ASSUME NEW f \in Fiber
               PROVE Cardinality(Places(f)) = (IF fut[f] = "pending" THEN 1 ELSE 0)
    BY DEF FiberInOnePlace
  <2>1. CASE fut[f] = "pending"
    <3>1. PICK p : Places(f) = {p}
      BY <1>1, <2>1, PlacesOf
    <3> QED
      BY <2>1, <3>1, FS_Singleton
  <2>2. CASE fut[f] # "pending"
    <3>1. Places(f) = {}
      BY <1>1, <2>2, PlacesOf
    <3> QED
      BY <2>2, <3>1, FS_EmptySet
  <2> QED
    BY <2>1, <2>2
<1> QED
  BY <1>1, Inductive, PTL

(***************************************************************************)
(* A posted completion is in the queue or in the completed table, once,    *)
(* and a freed handle is in no table that the next task at its address     *)
(* would meet.                                                             *)
(***************************************************************************)
THEOREM EveryHandleInOnePlace == Spec => []HandleInOnePlace
<1>1. ASSUME IInv
      PROVE HandleInOnePlace
  <2> SUFFICES ASSUME NEW t \in Task
      PROVE /\ Cardinality({i \in DOMAIN cq : cq[i] = t}) + (IF t \in completed THEN 1 ELSE 0)
                 = (IF op[t] = "posted" THEN 1 ELSE 0)
            /\ Cardinality({f \in Fiber : got[f] = t}) = (IF op[t] = "handed" THEN 1 ELSE 0)
            /\ (op[t] \in {"free", "handed"} \/ t \in completed) => waiters[t] = NoFiber
    BY DEF HandleInOnePlace
  <2> DEFINE Q == {i \in DOMAIN cq : cq[i] = t}
             G == {f \in Fiber : got[f] = t}
  <2>1. /\ op[t] = "posted" <=> t \in Range(cq) \/ t \in completed
        /\ t \in Range(cq) => t \notin completed
        /\ (op[t] \in {"free", "handed"} \/ t \in completed) => waiters[t] = NoFiber
    BY <1>1 DEF IInv, PostedOnce
  <2>2. (t \in Range(cq) => \E i : Q = {i}) /\ (t \notin Range(cq) => Q = {})
    BY <1>1, OneIndex DEF IInv, TypeOK, PostedOnce
  <2>3. (op[t] = "handed" => \E f : G = {f}) /\ (op[t] # "handed" => G = {})
    <3>1. ASSUME op[t] = "handed"
          PROVE \E f : G = {f}
      <4>1. PICK f \in Fiber : got[f] = t
        BY <1>1, <3>1 DEF IInv, HandedOnce
      <4>2. G = {f}
        BY <1>1, <4>1, SchedulerAssumption DEF IInv, HandedOnce
      <4> QED
        BY <4>2
    <3>2. ASSUME op[t] # "handed"
          PROVE G = {}
      BY <1>1, <3>2, SchedulerAssumption DEF IInv, HandedOnce
    <3> QED
      BY <3>1, <3>2
  <2> HIDE DEF Q, G
  <2>4. Cardinality(Q) = (IF t \in Range(cq) THEN 1 ELSE 0)
    BY <2>2, FS_Singleton, FS_EmptySet
  <2>5. Cardinality(G) = (IF op[t] = "handed" THEN 1 ELSE 0)
    BY <2>3, FS_Singleton, FS_EmptySet
  <2>6. Cardinality(Q) + (IF t \in completed THEN 1 ELSE 0) = (IF op[t] = "posted" THEN 1 ELSE 0)
    BY <2>1, <2>4
  <2> QED
    BY <2>1, <2>5, <2>6 DEF Q, G
<1> QED
  BY <1>1, Inductive, PTL

-----------------------------------------------------------------------------
(* Blocking, waking and ending. *)

\* rt_cq_wait is called only when a completion that somebody waits for will come.
THEOREM BlockedSchedulerIsServed == Spec => []BlockedIsServed
<1>1. ASSUME IInv, at = "wait"
      PROVE \E t \in Task : waiters[t] # NoFiber /\ (op[t] = "inflight" \/ t \in Range(cq))
  <2>1. PICK t \in Task : waiters[t] # NoFiber
    BY <1>1 DEF IInv, LoopStages, TaskWaiting
  <2>2. op[t] \in {"inflight", "posted"} /\ t \notin completed
    BY <1>1, <2>1 DEF IInv, TypeOK, PostedOnce
  <2> QED
    BY <1>1, <2>1, <2>2 DEF IInv, PostedOnce
<1>2. IInv => BlockedIsServed
  BY <1>1 DEF BlockedIsServed
<1> QED
  BY <1>2, Inductive, PTL

\* A fiber that is resumed in await-future finds the future settled.
THEOREM ResumedFindsSettled == Spec => []ResumedAwaitIsSettled
<1>1. ASSUME IInv
      PROVE ResumedAwaitIsSettled
  <2> SUFFICES ASSUME NEW f \in Fiber, aims[f] # NoFiber,
                      cur = f \/ f \in Range(ready) \cup Range(batch)
               PROVE fut[aims[f]] \in {"ok", "err"}
    BY DEF ResumedAwaitIsSettled
  <2>1. aims[f] \in Fiber
    BY <1>1 DEF IInv, TypeOK
  <2>2. ~OnFuture(f)
    BY <1>1 DEF IInv, Apart, Queued, Parked
  <2> QED
    BY <1>1, <2>1, <2>2 DEF IInv, AimsAgree, OnFuture
<1> QED
  BY <1>1, Inductive, PTL

(***************************************************************************)
(* "deadlock: root fiber never settled" is reported only when every        *)
(* unsettled fiber awaits an unsettled future.                             *)
(***************************************************************************)
THEOREM ReportedDeadlockIsReal == Spec => []DeadlockIsReal
<1>1. ASSUME IInv
      PROVE DeadlockIsReal
  <2> SUFFICES ASSUME outcome = "deadlock", NEW f \in Fiber, fut[f] = "pending"
               PROVE aims[f] # NoFiber /\ fut[aims[f]] = "pending"
    BY DEF DeadlockIsReal
  <2>1. cur = NoFiber /\ batch = <<>> /\ ready = <<>> /\ ~TaskWaiting
    BY <1>1 DEF IInv, LoopStages
  <2>2. cur # f /\ f # NoFiber /\ ~Queued(f)
    BY <2>1, NoFibers, SchedulerAssumption DEF Queued
  <2>3. ~OnTask(f)
    BY <2>1, <2>2 DEF OnTask, TaskWaiting
  <2>4. OnFuture(f)
    BY <1>1, <2>2, <2>3 DEF IInv, UnsettledIsSomewhere, Parked
  <2>5. PICK g \in Fiber : f \in Range(futWaiters[g])
    BY <2>4 DEF OnFuture
  <2>6. aims[f] = g /\ fut[g] = "pending"
    BY <1>1, <2>5 DEF IInv, AimsAgree
  <2> QED
    BY <2>6, SchedulerAssumption
<1> QED
  BY <1>1, Inductive, PTL

-----------------------------------------------------------------------------
(* The order in which fibers run. *)

\* The step that RunOrderFifo allows.
Ordered ==
    LET rest == IF cur = NoFiber /\ cur' # NoFiber THEN Tail(RunQueue) ELSE RunQueue
    IN /\ IsPrefix(rest, RunQueue')
       /\ (cur = NoFiber /\ cur' # NoFiber) => cur' = Head(RunQueue)

\* A step that starts no fiber and adds to the end of the run queue.
LEMMA GrowsAtEnd ==
    ASSUME TypeOK, NEW items \in Seq(Fiber), RunQueue' = RunQueue \o items,
           cur' = NoFiber \/ cur' = cur
    PROVE Ordered
<1>1. RunQueue \in Seq(Fiber)
  BY ReverseProperties, ConcatProperties DEF RunQueue, TypeOK
<1>2. IsPrefix(RunQueue, RunQueue')
  BY <1>1, PrefixOfConcat
<1> QED
  BY <1>2 DEF Ordered

\* A step that starts no fiber and leaves the run queue alone.
LEMMA StaysTheSame ==
    ASSUME TypeOK, RunQueue' = RunQueue, cur' = NoFiber \/ cur' = cur
    PROVE Ordered
<1>1. RunQueue \in Seq(Fiber)
  BY ReverseProperties, ConcatProperties DEF RunQueue, TypeOK
<1>2. IsPrefix(RunQueue, RunQueue')
  BY <1>1, PrefixOfConcat
<1> QED
  BY <1>2 DEF Ordered

\* enqueue-ready! adds to the end of the run queue.
LEMMA EnqueueIsLast ==
    ASSUME TypeOK, NEW items \in Seq(Fiber), ready' = Enqueue(items), batch' = batch
    PROVE RunQueue' = RunQueue \o items
<1>1. Reverse(ready') = Reverse(ready) \o items
  BY ReverseOfPush DEF TypeOK, Enqueue
<1>2. Reverse(ready) \in Seq(Fiber) /\ batch \in Seq(Fiber)
  BY ReverseProperties DEF TypeOK
<1>3. batch \o (Reverse(ready) \o items) = (batch \o Reverse(ready)) \o items
  BY <1>2, ConcatAssociative
<1> QED
  BY <1>1, <1>3 DEF RunQueue

\* Fibers run in the order they became ready, across batches.
THEOREM FibersRunInOrder == Spec => RunOrderFifo
<1>1. ASSUME IInv, [Next]_vars
      PROVE [Ordered]_vars
  <2>1. TypeOK
    BY <1>1 DEF IInv
  <2>2. ASSUME UNCHANGED <<ready, batch>>, cur' = NoFiber \/ cur' = cur
        PROVE Ordered
    BY <2>1, <2>2, StaysTheSame DEF RunQueue
  <2>3. ASSUME NEW items \in Seq(Fiber), ready' = Enqueue(items), batch' = batch,
               cur' = NoFiber \/ cur' = cur
        PROVE Ordered
    BY <2>1, <2>3, EnqueueIsLast, GrowsAtEnd
  <2>4. ASSUME NEW f \in Fiber, FiberStep(f)
        PROVE Ordered
    <3>1. ASSUME NEW g \in Fiber, Async(f, g)
          PROVE Ordered
      BY <2>3, <3>1, OneFiber DEF Async
    <3>2. ASSUME NEW result \in {"ok", "err"}, Finish(f, result)
          PROVE Ordered
      BY <2>1, <2>3, <3>2 DEF Finish, TypeOK
    <3>3. ASSUME NEW g \in Fiber, AwaitFuturePark(f, g)
          PROVE Ordered
      BY <2>2, <3>3 DEF AwaitFuturePark
    <3>4. ASSUME NEW t \in Task, SubmitTask(f, t) \/ AwaitTaskDone(f, t) \/ AwaitTaskPark(f, t)
          PROVE Ordered
      BY <2>2, <3>4 DEF SubmitTask, AwaitTaskDone, AwaitTaskPark
    <3>5. ASSUME AwaitFutureDone(f)
          PROVE Ordered
      BY <2>2, <3>5 DEF AwaitFutureDone
    <3> QED
      BY <2>4, <3>1, <3>2, <3>3, <3>4, <3>5 DEF FiberStep
  <2>5. ASSUME TakeBatch
        PROVE Ordered
    <3>1. batch = <<>> /\ batch' = Reverse(ready) /\ ready' = <<>> /\ cur' = cur
      BY <1>1, <2>5 DEF TakeBatch, OldestFirst, IInv, LoopStages
    <3>2. Reverse(ready) \in Seq(Fiber) /\ Reverse(<<>>) = <<>>
      BY <2>1, NoFibers, ReverseProperties DEF TypeOK
    <3>3. RunQueue = Reverse(ready) /\ RunQueue' = Reverse(ready)
      BY <3>1, <3>2, ConcatEmptySeq DEF RunQueue
    <3> QED
      BY <2>1, <3>1, <3>3, StaysTheSame
  <2>6. ASSUME RunFiber
        PROVE Ordered
    <3> DEFINE r == Reverse(ready)
    <3>1. batch # <<>> /\ cur = NoFiber /\ cur' = Head(batch) /\ batch' = Tail(batch) /\ ready' = ready
      BY <2>6 DEF RunFiber
    <3>2. r \in Seq(Fiber) /\ batch \in Seq(Fiber)
      BY <2>1, ReverseProperties DEF TypeOK
    <3>3. Head(batch \o r) = Head(batch) /\ Tail(batch \o r) = Tail(batch) \o r
          /\ Tail(batch) \in Seq(Fiber) /\ Head(batch) \in Fiber
      BY <3>1, <3>2, TakeFromFirst, HeadTailProperties
    <3>4. RunQueue' = Tail(RunQueue) /\ Head(RunQueue) = cur' /\ cur' # NoFiber
      BY <3>1, <3>3, SchedulerAssumption DEF RunQueue
    <3>5. Tail(batch) \o r \in Seq(Fiber)
      BY <3>2, <3>3, ConcatProperties
    <3>6. RunQueue' \in Seq(Fiber)
      BY <3>1, <3>5 DEF RunQueue
    <3>7. IsPrefix(Tail(RunQueue), RunQueue')
      BY <3>4, <3>6, PrefixOfConcat
    <3> QED
      BY <3>1, <3>4, <3>7 DEF Ordered
  <2>7. ASSUME LoopAgain \/ LoopBlock \/ LoopQuiet \/ PollOver
        PROVE Ordered
    BY <2>2, <2>7 DEF LoopAgain, LoopBlock, LoopQuiet, PollOver
  <2>8. ASSUME WaitOne \/ TryPop
        PROVE Ordered
    <3> DEFINE t == Head(cq)
    <3>1. t \in Task /\ Deliver(t) /\ batch' = batch /\ cur' = cur
      BY <2>1, <2>8, HeadTailProperties DEF WaitOne, TryPop, TypeOK
    <3> HIDE DEF t
    <3>2. CASE waiters[t] = NoFiber
      BY <2>2, <3>1, <3>2 DEF Deliver, HasWaiter
    <3>3. CASE waiters[t] # NoFiber
      <4>1. ready' = Enqueue(<<waiters[t]>>)
        BY <3>1, <3>3 DEF Deliver, HasWaiter
      <4>2. <<waiters[t]>> \in Seq(Fiber)
        BY <2>1, <3>1, <3>3 DEF TypeOK
      <4> QED
        BY <2>3, <3>1, <4>1, <4>2
    <3> QED
      BY <3>2, <3>3
  <2>9. ASSUME NEW t \in Task, Complete(t)
        PROVE Ordered
    BY <2>2, <2>9 DEF Complete
  <2> QED
    BY <1>1, <2>4, <2>5, <2>6, <2>7, <2>8, <2>9 DEF Next, SchedulerThread, LoopStep, Returned
<1>2. IInv /\ [Next]_vars => [Ordered]_vars
  BY <1>1
<1> QED
  BY <1>2, Inductive, PTL DEF Spec, RunOrderFifo, Ordered
=============================================================================
