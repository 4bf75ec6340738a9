------------------------ MODULE TaskCompletionProofs ------------------------
(***************************************************************************)
(* Proofs about TaskCompletion, for any finite set of tasks and any set of *)
(* queues.                                                                 *)
(***************************************************************************)
EXTENDS TaskCompletion, FiniteSetTheorems, TLAPS

(***************************************************************************)
(* How the fields of one task depend on each other.  The last conjunct is  *)
(* the heart of the argument: a task is reaped only after its handle was   *)
(* posted, so that a fiber cannot free it while Complete still uses it;    *)
(* only a thread that rt_await gave the task to can.                       *)
(***************************************************************************)
TaskFieldsAgree ==
    \A t \in Task :
      /\ stage[t] = "none" => mem[t] = "absent"
      /\ mem[t] = "absent" => stage[t] = "none" /\ awaiter[t] = "idle"
                             /\ cq[t] = NoQueue /\ ~reaped[t]
      /\ done[t] <=> stage[t] \in InComplete \cup {"finished", "wedged"}
      /\ stage[t] \in {"post", "qnotify", "release"} => cq[t] # NoQueue
      /\ mem[t] = "freed" => awaiter[t] = "has" \/ reaped[t]
      /\ awaiter[t] = "has" => done[t]
      /\ reaped[t] => stage[t] \in {"qnotify", "release", "finished"}

\* A thread inside WaitOne is the owner, and still holds its reference.
ReaderIsOwner == \A c \in Queue : reader[c] # "idle" => creator[c]

\* A queue that holds handles exists, and tasks are routed only to queues that
\* exist or existed.
QueuesInUseExist ==
    /\ \A c \in Queue : q[c] # <<>> => qmem[c] = "live"
    /\ \A t \in Task : cq[t] # NoQueue => qmem[cq[t]] # "absent"

\* What every other invariant rests on.
IInv ==
    /\ TypeOK
    /\ TaskFieldsAgree
    /\ ReaderIsOwner
    /\ QueuedHandlesValid
    /\ RefsExact
    /\ QueuesInUseExist

-----------------------------------------------------------------------------
(* The count of retainers. *)

\* A set of tasks is finite, and its cardinality is a natural number.
LEMMA RetainersFinite ==
    ASSUME NEW c
    PROVE /\ IsFiniteSet(Retainers(c))
          /\ Cardinality(Retainers(c)) \in Nat
  BY TaskAssumption, FS_Subset, FS_CardinalityType DEF Retainers

\* A task that holds a reference makes the count positive.
LEMMA RetainerCounts ==
    ASSUME NEW c, NEW t \in Retainers(c)
    PROVE Cardinality(Retainers(c)) > 0
<1>1. Retainers(c) # {}
  OBVIOUS
<1> QED
  BY <1>1, RetainersFinite, FS_EmptySet

-----------------------------------------------------------------------------

\* Before any task or queue exists IInv holds.
LEMMA InitIInv == Init => IInv
<1> SUFFICES ASSUME Init PROVE IInv
  OBVIOUS
<1>1. TypeOK
  BY DEF Init, TypeOK, Storage, Stage
<1>2. TaskFieldsAgree
  BY DEF Init, TaskFieldsAgree, InComplete
<1>3. ReaderIsOwner /\ QueuesInUseExist /\ QueuedHandlesValid
  BY DEF Init, ReaderIsOwner, QueuesInUseExist, QueuedHandlesValid
<1>4. RefsExact
  <2> SUFFICES ASSUME NEW c \in Queue
               PROVE /\ refs[c] = Cardinality(Retainers(c)) + CreatorRefs(c)
                     /\ qmem[c] = "live" <=> refs[c] > 0
    BY DEF RefsExact
  <2>1. Retainers(c) = {}
    BY DEF Init, Retainers, Retaining, InComplete
  <2> QED
    BY <2>1, FS_EmptySet DEF Init, CreatorRefs
<1> QED
  BY <1>1, <1>2, <1>3, <1>4 DEF IInv

-----------------------------------------------------------------------------
(* What the count says about one reference. *)

\* The creator's reference and a task's reference are counted: the queue is
\* live, and with both of them a Release is not the last one.
LEMMA CountedReferences ==
    ASSUME TypeOK, RefsExact, NEW c \in Queue
    PROVE /\ creator[c] => refs[c] >= 1 /\ qmem[c] = "live"
          /\ \A t \in Task : (cq[t] = c /\ stage[t] \in Retaining)
                             => refs[c] >= 1 /\ qmem[c] = "live"
          /\ \A t \in Task : (creator[c] /\ cq[t] = c /\ stage[t] \in Retaining)
                             => refs[c] >= 2
<1>1. Cardinality(Retainers(c)) \in Nat
  BY RetainersFinite
<1>2. ASSUME NEW t \in Task, cq[t] = c, stage[t] \in Retaining
      PROVE Cardinality(Retainers(c)) > 0
  <2>1. t \in Retainers(c)
    BY <1>2 DEF Retainers
  <2> QED
    BY <2>1, RetainerCounts
<1> QED
  BY <1>1, <1>2 DEF RefsExact, CreatorRefs

\* A step that leaves the queues' counters and the set of retainers alone.
LEMMA RefsFrame ==
    ASSUME RefsExact, UNCHANGED <<refs, qmem, creator>>,
           \A c \in Queue : Retainers(c)' = Retainers(c)
    PROVE RefsExact'
  BY DEF RefsExact, CreatorRefs

\* Release keeps the types of the queue's storage and contents.
LEMMA ReleaseTypes ==
    ASSUME TypeOK, NEW c \in Queue, Release(c)
    PROVE qmem' \in [Queue -> Storage] /\ q' \in [Queue -> Seq(Task)]
<1>1. CASE refs[c] = 1
  <2>1. <<>> \in Seq(Task) /\ "freed" \in Storage
    BY DEF Storage
  <2> QED
    BY <1>1, <2>1 DEF Release, TypeOK
<1>2. CASE refs[c] # 1
  BY <1>2 DEF Release, TypeOK
<1> QED
  BY <1>1, <1>2

\* Release empties the queue it deletes and no other; the task that Complete is
\* about to leave may be in it.
LEMMA ReleaseKeepsHandlesValid ==
    ASSUME TypeOK, QueuedHandlesValid, NEW c \in Queue, Release(c),
           UNCHANGED <<mem, cq, done, awaiter, reaped>>,
           \A u \in Task : \/ stage'[u] = stage[u]
                           \/ stage[u] = "release" /\ stage'[u] = "finished"
    PROVE QueuedHandlesValid'
<1> SUFFICES ASSUME NEW d \in Queue, NEW i \in DOMAIN q'[d]
             PROVE LET u == q'[d][i] IN
                     /\ done'[u] /\ cq'[u] = d /\ ~reaped'[u]
                     /\ stage'[u] \in {"qnotify", "release", "finished"}
                     /\ awaiter'[u] # "has" => mem'[u] = "live"
                     /\ \A j \in DOMAIN q'[d] : q'[d][j] = u => i = j
  BY DEF QueuedHandlesValid
<1>1. q'[d] = q[d] \/ q'[d] = <<>>
  <2>1. CASE refs[c] = 1
    BY <2>1 DEF Release, TypeOK
  <2>2. CASE refs[c] # 1
    BY <2>2 DEF Release
  <2> QED
    BY <2>1, <2>2
<1>2. q'[d] = q[d] /\ i \in DOMAIN q[d]
  BY <1>1
<1>3. q[d][i] \in Task
  BY <1>2 DEF TypeOK
<1> QED
  BY <1>2, <1>3 DEF QueuedHandlesValid

-----------------------------------------------------------------------------
(* One lemma per action. *)

\* rt_cq_create preserves IInv: the new queue counts its creator only.
LEMMA CqCreateInv ==
    ASSUME IInv, NEW c \in Queue, CqCreate(c)
    PROVE IInv'
<1> USE DEF IInv
<1>1. TypeOK'
  BY DEF CqCreate, taskVars, TypeOK, Storage
<1>2. TaskFieldsAgree'
  BY DEF CqCreate, taskVars, TaskFieldsAgree
<1>3. ReaderIsOwner'
  BY DEF CqCreate, ReaderIsOwner
<1>4. QueuedHandlesValid'
  BY DEF CqCreate, taskVars, QueuedHandlesValid
<1>5. RefsExact'
  <2> SUFFICES ASSUME NEW d \in Queue
               PROVE /\ refs'[d] = Cardinality(Retainers(d)') + CreatorRefs(d)'
                     /\ qmem'[d] = "live" <=> refs'[d] > 0
    BY DEF RefsExact
  <2>1. Retainers(d)' = Retainers(d)
    BY DEF CqCreate, taskVars, Retainers
  <2>2. Cardinality(Retainers(d)) \in Nat
    BY RetainersFinite
  <2>3. CASE d = c
    \* An absent queue has no references at all.
    <3>1. refs[c] = 0
      BY DEF CqCreate, TypeOK, RefsExact
    <3>2. Cardinality(Retainers(c)) = 0
      BY <2>2, <2>3, <3>1 DEF RefsExact, CreatorRefs
    <3>3. refs'[c] = 1 /\ creator'[c] /\ qmem'[c] = "live"
      BY DEF CqCreate, TypeOK
    <3> QED
      BY <2>1, <2>3, <3>2, <3>3 DEF CreatorRefs
  <2>4. CASE d # c
    BY <2>1, <2>4 DEF CqCreate, RefsExact, CreatorRefs
  <2> QED
    BY <2>3, <2>4
<1>6. QueuesInUseExist'
  BY DEF CqCreate, taskVars, QueuesInUseExist
<1> QED
  BY <1>1, <1>2, <1>3, <1>4, <1>5, <1>6

\* rt_cq_free preserves IInv: the owner is not in WaitOne, and the last
\* reference takes the handles in the queue with it.
LEMMA CqFreeInv ==
    ASSUME IInv, NEW c \in Queue, CqFree(c)
    PROVE IInv'
<1> USE DEF IInv
<1>1. TypeOK'
  <2>1. refs[c] >= 1
    BY CountedReferences DEF CqFree, OwnerRunning
  <2>2. refs[c] - 1 \in Nat
    BY <2>1 DEF TypeOK
  <2>3. refs' \in [Queue -> Nat]
    BY <2>2 DEF CqFree, Release, TypeOK
  <2>4. qmem' \in [Queue -> Storage] /\ q' \in [Queue -> Seq(Task)]
    BY ReleaseTypes DEF CqFree
  <2> QED
    BY <2>3, <2>4 DEF CqFree, taskVars, TypeOK
<1>2. TaskFieldsAgree'
  BY DEF CqFree, taskVars, TaskFieldsAgree
<1>3. ReaderIsOwner'
  BY DEF CqFree, OwnerRunning, ReaderIsOwner
<1>4. QueuedHandlesValid'
  BY ReleaseKeepsHandlesValid DEF CqFree, taskVars
<1>5. RefsExact'
  <2> SUFFICES ASSUME NEW d \in Queue
               PROVE /\ refs'[d] = Cardinality(Retainers(d)') + CreatorRefs(d)'
                     /\ qmem'[d] = "live" <=> refs'[d] > 0
    BY DEF RefsExact
  <2>1. Retainers(d)' = Retainers(d)
    BY DEF CqFree, taskVars, Retainers
  <2>2. Cardinality(Retainers(d)) \in Nat
    BY RetainersFinite
  <2>3. CASE d = c
    BY <2>1, <2>2, <2>3 DEF CqFree, OwnerRunning, Release, TypeOK, RefsExact, CreatorRefs
  <2>4. CASE d # c
    BY <2>1, <2>4 DEF CqFree, Release, TypeOK, RefsExact, CreatorRefs
  <2> QED
    BY <2>3, <2>4
<1>6. QueuesInUseExist'
  BY DEF CqFree, Release, taskVars, TypeOK, QueuesInUseExist
<1> QED
  BY <1>1, <1>2, <1>3, <1>4, <1>5, <1>6

\* new_task without a queue preserves IInv.
LEMMA NewTaskInv ==
    ASSUME IInv, NEW t \in Task, NewTask(t)
    PROVE IInv'
<1> USE DEF IInv
<1>1. TypeOK'
  BY DEF NewTask, queueVars, TypeOK, Storage, Stage
<1>2. TaskFieldsAgree'
  BY DEF NewTask, TypeOK, TaskFieldsAgree, InComplete
<1>3. ReaderIsOwner'
  BY DEF NewTask, queueVars, ReaderIsOwner
<1>4. QueuedHandlesValid'
  <2>1. \A d \in Queue : \A i \in DOMAIN q[d] : q[d][i] # t
    BY DEF NewTask, QueuedHandlesValid, TaskFieldsAgree
  <2> QED
    BY <2>1 DEF NewTask, queueVars, QueuedHandlesValid
<1>5. RefsExact'
  BY RefsFrame, QueueAssumption DEF NewTask, queueVars, TaskFieldsAgree, Retainers
<1>6. QueuesInUseExist'
  BY DEF NewTask, queueVars, QueuesInUseExist
<1> QED
  BY <1>1, <1>2, <1>3, <1>4, <1>5, <1>6

\* new_task with a queue preserves IInv: one more retainer, one more reference.
LEMMA NewQueuedTaskInv ==
    ASSUME IInv, NEW t \in Task, NEW c \in Queue, NewQueuedTask(t, c)
    PROVE IInv'
<1> USE DEF IInv
<1>1. TypeOK'
  BY DEF NewQueuedTask, Retain, TypeOK, Storage, Stage
<1>2. TaskFieldsAgree'
  BY DEF NewQueuedTask, TypeOK, TaskFieldsAgree, InComplete
<1>3. ReaderIsOwner'
  BY DEF NewQueuedTask, ReaderIsOwner
<1>4. QueuedHandlesValid'
  <2>1. \A d \in Queue : \A i \in DOMAIN q[d] : q[d][i] # t
    BY DEF NewQueuedTask, QueuedHandlesValid, TaskFieldsAgree
  <2> QED
    BY <2>1 DEF NewQueuedTask, QueuedHandlesValid
<1>5. RefsExact'
  <2> SUFFICES ASSUME NEW d \in Queue
               PROVE /\ refs'[d] = Cardinality(Retainers(d)') + CreatorRefs(d)'
                     /\ qmem'[d] = "live" <=> refs'[d] > 0
    BY DEF RefsExact
  <2>1. IsFiniteSet(Retainers(d)) /\ Cardinality(Retainers(d)) \in Nat
    BY RetainersFinite
  <2>2. stage[t] = "none" /\ qmem[c] = "live"
    BY CountedReferences DEF NewQueuedTask, OwnerRunning, TaskFieldsAgree
  <2>3. CASE d = c
    <3>1. Retainers(d)' = Retainers(d) \cup {t} /\ t \notin Retainers(d)
      BY <2>2, <2>3 DEF NewQueuedTask, TypeOK, Retainers, Retaining, InComplete
    <3>2. Cardinality(Retainers(d)') = Cardinality(Retainers(d)) + 1
      BY <2>1, <3>1, FS_AddElement
    <3> QED
      BY <2>1, <2>2, <2>3, <3>2 DEF NewQueuedTask, Retain, TypeOK, RefsExact, CreatorRefs
  <2>4. CASE d # c
    <3>1. Retainers(d)' = Retainers(d)
      BY <2>2, <2>4 DEF NewQueuedTask, TypeOK, Retainers, Retaining, InComplete
    <3> QED
      BY <3>1, <2>4 DEF NewQueuedTask, Retain, RefsExact, CreatorRefs
  <2> QED
    BY <2>3, <2>4
<1>6. QueuesInUseExist'
  BY CountedReferences DEF NewQueuedTask, OwnerRunning, QueuesInUseExist
<1> QED
  BY <1>1, <1>2, <1>3, <1>4, <1>5, <1>6

\* Submit preserves IInv: the task keeps its reference.
LEMMA SubmitInv ==
    ASSUME IInv, NEW t \in Task, Submit(t)
    PROVE IInv'
<1> USE DEF IInv
<1>1. TypeOK'
  BY DEF Submit, queueVars, TypeOK, Stage
<1>2. TaskFieldsAgree'
  BY DEF Submit, TaskFieldsAgree, InComplete
<1>3. ReaderIsOwner'
  BY DEF Submit, queueVars, ReaderIsOwner
<1>4. QueuedHandlesValid'
  BY DEF Submit, queueVars, QueuedHandlesValid
<1>5. RefsExact'
  BY RefsFrame DEF Submit, queueVars, Retainers, Retaining
<1>6. QueuesInUseExist'
  BY DEF Submit, queueVars, QueuesInUseExist
<1> QED
  BY <1>1, <1>2, <1>3, <1>4, <1>5, <1>6

\* Publishing done_ preserves IInv.
LEMMA CompletePublishInv ==
    ASSUME IInv, NEW t \in Task, CompletePublish(t)
    PROVE IInv'
<1> USE DEF IInv
<1>1. TypeOK'
  BY DEF CompletePublish, queueVars, TypeOK, Stage, InComplete
<1>2. TaskFieldsAgree'
  BY DEF CompletePublish, TypeOK, TaskFieldsAgree, InComplete
<1>3. ReaderIsOwner'
  BY DEF CompletePublish, queueVars, ReaderIsOwner
<1>4. QueuedHandlesValid'
  BY DEF CompletePublish, queueVars, QueuedHandlesValid
<1>5. RefsExact'
  BY RefsFrame DEF CompletePublish, queueVars, Retainers, InComplete, Retaining
<1>6. QueuesInUseExist'
  BY DEF CompletePublish, queueVars, QueuesInUseExist
<1> QED
  BY <1>1, <1>2, <1>3, <1>4, <1>5, <1>6

\* The notify_one of Complete preserves IInv: a task without a queue has no
\* reference to lose.
LEMMA CompleteNotifyInv ==
    ASSUME IInv, NEW t \in Task, CompleteNotify(t)
    PROVE IInv'
<1> USE DEF IInv
<1>1. TypeOK'
  BY DEF CompleteNotify, AfterNotify, queueVars, TypeOK, Stage, InComplete
<1>2. TaskFieldsAgree'
  BY DEF CompleteNotify, AfterNotify, TaskFieldsAgree, InComplete
<1>3. ReaderIsOwner'
  BY DEF CompleteNotify, queueVars, ReaderIsOwner
<1>4. QueuedHandlesValid'
  BY DEF CompleteNotify, queueVars, QueuedHandlesValid
<1>5. RefsExact'
  BY RefsFrame, QueueAssumption DEF CompleteNotify, AfterNotify, queueVars, Retainers, InComplete, Retaining
<1>6. QueuesInUseExist'
  BY DEF CompleteNotify, queueVars, QueuesInUseExist
<1> QED
  BY <1>1, <1>2, <1>3, <1>4, <1>5, <1>6

\* So does the notify_one on a freed task: a routed one keeps its reference,
\* also when the loop thread is stuck with it.
LEMMA CompleteNotifyFreedInv ==
    ASSUME IInv, NEW t \in Task, CompleteNotifyFreed(t)
    PROVE IInv'
<1> USE DEF IInv
<1>1. TypeOK'
  BY DEF CompleteNotifyFreed, AfterNotify, queueVars, TypeOK, Stage, InComplete
<1>2. TaskFieldsAgree'
  BY DEF CompleteNotifyFreed, AfterNotify, TaskFieldsAgree, InComplete
<1>3. ReaderIsOwner'
  BY DEF CompleteNotifyFreed, queueVars, ReaderIsOwner
<1>4. QueuedHandlesValid'
  BY DEF CompleteNotifyFreed, queueVars, QueuedHandlesValid
<1>5. RefsExact'
  <2>2. \A c \in Queue : Retainers(c)' = Retainers(c)
    BY QueueAssumption DEF CompleteNotifyFreed, AfterNotify, Retainers, Retaining, InComplete
  <2> QED
    BY <2>2, RefsFrame DEF CompleteNotifyFreed, queueVars
<1>6. QueuesInUseExist'
  BY DEF CompleteNotifyFreed, queueVars, QueuesInUseExist
<1> QED
  BY <1>1, <1>2, <1>3, <1>4, <1>5, <1>6

\* The push of Post preserves IInv: the queue exists and the handle is new to it.
LEMMA PostInv ==
    ASSUME IInv, NEW t \in Task, Post(t)
    PROVE IInv'
<1> USE DEF IInv
<1>1. TypeOK'
  BY DEF Post, TypeOK, TaskFieldsAgree, Stage, InComplete
<1>2. TaskFieldsAgree'
  BY DEF Post, TaskFieldsAgree, InComplete
<1>3. ReaderIsOwner'
  BY DEF Post, ReaderIsOwner
<1>4. QueuedHandlesValid'
  <2> SUFFICES ASSUME NEW d \in Queue, NEW i \in DOMAIN q'[d]
               PROVE LET u == q'[d][i] IN
                       /\ done'[u] /\ cq'[u] = d /\ ~reaped'[u]
                       /\ stage'[u] \in {"qnotify", "release", "finished"}
                       /\ awaiter'[u] # "has" => mem'[u] = "live"
                       /\ \A j \in DOMAIN q'[d] : q'[d][j] = u => i = j
    BY DEF QueuedHandlesValid
  <2>0. stage[t] = "post"
    BY DEF Post
  <2>1. cq[t] \in Queue /\ done[t] /\ ~reaped[t] /\ (awaiter[t] # "has" => mem[t] = "live")
    <3>1. cq[t] # NoQueue /\ done[t] /\ ~reaped[t] /\ mem[t] # "absent"
      BY <2>0 DEF TaskFieldsAgree, InComplete
    <3>2. awaiter[t] # "has" => mem[t] # "freed"
      BY <3>1 DEF TaskFieldsAgree
    <3> QED
      BY <3>1, <3>2 DEF TypeOK, Storage
  <2>2. CASE d # cq[t]
    <3>1. q'[d] = q[d]
      BY <2>2 DEF Post
    <3> QED
      BY <2>1, <2>2, <3>1 DEF Post, QueuedHandlesValid
  <2>3. CASE d = cq[t]
    <3>1. q'[d] = Append(q[d], t) /\ q[d] \in Seq(Task)
      BY <2>1, <2>3 DEF Post, TypeOK
    <3>2. \A k \in DOMAIN q[d] : q[d][k] # t
      BY DEF Post, QueuedHandlesValid
    <3>3. /\ DOMAIN q[d] = 1..Len(q[d]) /\ DOMAIN q'[d] = 1..(Len(q[d]) + 1)
          /\ Len(q[d]) \in Nat
          /\ \A k \in 1..Len(q[d]) : q'[d][k] = q[d][k]
          /\ q'[d][Len(q[d]) + 1] = t
      BY <3>1
    <3>4. CASE i = Len(q[d]) + 1
      BY <2>1, <2>3, <3>2, <3>3, <3>4 DEF Post, TypeOK
    <3>5. CASE i \in 1..Len(q[d])
      BY <2>1, <2>3, <3>2, <3>3, <3>5 DEF Post, QueuedHandlesValid
    <3> QED
      BY <3>3, <3>4, <3>5
  <2> QED
    BY <2>2, <2>3
<1>5. RefsExact'
  BY RefsFrame DEF Post, Retainers, InComplete, Retaining
<1>6. QueuesInUseExist'
  BY CountedReferences DEF Post, QueuesInUseExist, InComplete, Retaining
<1> QED
  BY <1>1, <1>2, <1>3, <1>4, <1>5, <1>6

\* The notify_one of Post preserves IInv.
LEMMA PostNotifyInv ==
    ASSUME IInv, NEW t \in Task, PostNotify(t)
    PROVE IInv'
<1> USE DEF IInv
<1>1. TypeOK'
  BY DEF PostNotify, TypeOK, Stage, InComplete
<1>2. TaskFieldsAgree'
  BY DEF PostNotify, TaskFieldsAgree, InComplete
<1>3. ReaderIsOwner'
  BY DEF PostNotify, ReaderIsOwner
<1>4. QueuedHandlesValid'
  BY DEF PostNotify, QueuedHandlesValid
<1>5. RefsExact'
  BY RefsFrame DEF PostNotify, Retainers, InComplete, Retaining
<1>6. QueuesInUseExist'
  BY DEF PostNotify, QueuesInUseExist
<1> QED
  BY <1>1, <1>2, <1>3, <1>4, <1>5, <1>6

\* The Release of Complete preserves IInv: one retainer and one reference less,
\* and the queue goes exactly with the last one.
LEMMA CompleteReleaseInv ==
    ASSUME IInv, NEW t \in Task, CompleteRelease(t)
    PROVE IInv'
<1> USE DEF IInv
<1>1. TypeOK'
  <2>1. cq[t] \in Queue /\ stage[t] \in Retaining
    BY DEF CompleteRelease, TypeOK, TaskFieldsAgree, Retaining, InComplete
  <2>2. refs[cq[t]] - 1 \in Nat
    BY <2>1, CountedReferences DEF TypeOK
  <2>3. refs' \in [Queue -> Nat]
    BY <2>1, <2>2 DEF CompleteRelease, Release, TypeOK
  <2>4. qmem' \in [Queue -> Storage] /\ q' \in [Queue -> Seq(Task)]
    BY <2>1, ReleaseTypes DEF CompleteRelease
  <2> QED
    BY <2>3, <2>4 DEF CompleteRelease, TypeOK, Stage
<1>2. TaskFieldsAgree'
  BY DEF CompleteRelease, TaskFieldsAgree, InComplete
<1>3. ReaderIsOwner'
  BY DEF CompleteRelease, ReaderIsOwner
<1>4. QueuedHandlesValid'
  <2>1. \A u \in Task : stage'[u] = stage[u] \/ (stage[u] = "release" /\ stage'[u] = "finished")
    BY DEF CompleteRelease
  <2>2. cq[t] \in Queue
    BY DEF CompleteRelease, TypeOK, TaskFieldsAgree
  <2> QED
    BY <2>1, <2>2, ReleaseKeepsHandlesValid DEF CompleteRelease
<1>5. RefsExact'
  <2> SUFFICES ASSUME NEW d \in Queue
               PROVE /\ refs'[d] = Cardinality(Retainers(d)') + CreatorRefs(d)'
                     /\ qmem'[d] = "live" <=> refs'[d] > 0
    BY DEF RefsExact
  <2>1. IsFiniteSet(Retainers(d)) /\ Cardinality(Retainers(d)) \in Nat
    BY RetainersFinite
  <2>2. cq[t] \in Queue /\ stage[t] = "release"
    BY DEF CompleteRelease, TypeOK, TaskFieldsAgree
  <2>3. CASE d = cq[t]
    <3>1. Retainers(d)' = Retainers(d) \ {t} /\ t \in Retainers(d)
      BY <2>2, <2>3 DEF CompleteRelease, TypeOK, Retainers, Retaining, InComplete
    <3>2. Cardinality(Retainers(d)') = Cardinality(Retainers(d)) - 1
      BY <2>1, <3>1, FS_RemoveElement
    <3> QED
      BY <2>1, <2>2, <2>3, <3>2 DEF CompleteRelease, Release, TypeOK, RefsExact, CreatorRefs
  <2>4. CASE d # cq[t]
    <3>1. Retainers(d)' = Retainers(d)
      BY <2>4 DEF CompleteRelease, Retainers
    <3> QED
      BY <3>1, <2>4 DEF CompleteRelease, Release, TypeOK, RefsExact, CreatorRefs
  <2> QED
    BY <2>3, <2>4
<1>6. QueuesInUseExist'
  BY DEF CompleteRelease, Release, TypeOK, QueuesInUseExist
<1> QED
  BY <1>1, <1>2, <1>3, <1>4, <1>5, <1>6

\* rt_await preserves IInv: only a completed task is handed out.
LEMMA AwaitInv ==
    ASSUME IInv, NEW t \in Task, Await(t)
    PROVE IInv'
<1> USE DEF IInv
<1>1. TypeOK'
  BY DEF Await, WaitCheck, queueVars, TypeOK
<1>2. TaskFieldsAgree'
  BY DEF Await, WaitCheck, TaskFieldsAgree
<1>3. ReaderIsOwner'
  BY DEF Await, queueVars, ReaderIsOwner
<1>4. QueuedHandlesValid'
  BY QueueAssumption DEF Await, WaitCheck, queueVars, QueuedHandlesValid
<1>5. RefsExact'
  BY RefsFrame DEF Await, queueVars, Retainers
<1>6. QueuesInUseExist'
  BY DEF Await, queueVars, QueuesInUseExist
<1> QED
  BY <1>1, <1>2, <1>3, <1>4, <1>5, <1>6

\* A spurious wakeup of an awaiter preserves IInv.
LEMMA SpuriousWakeInv ==
    ASSUME IInv, NEW t \in Task, SpuriousWake(t)
    PROVE IInv'
<1> USE DEF IInv
<1>1. TypeOK'
  BY DEF SpuriousWake, queueVars, TypeOK
<1>2. TaskFieldsAgree'
  BY DEF SpuriousWake, TaskFieldsAgree
<1>3. ReaderIsOwner'
  BY DEF SpuriousWake, queueVars, ReaderIsOwner
<1>4. QueuedHandlesValid'
  BY DEF SpuriousWake, queueVars, QueuedHandlesValid
<1>5. RefsExact'
  BY RefsFrame DEF SpuriousWake, queueVars, Retainers
<1>6. QueuesInUseExist'
  BY DEF SpuriousWake, queueVars, QueuesInUseExist
<1> QED
  BY <1>1, <1>2, <1>3, <1>4, <1>5, <1>6

\* The second look of Wait at done_ preserves IInv.
LEMMA WaitResumeInv ==
    ASSUME IInv, NEW t \in Task, WaitResume(t)
    PROVE IInv'
<1> USE DEF IInv
<1>1. TypeOK'
  BY DEF WaitResume, WaitCheck, queueVars, TypeOK
<1>2. TaskFieldsAgree'
  BY DEF WaitResume, WaitCheck, TaskFieldsAgree
<1>3. ReaderIsOwner'
  BY DEF WaitResume, queueVars, ReaderIsOwner
<1>4. QueuedHandlesValid'
  BY DEF WaitResume, WaitCheck, queueVars, QueuedHandlesValid
<1>5. RefsExact'
  BY RefsFrame DEF WaitResume, queueVars, Retainers
<1>6. QueuesInUseExist'
  BY DEF WaitResume, queueVars, QueuesInUseExist
<1> QED
  BY <1>1, <1>2, <1>3, <1>4, <1>5, <1>6

\* rt_task_free preserves IInv: a reaped task is in no queue any more, and one
\* that rt_await handed out is the exception that QueuedHandlesValid names.
LEMMA TaskFreeInv ==
    ASSUME IInv, NEW t \in Task, TaskFree(t)
    PROVE IInv'
<1> USE DEF IInv
<1>1. TypeOK'
  BY DEF TaskFree, queueVars, TypeOK, Storage
<1>2. TaskFieldsAgree'
  BY DEF TaskFree, TaskFieldsAgree
<1>3. ReaderIsOwner'
  BY DEF TaskFree, queueVars, ReaderIsOwner
<1>4. QueuedHandlesValid'
  BY DEF TaskFree, queueVars, QueuedHandlesValid
<1>5. RefsExact'
  BY RefsFrame DEF TaskFree, queueVars, Retainers
<1>6. QueuesInUseExist'
  BY DEF TaskFree, queueVars, QueuesInUseExist
<1> QED
  BY <1>1, <1>2, <1>3, <1>4, <1>5, <1>6

\* A spurious wakeup of the reader preserves IInv.
LEMMA CqSpuriousWakeInv ==
    ASSUME IInv, NEW c \in Queue, CqSpuriousWake(c)
    PROVE IInv'
<1> USE DEF IInv
<1>1. TypeOK'
  BY DEF CqSpuriousWake, taskVars, TypeOK
<1>2. TaskFieldsAgree'
  BY DEF CqSpuriousWake, taskVars, TaskFieldsAgree
<1>3. ReaderIsOwner'
  BY DEF CqSpuriousWake, ReaderIsOwner
<1>4. QueuedHandlesValid'
  BY DEF CqSpuriousWake, taskVars, QueuedHandlesValid
<1>5. RefsExact'
  BY RefsFrame DEF CqSpuriousWake, taskVars, Retainers
<1>6. QueuesInUseExist'
  BY DEF CqSpuriousWake, taskVars, QueuesInUseExist
<1> QED
  BY <1>1, <1>2, <1>3, <1>4, <1>5, <1>6

\* Taking the front handle out leaves the other handles as they were: it was
\* in the queue once, and in no other queue.
LEMMA PopKeepsHandlesValid ==
    ASSUME TypeOK, QueuedHandlesValid, NEW c \in Queue, q[c] # <<>>, Pop(c),
           UNCHANGED <<mem, cq, done, stage, awaiter>>
    PROVE QueuedHandlesValid'
<1> SUFFICES ASSUME NEW d \in Queue, NEW i \in DOMAIN q'[d]
             PROVE LET u == q'[d][i] IN
                     /\ done'[u] /\ cq'[u] = d /\ ~reaped'[u]
                     /\ stage'[u] \in {"qnotify", "release", "finished"}
                     /\ awaiter'[u] # "has" => mem'[u] = "live"
                     /\ \A j \in DOMAIN q'[d] : q'[d][j] = u => i = j
  BY DEF QueuedHandlesValid
<1>1. /\ q[c] \in Seq(Task) /\ Len(q[c]) \in Nat /\ Len(q[c]) > 0
      /\ Head(q[c]) = q[c][1] /\ 1 \in DOMAIN q[c]
  BY DEF TypeOK
<1>2. CASE d # c
  <2>1. q'[d] = q[d]
    BY <1>2 DEF Pop
  <2>2. q[d][i] # Head(q[c])
    BY <1>1, <1>2, <2>1 DEF QueuedHandlesValid
  <2> QED
    BY <1>1, <2>1, <2>2 DEF Pop, QueuedHandlesValid
<1>3. CASE d = c
  <2>1. /\ q'[d] = Tail(q[c]) /\ DOMAIN q'[d] = 1..(Len(q[c]) - 1)
        /\ \A k \in 1..(Len(q[c]) - 1) : q'[d][k] = q[c][k + 1]
    BY <1>1, <1>3 DEF Pop, TypeOK
  <2>2. i + 1 \in DOMAIN q[c] /\ q'[d][i] = q[c][i + 1] /\ i + 1 # 1
    BY <1>1, <2>1
  <2>3. q[c][i + 1] # Head(q[c])
    BY <1>1, <2>2 DEF QueuedHandlesValid
  <2>4. \A j \in DOMAIN q'[d] : q'[d][j] = q'[d][i] => i = j
    BY <1>1, <2>1, <2>2 DEF QueuedHandlesValid
  <2> QED
    BY <1>1, <1>3, <2>1, <2>2, <2>3, <2>4 DEF Pop, QueuedHandlesValid
<1> QED
  BY <1>2, <1>3

\* WaitOne's look at q_, with the pop or the sleep that follows, preserves IInv.
LEMMA WaitOneCheckInv ==
    ASSUME IInv, NEW c \in Queue, creator[c], WaitOneCheck(c)
    PROVE IInv'
<1> USE DEF IInv
<1>1. TypeOK'
  <2>1. CASE q[c] # <<>> /\ Pop(c)
    <3>1. Head(q[c]) \in Task /\ Tail(q[c]) \in Seq(Task)
      BY <2>1 DEF TypeOK
    <3> QED
      BY <2>1, <3>1 DEF WaitOneCheck, Pop, TypeOK
  <2>2. CASE q[c] = <<>> /\ UNCHANGED <<reaped, q>>
                         /\ reader' = [reader EXCEPT ![c] = "asleep"]
    BY <2>2 DEF WaitOneCheck, TypeOK
  <2> QED
    BY <2>1, <2>2 DEF WaitOneCheck
<1>2. TaskFieldsAgree'
  <2>1. CASE q[c] # <<>> /\ Pop(c)
    <3>1. /\ Head(q[c]) \in Task /\ mem[Head(q[c])] # "absent"
          /\ stage[Head(q[c])] \in {"qnotify", "release", "finished"}
      BY <2>1 DEF TypeOK, TaskFieldsAgree, QueuedHandlesValid
    <3> QED
      BY <2>1, <3>1 DEF WaitOneCheck, Pop, TypeOK, TaskFieldsAgree
  <2>2. CASE UNCHANGED <<reaped, q>>
    BY <2>2 DEF WaitOneCheck, TaskFieldsAgree
  <2> QED
    BY <2>1, <2>2 DEF WaitOneCheck
<1>3. ReaderIsOwner'
  BY DEF WaitOneCheck, Pop, TypeOK, ReaderIsOwner
<1>4. QueuedHandlesValid'
  <2>1. CASE q[c] # <<>> /\ Pop(c)
    BY <2>1, PopKeepsHandlesValid DEF WaitOneCheck
  <2>2. CASE UNCHANGED <<reaped, q>>
    BY <2>2 DEF WaitOneCheck, QueuedHandlesValid
  <2> QED
    BY <2>1, <2>2 DEF WaitOneCheck
<1>5. RefsExact'
  BY RefsFrame DEF WaitOneCheck, Retainers
<1>6. QueuesInUseExist'
  BY DEF WaitOneCheck, Pop, TypeOK, QueuesInUseExist
<1> QED
  BY <1>1, <1>2, <1>3, <1>4, <1>5, <1>6

\* TryPop preserves IInv.
LEMMA TryPopInv ==
    ASSUME IInv, NEW c \in Queue, TryPop(c)
    PROVE IInv'
<1> USE DEF IInv
<1>1. TypeOK'
  BY DEF TryPop, Pop, TypeOK
<1>2. TaskFieldsAgree'
  <2>1. /\ Head(q[c]) \in Task /\ mem[Head(q[c])] # "absent"
        /\ stage[Head(q[c])] \in {"qnotify", "release", "finished"}
    BY DEF TryPop, TypeOK, TaskFieldsAgree, QueuedHandlesValid
  <2> QED
    BY <2>1 DEF TryPop, Pop, TypeOK, TaskFieldsAgree
<1>3. ReaderIsOwner'
  BY DEF TryPop, Pop, ReaderIsOwner
<1>4. QueuedHandlesValid'
  BY PopKeepsHandlesValid DEF TryPop
<1>5. RefsExact'
  BY RefsFrame DEF TryPop, Retainers
<1>6. QueuesInUseExist'
  BY DEF TryPop, Pop, QueuesInUseExist
<1> QED
  BY <1>1, <1>2, <1>3, <1>4, <1>5, <1>6

-----------------------------------------------------------------------------

\* Every step of the threads preserves IInv.
LEMMA StepIInv == IInv /\ [Next]_vars => IInv'
<1> SUFFICES ASSUME IInv, [Next]_vars PROVE IInv'
  OBVIOUS
<1>1. CASE UNCHANGED vars
  <2> USE <1>1 DEF vars, taskVars, queueVars, IInv
  <2>1. TypeOK' /\ TaskFieldsAgree'
    BY DEF TypeOK, TaskFieldsAgree
  <2>2. ReaderIsOwner' /\ QueuedHandlesValid' /\ QueuesInUseExist'
    BY DEF ReaderIsOwner, QueuedHandlesValid, QueuesInUseExist
  <2>3. RefsExact'
    BY RefsFrame DEF Retainers
  <2> QED
    BY <2>1, <2>2, <2>3
<1>2. CASE Quiescent
  BY <1>1, <1>2 DEF Quiescent
<1>3. ASSUME NEW c \in Queue,
             \/ CqCreate(c) \/ CqFree(c) \/ CqSpuriousWake(c) \/ TryPop(c)
             \/ \E t \in Task : NewQueuedTask(t, c)
      PROVE IInv'
  BY <1>3, CqCreateInv, CqFreeInv, CqSpuriousWakeInv, TryPopInv, NewQueuedTaskInv
<1>4. ASSUME NEW c \in Queue, WaitOne(c) \/ WaitOneResume(c)
      PROVE IInv'
  <2>1. creator[c] /\ WaitOneCheck(c)
    BY <1>4 DEF WaitOne, WaitOneResume, OwnerRunning, IInv, ReaderIsOwner
  <2> QED
    BY <2>1, WaitOneCheckInv
<1>5. ASSUME NEW t \in Task, NewTask(t) \/ Submit(t) \/ LoopStep(t)
      PROVE IInv'
  BY <1>5, NewTaskInv, SubmitInv, CompletePublishInv, CompleteNotifyInv,
     CompleteNotifyFreedInv, PostInv, PostNotifyInv, CompleteReleaseInv DEF LoopStep
<1>6. ASSUME NEW t \in Task, Await(t) \/ SpuriousWake(t) \/ WaitResume(t) \/ TaskFree(t)
      PROVE IInv'
  BY <1>6, AwaitInv, SpuriousWakeInv, WaitResumeInv, TaskFreeInv
<1> QED
  BY <1>1, <1>2, <1>3, <1>4, <1>5, <1>6 DEF Next

\* IInv holds in every reachable state.
THEOREM Inductive == Spec => []IInv
  BY InitIInv, StepIInv, PTL DEF Spec

\* Type correctness.
THEOREM TypeCorrect == Spec => []TypeOK
<1>1. IInv => TypeOK
  BY DEF IInv
<1> QED
  BY <1>1, Inductive, PTL

\* The reference count of a completion queue is exact in every interleaving of
\* new_task, Complete and rt_cq_free.
THEOREM RefcountExact == Spec => []RefsExact
<1>1. IInv => RefsExact
  BY DEF IInv
<1> QED
  BY <1>1, Inductive, PTL

\* The loop thread and the owner never use a deleted completion queue.
THEOREM QueueNeverDangles == Spec => []QueueLiveWhenUsed
<1>1. IInv => QueueLiveWhenUsed
  <2> SUFFICES ASSUME IInv PROVE QueueLiveWhenUsed
    OBVIOUS
  <2>1. ASSUME NEW t \in Task, cq[t] # NoQueue, stage[t] \in Retaining
        PROVE qmem[cq[t]] = "live"
    <3>1. cq[t] \in Queue
      BY <2>1 DEF IInv, TypeOK
    <3> QED
      BY <2>1, <3>1, CountedReferences DEF IInv
  <2>2. ASSUME NEW c \in Queue, creator[c] \/ reader[c] # "idle" \/ q[c] # <<>>
        PROVE qmem[c] = "live"
    <3>1. CASE creator[c] \/ reader[c] # "idle"
      BY <3>1, CountedReferences DEF IInv, ReaderIsOwner
    <3>2. CASE q[c] # <<>>
      BY <3>2 DEF IInv, QueuesInUseExist
    <3> QED
      BY <2>2, <3>1, <3>2
  <2> QED
    BY <2>1, <2>2 DEF QueueLiveWhenUsed
<1> QED
  BY <1>1, Inductive, PTL

\* What rt_cq_wait and rt_cq_try_pop return is a completed task, handed out once,
\* and live unless a blocking rt_await was given the same task.  The exception
\* is needed: rt_await does not look at cq, and TaskCompletionRouted.cfg shows
\* the dangling handle.
THEOREM PoppedHandleValid == Spec => []QueuedHandlesValid
<1>1. IInv => QueuedHandlesValid
  BY DEF IInv
<1> QED
  BY <1>1, Inductive, PTL

\* rt_task_free never precedes done_; of a task that its queue handed out it
\* never precedes the last access of Complete either.
THEOREM FreeAfterUse == Spec => []HandedOutAfterUse
<1>1. IInv => HandedOutAfterUse
  BY DEF IInv, HandedOutAfterUse, TaskFieldsAgree, InComplete
<1> QED
  BY <1>1, Inductive, PTL

-----------------------------------------------------------------------------
(* No lost wakeup. *)

\* No step of the loop thread or of an awaiter leaves a sleeper without the
\* notify_one that is due to it.
LEMMA TaskStepKeepsWakeup ==
    ASSUME IInv, NoLostWakeup, NEW t \in Task,
           \/ NewTask(t) \/ Submit(t) \/ LoopStep(t)
           \/ Await(t) \/ SpuriousWake(t) \/ WaitResume(t) \/ TaskFree(t)
    PROVE NoLostWakeup'
<1> USE DEF IInv
<1>1. CASE NewTask(t)
  BY <1>1 DEF NewTask, queueVars, NoLostWakeup, TaskFieldsAgree
<1>2. CASE Submit(t)
  BY <1>2 DEF Submit, queueVars, NoLostWakeup
<1>3. CASE CompletePublish(t)
  BY <1>3 DEF CompletePublish, queueVars, TypeOK, NoLostWakeup
<1>4. CASE CompleteNotify(t)
  BY <1>4 DEF CompleteNotify, queueVars, TypeOK, NoLostWakeup
<1>5. CASE CompleteNotifyFreed(t)
  BY <1>5 DEF CompleteNotifyFreed, queueVars, NoLostWakeup, TaskFieldsAgree
<1>6. CASE Post(t)
  BY <1>6 DEF Post, TypeOK, NoLostWakeup
<1>7. CASE PostNotify(t)
  BY <1>7 DEF PostNotify, TypeOK, NoLostWakeup
<1>8. CASE CompleteRelease(t)
  BY <1>8 DEF CompleteRelease, Release, TypeOK, NoLostWakeup
<1>9. CASE Await(t)
  BY <1>9 DEF Await, WaitCheck, queueVars, NoLostWakeup
<1>10. CASE SpuriousWake(t)
  BY <1>10 DEF SpuriousWake, queueVars, NoLostWakeup
<1>11. CASE WaitResume(t)
  BY <1>11 DEF WaitResume, WaitCheck, queueVars, NoLostWakeup
<1>12. CASE TaskFree(t)
  BY <1>12 DEF TaskFree, queueVars, NoLostWakeup
<1> QED
  BY <1>1, <1>2, <1>3, <1>4, <1>5, <1>6, <1>7, <1>8, <1>9, <1>10, <1>11, <1>12 DEF LoopStep

\* Neither does a step of a queue's owner.
LEMMA QueueStepKeepsWakeup ==
    ASSUME IInv, NoLostWakeup, NEW c \in Queue,
           \/ CqCreate(c) \/ CqFree(c) \/ CqSpuriousWake(c) \/ TryPop(c) \/ WaitOneCheck(c)
           \/ \E t \in Task : NewQueuedTask(t, c)
    PROVE NoLostWakeup'
<1> USE DEF IInv
<1>1. CASE CqCreate(c)
  BY <1>1 DEF CqCreate, taskVars, NoLostWakeup
<1>2. CASE CqFree(c)
  BY <1>2 DEF CqFree, Release, taskVars, TypeOK, NoLostWakeup
<1>3. CASE CqSpuriousWake(c)
  BY <1>3 DEF CqSpuriousWake, taskVars, NoLostWakeup
<1>4. ASSUME q[c] # <<>>, Pop(c), UNCHANGED <<mem, cq, done, stage, awaiter>> PROVE NoLostWakeup'
  BY <1>4 DEF Pop, NoLostWakeup
<1>5. CASE TryPop(c)
  BY <1>4, <1>5 DEF TryPop
<1>6. CASE WaitOneCheck(c)
  <2>1. CASE q[c] = <<>> /\ UNCHANGED <<reaped, q>>
                         /\ reader' = [reader EXCEPT ![c] = "asleep"]
    BY <1>6, <2>1 DEF WaitOneCheck, NoLostWakeup
  <2> QED
    BY <1>4, <1>6, <2>1 DEF WaitOneCheck
<1>7. ASSUME NEW t \in Task, NewQueuedTask(t, c) PROVE NoLostWakeup'
  BY <1>7 DEF NewQueuedTask, NoLostWakeup, TaskFieldsAgree
<1> QED
  BY <1>1, <1>2, <1>3, <1>5, <1>6, <1>7

\* Neither a blocked rt_await nor a blocked rt_cq_wait misses its notify_one.
THEOREM WakeupNeverLost == Spec => []NoLostWakeup
<1>1. Init => NoLostWakeup
  BY DEF Init, NoLostWakeup
<1>2. IInv /\ NoLostWakeup /\ [Next]_vars => NoLostWakeup'
  <2> SUFFICES ASSUME IInv, NoLostWakeup, [Next]_vars PROVE NoLostWakeup'
    OBVIOUS
  <2>1. CASE UNCHANGED vars \/ Quiescent
    BY <2>1 DEF Quiescent, vars, taskVars, queueVars, NoLostWakeup
  <2>2. CASE Next
    BY <2>1, <2>2, TaskStepKeepsWakeup, QueueStepKeepsWakeup DEF Next, WaitOne, WaitOneResume
  <2> QED
    BY <2>1, <2>2
<1> QED
  BY <1>1, <1>2, Inductive, PTL DEF Spec

-----------------------------------------------------------------------------
(* No lost completion. *)

\* Handle t is where the owner of its queue finds it.
Reachable(t) == reaped[t] \/ \E i \in DOMAIN q[cq[t]] : q[cq[t]][i] = t

\* No step of the loop thread or of an awaiter drops a posted completion.
LEMMA TaskStepKeepsCompletions ==
    ASSUME IInv, NoCompletionLost, NEW t \in Task,
           \/ NewTask(t) \/ Submit(t) \/ LoopStep(t)
           \/ Await(t) \/ SpuriousWake(t) \/ WaitResume(t) \/ TaskFree(t)
    PROVE NoCompletionLost'
<1> USE DEF IInv
<1> SUFFICES ASSUME NEW u \in Task, cq'[u] # NoQueue, creator'[cq'[u]],
                    stage'[u] \in {"qnotify", "release", "finished"}
             PROVE Reachable(u)'
  BY DEF NoCompletionLost, Reachable
<1>1. CASE NewTask(t)
  BY <1>1 DEF NewTask, queueVars, NoCompletionLost, Reachable
<1>2. CASE Submit(t)
  BY <1>2 DEF Submit, queueVars, NoCompletionLost, Reachable
<1>3. CASE CompletePublish(t)
  BY <1>3 DEF CompletePublish, queueVars, NoCompletionLost, Reachable
<1>4. CASE CompleteNotify(t)
  BY <1>4 DEF CompleteNotify, AfterNotify, queueVars, NoCompletionLost, Reachable
<1>5. CASE CompleteNotifyFreed(t)
  BY <1>5 DEF CompleteNotifyFreed, AfterNotify, queueVars, NoCompletionLost, Reachable
<1>6. CASE Post(t)
  <2>1. cq[t] \in Queue /\ q[cq[t]] \in Seq(Task) /\ q'[cq[t]] = Append(q[cq[t]], t)
    BY <1>6 DEF Post, TypeOK, TaskFieldsAgree
  <2>2. CASE u = t
    BY <1>6, <2>1, <2>2 DEF Post, Reachable
  <2>3. CASE u # t
    <3>1. reaped[u] \/ \E i \in DOMAIN q[cq[u]] : q[cq[u]][i] = u
      BY <1>6, <2>3 DEF Post, NoCompletionLost
    <3>2. ASSUME NEW i \in DOMAIN q[cq[u]] PROVE i \in DOMAIN q'[cq[u]] /\ q'[cq[u]][i] = q[cq[u]][i]
      BY <1>6, <2>1, <3>2 DEF Post
    <3> QED
      BY <1>6, <3>1, <3>2 DEF Post, Reachable
  <2> QED
    BY <2>2, <2>3
<1>7. CASE PostNotify(t)
  BY <1>7 DEF PostNotify, NoCompletionLost, Reachable
<1>8. CASE CompleteRelease(t)
  \* The creator's reference is still there, so this one is not the last.
  <2>1. cq[t] \in Queue /\ cq[u] \in Queue /\ stage[t] \in Retaining
    BY <1>8 DEF CompleteRelease, TypeOK, TaskFieldsAgree, Retaining, InComplete
  <2>2. q'[cq[u]] = q[cq[u]]
    <3>1. CASE cq[u] = cq[t]
      <4>1. refs[cq[t]] # 1
        BY <1>8, <2>1, <3>1, CountedReferences DEF CompleteRelease
      <4> QED
        BY <1>8, <4>1 DEF CompleteRelease, Release
    <3>2. CASE cq[u] # cq[t]
      BY <1>8, <2>1, <3>2 DEF CompleteRelease, Release, TypeOK
    <3> QED
      BY <3>1, <3>2
  <2> QED
    BY <1>8, <2>2 DEF CompleteRelease, NoCompletionLost, Reachable
<1>9. CASE Await(t) \/ WaitResume(t)
  BY <1>9 DEF Await, WaitResume, queueVars, NoCompletionLost, Reachable
<1>10. CASE SpuriousWake(t)
  BY <1>10 DEF SpuriousWake, queueVars, NoCompletionLost, Reachable
<1>11. CASE TaskFree(t)
  BY <1>11 DEF TaskFree, queueVars, NoCompletionLost, Reachable
<1> QED
  BY <1>1, <1>2, <1>3, <1>4, <1>5, <1>6, <1>7, <1>8, <1>9, <1>10, <1>11 DEF LoopStep

\* Neither does a step of a queue's owner, as long as it keeps the queue.
LEMMA QueueStepKeepsCompletions ==
    ASSUME IInv, NoCompletionLost, NEW c \in Queue,
           \/ CqCreate(c) \/ CqFree(c) \/ CqSpuriousWake(c) \/ TryPop(c) \/ WaitOneCheck(c)
           \/ \E t \in Task : NewQueuedTask(t, c)
    PROVE NoCompletionLost'
<1> USE DEF IInv
<1> SUFFICES ASSUME NEW u \in Task, cq'[u] # NoQueue, creator'[cq'[u]],
                    stage'[u] \in {"qnotify", "release", "finished"}
             PROVE Reachable(u)'
  BY DEF NoCompletionLost, Reachable
<1>1. CASE CqCreate(c)
  \* No task is routed to a queue that does not exist yet.
  <2>1. cq[u] # c
    BY <1>1 DEF CqCreate, taskVars, QueuesInUseExist
  <2> QED
    BY <1>1, <2>1 DEF CqCreate, taskVars, NoCompletionLost, Reachable
<1>2. CASE CqFree(c)
  <2>1. cq[u] \in Queue /\ cq[u] # c
    BY <1>2 DEF CqFree, taskVars, TypeOK
  <2>2. q'[cq[u]] = q[cq[u]]
    BY <1>2, <2>1 DEF CqFree, Release, TypeOK
  <2> QED
    BY <1>2, <2>1, <2>2 DEF CqFree, taskVars, NoCompletionLost, Reachable
<1>3. CASE CqSpuriousWake(c)
  BY <1>3 DEF CqSpuriousWake, taskVars, NoCompletionLost, Reachable
<1>4. ASSUME q[c] # <<>>, Pop(c), UNCHANGED <<mem, cq, done, stage, creator>>
      PROVE Reachable(u)'
  <2>1. /\ q[c] \in Seq(Task) /\ Len(q[c]) \in Nat /\ Len(q[c]) > 0
        /\ Head(q[c]) = q[c][1] /\ q'[c] = Tail(q[c]) /\ Head(q[c]) \in Task
    BY <1>4 DEF Pop, TypeOK
  <2>2. CASE u = Head(q[c])
    BY <1>4, <2>1, <2>2 DEF Pop, TypeOK, Reachable
  <2>3. CASE u # Head(q[c])
    <3>1. reaped[u] \/ \E i \in DOMAIN q[cq[u]] : q[cq[u]][i] = u
      BY <1>4 DEF NoCompletionLost
    <3>2. CASE reaped[u]
      BY <1>4, <2>3, <3>2 DEF Pop, Reachable
    <3>3. CASE cq[u] # c /\ \E i \in DOMAIN q[cq[u]] : q[cq[u]][i] = u
      BY <1>4, <3>3 DEF Pop, Reachable
    <3>4. ASSUME cq[u] = c, NEW i \in DOMAIN q[c], q[c][i] = u PROVE Reachable(u)'
      <4>1. i # 1 /\ i \in 1..Len(q[c])
        BY <2>1, <2>3, <3>4
      <4>2. i - 1 \in DOMAIN Tail(q[c]) /\ Tail(q[c])[i - 1] = q[c][i]
        BY <2>1, <4>1
      <4> QED
        BY <1>4, <2>1, <3>4, <4>2 DEF Reachable
    <3> QED
      BY <3>1, <3>2, <3>3, <3>4
  <2> QED
    BY <2>2, <2>3
<1>5. CASE TryPop(c)
  BY <1>4, <1>5 DEF TryPop
<1>6. CASE WaitOneCheck(c)
  <2>1. CASE UNCHANGED <<reaped, q>>
    BY <1>6, <2>1 DEF WaitOneCheck, NoCompletionLost, Reachable
  <2> QED
    BY <1>4, <1>6, <2>1 DEF WaitOneCheck
<1>7. ASSUME NEW t \in Task, NewQueuedTask(t, c) PROVE Reachable(u)'
  BY <1>7 DEF NewQueuedTask, TypeOK, NoCompletionLost, Reachable
<1> QED
  BY <1>1, <1>2, <1>3, <1>5, <1>6, <1>7

\* As long as run-async holds its queue, every posted completion is in it or
\* was handed to the scheduler.
THEOREM CompletionNeverLost == Spec => []NoCompletionLost
<1>1. Init => NoCompletionLost
  BY DEF Init, NoCompletionLost
<1>2. IInv /\ NoCompletionLost /\ [Next]_vars => NoCompletionLost'
  <2> SUFFICES ASSUME IInv, NoCompletionLost, [Next]_vars PROVE NoCompletionLost'
    OBVIOUS
  <2>1. CASE UNCHANGED vars \/ Quiescent
    BY <2>1 DEF Quiescent, vars, taskVars, queueVars, NoCompletionLost
  <2>2. CASE Next
    BY <2>1, <2>2, TaskStepKeepsCompletions, QueueStepKeepsCompletions
       DEF Next, WaitOne, WaitOneResume
  <2> QED
    BY <2>1, <2>2
<1> QED
  BY <1>1, <1>2, Inductive, PTL DEF Spec
=============================================================================
