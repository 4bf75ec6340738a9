--------------------------- MODULE ProcWatchProofs ---------------------------
(***************************************************************************)
(* Proofs about ProcWatch, for any sets of tasks, processes and watchers   *)
(* and any number of events: the two waiter slots never hold a task that   *)
(* is gone, no io-watch-next is lost, and events are delivered in order.   *)
(***************************************************************************)
EXTENDS ProcWatch, SequenceLemmas

Opening == {"spawn", "watch"}

(***************************************************************************)
(* The inbox.  A task is in it once; an operation on a handle finds the    *)
(* handle open, because nothing on that handle is queued behind its close. *)
(***************************************************************************)
InboxOnce == NoDuplicates(inbox)

InboxTargets ==
    \A t \in Range(inbox) :
      /\ op[t] # "none"
      /\ state[on[t]] = (IF op[t] \in Opening THEN "none" ELSE "open")

NothingBehindClose ==
    \A i, j \in DOMAIN inbox :
      (i < j /\ op[inbox[i]] \in Closes) => on[inbox[j]] # on[inbox[i]]

(***************************************************************************)
(* Scheme's side: what it has is open, the task that opens a handle is the *)
(* only one that names it, and a handle is given up with its close.        *)
(***************************************************************************)
HandlesOwned ==
    /\ \A h \in held : state[h] = "open"
    /\ \A t \in Task : op[t] \in Opening =>
         t \in Range(inbox) /\ \A u \in Task : on[u] = on[t] => u = t
    /\ \A t \in Task : op[t] \in Closes => on[t] \notin held

(***************************************************************************)
(* pending_next is a next-task of this watcher that is still outstanding,  *)
(* and a watcher with a waiter has no backlog.                             *)
(***************************************************************************)
NextSlotValid ==
    \A w \in Watcher : pendingNext[w] # NoTask =>
      /\ Parked(pendingNext[w]) /\ op[pendingNext[w]] = "next" /\ on[pendingNext[w]] = w
      /\ state[w] = "open" /\ events[w] = <<>>

\* A watcher that is not created yet has no history.
NoEarlyEvents ==
    \A w \in Watcher : state[w] = "none" =>
      events[w] = <<>> /\ seen[w] = <<>> /\ arrived[w] = 0

\* What the theorems rest on.
IInv ==
    /\ TypeOK
    /\ InboxOnce /\ InboxTargets /\ NothingBehindClose
    /\ HandlesOwned
    /\ WaitSlotValid
    /\ NextSlotValid /\ NextIsServed
    /\ NoEarlyEvents /\ EventsInOrder

-----------------------------------------------------------------------------

\* Before anything is submitted IInv holds.
LEMMA InitIInv == Init => IInv
<1> SUFFICES ASSUME Init PROVE IInv
  OBVIOUS
<1>1. TypeOK
  <2>1. <<>> \in Seq(Task) /\ <<>> \in Seq(1..MaxEvents) /\ 0 \in 0..MaxEvents
    BY ProcWatchAssumption
  <2> QED
    BY <2>1 DEF Init, TypeOK, Handle
<1>2. Range(inbox) = {}
  BY DEF Init, Range
<1>3. InboxOnce /\ InboxTargets /\ NothingBehindClose /\ HandlesOwned
  BY <1>2 DEF Init, InboxOnce, NoDuplicates, InboxTargets, NothingBehindClose, HandlesOwned,
              Opening, Closes
<1>4. WaitSlotValid /\ NextSlotValid /\ NextIsServed
  BY DEF Init, WaitSlotValid, NextSlotValid, NextIsServed
<1>5. NoEarlyEvents /\ EventsInOrder
  BY DEF Init, NoEarlyEvents, EventsInOrder, Handle
<1> QED
  BY <1>1, <1>3, <1>4, <1>5 DEF IInv

-----------------------------------------------------------------------------
(* The inbox under Submit, Dispatch and the callbacks. *)

\* Dispatch takes the front of the inbox, which was in it once and finds its
\* handle as it expects it.
LEMMA FrontOfInbox ==
    ASSUME IInv, NEW t \in Task, NEW o, Dispatched(t, o)
    PROVE /\ op[t] = o
          /\ state[on[t]] = (IF o \in Opening THEN "none" ELSE "open")
          /\ o \in ProcOp \cup {"spawn"} => on[t] \in Process
          /\ o \in WatchOp \cup {"watch"} => on[t] \in Watcher
          /\ inbox' \in Seq(Task) /\ Range(inbox') \subseteq Task
          /\ Range(inbox) = {t} \cup Range(inbox') /\ t \notin Range(inbox')
          /\ InboxOnce'
<1>1. inbox \in Seq(Task) /\ inbox # <<>> /\ NoDuplicates(inbox)
      /\ inbox' = Tail(inbox) /\ t = Head(inbox) /\ op[t] = o
  BY DEF IInv, TypeOK, InboxOnce, Dispatched
<1>2. Tail(inbox) \in Seq(Task) /\ Range(inbox) = {t} \cup Range(Tail(inbox))
  BY <1>1, RangeTail
<1>3. NoDuplicates(Tail(inbox)) /\ t \notin Range(Tail(inbox))
  BY <1>1, NoDuplicatesTail
<1>4. Range(Tail(inbox)) \subseteq Task
  BY <1>2, RangeType
<1>5. state[on[t]] = (IF o \in Opening THEN "none" ELSE "open")
  BY <1>1, <1>2 DEF IInv, InboxTargets
<1>6. /\ o \in ProcOp \cup {"spawn"} => on[t] \in Process
      /\ o \in WatchOp \cup {"watch"} => on[t] \in Watcher
  BY <1>1 DEF IInv, TypeOK, ProcOp, WatchOp
<1> QED
  BY <1>1, <1>2, <1>3, <1>4, <1>5, <1>6 DEF InboxOnce

\* A dispatch that changes nothing for the tasks still queued keeps the inbox
\* in order.
LEMMA InboxAfterDispatch ==
    ASSUME IInv, NEW t \in Task, NEW o, Dispatched(t, o),
           \A u \in Range(inbox') :
             op'[u] = op[u] /\ on'[u] = on[u] /\ state'[on[u]] = state[on[u]]
    PROVE InboxOnce' /\ InboxTargets' /\ NothingBehindClose'
<1>1. InboxOnce' /\ inbox' \in Seq(Task) /\ Range(inbox) = {t} \cup Range(inbox')
  BY FrontOfInbox
<1>2. InboxTargets'
  BY <1>1 DEF IInv, InboxTargets
<1>3. NothingBehindClose'
  <2>1. inbox \in Seq(Task) /\ inbox # <<>> /\ inbox' = Tail(inbox)
    BY DEF IInv, TypeOK, Dispatched
  <2>2. DOMAIN inbox' = 1..(Len(inbox) - 1) /\ DOMAIN inbox = 1..Len(inbox)
        /\ Len(inbox) \in Nat
        /\ \A i \in DOMAIN inbox' : inbox'[i] = inbox[i + 1]
    BY <1>1, <2>1, HeadTailProperties, LenProperties
  <2>3. \A i \in DOMAIN inbox' : inbox'[i] \in Range(inbox')
    BY DEF Range
  <2>4. SUFFICES ASSUME NEW i \in DOMAIN inbox', NEW j \in DOMAIN inbox',
                        i < j, op'[inbox'[i]] \in Closes
                 PROVE on'[inbox'[j]] # on'[inbox'[i]]
    BY DEF NothingBehindClose
  <2>5. op[inbox[i + 1]] \in Closes /\ on'[inbox'[i]] = on[inbox[i + 1]]
        /\ on'[inbox'[j]] = on[inbox[j + 1]]
    BY <2>2, <2>3, <2>4
  <2>6. i + 1 \in DOMAIN inbox /\ j + 1 \in DOMAIN inbox /\ i + 1 < j + 1
    BY <2>2, <2>4
  <2> QED
    BY <2>5, <2>6 DEF IInv, NothingBehindClose
<1> QED
  BY <1>1, <1>2, <1>3

\* A new task goes to the end of the inbox; its target must be as it expects,
\* and must not be on its way to be closed.
LEMMA InboxAfterSubmit ==
    ASSUME IInv, NEW t \in Task, op[t] = "none", inbox' = Append(inbox, t), UNCHANGED state,
           op'[t] # "none",
           \A u \in Task \ {t} : op'[u] = op[u] /\ on'[u] = on[u],
           state[on'[t]] = (IF op'[t] \in Opening THEN "none" ELSE "open"),
           \A u \in Range(inbox) : op[u] \in Closes => on[u] # on'[t]
    PROVE /\ InboxOnce' /\ InboxTargets' /\ NothingBehindClose'
          /\ inbox' \in Seq(Task) /\ Range(inbox') = Range(inbox) \cup {t}
<1>1. inbox \in Seq(Task) /\ t \notin Range(inbox) /\ Range(inbox) \subseteq Task
  BY RangeType DEF IInv, TypeOK, InboxTargets
<1>2. inbox' \in Seq(Task) /\ Range(inbox') = Range(inbox) \cup {t}
  BY <1>1, RangeAppend, AppendProperties
<1>3. InboxOnce'
  BY <1>1, NoDuplicatesAppend DEF IInv, InboxOnce
<1>4. InboxTargets'
  BY <1>1, <1>2 DEF IInv, InboxTargets
<1>5. NothingBehindClose'
  <2>1. DOMAIN inbox' = 1..(Len(inbox) + 1) /\ DOMAIN inbox = 1..Len(inbox)
        /\ Len(inbox) \in Nat /\ inbox'[Len(inbox) + 1] = t
        /\ \A i \in DOMAIN inbox : inbox'[i] = inbox[i] /\ inbox[i] \in Range(inbox)
    BY <1>1, <1>2, AppendProperties, LenProperties DEF Range
  <2>2. SUFFICES ASSUME NEW i \in DOMAIN inbox', NEW j \in DOMAIN inbox',
                        i < j, op'[inbox'[i]] \in Closes
                 PROVE on'[inbox'[j]] # on'[inbox'[i]]
    BY DEF NothingBehindClose
  <2>3. i \in DOMAIN inbox /\ inbox'[i] = inbox[i] /\ inbox[i] \in Range(inbox)
    BY <2>1, <2>2
  <2>4. op[inbox[i]] \in Closes /\ on'[inbox'[i]] = on[inbox[i]]
    BY <1>1, <2>2, <2>3
  <2>5. CASE j = Len(inbox) + 1
    BY <2>1, <2>3, <2>4, <2>5
  <2>6. CASE j \in DOMAIN inbox
    BY <1>1, <2>1, <2>2, <2>3, <2>4, <2>6 DEF IInv, NothingBehindClose
  <2> QED
    BY <2>1, <2>5, <2>6
<1> QED
  BY <1>2, <1>3, <1>4, <1>5

\* A callback that changes nothing for the queued tasks leaves the inbox alone.
LEMMA InboxAfterCallback ==
    ASSUME IInv, inbox' = inbox,
           \A u \in Range(inbox) :
             op'[u] = op[u] /\ on'[u] = on[u] /\ state'[on[u]] = state[on[u]]
    PROVE InboxOnce' /\ InboxTargets' /\ NothingBehindClose'
<1>1. InboxOnce' /\ InboxTargets'
  BY DEF IInv, InboxOnce, InboxTargets
<1>2. \A i \in DOMAIN inbox : inbox[i] \in Range(inbox)
  BY DEF Range
<1>3. NothingBehindClose'
  BY <1>2 DEF IInv, NothingBehindClose
<1> QED
  BY <1>1, <1>3

\* A close is the last queued task of its handle.
LEMMA LastOfItsHandle ==
    ASSUME IInv, NEW t \in Task, NEW o \in Closes, Dispatched(t, o)
    PROVE \A u \in Range(inbox') : on[u] # on[t]
<1>1. inbox \in Seq(Task) /\ inbox # <<>> /\ inbox' = Tail(inbox) /\ t = inbox[1]
      /\ op[t] \in Closes
  BY DEF IInv, TypeOK, Dispatched
<1>2. Tail(inbox) \in Seq(Task) /\ Len(Tail(inbox)) = Len(inbox) - 1 /\ Len(inbox) \in Nat
      /\ \A i \in 1..Len(Tail(inbox)) : Tail(inbox)[i] = inbox[i + 1]
  BY <1>1, HeadTailProperties, LenProperties
<1> SUFFICES ASSUME NEW u \in Range(inbox') PROVE on[u] # on[t]
  OBVIOUS
<1>3. PICK i \in 1..Len(Tail(inbox)) : Tail(inbox)[i] = u
  BY <1>1, <1>2, InRange
<1>4. inbox[i + 1] = u /\ i + 1 \in DOMAIN inbox /\ 1 \in DOMAIN inbox /\ 1 < i + 1
  BY <1>1, <1>2, <1>3
<1> QED
  BY <1>1, <1>4 DEF IInv, NothingBehindClose

(***************************************************************************)
(* The types of op and on, and what Complete and LoopHandle::Close do.     *)
(***************************************************************************)
TargetsTyped ==
    /\ op \in [Task -> {"none", "spawn", "watch"} \cup ProcOp \cup WatchOp]
    /\ on \in [Task -> Handle \cup {NoHandle}]
    /\ \A t \in Task :
         \/ op[t] = "none" /\ on[t] = NoHandle
         \/ op[t] \in ProcOp \cup {"spawn"} /\ on[t] \in Process
         \/ op[t] \in WatchOp \cup {"watch"} /\ on[t] \in Watcher

StatesTyped == state \in [Handle -> {"none", "open", "closing", "deleted"}]

\* Complete frees the tasks of the set and leaves the others alone.
LEMMA CompleteEffect ==
    ASSUME TypeOK, NEW ts, Complete(ts)
    PROVE /\ TargetsTyped'
          /\ \A u \in Task : u \notin ts => op'[u] = op[u] /\ on'[u] = on[u]
          /\ \A u \in Task : u \in ts => op'[u] = "none" /\ on'[u] = NoHandle
  BY DEF TypeOK, TargetsTyped, Complete

\* Close begins to close one handle.
LEMMA CloseEffect ==
    ASSUME TypeOK, NEW h \in Handle, Close(h)
    PROVE /\ StatesTyped' /\ state'[h] = "closing"
          /\ \A g \in Handle : g # h => state'[g] = state[g]
  BY DEF TypeOK, StatesTyped, Close

-----------------------------------------------------------------------------
(* What a step must leave alone so that one part of IInv stays true. *)

\* Ownership, when tasks are only completed and handles become Scheme's only
\* when nobody else names them.
LEMMA OwnershipKept ==
    ASSUME IInv,
           \A u \in Task : \/ op'[u] = op[u] /\ on'[u] = on[u]
                           \/ op'[u] = "none" /\ on'[u] = NoHandle,
           \A u \in Task : op'[u] \in Opening => u \in Range(inbox'),
           \A h \in held' : \/ h \in held /\ state'[h] = state[h]
                            \/ state'[h] = "open" /\ \A u \in Task : on'[u] # h
    PROVE HandlesOwned'
<1> USE ProcWatchAssumption DEF IInv, Handle, ProcOp, WatchOp, Closes, Opening
<1>1. \A h \in held' : state'[h] = "open"
  BY DEF HandlesOwned
<1>2. ASSUME NEW t \in Task, op'[t] \in Opening, NEW u \in Task, on'[u] = on'[t]
      PROVE u = t
  <2>1. op[t] \in Opening /\ on'[t] = on[t] /\ on[t] # NoHandle
    BY <1>2 DEF TypeOK
  <2>2. on[u] = on[t]
    BY <1>2, <2>1
  <2> QED
    BY <2>1, <2>2 DEF HandlesOwned
<1>3. ASSUME NEW t \in Task, op'[t] \in Closes
      PROVE on'[t] \notin held'
  BY <1>3 DEF HandlesOwned
<1> QED
  BY <1>1, <1>2, <1>3 DEF HandlesOwned

\* The wait slots, when the tasks in them stay parked.
LEMMA WaitSlotsKept ==
    ASSUME IInv, UNCHANGED <<waitTask, exited>>,
           \A p \in Process : waitTask[p] # NoTask => state'[p] \in {"open", "closing"},
           \A u \in Task : (op[u] = "wait" /\ u \notin Range(inbox)) =>
             op'[u] = op[u] /\ on'[u] = on[u] /\ u \notin Range(inbox')
    PROVE WaitSlotValid'
  BY DEF IInv, TypeOK, WaitSlotValid, Parked

\* The next slots, when the parked next-tasks are the same before and after.
LEMMA NextSlotsKept ==
    ASSUME IInv, UNCHANGED <<pendingNext, events>>,
           \A w \in Watcher : state[w] = "open" => state'[w] = "open",
           \A u \in Task : (op[u] = "next" /\ u \notin Range(inbox)) =>
             op'[u] = op[u] /\ on'[u] = on[u] /\ u \notin Range(inbox'),
           \A u \in Task : (op'[u] = "next" /\ u \notin Range(inbox')) =>
             op[u] = "next" /\ u \notin Range(inbox)
    PROVE NextSlotValid' /\ NextIsServed'
<1>1. NextSlotValid'
  BY DEF IInv, TypeOK, NextSlotValid, Parked
<1>2. ASSUME NEW t \in Task, op'[t] = "next", t \notin Range(inbox')
      PROVE pendingNext'[on'[t]] = t /\ state'[on'[t]] = "open" /\ events'[on'[t]] = <<>>
  <2>1. op[t] = "next" /\ on'[t] = on[t] /\ Parked(t)
    BY <1>2 DEF Parked
  <2>2. pendingNext[on[t]] = t /\ state[on[t]] = "open" /\ events[on[t]] = <<>>
    BY <2>1 DEF IInv, NextIsServed
  <2>3. on[t] \in Watcher
    BY <2>1 DEF IInv, TypeOK, ProcOp
  <2> QED
    BY <2>1, <2>2, <2>3
<1> QED
  BY <1>1, <1>2 DEF NextIsServed, Parked

\* Events, for the watchers whose state and history are the same.
LEMMA EventsKept ==
    ASSUME IInv, UNCHANGED <<events, arrived, seen>>,
           \A w \in Watcher : \/ state'[w] = state[w]
                              \/ state[w] \in {"open", "closing"} /\ state'[w] # "none"
    PROVE NoEarlyEvents' /\ EventsInOrder'
  BY DEF IInv, NoEarlyEvents, EventsInOrder

-----------------------------------------------------------------------------
(* Scheme threads. *)

\* rt_spawn and rt_fs_watch: nobody else names the new handle.
LEMMA SubmitNewInv ==
    ASSUME IInv, NEW t \in Task, NEW h \in Handle, SubmitNew(t, h)
    PROVE IInv'
<1> USE ProcWatchAssumption DEF IInv, Handle, ProcOp, WatchOp, Closes, Opening
<1>1. /\ InboxOnce' /\ InboxTargets' /\ NothingBehindClose'
      /\ inbox' \in Seq(Task) /\ Range(inbox') = Range(inbox) \cup {t}
  BY RangeType, InboxAfterSubmit DEF SubmitNew, TypeOK
<1>2. TypeOK'
  BY <1>1 DEF SubmitNew, procVars, watchVars, TypeOK
<1>3. HandlesOwned'
  BY <1>1 DEF SubmitNew, TypeOK, HandlesOwned
<1>4. WaitSlotValid'
  BY <1>1 DEF SubmitNew, procVars, TypeOK, WaitSlotValid, Parked
<1>5. NextSlotValid' /\ NextIsServed'
  BY <1>1 DEF SubmitNew, watchVars, TypeOK, NextSlotValid, NextIsServed, Parked
<1>6. NoEarlyEvents' /\ EventsInOrder'
  BY DEF SubmitNew, watchVars, NoEarlyEvents, EventsInOrder
<1> QED
  BY <1>1, <1>2, <1>3, <1>4, <1>5, <1>6

\* An operation on a handle that Scheme has: the handle is open, and no close of
\* it is queued.
LEMMA SubmitOnInv ==
    ASSUME IInv, NEW t \in Task, NEW h \in Handle, NEW o \in OpOn(h), SubmitOn(t, o, h)
    PROVE IInv'
<1> USE ProcWatchAssumption DEF IInv, Handle, ProcOp, WatchOp, Closes, Opening
<1>1. /\ op[t] = "none" /\ h \in held /\ state[h] = "open"
      /\ op' = [op EXCEPT ![t] = o] /\ on' = [on EXCEPT ![t] = h]
  BY DEF SubmitOn, HandlesOwned
<1>2. /\ InboxOnce' /\ InboxTargets' /\ NothingBehindClose'
      /\ inbox' \in Seq(Task) /\ Range(inbox') = Range(inbox) \cup {t}
  BY <1>1, RangeType, InboxAfterSubmit DEF SubmitOn, OpOn, TypeOK, HandlesOwned
<1>3. TypeOK'
  BY <1>2 DEF SubmitOn, OpOn, procVars, watchVars, TypeOK
<1>4. HandlesOwned'
  <2>1. \A g \in held' : state'[g] = "open"
    BY DEF SubmitOn, HandlesOwned
  <2>2. \A u \in Task : op'[u] \in Opening =>
          u \in Range(inbox') /\ \A v \in Task : on'[v] = on'[u] => v = u
    BY <1>1, <1>2 DEF OpOn, TypeOK, HandlesOwned, InboxTargets
  <2>3. \A u \in Task : op'[u] \in Closes => on'[u] \notin held'
    BY <1>1 DEF SubmitOn, TypeOK, HandlesOwned
  <2> QED
    BY <2>1, <2>2, <2>3 DEF HandlesOwned
<1>5. WaitSlotValid'
  BY <1>2 DEF SubmitOn, OpOn, procVars, TypeOK, WaitSlotValid, Parked
<1>6. NextSlotValid' /\ NextIsServed'
  BY <1>2 DEF SubmitOn, OpOn, watchVars, TypeOK, NextSlotValid, NextIsServed, Parked
<1>7. NoEarlyEvents' /\ EventsInOrder'
  BY DEF SubmitOn, watchVars, NoEarlyEvents, EventsInOrder
<1> QED
  BY <1>2, <1>3, <1>4, <1>5, <1>6, <1>7

\* The captured pipes are no part of IInv.
LEMMA ClosePipesInv ==
    ASSUME IInv, NEW p \in Process, ClosePipes(p)
    PROVE IInv'
<1> USE DEF IInv
<1>1. TypeOK'
  BY DEF ClosePipes, taskVars, watchVars, TypeOK
<1>2. InboxOnce' /\ InboxTargets' /\ NothingBehindClose' /\ HandlesOwned'
  BY DEF ClosePipes, taskVars, InboxOnce, InboxTargets, NothingBehindClose, HandlesOwned
<1>3. WaitSlotValid' /\ NextSlotValid' /\ NextIsServed'
  BY DEF ClosePipes, taskVars, watchVars, WaitSlotValid, NextSlotValid, NextIsServed, Parked
<1>4. NoEarlyEvents' /\ EventsInOrder'
  BY DEF ClosePipes, watchVars, NoEarlyEvents, EventsInOrder
<1> QED
  BY <1>1, <1>2, <1>3, <1>4

-----------------------------------------------------------------------------
(* Dispatch. *)

\* uv_spawn: the process comes to life, or its handle is closed at once.
LEMMA DispatchSpawnInv ==
    ASSUME IInv, NEW t \in Task, DispatchSpawn(t)
    PROVE IInv'
<1> USE ProcWatchAssumption DEF IInv, Handle, ProcOp, WatchOp, Closes, Opening
<1>1. /\ op[t] = "spawn" /\ on[t] \in Process /\ state[on[t]] = "none"
      /\ inbox' \in Seq(Task) /\ Range(inbox') \subseteq Task
      /\ Range(inbox) = {t} \cup Range(inbox') /\ t \notin Range(inbox')
  BY FrontOfInbox DEF DispatchSpawn
<1>2. /\ TargetsTyped' /\ op'[t] = "none" /\ on'[t] = NoHandle
      /\ \A u \in Task : u # t => op'[u] = op[u] /\ on'[u] = on[u]
  BY CompleteEffect DEF DispatchSpawn
<1>3. /\ StatesTyped' /\ state'[on[t]] \in {"open", "closing"}
      /\ \A h \in Handle : h # on[t] => state'[h] = state[h]
      /\ held' = held \/ (held' = held \cup {on[t]} /\ state'[on[t]] = "open")
  <2>1. CASE state' = [state EXCEPT ![on[t]] = "open"] /\ held' = held \cup {on[t]}
    BY <1>1, <2>1 DEF StatesTyped, TypeOK
  <2>2. CASE Close(on[t]) /\ UNCHANGED held
    BY <1>1, <2>2, CloseEffect
  <2> QED
    BY <2>1, <2>2 DEF DispatchSpawn
<1>4. on[t] \notin held /\ \A u \in Task : u # t => on[u] # on[t]
  BY <1>1 DEF HandlesOwned
<1>5. TypeOK'
  BY <1>1, <1>2, <1>3 DEF DispatchSpawn, TargetsTyped, StatesTyped, watchVars, TypeOK
<1>6. InboxOnce' /\ InboxTargets' /\ NothingBehindClose'
  <2>1. \A u \in Range(inbox') : u # t /\ on[u] \in Handle /\ on[u] # on[t]
    BY <1>1, <1>4 DEF TypeOK, InboxTargets
  <2>2. \A u \in Range(inbox') :
          op'[u] = op[u] /\ on'[u] = on[u] /\ state'[on[u]] = state[on[u]]
    BY <1>1, <1>2, <1>3, <2>1
  <2> QED
    BY <2>2, InboxAfterDispatch DEF DispatchSpawn
<1>7. HandlesOwned'
  <2>1. \A h \in held' : \/ h \in held /\ state'[h] = state[h]
                         \/ state'[h] = "open" /\ \A u \in Task : on'[u] # h
    <3>1. \A h \in held : h \in Handle /\ h # on[t]
      BY <1>4 DEF TypeOK
    <3>2. \A u \in Task : on'[u] # on[t]
      BY <1>1, <1>2, <1>4
    <3> QED
      BY <1>3, <3>1, <3>2
  <2>2. \A u \in Task : op'[u] \in Opening => u \in Range(inbox')
    BY <1>1, <1>2 DEF HandlesOwned
  <2> QED
    BY <1>2, <2>1, <2>2, OwnershipKept
<1>8. WaitSlotValid'
  <2>1. \A p \in Process : waitTask[p] # NoTask => state'[p] \in {"open", "closing"}
    BY <1>1, <1>3 DEF WaitSlotValid
  <2> QED
    BY <1>1, <1>2, <2>1, WaitSlotsKept DEF DispatchSpawn
<1>9. NextSlotValid' /\ NextIsServed'
  BY <1>1, <1>2, <1>3, NextSlotsKept DEF DispatchSpawn, watchVars
<1>10. NoEarlyEvents' /\ EventsInOrder'
  <2>1. \A w \in Watcher : state'[w] = state[w]
    BY <1>1, <1>3
  <2> QED
    BY <2>1, EventsKept DEF DispatchSpawn, watchVars
<1> QED
  BY <1>5, <1>6, <1>7, <1>8, <1>9, <1>10

\* ProcWait on an open process, which has not exited if the task is parked.
LEMMA DispatchWaitInv ==
    ASSUME IInv, NEW t \in Task, DispatchWait(t)
    PROVE IInv'
<1> USE ProcWatchAssumption DEF IInv, Handle, ProcOp, WatchOp, Closes, Opening
<1>1. /\ op[t] = "wait" /\ on[t] \in Process /\ state[on[t]] = "open"
      /\ inbox' \in Seq(Task) /\ Range(inbox') \subseteq Task
      /\ Range(inbox) = {t} \cup Range(inbox') /\ t \notin Range(inbox')
  BY FrontOfInbox DEF DispatchWait
<1>2. /\ TargetsTyped' /\ op'[t] \in {"none", "wait"}
      /\ \A u \in Task : u # t => op'[u] = op[u] /\ on'[u] = on[u]
      /\ \/ op'[t] = "none" /\ waitTask' = waitTask
         \/ /\ op'[t] = "wait" /\ on'[t] = on[t]
            /\ waitTask' = [waitTask EXCEPT ![on[t]] = t] /\ ~exited[on[t]]
  <2>1. CASE HasExited(on[t])
    BY <2>1, CompleteEffect DEF DispatchWait
  <2>2. CASE ~HasExited(on[t])
    BY <1>1, <2>2 DEF DispatchWait, HasExited, taskVars, TypeOK, TargetsTyped
  <2> QED
    BY <2>1, <2>2
<1>3. TypeOK'
  <2>1. waitTask' \in [Process -> Task \cup {NoTask}]
    <3>1. waitTask \in [Process -> Task \cup {NoTask}]
      BY DEF TypeOK
    <3>2. CASE waitTask' = waitTask
      BY <3>1, <3>2
    <3>3. CASE waitTask' = [waitTask EXCEPT ![on[t]] = t]
      BY <1>1, <3>1, <3>3
    <3> QED
      BY <1>2, <3>2, <3>3
  <2> QED
    BY <1>1, <1>2, <2>1 DEF DispatchWait, TargetsTyped, watchVars, TypeOK
<1>4. InboxOnce' /\ InboxTargets' /\ NothingBehindClose'
  <2>1. \A u \in Range(inbox') :
          op'[u] = op[u] /\ on'[u] = on[u] /\ state'[on[u]] = state[on[u]]
    BY <1>1, <1>2 DEF DispatchWait
  <2> QED
    BY <2>1, InboxAfterDispatch DEF DispatchWait
<1>5. HandlesOwned'
  <2>1. \A u \in Task : op'[u] \in Opening => u \in Range(inbox')
    BY <1>1, <1>2 DEF HandlesOwned
  <2>2. op'[t] = "none" => on'[t] = NoHandle
    BY <1>2 DEF TargetsTyped
  <2> QED
    BY <1>1, <1>2, <2>1, <2>2, OwnershipKept DEF DispatchWait
<1>6. WaitSlotValid'
  BY <1>1, <1>2 DEF DispatchWait, TypeOK, WaitSlotValid, Parked
<1>7. NextSlotValid' /\ NextIsServed'
  BY <1>1, <1>2, NextSlotsKept DEF DispatchWait, watchVars
<1>8. NoEarlyEvents' /\ EventsInOrder'
  BY DEF DispatchWait, watchVars, NoEarlyEvents, EventsInOrder
<1> QED
  BY <1>3, <1>4, <1>5, <1>6, <1>7, <1>8

\* uv_process_kill completes its own task only.
LEMMA DispatchKillInv ==
    ASSUME IInv, NEW t \in Task, DispatchKill(t)
    PROVE IInv'
<1> USE ProcWatchAssumption DEF IInv, Handle, ProcOp, WatchOp, Closes, Opening
<1>1. /\ op[t] = "kill" /\ on[t] \in Process
      /\ inbox' \in Seq(Task) /\ Range(inbox') \subseteq Task
      /\ Range(inbox) = {t} \cup Range(inbox') /\ t \notin Range(inbox')
  BY FrontOfInbox DEF DispatchKill
<1>2. /\ TargetsTyped' /\ op'[t] = "none" /\ on'[t] = NoHandle
      /\ \A u \in Task : u # t => op'[u] = op[u] /\ on'[u] = on[u]
  BY CompleteEffect DEF DispatchKill
<1>3. TypeOK'
  BY <1>1, <1>2 DEF DispatchKill, TargetsTyped, procVars, watchVars, TypeOK
<1>4. InboxOnce' /\ InboxTargets' /\ NothingBehindClose'
  <2>1. \A u \in Range(inbox') :
          op'[u] = op[u] /\ on'[u] = on[u] /\ state'[on[u]] = state[on[u]]
    BY <1>1, <1>2 DEF DispatchKill
  <2> QED
    BY <2>1, InboxAfterDispatch DEF DispatchKill
<1>5. HandlesOwned'
  <2>1. \A u \in Task : op'[u] \in Opening => u \in Range(inbox')
    BY <1>1, <1>2 DEF HandlesOwned
  <2> QED
    BY <1>2, <2>1, OwnershipKept DEF DispatchKill
<1>6. WaitSlotValid'
  BY <1>1, <1>2 DEF DispatchKill, procVars, TypeOK, WaitSlotValid, Parked
<1>7. NextSlotValid' /\ NextIsServed'
  BY <1>1, <1>2, NextSlotsKept DEF DispatchKill, watchVars
<1>8. NoEarlyEvents' /\ EventsInOrder'
  BY DEF DispatchKill, watchVars, NoEarlyEvents, EventsInOrder
<1> QED
  BY <1>3, <1>4, <1>5, <1>6, <1>7, <1>8

\* ProcClose: nothing on this process is queued any more, and a wait may stay in
\* its slot until the object is deleted.
LEMMA DispatchProcCloseInv ==
    ASSUME IInv, NEW t \in Task, DispatchProcClose(t)
    PROVE IInv'
<1> USE ProcWatchAssumption DEF IInv, Handle, ProcOp, WatchOp, Closes, Opening
<1>1. /\ op[t] = "close_proc" /\ on[t] \in Process
      /\ inbox' \in Seq(Task) /\ Range(inbox') \subseteq Task
      /\ Range(inbox) = {t} \cup Range(inbox') /\ t \notin Range(inbox')
  BY FrontOfInbox DEF DispatchProcClose
<1>2. /\ StatesTyped' /\ state'[on[t]] = "closing"
      /\ \A h \in Handle : h # on[t] => state'[h] = state[h]
  BY <1>1, CloseEffect DEF DispatchProcClose
<1>3. \A u \in Range(inbox') : on[u] # on[t]
  BY LastOfItsHandle DEF DispatchProcClose
<1>4. TypeOK'
  BY <1>1, <1>2 DEF DispatchProcClose, StatesTyped, taskVars, procVars, watchVars, TypeOK
<1>5. InboxOnce' /\ InboxTargets' /\ NothingBehindClose'
  <2>1. \A u \in Range(inbox') : on[u] \in Handle
    BY <1>1 DEF TypeOK, InboxTargets
  <2>2. \A u \in Range(inbox') :
          op'[u] = op[u] /\ on'[u] = on[u] /\ state'[on[u]] = state[on[u]]
    BY <1>2, <1>3, <2>1 DEF DispatchProcClose, taskVars
  <2> QED
    BY <2>2, InboxAfterDispatch DEF DispatchProcClose
<1>6. HandlesOwned'
  <2>1. \A u \in Task : op'[u] \in Opening => u \in Range(inbox')
    BY <1>1 DEF DispatchProcClose, taskVars, HandlesOwned
  <2>2. \A h \in held : h # on[t] /\ h \in Handle
    BY <1>1 DEF TypeOK, HandlesOwned
  <2> QED
    BY <1>2, <2>1, <2>2, OwnershipKept DEF DispatchProcClose, taskVars
<1>7. WaitSlotValid'
  BY <1>1, <1>2 DEF DispatchProcClose, taskVars, procVars, TypeOK, WaitSlotValid, Parked
<1>8. \A w \in Watcher : state'[w] = state[w]
  BY <1>1, <1>2
<1>9. NextSlotValid' /\ NextIsServed'
  BY <1>1, <1>8, NextSlotsKept DEF DispatchProcClose, taskVars, watchVars
<1>10. NoEarlyEvents' /\ EventsInOrder'
  BY <1>8, EventsKept DEF DispatchProcClose, watchVars
<1> QED
  BY <1>4, <1>5, <1>6, <1>7, <1>9, <1>10

\* uv_fs_event_start: the watcher comes to life, or its handle is closed at once.
LEMMA DispatchWatchOpenInv ==
    ASSUME IInv, NEW t \in Task, DispatchWatchOpen(t)
    PROVE IInv'
<1> USE ProcWatchAssumption DEF IInv, Handle, ProcOp, WatchOp, Closes, Opening
<1>1. /\ op[t] = "watch" /\ on[t] \in Watcher /\ state[on[t]] = "none"
      /\ inbox' \in Seq(Task) /\ Range(inbox') \subseteq Task
      /\ Range(inbox) = {t} \cup Range(inbox') /\ t \notin Range(inbox')
  BY FrontOfInbox DEF DispatchWatchOpen
<1>2. /\ TargetsTyped' /\ op'[t] = "none" /\ on'[t] = NoHandle
      /\ \A u \in Task : u # t => op'[u] = op[u] /\ on'[u] = on[u]
  BY CompleteEffect DEF DispatchWatchOpen
<1>3. /\ StatesTyped' /\ state'[on[t]] \in {"open", "closing"}
      /\ \A h \in Handle : h # on[t] => state'[h] = state[h]
      /\ held' = held \/ (held' = held \cup {on[t]} /\ state'[on[t]] = "open")
  <2>1. CASE state' = [state EXCEPT ![on[t]] = "open"] /\ held' = held \cup {on[t]}
    BY <1>1, <2>1 DEF StatesTyped, TypeOK
  <2>2. CASE Close(on[t]) /\ UNCHANGED held
    BY <1>1, <2>2, CloseEffect
  <2> QED
    BY <2>1, <2>2 DEF DispatchWatchOpen
<1>4. on[t] \notin held /\ \A u \in Task : u # t => on[u] # on[t]
  BY <1>1 DEF HandlesOwned
<1>5. TypeOK'
  BY <1>1, <1>2, <1>3 DEF DispatchWatchOpen, TargetsTyped, StatesTyped, procVars, watchVars, TypeOK
<1>6. InboxOnce' /\ InboxTargets' /\ NothingBehindClose'
  <2>1. \A u \in Range(inbox') : u # t /\ on[u] \in Handle /\ on[u] # on[t]
    BY <1>1, <1>4 DEF TypeOK, InboxTargets
  <2>2. \A u \in Range(inbox') :
          op'[u] = op[u] /\ on'[u] = on[u] /\ state'[on[u]] = state[on[u]]
    BY <1>1, <1>2, <1>3, <2>1
  <2> QED
    BY <2>2, InboxAfterDispatch DEF DispatchWatchOpen
<1>7. HandlesOwned'
  <2>1. \A h \in held' : \/ h \in held /\ state'[h] = state[h]
                         \/ state'[h] = "open" /\ \A u \in Task : on'[u] # h
    <3>1. \A h \in held : h \in Handle /\ h # on[t]
      BY <1>4 DEF TypeOK
    <3>2. \A u \in Task : on'[u] # on[t]
      BY <1>1, <1>2, <1>4
    <3> QED
      BY <1>3, <3>1, <3>2
  <2>2. \A u \in Task : op'[u] \in Opening => u \in Range(inbox')
    BY <1>1, <1>2 DEF HandlesOwned
  <2> QED
    BY <1>2, <2>1, <2>2, OwnershipKept
<1>8. WaitSlotValid'
  <2>1. \A p \in Process : waitTask[p] # NoTask => state'[p] \in {"open", "closing"}
    BY <1>1, <1>3 DEF WaitSlotValid
  <2> QED
    BY <1>1, <1>2, <2>1, WaitSlotsKept DEF DispatchWatchOpen, procVars
<1>9. NextSlotValid' /\ NextIsServed'
  BY <1>1, <1>2, <1>3, NextSlotsKept DEF DispatchWatchOpen, watchVars
<1>10. NoEarlyEvents'
  BY <1>1, <1>3 DEF DispatchWatchOpen, watchVars, NoEarlyEvents
<1>11. EventsInOrder'
  <2>1. <<>> \o <<>> = [i \in 1..0 |-> i]
    OBVIOUS
  <2>2. seen[on[t]] \o events[on[t]] = [i \in 1..arrived[on[t]] |-> i]
    BY <1>1, <2>1 DEF NoEarlyEvents
  <2> QED
    BY <1>1, <1>3, <2>2 DEF DispatchWatchOpen, watchVars, EventsInOrder
<1> QED
  BY <1>5, <1>6, <1>7, <1>8, <1>9, <1>10, <1>11

\* FsWatchNext: busy, an event of the backlog, or the waiter's slot.
LEMMA DispatchNextInv ==
    ASSUME IInv, NEW t \in Task, DispatchNext(t)
    PROVE IInv'
<1> USE ProcWatchAssumption DEF IInv, Handle, ProcOp, WatchOp, Closes, Opening
<1>1. /\ op[t] = "next" /\ on[t] \in Watcher /\ state[on[t]] = "open"
      /\ inbox' \in Seq(Task) /\ Range(inbox') \subseteq Task
      /\ Range(inbox) = {t} \cup Range(inbox') /\ t \notin Range(inbox')
      /\ UNCHANGED <<state, held, exited, waitTask, pipes, arrived>>
  BY FrontOfInbox DEF DispatchNext, procVars
<1> DEFINE w == on[t]
<1>2. CASE /\ Complete({t}) /\ Busy(w) /\ UNCHANGED <<pendingNext, events, seen>>
  <2>1. /\ TargetsTyped' /\ op'[t] = "none" /\ on'[t] = NoHandle
        /\ \A u \in Task : u # t => op'[u] = op[u] /\ on'[u] = on[u]
    BY <1>2, CompleteEffect
  <2>2. TypeOK'
    BY <1>1, <1>2, <2>1 DEF TargetsTyped, TypeOK
  <2>3. InboxOnce' /\ InboxTargets' /\ NothingBehindClose'
    BY <1>1, <2>1, InboxAfterDispatch DEF DispatchNext
  <2>4. HandlesOwned'
    BY <1>1, <2>1, OwnershipKept DEF HandlesOwned
  <2>5. WaitSlotValid' /\ NextSlotValid' /\ NextIsServed'
    <3>1. \A p \in Process : waitTask[p] # NoTask => state'[p] \in {"open", "closing"}
      BY <1>1 DEF WaitSlotValid
    <3>2. WaitSlotValid'
      BY <1>1, <2>1, <3>1, WaitSlotsKept
    <3>3. NextSlotValid' /\ NextIsServed'
      BY <1>1, <1>2, <2>1, NextSlotsKept
    <3> QED
      BY <3>2, <3>3
  <2>6. NoEarlyEvents' /\ EventsInOrder'
    BY <1>1, <1>2, EventsKept
  <2> QED
    BY <2>2, <2>3, <2>4, <2>5, <2>6
<1>3. CASE /\ Complete({t}) /\ ~Busy(w) /\ events[w] # <<>>
           /\ seen' = [seen EXCEPT ![w] = Append(@, Head(events[w]))]
           /\ events' = [events EXCEPT ![w] = Tail(@)]
           /\ UNCHANGED pendingNext
  <2>1. /\ TargetsTyped' /\ op'[t] = "none" /\ on'[t] = NoHandle
        /\ \A u \in Task : u # t => op'[u] = op[u] /\ on'[u] = on[u]
    BY <1>3, CompleteEffect
  <2>2. /\ seen[w] \in Seq(1..MaxEvents) /\ events[w] \in Seq(1..MaxEvents)
        /\ Head(events[w]) \in 1..MaxEvents /\ Tail(events[w]) \in Seq(1..MaxEvents)
        /\ Append(seen[w], Head(events[w])) \in Seq(1..MaxEvents)
    BY <1>1, <1>3, RangeTail, AppendProperties DEF TypeOK
  <2>3. TypeOK'
    BY <1>1, <1>3, <2>1, <2>2 DEF TargetsTyped, TypeOK
  <2>4. InboxOnce' /\ InboxTargets' /\ NothingBehindClose'
    BY <1>1, <2>1, InboxAfterDispatch DEF DispatchNext
  <2>5. HandlesOwned'
    BY <1>1, <2>1, OwnershipKept DEF HandlesOwned
  <2>6. WaitSlotValid'
    <3>1. \A p \in Process : waitTask[p] # NoTask => state'[p] \in {"open", "closing"}
      BY <1>1 DEF WaitSlotValid
    <3> QED
      BY <1>1, <2>1, <3>1, WaitSlotsKept
  <2>7. NextSlotValid'
    <3> SUFFICES ASSUME NEW v \in Watcher, pendingNext'[v] # NoTask
                 PROVE /\ Parked(pendingNext[v])' /\ op'[pendingNext'[v]] = "next"
                       /\ on'[pendingNext'[v]] = v
                       /\ state'[v] = "open" /\ events'[v] = <<>>
      BY DEF NextSlotValid, Parked
    <3>1. v # w /\ pendingNext'[v] = pendingNext[v] /\ pendingNext[v] \in Task
          /\ events'[v] = events[v]
      BY <1>3 DEF Busy, TypeOK
    <3>2. /\ pendingNext[v] \notin Range(inbox) /\ op[pendingNext[v]] = "next"
          /\ on[pendingNext[v]] = v /\ state[v] = "open" /\ events[v] = <<>>
      BY <3>1 DEF NextSlotValid, Parked
    <3>3. pendingNext[v] # t
      BY <1>1, <3>2
    <3> QED
      BY <1>1, <2>1, <3>1, <3>2, <3>3 DEF Parked
  <2>8. NextIsServed'
    <3> SUFFICES ASSUME NEW u \in Task, op'[u] = "next", u \notin Range(inbox')
                 PROVE /\ pendingNext'[on'[u]] = u
                       /\ state'[on'[u]] = "open" /\ events'[on'[u]] = <<>>
      BY DEF NextIsServed, Parked
    <3>1. u # t /\ op[u] = "next" /\ on'[u] = on[u] /\ Parked(u)
      BY <1>1, <2>1 DEF Parked
    <3>2. pendingNext[on[u]] = u /\ state[on[u]] = "open" /\ events[on[u]] = <<>>
          /\ on[u] \in Watcher
      BY <3>1 DEF NextIsServed, TypeOK
    <3>3. on[u] # w
      BY <1>3, <3>2
    <3> QED
      BY <1>1, <1>3, <3>1, <3>2, <3>3 DEF TypeOK
  <2>9. NoEarlyEvents'
    BY <1>1, <1>3 DEF NoEarlyEvents, TypeOK
  <2>10. EventsInOrder'
    <3>1. Append(seen[w], Head(events[w])) \o Tail(events[w]) = seen[w] \o events[w]
      BY <1>3, <2>2, MoveFront
    <3> QED
      BY <1>1, <1>3, <3>1 DEF EventsInOrder, TypeOK
  <2> QED
    BY <2>3, <2>4, <2>5, <2>6, <2>7, <2>8, <2>9, <2>10
<1>4. CASE /\ ~Busy(w) /\ events[w] = <<>>
           /\ pendingNext' = [pendingNext EXCEPT ![w] = t]
           /\ UNCHANGED <<op, on, events, seen>>
  <2>1. TypeOK'
    BY <1>1, <1>4 DEF TypeOK
  <2>2. InboxOnce' /\ InboxTargets' /\ NothingBehindClose'
    BY <1>1, <1>4, InboxAfterDispatch DEF DispatchNext
  <2>3. HandlesOwned'
    BY <1>1, <1>4, OwnershipKept DEF HandlesOwned
  <2>4. WaitSlotValid'
    <3>1. \A p \in Process : waitTask[p] # NoTask => state'[p] \in {"open", "closing"}
      BY <1>1 DEF WaitSlotValid
    <3> QED
      BY <1>1, <1>4, <3>1, WaitSlotsKept
  <2>5. NextSlotValid'
    BY <1>1, <1>4 DEF NextSlotValid, Parked, TypeOK
  <2>6. NextIsServed'
    <3> SUFFICES ASSUME NEW u \in Task, op[u] = "next", u \notin Range(inbox')
                 PROVE pendingNext'[on[u]] = u /\ state[on[u]] = "open" /\ events[on[u]] = <<>>
      BY <1>1, <1>4 DEF NextIsServed, Parked
    <3>1. CASE u = t
      BY <1>1, <1>4, <3>1 DEF TypeOK
    <3>2. CASE u # t
      <4>1. pendingNext[on[u]] = u /\ state[on[u]] = "open" /\ events[on[u]] = <<>>
        BY <1>1, <3>2 DEF NextIsServed, Parked
      <4>2. on[u] # w
        BY <1>4, <4>1 DEF Busy
      <4> QED
        BY <1>4, <4>1, <4>2 DEF TypeOK
    <3> QED
      BY <3>1, <3>2
  <2>7. NoEarlyEvents' /\ EventsInOrder'
    BY <1>1, <1>4, EventsKept
  <2> QED
    BY <2>1, <2>2, <2>3, <2>4, <2>5, <2>6, <2>7
<1> QED
  BY <1>2, <1>3, <1>4 DEF DispatchNext, taskVars

\* FsWatchClose completes the parked waiter before the handle closes.
LEMMA DispatchWatchCloseInv ==
    ASSUME IInv, NEW t \in Task, DispatchWatchClose(t)
    PROVE IInv'
<1> USE ProcWatchAssumption DEF IInv, Handle, ProcOp, WatchOp, Closes, Opening
<1> DEFINE w == on[t]
           n == pendingNext[w]
<1>1. /\ op[t] = "close_watch" /\ w \in Watcher /\ state[w] = "open"
      /\ inbox' \in Seq(Task) /\ Range(inbox') \subseteq Task
      /\ Range(inbox) = {t} \cup Range(inbox') /\ t \notin Range(inbox')
      /\ pendingNext' = [pendingNext EXCEPT ![w] = NoTask]
      /\ UNCHANGED <<held, exited, waitTask, pipes, events, arrived, seen>>
  BY FrontOfInbox DEF DispatchWatchClose, procVars
<1>2. /\ TargetsTyped'
      /\ \A u \in Task : u # n => op'[u] = op[u] /\ on'[u] = on[u]
      /\ n \in Task => op'[n] = "none" /\ on'[n] = NoHandle
  BY CompleteEffect DEF DispatchWatchClose
<1>3. /\ StatesTyped' /\ state'[w] = "closing"
      /\ \A h \in Handle : h # w => state'[h] = state[h]
  BY <1>1, CloseEffect DEF DispatchWatchClose
<1>4. \A u \in Range(inbox') : on[u] # w
  BY LastOfItsHandle DEF DispatchWatchClose
<1>5. n # NoTask => n \in Task /\ op[n] = "next" /\ on[n] = w /\ n \notin Range(inbox)
  BY <1>1 DEF TypeOK, NextSlotValid, Parked
<1>6. TypeOK'
  BY <1>1, <1>2, <1>3 DEF TargetsTyped, StatesTyped, TypeOK
<1>7. InboxOnce' /\ InboxTargets' /\ NothingBehindClose'
  <2>1. \A u \in Range(inbox') : on[u] \in Handle /\ u # n
    BY <1>1, <1>5 DEF TypeOK, InboxTargets
  <2>2. \A u \in Range(inbox') :
          op'[u] = op[u] /\ on'[u] = on[u] /\ state'[on[u]] = state[on[u]]
    BY <1>1, <1>2, <1>3, <1>4, <2>1
  <2> QED
    BY <2>2, InboxAfterDispatch DEF DispatchWatchClose
<1>8. HandlesOwned'
  <2>1. \A u \in Task : op'[u] \in Opening => u \in Range(inbox')
    BY <1>1, <1>2, <1>5 DEF HandlesOwned
  <2>2. \A h \in held : h # w /\ h \in Handle
    BY <1>1 DEF TypeOK, HandlesOwned
  <2> QED
    BY <1>1, <1>2, <1>3, <2>1, <2>2, OwnershipKept
<1>9. WaitSlotValid'
  <2>1. \A p \in Process : state'[p] = state[p]
    BY <1>1, <1>3
  <2>2. \A u \in Task : (op[u] = "wait" /\ u \notin Range(inbox)) =>
          op'[u] = op[u] /\ on'[u] = on[u] /\ u \notin Range(inbox')
    BY <1>1, <1>2, <1>5
  <2> QED
    BY <1>1, <2>1, <2>2, WaitSlotsKept DEF WaitSlotValid
<1>10. NextSlotValid'
  <2> SUFFICES ASSUME NEW v \in Watcher, pendingNext'[v] # NoTask
               PROVE /\ Parked(pendingNext[v])' /\ op'[pendingNext'[v]] = "next"
                     /\ on'[pendingNext'[v]] = v
                     /\ state'[v] = "open" /\ events'[v] = <<>>
    BY DEF NextSlotValid, Parked
  <2>1. v # w /\ pendingNext'[v] = pendingNext[v] /\ pendingNext[v] \in Task
    BY <1>1 DEF TypeOK
  <2>2. /\ pendingNext[v] \notin Range(inbox) /\ op[pendingNext[v]] = "next"
        /\ on[pendingNext[v]] = v /\ state[v] = "open" /\ events[v] = <<>>
    BY <2>1 DEF NextSlotValid, Parked
  <2>3. pendingNext[v] # n
    BY <1>5, <2>1, <2>2
  <2> QED
    BY <1>1, <1>2, <1>3, <2>1, <2>2, <2>3 DEF Parked
<1>11. NextIsServed'
  <2> SUFFICES ASSUME NEW u \in Task, op'[u] = "next", u \notin Range(inbox')
               PROVE /\ pendingNext'[on'[u]] = u
                     /\ state'[on'[u]] = "open" /\ events'[on'[u]] = <<>>
    BY DEF NextIsServed, Parked
  <2>1. u # n /\ op[u] = "next" /\ on'[u] = on[u] /\ u \notin Range(inbox)
    BY <1>1, <1>2
  <2>2. pendingNext[on[u]] = u /\ state[on[u]] = "open" /\ events[on[u]] = <<>>
        /\ on[u] \in Watcher
    BY <2>1 DEF NextIsServed, Parked, TypeOK
  <2>3. on[u] # w
    BY <2>1, <2>2
  <2> QED
    BY <1>1, <1>3, <2>1, <2>2, <2>3 DEF TypeOK
<1>12. NoEarlyEvents' /\ EventsInOrder'
  BY <1>1, <1>3, EventsKept
<1> QED
  BY <1>6, <1>7, <1>8, <1>9, <1>10, <1>11, <1>12

-----------------------------------------------------------------------------
(* Callbacks. *)

\* on_process_exit completes the task in the slot and empties it.
LEMMA OnProcessExitInv ==
    ASSUME IInv, NEW p \in Process, OnProcessExit(p)
    PROVE IInv'
<1> USE ProcWatchAssumption DEF IInv, Handle, ProcOp, WatchOp, Closes, Opening
<1> DEFINE n == waitTask[p]
<1>1. /\ exited' = [exited EXCEPT ![p] = TRUE]
      /\ waitTask' = [waitTask EXCEPT ![p] = NoTask]
      /\ UNCHANGED <<inbox, state, held, pipes, pendingNext, events, arrived, seen>>
  BY DEF OnProcessExit, WaitSlotEmptied, watchVars
<1>2. /\ TargetsTyped'
      /\ \A u \in Task : u # n => op'[u] = op[u] /\ on'[u] = on[u]
      /\ n \in Task => op'[n] = "none" /\ on'[n] = NoHandle
  BY CompleteEffect DEF OnProcessExit
<1>3. n # NoTask => n \in Task /\ op[n] = "wait" /\ on[n] = p /\ n \notin Range(inbox)
  BY DEF TypeOK, WaitSlotValid, Parked
<1>4. TypeOK'
  BY <1>1, <1>2 DEF TargetsTyped, TypeOK
<1>5. InboxOnce' /\ InboxTargets' /\ NothingBehindClose'
  <2>1. Range(inbox) \subseteq Task
    BY RangeType DEF TypeOK
  <2> QED
    BY <1>1, <1>2, <1>3, <2>1, InboxAfterCallback
<1>6. HandlesOwned'
  BY <1>1, <1>2, <1>3, OwnershipKept DEF HandlesOwned
<1>7. WaitSlotValid'
  <2> SUFFICES ASSUME NEW q \in Process, waitTask'[q] # NoTask
               PROVE /\ Parked(waitTask[q])' /\ op'[waitTask'[q]] = "wait"
                     /\ on'[waitTask'[q]] = q
                     /\ ~exited'[q] /\ state'[q] \in {"open", "closing"}
    BY DEF WaitSlotValid, Parked
  <2>1. q # p /\ waitTask'[q] = waitTask[q] /\ waitTask[q] \in Task /\ exited'[q] = exited[q]
    BY <1>1 DEF TypeOK
  <2>2. /\ waitTask[q] \notin Range(inbox) /\ op[waitTask[q]] = "wait"
        /\ on[waitTask[q]] = q /\ ~exited[q] /\ state[q] \in {"open", "closing"}
    BY <2>1 DEF WaitSlotValid, Parked
  <2>3. waitTask[q] # n
    BY <1>3, <2>1, <2>2
  <2> QED
    BY <1>1, <1>2, <2>1, <2>2, <2>3 DEF Parked
<1>8. NextSlotValid' /\ NextIsServed'
  BY <1>1, <1>2, <1>3, NextSlotsKept
<1>9. NoEarlyEvents' /\ EventsInOrder'
  BY <1>1, EventsKept
<1> QED
  BY <1>4, <1>5, <1>6, <1>7, <1>8, <1>9

\* on_fs_event: an event goes to the waiter, whose watcher has no backlog, or to
\* the end of the backlog.
LEMMA OnFsEventInv ==
    ASSUME IInv, NEW w \in Watcher, OnFsEvent(w)
    PROVE IInv'
<1> USE ProcWatchAssumption DEF IInv, Handle, ProcOp, WatchOp, Closes, Opening
<1> DEFINE n == pendingNext[w]
           k == arrived[w] + 1
<1>1. /\ state[w] = "open" /\ k \in 1..MaxEvents
      /\ arrived' = [arrived EXCEPT ![w] = k]
      /\ pendingNext' = [pendingNext EXCEPT ![w] = NoTask]
      /\ UNCHANGED <<inbox, state, held, exited, waitTask, pipes>>
  BY DEF OnFsEvent, procVars, TypeOK
<1>2. \/ /\ n # NoTask /\ events' = events
         /\ seen' = [seen EXCEPT ![w] = Append(@, k)]
      \/ /\ n = NoTask /\ seen' = seen
         /\ events' = [events EXCEPT ![w] = Append(@, k)]
  BY DEF OnFsEvent, BacklogAfter, Busy
<1>3. /\ TargetsTyped'
      /\ \A u \in Task : u # n => op'[u] = op[u] /\ on'[u] = on[u]
      /\ n \in Task => op'[n] = "none" /\ on'[n] = NoHandle
  BY CompleteEffect DEF OnFsEvent
<1>4. n # NoTask => /\ n \in Task /\ op[n] = "next" /\ on[n] = w /\ n \notin Range(inbox)
                    /\ events[w] = <<>>
  BY DEF TypeOK, NextSlotValid, Parked
<1>5. TypeOK'
  <2>1. /\ seen[w] \in Seq(1..MaxEvents) /\ events[w] \in Seq(1..MaxEvents)
        /\ Append(seen[w], k) \in Seq(1..MaxEvents)
        /\ Append(events[w], k) \in Seq(1..MaxEvents)
    BY <1>1, AppendProperties DEF TypeOK
  <2>2. seen' \in [Watcher -> Seq(1..MaxEvents)] /\ events' \in [Watcher -> Seq(1..MaxEvents)]
    <3>1. seen \in [Watcher -> Seq(1..MaxEvents)] /\ events \in [Watcher -> Seq(1..MaxEvents)]
      BY DEF TypeOK
    <3>2. CASE events' = events /\ seen' = [seen EXCEPT ![w] = Append(seen[w], k)]
      BY <2>1, <3>1, <3>2
    <3>3. CASE seen' = seen /\ events' = [events EXCEPT ![w] = Append(events[w], k)]
      BY <2>1, <3>1, <3>3
    <3> QED
      BY <1>2, <3>2, <3>3
  <2>3. arrived' \in [Watcher -> 0..MaxEvents]
    BY <1>1 DEF TypeOK
  <2>4. pendingNext' \in [Watcher -> Task \cup {NoTask}]
    BY <1>1 DEF TypeOK
  <2> QED
    BY <1>1, <1>3, <2>2, <2>3, <2>4 DEF TargetsTyped, TypeOK
<1>6. InboxOnce' /\ InboxTargets' /\ NothingBehindClose'
  <2>1. Range(inbox) \subseteq Task
    BY RangeType DEF TypeOK
  <2> QED
    BY <1>1, <1>3, <1>4, <2>1, InboxAfterCallback
<1>7. HandlesOwned'
  BY <1>1, <1>3, <1>4, OwnershipKept DEF HandlesOwned
<1>8. WaitSlotValid'
  BY <1>1, <1>3, <1>4, WaitSlotsKept DEF WaitSlotValid
<1>9. NextSlotValid'
  <2> SUFFICES ASSUME NEW v \in Watcher, pendingNext'[v] # NoTask
               PROVE /\ Parked(pendingNext[v])' /\ op'[pendingNext'[v]] = "next"
                     /\ on'[pendingNext'[v]] = v
                     /\ state'[v] = "open" /\ events'[v] = <<>>
    BY DEF NextSlotValid, Parked
  <2>1. v # w /\ pendingNext'[v] = pendingNext[v] /\ pendingNext[v] \in Task
        /\ events'[v] = events[v]
    BY <1>1, <1>2 DEF TypeOK
  <2>2. /\ pendingNext[v] \notin Range(inbox) /\ op[pendingNext[v]] = "next"
        /\ on[pendingNext[v]] = v /\ state[v] = "open" /\ events[v] = <<>>
    BY <2>1 DEF NextSlotValid, Parked
  <2>3. pendingNext[v] # n
    BY <1>4, <2>1, <2>2
  <2> QED
    BY <1>1, <1>3, <2>1, <2>2, <2>3 DEF Parked
<1>10. NextIsServed'
  <2> SUFFICES ASSUME NEW u \in Task, op'[u] = "next", u \notin Range(inbox')
               PROVE /\ pendingNext'[on'[u]] = u
                     /\ state'[on'[u]] = "open" /\ events'[on'[u]] = <<>>
    BY DEF NextIsServed, Parked
  <2>1. u # n /\ op[u] = "next" /\ on'[u] = on[u] /\ u \notin Range(inbox)
    BY <1>1, <1>3
  <2>2. pendingNext[on[u]] = u /\ state[on[u]] = "open" /\ events[on[u]] = <<>>
        /\ on[u] \in Watcher
    BY <2>1 DEF NextIsServed, Parked, TypeOK
  <2>3. on[u] # w
    BY <2>1, <2>2
  <2> QED
    BY <1>1, <1>2, <2>1, <2>2, <2>3 DEF TypeOK
<1>11. NoEarlyEvents'
  BY <1>1, <1>2 DEF NoEarlyEvents, TypeOK
<1>12. EventsInOrder'
  <2>1. /\ seen[w] \in Seq(1..MaxEvents) /\ events[w] \in Seq(1..MaxEvents)
        /\ arrived[w] \in Nat
        /\ seen[w] \o events[w] = [i \in 1..arrived[w] |-> i]
    <3>1. seen[w] \in Seq(1..MaxEvents) /\ events[w] \in Seq(1..MaxEvents)
      BY DEF TypeOK
    <3>2. arrived[w] \in Nat
      BY DEF TypeOK
    <3>3. EventsInOrder /\ state[w] = "open"
      BY <1>1
    <3>4. seen[w] \o events[w] = [i \in 1..arrived[w] |-> i]
      BY <3>3 DEF EventsInOrder
    <3> QED
      BY <3>1, <3>2, <3>4
  <2>2. Append(seen[w] \o events[w], k) = [i \in 1..k |-> i]
    BY <2>1, CountOn
  <2>3. seen'[w] \o events'[w] = Append(seen[w] \o events[w], k)
    <3>1. CASE n = NoTask
      <4>1. events'[w] = Append(events[w], k) /\ seen'[w] = seen[w]
        BY <1>2, <3>1 DEF TypeOK
      <4>2. seen[w] \o Append(events[w], k) = Append(seen[w] \o events[w], k)
        <5>1. k \in 1..MaxEvents
          BY <1>1
        <5>2. seen[w] \in Seq(1..MaxEvents) /\ events[w] \in Seq(1..MaxEvents)
          BY <2>1
        <5>3. \A s, q \in Seq(1..MaxEvents), x \in 1..MaxEvents :
                s \o Append(q, x) = Append(s \o q, x)
          BY AppendToSecond
        <5> HIDE DEF k
        <5> QED
          BY <5>1, <5>2, <5>3, Zenon
      <4> QED
        BY <4>1, <4>2
    <3>2. CASE n # NoTask
      <4>1. events[w] = <<>> /\ events'[w] = <<>> /\ seen'[w] = Append(seen[w], k)
        BY <1>2, <1>4, <3>2 DEF TypeOK
      <4>2. Append(seen[w], k) \in Seq(1..MaxEvents)
        BY <1>1, <2>1, AppendProperties
      <4> QED
        BY <2>1, <4>1, <4>2, ConcatEmptySeq
    <3> QED
      BY <3>1, <3>2
  <2>4. \A v \in Watcher : v # w => /\ seen'[v] = seen[v] /\ events'[v] = events[v]
                                    /\ arrived'[v] = arrived[v]
    BY <1>1, <1>2 DEF TypeOK
  <2>5. arrived'[w] = k
    BY <1>1 DEF TypeOK
  <2> QED
    BY <1>1, <2>2, <2>3, <2>4, <2>5 DEF EventsInOrder
<1> QED
  BY <1>5, <1>6, <1>7, <1>8, <1>9, <1>10, <1>11, <1>12

\* OnClosed deletes a closing handle, which no queued task names.
LEMMA OnClosedInv ==
    ASSUME IInv, NEW h \in Handle, OnClosed(h)
    PROVE IInv'
<1> USE ProcWatchAssumption DEF IInv, Handle, ProcOp, WatchOp, Closes, Opening
<1>1. /\ state[h] = "closing" /\ state' = [state EXCEPT ![h] = "deleted"]
      /\ waitTask' = [p \in Process |-> IF p = h THEN NoTask ELSE waitTask[p]]
      /\ events' = [w \in Watcher |-> IF w = h THEN <<>> ELSE events[w]]
      /\ UNCHANGED <<inbox, held, exited, pipes, pendingNext, arrived, seen>>
  BY DEF OnClosed
<1>2. /\ TargetsTyped'
      /\ \A u \in Task : ~(on[u] = h /\ op[u] \in Closes) => op'[u] = op[u] /\ on'[u] = on[u]
      /\ \A u \in Task : (on[u] = h /\ op[u] \in Closes) => op'[u] = "none" /\ on'[u] = NoHandle
  BY CompleteEffect DEF OnClosed
<1>3. Range(inbox) \subseteq Task /\ \A u \in Range(inbox) : on[u] # h
  BY <1>1, RangeType DEF TypeOK, InboxTargets
<1>4. TypeOK'
  <2>1. events' \in [Watcher -> Seq(1..MaxEvents)]
    BY <1>1, EmptySeq DEF TypeOK
  <2>2. waitTask' \in [Process -> Task \cup {NoTask}]
    BY <1>1 DEF TypeOK
  <2> QED
    BY <1>1, <1>2, <2>1, <2>2 DEF TargetsTyped, TypeOK
<1>5. InboxOnce' /\ InboxTargets' /\ NothingBehindClose'
  <2>1. \A u \in Range(inbox) :
          op'[u] = op[u] /\ on'[u] = on[u] /\ state'[on[u]] = state[on[u]]
    BY <1>1, <1>2, <1>3 DEF TypeOK
  <2> QED
    BY <1>1, <2>1, InboxAfterCallback
<1>6. HandlesOwned'
  <2>1. \A g \in held : g # h /\ g \in Handle
    BY <1>1 DEF TypeOK, HandlesOwned
  <2>2. \A u \in Task : op'[u] \in Opening => u \in Range(inbox')
    BY <1>1, <1>2 DEF HandlesOwned
  <2> QED
    BY <1>1, <1>2, <2>1, <2>2, OwnershipKept DEF TypeOK
<1>7. WaitSlotValid'
  <2> SUFFICES ASSUME NEW q \in Process, waitTask'[q] # NoTask
               PROVE /\ Parked(waitTask[q])' /\ op'[waitTask'[q]] = "wait"
                     /\ on'[waitTask'[q]] = q
                     /\ ~exited'[q] /\ state'[q] \in {"open", "closing"}
    BY DEF WaitSlotValid, Parked
  <2>1. q # h /\ waitTask'[q] = waitTask[q] /\ waitTask[q] \in Task /\ state'[q] = state[q]
    BY <1>1 DEF TypeOK
  <2>2. /\ waitTask[q] \notin Range(inbox) /\ op[waitTask[q]] = "wait"
        /\ on[waitTask[q]] = q /\ ~exited[q] /\ state[q] \in {"open", "closing"}
    BY <2>1 DEF WaitSlotValid, Parked
  <2> QED
    BY <1>1, <1>2, <2>1, <2>2 DEF Parked
<1>8. NextSlotValid'
  <2> SUFFICES ASSUME NEW v \in Watcher, pendingNext'[v] # NoTask
               PROVE /\ Parked(pendingNext[v])' /\ op'[pendingNext'[v]] = "next"
                     /\ on'[pendingNext'[v]] = v
                     /\ state'[v] = "open" /\ events'[v] = <<>>
    BY DEF NextSlotValid, Parked
  <2>1. /\ pendingNext[v] \in Task /\ pendingNext[v] \notin Range(inbox)
        /\ op[pendingNext[v]] = "next" /\ on[pendingNext[v]] = v
        /\ state[v] = "open" /\ events[v] = <<>>
    BY <1>1 DEF TypeOK, NextSlotValid, Parked
  <2> QED
    BY <1>1, <1>2, <2>1 DEF Parked, TypeOK
<1>9. NextIsServed'
  <2> SUFFICES ASSUME NEW u \in Task, op'[u] = "next", u \notin Range(inbox')
               PROVE /\ pendingNext'[on'[u]] = u
                     /\ state'[on'[u]] = "open" /\ events'[on'[u]] = <<>>
    BY DEF NextIsServed, Parked
  <2>1. op[u] = "next" /\ on'[u] = on[u] /\ u \notin Range(inbox)
    BY <1>1, <1>2
  <2>2. pendingNext[on[u]] = u /\ state[on[u]] = "open" /\ events[on[u]] = <<>>
        /\ on[u] \in Watcher
    BY <2>1 DEF NextIsServed, Parked, TypeOK
  <2> QED
    BY <1>1, <2>1, <2>2 DEF TypeOK
<1>10. NoEarlyEvents' /\ EventsInOrder'
  BY <1>1 DEF NoEarlyEvents, EventsInOrder, TypeOK
<1> QED
  BY <1>4, <1>5, <1>6, <1>7, <1>8, <1>9, <1>10

-----------------------------------------------------------------------------

\* Every step preserves IInv.
LEMMA StepIInv == IInv /\ [Next]_vars => IInv'
<1> SUFFICES ASSUME IInv, [Next]_vars PROVE IInv'
  OBVIOUS
<1>1. CASE Scheme
  BY <1>1, SubmitNewInv, SubmitOnInv, ClosePipesInv DEF Scheme
<1>2. ASSUME NEW t \in Task, Dispatch(t) PROVE IInv'
  BY <1>2, DispatchSpawnInv, DispatchWaitInv, DispatchKillInv, DispatchProcCloseInv,
     DispatchWatchOpenInv, DispatchNextInv, DispatchWatchCloseInv DEF Dispatch
<1>3. ASSUME NEW p \in Process, OnProcessExit(p) PROVE IInv'
  BY <1>3, OnProcessExitInv
<1>4. ASSUME NEW w \in Watcher, OnFsEvent(w) PROVE IInv'
  BY <1>4, OnFsEventInv
<1>5. ASSUME NEW h \in Handle, OnClosed(h) PROVE IInv'
  BY <1>5, OnClosedInv
<1>6. CASE UNCHANGED vars
  <2> USE DEF IInv, vars, taskVars, procVars, watchVars
  <2>1. TypeOK' /\ InboxOnce' /\ InboxTargets' /\ NothingBehindClose' /\ HandlesOwned'
    BY <1>6 DEF TypeOK, InboxOnce, InboxTargets, NothingBehindClose, HandlesOwned
  <2>2. WaitSlotValid' /\ NextSlotValid' /\ NextIsServed'
    BY <1>6 DEF WaitSlotValid, NextSlotValid, NextIsServed, Parked
  <2>3. NoEarlyEvents' /\ EventsInOrder'
    BY <1>6 DEF NoEarlyEvents, EventsInOrder
  <2> QED
    BY <2>1, <2>2, <2>3
<1> QED
  BY <1>1, <1>2, <1>3, <1>4, <1>5, <1>6 DEF Next, Asleep

\* IInv holds throughout.
THEOREM Inductive == Spec => []IInv
  BY InitIInv, StepIInv, PTL DEF Spec

\* The types of ProcWatch; a task names a process or a watcher according to its
\* operation.
THEOREM TypeCorrect == Spec => []TypeOK
<1>1. IInv => TypeOK
  BY DEF IInv
<1> QED
  BY <1>1, Inductive, PTL

\* Process::wait_task is always an outstanding wait of this process, so that
\* on_process_exit completes no task twice and none that was freed.
THEOREM WaitSlotNeverStale == Spec => []WaitSlotValid
<1>1. IInv => WaitSlotValid
  BY DEF IInv
<1> QED
  BY <1>1, Inductive, PTL

\* A parked io-watch-next is always the pending_next of an open watcher without
\* a backlog: the next event, or the close, finds it.
THEOREM NextNeverLost == Spec => []NextIsServed
<1>1. IInv => NextIsServed
  BY DEF IInv
<1> QED
  BY <1>1, Inductive, PTL

\* The events handed out and the backlog are together all events so far, in the
\* order they arrived.
THEOREM EventsDeliveredInOrder == Spec => []EventsInOrder
<1>1. IInv => EventsInOrder
  BY DEF IInv
<1> QED
  BY <1>1, Inductive, PTL
=============================================================================
