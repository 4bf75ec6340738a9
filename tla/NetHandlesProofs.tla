-------------------------- MODULE NetHandlesProofs --------------------------
(***************************************************************************)
(* Proofs about NetHandles, for any sets of tasks, listeners and streams:  *)
(* a queued operation finds its stream open, the three records of who is   *)
(* reading agree, the registry holds exactly the open listeners, and no    *)
(* connection is leaked.                                                   *)
(***************************************************************************)
EXTENDS NetHandles, SequenceLemmas

Opening == {"listen", "connect"}

\* A task names a target of the right kind, and a free task names none.
TargetsFit ==
    \A t \in Task :
      \/ op[t] = "none" /\ on[t] = NoHandle
      \/ op[t] \in StreamOp \cup {"connect"} /\ on[t] \in Stream
      \/ op[t] \in ListenerOp \cup {"listen"} /\ on[t] \in Listener

(***************************************************************************)
(* The inbox.  A task is in it once; an operation on a stream finds it     *)
(* open, because nothing on that stream is queued behind its close.        *)
(***************************************************************************)
InboxOnce == NoDuplicates(inbox)

InboxTargets ==
    \A t \in Range(inbox) :
      /\ op[t] # "none"
      /\ op[t] \in Opening => state[on[t]] = "none"
      /\ op[t] \in StreamOp => state[on[t]] = "open"

NothingBehindClose ==
    \A i, j \in DOMAIN inbox :
      (i < j /\ op[inbox[i]] = "close_stream") => on[inbox[j]] # on[inbox[i]]

(***************************************************************************)
(* Ownership.  A stream that Scheme has is open and nobody is closing it,  *)
(* and a listener it has was created; a task that opens a handle is the    *)
(* only one that names it, and a connect that was dispatched has a         *)
(* connecting stream.                                                      *)
(***************************************************************************)
HeldIsAlive ==
    /\ \A s \in held \cap Stream : state[s] = "open"
    /\ \A l \in held \cap Listener : state[l] # "none"

ClosedIsGivenUp == \A t \in Task : op[t] = "close_stream" => on[t] \notin held

OpeningIsAlone ==
    \A t \in Task : op[t] \in Opening =>
      /\ \A u \in Task : on[u] = on[t] => u = t
      /\ t \notin Range(inbox) => op[t] = "connect" /\ state[on[t]] = "connecting"

\* Who waits in the queues of a stream and of a listener.
ReadersQueued ==
    \A s \in Stream :
      /\ NoDuplicates(readQueue[s])
      /\ \A t \in Range(readQueue[s]) : op[t] = "read" /\ on[t] = s /\ t \notin Range(inbox)

ReadingWhileQueued ==
    \A s \in Stream :
      /\ readActive[s] <=> readQueue[s] # <<>>
      /\ readActive[s] <=> s \in reading
      /\ readActive[s] => state[s] = "open"

AcceptorsQueued ==
    \A l \in Listener :
      /\ NoDuplicates(pendingAccepts[l])
      /\ \A t \in Range(pendingAccepts[l]) :
           op[t] = "accept" /\ on[t] = l /\ t \notin Range(inbox)

(***************************************************************************)
(* A backlog is that of an open listener without acceptors.  Its streams   *)
(* are open, in one backlog once, and nobody has or names them.            *)
(***************************************************************************)
BacklogUntouched ==
    \A l \in Listener :
      /\ NoDuplicates(accepted[l])
      /\ accepted[l] # <<>> => state[l] = "open" /\ pendingAccepts[l] = <<>>
      /\ \A s \in Range(accepted[l]) :
           /\ state[s] = "open" /\ s \notin held
           /\ \A t \in Task : on[t] # s
           /\ \A m \in Listener : s \in Range(accepted[m]) => m = l

RegistryIsOpen == \A l \in Listener : l \in registry <=> state[l] = "open"

OpenStreamsOwned ==
    \A s \in Stream : state[s] = "open" =>
      \/ s \in held
      \/ \E t \in Range(inbox) : op[t] = "close_stream" /\ on[t] = s
      \/ \E l \in Listener : s \in Range(accepted[l])

\* What the theorems rest on.
IInv ==
    /\ TypeOK /\ TargetsFit
    /\ InboxOnce /\ InboxTargets /\ NothingBehindClose
    /\ HeldIsAlive /\ ClosedIsGivenUp /\ OpeningIsAlone
    /\ ReadersQueued /\ ReadingWhileQueued
    /\ AcceptorsQueued /\ BacklogUntouched /\ RegistryIsOpen
    /\ OpenStreamsOwned

-----------------------------------------------------------------------------

\* Before anything is submitted IInv holds.
LEMMA InitIInv == Init => IInv
<1> SUFFICES ASSUME Init PROVE IInv
  OBVIOUS
<1>1. TypeOK
  <2>1. <<>> \in Seq(Task) /\ <<>> \in Seq(Stream)
    OBVIOUS
  <2> QED
    BY <2>1 DEF Init, TypeOK, Handle, Op
<1>2. Range(inbox) = {} /\ NoDuplicates(<<>>) /\ \A S : Range(<<>>) = {}
  BY DEF Init, Range, NoDuplicates
<1>3. TargetsFit /\ InboxOnce /\ InboxTargets /\ NothingBehindClose
  BY <1>2 DEF Init, TargetsFit, InboxOnce, InboxTargets, NothingBehindClose
<1>4. HeldIsAlive /\ ClosedIsGivenUp /\ OpeningIsAlone
  BY DEF Init, HeldIsAlive, ClosedIsGivenUp, OpeningIsAlone, Opening
<1>5. ReadersQueued /\ ReadingWhileQueued /\ AcceptorsQueued
  BY <1>2 DEF Init, ReadersQueued, ReadingWhileQueued, AcceptorsQueued
<1>6. BacklogUntouched /\ RegistryIsOpen /\ OpenStreamsOwned
  BY <1>2 DEF Init, BacklogUntouched, RegistryIsOpen, OpenStreamsOwned, Handle
<1> QED
  BY <1>1, <1>3, <1>4, <1>5, <1>6 DEF IInv

-----------------------------------------------------------------------------
(* The inbox under Submit, Dispatch and the callbacks. *)

\* Dispatch takes the front of the inbox, which was in it once and finds its
\* stream as it expects it.
LEMMA FrontOfInbox ==
    ASSUME IInv, NEW t \in Task, NEW o, Dispatched(t, o)
    PROVE /\ op[t] = o
          /\ o \in Opening => state[on[t]] = "none"
          /\ o \in StreamOp => state[on[t]] = "open"
          /\ o \in StreamOp \cup {"connect"} => on[t] \in Stream
          /\ o \in ListenerOp \cup {"listen"} => on[t] \in Listener
          /\ inbox' \in Seq(Task) /\ Range(inbox') \subseteq Task
          /\ Range(inbox) = {t} \cup Range(inbox') /\ t \notin Range(inbox')
          /\ InboxOnce'
<1>1. inbox \in Seq(Task) /\ inbox # <<>> /\ NoDuplicates(inbox)
      /\ inbox' = Tail(inbox) /\ t = Head(inbox) /\ op[t] = o
  BY DEF IInv, TypeOK, InboxOnce, Dispatched
<1>2. Tail(inbox) \in Seq(Task) /\ Range(inbox) = {t} \cup Range(Tail(inbox))
  BY <1>1, RangeTail
<1>3. NoDuplicates(Tail(inbox)) /\ t \notin Range(Tail(inbox))
  BY <1>1, NoDuplicatesTail
<1>4. Range(Tail(inbox)) \subseteq Task
  BY <1>2, RangeType
<1>5. /\ o \in Opening => state[on[t]] = "none"
      /\ o \in StreamOp => state[on[t]] = "open"
  BY <1>1, <1>2 DEF IInv, InboxTargets
<1>6. /\ o \in StreamOp \cup {"connect"} => on[t] \in Stream
      /\ o \in ListenerOp \cup {"listen"} => on[t] \in Listener
  BY <1>1 DEF IInv, TargetsFit, StreamOp, ListenerOp
<1> QED
  BY <1>1, <1>2, <1>3, <1>4, <1>5, <1>6 DEF InboxOnce

\* A dispatch that changes nothing for the tasks still queued keeps the inbox
\* in order.
LEMMA InboxAfterDispatch ==
    ASSUME IInv, NEW t \in Task, NEW o, Dispatched(t, o),
           \A u \in Range(inbox') :
             /\ op'[u] = op[u] /\ on'[u] = on[u]
             /\ op[u] \notin ListenerOp => state'[on[u]] = state[on[u]]
    PROVE InboxOnce' /\ InboxTargets' /\ NothingBehindClose'
<1>1. InboxOnce' /\ inbox' \in Seq(Task) /\ Range(inbox) = {t} \cup Range(inbox')
  BY FrontOfInbox
<1>2. InboxTargets'
  BY <1>1 DEF IInv, InboxTargets, Opening, StreamOp, ListenerOp
<1>3. NothingBehindClose'
  <2>1. inbox \in Seq(Task) /\ inbox # <<>> /\ inbox' = Tail(inbox)
    BY DEF IInv, TypeOK, Dispatched
  <2>2. DOMAIN inbox' = 1..(Len(inbox) - 1) /\ DOMAIN inbox = 1..Len(inbox)
        /\ Len(inbox) \in Nat
        /\ \A i \in DOMAIN inbox' : inbox'[i] = inbox[i + 1]
    BY <1>1, <2>1, HeadTailProperties, LenProperties
  <2>3. \A i \in DOMAIN inbox' : inbox'[i] \in Range(inbox')
    BY DEF Range
  <2>4. SUFFICES ASSUME NEW i \in DOMAIN inbox', NEW j \in DOMAIN inbox',
                        i < j, op'[inbox'[i]] = "close_stream"
                 PROVE on'[inbox'[j]] # on'[inbox'[i]]
    BY DEF NothingBehindClose
  <2>5. op[inbox[i + 1]] = "close_stream" /\ on'[inbox'[i]] = on[inbox[i + 1]]
        /\ on'[inbox'[j]] = on[inbox[j + 1]]
    BY <2>2, <2>3, <2>4
  <2>6. i + 1 \in DOMAIN inbox /\ j + 1 \in DOMAIN inbox /\ i + 1 < j + 1
    BY <2>2, <2>4
  <2> QED
    BY <2>5, <2>6 DEF IInv, NothingBehindClose
<1> QED
  BY <1>1, <1>2, <1>3

\* A new task goes to the end of the inbox; its stream must be as it expects,
\* and must not be on its way to be closed.
LEMMA InboxAfterSubmit ==
    ASSUME IInv, NEW t \in Task, op[t] = "none", inbox' = Queued(t), UNCHANGED state,
           op'[t] # "none",
           \A u \in Task \ {t} : op'[u] = op[u] /\ on'[u] = on[u],
           op'[t] \in Opening => state[on'[t]] = "none",
           op'[t] \in StreamOp => state[on'[t]] = "open",
           \A u \in Range(inbox) : op[u] = "close_stream" => on[u] # on'[t]
    PROVE /\ InboxOnce' /\ InboxTargets' /\ NothingBehindClose'
          /\ inbox' \in Seq(Task) /\ Range(inbox') = Range(inbox) \cup {t}
<1>1. inbox \in Seq(Task) /\ t \notin Range(inbox) /\ Range(inbox) \subseteq Task
      /\ inbox' = Append(inbox, t)
  BY RangeType DEF IInv, TypeOK, InboxTargets, Queued
<1>2. inbox' \in Seq(Task) /\ Range(inbox') = Range(inbox) \cup {t}
  BY <1>1, RangeAppend, AppendProperties
<1>3. InboxOnce'
  BY <1>1, NoDuplicatesAppend DEF IInv, InboxOnce
<1>4. InboxTargets'
  BY <1>1, <1>2 DEF IInv, InboxTargets
<1>5. NothingBehindClose'
  <2>1. DOMAIN inbox' = 1..(Len(inbox) + 1) /\ DOMAIN inbox = 1..Len(inbox)
        /\ Len(inbox) \in Nat /\ inbox'[Len(inbox) + 1] = t
        /\ \A i \in DOMAIN inbox : inbox'[i] = inbox[i] /\ inbox[i] \in Range(inbox)
    BY <1>1, <1>2, AppendProperties, LenProperties DEF Range
  <2>2. SUFFICES ASSUME NEW i \in DOMAIN inbox', NEW j \in DOMAIN inbox',
                        i < j, op'[inbox'[i]] = "close_stream"
                 PROVE on'[inbox'[j]] # on'[inbox'[i]]
    BY DEF NothingBehindClose
  <2>3. i \in DOMAIN inbox /\ inbox'[i] = inbox[i] /\ inbox[i] \in Range(inbox)
    BY <2>1, <2>2
  <2>4. op[inbox[i]] = "close_stream" /\ on'[inbox'[i]] = on[inbox[i]]
    BY <1>1, <2>2, <2>3
  <2>5. CASE j = Len(inbox) + 1
    BY <2>1, <2>3, <2>4, <2>5
  <2>6. CASE j \in DOMAIN inbox
    BY <1>1, <2>1, <2>2, <2>3, <2>4, <2>6 DEF IInv, NothingBehindClose
  <2> QED
    BY <2>1, <2>5, <2>6
<1> QED
  BY <1>2, <1>3, <1>4, <1>5

\* A callback that changes nothing for the queued tasks leaves the inbox alone.
LEMMA InboxAfterCallback ==
    ASSUME IInv, inbox' = inbox,
           \A u \in Range(inbox) :
             /\ op'[u] = op[u] /\ on'[u] = on[u]
             /\ op[u] \notin ListenerOp => state'[on[u]] = state[on[u]]
    PROVE InboxOnce' /\ InboxTargets' /\ NothingBehindClose'
<1>1. InboxOnce' /\ InboxTargets'
  BY DEF IInv, InboxOnce, InboxTargets, Opening, StreamOp, ListenerOp
<1>2. \A i \in DOMAIN inbox : inbox[i] \in Range(inbox)
  BY DEF Range
<1>3. NothingBehindClose'
  BY <1>2 DEF IInv, NothingBehindClose
<1> QED
  BY <1>1, <1>3

\* A close is the last queued task of its stream.
LEMMA LastOfItsStream ==
    ASSUME IInv, NEW t \in Task, Dispatched(t, "close_stream")
    PROVE \A u \in Range(inbox') : on[u] # on[t]
<1>1. inbox \in Seq(Task) /\ inbox # <<>> /\ inbox' = Tail(inbox) /\ t = inbox[1]
      /\ op[t] = "close_stream"
  BY DEF IInv, TypeOK, Dispatched
<1>2. Tail(inbox) \in Seq(Task) /\ Len(Tail(inbox)) = Len(inbox) - 1 /\ Len(inbox) \in Nat
      /\ \A i \in 1..Len(Tail(inbox)) : Tail(inbox)[i] = inbox[i + 1]
  BY <1>1, HeadTailProperties, LenProperties
<1> SUFFICES ASSUME NEW u \in Range(inbox') PROVE on[u] # on[t]
  OBVIOUS
<1>3. PICK i \in 1..Len(Tail(inbox)) : Tail(inbox)[i] = u
  BY <1>1, <1>2, InRange
<1>4. inbox[i + 1] = u /\ i + 1 \in DOMAIN inbox /\ 1 \in DOMAIN inbox /\ 1 < i + 1
  BY <1>1, <1>2, <1>3
<1> QED
  BY <1>1, <1>4 DEF IInv, NothingBehindClose

(***************************************************************************)
(* The types of op, on and state, and what Complete and LoopHandle::Close  *)
(* do.                                                                     *)
(***************************************************************************)
TasksTyped == op \in [Task -> Op] /\ on \in [Task -> Handle \cup {NoHandle}] /\ TargetsFit

StatesTyped ==
    /\ state \in [Handle -> {"none", "connecting", "open", "closing", "deleted"}]
    /\ \A s \in Stream : state[s] # "deleted"
    /\ \A l \in Listener : state[l] # "connecting"

\* Complete frees the tasks of the set and leaves the others alone.
LEMMA CompleteEffect ==
    ASSUME IInv, NEW ts, Complete(ts)
    PROVE /\ TasksTyped'
          /\ \A u \in Task : u \notin ts => op'[u] = op[u] /\ on'[u] = on[u]
          /\ \A u \in Task : u \in ts => op'[u] = "none" /\ on'[u] = NoHandle
  BY DEF IInv, TypeOK, TasksTyped, TargetsFit, Complete, Op

\* Tasks that are left alone keep their types.
LEMMA TasksUnchanged ==
    ASSUME IInv, UNCHANGED taskVars
    PROVE TasksTyped' /\ \A u \in Task : op'[u] = op[u] /\ on'[u] = on[u]
  BY DEF IInv, TypeOK, TasksTyped, TargetsFit, taskVars

\* Close begins to close the handles of the set.
LEMMA CloseEffect ==
    ASSUME IInv, NEW hs, Close(hs)
    PROVE /\ StatesTyped'
          /\ \A g \in Handle : state'[g] = (IF g \in hs THEN "closing" ELSE state[g])
  BY DEF IInv, TypeOK, StatesTyped, Close, Handle

\* The state of one handle changes.
LEMMA StateEffect ==
    ASSUME IInv, NEW h \in Handle, NEW x, state' = [state EXCEPT ![h] = x],
           x \in {"none", "open", "closing"} \/ (h \in Stream /\ x = "connecting")
                                             \/ (h \in Listener /\ x = "deleted")
    PROVE /\ StatesTyped' /\ state'[h] = x
          /\ \A g \in Handle : g # h => state'[g] = state[g]
  BY NetAssumption DEF IInv, TypeOK, StatesTyped, Handle

-----------------------------------------------------------------------------
(* What a step must leave alone so that one part of IInv stays true. *)

\* Ownership, when tasks are only completed and a stream becomes Scheme's only
\* when nobody names it.
LEMMA OwnersKept ==
    ASSUME IInv,
           \A u \in Task : \/ op'[u] = op[u] /\ on'[u] = on[u]
                           \/ op'[u] = "none" /\ on'[u] = NoHandle,
           \A u \in Task : op'[u] \in Opening =>
             \/ u \in Range(inbox')
             \/ op'[u] = "connect" /\ state'[on'[u]] = "connecting",
           \A h \in held' \cap Stream :
             \/ h \in held /\ state'[h] = state[h]
             \/ state'[h] = "open" /\ \A u \in Task : on'[u] # h,
           \A h \in held' \cap Listener : state'[h] # "none"
    PROVE HeldIsAlive' /\ ClosedIsGivenUp' /\ OpeningIsAlone'
<1> USE NetAssumption DEF IInv, Handle, StreamOp, ListenerOp, Opening
<1>1. HeldIsAlive'
  BY DEF HeldIsAlive
<1>2. ASSUME NEW t \in Task, op'[t] = "close_stream"
      PROVE on'[t] \notin held'
  <2>1. op[t] = "close_stream" /\ on'[t] = on[t] /\ on[t] \in Stream
    BY <1>2 DEF TargetsFit
  <2>2. on[t] \notin held
    BY <2>1 DEF ClosedIsGivenUp
  <2> QED
    BY <2>1, <2>2
<1>3. ASSUME NEW t \in Task, op'[t] \in Opening, NEW u \in Task, on'[u] = on'[t]
      PROVE u = t
  <2>1. op[t] \in Opening /\ on'[t] = on[t] /\ on[t] # NoHandle
    BY <1>3 DEF TargetsFit
  <2>2. on[u] = on[t]
    BY <1>3, <2>1
  <2> QED
    BY <2>1, <2>2 DEF OpeningIsAlone
<1>4. OpeningIsAlone'
  BY <1>3 DEF OpeningIsAlone
<1> QED
  BY <1>1, <1>2, <1>4 DEF ClosedIsGivenUp

\* The queues of readers, when the tasks in them stay parked and their streams
\* open.
LEMMA ReadersKept ==
    ASSUME IInv, UNCHANGED readVars,
           \A u \in Task : (op[u] = "read" /\ u \notin Range(inbox)) =>
             op'[u] = op[u] /\ on'[u] = on[u] /\ u \notin Range(inbox'),
           \A s \in Stream : readActive[s] => state'[s] = "open"
    PROVE ReadersQueued' /\ ReadingWhileQueued'
<1>1. \A s \in Stream : Range(readQueue[s]) \subseteq Task
  BY RangeType DEF IInv, TypeOK
<1>2. ReadersQueued'
  BY <1>1 DEF IInv, readVars, ReadersQueued
<1>3. ReadingWhileQueued'
  BY DEF IInv, readVars, ReadingWhileQueued
<1> QED
  BY <1>2, <1>3

\* The queues of acceptors, when the tasks in them stay parked.
LEMMA AcceptorsKept ==
    ASSUME IInv, UNCHANGED pendingAccepts,
           \A u \in Task : (op[u] = "accept" /\ u \notin Range(inbox)) =>
             op'[u] = op[u] /\ on'[u] = on[u] /\ u \notin Range(inbox')
    PROVE AcceptorsQueued'
<1>1. \A l \in Listener : Range(pendingAccepts[l]) \subseteq Task
  BY RangeType DEF IInv, TypeOK
<1> QED
  BY <1>1 DEF IInv, AcceptorsQueued

\* The backlogs, when open handles stay open and no task, and not Scheme, comes
\* to know a stream it did not know.
LEMMA BacklogKept ==
    ASSUME IInv, UNCHANGED <<accepted, pendingAccepts>>,
           \A l \in Listener : state[l] = "open" => state'[l] = "open",
           \A l \in Listener : \A s \in Range(accepted[l]) : state'[s] = "open",
           \A u \in Task : \/ on'[u] \in {on[u], NoHandle} \cup held
                           \/ state[on'[u]] # "open",
           \A h \in held' : h \in held \/ state[h] # "open"
    PROVE BacklogUntouched'
<1> USE NetAssumption DEF IInv, Handle
<1>1. \A l \in Listener : Range(accepted[l]) \subseteq Stream
  BY RangeType DEF TypeOK
<1> SUFFICES ASSUME NEW l \in Listener
             PROVE /\ NoDuplicates(accepted[l])
                   /\ accepted[l] # <<>> => state'[l] = "open" /\ pendingAccepts[l] = <<>>
                   /\ \A s \in Range(accepted[l]) :
                        /\ state'[s] = "open" /\ s \notin held'
                        /\ \A t \in Task : on'[t] # s
                        /\ \A m \in Listener : s \in Range(accepted[m]) => m = l
  BY DEF BacklogUntouched
<1>2. /\ NoDuplicates(accepted[l])
      /\ accepted[l] # <<>> => state'[l] = "open" /\ pendingAccepts[l] = <<>>
  BY DEF BacklogUntouched
<1>3. ASSUME NEW s \in Range(accepted[l])
      PROVE /\ state'[s] = "open" /\ s \notin held'
            /\ \A t \in Task : on'[t] # s
            /\ \A m \in Listener : s \in Range(accepted[m]) => m = l
  <2>1. /\ state[s] = "open" /\ s \notin held /\ s # NoHandle
        /\ \A t \in Task : on[t] # s
        /\ \A m \in Listener : s \in Range(accepted[m]) => m = l
    BY <1>1 DEF BacklogUntouched
  <2> QED
    BY <2>1
<1> QED
  BY <1>2, <1>3

\* Open streams are owned, when a close leaves the inbox only as its stream
\* stops to be open, and Scheme gives a stream up only by queueing its close.
LEMMA OwnedKept ==
    ASSUME IInv, UNCHANGED accepted,
           \A s \in Stream : state'[s] = "open" => state[s] = "open" \/ s \in held',
           \A s \in held \cap Stream : \/ s \in held'
                                       \/ state'[s] # "open"
                                       \/ \E t \in Range(inbox') :
                                            op'[t] = "close_stream" /\ on'[t] = s,
           \A u \in Range(inbox) : op[u] = "close_stream" =>
             \/ u \in Range(inbox') /\ op'[u] = op[u] /\ on'[u] = on[u]
             \/ state'[on[u]] # "open"
    PROVE OpenStreamsOwned'
  BY DEF IInv, OpenStreamsOwned

\* All that hangs on the handles, for the steps that neither touch a queue nor
\* close a handle that was open.
LEMMA QueuesKept ==
    ASSUME IInv, UNCHANGED <<listenVars, readVars>>,
           \A u \in Task : (op[u] \in {"read", "accept"} /\ u \notin Range(inbox)) =>
             op'[u] = op[u] /\ on'[u] = on[u] /\ u \notin Range(inbox'),
           \A h \in Handle : state[h] = "open" => state'[h] = "open",
           \A l \in Listener : state'[l] = "open" => state[l] = "open",
           \A u \in Task : \/ on'[u] \in {on[u], NoHandle} \cup held
                           \/ state[on'[u]] # "open",
           \A h \in held' : h \in held \/ state[h] # "open"
    PROVE /\ ReadersQueued' /\ ReadingWhileQueued' /\ AcceptorsQueued'
          /\ BacklogUntouched' /\ RegistryIsOpen'
<1> USE DEF IInv, Handle, listenVars
<1>1. \A s \in Stream : readActive[s] => state'[s] = "open"
  BY DEF ReadingWhileQueued
<1>2. ReadersQueued' /\ ReadingWhileQueued'
  BY <1>1, ReadersKept
<1>3. AcceptorsQueued'
  BY AcceptorsKept
<1>4. \A l \in Listener : Range(accepted[l]) \subseteq Stream
  BY RangeType DEF TypeOK
<1>5. \A l \in Listener : \A s \in Range(accepted[l]) : state'[s] = "open"
  BY <1>4 DEF BacklogUntouched
<1>6. BacklogUntouched'
  BY <1>5, BacklogKept
<1>7. RegistryIsOpen'
  BY DEF RegistryIsOpen
<1> QED
  BY <1>2, <1>3, <1>6, <1>7

-----------------------------------------------------------------------------
(* Scheme threads. *)

\* rt_tcp_listen and rt_tcp_connect: nobody else names the new handle.
LEMMA SubmitNewInv ==
    ASSUME IInv, NEW t \in Task, NEW o \in Op, NEW h \in Handle, SubmitNew(t, o, h)
    PROVE IInv'
<1> USE NetAssumption DEF IInv, Handle, StreamOp, ListenerOp, Op, Opening
<1>1. /\ op[t] = "none" /\ state[h] = "none" /\ \A u \in Task : on[u] # h
      /\ o = (IF h \in Listener THEN "listen" ELSE "connect")
      /\ op' = [op EXCEPT ![t] = o] /\ on' = [on EXCEPT ![t] = h] /\ inbox' = Queued(t)
      /\ UNCHANGED <<state, held, listenVars, readVars, shutdownVars>>
  BY DEF SubmitNew, Fresh
<1>2. /\ op'[t] = o /\ on'[t] = h
      /\ \A u \in Task \ {t} : op'[u] = op[u] /\ on'[u] = on[u]
  BY <1>1 DEF TypeOK
<1>3. TasksTyped'
  BY <1>1 DEF TypeOK, TasksTyped, TargetsFit
<1>4. Range(inbox) \subseteq Task /\ t \notin Range(inbox)
  BY <1>1, RangeType DEF TypeOK, InboxTargets
<1>5. /\ InboxOnce' /\ InboxTargets' /\ NothingBehindClose'
      /\ inbox' \in Seq(Task) /\ Range(inbox') = Range(inbox) \cup {t}
  BY <1>1, <1>2, <1>4, InboxAfterSubmit
<1>6. TypeOK' /\ TargetsFit'
  BY <1>1, <1>3, <1>5 DEF TasksTyped, listenVars, readVars, shutdownVars, TypeOK
<1>7. HeldIsAlive' /\ ClosedIsGivenUp'
  BY <1>1, <1>2 DEF HeldIsAlive, ClosedIsGivenUp
<1>8. OpeningIsAlone'
  BY <1>1, <1>2, <1>5 DEF OpeningIsAlone
<1>9. /\ ReadersQueued' /\ ReadingWhileQueued' /\ AcceptorsQueued'
      /\ BacklogUntouched' /\ RegistryIsOpen'
  BY <1>1, <1>2, <1>5, QueuesKept
<1>10. OpenStreamsOwned'
  BY <1>1, <1>2, <1>4, <1>5, OwnedKept DEF listenVars
<1> QED
  BY <1>5, <1>6, <1>7, <1>8, <1>9, <1>10

\* An operation on a handle that Scheme has: a stream is open, and no close of it
\* is queued.
LEMMA SubmitOnInv ==
    ASSUME IInv, NEW t \in Task, NEW o \in Op, NEW h \in Handle, SubmitOn(t, o, h)
    PROVE IInv'
<1> USE NetAssumption DEF IInv, Handle, StreamOp, ListenerOp, Op, Opening
<1>1. /\ op[t] = "none" /\ h \in held
      /\ o \in (IF h \in Listener THEN ListenerOp ELSE StreamOp)
      /\ op' = [op EXCEPT ![t] = o] /\ on' = [on EXCEPT ![t] = h] /\ inbox' = Queued(t)
      /\ held' = IF o \in {"close_stream", "close_listener"} THEN held \ {h} ELSE held
      /\ UNCHANGED <<state, listenVars, readVars, shutdownVars>>
  BY DEF SubmitOn
<1>2. /\ op'[t] = o /\ on'[t] = h
      /\ \A u \in Task \ {t} : op'[u] = op[u] /\ on'[u] = on[u]
  BY <1>1 DEF TypeOK
<1>3. TasksTyped'
  BY <1>1 DEF TypeOK, TasksTyped, TargetsFit
<1>4. /\ Range(inbox) \subseteq Task /\ t \notin Range(inbox)
      /\ \A u \in Task : op[u] = "close_stream" => on[u] # h
      /\ o \in StreamOp => state[h] = "open"
  BY <1>1, RangeType DEF TypeOK, InboxTargets, HeldIsAlive, ClosedIsGivenUp
<1>5. /\ InboxOnce' /\ InboxTargets' /\ NothingBehindClose'
      /\ inbox' \in Seq(Task) /\ Range(inbox') = Range(inbox) \cup {t}
  BY <1>1, <1>2, <1>4, InboxAfterSubmit
<1>6. TypeOK' /\ TargetsFit'
  BY <1>1, <1>3, <1>5 DEF TasksTyped, listenVars, readVars, shutdownVars, TypeOK
<1>7. HeldIsAlive' /\ ClosedIsGivenUp'
  BY <1>1, <1>2, <1>4 DEF HeldIsAlive, ClosedIsGivenUp
<1>8. OpeningIsAlone'
  <2>1. \A u \in Task : op[u] \in Opening => on[u] # h
    <3>1. \A u \in Task : op[u] \in Opening => state[on[u]] \in {"none", "connecting"}
      BY DEF OpeningIsAlone, InboxTargets
    <3>2. h \in Stream => state[h] = "open"
      BY <1>1 DEF HeldIsAlive
    <3>3. h \in Listener => state[h] \notin {"none", "connecting"}
      BY <1>1 DEF TypeOK, HeldIsAlive
    <3> QED
      BY <3>1, <3>2, <3>3
  <2> QED
    BY <1>1, <1>2, <1>5, <2>1 DEF OpeningIsAlone
<1>9. /\ ReadersQueued' /\ ReadingWhileQueued' /\ AcceptorsQueued'
      /\ BacklogUntouched' /\ RegistryIsOpen'
  BY <1>1, <1>2, <1>5, QueuesKept
<1>10. OpenStreamsOwned'
  BY <1>1, <1>2, <1>4, <1>5, OwnedKept DEF listenVars
<1> QED
  BY <1>5, <1>6, <1>7, <1>8, <1>9, <1>10

-----------------------------------------------------------------------------
(* Dispatch. *)

\* A task that completes, or goes to libuv, and touches nothing else.
LEMMA DispatchedAlone ==
    ASSUME IInv, NEW t \in Task, NEW o \in {"accept", "read", "write"}, Dispatched(t, o),
           UNCHANGED taskVars \/ Complete({t}),
           UNCHANGED <<state, held, listenVars, readVars>>,
           signaled' \in BOOLEAN, timer' \in BOOLEAN, exited' \in BOOLEAN
    PROVE IInv'
<1> USE NetAssumption DEF IInv, Handle, StreamOp, ListenerOp, Op, Opening
<1>1. /\ op[t] = o /\ inbox' \in Seq(Task) /\ Range(inbox') \subseteq Task
      /\ Range(inbox) = {t} \cup Range(inbox') /\ t \notin Range(inbox')
  BY FrontOfInbox
<1>2. /\ TasksTyped'
      /\ \A u \in Task : u # t => op'[u] = op[u] /\ on'[u] = on[u]
      /\ \/ op'[t] = op[t] /\ on'[t] = on[t]
         \/ op'[t] = "none" /\ on'[t] = NoHandle
  BY CompleteEffect, TasksUnchanged
<1>3. TypeOK' /\ TargetsFit'
  BY <1>1, <1>2 DEF TasksTyped, listenVars, readVars, TypeOK
<1>4. InboxOnce' /\ InboxTargets' /\ NothingBehindClose'
  BY <1>1, <1>2, InboxAfterDispatch
<1>5. HeldIsAlive' /\ ClosedIsGivenUp' /\ OpeningIsAlone'
  <2>1. \A u \in Task : op'[u] \in Opening =>
          \/ u \in Range(inbox')
          \/ op'[u] = "connect" /\ state'[on'[u]] = "connecting"
    BY <1>1, <1>2 DEF OpeningIsAlone
  <2>2. \A h \in held' \cap Listener : state'[h] # "none"
    BY DEF HeldIsAlive
  <2> QED
    BY <1>2, <2>1, <2>2, OwnersKept
<1>6. /\ ReadersQueued' /\ ReadingWhileQueued' /\ AcceptorsQueued'
      /\ BacklogUntouched' /\ RegistryIsOpen'
  BY <1>1, <1>2, QueuesKept
<1>7. OpenStreamsOwned'
  BY <1>1, <1>2, OwnedKept DEF listenVars
<1> QED
  BY <1>3, <1>4, <1>5, <1>6, <1>7

\* An accept on a deleted listener touches no other task and no queue.
LEMMA DispatchAcceptDeletedInv ==
    ASSUME IInv, NEW t \in Task, DispatchAcceptDeleted(t)
    PROVE IInv'
  BY DispatchedAlone DEF DispatchAcceptDeleted, IInv, TypeOK

\* A read that is cancelled is not queued.
LEMMA DispatchReadCancelledInv ==
    ASSUME IInv, NEW t \in Task, DispatchReadCancelled(t)
    PROVE IInv'
  BY DispatchedAlone DEF DispatchReadCancelled, shutdownVars, IInv, TypeOK

\* A write is with libuv or has failed.
LEMMA DispatchWriteInv ==
    ASSUME IInv, NEW t \in Task, DispatchWrite(t)
    PROVE IInv'
  BY DispatchedAlone DEF DispatchWrite, shutdownVars, IInv, TypeOK

\* uv_listen: the listener comes to life, in the registry, or closes at once.
LEMMA DispatchListenInv ==
    ASSUME IInv, NEW t \in Task, DispatchListen(t)
    PROVE IInv'
<1> USE NetAssumption DEF IInv, Handle, StreamOp, ListenerOp, Op, Opening
<1> DEFINE l == on[t]
<1>1. /\ op[t] = "listen" /\ l \in Listener /\ state[l] = "none"
      /\ inbox' \in Seq(Task) /\ Range(inbox') \subseteq Task
      /\ Range(inbox) = {t} \cup Range(inbox') /\ t \notin Range(inbox')
      /\ UNCHANGED <<accepted, pendingAccepts, readVars, shutdownVars>>
  BY FrontOfInbox DEF DispatchListen
<1>2. /\ TasksTyped' /\ op'[t] = "none" /\ on'[t] = NoHandle
      /\ \A u \in Task : u # t => op'[u] = op[u] /\ on'[u] = on[u]
  BY CompleteEffect DEF DispatchListen
<1>3. /\ StatesTyped'
      /\ \A h \in Handle : h # l => state'[h] = state[h]
      /\ \/ /\ held' = held \cup {l} /\ registry' = registry \cup {l} /\ state'[l] = "open"
         \/ held' = held /\ registry' = registry /\ state'[l] = "closing"
  <2>1. CASE /\ state' = [state EXCEPT ![l] = "open"]
             /\ held' = held \cup {l} /\ registry' = registry \cup {l}
    BY <1>1, <2>1, StateEffect
  <2>2. CASE Close({l}) /\ UNCHANGED <<registry, held>>
    BY <1>1, <2>2, CloseEffect
  <2> QED
    BY <2>1, <2>2 DEF DispatchListen
<1>4. /\ \A u \in Task : u # t => on[u] # l
      /\ \A s \in Stream : state'[s] = state[s] /\ s # l
  BY <1>1, <1>3 DEF OpeningIsAlone
<1>5. TypeOK' /\ TargetsFit'
  <2>1. held' \subseteq Handle /\ registry' \subseteq Listener
    BY <1>1, <1>3 DEF TypeOK
  <2> QED
    BY <1>1, <1>2, <1>3, <2>1 DEF TasksTyped, StatesTyped, readVars, shutdownVars, TypeOK
<1>6. InboxOnce' /\ InboxTargets' /\ NothingBehindClose'
  <2>1. \A u \in Range(inbox') : u # t /\ on[u] \in Handle /\ on[u] # l
    BY <1>1, <1>4 DEF TargetsFit, InboxTargets
  <2>2. \A u \in Range(inbox') :
          op'[u] = op[u] /\ on'[u] = on[u] /\ state'[on[u]] = state[on[u]]
    BY <1>1, <1>2, <1>3, <2>1
  <2> QED
    BY <2>2, InboxAfterDispatch DEF DispatchListen
<1>7. HeldIsAlive' /\ ClosedIsGivenUp' /\ OpeningIsAlone'
  <2>1. ASSUME NEW u \in Task, op'[u] \in Opening
        PROVE \/ u \in Range(inbox')
              \/ op'[u] = "connect" /\ state'[on'[u]] = "connecting"
    <3>1. u # t /\ op[u] \in Opening /\ on'[u] = on[u] /\ op'[u] = op[u]
      BY <1>2, <2>1
    <3>2. u \in Range(inbox) \/ (op[u] = "connect" /\ state[on[u]] = "connecting")
      BY <3>1 DEF OpeningIsAlone
    <3>3. op[u] = "connect" => on[u] \in Stream
      BY DEF TargetsFit
    <3> QED
      BY <1>1, <1>4, <3>1, <3>2, <3>3
  <2>2. \A h \in held' \cap Listener : state'[h] # "none"
    BY <1>3 DEF HeldIsAlive
  <2>3. \A h \in held' \cap Stream : h \in held /\ state'[h] = state[h]
    BY <1>3, <1>4
  <2> QED
    BY <1>2, <2>1, <2>2, <2>3, OwnersKept
<1>8. ReadersQueued' /\ ReadingWhileQueued' /\ AcceptorsQueued'
  <2>1. \A s \in Stream : readActive[s] => state'[s] = "open"
    BY <1>4 DEF ReadingWhileQueued
  <2> QED
    BY <1>1, <1>2, <2>1, ReadersKept, AcceptorsKept
<1>9. BacklogUntouched'
  <2>1. \A m \in Listener : \A s \in Range(accepted[m]) : s \in Stream /\ state[s] = "open"
    BY RangeType DEF TypeOK, BacklogUntouched
  <2>2. \A h \in held' : h \in held \/ state[h] # "open"
    BY <1>1, <1>3
  <2>3. \A m \in Listener : state[m] = "open" => state'[m] = "open"
    BY <1>1, <1>3
  <2> QED
    BY <1>1, <1>2, <1>4, <2>1, <2>2, <2>3, BacklogKept
<1>10. RegistryIsOpen'
  BY <1>1, <1>3 DEF RegistryIsOpen
<1>11. OpenStreamsOwned'
  <2>1. \A s \in held : s \in held'
    BY <1>3
  <2>2. \A u \in Range(inbox) : op[u] = "close_stream" =>
          u \in Range(inbox') /\ op'[u] = op[u] /\ on'[u] = on[u]
    BY <1>1, <1>2
  <2> QED
    BY <1>1, <1>4, <2>1, <2>2, OwnedKept
<1> QED
  BY <1>5, <1>6, <1>7, <1>8, <1>9, <1>10, <1>11

\* uv_tcp_connect is under way, or has failed and the stream closes at once.
LEMMA DispatchConnectInv ==
    ASSUME IInv, NEW t \in Task, DispatchConnect(t)
    PROVE IInv'
<1> USE NetAssumption DEF IInv, Handle, StreamOp, ListenerOp, Op, Opening
<1> DEFINE s == on[t]
<1>1. /\ op[t] = "connect" /\ s \in Stream /\ state[s] = "none"
      /\ inbox' \in Seq(Task) /\ Range(inbox') \subseteq Task
      /\ Range(inbox) = {t} \cup Range(inbox') /\ t \notin Range(inbox')
      /\ UNCHANGED <<held, listenVars, readVars, shutdownVars>>
  BY FrontOfInbox DEF DispatchConnect
<1>2. /\ TasksTyped' /\ StatesTyped'
      /\ \A u \in Task : u # t => op'[u] = op[u] /\ on'[u] = on[u]
      /\ \A h \in Handle : h # s => state'[h] = state[h]
      /\ \/ op'[t] = "connect" /\ on'[t] = s /\ state'[s] = "connecting"
         \/ op'[t] = "none" /\ on'[t] = NoHandle /\ state'[s] = "closing"
  <2>1. CASE state' = [state EXCEPT ![s] = "connecting"] /\ UNCHANGED taskVars
    <3>1. TasksTyped' /\ \A u \in Task : op'[u] = op[u] /\ on'[u] = on[u]
      BY <2>1, TasksUnchanged
    <3>2. /\ StatesTyped' /\ state'[s] = "connecting"
          /\ \A h \in Handle : h # s => state'[h] = state[h]
      BY <1>1, <2>1, StateEffect
    <3> QED
      BY <1>1, <3>1, <3>2
  <2>2. CASE Complete({t}) /\ Close({s})
    BY <1>1, <2>2, CloseEffect, CompleteEffect
  <2> QED
    BY <2>1, <2>2 DEF DispatchConnect
<1>3. \A u \in Task : u # t => on[u] # s
  BY <1>1 DEF OpeningIsAlone
<1>4. TypeOK' /\ TargetsFit'
  BY <1>1, <1>2 DEF TasksTyped, StatesTyped, listenVars, readVars, shutdownVars, TypeOK
<1>5. InboxOnce' /\ InboxTargets' /\ NothingBehindClose'
  <2>1. \A u \in Range(inbox') : u # t /\ on[u] \in Handle /\ on[u] # s
    BY <1>1, <1>3 DEF TargetsFit, InboxTargets
  <2>2. \A u \in Range(inbox') :
          op'[u] = op[u] /\ on'[u] = on[u] /\ state'[on[u]] = state[on[u]]
    BY <1>1, <1>2, <2>1
  <2> QED
    BY <2>2, InboxAfterDispatch DEF DispatchConnect
<1>6. HeldIsAlive' /\ ClosedIsGivenUp' /\ OpeningIsAlone'
  <2>1. ASSUME NEW u \in Task, op'[u] \in Opening
        PROVE \/ u \in Range(inbox')
              \/ op'[u] = "connect" /\ state'[on'[u]] = "connecting"
    <3>1. CASE u = t
      BY <1>2, <2>1, <3>1
    <3>2. CASE u # t
      <4>1. op[u] \in Opening /\ on'[u] = on[u] /\ op'[u] = op[u]
        BY <1>2, <2>1, <3>2
      <4>2. u \in Range(inbox) \/ (op[u] = "connect" /\ state[on[u]] = "connecting")
        BY <4>1 DEF OpeningIsAlone
      <4>3. op[u] = "connect" => on[u] \in Stream /\ on[u] # s
        BY <1>3, <3>2 DEF TargetsFit
      <4> QED
        BY <1>1, <1>2, <3>2, <4>1, <4>2, <4>3
    <3> QED
      BY <3>1, <3>2
  <2>2. \A h \in held' \cap Listener : state'[h] # "none"
    BY <1>1, <1>2 DEF HeldIsAlive
  <2>3. \A h \in held' \cap Stream : h \in held /\ state'[h] = state[h]
    BY <1>1, <1>2 DEF HeldIsAlive
  <2> QED
    BY <1>1, <1>2, <2>1, <2>2, <2>3, OwnersKept
<1>7. /\ ReadersQueued' /\ ReadingWhileQueued' /\ AcceptorsQueued'
      /\ BacklogUntouched' /\ RegistryIsOpen'
  <2>1. \A u \in Task : on'[u] \in {on[u], NoHandle}
    BY <1>2
  <2>2. \A h \in Handle : state[h] = "open" => state'[h] = "open"
    BY <1>1, <1>2
  <2>3. \A m \in Listener : state'[m] = "open" => state[m] = "open"
    BY <1>1, <1>2
  <2> QED
    BY <1>1, <1>2, <2>1, <2>2, <2>3, QueuesKept
<1>8. OpenStreamsOwned'
  BY <1>1, <1>2, OwnedKept DEF listenVars
<1> QED
  BY <1>4, <1>5, <1>6, <1>7, <1>8

\* The oldest connection of the backlog goes to Scheme, or the task queues up
\* where there is no backlog.
LEMMA DispatchAcceptInv ==
    ASSUME IInv, NEW t \in Task, DispatchAccept(t)
    PROVE IInv'
<1> USE NetAssumption DEF IInv, Handle, StreamOp, ListenerOp, Op, Opening
<1> DEFINE l == on[t]
<1>1. /\ op[t] = "accept" /\ l \in Listener
      /\ inbox' \in Seq(Task) /\ Range(inbox') \subseteq Task
      /\ Range(inbox) = {t} \cup Range(inbox') /\ t \notin Range(inbox')
      /\ UNCHANGED <<state, registry, readVars, shutdownVars>>
  BY FrontOfInbox DEF DispatchAccept
<1>2. accepted[l] \in Seq(Stream) /\ pendingAccepts[l] \in Seq(Task)
      /\ NoDuplicates(accepted[l]) /\ NoDuplicates(pendingAccepts[l])
  BY <1>1 DEF TypeOK, BacklogUntouched, AcceptorsQueued
<1>3. CASE /\ accepted[l] # <<>> /\ Complete({t})
           /\ held' = held \cup {Head(accepted[l])}
           /\ accepted' = [accepted EXCEPT ![l] = Tail(@)]
           /\ UNCHANGED pendingAccepts
  <2> DEFINE s == Head(accepted[l])
  <2>1. /\ TasksTyped' /\ op'[t] = "none" /\ on'[t] = NoHandle
        /\ \A u \in Task : u # t => op'[u] = op[u] /\ on'[u] = on[u]
    BY <1>3, CompleteEffect
  <2>2. /\ s \in Stream /\ Tail(accepted[l]) \in Seq(Stream)
        /\ Range(accepted[l]) = {s} \cup Range(Tail(accepted[l]))
        /\ NoDuplicates(Tail(accepted[l])) /\ s \notin Range(Tail(accepted[l]))
    BY <1>2, <1>3, RangeTail, NoDuplicatesTail
  <2>3. /\ state[s] = "open" /\ s \notin held /\ s # NoHandle
        /\ \A u \in Task : on[u] # s
        /\ \A m \in Listener : s \in Range(accepted[m]) => m = l
    BY <1>1, <2>2 DEF BacklogUntouched
  <2>4. /\ accepted'[l] = Tail(accepted[l])
        /\ \A m \in Listener : m # l => accepted'[m] = accepted[m]
        /\ \A m \in Listener : Range(accepted'[m]) = Range(accepted[m]) \ {s}
    <3>1. /\ accepted'[l] = Tail(accepted[l])
          /\ \A m \in Listener : m # l => accepted'[m] = accepted[m]
      BY <1>1, <1>3 DEF TypeOK
    <3> QED
      BY <2>2, <2>3, <3>1
  <2>5. TypeOK' /\ TargetsFit'
    <3>1. accepted' \in [Listener -> Seq(Stream)]
      BY <1>1, <1>3, <2>2 DEF TypeOK
    <3> QED
      BY <1>1, <1>3, <2>1, <2>2, <3>1 DEF TasksTyped, readVars, shutdownVars, TypeOK
  <2>6. InboxOnce' /\ InboxTargets' /\ NothingBehindClose'
    BY <1>1, <2>1, InboxAfterDispatch DEF DispatchAccept
  <2>7. HeldIsAlive' /\ ClosedIsGivenUp' /\ OpeningIsAlone'
    <3>1. \A u \in Task : op'[u] \in Opening =>
            \/ u \in Range(inbox')
            \/ op'[u] = "connect" /\ state'[on'[u]] = "connecting"
      BY <1>1, <2>1 DEF OpeningIsAlone
    <3>2. \A h \in held' \cap Listener : state'[h] # "none"
      BY <1>1, <1>3, <2>3 DEF HeldIsAlive
    <3>3. \A u \in Task : on'[u] # s
      BY <2>1, <2>3
    <3> QED
      BY <1>1, <1>3, <2>1, <2>3, <3>1, <3>2, <3>3, OwnersKept
  <2>8. ReadersQueued' /\ ReadingWhileQueued' /\ AcceptorsQueued'
    <3>1. \A x \in Stream : readActive[x] => state'[x] = "open"
      BY <1>1 DEF ReadingWhileQueued
    <3> QED
      BY <1>1, <1>3, <2>1, <3>1, ReadersKept, AcceptorsKept
  <2>9. BacklogUntouched'
    <3> SUFFICES ASSUME NEW m \in Listener
                 PROVE /\ NoDuplicates(accepted'[m])
                       /\ accepted'[m] # <<>> => state[m] = "open" /\ pendingAccepts[m] = <<>>
                       /\ \A x \in Range(accepted'[m]) :
                            /\ state[x] = "open" /\ x \notin held'
                            /\ \A u \in Task : on'[u] # x
                            /\ \A k \in Listener : x \in Range(accepted'[k]) => k = m
      BY <1>1, <1>3 DEF BacklogUntouched
    <3>1. NoDuplicates(accepted'[m])
      BY <2>2, <2>4 DEF BacklogUntouched
    <3>2. accepted'[m] # <<>> => state[m] = "open" /\ pendingAccepts[m] = <<>>
      BY <1>1, <1>3, <2>4 DEF BacklogUntouched
    <3>3. ASSUME NEW x \in Range(accepted'[m])
          PROVE /\ state[x] = "open" /\ x \notin held'
                /\ \A u \in Task : on'[u] # x
                /\ \A k \in Listener : x \in Range(accepted'[k]) => k = m
      <4>1. x \in Range(accepted[m]) /\ x # s
        BY <2>4
      <4>2. /\ state[x] = "open" /\ x \notin held /\ \A u \in Task : on[u] # x
            /\ \A k \in Listener : x \in Range(accepted[k]) => k = m
        BY <4>1 DEF BacklogUntouched
      <4>3. x \in Stream
        BY <4>1, RangeType DEF TypeOK
      <4>4. x \notin held'
        BY <1>3, <4>1, <4>2
      <4>5. \A u \in Task : on'[u] # x
        BY <2>1, <4>2, <4>3
      <4>6. \A k \in Listener : x \in Range(accepted'[k]) => k = m
        BY <2>4, <4>2
      <4> QED
        BY <4>2, <4>4, <4>5, <4>6
    <3> QED
      BY <3>1, <3>2, <3>3
  <2>10. RegistryIsOpen'
    BY <1>1 DEF RegistryIsOpen
  <2>11. OpenStreamsOwned'
    <3> SUFFICES ASSUME NEW x \in Stream, state[x] = "open", x \notin held'
                 PROVE \/ \E u \in Range(inbox') : op'[u] = "close_stream" /\ on'[u] = x
                       \/ \E m \in Listener : x \in Range(accepted'[m])
      BY <1>1 DEF OpenStreamsOwned
    <3>1. x \notin held /\ x # s
      BY <1>3
    <3>2. \/ \E u \in Range(inbox) : op[u] = "close_stream" /\ on[u] = x
          \/ \E m \in Listener : x \in Range(accepted[m])
      BY <3>1 DEF OpenStreamsOwned
    <3> QED
      BY <1>1, <2>1, <2>4, <3>1, <3>2
  <2> QED
    BY <2>5, <2>6, <2>7, <2>8, <2>9, <2>10, <2>11
<1>4. CASE /\ accepted[l] = <<>>
           /\ pendingAccepts' = [pendingAccepts EXCEPT ![l] = Append(@, t)]
           /\ UNCHANGED <<op, on, held, accepted>>
  <2>1. TasksTyped' /\ \A u \in Task : op'[u] = op[u] /\ on'[u] = on[u]
    BY <1>4, TasksUnchanged DEF taskVars
  <2>2. t \notin Range(pendingAccepts[l])
    BY <1>1 DEF AcceptorsQueued
  <2>3. /\ Append(pendingAccepts[l], t) \in Seq(Task)
        /\ Range(Append(pendingAccepts[l], t)) = Range(pendingAccepts[l]) \cup {t}
        /\ NoDuplicates(Append(pendingAccepts[l], t))
    BY <1>2, <2>2, RangeAppend, NoDuplicatesAppend, AppendProperties
  <2>4. /\ pendingAccepts'[l] = Append(pendingAccepts[l], t)
        /\ \A m \in Listener : m # l => pendingAccepts'[m] = pendingAccepts[m]
    BY <1>1, <1>4 DEF TypeOK
  <2>5. TypeOK' /\ TargetsFit'
    <3>1. pendingAccepts' \in [Listener -> Seq(Task)]
      BY <1>1, <1>4, <2>3 DEF TypeOK
    <3> QED
      BY <1>1, <1>4, <2>1, <3>1 DEF TasksTyped, readVars, shutdownVars, TypeOK
  <2>6. InboxOnce' /\ InboxTargets' /\ NothingBehindClose'
    BY <1>1, <2>1, InboxAfterDispatch DEF DispatchAccept
  <2>7. HeldIsAlive' /\ ClosedIsGivenUp' /\ OpeningIsAlone'
    <3>1. \A u \in Task : op'[u] \in Opening =>
            \/ u \in Range(inbox')
            \/ op'[u] = "connect" /\ state'[on'[u]] = "connecting"
      BY <1>1, <2>1 DEF OpeningIsAlone
    <3>2. \A h \in held' \cap Listener : state'[h] # "none"
      BY <1>1, <1>4 DEF HeldIsAlive
    <3> QED
      BY <1>1, <1>4, <2>1, <3>1, <3>2, OwnersKept
  <2>8. ReadersQueued' /\ ReadingWhileQueued'
    <3>1. \A x \in Stream : readActive[x] => state'[x] = "open"
      BY <1>1 DEF ReadingWhileQueued
    <3> QED
      BY <1>1, <2>1, <3>1, ReadersKept
  <2>9. AcceptorsQueued'
    <3> SUFFICES ASSUME NEW m \in Listener
                 PROVE /\ NoDuplicates(pendingAccepts'[m])
                       /\ \A u \in Range(pendingAccepts'[m]) :
                            op'[u] = "accept" /\ on'[u] = m /\ u \notin Range(inbox')
      BY DEF AcceptorsQueued
    <3>1. /\ NoDuplicates(pendingAccepts[m]) /\ Range(pendingAccepts[m]) \subseteq Task
          /\ \A u \in Range(pendingAccepts[m]) :
               op[u] = "accept" /\ on[u] = m /\ u \notin Range(inbox)
      BY RangeType DEF TypeOK, AcceptorsQueued
    <3>2. CASE m = l
      <4>1. /\ NoDuplicates(pendingAccepts'[m])
            /\ Range(pendingAccepts'[m]) = Range(pendingAccepts[m]) \cup {t}
        BY <2>3, <2>4, <3>2
      <4>2. op[t] = "accept" /\ on[t] = m /\ t \notin Range(inbox')
        BY <1>1, <3>2
      <4>3. \A u \in Range(pendingAccepts[m]) : u \notin Range(inbox')
        BY <1>1, <3>1
      <4> QED
        BY <2>1, <3>1, <4>1, <4>2, <4>3
    <3>3. CASE m # l
      BY <1>1, <2>1, <2>4, <3>1, <3>3
    <3> QED
      BY <3>2, <3>3
  <2>10. BacklogUntouched'
    <3> SUFFICES ASSUME NEW m \in Listener
                 PROVE /\ NoDuplicates(accepted[m])
                       /\ accepted[m] # <<>> => state[m] = "open" /\ pendingAccepts'[m] = <<>>
                       /\ \A x \in Range(accepted[m]) :
                            /\ state[x] = "open" /\ x \notin held
                            /\ \A u \in Task : on'[u] # x
                            /\ \A k \in Listener : x \in Range(accepted[k]) => k = m
      BY <1>1, <1>4 DEF BacklogUntouched
    <3>1. /\ NoDuplicates(accepted[m])
          /\ accepted[m] # <<>> => state[m] = "open" /\ pendingAccepts[m] = <<>>
          /\ \A x \in Range(accepted[m]) :
               /\ state[x] = "open" /\ x \notin held
               /\ \A u \in Task : on[u] # x
               /\ \A k \in Listener : x \in Range(accepted[k]) => k = m
      BY DEF BacklogUntouched
    <3>2. accepted[m] # <<>> => pendingAccepts'[m] = pendingAccepts[m]
      BY <1>4, <2>4
    <3> QED
      BY <2>1, <3>1, <3>2
  <2>11. RegistryIsOpen'
    BY <1>1 DEF RegistryIsOpen
  <2>12. OpenStreamsOwned'
    BY <1>1, <1>4, <2>1, OwnedKept
  <2> QED
    BY <2>5, <2>6, <2>7, <2>8, <2>9, <2>10, <2>11, <2>12
<1> QED
  BY <1>3, <1>4 DEF DispatchAccept, taskVars

\* The read joins the queue of an open stream, or uv_read_start has failed.
LEMMA DispatchReadInv ==
    ASSUME IInv, NEW t \in Task, DispatchRead(t)
    PROVE IInv'
<1> USE NetAssumption DEF IInv, Handle, StreamOp, ListenerOp, Op, Opening
<1> DEFINE s == on[t]
<1>1. /\ op[t] = "read" /\ s \in Stream /\ state[s] = "open"
      /\ inbox' \in Seq(Task) /\ Range(inbox') \subseteq Task
      /\ Range(inbox) = {t} \cup Range(inbox') /\ t \notin Range(inbox')
      /\ UNCHANGED <<state, held, listenVars, shutdownVars>>
  BY FrontOfInbox DEF DispatchRead
<1>2. CASE ~readActive[s] /\ Complete({t}) /\ UNCHANGED <<readQueue, readActive>>
  <2>1. readQueue'[s] = <<>>
    BY <1>1, <1>2 DEF ReadingWhileQueued
  <2>2. UNCHANGED readVars
    BY <1>2, <2>1 DEF DispatchRead, readVars
  <2>3. Dispatched(t, "read")
    BY DEF DispatchRead
  <2>4. signaled' \in BOOLEAN /\ timer' \in BOOLEAN /\ exited' \in BOOLEAN
    BY <1>1 DEF shutdownVars, TypeOK
  <2> QED
    BY <1>1, <1>2, <2>2, <2>3, <2>4, DispatchedAlone
<1>3. CASE /\ readQueue' = [readQueue EXCEPT ![s] = Append(@, t)]
           /\ readActive' = [readActive EXCEPT ![s] = TRUE]
           /\ UNCHANGED taskVars
  <2>1. TasksTyped' /\ \A u \in Task : op'[u] = op[u] /\ on'[u] = on[u]
    BY <1>3, TasksUnchanged
  <2>2. readQueue[s] \in Seq(Task) /\ NoDuplicates(readQueue[s]) /\ t \notin Range(readQueue[s])
    BY <1>1 DEF TypeOK, ReadersQueued
  <2>3. /\ Append(readQueue[s], t) \in Seq(Task) /\ Append(readQueue[s], t) # <<>>
        /\ Range(Append(readQueue[s], t)) = Range(readQueue[s]) \cup {t}
        /\ NoDuplicates(Append(readQueue[s], t))
    BY <2>2, RangeAppend, NoDuplicatesAppend, AppendProperties
  <2>4. /\ readQueue'[s] = Append(readQueue[s], t) /\ readActive'[s] = TRUE
        /\ \A x \in Stream : x # s => /\ readQueue'[x] = readQueue[x]
                                      /\ readActive'[x] = readActive[x]
    BY <1>1, <1>3 DEF TypeOK
  <2>5. reading' = reading \cup {s}
    BY <2>3, <2>4 DEF DispatchRead
  <2>6. TypeOK' /\ TargetsFit'
    <3>1. readQueue' \in [Stream -> Seq(Task)] /\ readActive' \in [Stream -> BOOLEAN]
      BY <1>1, <1>3, <2>3 DEF TypeOK
    <3>2. reading' \subseteq Stream
      BY <1>1, <2>5 DEF TypeOK
    <3> QED
      BY <1>1, <2>1, <3>1, <3>2 DEF TasksTyped, listenVars, shutdownVars, TypeOK
  <2>7. InboxOnce' /\ InboxTargets' /\ NothingBehindClose'
    BY <1>1, <2>1, InboxAfterDispatch DEF DispatchRead
  <2>8. HeldIsAlive' /\ ClosedIsGivenUp' /\ OpeningIsAlone'
    <3>1. \A u \in Task : op'[u] \in Opening =>
            \/ u \in Range(inbox')
            \/ op'[u] = "connect" /\ state'[on'[u]] = "connecting"
      BY <1>1, <2>1 DEF OpeningIsAlone
    <3>2. \A h \in held' \cap Listener : state'[h] # "none"
      BY <1>1 DEF HeldIsAlive
    <3> QED
      BY <1>1, <2>1, <3>1, <3>2, OwnersKept
  <2>9. ReadersQueued'
    <3> SUFFICES ASSUME NEW m \in Stream
                 PROVE /\ NoDuplicates(readQueue'[m])
                       /\ \A u \in Range(readQueue'[m]) :
                            op'[u] = "read" /\ on'[u] = m /\ u \notin Range(inbox')
      BY DEF ReadersQueued
    <3>1. /\ NoDuplicates(readQueue[m]) /\ Range(readQueue[m]) \subseteq Task
          /\ \A u \in Range(readQueue[m]) :
               op[u] = "read" /\ on[u] = m /\ u \notin Range(inbox)
      BY RangeType DEF TypeOK, ReadersQueued
    <3>2. CASE m = s
      <4>1. NoDuplicates(readQueue'[m]) /\ Range(readQueue'[m]) = Range(readQueue[m]) \cup {t}
        BY <2>3, <2>4, <3>2
      <4>2. op'[t] = "read" /\ on'[t] = m /\ t \notin Range(inbox')
        BY <1>1, <2>1, <3>2
      <4> QED
        BY <1>1, <2>1, <3>1, <4>1, <4>2
    <3>3. CASE m # s
      BY <1>1, <2>1, <2>4, <3>1, <3>3
    <3> QED
      BY <3>2, <3>3
  <2>10. ReadingWhileQueued'
    BY <1>1, <2>3, <2>4, <2>5 DEF ReadingWhileQueued
  <2>11. AcceptorsQueued' /\ RegistryIsOpen'
    <3>1. AcceptorsQueued'
      BY <1>1, <2>1, AcceptorsKept DEF listenVars
    <3> QED
      BY <1>1, <3>1 DEF RegistryIsOpen, listenVars
  <2>12. BacklogUntouched'
    BY <1>1, <2>1 DEF BacklogUntouched, listenVars
  <2>13. OpenStreamsOwned'
    BY <1>1, <2>1, OwnedKept DEF listenVars
  <2> QED
    BY <2>6, <2>7, <2>8, <2>9, <2>10, <2>11, <2>12, <2>13
<1> QED
  BY <1>2, <1>3 DEF DispatchRead

(***************************************************************************)
(* StopReading and AbortListeners, which several steps share.              *)
(***************************************************************************)

\* A task is one of the readers of a set of streams when it is in one of their
\* queues.
LEMMA ReadersOf ==
    ASSUME IInv, NEW ss \in SUBSET Stream
    PROVE /\ \A u : u \in Readers(ss) <=> \E s \in ss : u \in Range(readQueue[s])
          /\ \A u \in Readers(ss) :
               u \in Task /\ op[u] = "read" /\ on[u] \in ss /\ u \notin Range(inbox)
<1>1. \A u : u \in Readers(ss) <=> \E s \in ss : u \in Range(readQueue[s])
  BY DEF Readers
<1>2. \A s \in Stream : Range(readQueue[s]) \subseteq Task
  BY RangeType DEF IInv, TypeOK
<1> QED
  BY <1>1, <1>2 DEF IInv, ReadersQueued

\* Streams that nobody reads from any more are forgotten in all three records;
\* the others keep their readers.
LEMMA StopReadingEffect ==
    ASSUME IInv, NEW ss \in SUBSET Stream, StopReading(ss),
           \A u \in Task : (op[u] = "read" /\ on[u] \notin ss /\ u \notin Range(inbox)) =>
             op'[u] = op[u] /\ on'[u] = on[u] /\ u \notin Range(inbox'),
           \A s \in Stream \ ss : readActive[s] => state'[s] = "open"
    PROVE /\ readQueue' \in [Stream -> Seq(Task)] /\ readActive' \in [Stream -> BOOLEAN]
          /\ reading' \subseteq Stream
          /\ ReadersQueued' /\ ReadingWhileQueued'
<1> USE DEF IInv
<1>1. /\ \A s \in Stream : readQueue'[s] = (IF s \in ss THEN <<>> ELSE readQueue[s])
      /\ \A s \in Stream : readActive'[s] <=> (readActive[s] /\ s \notin ss)
      /\ reading' = reading \ ss
  BY DEF StopReading, ReadingWithout
<1>2. readQueue' \in [Stream -> Seq(Task)] /\ readActive' \in [Stream -> BOOLEAN]
  <2>1. <<>> \in Seq(Task)
    OBVIOUS
  <2>2. \A s \in Stream : (readActive[s] /\ s \notin ss) \in BOOLEAN
    OBVIOUS
  <2> QED
    BY <2>1, <2>2 DEF StopReading, TypeOK
<1>3. reading' \subseteq Stream
  BY <1>1 DEF TypeOK
<1>4. ReadersQueued'
  <2> SUFFICES ASSUME NEW s \in Stream
               PROVE /\ NoDuplicates(readQueue'[s])
                     /\ \A t \in Range(readQueue'[s]) :
                          op'[t] = "read" /\ on'[t] = s /\ t \notin Range(inbox')
    BY DEF ReadersQueued
  <2>1. CASE s \in ss
    <3>1. readQueue'[s] = <<>>
      BY <1>1, <2>1
    <3> QED
      BY <3>1 DEF NoDuplicates, Range
  <2>2. CASE s \notin ss
    <3>1. /\ readQueue'[s] = readQueue[s] /\ NoDuplicates(readQueue[s])
          /\ Range(readQueue[s]) \subseteq Task
          /\ \A t \in Range(readQueue[s]) :
               op[t] = "read" /\ on[t] = s /\ t \notin Range(inbox)
      BY <1>1, <2>2, RangeType DEF TypeOK, ReadersQueued
    <3> QED
      BY <2>2, <3>1
  <2> QED
    BY <2>1, <2>2
<1>5. ReadingWhileQueued'
  BY <1>1 DEF ReadingWhileQueued
<1> QED
  BY <1>2, <1>3, <1>4, <1>5

\* The streams in a backlog, which nobody names, has or reads from.
LEMMA BacklogOf ==
    ASSUME IInv, NEW ls \in SUBSET Listener
    PROVE \A s \in Backlog(ls) :
            /\ s \in Stream /\ state[s] = "open" /\ s \notin held /\ ~readActive[s]
            /\ \A t \in Task : on[t] # s
            /\ \E l \in ls : s \in Range(accepted[l])
<1> USE DEF IInv
<1> SUFFICES ASSUME NEW s \in Backlog(ls)
             PROVE /\ s \in Stream /\ state[s] = "open" /\ s \notin held /\ ~readActive[s]
                   /\ \A t \in Task : on[t] # s
                   /\ \E l \in ls : s \in Range(accepted[l])
  OBVIOUS
<1>1. PICK l \in ls : s \in Range(accepted[l])
  BY DEF Backlog
<1>2. s \in Stream
  BY <1>1, RangeType DEF TypeOK
<1>3. state[s] = "open" /\ s \notin held /\ \A t \in Task : on[t] # s
  BY <1>1 DEF BacklogUntouched
<1>4. ~readActive[s]
  <2>1. SUFFICES ASSUME readActive[s] PROVE FALSE
    OBVIOUS
  <2>2. readQueue[s] \in Seq(Task) /\ readQueue[s] # <<>>
    BY <1>2, <2>1 DEF TypeOK, ReadingWhileQueued
  <2>3. PICK u \in Range(readQueue[s]) : u \in Task
    BY <2>2, RangeType
  <2> QED
    BY <1>2, <1>3, <2>3 DEF ReadersQueued
<1> QED
  BY <1>1, <1>2, <1>3, <1>4

\* abort_listener of listeners that are in the registry: backlog, acceptors and
\* registry are emptied together, and no other task or stream is concerned.
LEMMA AbortEffect ==
    ASSUME IInv, NEW ls \in SUBSET registry, NEW ts, AbortListeners(ls, ts), UNCHANGED held,
           \A u \in Task : u \in ts => op[u] = "read" /\ u \notin Range(inbox),
           Range(inbox') \subseteq Range(inbox),
           \A u \in Range(inbox) : u \in Range(inbox') \/ op[u] = "close_listener"
    PROVE /\ TasksTyped' /\ StatesTyped'
          /\ accepted' \in [Listener -> Seq(Stream)]
          /\ pendingAccepts' \in [Listener -> Seq(Task)] /\ registry' \subseteq Listener
          /\ HeldIsAlive' /\ ClosedIsGivenUp' /\ OpeningIsAlone'
          /\ AcceptorsQueued' /\ BacklogUntouched' /\ RegistryIsOpen' /\ OpenStreamsOwned'
          /\ \A u \in Range(inbox) : op'[u] = op[u] /\ on'[u] = on[u]
                /\ (op[u] \notin ListenerOp => state'[on[u]] = state[on[u]])
          /\ \A u \in Task : (op[u] = "read" /\ u \notin ts) => op'[u] = op[u] /\ on'[u] = on[u]
          /\ \A s \in Stream : readActive[s] => state'[s] = "open"
<1> USE NetAssumption DEF IInv, Handle, StreamOp, ListenerOp, Op, Opening
<1> DEFINE woken == UNION {Range(pendingAccepts[l]) : l \in ls}
<1>1. ls \subseteq Listener /\ \A l \in ls : state[l] = "open"
  BY DEF TypeOK, RegistryIsOpen
<1>2. /\ \A u \in woken : op[u] = "accept" /\ u \notin Range(inbox)
      /\ \A u \in Task : (\E l \in ls : u \in Range(pendingAccepts[l])) => u \in woken
  BY <1>1 DEF AcceptorsQueued
<1>3. /\ TasksTyped'
      /\ \A u \in Task : u \notin ts \cup woken => op'[u] = op[u] /\ on'[u] = on[u]
      /\ \A u \in Task : u \in ts \cup woken => op'[u] = "none" /\ on'[u] = NoHandle
  BY CompleteEffect DEF AbortListeners
<1> HIDE DEF woken
<1>4. /\ StatesTyped'
      /\ \A g \in Handle :
           state'[g] = (IF g \in ls \cup Backlog(ls) THEN "closing" ELSE state[g])
  BY CloseEffect DEF AbortListeners
<1>5. \A s \in Backlog(ls) :
        /\ s \in Stream /\ state[s] = "open" /\ s \notin held /\ ~readActive[s]
        /\ \A t \in Task : on[t] # s
        /\ \E l \in ls : s \in Range(accepted[l])
  BY <1>1, BacklogOf
<1>6. /\ \A l \in Listener : accepted'[l] = (IF l \in ls THEN <<>> ELSE accepted[l])
      /\ \A l \in Listener : pendingAccepts'[l] = (IF l \in ls THEN <<>> ELSE pendingAccepts[l])
      /\ registry' = registry \ ls
  BY DEF AbortListeners, RegistryWithout
<1>7. /\ accepted' \in [Listener -> Seq(Stream)]
      /\ pendingAccepts' \in [Listener -> Seq(Task)] /\ registry' \subseteq Listener
  <2>1. <<>> \in Seq(Task) /\ <<>> \in Seq(Stream)
    OBVIOUS
  <2>2. accepted' \in [Listener -> Seq(Stream)]
    BY <2>1 DEF AbortListeners, TypeOK
  <2>3. pendingAccepts' \in [Listener -> Seq(Task)]
    BY <2>1 DEF AbortListeners, TypeOK
  <2> QED
    BY <1>6, <2>2, <2>3 DEF TypeOK
<1>8. /\ \A u \in Task : op[u] \notin {"read", "accept"} => op'[u] = op[u] /\ on'[u] = on[u]
      /\ \A u \in Task : (op[u] = "read" /\ u \notin ts) => op'[u] = op[u] /\ on'[u] = on[u]
      /\ \A u \in Range(inbox) : u \in Task /\ op'[u] = op[u] /\ on'[u] = on[u]
  <2>1. Range(inbox) \subseteq Task
    BY RangeType DEF TypeOK
  <2> QED
    BY <1>2, <1>3, <2>1
<1>9. \A s \in Stream : s \notin ls /\ (s \notin Backlog(ls) => state'[s] = state[s])
  BY <1>1, <1>4
<1>10. \A u \in Range(inbox) : op[u] \notin ListenerOp => state'[on[u]] = state[on[u]]
  <2> SUFFICES ASSUME NEW u \in Range(inbox), op[u] \notin ListenerOp
               PROVE state'[on[u]] = state[on[u]]
    OBVIOUS
  <2>1. u \in Task /\ on[u] \notin Backlog(ls)
    BY <1>5, <1>8
  <2>2. on[u] \in Handle
    BY <2>1 DEF InboxTargets, TargetsFit
  <2>3. on[u] \notin ls
    <3>1. CASE on[u] \in Stream
      BY <1>9, <3>1
    <3>2. CASE on[u] \in Listener
      <4>1. op[u] = "listen"
        BY <2>1, <3>2 DEF InboxTargets, TargetsFit
      <4>2. state[on[u]] = "none"
        BY <4>1 DEF InboxTargets
      <4> QED
        BY <1>1, <4>2
    <3> QED
      BY <2>2, <3>1, <3>2
  <2> QED
    BY <1>4, <2>1, <2>2, <2>3
<1>11. HeldIsAlive' /\ ClosedIsGivenUp' /\ OpeningIsAlone'
  <2>1. ASSUME NEW u \in Task, op'[u] \in Opening
        PROVE \/ u \in Range(inbox')
              \/ op'[u] = "connect" /\ state'[on'[u]] = "connecting"
    <3>1. op[u] \in Opening /\ on'[u] = on[u] /\ op'[u] = op[u]
      BY <1>3, <2>1
    <3>2. u \in Range(inbox) \/ (op[u] = "connect" /\ state[on[u]] = "connecting")
      BY <3>1 DEF OpeningIsAlone
    <3>3. op[u] = "connect" => on[u] \in Stream /\ on[u] \notin Backlog(ls)
      BY <1>5 DEF TargetsFit
    <3> QED
      BY <1>9, <3>1, <3>2, <3>3
  <2>2. \A h \in held' \cap Stream : h \in held /\ state'[h] = state[h]
    BY <1>5, <1>9
  <2>3. \A h \in held' \cap Listener : state'[h] # "none"
    BY <1>4 DEF HeldIsAlive
  <2>4. \A u \in Task : \/ op'[u] = op[u] /\ on'[u] = on[u]
                        \/ op'[u] = "none" /\ on'[u] = NoHandle
    BY <1>3
  <2> QED
    BY <2>1, <2>2, <2>3, <2>4, OwnersKept
<1>12. AcceptorsQueued'
  <2> SUFFICES ASSUME NEW l \in Listener
               PROVE /\ NoDuplicates(pendingAccepts'[l])
                     /\ \A t \in Range(pendingAccepts'[l]) :
                          op'[t] = "accept" /\ on'[t] = l /\ t \notin Range(inbox')
    BY DEF AcceptorsQueued
  <2>1. CASE l \in ls
    <3>1. pendingAccepts'[l] = <<>>
      BY <1>6, <2>1
    <3> QED
      BY <3>1 DEF NoDuplicates, Range
  <2>2. CASE l \notin ls
    <3>1. /\ pendingAccepts'[l] = pendingAccepts[l] /\ NoDuplicates(pendingAccepts[l])
          /\ Range(pendingAccepts[l]) \subseteq Task
          /\ \A t \in Range(pendingAccepts[l]) :
               op[t] = "accept" /\ on[t] = l /\ t \notin Range(inbox)
      BY <1>6, <2>2, RangeType DEF TypeOK, AcceptorsQueued
    <3>2. \A t \in Range(pendingAccepts[l]) : t \notin ts \cup woken
      <4>1. \A t \in woken : on[t] \in ls
        BY <1>1 DEF woken, AcceptorsQueued
      <4> QED
        BY <2>2, <3>1, <4>1
    <3> QED
      BY <1>3, <3>1, <3>2
  <2> QED
    BY <2>1, <2>2
<1>13. BacklogUntouched'
  <2> SUFFICES ASSUME NEW l \in Listener
               PROVE /\ NoDuplicates(accepted'[l])
                     /\ accepted'[l] # <<>> => state'[l] = "open" /\ pendingAccepts'[l] = <<>>
                     /\ \A s \in Range(accepted'[l]) :
                          /\ state'[s] = "open" /\ s \notin held
                          /\ \A t \in Task : on'[t] # s
                          /\ \A m \in Listener : s \in Range(accepted'[m]) => m = l
    BY DEF BacklogUntouched
  <2>1. CASE l \in ls
    <3>1. accepted'[l] = <<>>
      BY <1>6, <2>1
    <3> QED
      BY <3>1 DEF NoDuplicates, Range
  <2>2. CASE l \notin ls
    <3>1. /\ accepted'[l] = accepted[l] /\ pendingAccepts'[l] = pendingAccepts[l]
          /\ NoDuplicates(accepted[l])
          /\ accepted[l] # <<>> => state[l] = "open" /\ pendingAccepts[l] = <<>>
      BY <1>6, <2>2 DEF BacklogUntouched
    <3>2. l \notin Backlog(ls)
      BY <1>5
    <3>3. state'[l] = state[l]
      BY <1>4, <2>2, <3>2
    <3>4. ASSUME NEW s \in Range(accepted[l])
          PROVE /\ state'[s] = "open" /\ s \notin held
                /\ \A t \in Task : on'[t] # s
                /\ \A m \in Listener : s \in Range(accepted'[m]) => m = l
      <4>1. /\ state[s] = "open" /\ s \notin held /\ \A t \in Task : on[t] # s
            /\ \A m \in Listener : s \in Range(accepted[m]) => m = l
        BY DEF BacklogUntouched
      <4>2. s \in Stream
        BY RangeType DEF TypeOK
      <4>3. s \notin Backlog(ls)
        BY <1>1, <1>5, <2>2, <4>1
      <4>4. \A m \in Listener : s \in Range(accepted'[m]) => s \in Range(accepted[m])
        BY <1>6 DEF Range
      <4> QED
        BY <1>3, <1>9, <4>1, <4>2, <4>3, <4>4
    <3>5. \A s \in Range(accepted'[l]) : s \in Range(accepted[l])
      BY <3>1
    <3>6. \A s \in Range(accepted'[l]) :
            /\ state'[s] = "open" /\ s \notin held
            /\ \A t \in Task : on'[t] # s
            /\ \A m \in Listener : s \in Range(accepted'[m]) => m = l
      BY <3>4, <3>5
    <3> QED
      BY <3>1, <3>3, <3>6
  <2> QED
    BY <2>1, <2>2
<1>14. RegistryIsOpen'
  <2>1. \A l \in Listener : l \notin Backlog(ls)
    BY <1>5
  <2> QED
    BY <1>1, <1>4, <1>6, <2>1 DEF RegistryIsOpen
<1>15. OpenStreamsOwned'
  <2> SUFFICES ASSUME NEW s \in Stream, state'[s] = "open", s \notin held
               PROVE \/ \E u \in Range(inbox') : op'[u] = "close_stream" /\ on'[u] = s
                     \/ \E l \in Listener : s \in Range(accepted'[l])
    BY DEF OpenStreamsOwned
  <2>1. s \notin Backlog(ls) /\ state[s] = "open"
    BY <1>4, <1>9
  <2>2. \/ \E u \in Range(inbox) : op[u] = "close_stream" /\ on[u] = s
        \/ \E l \in Listener : s \in Range(accepted[l])
    BY <2>1 DEF OpenStreamsOwned
  <2>3. \A l \in ls : s \notin Range(accepted[l])
    BY <2>1 DEF Backlog
  <2> QED
    BY <1>6, <1>8, <2>2, <2>3
<1>16. \A s \in Stream : readActive[s] => state'[s] = "open"
  BY <1>5, <1>9 DEF ReadingWhileQueued
<1> QED
  BY <1>3, <1>4, <1>7, <1>8, <1>10, <1>11, <1>12, <1>13, <1>14, <1>15, <1>16

\* StreamClose: the parked readers complete, nothing on the stream is queued any
\* more, and its reading ends in all three records.
LEMMA DispatchStreamCloseInv ==
    ASSUME IInv, NEW t \in Task, DispatchStreamClose(t)
    PROVE IInv'
<1> USE NetAssumption DEF IInv, Handle, StreamOp, ListenerOp, Op, Opening
<1> DEFINE s == on[t]
<1>1. /\ op[t] = "close_stream" /\ s \in Stream /\ state[s] = "open"
      /\ inbox' \in Seq(Task) /\ Range(inbox') \subseteq Task
      /\ Range(inbox) = {t} \cup Range(inbox') /\ t \notin Range(inbox')
      /\ UNCHANGED <<held, listenVars, shutdownVars>>
  BY FrontOfInbox DEF DispatchStreamClose
<1>2. /\ TasksTyped'
      /\ \A u \in Task : u \notin Readers({s}) => op'[u] = op[u] /\ on'[u] = on[u]
      /\ \A u \in Task : u \in Readers({s}) => op'[u] = "none" /\ on'[u] = NoHandle
  BY CompleteEffect DEF DispatchStreamClose
<1>3. /\ StatesTyped' /\ state'[s] = "closing"
      /\ \A h \in Handle : h # s => state'[h] = state[h]
  BY <1>1, CloseEffect DEF DispatchStreamClose
<1>4. \A u \in Readers({s}) : u \in Task /\ op[u] = "read" /\ on[u] = s /\ u \notin Range(inbox)
  BY <1>1, ReadersOf
<1>5. \A u \in Task : on[u] # s \/ op[u] # "read" => op'[u] = op[u] /\ on'[u] = on[u]
  BY <1>2, <1>4
<1>6. \A u \in Range(inbox) : op'[u] = op[u] /\ on'[u] = on[u]
  BY <1>1, <1>2, <1>4
<1>7. /\ readQueue' \in [Stream -> Seq(Task)] /\ readActive' \in [Stream -> BOOLEAN]
      /\ reading' \subseteq Stream
      /\ ReadersQueued' /\ ReadingWhileQueued'
  <2>1. \A x \in Stream \ {s} : readActive[x] => state'[x] = "open"
    BY <1>3 DEF ReadingWhileQueued
  <2> QED
    BY <1>1, <1>5, <2>1, StopReadingEffect DEF DispatchStreamClose
<1>8. TypeOK' /\ TargetsFit'
  BY <1>1, <1>2, <1>3, <1>7 DEF TasksTyped, StatesTyped, listenVars, shutdownVars, TypeOK
<1>9. InboxOnce' /\ InboxTargets' /\ NothingBehindClose'
  <2>1. \A u \in Range(inbox') : on[u] \in Handle /\ on[u] # s
    BY <1>1, LastOfItsStream DEF DispatchStreamClose, TargetsFit, InboxTargets
  <2>2. \A u \in Range(inbox') :
          op'[u] = op[u] /\ on'[u] = on[u] /\ state'[on[u]] = state[on[u]]
    BY <1>1, <1>3, <1>6, <2>1
  <2> QED
    BY <2>2, InboxAfterDispatch DEF DispatchStreamClose
<1>10. HeldIsAlive' /\ ClosedIsGivenUp' /\ OpeningIsAlone'
  <2>1. ASSUME NEW u \in Task, op'[u] \in Opening
        PROVE \/ u \in Range(inbox')
              \/ op'[u] = "connect" /\ state'[on'[u]] = "connecting"
    <3>1. op[u] \in Opening /\ on'[u] = on[u] /\ op'[u] = op[u] /\ u # t
      BY <1>1, <1>2, <2>1
    <3>2. u \in Range(inbox) \/ (op[u] = "connect" /\ state[on[u]] = "connecting")
      BY <3>1 DEF OpeningIsAlone
    <3>3. op[u] = "connect" => on[u] \in Stream
      BY DEF TargetsFit
    <3> QED
      BY <1>1, <1>3, <3>1, <3>2, <3>3
  <2>2. s \notin held
    BY <1>1 DEF ClosedIsGivenUp
  <2>3. \A h \in held' \cap Stream : h \in held /\ state'[h] = state[h]
    BY <1>1, <1>3, <2>2
  <2>4. \A h \in held' \cap Listener : state'[h] # "none"
    BY <1>1, <1>3 DEF HeldIsAlive
  <2> QED
    BY <1>2, <2>1, <2>3, <2>4, OwnersKept
<1>11. AcceptorsQueued' /\ RegistryIsOpen'
  <2>1. AcceptorsQueued'
    BY <1>1, <1>5, AcceptorsKept DEF listenVars
  <2> QED
    BY <1>1, <1>3, <2>1 DEF RegistryIsOpen, listenVars
<1>12. BacklogUntouched'
  <2>1. ASSUME NEW l \in Listener, NEW x \in Range(accepted[l])
        PROVE state'[x] = "open"
    <3>1. x \in Stream
      BY RangeType DEF TypeOK
    <3>2. state[x] = "open" /\ x # s
      BY DEF BacklogUntouched
    <3> QED
      BY <1>3, <3>1, <3>2
  <2>2. \A l \in Listener : state[l] = "open" => state'[l] = "open"
    BY <1>1, <1>3
  <2> QED
    BY <1>1, <1>2, <2>1, <2>2, BacklogKept DEF listenVars
<1>13. OpenStreamsOwned'
  <2>1. \A u \in Range(inbox) : op[u] = "close_stream" =>
          \/ u \in Range(inbox') /\ op'[u] = op[u] /\ on'[u] = on[u]
          \/ state'[on[u]] # "open"
    BY <1>1, <1>3, <1>6
  <2>2. \A x \in Stream : state'[x] = "open" => state[x] = "open"
    BY <1>3
  <2> QED
    BY <1>1, <2>1, <2>2, OwnedKept DEF listenVars
<1> QED
  BY <1>7, <1>8, <1>9, <1>10, <1>11, <1>12, <1>13

\* ListenerClose: aborts an open listener, or answers for one that the signal
\* path has closed.
LEMMA DispatchListenerCloseInv ==
    ASSUME IInv, NEW t \in Task, DispatchListenerClose(t)
    PROVE IInv'
<1> USE NetAssumption DEF IInv, Handle, StreamOp, ListenerOp, Op, Opening
<1>1. /\ op[t] = "close_listener" /\ on[t] \in Listener
      /\ inbox' \in Seq(Task) /\ Range(inbox') \subseteq Task
      /\ Range(inbox) = {t} \cup Range(inbox') /\ t \notin Range(inbox')
      /\ UNCHANGED <<held, readVars, shutdownVars>>
  BY FrontOfInbox DEF DispatchListenerClose
<1>2. CASE on[t] \in registry /\ AbortListeners({on[t]}, {})
  <2>1. /\ TasksTyped' /\ StatesTyped'
        /\ accepted' \in [Listener -> Seq(Stream)]
        /\ pendingAccepts' \in [Listener -> Seq(Task)] /\ registry' \subseteq Listener
        /\ HeldIsAlive' /\ ClosedIsGivenUp' /\ OpeningIsAlone'
        /\ AcceptorsQueued' /\ BacklogUntouched' /\ RegistryIsOpen' /\ OpenStreamsOwned'
        /\ \A u \in Range(inbox) : op'[u] = op[u] /\ on'[u] = on[u]
              /\ (op[u] \notin ListenerOp => state'[on[u]] = state[on[u]])
        /\ \A u \in Task : op[u] = "read" => op'[u] = op[u] /\ on'[u] = on[u]
        /\ \A s \in Stream : readActive[s] => state'[s] = "open"
    <3>1. PICK ls, ts : ls = {on[t]} /\ ts = {}
      OBVIOUS
    <3>2. /\ ls \in SUBSET registry /\ AbortListeners(ls, ts) /\ UNCHANGED held
          /\ \A u \in Task : u \in ts => op[u] = "read" /\ u \notin Range(inbox)
          /\ Range(inbox') \subseteq Range(inbox)
          /\ \A u \in Range(inbox) : u \in Range(inbox') \/ op[u] = "close_listener"
      BY <1>1, <1>2, <3>1
    <3>3. \A u \in Task : u \notin ts
      BY <3>1
    <3> HIDE DEF IInv, Handle, StreamOp, ListenerOp, Op, Opening
    <3> QED
      BY <3>2, <3>3, AbortEffect
  <2>2. TypeOK' /\ TargetsFit'
    BY <1>1, <2>1 DEF TasksTyped, StatesTyped, readVars, shutdownVars, TypeOK
  <2>3. InboxOnce' /\ InboxTargets' /\ NothingBehindClose'
    BY <1>1, <2>1, InboxAfterDispatch DEF DispatchListenerClose
  <2>4. ReadersQueued' /\ ReadingWhileQueued'
    BY <1>1, <2>1, ReadersKept
  <2> QED
    BY <2>1, <2>2, <2>3, <2>4
<1>3. CASE on[t] \notin registry /\ Complete({t}) /\ UNCHANGED <<state, listenVars>>
  <2>1. /\ TasksTyped' /\ op'[t] = "none" /\ on'[t] = NoHandle
        /\ \A u \in Task : u # t => op'[u] = op[u] /\ on'[u] = on[u]
    BY <1>3, CompleteEffect
  <2>2. TypeOK' /\ TargetsFit'
    BY <1>1, <1>3, <2>1 DEF TasksTyped, listenVars, readVars, shutdownVars, TypeOK
  <2>3. InboxOnce' /\ InboxTargets' /\ NothingBehindClose'
    BY <1>1, <1>3, <2>1, InboxAfterDispatch DEF DispatchListenerClose
  <2>4. HeldIsAlive' /\ ClosedIsGivenUp' /\ OpeningIsAlone'
    <3>1. \A u \in Task : op'[u] \in Opening =>
            \/ u \in Range(inbox')
            \/ op'[u] = "connect" /\ state'[on'[u]] = "connecting"
      BY <1>1, <1>3, <2>1 DEF OpeningIsAlone
    <3>2. \A h \in held' \cap Listener : state'[h] # "none"
      BY <1>1, <1>3 DEF HeldIsAlive
    <3> QED
      BY <1>1, <1>3, <2>1, <3>1, <3>2, OwnersKept
  <2>5. /\ ReadersQueued' /\ ReadingWhileQueued' /\ AcceptorsQueued'
        /\ BacklogUntouched' /\ RegistryIsOpen'
    BY <1>1, <1>3, <2>1, QueuesKept
  <2>6. OpenStreamsOwned'
    BY <1>1, <1>3, <2>1, OwnedKept DEF listenVars
  <2> QED
    BY <2>2, <2>3, <2>4, <2>5, <2>6
<1> QED
  BY <1>2, <1>3 DEF DispatchListenerClose, AnswerClose

-----------------------------------------------------------------------------
(* Callbacks. *)

\* A callback that completes parked tasks outside of the queues, closes no open
\* handle, and gives Scheme at most a stream that it opens and nobody names.
LEMMA CallbackAside ==
    ASSUME IInv, UNCHANGED <<inbox, listenVars, readVars>>,
           TasksTyped', StatesTyped', held' \subseteq Handle,
           signaled' \in BOOLEAN, timer' \in BOOLEAN, exited' \in BOOLEAN,
           \A u \in Task : \/ op'[u] = op[u] /\ on'[u] = on[u]
                           \/ /\ op'[u] = "none" /\ on'[u] = NoHandle
                              /\ op[u] \notin {"read", "accept"} /\ u \notin Range(inbox),
           \A u \in Range(inbox) : op[u] \notin ListenerOp => state'[on[u]] = state[on[u]],
           \A u \in Task : (op'[u] = "connect" /\ u \notin Range(inbox)) =>
             state'[on[u]] = state[on[u]],
           \A h \in Handle : state[h] = "open" => state'[h] = "open",
           \A l \in Listener : /\ state'[l] = "open" => state[l] = "open"
                               /\ state[l] # "none" => state'[l] # "none",
           held \subseteq held',
           \A h \in held' : \/ h \in held
                            \/ /\ h \in Stream /\ state[h] # "open" /\ state'[h] = "open"
                               /\ \A u \in Task : on'[u] # h,
           \A s \in Stream : state'[s] = "open" => state[s] = "open" \/ s \in held'
    PROVE IInv'
<1> USE NetAssumption DEF IInv, Handle, StreamOp, ListenerOp, Op, Opening
<1>1. TypeOK' /\ TargetsFit'
  BY DEF TasksTyped, StatesTyped, listenVars, readVars, TypeOK
<1>2. Range(inbox) \subseteq Task
  BY RangeType DEF TypeOK
<1>3. InboxOnce' /\ InboxTargets' /\ NothingBehindClose'
  BY <1>2, InboxAfterCallback
<1>4. HeldIsAlive' /\ ClosedIsGivenUp' /\ OpeningIsAlone'
  <2>1. \A u \in Task : op'[u] \in Opening =>
          \/ u \in Range(inbox')
          \/ op'[u] = "connect" /\ state'[on'[u]] = "connecting"
    BY DEF OpeningIsAlone
  <2>2. \A h \in held' \cap Stream :
          \/ h \in held /\ state'[h] = state[h]
          \/ state'[h] = "open" /\ \A u \in Task : on'[u] # h
    BY DEF HeldIsAlive
  <2>3. \A h \in held' \cap Listener : state'[h] # "none"
    BY DEF HeldIsAlive
  <2>4. \A u \in Task : \/ op'[u] = op[u] /\ on'[u] = on[u]
                        \/ op'[u] = "none" /\ on'[u] = NoHandle
    OBVIOUS
  <2> QED
    BY <2>1, <2>2, <2>3, <2>4, OwnersKept
<1>5. /\ ReadersQueued' /\ ReadingWhileQueued' /\ AcceptorsQueued'
      /\ BacklogUntouched' /\ RegistryIsOpen'
  <2>1. \A u \in Task : (op[u] \in {"read", "accept"} /\ u \notin Range(inbox)) =>
          op'[u] = op[u] /\ on'[u] = on[u] /\ u \notin Range(inbox')
    OBVIOUS
  <2>2. \A u \in Task : on'[u] \in {on[u], NoHandle}
    OBVIOUS
  <2> QED
    BY <2>1, <2>2, QueuesKept
<1>6. OpenStreamsOwned'
  BY <1>2, OwnedKept DEF listenVars
<1> QED
  BY <1>1, <1>3, <1>4, <1>5, <1>6

\* on_connect: the stream is open and Scheme's, or closes.
LEMMA OnConnectInv ==
    ASSUME IInv, NEW t \in Task, OnConnect(t)
    PROVE IInv'
<1> USE NetAssumption DEF IInv, Handle, StreamOp, ListenerOp, Op, Opening
<1> DEFINE s == on[t]
<1>1. /\ op[t] = "connect" /\ state[s] = "connecting" /\ s \in Stream
      /\ UNCHANGED <<inbox, listenVars, readVars, shutdownVars>>
  BY DEF OnConnect, TargetsFit
<1>2. t \notin Range(inbox) /\ \A u \in Task : u # t => on[u] # s
  BY <1>1 DEF InboxTargets, OpeningIsAlone
<1>3. /\ TasksTyped' /\ op'[t] = "none" /\ on'[t] = NoHandle
      /\ \A u \in Task : u # t => op'[u] = op[u] /\ on'[u] = on[u]
  BY CompleteEffect DEF OnConnect
<1>4. /\ StatesTyped'
      /\ \A h \in Handle : h # s => state'[h] = state[h]
      /\ \/ held' = held \cup {s} /\ state'[s] = "open"
         \/ held' = held /\ state'[s] = "closing"
  <2>1. CASE state' = [state EXCEPT ![s] = "open"] /\ held' = held \cup {s}
    BY <1>1, <2>1, StateEffect
  <2>2. CASE Close({s}) /\ UNCHANGED held
    BY <1>1, <2>2, CloseEffect
  <2> QED
    BY <2>1, <2>2 DEF OnConnect
<1>5. signaled' \in BOOLEAN /\ timer' \in BOOLEAN /\ exited' \in BOOLEAN
  BY <1>1 DEF shutdownVars, TypeOK
<1>6. \A u \in Range(inbox) : op[u] \notin ListenerOp => state'[on[u]] = state[on[u]]
  <2>1. \A u \in Range(inbox) : u \in Task /\ u # t /\ on[u] \in Handle
    BY <1>2, RangeType DEF TypeOK, InboxTargets, TargetsFit
  <2> QED
    BY <1>2, <1>4, <2>1
<1>7. \A u \in Task : (op'[u] = "connect" /\ u \notin Range(inbox)) =>
        state'[on[u]] = state[on[u]]
  <2>1. \A u \in Task : op[u] = "connect" => on[u] \in Handle
    BY DEF TargetsFit
  <2> QED
    BY <1>2, <1>3, <1>4, <2>1
<1>8. held' \subseteq Handle /\ held \subseteq held'
  BY <1>1, <1>4 DEF TypeOK
<1>9. \A h \in held' : \/ h \in held
                       \/ /\ h \in Stream /\ state[h] # "open" /\ state'[h] = "open"
                          /\ \A u \in Task : on'[u] # h
  BY <1>1, <1>2, <1>3, <1>4
<1>10. /\ \A h \in Handle : state[h] = "open" => state'[h] = "open"
       /\ \A l \in Listener : /\ state'[l] = "open" => state[l] = "open"
                              /\ state[l] # "none" => state'[l] # "none"
       /\ \A x \in Stream : state'[x] = "open" => state[x] = "open" \/ x \in held'
  BY <1>1, <1>4
<1>11. \A u \in Task : \/ op'[u] = op[u] /\ on'[u] = on[u]
                       \/ /\ op'[u] = "none" /\ on'[u] = NoHandle
                          /\ op[u] \notin {"read", "accept"} /\ u \notin Range(inbox)
  BY <1>1, <1>2, <1>3
<1> HIDE DEF IInv, Handle, StreamOp, ListenerOp, Op, Opening
<1> QED
  BY <1>1, <1>3, <1>4, <1>5, <1>6, <1>7, <1>8, <1>9, <1>10, <1>11, CallbackAside

\* on_write completes a task that is in no queue.
LEMMA OnWriteInv ==
    ASSUME IInv, NEW t \in Task, OnWrite(t)
    PROVE IInv'
<1> USE NetAssumption DEF IInv, Handle
<1>1. /\ TasksTyped' /\ op'[t] = "none" /\ on'[t] = NoHandle
      /\ \A u \in Task : u # t => op'[u] = op[u] /\ on'[u] = on[u]
  BY CompleteEffect DEF OnWrite
<1>2. /\ op[t] = "write" /\ t \notin Range(inbox)
      /\ UNCHANGED <<inbox, state, held, listenVars, readVars, shutdownVars>>
  BY DEF OnWrite
<1>3. /\ StatesTyped' /\ held' \subseteq Handle
      /\ signaled' \in BOOLEAN /\ timer' \in BOOLEAN /\ exited' \in BOOLEAN
  BY <1>2 DEF shutdownVars, TypeOK, StatesTyped
<1> HIDE DEF IInv
<1> QED
  BY <1>1, <1>2, <1>3, CallbackAside

\* A connection that could not be accepted is closed.
LEMMA OnConnectionFailsInv ==
    ASSUME IInv, NEW l \in Listener, NEW s \in Stream, OnConnectionFails(l, s)
    PROVE IInv'
<1> USE NetAssumption DEF IInv, Handle, StreamOp, ListenerOp, Op, Opening
<1>1. /\ state[s] = "none" /\ \A u \in Task : on[u] # s
      /\ UNCHANGED <<taskVars, inbox, held, listenVars, readVars, shutdownVars>>
  BY DEF OnConnectionFails, Fresh
<1>2. TasksTyped' /\ \A u \in Task : op'[u] = op[u] /\ on'[u] = on[u]
  BY <1>1, TasksUnchanged
<1>3. /\ StatesTyped' /\ state'[s] = "closing"
      /\ \A h \in Handle : h # s => state'[h] = state[h]
  BY CloseEffect DEF OnConnectionFails
<1>4. /\ held' \subseteq Handle
      /\ signaled' \in BOOLEAN /\ timer' \in BOOLEAN /\ exited' \in BOOLEAN
  BY <1>1 DEF shutdownVars, TypeOK
<1>5. \A u \in Range(inbox) : op[u] \notin ListenerOp => state'[on[u]] = state[on[u]]
  <2>1. \A u \in Range(inbox) : u \in Task /\ on[u] \in Handle
    BY RangeType DEF TypeOK, InboxTargets, TargetsFit
  <2> QED
    BY <1>1, <1>3, <2>1
<1>6. \A u \in Task : (op'[u] = "connect" /\ u \notin Range(inbox)) =>
        state'[on[u]] = state[on[u]]
  <2>1. \A u \in Task : op[u] = "connect" => on[u] \in Handle
    BY DEF TargetsFit
  <2> QED
    BY <1>1, <1>2, <1>3, <2>1
<1>7. /\ \A h \in Handle : state[h] = "open" => state'[h] = "open"
      /\ \A k \in Listener : state'[k] = state[k]
      /\ \A x \in Stream : state'[x] = "open" => state[x] = "open"
  BY <1>1, <1>3
<1> HIDE DEF IInv, Handle, StreamOp, ListenerOp, Op, Opening
<1> QED
  BY <1>1, <1>2, <1>3, <1>4, <1>5, <1>6, <1>7, CallbackAside

\* OnClosed deletes a closing handle, which no queued stream operation and no
\* task that opens a handle names.
LEMMA OnClosedInv ==
    ASSUME IInv, NEW h \in Handle, OnClosed(h)
    PROVE IInv'
<1> USE NetAssumption DEF IInv, Handle, StreamOp, ListenerOp, Op, Opening
<1>1. /\ state[h] = "closing" /\ state' = [state EXCEPT ![h] = AfterClose(h)]
      /\ UNCHANGED <<inbox, held, listenVars, readVars, shutdownVars>>
  BY DEF OnClosed
<1>2. /\ TasksTyped'
      /\ \A u \in Task :
           \/ op'[u] = op[u] /\ on'[u] = on[u]
           \/ /\ op'[u] = "none" /\ on'[u] = NoHandle
              /\ op[u] \notin {"read", "accept"} /\ u \notin Range(inbox)
  <2> DEFINE ts == {t \in Task : /\ on[t] = h /\ t \notin Range(inbox)
                                 /\ op[t] \in {"close_stream", "close_listener"}}
  <2>1. Complete(ts)
    BY DEF OnClosed
  <2>2. \A u \in ts : op[u] \notin {"read", "accept"} /\ u \notin Range(inbox)
    OBVIOUS
  <2> HIDE DEF ts
  <2> QED
    BY <2>1, <2>2, CompleteEffect
<1>3. /\ StatesTyped' /\ state'[h] = AfterClose(h)
      /\ \A g \in Handle : g # h => state'[g] = state[g]
  BY <1>1, StateEffect DEF AfterClose
<1>4. /\ held' \subseteq Handle
      /\ signaled' \in BOOLEAN /\ timer' \in BOOLEAN /\ exited' \in BOOLEAN
  BY <1>1 DEF shutdownVars, TypeOK
<1>5. \A u \in Range(inbox) : op[u] \notin ListenerOp => state'[on[u]] = state[on[u]]
  <2>1. \A u \in Range(inbox) : u \in Task /\ on[u] \in Handle
    BY RangeType DEF TypeOK, InboxTargets, TargetsFit
  <2>2. \A u \in Range(inbox) : op[u] \notin ListenerOp => state[on[u]] \in {"none", "open"}
    BY <2>1 DEF TypeOK, InboxTargets
  <2> QED
    BY <1>1, <1>3, <2>1, <2>2
<1>6. \A u \in Task : (op'[u] = "connect" /\ u \notin Range(inbox)) =>
        state'[on[u]] = state[on[u]]
  <2>1. \A u \in Task : (op[u] = "connect" /\ u \notin Range(inbox)) =>
          on[u] \in Handle /\ state[on[u]] = "connecting"
    BY DEF TargetsFit, OpeningIsAlone
  <2> QED
    BY <1>1, <1>2, <1>3, <2>1
<1>7. /\ \A g \in Handle : state[g] = "open" => state'[g] = "open"
      /\ \A l \in Listener : /\ state'[l] = "open" => state[l] = "open"
                             /\ state[l] # "none" => state'[l] # "none"
      /\ \A x \in Stream : state'[x] = "open" => state[x] = "open"
  BY <1>1, <1>3 DEF AfterClose
<1> HIDE DEF IInv, Handle, StreamOp, ListenerOp, Op, Opening
<1> QED
  BY <1>1, <1>2, <1>3, <1>4, <1>5, <1>6, <1>7, CallbackAside

\* The two ends of a shutdown only mark the process as gone.
LEMMA ExitInv ==
    ASSUME IInv, OnSignalExit \/ OnShutdownTimer
    PROVE IInv'
<1> USE NetAssumption DEF IInv, Handle
<1>1. UNCHANGED <<taskVars, inbox, state, held, listenVars, readVars>>
  BY DEF OnSignalExit, OnShutdownTimer
<1>2. TasksTyped' /\ \A u \in Task : op'[u] = op[u] /\ on'[u] = on[u]
  BY <1>1, TasksUnchanged
<1>3. StatesTyped' /\ held' \subseteq Handle
  BY <1>1 DEF TypeOK, StatesTyped
<1>4. signaled' \in BOOLEAN /\ timer' \in BOOLEAN /\ exited' \in BOOLEAN
  BY DEF OnSignalExit, OnShutdownTimer, TypeOK
<1> HIDE DEF IInv
<1> QED
  BY <1>1, <1>2, <1>3, <1>4, CallbackAside

\* A callback that only answers readers.
LEMMA ReadersAnswered ==
    ASSUME IInv, UNCHANGED <<inbox, state, held, listenVars, shutdownVars>>, TasksTyped',
           \A u \in Task : \/ op'[u] = op[u] /\ on'[u] = on[u]
                           \/ /\ op'[u] = "none" /\ on'[u] = NoHandle
                              /\ op[u] = "read" /\ u \notin Range(inbox),
           readQueue' \in [Stream -> Seq(Task)], readActive' \in [Stream -> BOOLEAN],
           reading' \subseteq Stream, ReadersQueued', ReadingWhileQueued'
    PROVE IInv'
<1> USE NetAssumption DEF IInv, Handle, StreamOp, ListenerOp, Op, Opening
<1>1. TypeOK' /\ TargetsFit'
  BY DEF TasksTyped, listenVars, shutdownVars, TypeOK
<1>2. Range(inbox) \subseteq Task
  BY RangeType DEF TypeOK
<1>3. InboxOnce' /\ InboxTargets' /\ NothingBehindClose'
  BY <1>2, InboxAfterCallback
<1>4. HeldIsAlive' /\ ClosedIsGivenUp' /\ OpeningIsAlone'
  <2>1. \A u \in Task : op'[u] \in Opening =>
          \/ u \in Range(inbox')
          \/ op'[u] = "connect" /\ state'[on'[u]] = "connecting"
    BY DEF OpeningIsAlone
  <2>2. \A h \in held' \cap Listener : state'[h] # "none"
    BY DEF HeldIsAlive
  <2> QED
    BY <2>1, <2>2, OwnersKept
<1>5. AcceptorsQueued' /\ RegistryIsOpen'
  BY AcceptorsKept DEF listenVars, RegistryIsOpen
<1>6. BacklogUntouched'
  <2>1. \A l \in Listener : \A s \in Range(accepted[l]) : state'[s] = "open"
    BY DEF BacklogUntouched
  <2> QED
    BY <2>1, BacklogKept DEF listenVars
<1>7. OpenStreamsOwned'
  BY <1>2, OwnedKept DEF listenVars
<1> QED
  BY <1>1, <1>3, <1>4, <1>5, <1>6, <1>7

\* All readers of a stream are answered, and the uv-level read stops.
LEMMA AllReadersAnswered ==
    ASSUME IInv, NEW s \in Stream, Complete(Readers({s})), StopReading({s}),
           UNCHANGED <<inbox, state, held, listenVars, shutdownVars>>
    PROVE IInv'
<1>1. /\ TasksTyped'
      /\ \A u \in Task : u \notin Readers({s}) => op'[u] = op[u] /\ on'[u] = on[u]
      /\ \A u \in Task : u \in Readers({s}) => op'[u] = "none" /\ on'[u] = NoHandle
  BY CompleteEffect
<1>2. \A u \in Readers({s}) : u \in Task /\ op[u] = "read" /\ on[u] = s /\ u \notin Range(inbox)
  BY ReadersOf
<1>3. \A x \in Stream \ {s} : readActive[x] => state'[x] = "open"
  BY DEF IInv, ReadingWhileQueued
<1>4. \A u \in Task : (op[u] = "read" /\ on[u] \notin {s} /\ u \notin Range(inbox)) =>
        op'[u] = op[u] /\ on'[u] = on[u] /\ u \notin Range(inbox')
  BY <1>1, <1>2
<1>5. /\ readQueue' \in [Stream -> Seq(Task)] /\ readActive' \in [Stream -> BOOLEAN]
      /\ reading' \subseteq Stream
      /\ ReadersQueued' /\ ReadingWhileQueued'
  BY <1>3, <1>4, StopReadingEffect
<1> QED
  BY <1>1, <1>2, <1>5, ReadersAnswered

\* on_read with data answers the oldest reader.
LEMMA OnReadDataInv ==
    ASSUME IInv, NEW s \in Stream, OnReadData(s)
    PROVE IInv'
<1>1. CASE Len(readQueue[s]) <= 1
  BY <1>1, AllReadersAnswered DEF OnReadData
<1>2. CASE ~(Len(readQueue[s]) <= 1)
  <2> DEFINE q == readQueue[s]
             t == Head(q)
  <2>1. q \in Seq(Task) /\ NoDuplicates(q) /\ q # <<>> /\ Len(q) \in Nat /\ readActive[s]
        /\ Range(q) \subseteq Task
        /\ \A u \in Range(q) : op[u] = "read" /\ on[u] = s /\ u \notin Range(inbox)
    BY <1>2, RangeType, LenProperties DEF IInv, TypeOK, ReadersQueued, ReadingWhileQueued, OnReadData
  <2>2. /\ t \in Task /\ Tail(q) \in Seq(Task) /\ Range(q) = {t} \cup Range(Tail(q))
        /\ NoDuplicates(Tail(q)) /\ t \notin Range(Tail(q))
    BY <2>1, RangeTail, NoDuplicatesTail
  <2>3. Tail(q) # <<>>
    <3>1. SUFFICES ASSUME Len(q) = 1 PROVE FALSE
      BY <2>1, TailOfTwo
    <3>2. 1 <= 1
      OBVIOUS
    <3> QED
      BY <1>2, <3>1, <3>2, Zenon
  <2>4. /\ readQueue' = [readQueue EXCEPT ![s] = Tail(q)]
        /\ UNCHANGED <<readActive, reading, inbox, state, held, listenVars, shutdownVars>>
    BY <1>2 DEF OnReadData
  <2>5. /\ TasksTyped' /\ op'[t] = "none" /\ on'[t] = NoHandle
        /\ \A u \in Task : u # t => op'[u] = op[u] /\ on'[u] = on[u]
    BY <1>2, <2>2, CompleteEffect DEF OnReadData
  <2> HIDE DEF t
  <2>6. readQueue'[s] = Tail(q) /\ \A x \in Stream : x # s => readQueue'[x] = readQueue[x]
    BY <2>4 DEF IInv, TypeOK
  <2>7. /\ readQueue' \in [Stream -> Seq(Task)] /\ readActive' \in [Stream -> BOOLEAN]
        /\ reading' \subseteq Stream
    <3>1. readQueue' \in [Stream -> Seq(Task)]
      BY <2>2, <2>4 DEF IInv, TypeOK
    <3> QED
      BY <2>4, <3>1 DEF IInv, TypeOK
  <2>8. ReadersQueued'
    <3> SUFFICES ASSUME NEW x \in Stream
                 PROVE /\ NoDuplicates(readQueue'[x])
                       /\ \A u \in Range(readQueue'[x]) :
                            op'[u] = "read" /\ on'[u] = x /\ u \notin Range(inbox')
      BY DEF ReadersQueued
    <3>1. /\ NoDuplicates(readQueue[x]) /\ Range(readQueue[x]) \subseteq Task
          /\ \A u \in Range(readQueue[x]) : op[u] = "read" /\ on[u] = x /\ u \notin Range(inbox)
      BY RangeType DEF IInv, TypeOK, ReadersQueued
    <3>2. CASE x = s
      BY <2>2, <2>4, <2>5, <2>6, <3>1, <3>2
    <3>3. CASE x # s
      <4>1. readQueue'[x] = readQueue[x] /\ t \notin Range(readQueue[x])
        BY <2>1, <2>2, <2>6, <3>1, <3>3
      <4> QED
        BY <2>4, <2>5, <3>1, <4>1
    <3> QED
      BY <3>2, <3>3
  <2>9. ReadingWhileQueued'
    <3>1. \A x \in Stream : (readQueue'[x] # <<>>) <=> (readQueue[x] # <<>>)
      BY <2>1, <2>3, <2>6
    <3> QED
      BY <2>4, <3>1 DEF IInv, ReadingWhileQueued
  <2>10. op[t] = "read" /\ t \notin Range(inbox)
    BY <2>1, <2>2
  <2> QED
    BY <2>4, <2>5, <2>7, <2>8, <2>9, <2>10, ReadersAnswered
<1> QED
  BY <1>1, <1>2

\* on_connection: the stream is new, so it is in no backlog; it goes to the oldest
\* acceptor or to the end of the backlog.
LEMMA OnConnectionInv ==
    ASSUME IInv, NEW l \in Listener, NEW s \in Stream, OnConnection(l, s)
    PROVE IInv'
<1> USE NetAssumption DEF IInv, Handle, StreamOp, ListenerOp, Op, Opening
<1>1. /\ state[l] = "open" /\ state[s] = "none" /\ \A u \in Task : on[u] # s
      /\ state' = [state EXCEPT ![s] = "open"]
      /\ UNCHANGED <<inbox, registry, readVars, shutdownVars>>
  BY DEF OnConnection, Fresh
<1>2. /\ StatesTyped' /\ state'[s] = "open"
      /\ \A h \in Handle : h # s => state'[h] = state[h]
  BY <1>1, StateEffect
<1>3. Range(inbox) \subseteq Task
  BY RangeType DEF TypeOK
<1>4. \A u \in Range(inbox) : op[u] \notin ListenerOp => state'[on[u]] = state[on[u]]
  <2>1. \A u \in Range(inbox) : u \in Task /\ on[u] \in Handle
    BY <1>3 DEF InboxTargets, TargetsFit
  <2> QED
    BY <1>1, <1>2, <2>1
<1>5. \A u \in Task : (op[u] = "connect" /\ u \notin Range(inbox)) =>
        state'[on[u]] = "connecting"
  <2>1. \A u \in Task : op[u] = "connect" => on[u] \in Handle
    BY DEF TargetsFit
  <2> QED
    BY <1>1, <1>2, <2>1 DEF OpeningIsAlone
<1>6. \A m \in Listener : \A x \in Range(accepted[m]) :
        x \in Stream /\ x # s /\ state[x] = "open" /\ state'[x] = "open"
  <2>1. \A m \in Listener : \A x \in Range(accepted[m]) : x \in Stream /\ state[x] = "open"
    BY RangeType DEF TypeOK, BacklogUntouched
  <2> QED
    BY <1>1, <1>2, <2>1
<1>7. /\ \A x \in Stream : readActive[x] => state'[x] = "open"
      /\ \A m \in Listener : state'[m] = state[m]
      /\ s \notin held
  BY <1>1, <1>2 DEF ReadingWhileQueued, HeldIsAlive
<1>8. RegistryIsOpen'
  BY <1>1, <1>7 DEF RegistryIsOpen
<1>9. CASE /\ AcceptorParked(l) /\ Complete({Head(pendingAccepts[l])})
           /\ pendingAccepts' = [pendingAccepts EXCEPT ![l] = Tail(@)]
           /\ held' = held \cup {s} /\ UNCHANGED accepted
  <2> DEFINE q == pendingAccepts[l]
             t == Head(q)
  <2>1. /\ q \in Seq(Task) /\ NoDuplicates(q) /\ q # <<>>
        /\ \A u \in Range(q) : op[u] = "accept" /\ on[u] = l /\ u \notin Range(inbox)
    BY <1>9 DEF TypeOK, AcceptorsQueued, AcceptorParked
  <2>2. /\ t \in Task /\ Tail(q) \in Seq(Task) /\ Range(q) = {t} \cup Range(Tail(q))
        /\ NoDuplicates(Tail(q)) /\ t \notin Range(Tail(q))
    BY <2>1, RangeTail, NoDuplicatesTail
  <2>3. /\ TasksTyped' /\ op'[t] = "none" /\ on'[t] = NoHandle
        /\ \A u \in Task : u # t => op'[u] = op[u] /\ on'[u] = on[u]
    BY <1>9, <2>2, CompleteEffect
  <2> HIDE DEF t
  <2>4. /\ pendingAccepts'[l] = Tail(q)
        /\ \A m \in Listener : m # l => pendingAccepts'[m] = pendingAccepts[m]
    BY <1>9 DEF TypeOK
  <2>5. op[t] = "accept" /\ on[t] = l /\ t \notin Range(inbox)
    BY <2>1, <2>2
  <2>6. TypeOK' /\ TargetsFit'
    <3>1. pendingAccepts' \in [Listener -> Seq(Task)]
      BY <1>9, <2>2 DEF TypeOK
    <3> QED
      BY <1>1, <1>2, <1>9, <2>3, <3>1 DEF TasksTyped, StatesTyped, readVars, shutdownVars, TypeOK
  <2>7. InboxOnce' /\ InboxTargets' /\ NothingBehindClose'
    BY <1>1, <1>3, <1>4, <2>3, <2>5, InboxAfterCallback
  <2>8. HeldIsAlive' /\ ClosedIsGivenUp' /\ OpeningIsAlone'
    <3>1. \A u \in Task : op'[u] \in Opening =>
            \/ u \in Range(inbox')
            \/ op'[u] = "connect" /\ state'[on'[u]] = "connecting"
      BY <1>1, <1>5, <2>3 DEF OpeningIsAlone
    <3>2. \A h \in held' \cap Listener : state'[h] # "none"
      BY <1>7, <1>9 DEF HeldIsAlive
    <3>3. \A h \in held' \cap Stream :
            \/ h \in held /\ state'[h] = state[h]
            \/ state'[h] = "open" /\ \A u \in Task : on'[u] # h
      BY <1>1, <1>2, <1>9, <2>3
    <3> QED
      BY <2>3, <3>1, <3>2, <3>3, OwnersKept
  <2>9. ReadersQueued' /\ ReadingWhileQueued'
    BY <1>1, <1>7, <2>3, <2>5, ReadersKept
  <2>10. AcceptorsQueued'
    <3> SUFFICES ASSUME NEW m \in Listener
                 PROVE /\ NoDuplicates(pendingAccepts'[m])
                       /\ \A u \in Range(pendingAccepts'[m]) :
                            op'[u] = "accept" /\ on'[u] = m /\ u \notin Range(inbox')
      BY DEF AcceptorsQueued
    <3>1. /\ NoDuplicates(pendingAccepts[m]) /\ Range(pendingAccepts[m]) \subseteq Task
          /\ \A u \in Range(pendingAccepts[m]) :
               op[u] = "accept" /\ on[u] = m /\ u \notin Range(inbox)
      BY RangeType DEF TypeOK, AcceptorsQueued
    <3>2. CASE m = l
      BY <1>1, <2>2, <2>3, <2>4, <3>1, <3>2
    <3>3. CASE m # l
      BY <1>1, <2>3, <2>4, <2>5, <3>1, <3>3
    <3> QED
      BY <3>2, <3>3
  <2>11. BacklogUntouched'
    <3>1. \A m \in Listener : accepted[m] # <<>> => pendingAccepts[m] = <<>> /\ m # l
      BY <2>1 DEF BacklogUntouched
    <3> SUFFICES ASSUME NEW m \in Listener
                 PROVE /\ NoDuplicates(accepted[m])
                       /\ accepted[m] # <<>> => state'[m] = "open" /\ pendingAccepts'[m] = <<>>
                       /\ \A x \in Range(accepted[m]) :
                            /\ state'[x] = "open" /\ x \notin held'
                            /\ \A u \in Task : on'[u] # x
                            /\ \A k \in Listener : x \in Range(accepted[k]) => k = m
      BY <1>9 DEF BacklogUntouched
    <3>2. /\ NoDuplicates(accepted[m])
          /\ accepted[m] # <<>> => state'[m] = "open" /\ pendingAccepts'[m] = <<>>
      BY <1>7, <2>4, <3>1 DEF BacklogUntouched
    <3>3. ASSUME NEW x \in Range(accepted[m])
          PROVE /\ state'[x] = "open" /\ x \notin held'
                /\ \A u \in Task : on'[u] # x
                /\ \A k \in Listener : x \in Range(accepted[k]) => k = m
      <4>1. /\ x \notin held /\ \A u \in Task : on[u] # x
            /\ \A k \in Listener : x \in Range(accepted[k]) => k = m
        BY DEF BacklogUntouched
      <4> QED
        BY <1>6, <1>9, <2>3, <4>1
    <3> QED
      BY <3>2, <3>3
  <2>12. OpenStreamsOwned'
    BY <1>1, <1>2, <1>3, <1>9, <2>3, <2>5, OwnedKept
  <2> QED
    BY <1>8, <2>6, <2>7, <2>8, <2>9, <2>10, <2>11, <2>12
<1>10. CASE /\ ~AcceptorParked(l)
            /\ accepted' = [accepted EXCEPT ![l] = Append(@, s)]
            /\ UNCHANGED <<taskVars, held, pendingAccepts>>
  <2>1. TasksTyped' /\ \A u \in Task : op'[u] = op[u] /\ on'[u] = on[u]
    BY <1>10, TasksUnchanged
  <2>2. accepted[l] \in Seq(Stream) /\ NoDuplicates(accepted[l]) /\ s \notin Range(accepted[l])
    BY <1>6 DEF TypeOK, BacklogUntouched
  <2>3. /\ Append(accepted[l], s) \in Seq(Stream)
        /\ Range(Append(accepted[l], s)) = Range(accepted[l]) \cup {s}
        /\ NoDuplicates(Append(accepted[l], s))
    BY <2>2, RangeAppend, NoDuplicatesAppend, AppendProperties
  <2>4. /\ accepted'[l] = Append(accepted[l], s)
        /\ \A m \in Listener : m # l => accepted'[m] = accepted[m]
    BY <1>10 DEF TypeOK
  <2>5. TypeOK' /\ TargetsFit'
    <3>1. accepted' \in [Listener -> Seq(Stream)]
      BY <1>10, <2>3 DEF TypeOK
    <3> QED
      BY <1>1, <1>2, <1>10, <2>1, <3>1 DEF TasksTyped, StatesTyped, readVars, shutdownVars, TypeOK
  <2>6. InboxOnce' /\ InboxTargets' /\ NothingBehindClose'
    BY <1>1, <1>3, <1>4, <2>1, InboxAfterCallback
  <2>7. HeldIsAlive' /\ ClosedIsGivenUp' /\ OpeningIsAlone'
    <3>1. \A u \in Task : op'[u] \in Opening =>
            \/ u \in Range(inbox')
            \/ op'[u] = "connect" /\ state'[on'[u]] = "connecting"
      BY <1>1, <1>5, <2>1 DEF OpeningIsAlone
    <3>2. \A h \in held' \cap Listener : state'[h] # "none"
      BY <1>7, <1>10 DEF HeldIsAlive
    <3>3. \A h \in held' \cap Stream : h \in held /\ state'[h] = state[h]
      BY <1>2, <1>7, <1>10
    <3> QED
      BY <2>1, <3>1, <3>2, <3>3, OwnersKept
  <2>8. ReadersQueued' /\ ReadingWhileQueued' /\ AcceptorsQueued'
    BY <1>1, <1>7, <1>10, <2>1, ReadersKept, AcceptorsKept
  <2>9. BacklogUntouched'
    <3> SUFFICES ASSUME NEW m \in Listener
                 PROVE /\ NoDuplicates(accepted'[m])
                       /\ accepted'[m] # <<>> => state'[m] = "open" /\ pendingAccepts[m] = <<>>
                       /\ \A x \in Range(accepted'[m]) :
                            /\ state'[x] = "open" /\ x \notin held
                            /\ \A u \in Task : on'[u] # x
                            /\ \A k \in Listener : x \in Range(accepted'[k]) => k = m
      BY <1>10 DEF BacklogUntouched
    <3>1. \A k \in Listener : \A x \in Range(accepted'[k]) :
            x \in Range(accepted[k]) \/ (x = s /\ k = l)
      BY <2>3, <2>4
    <3>2. NoDuplicates(accepted'[m])
      BY <2>3, <2>4 DEF BacklogUntouched
    <3>3. accepted'[m] # <<>> => state'[m] = "open" /\ pendingAccepts[m] = <<>>
      BY <1>1, <1>7, <1>10, <2>4 DEF BacklogUntouched, AcceptorParked
    <3>4. ASSUME NEW x \in Range(accepted'[m])
          PROVE /\ state'[x] = "open" /\ x \notin held
                /\ \A u \in Task : on'[u] # x
                /\ \A k \in Listener : x \in Range(accepted'[k]) => k = m
      <4>1. CASE x = s
        <5>1. \A k \in Listener : x \notin Range(accepted[k])
          BY <1>6, <4>1
        <5> QED
          BY <1>1, <1>2, <1>7, <2>1, <3>1, <4>1, <5>1
      <4>2. CASE x # s
        <5>1. x \in Range(accepted[m])
          BY <3>1, <4>2
        <5>2. /\ x \notin held /\ \A u \in Task : on[u] # x
              /\ \A k \in Listener : x \in Range(accepted[k]) => k = m
          BY <5>1 DEF BacklogUntouched
        <5> QED
          BY <1>6, <2>1, <3>1, <4>2, <5>1, <5>2
      <4> QED
        BY <4>1, <4>2
    <3> QED
      BY <3>2, <3>3, <3>4
  <2>10. OpenStreamsOwned'
    <3> SUFFICES ASSUME NEW x \in Stream, state'[x] = "open", x \notin held
                 PROVE \/ \E u \in Range(inbox) : op[u] = "close_stream" /\ on[u] = x
                       \/ \E m \in Listener : x \in Range(accepted'[m])
      BY <1>1, <1>3, <1>10, <2>1 DEF OpenStreamsOwned
    <3>1. CASE x = s
      BY <2>3, <2>4, <3>1
    <3>2. CASE x # s
      <4>1. \/ \E u \in Range(inbox) : op[u] = "close_stream" /\ on[u] = x
            \/ \E m \in Listener : x \in Range(accepted[m])
        BY <1>2, <3>2 DEF OpenStreamsOwned
      <4>2. \A m \in Listener : Range(accepted[m]) \subseteq Range(accepted'[m])
        BY <2>3, <2>4
      <4> QED
        BY <4>1, <4>2
    <3> QED
      BY <3>1, <3>2
  <2> QED
    BY <1>8, <2>5, <2>6, <2>7, <2>8, <2>9, <2>10
<1> QED
  BY <1>9, <1>10 DEF OnConnection

\* The first signal: listeners, their backlogs and their acceptors, and every
\* parked read, in one callback.
LEMMA OnSignalGracefulInv ==
    ASSUME IInv, OnSignalGraceful
    PROVE IInv'
<1>1. /\ AbortListeners(registry, Readers(reading)) /\ StopReading(reading)
      /\ UNCHANGED <<inbox, held>> /\ reading \in SUBSET Stream
      /\ signaled' \in BOOLEAN /\ timer' \in BOOLEAN /\ exited' \in BOOLEAN
  BY DEF OnSignalGraceful, IInv, TypeOK
<1>2. \A u \in Readers(reading) :
        u \in Task /\ op[u] = "read" /\ on[u] \in reading /\ u \notin Range(inbox)
  BY <1>1, ReadersOf
<1>3. /\ TasksTyped' /\ StatesTyped'
      /\ accepted' \in [Listener -> Seq(Stream)]
      /\ pendingAccepts' \in [Listener -> Seq(Task)] /\ registry' \subseteq Listener
      /\ HeldIsAlive' /\ ClosedIsGivenUp' /\ OpeningIsAlone'
      /\ AcceptorsQueued' /\ BacklogUntouched' /\ RegistryIsOpen' /\ OpenStreamsOwned'
      /\ \A u \in Range(inbox) : op'[u] = op[u] /\ on'[u] = on[u]
            /\ (op[u] \notin ListenerOp => state'[on[u]] = state[on[u]])
      /\ \A u \in Task : (op[u] = "read" /\ u \notin Readers(reading)) =>
           op'[u] = op[u] /\ on'[u] = on[u]
      /\ \A s \in Stream : readActive[s] => state'[s] = "open"
  <2>1. PICK ls, ts : ls = registry /\ ts = Readers(reading)
    OBVIOUS
  <2>2. /\ ls \in SUBSET registry /\ AbortListeners(ls, ts) /\ UNCHANGED held
        /\ \A u \in Task : u \in ts => op[u] = "read" /\ u \notin Range(inbox)
        /\ Range(inbox') \subseteq Range(inbox)
        /\ \A u \in Range(inbox) : u \in Range(inbox') \/ op[u] = "close_listener"
    BY <1>1, <1>2, <2>1
  <2> QED
    BY <2>1, <2>2, AbortEffect
<1>4. /\ readQueue' \in [Stream -> Seq(Task)] /\ readActive' \in [Stream -> BOOLEAN]
      /\ reading' \subseteq Stream
      /\ ReadersQueued' /\ ReadingWhileQueued'
  <2>1. \A u \in Task : (op[u] = "read" /\ on[u] \notin reading /\ u \notin Range(inbox)) =>
          op'[u] = op[u] /\ on'[u] = on[u] /\ u \notin Range(inbox')
    BY <1>1, <1>2, <1>3
  <2> QED
    BY <1>1, <1>3, <2>1, StopReadingEffect
<1>5. InboxOnce' /\ InboxTargets' /\ NothingBehindClose'
  BY <1>1, <1>3, InboxAfterCallback
<1>6. TypeOK' /\ TargetsFit'
  BY <1>1, <1>3, <1>4 DEF IInv, TasksTyped, StatesTyped, TypeOK
<1> QED
  BY <1>3, <1>4, <1>5, <1>6 DEF IInv

-----------------------------------------------------------------------------

\* Every step preserves IInv.
LEMMA StepIInv == IInv /\ [Next]_vars => IInv'
<1> SUFFICES ASSUME IInv, [Next]_vars PROVE IInv'
  OBVIOUS
<1>1. CASE Submit
  BY <1>1, SubmitNewInv, SubmitOnInv DEF Submit
<1>2. ASSUME NEW t \in Task, Dispatch(t) PROVE IInv'
  BY <1>2, DispatchListenInv, DispatchConnectInv, DispatchAcceptInv, DispatchAcceptDeletedInv,
     DispatchReadCancelledInv, DispatchReadInv, DispatchWriteInv, DispatchStreamCloseInv,
     DispatchListenerCloseInv DEF Dispatch
<1>3. CASE Callback
  <2>1. ASSUME NEW t \in Task, OnConnect(t) \/ OnWrite(t) PROVE IInv'
    BY <2>1, OnConnectInv, OnWriteInv
  <2>2. ASSUME NEW l \in Listener, NEW s \in Stream,
               OnConnection(l, s) \/ OnConnectionFails(l, s)
        PROVE IInv'
    BY <2>2, OnConnectionInv, OnConnectionFailsInv
  <2>3. ASSUME NEW s \in Stream, OnReadData(s) \/ OnReadEnd(s) PROVE IInv'
    BY <2>3, OnReadDataInv, AllReadersAnswered DEF OnReadEnd
  <2>4. ASSUME NEW h \in Handle, OnClosed(h) PROVE IInv'
    BY <2>4, OnClosedInv
  <2>5. CASE OnSignalExit \/ OnSignalGraceful \/ OnShutdownTimer
    BY <2>5, ExitInv, OnSignalGracefulInv
  <2> QED
    BY <1>3, <2>1, <2>2, <2>3, <2>4, <2>5 DEF Callback
<1>4. CASE UNCHANGED vars
  <2> USE DEF IInv, vars, taskVars, listenVars, readVars, shutdownVars
  <2>1. TypeOK' /\ TargetsFit' /\ InboxOnce' /\ InboxTargets' /\ NothingBehindClose'
    BY <1>4 DEF TypeOK, TargetsFit, InboxOnce, InboxTargets, NothingBehindClose
  <2>2. HeldIsAlive' /\ ClosedIsGivenUp' /\ OpeningIsAlone'
    BY <1>4 DEF HeldIsAlive, ClosedIsGivenUp, OpeningIsAlone
  <2>3. ReadersQueued' /\ ReadingWhileQueued' /\ AcceptorsQueued'
    BY <1>4 DEF ReadersQueued, ReadingWhileQueued, AcceptorsQueued
  <2>4. BacklogUntouched' /\ RegistryIsOpen' /\ OpenStreamsOwned'
    BY <1>4 DEF BacklogUntouched, RegistryIsOpen, OpenStreamsOwned
  <2> QED
    BY <2>1, <2>2, <2>3, <2>4
<1> QED
  BY <1>1, <1>2, <1>3, <1>4 DEF Next, Exited

\* IInv holds throughout.
THEOREM Inductive == Spec => []IInv
  BY InitIInv, StepIInv, PTL DEF Spec

\* The types of NetHandles.
THEOREM TypeCorrect == Spec => []TypeOK
<1>1. IInv => TypeOK
  BY DEF IInv
<1> QED
  BY <1>1, Inductive, PTL

\* A read, write or close finds its stream open when Dispatch comes to it,
\* whatever other threads have submitted: no task is dispatched to a stream that
\* was deleted.
THEOREM QueuedFindsOpen == Spec => []QueuedStreamOpFindsItOpen
<1>1. IInv => QueuedStreamOpFindsItOpen
  <2> SUFFICES ASSUME IInv, NEW i \in DOMAIN inbox, op[inbox[i]] \in StreamOp
               PROVE state[on[inbox[i]]] = "open"
    BY DEF QueuedStreamOpFindsItOpen
  <2>1. inbox[i] \in Range(inbox)
    BY DEF Range
  <2> QED
    BY <2>1 DEF IInv, InboxTargets
<1> QED
  BY <1>1, Inductive, PTL

\* Stream::read_queue, Stream::read_active and reading_streams agree in every
\* state, through closes, ends of streams and the shutdown signal.
THEOREM ReadingAgrees == Spec => []ReadStateAgrees
<1>1. IInv => ReadStateAgrees
  <2> SUFFICES ASSUME IInv, NEW s \in Stream
               PROVE /\ (readQueue[s] # <<>>) = readActive[s]
                     /\ readActive[s] = (s \in reading)
                     /\ readActive[s] => state[s] = "open"
                     /\ \A i, j \in DOMAIN readQueue[s] :
                          /\ op[readQueue[s][i]] = "read" /\ on[readQueue[s][i]] = s
                          /\ readQueue[s][i] = readQueue[s][j] => i = j
    BY DEF ReadStateAgrees
  <2>1. readActive[s] \in BOOLEAN
    BY DEF IInv, TypeOK
  <2>2. /\ readActive[s] <=> readQueue[s] # <<>>
        /\ readActive[s] <=> s \in reading
        /\ readActive[s] => state[s] = "open"
    BY DEF IInv, ReadingWhileQueued
  <2>3. \A i \in DOMAIN readQueue[s] : readQueue[s][i] \in Range(readQueue[s])
    BY DEF Range
  <2>4. \A i, j \in DOMAIN readQueue[s] :
          /\ op[readQueue[s][i]] = "read" /\ on[readQueue[s][i]] = s
          /\ readQueue[s][i] = readQueue[s][j] => i = j
    BY <2>3 DEF IInv, ReadersQueued, NoDuplicates
  <2>5. (readQueue[s] # <<>>) = readActive[s] /\ readActive[s] = (s \in reading)
    BY <2>1, <2>2
  <2> QED
    BY <2>2, <2>4, <2>5
<1> QED
  BY <1>1, Inductive, PTL

\* Runtime::listeners_ holds exactly the open listeners, a backlog and parked
\* acceptors exclude each other, and a backlog holds open streams, each once,
\* that Scheme does not have: ListenerClose and the signal path close a listener
\* once, in either order.
THEOREM ListenersAgree == Spec => []ListenerStateAgrees
<1>1. IInv => ListenerStateAgrees
  <2> SUFFICES ASSUME IInv PROVE ListenerStateAgrees
    OBVIOUS
  <2>1. registry = {l \in Listener : state[l] = "open"}
    BY DEF IInv, TypeOK, RegistryIsOpen
  <2>2. \A l \in Listener : /\ accepted[l] = <<>> \/ pendingAccepts[l] = <<>>
                            /\ state[l] # "open" => accepted[l] = <<>>
    BY DEF IInv, BacklogUntouched
  <2>3. \A l \in Listener : \A i \in DOMAIN accepted[l] : accepted[l][i] \in Range(accepted[l])
    BY DEF Range
  <2>4. \A l \in Listener : \A i, j \in DOMAIN accepted[l] :
          /\ state[accepted[l][i]] = "open" /\ accepted[l][i] \notin held
          /\ accepted[l][i] = accepted[l][j] => i = j
    BY <2>3 DEF IInv, BacklogUntouched, NoDuplicates
  <2> QED
    BY <2>1, <2>2, <2>4 DEF ListenerStateAgrees
<1> QED
  BY <1>1, Inductive, PTL

\* No connection is leaked: an open stream is Scheme's, about to be closed, or in
\* the backlog of an open listener.
THEOREM NoStreamLeaks == Spec => []StreamIsOwned
<1>1. IInv => StreamIsOwned
  <2> SUFFICES ASSUME IInv, NEW s \in Stream, state[s] = "open", s \notin held
               PROVE \/ \E i \in DOMAIN inbox : /\ op[inbox[i]] = "close_stream"
                                                /\ on[inbox[i]] = s
                     \/ \E l \in Listener : state[l] = "open" /\ s \in Range(accepted[l])
    BY DEF StreamIsOwned
  <2>1. CASE \E t \in Range(inbox) : op[t] = "close_stream" /\ on[t] = s
    BY <2>1 DEF Range
  <2>2. ASSUME NEW l \in Listener, s \in Range(accepted[l])
        PROVE state[l] = "open"
    <3>1. accepted[l] # <<>>
      BY <2>2, RangeType DEF IInv, TypeOK
    <3> QED
      BY <3>1 DEF IInv, BacklogUntouched
  <2> QED
    BY <2>1, <2>2 DEF IInv, OpenStreamsOwned
<1> QED
  BY <1>1, Inductive, PTL
=============================================================================
