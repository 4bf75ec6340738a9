----------------------------- MODULE SubmitFifo -----------------------------
(***************************************************************************)
(* What Runtime::Submit promises, without threads, locks, wakeups, batches *)
(* or restarts: one FIFO channel from the Scheme threads to the loop       *)
(* thread.  A task enters it once, and tasks are dispatched one by one in  *)
(* the order they entered; none is dispatched twice and none is skipped.   *)
(***************************************************************************)
EXTENDS Sequences, SequencesExt

CONSTANT Task

VARIABLES
    chan,     \* submitted, not yet dispatched, oldest first
    out       \* dispatched, oldest first

Init == chan = <<>> /\ out = <<>>

Push(t) ==
    /\ t \notin Range(chan) \cup Range(out)
    /\ chan' = Append(chan, t)
    /\ UNCHANGED out

Take ==
    /\ chan # <<>>
    /\ out' = Append(out, Head(chan))
    /\ chan' = Tail(chan)

Next == Take \/ \E t \in Task : Push(t)

Spec == Init /\ [][Next]_<<chan, out>>
=============================================================================
