---------------------------- MODULE SerialExecutor ----------------------------
(***************************************************************************)
(* What a task queue promises to those who post to it: tasks start one at  *)
(* a time in the order they were accepted, each at most once; once the     *)
(* queue is closed nothing starts any more, and a task that never started  *)
(* can only be abandoned.                                                  *)
(***************************************************************************)
EXTENDS Naturals, Sequences

CONSTANTS Tasks, None

VARIABLES pending,  \* accepted and not yet started, oldest first
          running,  \* the task being executed, or None
          fate,     \* fate[t]: what has become of t
          closed    \* the thread of the queue has ended

vars == <<pending, running, fate, closed>>

Init == /\ pending = << >>
        /\ running = None
        /\ fate = [t \in Tasks |-> "new"]
        /\ closed = FALSE

Accept(t) == /\ fate[t] = "new"
             /\ pending' = Append(pending, t)
             /\ fate' = [fate EXCEPT ![t] = "queued"]
             /\ UNCHANGED <<running, closed>>

Start == /\ ~closed
         /\ running = None
         /\ pending # << >>
         /\ running' = Head(pending)
         /\ pending' = Tail(pending)
         /\ fate' = [fate EXCEPT ![Head(pending)] = "running"]
         /\ UNCHANGED closed

Finish == /\ running # None
          /\ fate' = [fate EXCEPT ![running] = "done"]
          /\ running' = None
          /\ UNCHANGED <<pending, closed>>

\* Whatever is still pending when the queue closes, or arrives later, is dropped.
Discard == /\ running = None
           /\ closed' = TRUE
           /\ pending' = << >>
           /\ fate' = [t \in Tasks |-> IF fate[t] = "queued" THEN "abandoned" ELSE fate[t]]
           /\ UNCHANGED running

Next == Start \/ Finish \/ Discard \/ \E t \in Tasks : Accept(t)

Spec == Init /\ [][Next]_vars
=============================================================================
