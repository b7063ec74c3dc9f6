----------------------------- MODULE Completion -----------------------------
(***************************************************************************)
(* What a caller of waitable_future may rely on: a result that is decided  *)
(* at most once, either a value or "abandoned", and clients that observe   *)
(* it, or give up while it is still undecided.                             *)
(***************************************************************************)

CONSTANT Clients    \* the threads that ask for the result

VARIABLES outcome,  \* the decision, once there is one
          seen      \* what each client was last told

vars == <<outcome, seen>>

Decisions == {"value", "abandoned"}

Init == /\ outcome = "pending"
        /\ seen = [c \in Clients |-> "nothing"]

Settle(d) == /\ outcome = "pending"
             /\ outcome' = d
             /\ UNCHANGED seen

Observe(c) == /\ outcome # "pending"
              /\ seen' = [seen EXCEPT ![c] = outcome]
              /\ UNCHANGED outcome

\* A timed call may report a timeout only while nothing is decided.
GiveUp(c) == /\ outcome = "pending"
             /\ seen' = [seen EXCEPT ![c] = "timeout"]
             /\ UNCHANGED outcome

Next == \/ \E d \in Decisions : Settle(d)
        \/ \E c \in Clients : Observe(c) \/ GiveUp(c)

Spec == Init /\ [][Next]_vars
=============================================================================
