----------------------------- MODULE MCTaskTimer -----------------------------
(***************************************************************************)
(* TaskTimer with two ticks in a millisecond: delays that come due at once *)
(* or later, time points between two milliseconds and in the past, and     *)
(* intervals short enough for several periods and for overruns.            *)
(***************************************************************************)
EXTENDS TaskTimer

Asked == { [call |-> "after",    delay |-> 2],
           [call |-> "at",       delay |-> 3],
           [call |-> "at",       delay |-> -1],
           [call |-> "repeatly", delay |-> 2],
           [call |-> "repeatly", delay |-> 4] }

Repeated == {[call |-> "repeatly", delay |-> 2]}
=============================================================================
