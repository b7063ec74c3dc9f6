----------------------------- MODULE MCTaskQueue -----------------------------
(***************************************************************************)
(* TaskQueue with two clients and four tasks, in the ways of using the     *)
(* queue that are sound.  A task that posts to its own queue skips         *)
(* tasks_mutex_ where there is a TLS key, so nobody else may post then.    *)
(***************************************************************************)
EXTENDS TaskQueue

CONSTANTS c1, c2

\* The library: no TLS key, tasks do not post, shutdown or release at any time.
AsInTraa == [tls |-> FALSE, posters |-> {c1, c2}, once |-> FALSE, nested |-> {},
             ending |-> {"shutdown", "release"}]

\* With a TLS key one client posts the first task, and tasks post all the others.
AsKickedOff == [tls |-> TRUE, posters |-> {c1}, once |-> TRUE, nested |-> {"current"},
                ending |-> {"shutdown"}]

\* Without one, tasks and clients post by the id of a queue that nobody shuts down.
AsPostingByIdAlive == [AsInTraa EXCEPT !.nested = {"by_id"}, !.ending = {}]

Sound == {AsInTraa, AsKickedOff, AsPostingByIdAlive}
=============================================================================
