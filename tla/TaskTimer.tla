------------------------------ MODULE TaskTimer ------------------------------
(***************************************************************************)
(* The timers of a task_queue: task_timer_once and task_timer_repeatly,    *)
(* made by enqueue_after, enqueue_at and enqueue_repeatly, stopped from    *)
(* any thread at any moment, on a queue that may itself be stopped.  The   *)
(* asio part is external: a due timer's handler joins the ready handlers   *)
(* of the io_context, and cancel() can turn only a handler that has not    *)
(* joined them yet into one that gets an error.  Time is counted in ticks  *)
(* finer than the milliseconds that the timers are set in.                 *)
(***************************************************************************)
EXTENDS Integers, Sequences

CONSTANTS
  Timers,   \* timers ever made
  Milli,    \* ticks in a millisecond
  MaxTime,  \* bound on the clock
  Requests  \* what may be asked for: records with
            \*   call   "after", "at", "repeatly"
            \*   delay  ticks until the (first) execution; the argument of
            \*          enqueue_after and enqueue_repeatly is in milliseconds,
            \*          that of enqueue_at any time point, also one in the past

RequestType == [call : {"after", "at", "repeatly"}, delay : Int]

ASSUME TaskTimerAssumption ==
  /\ Milli \in Nat \ {0} /\ MaxTime \in Nat
  /\ Requests \subseteq RequestType
  /\ \A r \in Requests : r.call # "at" => r.delay % Milli = 0

VARIABLES
  now,      \* the clock
  request,  \* request[t]: what t was made for
  asked,    \* asked[t]: when its task was asked to run (first)
  state,    \* state[t]: "unmade", "waiting" in async_wait, "ready" with its
            \* handler, "running" its task, "spent"
  expiry,   \* timer_.expiry()
  runs,     \* runs[t]: executions of the task begun
  stop,     \* stop[t]: "no", or whether a stop() found t waiting: "found", "missed"
  late,     \* late[t]: executions begun after the first stop()
  ready,    \* handlers that aio_ has yet to dispatch, oldest first
  queue     \* the task queue: "open", "stopped", "exited", "destroyed"

vars == <<now, request, asked, state, expiry, runs, stop, late, ready, queue>>

Repeats(t) == request[t].call = "repeatly"
interval(t) == request[t].delay
task_runs == \E t \in Timers : state[t] = "running"

Handler(t, ec) == [timer |-> t, error |-> ec]

Init == /\ now = 0
        /\ request \in [Timers -> Requests]
        /\ asked = [t \in Timers |-> 0]
        /\ state = [t \in Timers |-> "unmade"]
        /\ expiry = [t \in Timers |-> 0]
        /\ runs = [t \in Timers |-> 0]
        /\ stop = [t \in Timers |-> "no"]
        /\ late = [t \in Timers |-> 0]
        /\ ready = << >>
        /\ queue = "open"

-----------------------------------------------------------------------------
\* Slip: the duration is cut to a unit twice as long.
Milliseconds_Coarse(d) == (d \div (2 * Milli)) * (2 * Milli)

\* duration_cast<milliseconds> cuts towards zero what lies between two milliseconds.
Milliseconds(d) == IF d >= 0 THEN (d \div Milli) * Milli ELSE -(((-d) \div Milli) * Milli)

\* enqueue_after, enqueue_at, enqueue_repeatly; whoever holds the queue may call
\* them, also once the queue is stopped.
Enqueue(t) ==
  /\ state[t] = "unmade" /\ queue # "destroyed"
  /\ asked' = [asked EXCEPT ![t] = now + request[t].delay]
  /\ expiry' = [expiry EXCEPT ![t] = now + Milliseconds(request[t].delay)]
  /\ state' = [state EXCEPT ![t] = "waiting"]
  /\ UNCHANGED <<now, request, runs, stop, late, ready, queue>>

Tick == /\ now < MaxTime
        /\ now' = now + 1
        /\ UNCHANGED <<request, asked, state, expiry, runs, stop, late, ready, queue>>

\* Timers come due in the order of their expiry, between two handlers.
Expire(t) ==
  /\ queue = "open" /\ ~task_runs
  /\ state[t] = "waiting" /\ expiry[t] <= now
  /\ \A u \in Timers : state[u] = "waiting" => expiry[t] <= expiry[u]
  /\ state' = [state EXCEPT ![t] = "ready"]
  /\ ready' = Append(ready, Handler(t, FALSE))
  /\ UNCHANGED <<now, request, asked, expiry, runs, stop, late, queue>>

\* Slip: the next expiry counts from when the task got to run.
Dispatch_FromNow ==
  /\ queue = "open" /\ ~task_runs /\ ready # << >>
  /\ ready' = Tail(ready)
  /\ LET t == Head(ready).timer IN
     \/ /\ Head(ready).error
        /\ state' = [state EXCEPT ![t] = "spent"]
        /\ UNCHANGED <<expiry, runs, late>>
     \/ /\ ~Head(ready).error
        /\ state' = [state EXCEPT ![t] = "running"]
        /\ runs' = [runs EXCEPT ![t] = @ + 1]
        /\ late' = [late EXCEPT ![t] = IF stop[t] = "no" THEN 0 ELSE @ + 1]
        /\ expiry' = [expiry EXCEPT ![t] = IF Repeats(t) THEN now + interval(t) ELSE @]
  /\ UNCHANGED <<now, request, asked, stop, queue>>

\* Slip: the handler does not look at the error code.
Dispatch_IgnoreError ==
  /\ queue = "open" /\ ~task_runs /\ ready # << >>
  /\ ready' = Tail(ready)
  /\ LET t == Head(ready).timer IN
        /\ state' = [state EXCEPT ![t] = "running"]
        /\ runs' = [runs EXCEPT ![t] = @ + 1]
        /\ late' = [late EXCEPT ![t] = IF stop[t] = "no" THEN 0 ELSE @ + 1]
        /\ expiry' = [expiry EXCEPT ![t] = IF Repeats(t) THEN @ + interval(t) ELSE @]
  /\ UNCHANGED <<now, request, asked, stop, queue>>

\* The oldest handler: one with an error is over; a repeating timer has its next
\* expiry set before its task is called.
Dispatch ==
  /\ queue = "open" /\ ~task_runs /\ ready # << >>
  /\ ready' = Tail(ready)
  /\ LET t == Head(ready).timer IN
     \/ /\ Head(ready).error
        /\ state' = [state EXCEPT ![t] = "spent"]
        /\ UNCHANGED <<expiry, runs, late>>
     \/ /\ ~Head(ready).error
        /\ state' = [state EXCEPT ![t] = "running"]
        /\ runs' = [runs EXCEPT ![t] = @ + 1]
        /\ late' = [late EXCEPT ![t] = IF stop[t] = "no" THEN 0 ELSE @ + 1]
        /\ expiry' = [expiry EXCEPT ![t] = IF Repeats(t) THEN @ + interval(t) ELSE @]
  /\ UNCHANGED <<now, request, asked, stop, queue>>

\* Slip: no repeating timer is started again.
TaskReturns_Spent(t) ==
  /\ state[t] = "running"
  /\ state' = [state EXCEPT ![t] = "spent"]
  /\ UNCHANGED <<now, request, asked, expiry, runs, stop, late, ready, queue>>

\* A repeating timer is started again, whether or not it was stopped meanwhile.
TaskReturns(t) ==
  /\ state[t] = "running"
  /\ state' = [state EXCEPT ![t] = IF Repeats(t) THEN "waiting" ELSE "spent"]
  /\ UNCHANGED <<now, request, asked, expiry, runs, stop, late, ready, queue>>

\* Slip: the cancelled wait is completed a second time when it comes due.
Stop_Twice(t) ==
  /\ state[t] \in {"waiting", "ready", "running"} /\ queue # "destroyed"
  /\ ready' = IF state[t] # "running" THEN Append(ready, Handler(t, TRUE)) ELSE ready
  /\ state' = [state EXCEPT ![t] = IF state[t] # "running" THEN "ready" ELSE @]
  /\ stop' = [stop EXCEPT ![t] = IF state[t] = "waiting" THEN "found"
                                 ELSE IF @ = "no" THEN "missed" ELSE @]
  /\ UNCHANGED <<now, request, asked, expiry, runs, late, queue>>

\* stop() from any thread, the task's own included: cancel() finds the wait, or it
\* finds none because the handler is ready or running.
Stop(t) ==
  /\ queue # "destroyed"
  /\ \/ /\ state[t] = "waiting"
        /\ state' = [state EXCEPT ![t] = "ready"]
        /\ ready' = Append(ready, Handler(t, TRUE))
        /\ stop' = [stop EXCEPT ![t] = "found"]
     \/ /\ state[t] \in {"ready", "running"} /\ stop[t] = "no"
        /\ stop' = [stop EXCEPT ![t] = "missed"]
        /\ UNCHANGED <<state, ready>>
  /\ UNCHANGED <<now, request, asked, expiry, runs, late, queue>>

-----------------------------------------------------------------------------
\* The end of the queue: aio_.stop(), the thread leaves, aio_ is destroyed and
\* with it the handlers and the references they keep to their timers.
StopQueue == /\ queue = "open"
             /\ queue' = "stopped"
             /\ UNCHANGED <<now, request, asked, state, expiry, runs, stop, late, ready>>

ExitQueue == /\ queue = "stopped" /\ ~task_runs
             /\ queue' = "exited"
             /\ UNCHANGED <<now, request, asked, state, expiry, runs, stop, late, ready>>

DestroyQueue ==
  /\ queue = "exited"
  /\ queue' = "destroyed"
  /\ ready' = << >>
  /\ state' = [t \in Timers |-> IF state[t] \in {"waiting", "ready"} THEN "spent" ELSE state[t]]
  /\ UNCHANGED <<now, request, asked, expiry, runs, stop, late>>

-----------------------------------------------------------------------------
QueueStep == \/ Dispatch
             \/ \E t \in Timers : Expire(t) \/ TaskReturns(t)

Next == \/ \E t \in Timers : Enqueue(t) \/ Stop(t)
        \/ Tick \/ QueueStep \/ StopQueue \/ ExitQueue \/ DestroyQueue

\* Time passes, the thread of the queue is scheduled and tasks return.
Fairness == WF_vars(QueueStep) /\ WF_vars(Tick)

Spec == Init /\ [][Next]_vars
FairSpec == Spec /\ Fairness

-----------------------------------------------------------------------------
\* Properties.

\* The handlers are those of the timers that are ready, one each.
OneHandlerEach ==
  /\ \A i \in DOMAIN ready : state[ready[i].timer] = "ready"
  /\ \A i, j \in DOMAIN ready : ready[i].timer = ready[j].timer => i = j
  /\ \A t \in Timers : state[t] = "ready" => \E i \in DOMAIN ready : ready[i].timer = t

\* Every variable stays within the values the code can give it, and a timer never has
\* more than the one handler that keeps it alive.
TypeOK == /\ now \in 0 .. MaxTime
          /\ request \in [Timers -> Requests]
          /\ asked \in [Timers -> Int] /\ expiry \in [Timers -> Int]
          /\ state \in [Timers -> {"unmade", "waiting", "ready", "running", "spent"}]
          /\ runs \in [Timers -> Nat] /\ late \in [Timers -> Nat]
          /\ stop \in [Timers -> {"no", "found", "missed"}]
          /\ queue \in {"open", "stopped", "exited", "destroyed"}
          /\ ready \in Seq([timer : Timers, error : BOOLEAN])
          /\ OneHandlerEach

\* A repeating timer keeps to the times first + n * interval, however late its handler
\* is dispatched and however long its task takes: lateness does not add up.
NoDrift == \A t \in Timers :
             Repeats(t) => expiry[t] = IF state[t] = "unmade" THEN 0
                                       ELSE asked[t] + runs[t] * interval(t)

\* No execution begins before its time, but for the fraction of a millisecond that
\* enqueue_at cuts off; one that is that early would be asked for in the future.
NeverEarly == \A t \in Timers :
                runs[t] > 0 =>
                  now > asked[t] - Milli + (IF Repeats(t) THEN (runs[t] - 1) * interval(t)
                                                          ELSE 0)

\* A stop() that finds the timer waiting is final: its task does not begin again.
FoundStopIsFinal ==
  [][\A t \in Timers : stop[t] = "found" => runs'[t] = runs[t]]_vars

\* No period is lost: as long as neither the timer nor the queue is stopped, a timer's
\* task is executed as often as its times have come, even if it overruns them.
EveryPeriodServed ==
  \A t \in Timers :
    state[t] # "unmade" ~> \/ stop[t] # "no" \/ queue # "open"
                           \/ expiry[t] > MaxTime
                           \/ ~Repeats(t) /\ state[t] = "spent"

\* stop() cancels any pending execution and stops the timer (task_queue.h:115): at
\* most the execution that is about to begin escapes it.
StopStopsTheTimer == \A t \in Timers : late[t] <= 1
=============================================================================
