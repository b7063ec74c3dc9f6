------------------------------ MODULE TaskQueue ------------------------------
(***************************************************************************)
(* One task_queue of base/thread/task_queue.h: the thread that runs its    *)
(* io_context, the threads that post to it, and the task_queue_manager     *)
(* that shuts it down or releases it.  lock_ is modelled by the points of  *)
(* the manager at which it is held; a critical section under tasks_mutex_  *)
(* is one action, except for the write of enqueue, which begins and ends   *)
(* separately because the queue's own thread may skip the mutex there.     *)
(***************************************************************************)
EXTENDS Integers, Sequences, FiniteSets

CONSTANTS
  Clients,    \* threads that call post_task or enqueue
  Manager,    \* the thread inside shutdown() or release_queue()
  Worker,     \* the thread of the queue
  None,       \* no task, no thread
  MaxTasks,   \* bound on the tasks ever posted
  Scenarios   \* how the program uses the queue: a set of records with
              \*   tls     init() has allocated the TLS key
              \*   posters clients that post from outside
              \*   once    they post the first task, and leave the rest to tasks
              \*   nested  ways in which a running task posts: "current", "by_id"
              \*   ending  what the manager may call: "shutdown", "release"

Tasks == 1 .. MaxTasks
Threads == Clients \union {Manager, Worker}

ScenarioType == [tls : BOOLEAN, posters : SUBSET Clients, once : BOOLEAN,
                 nested : SUBSET {"current", "by_id"},
                 ending : SUBSET {"shutdown", "release"}]

ASSUME TaskQueueAssumption ==
  /\ MaxTasks \in Nat
  /\ IsFiniteSet(Clients)
  /\ Manager \notin Clients /\ Worker \notin Clients /\ Manager # Worker
  /\ None \notin Threads /\ None \notin Nat
  /\ Scenarios \subseteq ScenarioType

VARIABLES
  use,       \* the scenario
  tasks,     \* tasks_
  handlers,  \* __execute handlers posted to aio_ and not yet dispatched
  stopped,   \* aio_.stopped()
  mutex,     \* the holder of tasks_mutex_
  refs,      \* who holds a shared_ptr to the queue; Manager for the map's
  destroyed, \* the destructor is through
  pc,        \* pc[x]: where thread x is
  mine,      \* mine[x]: the task x is posting
  current,   \* the task being run
  fate,      \* fate[t]: what has become of task t
  created,   \* how many tasks have been made
  ended      \* which of shutdown() and release_queue() was called, if any

vars == <<use, tasks, handlers, stopped, mutex, refs, destroyed, pc, mine,
          current, fate, created, ended>>

Init == /\ use \in Scenarios
        /\ tasks = << >>
        /\ handlers = 0
        /\ stopped = FALSE
        /\ mutex = None
        /\ refs = {Manager}
        /\ destroyed = FALSE
        /\ pc = [x \in Threads |-> IF x = Worker THEN "run" ELSE "idle"]
        /\ mine = [x \in Threads |-> None]
        /\ current = None
        /\ fate = [t \in Tasks |-> "new"]
        /\ created = 0
        /\ ended = "no"

-----------------------------------------------------------------------------
\* The manager's lock_ is held exclusively from the call to its return.
LockedPoints == {"stop", "join", "clear", "dtor", "dtor_join", "destroy"}
lock_free == pc[Manager] \notin LockedPoints

InMap == Manager \in refs

GoTo(x, p) == pc' = [pc EXCEPT ![x] = p]

\* A closure to be posted; every one is told from the others.
NewTask(x) == /\ created < MaxTasks
              /\ created' = created + 1
              /\ mine' = [mine EXCEPT ![x] = created + 1]

MayPost(c) == c \in use.posters /\ (use.once => created = 0)

\* get_task_queue(id) takes a reference under the shared lock.  The client may have posted
\* before: its futures do not keep it from posting.
GetTaskQueue(c) ==
  /\ pc[c] = "idle" /\ MayPost(c)
  /\ lock_free /\ InMap
  /\ NewTask(c)
  /\ refs' = refs \union {c}
  /\ GoTo(c, "enqueue")
  /\ UNCHANGED <<use, tasks, handlers, stopped, mutex, destroyed, current, fate, ended>>

-----------------------------------------------------------------------------
\* enqueue, by a client or by a task that runs on the queue.

is_on_current_queue(x) == use.tls /\ x = Worker

\* Slip: the mutex is never taken.
BeginEmplace_NoLock(x) ==
  /\ pc[x] = "enqueue"
  /\ GoTo(x, "emplace")
  /\ UNCHANGED <<use, tasks, handlers, stopped, mutex, refs, destroyed, mine, current, fate,
                 created, ended>>

BeginEmplace(x) ==
  /\ pc[x] = "enqueue"
  /\ \/ is_on_current_queue(x) /\ UNCHANGED mutex
     \/ ~is_on_current_queue(x) /\ mutex = None /\ mutex' = x
  /\ GoTo(x, "emplace")
  /\ UNCHANGED <<use, tasks, handlers, stopped, refs, destroyed, mine, current, fate,
                 created, ended>>

EndEmplace(x) ==
  /\ pc[x] = "emplace"
  /\ tasks' = Append(tasks, mine[x])
  /\ fate' = [fate EXCEPT ![mine[x]] = "queued"]
  /\ mutex' = IF mutex = x THEN None ELSE mutex
  /\ GoTo(x, "post")
  /\ UNCHANGED <<use, handlers, stopped, refs, destroyed, mine, current, created, ended>>

\* Slip: the task is stored and no handler is posted for it.
Post_Forgotten(x) ==
  /\ pc[x] = "post"
  /\ GoTo(x, "drop")
  /\ UNCHANGED <<use, tasks, handlers, stopped, mutex, refs, destroyed, mine, current, fate,
                 created, ended>>

\* Slip: a client goes away with the reference in hand.
Post_KeepRef(x) ==
  /\ pc[x] = "post"
  /\ handlers' = handlers + 1
  /\ GoTo(x, IF x = Worker THEN "drop" ELSE "idle")
  /\ UNCHANGED <<use, tasks, stopped, mutex, refs, destroyed, mine, current, fate,
                 created, ended>>

\* asio::post: a stopped context takes the handler and never runs it.
Post(x) ==
  /\ pc[x] = "post"
  /\ handlers' = handlers + 1
  /\ GoTo(x, "drop")
  /\ UNCHANGED <<use, tasks, stopped, mutex, refs, destroyed, mine, current, fate,
                 created, ended>>

\* enqueue has returned a future: whoever holds the queue may enqueue again at once ...
PostAgain(c) ==
  /\ pc[c] = "drop" /\ MayPost(c)
  /\ NewTask(c)
  /\ GoTo(c, "enqueue")
  /\ UNCHANGED <<use, tasks, handlers, stopped, mutex, refs, destroyed, current, fate, ended>>

\* ... or let go of it, as post_task does; the last reference destroys the queue.
DropRef(x) ==
  /\ pc[x] = "drop"
  /\ refs' = refs \ {x}
  /\ mine' = [mine EXCEPT ![x] = None]
  /\ GoTo(x, IF refs' = {} THEN "dtor" ELSE IF x = Worker THEN "task" ELSE "idle")
  /\ UNCHANGED <<use, tasks, handlers, stopped, mutex, destroyed, current, fate, created,
                 ended>>

-----------------------------------------------------------------------------
\* The thread of the queue.

\* Slip: a handler runs that nobody posted.
Dispatch_Spurious ==
  /\ pc[Worker] = "run" /\ ~stopped
  /\ handlers' = handlers - 1
  /\ GoTo(Worker, "execute")
  /\ UNCHANGED <<use, tasks, stopped, mutex, refs, destroyed, mine, current, fate,
                 created, ended>>

\* aio_.run() dispatches the next handler unless the context has been stopped.
Dispatch ==
  /\ pc[Worker] = "run" /\ ~stopped /\ handlers > 0
  /\ handlers' = handlers - 1
  /\ GoTo(Worker, "execute")
  /\ UNCHANGED <<use, tasks, stopped, mutex, refs, destroyed, mine, current, fate,
                 created, ended>>

\* Slip: the newest task is popped.
Execute_Lifo ==
  /\ pc[Worker] = "execute" /\ mutex = None
  /\ tasks # << >>
  /\ current' = tasks[Len(tasks)]
  /\ tasks' = SubSeq(tasks, 1, Len(tasks) - 1)
  /\ fate' = [fate EXCEPT ![tasks[Len(tasks)]] = "running"]
  /\ GoTo(Worker, "task")
  /\ UNCHANGED <<use, handlers, stopped, mutex, refs, destroyed, mine, created, ended>>

\* Slip: the mutex is not given back.
Execute_NoUnlock ==
  /\ pc[Worker] = "execute" /\ mutex = None
  /\ mutex' = Worker
  /\ tasks # << >>
  /\ current' = Head(tasks)
  /\ tasks' = Tail(tasks)
  /\ fate' = [fate EXCEPT ![Head(tasks)] = "running"]
  /\ GoTo(Worker, "task")
  /\ UNCHANGED <<use, handlers, stopped, refs, destroyed, mine, created, ended>>

\* __execute pops the oldest task under the mutex and runs it outside.
Execute ==
  /\ pc[Worker] = "execute" /\ mutex = None
  /\ \/ /\ tasks # << >>
        /\ current' = Head(tasks)
        /\ tasks' = Tail(tasks)
        /\ fate' = [fate EXCEPT ![Head(tasks)] = "running"]
        /\ GoTo(Worker, "task")
     \/ /\ tasks = << >>
        /\ GoTo(Worker, "run")
        /\ UNCHANGED <<current, tasks, fate>>
  /\ UNCHANGED <<use, handlers, stopped, mutex, refs, destroyed, mine, created, ended>>

FinishTask ==
  /\ pc[Worker] = "task"
  /\ fate' = [fate EXCEPT ![current] = "done"]
  /\ current' = None
  /\ GoTo(Worker, "run")
  /\ UNCHANGED <<use, tasks, handlers, stopped, mutex, refs, destroyed, mine, created,
                 ended>>

\* post_task(f): get_current_task_queue goes through shared_from_this, which
\* throws once the last reference is gone.
PostToCurrent ==
  /\ pc[Worker] = "task" /\ "current" \in use.nested /\ use.tls
  /\ NewTask(Worker)
  /\ \/ refs # {} /\ refs' = refs \union {Worker} /\ GoTo(Worker, "enqueue")
     \/ refs = {} /\ UNCHANGED refs /\ GoTo(Worker, "bad_weak_ptr")
  /\ UNCHANGED <<use, tasks, handlers, stopped, mutex, destroyed, current, fate, ended>>

\* post_task(id, f): get_task_queue has to wait for lock_.
PostById ==
  /\ pc[Worker] = "task" /\ "by_id" \in use.nested
  /\ NewTask(Worker)
  /\ GoTo(Worker, "lookup")
  /\ UNCHANGED <<use, tasks, handlers, stopped, mutex, refs, destroyed, current, fate,
                 ended>>

Lookup ==
  /\ pc[Worker] = "lookup" /\ lock_free
  /\ \/ InMap /\ refs' = refs \union {Worker} /\ GoTo(Worker, "enqueue")
     \/ ~InMap /\ GoTo(Worker, "task") /\ UNCHANGED refs
  /\ UNCHANGED <<use, tasks, handlers, stopped, mutex, destroyed, mine, current, fate,
                 created, ended>>

\* The closures left in tasks_ are destroyed, and their promises with them.
AbandonTasks == /\ tasks' = << >>
                /\ fate' = [t \in Tasks |-> IF fate[t] = "queued" THEN "abandoned" ELSE fate[t]]

\* aio_.run() has returned: tasks_ is emptied and exit_ called under the mutex.
Exit ==
  /\ pc[Worker] = "run" /\ stopped /\ mutex = None
  /\ AbandonTasks
  /\ GoTo(Worker, "exited")
  /\ UNCHANGED <<use, handlers, stopped, mutex, refs, destroyed, mine, current, created,
                 ended>>

-----------------------------------------------------------------------------
\* shutdown() and release_queue(), and the destructor on whatever thread it runs.

\* Slip: the map is cleared and the queues are not stopped, as release_queue does.
Shutdown_NoStop ==
  /\ pc[Manager] = "idle" /\ "shutdown" \in use.ending /\ InMap
  /\ ended' = "shutdown"
  /\ GoTo(Manager, "clear")
  /\ UNCHANGED <<use, tasks, handlers, stopped, mutex, refs, destroyed, mine, current,
                 fate, created>>

Shutdown ==
  /\ pc[Manager] = "idle" /\ "shutdown" \in use.ending /\ InMap
  /\ ended' = "shutdown"
  /\ GoTo(Manager, "stop")
  /\ UNCHANGED <<use, tasks, handlers, stopped, mutex, refs, destroyed, mine, current,
                 fate, created>>

ReleaseQueue ==
  /\ pc[Manager] = "idle" /\ "release" \in use.ending /\ InMap
  /\ ended' = "release"
  /\ GoTo(Manager, "clear")
  /\ UNCHANGED <<use, tasks, handlers, stopped, mutex, refs, destroyed, mine, current,
                 fate, created>>

\* stop(): a context that is stopped already is not joined again.
Stop(x) ==
  /\ stopped' = TRUE
  /\ \/ pc[x] = "stop" /\ GoTo(x, IF stopped THEN "clear" ELSE "join")
     \/ pc[x] = "dtor" /\ GoTo(x, IF stopped THEN "destroy" ELSE "dtor_join")
  /\ UNCHANGED <<use, tasks, handlers, mutex, refs, destroyed, mine, current, fate,
                 created, ended>>

\* Slip: the thread is detached and not joined.
Join_Detach(x) ==
  /\ pc[x] \in {"join", "dtor_join"}
  /\ GoTo(x, IF pc[x] = "join" THEN "clear" ELSE "destroy")
  /\ UNCHANGED <<use, tasks, handlers, stopped, mutex, refs, destroyed, mine, current, fate,
                 created, ended>>

\* A thread that joins itself gets an exception out of a destructor.
Join(x) ==
  /\ pc[x] \in {"join", "dtor_join"}
  /\ \/ x = Worker /\ GoTo(x, "self_join")
     \/ /\ x # Worker /\ pc[Worker] = "exited"
        /\ GoTo(x, IF pc[x] = "join" THEN "clear" ELSE "destroy")
  /\ UNCHANGED <<use, tasks, handlers, stopped, mutex, refs, destroyed, mine, current, fate,
                 created, ended>>

\* The map lets go of the queue: task_queues_.clear() or erase(it).
ClearMap ==
  /\ pc[Manager] = "clear"
  /\ refs' = refs \ {Manager}
  /\ GoTo(Manager, IF refs' = {} THEN "dtor" ELSE "returned")
  /\ UNCHANGED <<use, tasks, handlers, stopped, mutex, destroyed, mine, current, fate,
                 created, ended>>

\* The members go: closures that came too late, handlers that never ran.
Destroy(x) ==
  /\ pc[x] = "destroy"
  /\ AbandonTasks
  /\ handlers' = 0
  /\ destroyed' = TRUE
  /\ GoTo(x, IF x = Manager THEN "returned" ELSE "idle")
  /\ UNCHANGED <<use, stopped, mutex, refs, mine, current, created, ended>>

-----------------------------------------------------------------------------
EnqueueStep(x) == BeginEmplace(x) \/ EndEmplace(x) \/ Post(x) \/ DropRef(x)

StopStep(x) == Stop(x) \/ Join(x) \/ Destroy(x)

ClientStep(c) == EnqueueStep(c) \/ StopStep(c)

WorkerStep == \/ Dispatch \/ Execute \/ FinishTask \/ Lookup \/ Exit
              \/ EnqueueStep(Worker) \/ StopStep(Worker)

ManagerStep == StopStep(Manager) \/ ClearMap

Next == \/ \E c \in Clients : GetTaskQueue(c) \/ PostAgain(c) \/ ClientStep(c)
        \/ WorkerStep \/ PostToCurrent \/ PostById
        \/ Shutdown \/ ReleaseQueue \/ ManagerStep

\* Threads are scheduled and tasks return; nobody has to post, nest or shut down.
Fairness == /\ \A c \in Clients : WF_vars(ClientStep(c))
            /\ WF_vars(WorkerStep)
            /\ WF_vars(ManagerStep)

Spec == Init /\ [][Next]_vars
FairSpec == Spec /\ Fairness

-----------------------------------------------------------------------------
\* Properties.

Points == {"idle", "enqueue", "emplace", "post", "drop", "run", "execute", "task", "lookup",
           "exited", "bad_weak_ptr", "self_join", "stop", "join", "clear", "dtor", "dtor_join",
           "destroy", "returned"}
Fates == {"new", "queued", "running", "done", "abandoned"}

\* Every variable stays within the values the code can give it.
TypeOK == /\ use \in Scenarios
          /\ tasks \in Seq(Tasks)
          /\ handlers \in Nat
          /\ stopped \in BOOLEAN /\ destroyed \in BOOLEAN
          /\ mutex \in Threads \union {None}
          /\ refs \subseteq Threads
          /\ pc \in [Threads -> Points]
          /\ mine \in [Threads -> Tasks \union {None}]
          /\ current \in Tasks \union {None}
          /\ fate \in [Tasks -> Fates]
          /\ created \in 0 .. MaxTasks
          /\ ended \in {"no", "shutdown", "release"}

\* A handler carries no task of its own: it runs whatever is at the front.  Until
\* the queue's thread leaves, there is exactly one handler, posted, about to be
\* posted or being run, for every task in tasks_, so no task is stranded.
HandlersMatchTasks ==
  pc[Worker] # "exited" =>
    Len(tasks) = handlers + Cardinality({x \in Threads : pc[x] = "post"})
                          + (IF pc[Worker] = "execute" THEN 1 ELSE 0)

\* tasks_mutex_ protects tasks_ (task_queue.h:441): no two threads write at once.
TasksUnderMutex ==
  \A x, y \in Threads : pc[x] = "emplace" /\ pc[y] = "emplace" => x = y

\* The destructor finishes only after the queue's thread and when nobody is
\* left inside the queue, whoever dropped the last reference; and the queue is not
\* destroyed under, or by, the task it is running, where shared_from_this or the
\* destructor's join would throw.
NoUseAfterDestroy ==
  /\ destroyed => \A x \in Threads : pc[x] \in {"idle", "exited", "returned"}
  /\ pc[Worker] \notin {"bad_weak_ptr", "self_join"}

\* When shutdown() returns, the thread of the queue is gone: nothing it was given
\* can be executed any more (task_queue.h:512), even by a queue a client still holds.
ShutdownStopsExecution ==
  pc[Manager] = "returned" /\ ended = "shutdown" => pc[Worker] = "exited"

\* Tasks run one at a time in the order of their emplacement, and those that do
\* not run are abandoned only once nothing runs any more.
Executor == INSTANCE SerialExecutor WITH
              pending <- tasks, running <- current, closed <- pc[Worker] = "exited"
ServesInOrder == Executor!Spec

\* Whoever waits for a task is told: each accepted task is run or abandoned, even
\* if it was accepted after the queue had been stopped.
EveryTaskSettled ==
  \A t \in Tasks : fate[t] = "queued" ~> fate[t] \in {"done", "abandoned"}

\* shutdown() and release_queue() give lock_ back.
EndingReturns == (pc[Manager] \in LockedPoints) ~> lock_free
=============================================================================
