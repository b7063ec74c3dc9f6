------------------------------- MODULE TraaApi -------------------------------
(***************************************************************************)
(* The public calls of main/traa.cc over task_queue_manager: threads call  *)
(* traa_init, traa_release and the calls that use the engine (among them   *)
(* traa_set_event_handler) in any order and at the same time.  Every       *)
(* traa_init may make a new main queue, so the queue is modelled in        *)
(* incarnations, and each incarnation as what TaskQueue is shown to        *)
(* implement: a SerialExecutor, whose thread owns a thread-local engine.   *)
(***************************************************************************)
EXTENDS Integers, Sequences, FiniteSets

CONSTANTS
  Callers,     \* threads of the application
  None,        \* no queue, no thread
  MaxCalls,    \* bound on the API calls ever made
  Disciplines  \* what the application may do; a subset of BOOLEAN: TRUE stands for
               \* using the engine only after an own traa_init succeeded, and
               \* releasing only when no other call is in progress

Queues == 1 .. MaxCalls
Calls == {"init", "release", "use"}

ASSUME TraaApiAssumption ==
  /\ MaxCalls \in Nat /\ IsFiniteSet(Callers)
  /\ None \notin Callers /\ None \notin Nat
  /\ Disciplines \subseteq BOOLEAN

VARIABLES
  disciplined, \* the application keeps to the discipline
  lock,        \* the thread that holds lock_ exclusively
  map,         \* the queue that task_queues_ holds for g_main_queue_id
  made,        \* queues created so far
  queue,       \* queue[q]: tasks, the one running, whether aio_ is stopped, the
               \* thread gone, and g_engine_instance set in that thread
  pc,          \* pc[c]: where caller c is
  call,        \* call[c]: the API call in progress
  reg,         \* reg[c]: the queue c holds a shared_ptr to
  answer,      \* answer[c]: the future of the task c posted
  calls,       \* calls made so far
  standing     \* standing[c]: "yes" after a traa_init of c has succeeded, "trying"
               \* during one; "no" once any traa_release overlaps or follows it

vars == <<disciplined, lock, map, made, queue, pc, call, reg, answer, calls, standing>>

Fresh == [tasks |-> << >>, running |-> None, stopped |-> FALSE, exited |-> FALSE,
          engine |-> FALSE]

Init == /\ disciplined \in Disciplines
        /\ lock = None
        /\ map = None
        /\ made = 0
        /\ queue = [q \in Queues |-> Fresh]
        /\ pc = [c \in Callers |-> "idle"]
        /\ call = [c \in Callers |-> "none"]
        /\ reg = [c \in Callers |-> None]
        /\ answer = [c \in Callers |-> "none"]
        /\ calls = 0
        /\ standing = [c \in Callers |-> "no"]

GoTo(c, p) == pc' = [pc EXCEPT ![c] = p]

\* q is referred to by the map or by a caller other than c.
HeldBeside(q, c) == map = q \/ \E d \in Callers \ {c} : reg[d] = q

-----------------------------------------------------------------------------
\* Calls begin and return.

InProgress(k) == {c \in Callers : call[c] = k}

MayCall(c, k) ==
  /\ pc[c] = "idle" /\ calls < MaxCalls
  /\ disciplined => /\ k = "use" => standing[c] = "yes"
                    /\ k = "release" => \A d \in Callers : pc[d] = "idle"
                    /\ InProgress("release") = {}

Begin(c, k, p) == /\ MayCall(c, k)
                  /\ calls' = calls + 1
                  /\ call' = [call EXCEPT ![c] = k]
                  /\ GoTo(c, p)
                  /\ UNCHANGED <<disciplined, lock, map, made, queue, reg, answer>>

traa_init(c) == /\ Begin(c, "init", "exists")
                /\ standing' = [standing EXCEPT ![c] =
                                  IF InProgress("release") = {} THEN "trying" ELSE "no"]

traa_release(c) == /\ Begin(c, "release", "shutdown")
                   /\ standing' = [d \in Callers |-> "no"]

\* traa_set_event_handler, traa_enum_device_info and traa_free_device_info
\* differ in the method they call on the engine.
traa_use(c) == Begin(c, "use", "lookup") /\ UNCHANGED standing

\* What the caller is left with once its call returns.
Return(c) == /\ GoTo(c, "idle")
             /\ call' = [call EXCEPT ![c] = "none"]
             /\ answer' = [answer EXCEPT ![c] = "none"]
             /\ standing' = [standing EXCEPT ![c] =
                  IF call[c] # "init" THEN @
                  ELSE IF @ = "trying" /\ answer[c] = "ok" THEN "yes" ELSE "no"]

-----------------------------------------------------------------------------
\* traa_init: is_task_queue_exist, then create_queue, each under its own lock.

Exists(c) == /\ pc[c] = "exists" /\ lock = None
             /\ GoTo(c, IF map = None THEN "create" ELSE "lookup")
             /\ UNCHANGED <<disciplined, lock, map, made, queue, call, reg, answer, calls,
                            standing>>

\* create_queue hands out the queue that is there by now, or a new one.
CreateQueue(c) ==
  /\ pc[c] = "create" /\ lock = None
  /\ \/ map # None /\ UNCHANGED <<map, made>>
     \/ map = None /\ made' = made + 1 /\ map' = made + 1
  /\ reg' = [reg EXCEPT ![c] = map']
  /\ GoTo(c, "drop")
  /\ UNCHANGED <<disciplined, lock, queue, call, answer, calls, standing>>

-----------------------------------------------------------------------------
\* post_task(g_main_queue_id, ...).get(...)

GetTaskQueue(c) ==
  /\ pc[c] = "lookup" /\ lock = None
  /\ reg' = [reg EXCEPT ![c] = map]
  /\ GoTo(c, IF map = None THEN "get" ELSE "enqueue")
  /\ answer' = [answer EXCEPT ![c] = IF map = None THEN "invalid" ELSE "pending"]
  /\ UNCHANGED <<disciplined, lock, map, made, queue, call, calls, standing>>

Enqueue(c) ==
  /\ pc[c] = "enqueue"
  /\ queue' = [queue EXCEPT ![reg[c]].tasks = Append(@, c)]
  /\ GoTo(c, "drop")
  /\ UNCHANGED <<disciplined, lock, map, made, call, reg, answer, calls, standing>>

AfterDrop(c) == IF lock = c THEN "unlock"
                ELSE IF answer[c] = "none" THEN "lookup" ELSE "get"

\* A temporary shared_ptr goes; the last reference brings the destructor.
DropRef(c) ==
  /\ pc[c] = "drop"
  /\ \/ /\ HeldBeside(reg[c], c)
        /\ reg' = [reg EXCEPT ![c] = None]
        /\ GoTo(c, AfterDrop(c))
     \/ /\ ~HeldBeside(reg[c], c)
        /\ GoTo(c, "dtor")
        /\ UNCHANGED reg
  /\ UNCHANGED <<disciplined, lock, map, made, queue, call, answer, calls, standing>>

\* The future is decided: a traa_init that got no engine goes to release_queue.
Get(c) ==
  /\ pc[c] = "get" /\ answer[c] # "pending"
  /\ \/ /\ call[c] = "init" /\ answer[c] # "ok"
        /\ GoTo(c, "release_queue")
        /\ UNCHANGED <<call, answer, standing>>
     \/ /\ ~(call[c] = "init" /\ answer[c] # "ok")
        /\ Return(c)
  /\ UNCHANGED <<disciplined, lock, map, made, queue, reg, calls>>

-----------------------------------------------------------------------------
\* shutdown() and release_queue(), which hold lock_ while they join.

Shutdown(c) ==
  /\ pc[c] = "shutdown" /\ lock = None
  /\ lock' = c
  /\ GoTo(c, IF map = None THEN "unlock" ELSE "stop")
  /\ UNCHANGED <<disciplined, map, made, queue, call, reg, answer, calls, standing>>

StopQueue(c) ==
  /\ pc[c] = "stop"
  /\ queue' = [queue EXCEPT ![map].stopped = TRUE]
  /\ GoTo(c, "join")
  /\ UNCHANGED <<disciplined, lock, map, made, call, reg, answer, calls, standing>>

JoinQueue(c) ==
  /\ pc[c] = "join" /\ queue[map].exited
  /\ GoTo(c, "clear")
  /\ UNCHANGED <<disciplined, lock, map, made, queue, call, reg, answer, calls, standing>>

\* The reference of the map passes to the thread that erases the entry.
Erase(c) == /\ reg' = [reg EXCEPT ![c] = map]
            /\ map' = None
            /\ GoTo(c, IF map = None THEN "unlock" ELSE "drop")

\* Slip: the stopped queue stays in the map.
ClearMap_Kept(c) ==
  /\ pc[c] = "clear"
  /\ GoTo(c, "unlock")
  /\ UNCHANGED <<disciplined, lock, map, made, queue, call, reg, answer, calls, standing>>

ClearMap(c) ==
  /\ pc[c] = "clear"
  /\ Erase(c)
  /\ UNCHANGED <<disciplined, lock, made, queue, call, answer, calls, standing>>

ReleaseQueue(c) ==
  /\ pc[c] = "release_queue" /\ lock = None
  /\ lock' = c
  /\ Erase(c)
  /\ UNCHANGED <<disciplined, made, queue, call, answer, calls, standing>>

\* Slip: a path returns without giving lock_ back.
Unlock_Leak(c) ==
  /\ pc[c] = "unlock"
  /\ Return(c)
  /\ UNCHANGED <<disciplined, lock, map, made, queue, reg, calls>>

Unlock(c) ==
  /\ pc[c] = "unlock"
  /\ lock' = None
  /\ Return(c)
  /\ UNCHANGED <<disciplined, map, made, queue, reg, calls>>

\* The futures of the tasks that will not run are abandoned.
Abandon(q) == answer' = [c \in Callers |->
                           IF \E i \in DOMAIN queue[q].tasks : queue[q].tasks[i] = c
                           THEN "abandoned" ELSE answer[c]]

\* Slip: the destructor does not stop the thread.
Destructor_NoStop(c) ==
  /\ pc[c] = "dtor"
  /\ GoTo(c, "destroy")
  /\ UNCHANGED <<disciplined, lock, map, made, queue, call, reg, answer, calls, standing>>

\* ~task_queue: stop(), which joins unless the context was stopped before.
Destructor(c) ==
  /\ pc[c] = "dtor"
  /\ queue' = [queue EXCEPT ![reg[c]].stopped = TRUE]
  /\ GoTo(c, IF queue[reg[c]].stopped THEN "destroy" ELSE "dtor_join")
  /\ UNCHANGED <<disciplined, lock, map, made, call, reg, answer, calls, standing>>

DestructorJoin(c) ==
  /\ pc[c] = "dtor_join" /\ queue[reg[c]].exited
  /\ GoTo(c, "destroy")
  /\ UNCHANGED <<disciplined, lock, map, made, queue, call, reg, answer, calls, standing>>

Destroy(c) ==
  /\ pc[c] = "destroy"
  /\ Abandon(reg[c])
  /\ queue' = [queue EXCEPT ![reg[c]].tasks = << >>]
  /\ reg' = [reg EXCEPT ![c] = None]
  /\ GoTo(c, AfterDrop(c))
  /\ UNCHANGED <<disciplined, lock, map, made, call, calls, standing>>

-----------------------------------------------------------------------------
\* The thread of queue q.

StartTask(q) ==
  /\ q <= made /\ ~queue[q].stopped
  /\ queue[q].running = None /\ queue[q].tasks # << >>
  /\ queue' = [queue EXCEPT ![q].running = Head(queue[q].tasks), ![q].tasks = Tail(@)]
  /\ UNCHANGED <<disciplined, lock, map, made, pc, call, reg, answer, calls, standing>>

\* Slip: the engine is made only by the task of a queue that has nothing else to do.
FinishTask_Deferred(q) ==
  /\ queue[q].running # None
  /\ queue' = [queue EXCEPT ![q].running = None,
                            ![q].engine = @ \/ ( /\ call[queue[q].running] = "init"
                                                 /\ queue[q].tasks = << >> )]
  /\ answer' = [answer EXCEPT ![queue[q].running] = "ok"]
  /\ UNCHANGED <<disciplined, lock, map, made, pc, call, reg, calls, standing>>

\* traa_init's task makes the engine of this thread if it has none.
FinishTask(q) ==
  /\ queue[q].running # None
  /\ queue' = [queue EXCEPT ![q].running = None,
                            ![q].engine = @ \/ call[queue[q].running] = "init"]
  /\ answer' = [answer EXCEPT ![queue[q].running] = "ok"]
  /\ UNCHANGED <<disciplined, lock, map, made, pc, call, reg, calls, standing>>

\* aio_.run() has returned: tasks_ is cleared, exit_ deletes the engine.
Exit(q) ==
  /\ queue[q].stopped /\ ~queue[q].exited /\ queue[q].running = None
  /\ Abandon(q)
  /\ queue' = [queue EXCEPT ![q].tasks = << >>, ![q].exited = TRUE, ![q].engine = FALSE]
  /\ UNCHANGED <<disciplined, lock, map, made, pc, call, reg, calls, standing>>

-----------------------------------------------------------------------------
CallStep(c) ==
  \/ Exists(c) \/ CreateQueue(c) \/ GetTaskQueue(c) \/ Enqueue(c) \/ DropRef(c) \/ Get(c)
  \/ Shutdown(c) \/ StopQueue(c) \/ JoinQueue(c) \/ ClearMap(c) \/ ReleaseQueue(c)
  \/ Unlock(c) \/ Destructor(c) \/ DestructorJoin(c) \/ Destroy(c)

QueueStep(q) == StartTask(q) \/ FinishTask(q) \/ Exit(q)

Next == \/ \E c \in Callers : traa_init(c) \/ traa_release(c) \/ traa_use(c) \/ CallStep(c)
        \/ \E q \in Queues : QueueStep(q)

\* Threads inside a call and threads of queues are scheduled.  As the calls are
\* finitely many, nobody can be overtaken for ever at lock_.
Fairness == /\ \A c \in Callers : WF_vars(CallStep(c))
            /\ \A q \in Queues : WF_vars(QueueStep(q))

Spec == Init /\ [][Next]_vars
FairSpec == Spec /\ Fairness

-----------------------------------------------------------------------------
\* Properties.

Points == {"idle", "exists", "create", "lookup", "enqueue", "drop", "get", "release_queue",
           "shutdown", "stop", "join", "clear", "unlock", "dtor", "dtor_join", "destroy"}

LockedPoints == {"stop", "join", "clear", "drop", "dtor", "dtor_join", "destroy", "unlock"}

QueueType == [tasks : Seq(Callers), running : Callers \union {None}, stopped : BOOLEAN,
              exited : BOOLEAN, engine : BOOLEAN]

\* Every variable stays within the values the code can give it, and only a thread that
\* is inside shutdown() or release_queue() holds lock_ exclusively.
TypeOK == /\ disciplined \in BOOLEAN
          /\ lock \in Callers \union {None}
          /\ lock # None => pc[lock] \in LockedPoints
          /\ map \in Queues \union {None}
          /\ made \in 0 .. MaxCalls
          /\ queue \in [Queues -> QueueType]
          /\ pc \in [Callers -> Points]
          /\ call \in [Callers -> Calls \union {"none"}]
          /\ reg \in [Callers -> Queues \union {None}]
          /\ answer \in [Callers -> {"none", "pending", "ok", "abandoned", "invalid"}]
          /\ calls \in 0 .. MaxCalls
          /\ standing \in [Callers -> {"no", "trying", "yes"}]

\* No thread and no engine is left behind: a queue that neither the map nor a
\* caller holds any more has ended, and its engine has been deleted.
NoOrphanQueue ==
  \A q \in Queues : q <= made /\ map # q /\ (\A c \in Callers : reg[c] # q) =>
                      queue[q].exited /\ ~queue[q].engine /\ queue[q].tasks = << >>

\* traa_release is through with a queue only when its thread and engine are gone,
\* so the main queue in the map always has a thread as long as nobody is in shutdown().
MainQueueRuns ==
  map # None /\ queue[map].stopped => lock # None /\ pc[lock] \in {"join", "clear"}

\* The engine is there whenever a task uses it (traa.cc:83-84): it is dereferenced
\* without a test.
EngineThereWhenUsed ==
  \A q \in Queues : queue[q].running # None /\ call[queue[q].running] = "use" =>
                      queue[q].engine

\* A traa_init that succeeded stands until somebody calls traa_release
\* (traa.cc:47 relies on the manager's lock for this).
InitStands == \A c \in Callers : standing[c] = "yes" => map # None

\* Both hold for an application that keeps to the discipline.
DisciplinedUseIsSafe == disciplined => EngineThereWhenUsed /\ InitStands

\* Every call returns, whatever the others do: lock_ is given back, and whoever
\* waits for a task is answered even if its queue is stopped or replaced meanwhile.
EveryCallReturns == \A c \in Callers : (pc[c] # "idle") ~> (pc[c] = "idle")
=============================================================================
