--------------------------- MODULE TaskQueue_proofs ---------------------------
(***************************************************************************)
(* Proofs about TaskQueue, for any number of clients and of tasks, as the  *)
(* library uses its queues: its tasks do not post to the queue that runs   *)
(* them.                                                                   *)
(***************************************************************************)
EXTENDS TaskQueue, FiniteSetTheorems, TLAPS

\* No task posts to its own queue.
Plain == \A s \in Scenarios : s.nested = {}

Holding == {"enqueue", "emplace", "post", "drop"}
Ending == {"dtor", "dtor_join", "destroy"}

exited == pc[Worker] = "exited"

\* Which threads are where.
PlaceInv ==
  /\ use \in Scenarios
  /\ pc \in [Threads -> Points]
  /\ pc[Worker] \in {"run", "execute", "task", "exited"}
  /\ pc[Manager] \in {"idle", "stop", "join", "clear", "returned"} \cup Ending
  /\ \A c \in Clients : pc[c] \in {"idle"} \cup Holding \cup Ending

\* A reference is held by whoever is inside the queue, and the destructor is run by
\* one thread once there is none.
RefInv ==
  /\ refs \subseteq Threads /\ Worker \notin refs
  /\ Manager \in refs <=> pc[Manager] \in {"idle", "stop", "join", "clear"}
  /\ \A c \in Clients : c \in refs <=> pc[c] \in Holding
  /\ \A x, y \in Threads : pc[x] \in Ending => refs = {} /\ (pc[y] \in Ending => x = y)
  /\ destroyed => refs = {} /\ \A x \in Threads : pc[x] \notin Ending

\* Who finds the context stopped already and does not join the thread may rely on its
\* having been joined.
StopInv ==
  /\ stopped => exited \/ pc[Manager] = "join" \/ \E x \in Threads : pc[x] = "dtor_join"
  /\ destroyed => exited
  /\ \A x \in Threads : pc[x] = "destroy" => exited
  /\ ended = "shutdown" /\ pc[Manager] \notin {"idle", "stop", "join"} => exited

\* tasks_mutex_ is held by whoever writes.
MutexInv == /\ mutex \in Threads \cup {None}
            /\ \A x \in Threads : pc[x] = "emplace" <=> mutex = x

\* A task that has not been emplaced yet is in the hands of one thread.
TaskInv ==
  /\ tasks \in Seq(Tasks)
  /\ mine \in [Threads -> Tasks \cup {None}]
  /\ current \in Tasks \cup {None}
  /\ fate \in [Tasks -> Fates]
  /\ created \in 0 .. MaxTasks
  /\ \A i \in 1 .. Len(tasks) : fate[tasks[i]] # "new"
  /\ current = None <=> pc[Worker] # "task"
  /\ current # None => fate[current] # "new"
  /\ \A t \in Tasks : t > created => fate[t] = "new"
  /\ \A x \in Clients : pc[x] \in {"enqueue", "emplace"} =>
       /\ mine[x] \in Tasks /\ mine[x] <= created /\ fate[mine[x]] = "new"
       /\ \A y \in Clients : pc[y] \in {"enqueue", "emplace"} /\ mine[y] = mine[x] => x = y

FlagType == /\ handlers \in Nat
            /\ stopped \in BOOLEAN /\ destroyed \in BOOLEAN
            /\ ended \in {"no", "shutdown", "release"}

IInv == PlaceInv /\ RefInv /\ StopInv /\ MutexInv /\ TaskInv /\ FlagType

-----------------------------------------------------------------------------
\* What a step can be when no task posts.
LEMMA Steps ==
  ASSUME Plain, PlaceInv, Next
  PROVE  \/ \E c \in Clients : \/ GetTaskQueue(c) \/ BeginEmplace(c) \/ EndEmplace(c)
                               \/ Post(c) \/ DropRef(c) \/ PostAgain(c)
         \/ \E x \in Clients \cup {Manager} : Stop(x) \/ Join(x) \/ Destroy(x)
         \/ Dispatch \/ Execute \/ FinishTask \/ Exit
         \/ Shutdown \/ ReleaseQueue \/ ClearMap
<1>1. use.nested = {}
  BY DEF Plain, PlaceInv
<1>2. ~PostToCurrent /\ ~PostById
  BY <1>1 DEF PostToCurrent, PostById
<1>3. ~Lookup
  BY DEF Lookup, PlaceInv
<1>4. ~EnqueueStep(Worker)
  BY DEF EnqueueStep, BeginEmplace, EndEmplace, Post, DropRef, PlaceInv
<1>5. ~StopStep(Worker)
  BY DEF StopStep, Stop, Join, Destroy, PlaceInv
<1> QED
  BY <1>2, <1>3, <1>4, <1>5 DEF Next, ClientStep, WorkerStep, ManagerStep, EnqueueStep, StopStep

\* The threads are different from one another.
LEMMA Different ==
  /\ Worker \in Threads /\ Manager \in Threads /\ Clients \subseteq Threads
  /\ Worker # Manager /\ None \notin Threads
  /\ \A c \in Clients : c # Worker /\ c # Manager
  BY TaskQueueAssumption DEF Threads

-----------------------------------------------------------------------------
\* The places and the references in every step.
LEMMA RefStep ==
  ASSUME Plain, PlaceInv, RefInv, [Next]_vars
  PROVE  PlaceInv' /\ RefInv'
<1> USE Different DEF Holding, Ending, GoTo
<1>1. CASE UNCHANGED vars
  BY <1>1 DEF vars, PlaceInv, RefInv
<1>2. ASSUME NEW c \in Clients, GetTaskQueue(c) PROVE PlaceInv' /\ RefInv'
  BY <1>2 DEF GetTaskQueue, InMap, PlaceInv, RefInv, Points
<1>3. ASSUME NEW c \in Clients, BeginEmplace(c) PROVE PlaceInv' /\ RefInv'
  BY <1>3 DEF BeginEmplace, PlaceInv, RefInv, Points
<1>4. ASSUME NEW c \in Clients, EndEmplace(c) PROVE PlaceInv' /\ RefInv'
  BY <1>4 DEF EndEmplace, PlaceInv, RefInv, Points
<1>5. ASSUME NEW c \in Clients, Post(c) PROVE PlaceInv' /\ RefInv'
  BY <1>5 DEF Post, PlaceInv, RefInv, Points
<1>6. ASSUME NEW c \in Clients, DropRef(c) PROVE PlaceInv' /\ RefInv'
  BY <1>6 DEF DropRef, PlaceInv, RefInv, Points
<1>7. ASSUME NEW c \in Clients, PostAgain(c) PROVE PlaceInv' /\ RefInv'
  BY <1>7 DEF PostAgain, PlaceInv, RefInv, Points
<1>8. ASSUME NEW x \in Clients \cup {Manager}, Stop(x) PROVE PlaceInv' /\ RefInv'
  BY <1>8 DEF Stop, PlaceInv, RefInv, Points
<1>9. ASSUME NEW x \in Clients \cup {Manager}, Join(x) PROVE PlaceInv' /\ RefInv'
  BY <1>9 DEF Join, PlaceInv, RefInv, Points
<1>10. ASSUME NEW x \in Clients \cup {Manager}, Destroy(x) PROVE PlaceInv' /\ RefInv'
  BY <1>10 DEF Destroy, PlaceInv, RefInv, Points
<1>11. CASE Dispatch
  BY <1>11 DEF Dispatch, PlaceInv, RefInv, Points
<1>12. CASE Execute
  BY <1>12 DEF Execute, PlaceInv, RefInv, Points
<1>13. CASE FinishTask
  BY <1>13 DEF FinishTask, PlaceInv, RefInv, Points
<1>14. CASE Exit
  BY <1>14 DEF Exit, PlaceInv, RefInv, Points
<1>15. CASE Shutdown
  BY <1>15 DEF Shutdown, InMap, PlaceInv, RefInv, Points
<1>16. CASE ReleaseQueue
  BY <1>16 DEF ReleaseQueue, InMap, PlaceInv, RefInv, Points
<1>17. CASE ClearMap
  BY <1>17 DEF ClearMap, PlaceInv, RefInv, Points
<1> QED
  BY Steps, <1>1, <1>2, <1>3, <1>4, <1>5, <1>6, <1>7, <1>8, <1>9, <1>10, <1>11, <1>12,
     <1>13, <1>14, <1>15, <1>16, <1>17

\* Whoever finds the context stopped finds the thread gone.
LEMMA StopInvStep ==
  ASSUME Plain, PlaceInv, RefInv, StopInv, [Next]_vars
  PROVE  StopInv'
<1> USE Different DEF StopInv, exited, GoTo, PlaceInv
<1>1. CASE UNCHANGED vars
  BY <1>1 DEF vars
<1>2. ASSUME NEW c \in Clients, GetTaskQueue(c) PROVE StopInv'
  BY <1>2 DEF GetTaskQueue
<1>3. ASSUME NEW c \in Clients, BeginEmplace(c) PROVE StopInv'
  BY <1>3 DEF BeginEmplace
<1>4. ASSUME NEW c \in Clients, EndEmplace(c) PROVE StopInv'
  BY <1>4 DEF EndEmplace
<1>5. ASSUME NEW c \in Clients, Post(c) PROVE StopInv'
  BY <1>5 DEF Post
<1>6. ASSUME NEW c \in Clients, DropRef(c) PROVE StopInv'
  BY <1>6 DEF DropRef
<1>7. ASSUME NEW c \in Clients, PostAgain(c) PROVE StopInv'
  BY <1>7 DEF PostAgain
<1>8. ASSUME NEW x \in Clients \cup {Manager}, Stop(x) PROVE StopInv'
  <2>1. CASE pc[x] = "stop"
    <3>1. x = Manager /\ refs # {}
      BY <2>1 DEF Holding, Ending, RefInv
    <3>2. stopped => exited
      BY <2>1, <3>1 DEF RefInv, Ending, exited
    <3> QED
      BY <1>8, <2>1, <3>1, <3>2 DEF Stop
  <2>2. CASE pc[x] = "dtor"
    <3>1. stopped => exited
      BY <2>2 DEF RefInv, Ending, exited
    <3>2. x = Manager => (ended = "shutdown" => exited)
      BY <2>2 DEF exited
    <3>3. CASE stopped
      <4>1. stopped' /\ ended' = ended /\ destroyed' = destroyed /\ pc' = [pc EXCEPT ![x] = "destroy"]
        BY <1>8, <2>2, <3>3 DEF Stop
      <4> QED
        BY <3>1, <3>3, <4>1
    <3>4. CASE ~stopped
      <4>1. stopped' /\ ended' = ended /\ destroyed' = destroyed /\ pc' = [pc EXCEPT ![x] = "dtor_join"]
        BY <1>8, <2>2, <3>4 DEF Stop
      <4> QED
        BY <2>2, <3>4, <4>1 DEF Ending
    <3> QED
      BY <3>3, <3>4
  <2> QED
    BY <1>8, <2>1, <2>2 DEF Stop
<1>9. ASSUME NEW x \in Clients \cup {Manager}, Join(x) PROVE StopInv'
  BY <1>9 DEF Join, RefInv, Ending
<1>10. ASSUME NEW x \in Clients \cup {Manager}, Destroy(x) PROVE StopInv'
  BY <1>10 DEF Destroy, RefInv, Ending
<1>11. CASE Dispatch
  BY <1>11 DEF Dispatch
<1>12. CASE Execute
  BY <1>12 DEF Execute
<1>13. CASE FinishTask
  BY <1>13 DEF FinishTask
<1>14. CASE Exit
  BY <1>14 DEF Exit, AbandonTasks
<1>15. CASE Shutdown
  BY <1>15 DEF Shutdown, InMap
<1>16. CASE ReleaseQueue
  BY <1>16 DEF ReleaseQueue
<1>17. CASE ClearMap
  BY <1>17 DEF ClearMap, Ending
<1> QED
  BY Steps, <1>1, <1>2, <1>3, <1>4, <1>5, <1>6, <1>7, <1>8, <1>9, <1>10, <1>11, <1>12,
     <1>13, <1>14, <1>15, <1>16, <1>17

\* The mutex in every step.
LEMMA MutexStep ==
  ASSUME Plain, PlaceInv, MutexInv, [Next]_vars
  PROVE  MutexInv'
<1> USE Different DEF MutexInv, GoTo, PlaceInv, Ending
<1>1. CASE UNCHANGED vars
  BY <1>1 DEF vars
<1>2. ASSUME NEW c \in Clients, GetTaskQueue(c) PROVE MutexInv'
  BY <1>2 DEF GetTaskQueue
<1>3. ASSUME NEW c \in Clients, BeginEmplace(c) PROVE MutexInv'
  BY <1>3 DEF BeginEmplace, is_on_current_queue
<1>4. ASSUME NEW c \in Clients, EndEmplace(c) PROVE MutexInv'
  BY <1>4 DEF EndEmplace
<1>5. ASSUME NEW c \in Clients, Post(c) PROVE MutexInv'
  BY <1>5 DEF Post
<1>6. ASSUME NEW c \in Clients, DropRef(c) PROVE MutexInv'
  BY <1>6 DEF DropRef
<1>7. ASSUME NEW c \in Clients, PostAgain(c) PROVE MutexInv'
  BY <1>7 DEF PostAgain
<1>8. ASSUME NEW x \in Clients \cup {Manager}, Stop(x) PROVE MutexInv'
  BY <1>8 DEF Stop
<1>9. ASSUME NEW x \in Clients \cup {Manager}, Join(x) PROVE MutexInv'
  BY <1>9 DEF Join
<1>10. ASSUME NEW x \in Clients \cup {Manager}, Destroy(x) PROVE MutexInv'
  BY <1>10 DEF Destroy
<1>11. CASE Dispatch
  BY <1>11 DEF Dispatch
<1>12. CASE Execute
  BY <1>12 DEF Execute
<1>13. CASE FinishTask
  BY <1>13 DEF FinishTask
<1>14. CASE Exit
  BY <1>14 DEF Exit
<1>15. CASE Shutdown
  BY <1>15 DEF Shutdown
<1>16. CASE ReleaseQueue
  BY <1>16 DEF ReleaseQueue
<1>17. CASE ClearMap
  BY <1>17 DEF ClearMap
<1> QED
  BY Steps, <1>1, <1>2, <1>3, <1>4, <1>5, <1>6, <1>7, <1>8, <1>9, <1>10, <1>11, <1>12,
     <1>13, <1>14, <1>15, <1>16, <1>17

\* The remaining types.
LEMMA FlagStep ==
  ASSUME Plain, PlaceInv, FlagType, [Next]_vars
  PROVE  FlagType'
<1> USE DEF FlagType
<1>1. CASE UNCHANGED vars
  BY <1>1 DEF vars
<1>2. ASSUME NEW c \in Clients, GetTaskQueue(c) PROVE FlagType'
  BY <1>2 DEF GetTaskQueue
<1>3. ASSUME NEW c \in Clients, BeginEmplace(c) PROVE FlagType'
  BY <1>3 DEF BeginEmplace
<1>4. ASSUME NEW c \in Clients, EndEmplace(c) PROVE FlagType'
  BY <1>4 DEF EndEmplace
<1>5. ASSUME NEW c \in Clients, Post(c) PROVE FlagType'
  BY <1>5 DEF Post
<1>6. ASSUME NEW c \in Clients, DropRef(c) PROVE FlagType'
  BY <1>6 DEF DropRef
<1>7. ASSUME NEW c \in Clients, PostAgain(c) PROVE FlagType'
  BY <1>7 DEF PostAgain
<1>8. ASSUME NEW x \in Clients \cup {Manager}, Stop(x) PROVE FlagType'
  BY <1>8 DEF Stop
<1>9. ASSUME NEW x \in Clients \cup {Manager}, Join(x) PROVE FlagType'
  BY <1>9 DEF Join
<1>10. ASSUME NEW x \in Clients \cup {Manager}, Destroy(x) PROVE FlagType'
  BY <1>10 DEF Destroy
<1>11. CASE Dispatch
  BY <1>11 DEF Dispatch
<1>12. CASE Execute
  BY <1>12 DEF Execute
<1>13. CASE FinishTask
  BY <1>13 DEF FinishTask
<1>14. CASE Exit
  BY <1>14 DEF Exit
<1>15. CASE Shutdown
  BY <1>15 DEF Shutdown
<1>16. CASE ReleaseQueue
  BY <1>16 DEF ReleaseQueue
<1>17. CASE ClearMap
  BY <1>17 DEF ClearMap
<1> QED
  BY Steps, <1>1, <1>2, <1>3, <1>4, <1>5, <1>6, <1>7, <1>8, <1>9, <1>10, <1>11, <1>12,
     <1>13, <1>14, <1>15, <1>16, <1>17

\* The tasks in every step.
LEMMA TaskStep ==
  ASSUME Plain, PlaceInv, TaskInv, [Next]_vars
  PROVE  TaskInv'
<1> USE Different, TaskQueueAssumption DEF TaskInv, GoTo, PlaceInv, Holding, Ending, Tasks
<1>1. CASE UNCHANGED vars
  BY <1>1 DEF vars
<1>2. ASSUME NEW c \in Clients, GetTaskQueue(c) PROVE TaskInv'
  BY <1>2 DEF GetTaskQueue, NewTask
<1>3. ASSUME NEW c \in Clients, BeginEmplace(c) PROVE TaskInv'
  BY <1>3 DEF BeginEmplace
<1>4. ASSUME NEW c \in Clients, EndEmplace(c) PROVE TaskInv'
  BY <1>4 DEF EndEmplace, Fates
<1>5. ASSUME NEW c \in Clients, Post(c) PROVE TaskInv'
  BY <1>5 DEF Post
<1>6. ASSUME NEW c \in Clients, DropRef(c) PROVE TaskInv'
  BY <1>6 DEF DropRef
<1>7. ASSUME NEW c \in Clients, PostAgain(c) PROVE TaskInv'
  BY <1>7 DEF PostAgain, NewTask
<1>8. ASSUME NEW x \in Clients \cup {Manager}, Stop(x) PROVE TaskInv'
  BY <1>8 DEF Stop
<1>9. ASSUME NEW x \in Clients \cup {Manager}, Join(x) PROVE TaskInv'
  BY <1>9 DEF Join
<1>10. ASSUME NEW x \in Clients \cup {Manager}, Destroy(x) PROVE TaskInv'
  BY <1>10 DEF Destroy, AbandonTasks, Fates
<1>11. CASE Dispatch
  BY <1>11 DEF Dispatch
<1>12. CASE Execute
  <2>1. CASE tasks = << >>
    BY <1>12, <2>1 DEF Execute
  <2>2. CASE tasks # << >>
    <3>1. /\ current' = Head(tasks) /\ tasks' = Tail(tasks)
          /\ fate' = [fate EXCEPT ![Head(tasks)] = "running"]
          /\ pc' = [pc EXCEPT ![Worker] = "task"]
          /\ UNCHANGED <<mine, created>>
      BY <1>12, <2>2 DEF Execute
    <3>2. /\ Head(tasks) \in Tasks /\ Head(tasks) = tasks[1] /\ 1 \in 1 .. Len(tasks)
          /\ Tail(tasks) \in Seq(Tasks)
      BY <2>2
    <3>3. \A i \in 1 .. Len(Tail(tasks)) :
            i + 1 \in 1 .. Len(tasks) /\ Tail(tasks)[i] = tasks[i + 1] /\ tasks[i + 1] \in Tasks
      BY <2>2
    <3>4. fate[Head(tasks)] # "new" /\ fate' \in [Tasks -> Fates]
      BY <3>1, <3>2 DEF Fates
    <3>5. \A t \in Tasks : fate'[t] = "new" <=> fate[t] = "new"
      BY <3>1, <3>2, <3>4
    <3>6. \A i \in 1 .. Len(tasks') : fate'[tasks'[i]] # "new"
      BY <3>1, <3>3, <3>5
    <3>7. \A c \in Clients : pc'[c] = pc[c]
      BY <3>1
    <3>8. pc'[Worker] = "task" /\ current' # None /\ current' \in Tasks /\ fate'[current'] # "new"
      BY <3>1, <3>2, <3>4, <3>5
    <3> QED
      BY <3>1, <3>2, <3>4, <3>5, <3>6, <3>7, <3>8
  <2> QED
    BY <2>1, <2>2
<1>13. CASE FinishTask
  BY <1>13 DEF FinishTask, Fates
<1>14. CASE Exit
  BY <1>14 DEF Exit, AbandonTasks, Fates
<1>15. CASE Shutdown
  BY <1>15 DEF Shutdown
<1>16. CASE ReleaseQueue
  BY <1>16 DEF ReleaseQueue
<1>17. CASE ClearMap
  BY <1>17 DEF ClearMap
<1> QED
  BY Steps, <1>1, <1>2, <1>3, <1>4, <1>5, <1>6, <1>7, <1>8, <1>9, <1>10, <1>11, <1>12,
     <1>13, <1>14, <1>15, <1>16, <1>17

-----------------------------------------------------------------------------
Posting == {x \in Threads : pc[x] = "post"}

\* Posting grows and shrinks by one thread at a time.
LEMMA PostingCounts ==
  ASSUME PlaceInv
  PROVE  /\ Cardinality(Posting) \in Nat
         /\ \A x \in Threads : x \notin Posting /\ Posting' = Posting \cup {x}
              => Cardinality(Posting') = Cardinality(Posting) + 1
         /\ \A x \in Posting : Posting' = Posting \ {x}
              => Cardinality(Posting') = Cardinality(Posting) - 1
<1>1. IsFiniteSet(Threads)
  <2>1. IsFiniteSet(Clients \cup {Manager}) /\ IsFiniteSet((Clients \cup {Manager}) \cup {Worker})
    BY TaskQueueAssumption, FS_AddElement
  <2> QED
    BY <2>1, Zenon DEF Threads
<1>2. IsFiniteSet(Posting)
  BY <1>1, FS_Subset DEF Posting
<1> HIDE DEF Posting
<1>3. Cardinality(Posting) \in Nat
  BY <1>2, FS_CardinalityType
<1>4. \A x : x \notin Posting => Cardinality(Posting \cup {x}) = Cardinality(Posting) + 1
  BY <1>2, FS_AddElement
<1>5. \A x \in Posting : Cardinality(Posting \ {x}) = Cardinality(Posting) - 1
  BY <1>2, FS_RemoveElement
<1> QED
  BY <1>3, <1>4, <1>5

\* No task is stranded: the part of HandlersMatchTasks that a step has to keep.
LEMMA HandlersStep ==
  ASSUME Plain, PlaceInv, StopInv, TaskInv, FlagType, HandlersMatchTasks, [Next]_vars
  PROVE  HandlersMatchTasks'
<1> USE DEF exited
<1> DEFINE Executing == IF pc[Worker] = "execute" THEN 1 ELSE 0
<1>a. HandlersMatchTasks <=>
        (exited \/ Len(tasks) = handlers + Cardinality(Posting) + Executing)
  BY DEF HandlersMatchTasks, Posting, exited
<1>b. HandlersMatchTasks' <=>
        (exited' \/ Len(tasks') = handlers' + Cardinality(Posting') + Executing')
  BY DEF HandlersMatchTasks, Posting, exited
<1>c. Cardinality(Posting) \in Nat /\ handlers \in Nat /\ tasks \in Seq(Tasks)
  BY PostingCounts DEF FlagType, TaskInv
<1>d. ASSUME Posting' = Posting, tasks' = tasks, handlers' = handlers,
             exited' = exited, Executing' = Executing
      PROVE  HandlersMatchTasks'
  BY <1>a, <1>b, <1>d
<1> USE Different DEF GoTo, Ending, Holding
<1>1. CASE UNCHANGED vars
  BY <1>1, <1>d DEF vars, Posting, exited
<1>2. ASSUME NEW c \in Clients, GetTaskQueue(c) PROVE HandlersMatchTasks'
  <2>1. /\ Posting' = Posting /\ tasks' = tasks /\ handlers' = handlers
        /\ exited' = exited /\ Executing' = Executing
    BY <1>2 DEF GetTaskQueue, Posting, PlaceInv, exited
  <2> QED
    BY <1>d, <2>1
<1>3. ASSUME NEW c \in Clients, BeginEmplace(c) PROVE HandlersMatchTasks'
  <2>1. /\ Posting' = Posting /\ tasks' = tasks /\ handlers' = handlers
        /\ exited' = exited /\ Executing' = Executing
    BY <1>3 DEF BeginEmplace, Posting, PlaceInv, exited
  <2> QED
    BY <1>d, <2>1
<1>4. ASSUME NEW c \in Clients, EndEmplace(c) PROVE HandlersMatchTasks'
  <2>1. Len(tasks') = Len(tasks) + 1 /\ handlers' = handlers
    BY <1>4, <1>c DEF EndEmplace
  <2>2. c \notin Posting /\ Posting' = Posting \cup {c} /\ exited' = exited /\ Executing' = Executing
    BY <1>4 DEF EndEmplace, Posting, PlaceInv, exited
  <2>3. Cardinality(Posting') = Cardinality(Posting) + 1
    BY <2>2, PostingCounts
  <2>4. Executing \in Nat
    OBVIOUS
  <2> QED
    BY <1>a, <1>b, <1>c, <2>1, <2>2, <2>3, <2>4
<1>5. ASSUME NEW c \in Clients, Post(c) PROVE HandlersMatchTasks'
  <2>1. tasks' = tasks /\ handlers' = handlers + 1
    BY <1>5 DEF Post
  <2>2. c \in Posting /\ Posting' = Posting \ {c} /\ exited' = exited /\ Executing' = Executing
    BY <1>5 DEF Post, Posting, PlaceInv, exited
  <2>3. Cardinality(Posting') = Cardinality(Posting) - 1
    BY <2>2, PostingCounts
  <2>4. Executing \in Nat
    OBVIOUS
  <2> QED
    BY <1>a, <1>b, <1>c, <2>1, <2>2, <2>3, <2>4
<1>6. ASSUME NEW c \in Clients, DropRef(c) PROVE HandlersMatchTasks'
  <2>1. /\ Posting' = Posting /\ tasks' = tasks /\ handlers' = handlers
        /\ exited' = exited /\ Executing' = Executing
    BY <1>6 DEF DropRef, Posting, PlaceInv, exited
  <2> QED
    BY <1>d, <2>1
<1>7. ASSUME NEW c \in Clients, PostAgain(c) PROVE HandlersMatchTasks'
  <2>1. /\ Posting' = Posting /\ tasks' = tasks /\ handlers' = handlers
        /\ exited' = exited /\ Executing' = Executing
    BY <1>7 DEF PostAgain, Posting, PlaceInv, exited
  <2> QED
    BY <1>d, <2>1
<1>8. ASSUME NEW x \in Clients \cup {Manager}, Stop(x) PROVE HandlersMatchTasks'
  <2>1. /\ Posting' = Posting /\ tasks' = tasks /\ handlers' = handlers
        /\ exited' = exited /\ Executing' = Executing
    BY <1>8 DEF Stop, Posting, PlaceInv, exited
  <2> QED
    BY <1>d, <2>1
<1>9. ASSUME NEW x \in Clients \cup {Manager}, Join(x) PROVE HandlersMatchTasks'
  <2>1. /\ Posting' = Posting /\ tasks' = tasks /\ handlers' = handlers
        /\ exited' = exited /\ Executing' = Executing
    BY <1>9 DEF Join, Posting, PlaceInv, exited
  <2> QED
    BY <1>d, <2>1
<1>10. ASSUME NEW x \in Clients \cup {Manager}, Destroy(x) PROVE HandlersMatchTasks'
  <2>1. exited /\ exited'
    BY <1>10 DEF Destroy, StopInv, PlaceInv, exited
  <2> QED
    BY <1>b, <2>1
<1>11. CASE Dispatch
  <2>1. tasks' = tasks /\ handlers' = handlers - 1 /\ Posting' = Posting /\ ~exited /\ ~exited'
    BY <1>11 DEF Dispatch, Posting, PlaceInv, exited
  <2>2. Executing = 0 /\ Executing' = 1
    BY <1>11 DEF Dispatch, PlaceInv
  <2> QED
    BY <1>a, <1>b, <1>c, <2>1, <2>2
<1>12. CASE Execute
  <2>1. handlers' = handlers /\ Posting' = Posting /\ ~exited /\ ~exited'
    BY <1>12 DEF Execute, Posting, PlaceInv, exited
  <2>2. Executing = 1 /\ Executing' = 0
    BY <1>12 DEF Execute, PlaceInv
  <2>3. tasks # << >>
    BY <1>12, <1>a, <1>c, <2>1, <2>2
  <2>4. Len(tasks') = Len(tasks) - 1
    BY <1>12, <1>c, <2>3 DEF Execute
  <2>5. Len(tasks) = handlers + Cardinality(Posting) + 1 /\ Len(tasks) \in Nat
    BY <1>a, <1>c, <2>1, <2>2
  <2>6. Len(tasks') = handlers' + Cardinality(Posting') + 0
    <3> HIDE DEF Posting, Executing
    <3> QED BY <1>c, <2>1, <2>4, <2>5
  <2> QED
    BY <1>b, <2>2, <2>6
<1>13. CASE FinishTask
  <2>1. /\ Posting' = Posting /\ tasks' = tasks /\ handlers' = handlers
        /\ exited' = exited /\ Executing' = Executing
    BY <1>13 DEF FinishTask, Posting, PlaceInv, exited
  <2> QED
    BY <1>d, <2>1
<1>14. CASE Exit
  <2>1. exited'
    BY <1>14 DEF Exit, PlaceInv, exited
  <2> QED
    BY <1>b, <2>1
<1>15. CASE Shutdown
  <2>1. /\ Posting' = Posting /\ tasks' = tasks /\ handlers' = handlers
        /\ exited' = exited /\ Executing' = Executing
    BY <1>15 DEF Shutdown, Posting, PlaceInv, exited
  <2> QED
    BY <1>d, <2>1
<1>16. CASE ReleaseQueue
  <2>1. /\ Posting' = Posting /\ tasks' = tasks /\ handlers' = handlers
        /\ exited' = exited /\ Executing' = Executing
    BY <1>16 DEF ReleaseQueue, Posting, PlaceInv, exited
  <2> QED
    BY <1>d, <2>1
<1>17. CASE ClearMap
  <2>1. /\ Posting' = Posting /\ tasks' = tasks /\ handlers' = handlers
        /\ exited' = exited /\ Executing' = Executing
    BY <1>17 DEF ClearMap, Posting, PlaceInv, exited
  <2> QED
    BY <1>d, <2>1
<1> QED
  BY Steps, <1>1, <1>2, <1>3, <1>4, <1>5, <1>6, <1>7, <1>8, <1>9, <1>10, <1>11, <1>12,
     <1>13, <1>14, <1>15, <1>16, <1>17

-----------------------------------------------------------------------------
\* The inductive invariant holds at first ...
LEMMA Initially == Plain /\ Init => IInv /\ HandlersMatchTasks
<1> SUFFICES ASSUME Plain, Init PROVE IInv /\ HandlersMatchTasks
  OBVIOUS
<1> USE Different, TaskQueueAssumption
<1>1. PlaceInv
  BY DEF Init, PlaceInv, Points
<1>2. RefInv /\ StopInv
  BY DEF Init, RefInv, StopInv, Holding, Ending
<1>3. MutexInv /\ FlagType
  BY DEF Init, MutexInv, FlagType
<1>4. TaskInv
  BY DEF Init, TaskInv, Fates, Tasks
<1>5. HandlersMatchTasks
  <2>1. {x \in Threads : pc[x] = "post"} = {}
    BY DEF Init
  <2>2. Cardinality({x \in Threads : pc[x] = "post"}) = 0
    BY <2>1, FS_EmptySet, Zenon
  <2>3. pc[Worker] = "run" /\ handlers = 0 /\ Len(tasks) = 0
    BY DEF Init
  <2> QED
    BY <2>2, <2>3 DEF HandlersMatchTasks
<1> QED
  BY <1>1, <1>2, <1>3, <1>4, <1>5 DEF IInv

\* ... and always.
LEMMA Invariance ==
  ASSUME Plain
  PROVE  Spec => [](IInv /\ HandlersMatchTasks)
<1>1. Init => IInv /\ HandlersMatchTasks
  BY Initially
<1>2. (IInv /\ HandlersMatchTasks) /\ [Next]_vars => (IInv /\ HandlersMatchTasks)'
  BY RefStep, StopInvStep, MutexStep, TaskStep, FlagStep, HandlersStep DEF IInv
<1> QED
  BY <1>1, <1>2, PTL DEF Spec

\* The types of the variables, for any clients and tasks.
THEOREM TypeCorrect ==
  ASSUME Plain
  PROVE  Spec => []TypeOK
<1>1. IInv => TypeOK
  BY DEF IInv, PlaceInv, RefInv, MutexInv, TaskInv, FlagType, TypeOK
<1> QED
  BY Invariance, <1>1, PTL

\* enqueue and __execute: each task of tasks_ has its handler, so none is stranded.
THEOREM HandlersMatchTasksAlways ==
  ASSUME Plain
  PROVE  Spec => []HandlersMatchTasks
  BY Invariance, PTL

\* tasks_mutex_: no two threads write tasks_ at once.
THEOREM TasksUnderMutexAlways ==
  ASSUME Plain
  PROVE  Spec => []TasksUnderMutex
<1>1. IInv => TasksUnderMutex
  BY DEF IInv, MutexInv, TasksUnderMutex
<1> QED
  BY Invariance, <1>1, PTL

\* ~task_queue: nobody is left inside a queue that is destroyed, whoever destroys it.
THEOREM NoUseAfterDestroyAlways ==
  ASSUME Plain
  PROVE  Spec => []NoUseAfterDestroy
<1>1. ASSUME IInv PROVE NoUseAfterDestroy
  <2>1. pc[Worker] \notin {"bad_weak_ptr", "self_join"}
    BY <1>1 DEF IInv, PlaceInv
  <2>2. ASSUME destroyed, NEW x \in Threads PROVE pc[x] \in {"idle", "exited", "returned"}
    <3>1. refs = {} /\ pc[x] \notin Ending /\ pc[Worker] = "exited"
      BY <1>1, <2>2 DEF IInv, RefInv, StopInv, exited
    <3> QED
      BY <1>1, <3>1, Different DEF IInv, PlaceInv, RefInv, Holding, Ending, Threads
  <2> QED
    BY <2>1, <2>2 DEF NoUseAfterDestroy
<1> QED
  BY Invariance, <1>1, PTL

\* shutdown: when it returns nothing can be executed any more.
THEOREM ShutdownStopsExecutionAlways ==
  ASSUME Plain
  PROVE  Spec => []ShutdownStopsExecution
<1>1. IInv => ShutdownStopsExecution
  BY DEF IInv, StopInv, exited, ShutdownStopsExecution
<1> QED
  BY Invariance, <1>1, PTL

-----------------------------------------------------------------------------
\* Every step of the queue is a step of the executor, or changes nothing it knows of.
LEMMA ExecutorStep ==
  ASSUME Plain, IInv, [Next]_vars
  PROVE  [Executor!Next]_Executor!vars
<1> USE Different DEF IInv, PlaceInv, GoTo, Executor!vars
<1> DEFINE same == UNCHANGED <<tasks, current, fate>> /\ ((pc'[Worker] = "exited") <=> (pc[Worker] = "exited"))
<1>1. CASE UNCHANGED vars
  BY <1>1 DEF vars
<1>2. ASSUME NEW c \in Clients, GetTaskQueue(c) PROVE same
  BY <1>2 DEF GetTaskQueue
<1>3. ASSUME NEW c \in Clients, BeginEmplace(c) PROVE same
  BY <1>3 DEF BeginEmplace
<1>4. ASSUME NEW c \in Clients, EndEmplace(c) PROVE Executor!Next
  <2>1. mine[c] \in Tasks /\ Executor!Accept(mine[c])
    BY <1>4 DEF EndEmplace, TaskInv, Executor!Accept
  <2> QED
    BY <2>1 DEF Executor!Next
<1>5. ASSUME NEW c \in Clients, Post(c) PROVE same
  BY <1>5 DEF Post
<1>6. ASSUME NEW c \in Clients, DropRef(c) PROVE same
  BY <1>6 DEF DropRef
<1>7. ASSUME NEW c \in Clients, PostAgain(c) PROVE same
  BY <1>7 DEF PostAgain
<1>8. ASSUME NEW x \in Clients \cup {Manager}, Stop(x) PROVE same
  BY <1>8 DEF Stop
<1>9. ASSUME NEW x \in Clients \cup {Manager}, Join(x) PROVE same
  BY <1>9 DEF Join
<1>10. ASSUME NEW x \in Clients \cup {Manager}, Destroy(x) PROVE Executor!Next
  <2>1. pc[Worker] = "exited" /\ pc'[Worker] = "exited" /\ current = None
    BY <1>10 DEF Destroy, StopInv, exited, TaskInv
  <2> QED
    BY <1>10, <2>1 DEF Destroy, AbandonTasks, Executor!Next, Executor!Discard
<1>11. CASE Dispatch
  BY <1>11 DEF Dispatch
<1>12. CASE Execute
  <2>1. CASE tasks = << >>
    BY <1>12, <2>1 DEF Execute
  <2>2. CASE tasks # << >>
    <3>1. pc[Worker] = "execute" /\ current = None /\ pc'[Worker] = "task"
      BY <1>12, <2>2 DEF Execute, TaskInv
    <3> QED
      BY <1>12, <2>2, <3>1 DEF Execute, Executor!Next, Executor!Start
  <2> QED
    BY <2>1, <2>2
<1>13. CASE FinishTask
  BY <1>13 DEF FinishTask, TaskInv, Executor!Next, Executor!Finish
<1>14. CASE Exit
  BY <1>14 DEF Exit, AbandonTasks, TaskInv, Executor!Next, Executor!Discard
<1>15. CASE Shutdown
  BY <1>15 DEF Shutdown
<1>16. CASE ReleaseQueue
  BY <1>16 DEF ReleaseQueue
<1>17. CASE ClearMap
  BY <1>17 DEF ClearMap
<1> QED
  BY Steps, <1>1, <1>2, <1>3, <1>4, <1>5, <1>6, <1>7, <1>8, <1>9, <1>10, <1>11, <1>12,
     <1>13, <1>14, <1>15, <1>16, <1>17

\* The queue implements the serial executor: tasks run one at a time in the order of
\* their emplacement, and are abandoned only once nothing runs any more.
THEOREM ServesInOrderAlways ==
  ASSUME Plain
  PROVE  Spec => ServesInOrder
<1>1. Init => Executor!Init
  BY Different DEF Init, Executor!Init
<1>2. IInv /\ [Next]_vars => [Executor!Next]_Executor!vars
  BY ExecutorStep
<1> QED
  BY Invariance, <1>1, <1>2, PTL DEF Spec, ServesInOrder, Executor!Spec
=============================================================================
