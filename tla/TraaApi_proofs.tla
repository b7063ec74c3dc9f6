--------------------------- MODULE TraaApi_proofs ---------------------------
(***************************************************************************)
(* Proofs about TraaApi, for any number of threads and calls: what the     *)
(* public calls leave behind, whoever makes them and in whatever order.    *)
(***************************************************************************)
EXTENDS TraaApi, FiniteSetTheorems, TLAPS

\* TypeOK but for who holds lock_, and the calls that may yet make a queue.
Type == /\ disciplined \in BOOLEAN
        /\ lock \in Callers \union {None}
        /\ map \in Queues \union {None}
        /\ made \in Nat
        /\ queue \in [Queues -> QueueType]
        /\ pc \in [Callers -> Points]
        /\ call \in [Callers -> Calls \union {"none"}]
        /\ reg \in [Callers -> Queues \union {None}]
        /\ answer \in [Callers -> {"none", "pending", "ok", "abandoned", "invalid"}]
        /\ calls \in 0 .. MaxCalls
        /\ standing \in [Callers -> {"no", "trying", "yes"}]

\* Every queue is made by a call of its own, which has begun.
Making == {c \in Callers : pc[c] \in {"exists", "create"}}
Counted == made + Cardinality(Making) <= calls

\* Who refers to a queue where, and that nobody else does once the destructor runs.
Refs == /\ map # None => map <= made
        /\ \A c \in Callers : reg[c] # None => reg[c] <= made
        /\ \A c \in Callers : reg[c] # None <=>
             pc[c] \in {"enqueue", "drop", "dtor", "dtor_join", "destroy"}
        /\ \A c \in Callers : pc[c] \in {"dtor", "dtor_join", "destroy"} =>
             ~HeldBeside(reg[c], c)

\* Who holds lock_, and that the queue being shut down stays in the map.
Locking == /\ lock # None => pc[lock] \in LockedPoints
           /\ \A c \in Callers : pc[c] \in {"stop", "join", "clear", "unlock"} => lock = c
           /\ \A c \in Callers : pc[c] \in {"stop", "join", "clear"} => map # None

\* How far a queue is on its way from being made to the end of its thread.
Life == /\ \A q \in Queues : q > made => queue[q] = Fresh
        /\ \A q \in Queues : queue[q].exited => /\ queue[q].stopped /\ ~queue[q].engine
                                                /\ queue[q].running = None
        /\ \A q \in Queues : queue[q].stopped /\ map # q =>
             queue[q].exited \/ \E c \in Callers : pc[c] = "dtor_join" /\ reg[c] = q
        /\ \A c \in Callers : pc[c] = "clear" => queue[map].exited
        /\ \A c \in Callers : pc[c] = "destroy" => queue[reg[c]].exited

IInv == Type /\ Counted /\ Refs /\ Locking /\ Life /\ MainQueueRuns /\ NoOrphanQueue

\* Caller c has posted a task to queue q that has not been answered.
InQueue(c, q) == \/ queue[q].running = c
                 \/ \E i \in DOMAIN queue[q].tasks : queue[q].tasks[i] = c

\* What a call has come to.
Called ==
  /\ \A c \in Callers : pc[c] = "idle" <=> call[c] = "none"
  /\ \A c \in Callers : pc[c] \in {"idle", "exists", "create", "lookup", "shutdown"} =>
       answer[c] = "none"
  /\ \A c \in Callers : call[c] = "release" =>
       (pc[c] = "shutdown" \/ lock = c) /\ answer[c] = "none"
  /\ \A c \in Callers : pc[c] = "enqueue" => answer[c] = "pending"
  /\ \A c \in Callers : pc[c] = "release_queue" \/ lock = c => answer[c] # "pending"

\* A task is in one place.
Once ==
  /\ \A c \in Callers, p, q \in Queues : InQueue(c, p) /\ InQueue(c, q) => p = q
  /\ \A q \in Queues : \A i \in DOMAIN queue[q].tasks : queue[q].tasks[i] # queue[q].running
  /\ \A q \in Queues : \A i, j \in DOMAIN queue[q].tasks :
       queue[q].tasks[i] = queue[q].tasks[j] => i = j

\* Its poster waits for the answer.
Waiting == \A c \in Callers, q \in Queues : InQueue(c, q) =>
             answer[c] = "pending" /\ pc[c] \in {"drop", "get", "dtor", "dtor_join", "destroy"}

Posted == Called /\ Once /\ Waiting

\* An application that keeps to the discipline is alone in traa_release, ...
Quiet == \A c, d \in Callers : call[c] = "release" /\ c # d => pc[d] = "idle"

\* ... which alone takes lock_ and brings destructors, ...
Releasing ==
  \A c \in Callers :
    (lock = c \/ pc[c] \in {"shutdown", "stop", "join", "clear", "unlock", "dtor", "dtor_join",
                            "destroy"}) => call[c] = "release"

\* ... and its other calls have to do with the queue in the map and no other, ...
AtMap == /\ \A c \in Callers : call[c] # "release" /\ reg[c] # None => reg[c] = map
         /\ \A c \in Callers, q \in Queues : InQueue(c, q) => q = map

\* ... which answers them.
Answered == \A c \in Callers : /\ pc[c] # "release_queue"
                               /\ answer[c] \notin {"invalid", "abandoned"}
                               /\ pc[c] = "get" => answer[c] # "none"

\* What it has been told of stands.
Stands ==
  /\ \A c \in Callers : call[c] = "use" => standing[c] = "yes"
  /\ \A c \in Callers : standing[c] # "no" => \A d \in Callers : call[d] # "release"
  /\ \A c \in Callers : standing[c] = "yes" => map # None /\ queue[map].engine
  /\ \A c \in Callers : call[c] = "init" /\ pc[c] \notin {"exists", "create"} => map # None
  /\ \A c \in Callers : call[c] = "init" /\ answer[c] = "ok" => queue[map].engine

Orderly == disciplined => Quiet /\ Releasing /\ AtMap /\ Answered /\ Stands

-----------------------------------------------------------------------------
\* Every step is one of these.
LEMMA Steps ==
  ASSUME [Next]_vars
  PROVE  \/ UNCHANGED vars
         \/ \E c \in Callers : traa_init(c) \/ traa_release(c) \/ traa_use(c)
         \/ \E c \in Callers :
              \/ Exists(c) \/ CreateQueue(c) \/ GetTaskQueue(c) \/ Enqueue(c) \/ DropRef(c)
              \/ Get(c) \/ Shutdown(c) \/ StopQueue(c) \/ JoinQueue(c) \/ ClearMap(c)
              \/ ReleaseQueue(c) \/ Unlock(c) \/ Destructor(c) \/ DestructorJoin(c) \/ Destroy(c)
         \/ \E q \in Queues : StartTask(q) \/ FinishTask(q) \/ Exit(q)
  BY DEF Next, CallStep, QueueStep

\* None is neither a queue nor a thread.
LEMMA NoneDiffers == None \notin Queues /\ None \notin Callers /\ Queues \subseteq Nat
  BY TraaApiAssumption DEF Queues

\* The queue that a thread is about to make is one of those counted.
LEMMA RoomForQueue ==
  ASSUME Type, Counted, NEW c \in Callers, pc[c] \in {"exists", "create"}
  PROVE  made + 1 \in Queues
<1>1. IsFiniteSet(Making)
  BY TraaApiAssumption, FS_Subset DEF Making
<1>2. c \in Making
  BY DEF Making
<1>3. Cardinality(Making) \in Nat /\ Cardinality(Making) # 0
  BY <1>1, <1>2, FS_CardinalityType, FS_EmptySet
<1> QED
  BY <1>3, TraaApiAssumption DEF Type, Counted, Queues

\* What a queue consists of.
LEMMA QueueParts ==
  ASSUME Type, NEW q \in Queues
  PROVE  /\ queue[q] \in QueueType
         /\ queue[q].tasks \in Seq(Callers) /\ queue[q].running \in Callers \union {None}
         /\ queue[q].engine \in BOOLEAN
<1>1. queue[q] \in QueueType
  BY DEF Type
<1> QED
  BY <1>1 DEF QueueType

\* What the queues look like when the tasks of one change, and something else.
LEMMA QueueChanges ==
  ASSUME Type, NEW q \in Queues
  PROVE  /\ \A s \in Seq(Callers) :
              /\ [queue EXCEPT ![q].tasks = s] \in [Queues -> QueueType]
              /\ [queue EXCEPT ![q].tasks = s, ![q].exited = TRUE, ![q].engine = FALSE]
                   \in [Queues -> QueueType]
         /\ \A s \in Seq(Callers), r \in Callers \union {None} :
              [queue EXCEPT ![q].running = r, ![q].tasks = s] \in [Queues -> QueueType]
         /\ \A r \in Callers \union {None}, e \in BOOLEAN :
              [queue EXCEPT ![q].running = r, ![q].engine = e] \in [Queues -> QueueType]
<1>1. queue[q] \in QueueType /\ queue \in [Queues -> QueueType]
  BY DEF Type
<1>2. ASSUME NEW s \in Seq(Callers)
      PROVE  /\ [queue EXCEPT ![q].tasks = s] \in [Queues -> QueueType]
             /\ [queue EXCEPT ![q].tasks = s, ![q].exited = TRUE, ![q].engine = FALSE]
                  \in [Queues -> QueueType]
  BY <1>1 DEF QueueType
<1>3. ASSUME NEW s \in Seq(Callers), NEW r \in Callers \union {None}
      PROVE  [queue EXCEPT ![q].running = r, ![q].tasks = s] \in [Queues -> QueueType]
  BY <1>1 DEF QueueType
<1>4. ASSUME NEW r \in Callers \union {None}, NEW e \in BOOLEAN
      PROVE  [queue EXCEPT ![q].running = r, ![q].engine = e] \in [Queues -> QueueType]
  BY <1>1 DEF QueueType
<1> QED
  BY <1>2, <1>3, <1>4

\* The types in every step.
LEMMA TypeStep ==
  ASSUME Type, Counted, Refs, Locking, [Next]_vars
  PROVE  Type'
<1> USE NoneDiffers DEF Type, Points, Calls
<1>1. CASE UNCHANGED vars
  BY <1>1 DEF vars
<1>2. ASSUME NEW c \in Callers, traa_init(c) PROVE Type'
  BY <1>2, TraaApiAssumption DEF traa_init, Begin, MayCall, GoTo
<1>3. ASSUME NEW c \in Callers, traa_release(c) PROVE Type'
  BY <1>3, TraaApiAssumption DEF traa_release, Begin, MayCall, GoTo
<1>4. ASSUME NEW c \in Callers, traa_use(c) PROVE Type'
  BY <1>4, TraaApiAssumption DEF traa_use, Begin, MayCall, GoTo
<1>5. ASSUME NEW c \in Callers, Exists(c) PROVE Type'
  BY <1>5 DEF Exists, GoTo
<1>6. ASSUME NEW c \in Callers, CreateQueue(c) PROVE Type'
  BY <1>6, RoomForQueue DEF CreateQueue, GoTo
<1>7. ASSUME NEW c \in Callers, GetTaskQueue(c) PROVE Type'
  BY <1>7 DEF GetTaskQueue, GoTo
<1>8. ASSUME NEW c \in Callers, Enqueue(c) PROVE Type'
  <2>1. reg[c] \in Queues
    BY <1>8 DEF Enqueue, Refs
  <2>2. Append(queue[reg[c]].tasks, c) \in Seq(Callers)
    <3>1. queue[reg[c]].tasks \in Seq(Callers)
      BY <2>1, QueueParts
    <3> QED
      BY <3>1
  <2>3. queue' = [queue EXCEPT ![reg[c]].tasks = Append(queue[reg[c]].tasks, c)]
    BY <1>8, Zenon DEF Enqueue
  <2>4. queue' \in [Queues -> QueueType]
    <3> DEFINE s == Append(queue[reg[c]].tasks, c)
    <3> HIDE DEF s
    <3> QED
      BY <2>1, <2>2, <2>3, QueueChanges DEF s
  <2> QED
    BY <1>8, <2>4 DEF Enqueue, GoTo
<1>9. ASSUME NEW c \in Callers, DropRef(c) PROVE Type'
  BY <1>9 DEF DropRef, AfterDrop, GoTo
<1>10. ASSUME NEW c \in Callers, Get(c) PROVE Type'
  BY <1>10 DEF Get, Return, GoTo
<1>11. ASSUME NEW c \in Callers, Shutdown(c) PROVE Type'
  BY <1>11 DEF Shutdown, GoTo
<1>12. ASSUME NEW c \in Callers, StopQueue(c) PROVE Type'
  BY <1>12, ZenonT(30) DEF StopQueue, GoTo, QueueType, Locking
<1>13. ASSUME NEW c \in Callers, JoinQueue(c) PROVE Type'
  BY <1>13 DEF JoinQueue, GoTo
<1>14. ASSUME NEW c \in Callers, ClearMap(c) PROVE Type'
  BY <1>14 DEF ClearMap, Erase, GoTo
<1>15. ASSUME NEW c \in Callers, ReleaseQueue(c) PROVE Type'
  BY <1>15 DEF ReleaseQueue, Erase, GoTo
<1>16. ASSUME NEW c \in Callers, Unlock(c) PROVE Type'
  BY <1>16 DEF Unlock, Return, GoTo
<1>17. ASSUME NEW c \in Callers, Destructor(c) PROVE Type'
  BY <1>17, ZenonT(30) DEF Destructor, GoTo, QueueType, Refs
<1>18. ASSUME NEW c \in Callers, DestructorJoin(c) PROVE Type'
  BY <1>18 DEF DestructorJoin, GoTo
<1>19. ASSUME NEW c \in Callers, Destroy(c) PROVE Type'
  <2>1. reg[c] \in Queues /\ << >> \in Seq(Callers)
    BY <1>19 DEF Destroy, Refs
  <2>2. queue' = [queue EXCEPT ![reg[c]].tasks = << >>]
    BY <1>19, Zenon DEF Destroy
  <2>3. queue' \in [Queues -> QueueType]
    BY <2>1, <2>2, QueueChanges, Zenon
  <2> QED
    BY <1>19, <2>3 DEF Destroy, AfterDrop, GoTo, Abandon
<1>20. ASSUME NEW q \in Queues, StartTask(q) PROVE Type'
  <2> DEFINE r == Head(queue[q].tasks)
             s == Tail(queue[q].tasks)
  <2>1. r \in Callers \union {None} /\ s \in Seq(Callers)
    <3>1. queue[q].tasks \in Seq(Callers) /\ queue[q].tasks # << >>
      BY <1>20, QueueParts DEF StartTask
    <3> QED
      BY <3>1
  <2>2. queue' = [queue EXCEPT ![q].running = r, ![q].tasks = s]
    BY <1>20 DEF StartTask
  <2>3. queue' \in [Queues -> QueueType]
    <3> HIDE DEF r, s
    <3> QED
      BY <2>1, <2>2, QueueChanges, Zenon
  <2> QED
    BY <1>20, <2>3 DEF StartTask
<1>21. ASSUME NEW q \in Queues, FinishTask(q) PROVE Type'
  <2> DEFINE e == queue[q].engine \/ call[queue[q].running] = "init"
  <2>1. e \in BOOLEAN
    BY QueueParts, Zenon
  <2>2. queue' = [queue EXCEPT ![q].running = None, ![q].engine = e]
    BY <1>21, Zenon DEF FinishTask
  <2>3. queue' \in [Queues -> QueueType]
    <3>1. None \in Callers \union {None}
      OBVIOUS
    <3> HIDE DEF e
    <3> QED
      BY <2>1, <2>2, <3>1, QueueChanges, Zenon
  <2> QED
    BY <1>21, <2>3, QueueParts DEF FinishTask
<1>22. ASSUME NEW q \in Queues, Exit(q) PROVE Type'
  <2>1. queue' = [queue EXCEPT ![q].tasks = << >>, ![q].exited = TRUE, ![q].engine = FALSE]
    BY <1>22, Zenon DEF Exit
  <2>2. << >> \in Seq(Callers)
    OBVIOUS
  <2>3. queue' \in [Queues -> QueueType]
    BY <2>1, <2>2, QueueChanges, Zenon
  <2> QED
    BY <1>22, <2>3 DEF Exit, Abandon
<1> QED
  BY Steps, <1>1, <1>2, <1>3, <1>4, <1>5, <1>6, <1>7, <1>8, <1>9, <1>10, <1>11,
     <1>12, <1>13, <1>14, <1>15, <1>16, <1>17, <1>18, <1>19, <1>20, <1>21, <1>22

\* How many calls may yet make a queue, when one begins to or has decided.
LEMMA MakingCounts ==
  ASSUME NEW c \in Callers
  PROVE  /\ Cardinality(Making) \in Nat
         /\ c \notin Making => Cardinality(Making \union {c}) = Cardinality(Making) + 1
         /\ c \in Making => Cardinality(Making \ {c}) = Cardinality(Making) - 1
<1>1. IsFiniteSet(Making)
  BY TraaApiAssumption, FS_Subset DEF Making
<1> QED
  BY <1>1, FS_CardinalityType, FS_AddElement, FS_RemoveElement

\* The queues made and to be made in every step.
LEMMA CountStep ==
  ASSUME Type, Counted, [Next]_vars
  PROVE  Counted'
<1> USE DEF Type, Counted
<1>1. CASE UNCHANGED vars
  BY <1>1 DEF vars, Making
<1>2. ASSUME NEW c \in Callers, traa_init(c) PROVE Counted'
  <2>1. Making' = Making \union {c} /\ c \notin Making
    BY <1>2 DEF traa_init, Begin, MayCall, GoTo, Making
  <2> QED
    BY <1>2, <2>1, MakingCounts DEF traa_init, Begin
<1>3. ASSUME NEW c \in Callers, traa_release(c) PROVE Counted'
  <2>1. Making' = Making
    BY <1>3 DEF traa_release, Begin, MayCall, GoTo, Making
  <2> QED
    <3>1. Cardinality(Making') = Cardinality(Making) /\ Cardinality(Making) \in Nat
      BY <2>1, MakingCounts
    <3>2. made' = made /\ calls' = calls + 1 /\ calls \in Nat
      BY <1>3, TraaApiAssumption DEF traa_release, Begin
    <3> QED
      BY <3>1, <3>2
<1>4. ASSUME NEW c \in Callers, traa_use(c) PROVE Counted'
  <2>1. Making' = Making
    BY <1>4 DEF traa_use, Begin, MayCall, GoTo, Making
  <2> QED
    <3>1. Cardinality(Making') = Cardinality(Making) /\ Cardinality(Making) \in Nat
      BY <2>1, MakingCounts
    <3>2. made' = made /\ calls' = calls + 1 /\ calls \in Nat
      BY <1>4, TraaApiAssumption DEF traa_use, Begin
    <3> QED
      BY <3>1, <3>2
<1>5. ASSUME NEW c \in Callers, Exists(c) PROVE Counted'
  <2>1. c \in Making
    BY <1>5 DEF Exists, Making
  <2>2. Making' = Making \/ Making' = Making \ {c}
    BY <1>5 DEF Exists, GoTo, Making
  <2> QED
    BY <1>5, <2>1, <2>2, MakingCounts DEF Exists
<1>6. ASSUME NEW c \in Callers, CreateQueue(c) PROVE Counted'
  <2>1. c \in Making /\ Making' = Making \ {c}
    BY <1>6 DEF CreateQueue, GoTo, Making
  <2> QED
    BY <1>6, <2>1, MakingCounts DEF CreateQueue
<1>7. ASSUME NEW c \in Callers, GetTaskQueue(c) PROVE Counted'
  <2>1. Making' = Making
    BY <1>7 DEF GetTaskQueue, GoTo, Making
  <2> QED
    BY <1>7, <2>1 DEF GetTaskQueue, GoTo
<1>8. ASSUME NEW c \in Callers, Enqueue(c) PROVE Counted'
  <2>1. Making' = Making
    BY <1>8 DEF Enqueue, GoTo, Making
  <2> QED
    BY <1>8, <2>1 DEF Enqueue, GoTo
<1>9. ASSUME NEW c \in Callers, DropRef(c) PROVE Counted'
  <2>1. Making' = Making
    BY <1>9 DEF DropRef, AfterDrop, GoTo, Making
  <2> QED
    BY <1>9, <2>1 DEF DropRef, AfterDrop, GoTo
<1>10. ASSUME NEW c \in Callers, Get(c) PROVE Counted'
  <2>1. Making' = Making
    BY <1>10 DEF Get, Return, GoTo, Making
  <2> QED
    BY <1>10, <2>1 DEF Get, Return, GoTo
<1>11. ASSUME NEW c \in Callers, Shutdown(c) PROVE Counted'
  <2>1. Making' = Making
    BY <1>11 DEF Shutdown, GoTo, Making
  <2> QED
    BY <1>11, <2>1 DEF Shutdown, GoTo
<1>12. ASSUME NEW c \in Callers, StopQueue(c) PROVE Counted'
  <2>1. Making' = Making
    BY <1>12 DEF StopQueue, GoTo, Making
  <2> QED
    BY <1>12, <2>1 DEF StopQueue, GoTo
<1>13. ASSUME NEW c \in Callers, JoinQueue(c) PROVE Counted'
  <2>1. Making' = Making
    BY <1>13 DEF JoinQueue, GoTo, Making
  <2> QED
    BY <1>13, <2>1 DEF JoinQueue, GoTo
<1>14. ASSUME NEW c \in Callers, ClearMap(c) PROVE Counted'
  <2>1. Making' = Making
    BY <1>14 DEF ClearMap, Erase, GoTo, Making
  <2> QED
    BY <1>14, <2>1 DEF ClearMap, Erase, GoTo
<1>15. ASSUME NEW c \in Callers, ReleaseQueue(c) PROVE Counted'
  <2>1. Making' = Making
    BY <1>15 DEF ReleaseQueue, Erase, GoTo, Making
  <2> QED
    BY <1>15, <2>1 DEF ReleaseQueue, Erase, GoTo
<1>16. ASSUME NEW c \in Callers, Unlock(c) PROVE Counted'
  <2>1. Making' = Making
    BY <1>16 DEF Unlock, Return, GoTo, Making
  <2> QED
    BY <1>16, <2>1 DEF Unlock, Return, GoTo
<1>17. ASSUME NEW c \in Callers, Destructor(c) PROVE Counted'
  <2>1. Making' = Making
    BY <1>17 DEF Destructor, GoTo, Making
  <2> QED
    BY <1>17, <2>1 DEF Destructor, GoTo
<1>18. ASSUME NEW c \in Callers, DestructorJoin(c) PROVE Counted'
  <2>1. Making' = Making
    BY <1>18 DEF DestructorJoin, GoTo, Making
  <2> QED
    BY <1>18, <2>1 DEF DestructorJoin, GoTo
<1>19. ASSUME NEW c \in Callers, Destroy(c) PROVE Counted'
  <2>1. Making' = Making
    BY <1>19 DEF Destroy, AfterDrop, GoTo, Making
  <2> QED
    BY <1>19, <2>1 DEF Destroy, AfterDrop, GoTo
<1>20. ASSUME NEW q \in Queues, StartTask(q) PROVE Counted'
  BY <1>20 DEF StartTask, Making
<1>21. ASSUME NEW q \in Queues, FinishTask(q) PROVE Counted'
  BY <1>21 DEF FinishTask, Making
<1>22. ASSUME NEW q \in Queues, Exit(q) PROVE Counted'
  BY <1>22 DEF Exit, Making
<1> QED
  BY Steps, <1>1, <1>2, <1>3, <1>4, <1>5, <1>6, <1>7, <1>8, <1>9, <1>10, <1>11,
     <1>12, <1>13, <1>14, <1>15, <1>16, <1>17, <1>18, <1>19, <1>20, <1>21, <1>22

\* The references in every step.
LEMMA RefsStep ==
  ASSUME Type, Counted, Refs, Locking, [Next]_vars
  PROVE  Refs'
<1> USE NoneDiffers DEF Type, Refs, HeldBeside
<1>1. CASE UNCHANGED vars
  BY <1>1 DEF vars
<1>2. ASSUME NEW c \in Callers, traa_init(c) PROVE Refs'
  BY <1>2 DEF traa_init, Begin, MayCall, GoTo
<1>3. ASSUME NEW c \in Callers, traa_release(c) PROVE Refs'
  BY <1>3 DEF traa_release, Begin, MayCall, GoTo
<1>4. ASSUME NEW c \in Callers, traa_use(c) PROVE Refs'
  BY <1>4 DEF traa_use, Begin, MayCall, GoTo
<1>5. ASSUME NEW c \in Callers, Exists(c) PROVE Refs'
  BY <1>5 DEF Exists, GoTo
<1>6. ASSUME NEW c \in Callers, CreateQueue(c) PROVE Refs'
  <2>1. /\ map' \in Queues /\ made' \in Nat /\ map' <= made' /\ made <= made' /\ map' # None
        /\ map' = map \/ (map = None /\ map' = made + 1)
    BY <1>6, RoomForQueue DEF CreateQueue
  <2>2. reg' = [reg EXCEPT ![c] = map'] /\ pc' = [pc EXCEPT ![c] = "drop"] /\ reg[c] = None
    BY <1>6 DEF CreateQueue, GoTo
  <2>3. \A d \in Callers : reg'[d] # None => reg'[d] <= made'
    BY <2>1, <2>2, TraaApiAssumption DEF Queues
  <2>4. \A d \in Callers : reg'[d] # None <=>
          pc'[d] \in {"enqueue", "drop", "dtor", "dtor_join", "destroy"}
    BY <2>1, <2>2
  <2>5. ASSUME NEW d \in Callers, pc'[d] \in {"dtor", "dtor_join", "destroy"}
        PROVE  ~HeldBeside(reg[d], d)'
    <3>1. d # c /\ pc'[d] = pc[d] /\ reg'[d] = reg[d] /\ reg[d] # None
      BY <2>2, <2>5
    <3>2. map' # reg[d]
      BY <2>1, <2>5, <3>1, TraaApiAssumption DEF Queues
    <3> QED
      BY <2>2, <2>5, <3>1, <3>2
  <2> QED
    BY <2>1, <2>3, <2>4, <2>5
<1>7. ASSUME NEW c \in Callers, GetTaskQueue(c) PROVE Refs'
  BY <1>7 DEF GetTaskQueue, GoTo
<1>8. ASSUME NEW c \in Callers, Enqueue(c) PROVE Refs'
  BY <1>8 DEF Enqueue, GoTo
<1>9. ASSUME NEW c \in Callers, DropRef(c) PROVE Refs'
  BY <1>9 DEF DropRef, AfterDrop, GoTo
<1>10. ASSUME NEW c \in Callers, Get(c) PROVE Refs'
  BY <1>10 DEF Get, Return, GoTo
<1>11. ASSUME NEW c \in Callers, Shutdown(c) PROVE Refs'
  BY <1>11 DEF Shutdown, GoTo
<1>12. ASSUME NEW c \in Callers, StopQueue(c) PROVE Refs'
  BY <1>12 DEF StopQueue, GoTo
<1>13. ASSUME NEW c \in Callers, JoinQueue(c) PROVE Refs'
  BY <1>13 DEF JoinQueue, GoTo
<1>14. ASSUME NEW c \in Callers, ClearMap(c) PROVE Refs'
  BY <1>14 DEF ClearMap, Erase, GoTo, Locking
<1>15. ASSUME NEW c \in Callers, ReleaseQueue(c) PROVE Refs'
  BY <1>15 DEF ReleaseQueue, Erase, GoTo
<1>16. ASSUME NEW c \in Callers, Unlock(c) PROVE Refs'
  BY <1>16 DEF Unlock, Return, GoTo
<1>17. ASSUME NEW c \in Callers, Destructor(c) PROVE Refs'
  BY <1>17 DEF Destructor, GoTo
<1>18. ASSUME NEW c \in Callers, DestructorJoin(c) PROVE Refs'
  BY <1>18 DEF DestructorJoin, GoTo
<1>19. ASSUME NEW c \in Callers, Destroy(c) PROVE Refs'
  BY <1>19 DEF Destroy, AfterDrop, GoTo
<1>20. ASSUME NEW q \in Queues, StartTask(q) PROVE Refs'
  BY <1>20 DEF StartTask
<1>21. ASSUME NEW q \in Queues, FinishTask(q) PROVE Refs'
  BY <1>21 DEF FinishTask
<1>22. ASSUME NEW q \in Queues, Exit(q) PROVE Refs'
  BY <1>22 DEF Exit
<1> QED
  BY Steps, <1>1, <1>2, <1>3, <1>4, <1>5, <1>6, <1>7, <1>8, <1>9, <1>10, <1>11,
     <1>12, <1>13, <1>14, <1>15, <1>16, <1>17, <1>18, <1>19, <1>20, <1>21, <1>22

\* The lock in every step.
LEMMA LockingStep ==
  ASSUME Type, Refs, Locking, [Next]_vars
  PROVE  Locking'
<1> USE NoneDiffers DEF Type, Locking, LockedPoints
<1>1. CASE UNCHANGED vars
  BY <1>1 DEF vars
<1>2. ASSUME NEW c \in Callers, traa_init(c) PROVE Locking'
  BY <1>2 DEF traa_init, Begin, MayCall, GoTo
<1>3. ASSUME NEW c \in Callers, traa_release(c) PROVE Locking'
  BY <1>3 DEF traa_release, Begin, MayCall, GoTo
<1>4. ASSUME NEW c \in Callers, traa_use(c) PROVE Locking'
  BY <1>4 DEF traa_use, Begin, MayCall, GoTo
<1>5. ASSUME NEW c \in Callers, Exists(c) PROVE Locking'
  BY <1>5 DEF Exists, GoTo
<1>6. ASSUME NEW c \in Callers, CreateQueue(c) PROVE Locking'
  BY <1>6 DEF CreateQueue, GoTo
<1>7. ASSUME NEW c \in Callers, GetTaskQueue(c) PROVE Locking'
  BY <1>7 DEF GetTaskQueue, GoTo
<1>8. ASSUME NEW c \in Callers, Enqueue(c) PROVE Locking'
  BY <1>8 DEF Enqueue, GoTo
<1>9. ASSUME NEW c \in Callers, DropRef(c) PROVE Locking'
  BY <1>9 DEF DropRef, AfterDrop, GoTo
<1>10. ASSUME NEW c \in Callers, Get(c) PROVE Locking'
  BY <1>10 DEF Get, Return, GoTo
<1>11. ASSUME NEW c \in Callers, Shutdown(c) PROVE Locking'
  BY <1>11 DEF Shutdown, GoTo
<1>12. ASSUME NEW c \in Callers, StopQueue(c) PROVE Locking'
  BY <1>12 DEF StopQueue, GoTo
<1>13. ASSUME NEW c \in Callers, JoinQueue(c) PROVE Locking'
  BY <1>13 DEF JoinQueue, GoTo
<1>14. ASSUME NEW c \in Callers, ClearMap(c) PROVE Locking'
  BY <1>14 DEF ClearMap, Erase, GoTo
<1>15. ASSUME NEW c \in Callers, ReleaseQueue(c) PROVE Locking'
  BY <1>15 DEF ReleaseQueue, Erase, GoTo
<1>16. ASSUME NEW c \in Callers, Unlock(c) PROVE Locking'
  BY <1>16 DEF Unlock, Return, GoTo
<1>17. ASSUME NEW c \in Callers, Destructor(c) PROVE Locking'
  BY <1>17 DEF Destructor, GoTo
<1>18. ASSUME NEW c \in Callers, DestructorJoin(c) PROVE Locking'
  BY <1>18 DEF DestructorJoin, GoTo
<1>19. ASSUME NEW c \in Callers, Destroy(c) PROVE Locking'
  BY <1>19 DEF Destroy, AfterDrop, GoTo
<1>20. ASSUME NEW q \in Queues, StartTask(q) PROVE Locking'
  BY <1>20 DEF StartTask
<1>21. ASSUME NEW q \in Queues, FinishTask(q) PROVE Locking'
  BY <1>21 DEF FinishTask
<1>22. ASSUME NEW q \in Queues, Exit(q) PROVE Locking'
  BY <1>22 DEF Exit
<1> QED
  BY Steps, <1>1, <1>2, <1>3, <1>4, <1>5, <1>6, <1>7, <1>8, <1>9, <1>10, <1>11,
     <1>12, <1>13, <1>14, <1>15, <1>16, <1>17, <1>18, <1>19, <1>20, <1>21, <1>22

\* How the queues fare in every step.
LEMMA LifeStep ==
  ASSUME Type, Type', Refs, Refs', Locking, Life, MainQueueRuns, [Next]_vars, Counted
  PROVE  Life'
<1> USE NoneDiffers DEF Type, Refs, Locking, Life
<1>1. CASE UNCHANGED vars
  BY <1>1, ZenonT(30) DEF vars
<1>2. ASSUME NEW c \in Callers, traa_init(c) PROVE Life'
  BY <1>2 DEF traa_init, Begin, MayCall, GoTo
<1>3. ASSUME NEW c \in Callers, traa_release(c) PROVE Life'
  BY <1>3 DEF traa_release, Begin, MayCall, GoTo
<1>4. ASSUME NEW c \in Callers, traa_use(c) PROVE Life'
  BY <1>4 DEF traa_use, Begin, MayCall, GoTo
<1>5. ASSUME NEW c \in Callers, Exists(c) PROVE Life'
  <2>1. UNCHANGED <<lock, map, made, queue, reg>>
    BY <1>5 DEF Exists
  <2>2. \A d \in Callers : pc'[d] = pc[d] \/ (d = c /\ pc'[d] \in {"create", "lookup"})
    BY <1>5 DEF Exists, GoTo
  <2>3. pc[c] = "exists"
    BY <1>5 DEF Exists
  <2> QED
    BY <2>1, <2>2, <2>3
<1>6. ASSUME NEW c \in Callers, CreateQueue(c) PROVE Life'
  BY <1>6, RoomForQueue DEF CreateQueue, GoTo
<1>7. ASSUME NEW c \in Callers, GetTaskQueue(c) PROVE Life'
  BY <1>7 DEF GetTaskQueue, GoTo
<1>8. ASSUME NEW c \in Callers, Enqueue(c) PROVE Life'
  BY <1>8 DEF Enqueue, GoTo
<1>9. ASSUME NEW c \in Callers, DropRef(c) PROVE Life'
  BY <1>9 DEF DropRef, AfterDrop, GoTo
<1>10. ASSUME NEW c \in Callers, Get(c) PROVE Life'
  BY <1>10 DEF Get, Return, GoTo
<1>11. ASSUME NEW c \in Callers, Shutdown(c) PROVE Life'
  BY <1>11 DEF Shutdown, GoTo
<1>12. ASSUME NEW c \in Callers, StopQueue(c) PROVE Life'
  BY <1>12 DEF StopQueue, GoTo
<1>13. ASSUME NEW c \in Callers, JoinQueue(c) PROVE Life'
  BY <1>13 DEF JoinQueue, GoTo
<1>14. ASSUME NEW c \in Callers, ClearMap(c) PROVE Life'
  BY <1>14 DEF ClearMap, Erase, GoTo
<1>15. ASSUME NEW c \in Callers, ReleaseQueue(c) PROVE Life'
  BY <1>15 DEF ReleaseQueue, Erase, GoTo, MainQueueRuns
<1>16. ASSUME NEW c \in Callers, Unlock(c) PROVE Life'
  BY <1>16 DEF Unlock, Return, GoTo
<1>17. ASSUME NEW c \in Callers, Destructor(c) PROVE Life'
  BY <1>17 DEF Destructor, GoTo, HeldBeside
<1>18. ASSUME NEW c \in Callers, DestructorJoin(c) PROVE Life'
  BY <1>18 DEF DestructorJoin, GoTo
<1>19. ASSUME NEW c \in Callers, Destroy(c) PROVE Life'
  BY <1>19 DEF Destroy, AfterDrop, GoTo
<1>20. ASSUME NEW q \in Queues, StartTask(q) PROVE Life'
  <2>1. /\ UNCHANGED <<lock, map, made, pc, reg>> /\ q <= made
        /\ \A p \in Queues : p # q => queue'[p] = queue[p]
        /\ ~queue[q].exited /\ ~queue'[q].exited /\ (queue'[q].stopped <=> queue[q].stopped)
    BY <1>20 DEF StartTask, Fresh
  <2>2. \A p \in Queues : p > made' => queue'[p] = Fresh
    BY <2>1
  <2>3. \A p \in Queues : queue'[p].exited => /\ queue'[p].stopped /\ ~queue'[p].engine
                                              /\ queue'[p].running = None
    BY <2>1
  <2>4. \A p \in Queues : queue'[p].stopped /\ map' # p =>
          queue'[p].exited \/ \E d \in Callers : pc'[d] = "dtor_join" /\ reg'[d] = p
    <3>1. ASSUME NEW p \in Queues, queue'[p].stopped, map' # p
          PROVE  queue'[p].exited \/ \E d \in Callers : pc'[d] = "dtor_join" /\ reg'[d] = p
      <4>1. (queue[p].stopped /\ map # p) \/ queue'[p].exited
        BY <2>1, <3>1
      <4>2. queue[p].exited => queue'[p].exited
        BY <2>1
      <4> QED
        BY <2>1, <4>1, <4>2
    <3> QED
      BY <3>1
  <2>5. \A d \in Callers : pc'[d] = "clear" => queue'[map'].exited
    BY <2>1
  <2>6. \A d \in Callers : pc'[d] = "destroy" => queue'[reg'[d]].exited
    <3>1. \A d \in Callers : pc[d] = "destroy" => reg[d] \in Queues /\ queue[reg[d]].exited
      OBVIOUS
    <3>2. \A p \in Queues : queue[p].exited => queue'[p].exited
      BY <2>1
    <3> QED
      BY <2>1, <3>1, <3>2
  <2> QED
    BY <2>2, <2>3, <2>4, <2>5, <2>6
<1>21. ASSUME NEW q \in Queues, FinishTask(q) PROVE Life'
  <2>1. /\ UNCHANGED <<lock, map, made, pc, reg>> /\ q <= made
        /\ \A p \in Queues : p # q => queue'[p] = queue[p]
        /\ ~queue[q].exited /\ ~queue'[q].exited /\ (queue'[q].stopped <=> queue[q].stopped)
    BY <1>21 DEF FinishTask, Fresh
  <2>2. \A p \in Queues : p > made' => queue'[p] = Fresh
    BY <2>1
  <2>3. \A p \in Queues : queue'[p].exited => /\ queue'[p].stopped /\ ~queue'[p].engine
                                              /\ queue'[p].running = None
    BY <2>1
  <2>4. \A p \in Queues : queue'[p].stopped /\ map' # p =>
          queue'[p].exited \/ \E d \in Callers : pc'[d] = "dtor_join" /\ reg'[d] = p
    <3>1. ASSUME NEW p \in Queues, queue'[p].stopped, map' # p
          PROVE  queue'[p].exited \/ \E d \in Callers : pc'[d] = "dtor_join" /\ reg'[d] = p
      <4>1. (queue[p].stopped /\ map # p) \/ queue'[p].exited
        BY <2>1, <3>1
      <4>2. queue[p].exited => queue'[p].exited
        BY <2>1
      <4> QED
        BY <2>1, <4>1, <4>2
    <3> QED
      BY <3>1
  <2>5. \A d \in Callers : pc'[d] = "clear" => queue'[map'].exited
    BY <2>1
  <2>6. \A d \in Callers : pc'[d] = "destroy" => queue'[reg'[d]].exited
    <3>1. \A d \in Callers : pc[d] = "destroy" => reg[d] \in Queues /\ queue[reg[d]].exited
      OBVIOUS
    <3>2. \A p \in Queues : queue[p].exited => queue'[p].exited
      BY <2>1
    <3> QED
      BY <2>1, <3>1, <3>2
  <2> QED
    BY <2>2, <2>3, <2>4, <2>5, <2>6
<1>22. ASSUME NEW q \in Queues, Exit(q) PROVE Life'
  <2>1. /\ UNCHANGED <<lock, map, made, pc, reg>> /\ q <= made
        /\ \A p \in Queues : p # q => queue'[p] = queue[p]
        /\ queue'[q].exited /\ queue'[q].stopped /\ ~queue'[q].engine /\ queue'[q].running = None
    BY <1>22 DEF Exit, Fresh
  <2>2. \A p \in Queues : p > made' => queue'[p] = Fresh
    BY <2>1
  <2>3. \A p \in Queues : queue'[p].exited => /\ queue'[p].stopped /\ ~queue'[p].engine
                                              /\ queue'[p].running = None
    BY <2>1
  <2>4. \A p \in Queues : queue'[p].stopped /\ map' # p =>
          queue'[p].exited \/ \E d \in Callers : pc'[d] = "dtor_join" /\ reg'[d] = p
    <3>1. ASSUME NEW p \in Queues, queue'[p].stopped, map' # p
          PROVE  queue'[p].exited \/ \E d \in Callers : pc'[d] = "dtor_join" /\ reg'[d] = p
      <4>1. (queue[p].stopped /\ map # p) \/ queue'[p].exited
        BY <2>1, <3>1
      <4>2. queue[p].exited => queue'[p].exited
        BY <2>1
      <4> QED
        BY <2>1, <4>1, <4>2
    <3> QED
      BY <3>1
  <2>5. \A d \in Callers : pc'[d] = "clear" => queue'[map'].exited
    BY <2>1
  <2>6. \A d \in Callers : pc'[d] = "destroy" => queue'[reg'[d]].exited
    <3>1. \A d \in Callers : pc[d] = "destroy" => reg[d] \in Queues /\ queue[reg[d]].exited
      OBVIOUS
    <3>2. \A p \in Queues : queue[p].exited => queue'[p].exited
      BY <2>1
    <3> QED
      BY <2>1, <3>1, <3>2
  <2> QED
    BY <2>2, <2>3, <2>4, <2>5, <2>6
<1> QED
  BY Steps, <1>1, <1>2, <1>3, <1>4, <1>5, <1>6, <1>7, <1>8, <1>9, <1>10, <1>11,
     <1>12, <1>13, <1>14, <1>15, <1>16, <1>17, <1>18, <1>19, <1>20, <1>21, <1>22

\* The main queue in every step.
LEMMA MainStep ==
  ASSUME Type, Refs, Locking, Life, MainQueueRuns, Counted, [Next]_vars
  PROVE  MainQueueRuns'
<1> USE NoneDiffers DEF Type, Locking, MainQueueRuns
<1>1. CASE UNCHANGED vars
  BY <1>1 DEF vars
<1>2. ASSUME NEW c \in Callers, traa_init(c) PROVE MainQueueRuns'
  BY <1>2 DEF traa_init, Begin, MayCall, GoTo
<1>3. ASSUME NEW c \in Callers, traa_release(c) PROVE MainQueueRuns'
  BY <1>3 DEF traa_release, Begin, MayCall, GoTo
<1>4. ASSUME NEW c \in Callers, traa_use(c) PROVE MainQueueRuns'
  BY <1>4 DEF traa_use, Begin, MayCall, GoTo
<1>5. ASSUME NEW c \in Callers, Exists(c) PROVE MainQueueRuns'
  BY <1>5 DEF Exists, GoTo
<1>6. ASSUME NEW c \in Callers, CreateQueue(c) PROVE MainQueueRuns'
  BY <1>6, RoomForQueue DEF CreateQueue, GoTo, Life, Fresh
<1>7. ASSUME NEW c \in Callers, GetTaskQueue(c) PROVE MainQueueRuns'
  BY <1>7 DEF GetTaskQueue, GoTo
<1>8. ASSUME NEW c \in Callers, Enqueue(c) PROVE MainQueueRuns'
  BY <1>8 DEF Enqueue, GoTo
<1>9. ASSUME NEW c \in Callers, DropRef(c) PROVE MainQueueRuns'
  BY <1>9 DEF DropRef, AfterDrop, GoTo
<1>10. ASSUME NEW c \in Callers, Get(c) PROVE MainQueueRuns'
  BY <1>10 DEF Get, Return, GoTo
<1>11. ASSUME NEW c \in Callers, Shutdown(c) PROVE MainQueueRuns'
  BY <1>11 DEF Shutdown, GoTo
<1>12. ASSUME NEW c \in Callers, StopQueue(c) PROVE MainQueueRuns'
  BY <1>12 DEF StopQueue, GoTo
<1>13. ASSUME NEW c \in Callers, JoinQueue(c) PROVE MainQueueRuns'
  BY <1>13 DEF JoinQueue, GoTo
<1>14. ASSUME NEW c \in Callers, ClearMap(c) PROVE MainQueueRuns'
  BY <1>14 DEF ClearMap, Erase, GoTo
<1>15. ASSUME NEW c \in Callers, ReleaseQueue(c) PROVE MainQueueRuns'
  BY <1>15 DEF ReleaseQueue, Erase, GoTo
<1>16. ASSUME NEW c \in Callers, Unlock(c) PROVE MainQueueRuns'
  BY <1>16 DEF Unlock, Return, GoTo
<1>17. ASSUME NEW c \in Callers, Destructor(c) PROVE MainQueueRuns'
  BY <1>17 DEF Destructor, GoTo, Refs, HeldBeside
<1>18. ASSUME NEW c \in Callers, DestructorJoin(c) PROVE MainQueueRuns'
  BY <1>18 DEF DestructorJoin, GoTo
<1>19. ASSUME NEW c \in Callers, Destroy(c) PROVE MainQueueRuns'
  BY <1>19 DEF Destroy, AfterDrop, GoTo
<1>20. ASSUME NEW q \in Queues, StartTask(q) PROVE MainQueueRuns'
  BY <1>20 DEF StartTask
<1>21. ASSUME NEW q \in Queues, FinishTask(q) PROVE MainQueueRuns'
  BY <1>21 DEF FinishTask
<1>22. ASSUME NEW q \in Queues, Exit(q) PROVE MainQueueRuns'
  BY <1>22 DEF Exit
<1> QED
  BY Steps, <1>1, <1>2, <1>3, <1>4, <1>5, <1>6, <1>7, <1>8, <1>9, <1>10, <1>11,
     <1>12, <1>13, <1>14, <1>15, <1>16, <1>17, <1>18, <1>19, <1>20, <1>21, <1>22

\* The queues that nobody refers to in every step.
LEMMA OrphanStep ==
  ASSUME Type, Refs, Locking, Life, NoOrphanQueue, Counted, [Next]_vars
  PROVE  NoOrphanQueue'
<1> USE NoneDiffers DEF Type, NoOrphanQueue
<1>1. CASE UNCHANGED vars
  BY <1>1 DEF vars
<1>2. ASSUME NEW c \in Callers, traa_init(c) PROVE NoOrphanQueue'
  BY <1>2 DEF traa_init, Begin, MayCall, GoTo
<1>3. ASSUME NEW c \in Callers, traa_release(c) PROVE NoOrphanQueue'
  BY <1>3 DEF traa_release, Begin, MayCall, GoTo
<1>4. ASSUME NEW c \in Callers, traa_use(c) PROVE NoOrphanQueue'
  BY <1>4 DEF traa_use, Begin, MayCall, GoTo
<1>5. ASSUME NEW c \in Callers, Exists(c) PROVE NoOrphanQueue'
  BY <1>5 DEF Exists, GoTo
<1>6. ASSUME NEW c \in Callers, CreateQueue(c) PROVE NoOrphanQueue'
  BY <1>6, RoomForQueue DEF CreateQueue, GoTo, Refs
<1>7. ASSUME NEW c \in Callers, GetTaskQueue(c) PROVE NoOrphanQueue'
  BY <1>7 DEF GetTaskQueue, GoTo, Refs
<1>8. ASSUME NEW c \in Callers, Enqueue(c) PROVE NoOrphanQueue'
  BY <1>8 DEF Enqueue, GoTo, Refs
<1>9. ASSUME NEW c \in Callers, DropRef(c) PROVE NoOrphanQueue'
  BY <1>9 DEF DropRef, AfterDrop, GoTo, HeldBeside
<1>10. ASSUME NEW c \in Callers, Get(c) PROVE NoOrphanQueue'
  BY <1>10 DEF Get, Return, GoTo
<1>11. ASSUME NEW c \in Callers, Shutdown(c) PROVE NoOrphanQueue'
  BY <1>11 DEF Shutdown, GoTo
<1>12. ASSUME NEW c \in Callers, StopQueue(c) PROVE NoOrphanQueue'
  BY <1>12 DEF StopQueue, GoTo, Locking
<1>13. ASSUME NEW c \in Callers, JoinQueue(c) PROVE NoOrphanQueue'
  BY <1>13 DEF JoinQueue, GoTo
<1>14. ASSUME NEW c \in Callers, ClearMap(c) PROVE NoOrphanQueue'
  BY <1>14 DEF ClearMap, Erase, GoTo, Refs
<1>15. ASSUME NEW c \in Callers, ReleaseQueue(c) PROVE NoOrphanQueue'
  BY <1>15 DEF ReleaseQueue, Erase, GoTo, Refs
<1>16. ASSUME NEW c \in Callers, Unlock(c) PROVE NoOrphanQueue'
  BY <1>16 DEF Unlock, Return, GoTo
<1>17. ASSUME NEW c \in Callers, Destructor(c) PROVE NoOrphanQueue'
  BY <1>17 DEF Destructor, GoTo, Refs
<1>18. ASSUME NEW c \in Callers, DestructorJoin(c) PROVE NoOrphanQueue'
  BY <1>18 DEF DestructorJoin, GoTo
<1>19. ASSUME NEW c \in Callers, Destroy(c) PROVE NoOrphanQueue'
  BY <1>19 DEF Destroy, AfterDrop, GoTo, Life
<1>20. ASSUME NEW q \in Queues, StartTask(q) PROVE NoOrphanQueue'
  BY <1>20 DEF StartTask
<1>21. ASSUME NEW q \in Queues, FinishTask(q) PROVE NoOrphanQueue'
  BY <1>21 DEF FinishTask, Life
<1>22. ASSUME NEW q \in Queues, Exit(q) PROVE NoOrphanQueue'
  BY <1>22 DEF Exit
<1> QED
  BY Steps, <1>1, <1>2, <1>3, <1>4, <1>5, <1>6, <1>7, <1>8, <1>9, <1>10, <1>11,
     <1>12, <1>13, <1>14, <1>15, <1>16, <1>17, <1>18, <1>19, <1>20, <1>21, <1>22

-----------------------------------------------------------------------------
\* The calls in every step.
LEMMA CalledStep ==
  ASSUME Type, Refs, Locking, Once, Waiting, Called, [Next]_vars
  PROVE  Called'
<1> USE NoneDiffers DEF Type, Locking, LockedPoints, Called
<1>1. CASE UNCHANGED vars
  BY <1>1 DEF vars
<1>2. ASSUME NEW c \in Callers, traa_init(c) PROVE Called'
  BY <1>2 DEF traa_init, Begin, MayCall, GoTo
<1>3. ASSUME NEW c \in Callers, traa_release(c) PROVE Called'
  BY <1>3 DEF traa_release, Begin, MayCall, GoTo
<1>4. ASSUME NEW c \in Callers, traa_use(c) PROVE Called'
  BY <1>4 DEF traa_use, Begin, MayCall, GoTo
<1>5. ASSUME NEW c \in Callers, Exists(c) PROVE Called'
  BY <1>5 DEF Exists, GoTo
<1>6. ASSUME NEW c \in Callers, CreateQueue(c) PROVE Called'
  BY <1>6 DEF CreateQueue, GoTo
<1>7. ASSUME NEW c \in Callers, GetTaskQueue(c) PROVE Called'
  BY <1>7 DEF GetTaskQueue, GoTo
<1>8. ASSUME NEW c \in Callers, Enqueue(c) PROVE Called'
  BY <1>8 DEF Enqueue, GoTo
<1>9. ASSUME NEW c \in Callers, DropRef(c) PROVE Called'
  BY <1>9 DEF DropRef, AfterDrop, GoTo
<1>10. ASSUME NEW c \in Callers, Get(c) PROVE Called'
  BY <1>10 DEF Get, Return, GoTo
<1>11. ASSUME NEW c \in Callers, Shutdown(c) PROVE Called'
  BY <1>11 DEF Shutdown, GoTo
<1>12. ASSUME NEW c \in Callers, StopQueue(c) PROVE Called'
  BY <1>12 DEF StopQueue, GoTo
<1>13. ASSUME NEW c \in Callers, JoinQueue(c) PROVE Called'
  BY <1>13 DEF JoinQueue, GoTo
<1>14. ASSUME NEW c \in Callers, ClearMap(c) PROVE Called'
  BY <1>14 DEF ClearMap, Erase, GoTo
<1>15. ASSUME NEW c \in Callers, ReleaseQueue(c) PROVE Called'
  BY <1>15 DEF ReleaseQueue, Erase, GoTo
<1>16. ASSUME NEW c \in Callers, Unlock(c) PROVE Called'
  BY <1>16 DEF Unlock, Return, GoTo
<1>17. ASSUME NEW c \in Callers, Destructor(c) PROVE Called'
  BY <1>17 DEF Destructor, GoTo
<1>18. ASSUME NEW c \in Callers, DestructorJoin(c) PROVE Called'
  BY <1>18 DEF DestructorJoin, GoTo
<1>19. ASSUME NEW c \in Callers, Destroy(c) PROVE Called'
  <2>1. /\ lock' = lock /\ call' = call /\ pc' = [pc EXCEPT ![c] = AfterDrop(c)]
        /\ pc[c] = "destroy" /\ reg[c] \in Queues
        /\ \A d \in Callers : answer'[d] = answer[d] \/ InQueue(d, reg[c])
    BY <1>19 DEF Destroy, Abandon, InQueue, GoTo, Refs
  <2>2. \A d \in Callers : answer'[d] = answer[d] \/ answer[d] = "pending"
    BY <2>1 DEF Waiting
  <2>3. /\ pc'[c] = IF lock = c THEN "unlock" ELSE IF answer[c] = "none" THEN "lookup" ELSE "get"
        /\ \A d \in Callers : d # c => pc'[d] = pc[d]
    BY <2>1 DEF AfterDrop
  <2>4. \A d \in Callers : pc'[d] = "idle" <=> call'[d] = "none"
    BY <2>1, <2>3
  <2>5. \A d \in Callers : pc'[d] \in {"idle", "exists", "create", "lookup", "shutdown"} =>
          answer'[d] = "none"
    BY <2>2, <2>3
  <2>6. \A d \in Callers : call'[d] = "release" =>
          (pc'[d] = "shutdown" \/ lock' = d) /\ answer'[d] = "none"
    BY <2>1, <2>2, <2>3
  <2>7. \A d \in Callers : pc'[d] = "enqueue" => answer'[d] = "pending"
    <3>1. \A d \in Callers : pc[d] = "enqueue" => ~InQueue(d, reg[c])
      BY <2>1 DEF Waiting
    <3> QED
      BY <2>1, <2>3, <3>1
  <2>8. \A d \in Callers : pc'[d] = "release_queue" \/ lock' = d => answer'[d] # "pending"
    BY <2>1, <2>3, <1>19 DEF Destroy, Abandon
  <2> QED
    BY <2>4, <2>5, <2>6, <2>7, <2>8
<1>20. ASSUME NEW q \in Queues, StartTask(q) PROVE Called'
  BY <1>20 DEF StartTask
<1>21. ASSUME NEW q \in Queues, FinishTask(q) PROVE Called'
  <2>1. queue[q].running \in Callers /\ InQueue(queue[q].running, q)
    BY <1>21, QueueParts DEF FinishTask, InQueue
  <2>2. /\ answer' = [answer EXCEPT ![queue[q].running] = "ok"]
        /\ UNCHANGED <<lock, pc, call>>
    BY <1>21 DEF FinishTask
  <2> QED
    BY <2>1, <2>2 DEF Waiting
<1>22. ASSUME NEW q \in Queues, Exit(q) PROVE Called'
  <2>1. /\ UNCHANGED <<lock, pc, call>>
        /\ answer' \in [Callers -> {"none", "pending", "ok", "abandoned", "invalid"}]
        /\ \A c \in Callers : answer'[c] = answer[c] \/ InQueue(c, q)
    BY <1>22 DEF Exit, Abandon, InQueue
  <2> QED
    BY <2>1 DEF Waiting
<1> QED
  BY Steps, <1>1, <1>2, <1>3, <1>4, <1>5, <1>6, <1>7, <1>8, <1>9, <1>10, <1>11,
     <1>12, <1>13, <1>14, <1>15, <1>16, <1>17, <1>18, <1>19, <1>20, <1>21, <1>22

\* Where tasks are after a step that leaves them alone.
LEMMA TasksStay ==
  ASSUME \A q \in Queues : queue'[q].running = queue[q].running /\ queue'[q].tasks = queue[q].tasks
  PROVE  /\ \A c \in Callers, q \in Queues : InQueue(c, q)' <=> InQueue(c, q)
         /\ Once => Once'
<1>1. \A c \in Callers, q \in Queues : InQueue(c, q)' <=> InQueue(c, q)
  BY DEF InQueue
<1> QED
  BY <1>1 DEF Once

\* Where they are after a task has been posted.
LEMMA TaskPosted ==
  ASSUME Type, Refs, Called, Once, Waiting, NEW c \in Callers, Enqueue(c)
  PROVE  /\ reg[c] \in Queues
         /\ \A d \in Callers, q \in Queues :
              InQueue(d, q)' <=> InQueue(d, q) \/ (d = c /\ q = reg[c])
         /\ Once'
<1> DEFINE q0 == reg[c]
<1>1. q0 \in Queues /\ pc[c] = "enqueue"
  BY DEF Enqueue, Type, Refs
<1>2. queue[q0].tasks \in Seq(Callers)
  BY <1>1, QueueParts
<1>3. queue' = [queue EXCEPT ![q0].tasks = Append(queue[q0].tasks, c)]
  BY Zenon DEF Enqueue
<1>4. /\ \A q \in Queues : queue'[q].running = queue[q].running
      /\ \A q \in Queues : q # q0 => queue'[q].tasks = queue[q].tasks
      /\ queue'[q0].tasks = Append(queue[q0].tasks, c)
  <2> DEFINE s == Append(queue[q0].tasks, c)
  <2> HIDE DEF s
  <2>1. \A q \in Queues : queue[q] \in QueueType
    BY DEF Type
  <2>2. queue'[q0].tasks = s
    BY <1>1, <1>3, <2>1 DEF s, Type, QueueType
  <2> QED
    BY <1>1, <1>3, <2>1, <2>2 DEF s, Type, QueueType
<1>5. /\ DOMAIN queue[q0].tasks = 1 .. Len(queue[q0].tasks) /\ Len(queue[q0].tasks) \in Nat
      /\ DOMAIN queue'[q0].tasks = 1 .. Len(queue[q0].tasks) + 1
      /\ \A i \in DOMAIN queue[q0].tasks : queue'[q0].tasks[i] = queue[q0].tasks[i]
      /\ queue'[q0].tasks[Len(queue[q0].tasks) + 1] = c
  BY <1>2, <1>4
<1>6. \A d \in Callers, q \in Queues : InQueue(d, q)' <=> InQueue(d, q) \/ (d = c /\ q = q0)
  <2>1. \A d \in Callers, q \in Queues : q = q0 => (InQueue(d, q)' <=> InQueue(d, q) \/ d = c)
    <3> SUFFICES ASSUME NEW d \in Callers, NEW q \in Queues, q = q0
                 PROVE  InQueue(d, q)' <=> InQueue(d, q) \/ d = c
      OBVIOUS
    <3>1. \A i \in DOMAIN queue[q0].tasks : i \in DOMAIN queue'[q0].tasks
      BY <1>5
    <3>2. \A i \in DOMAIN queue'[q0].tasks :
            i \in DOMAIN queue[q0].tasks \/ i = Len(queue[q0].tasks) + 1
      BY <1>5
    <3>3. InQueue(d, q)' <=> \/ queue[q0].running = d
                             \/ \E i \in DOMAIN queue'[q0].tasks : queue'[q0].tasks[i] = d
      BY <1>1, <1>4 DEF InQueue
    <3>4. Len(queue[q0].tasks) + 1 \in DOMAIN queue'[q0].tasks
      BY <1>5
    <3> QED
      BY <1>5, <3>1, <3>2, <3>3, <3>4 DEF InQueue
  <2>2. \A d \in Callers, q \in Queues : q # q0 => (InQueue(d, q)' <=> InQueue(d, q))
    BY <1>4 DEF InQueue
  <2> QED
    BY <2>1, <2>2
<1>7. \A q \in Queues : ~InQueue(c, q)
  BY <1>1 DEF Waiting
<1>8. \A d \in Callers, p, q \in Queues : InQueue(d, p)' /\ InQueue(d, q)' => p = q
  BY <1>6, <1>7 DEF Once
<1>9. \A i \in DOMAIN queue'[q0].tasks : queue'[q0].tasks[i] # queue'[q0].running
  BY <1>1, <1>4, <1>5, <1>7 DEF Once, InQueue
<1>10. \A i, j \in DOMAIN queue'[q0].tasks : queue'[q0].tasks[i] = queue'[q0].tasks[j] => i = j
  <2>1. \A i \in DOMAIN queue[q0].tasks : queue[q0].tasks[i] # c
    BY <1>1, <1>7 DEF InQueue
  <2>2. \A i, j \in DOMAIN queue[q0].tasks : queue[q0].tasks[i] = queue[q0].tasks[j] => i = j
    BY <1>1 DEF Once
  <2>3. \A i \in DOMAIN queue'[q0].tasks :
          i \in DOMAIN queue[q0].tasks \/ i = Len(queue[q0].tasks) + 1
    BY <1>5
  <2> QED
    BY <1>5, <2>1, <2>2, <2>3
<1>11. Once'
  BY <1>4, <1>8, <1>9, <1>10 DEF Once
<1> QED
  BY <1>1, <1>6, <1>11

\* Where they are after one has begun.
LEMMA TaskStarted ==
  ASSUME Type, Once, NEW q \in Queues, StartTask(q)
  PROVE  /\ \A c \in Callers, p \in Queues : InQueue(c, p)' <=> InQueue(c, p)
         /\ Once'
<1>1. /\ queue[q].tasks \in Seq(Callers) /\ queue[q].tasks # << >> /\ queue[q].running = None
  BY QueueParts DEF StartTask
<1> DEFINE h == Head(queue[q].tasks)
           t == Tail(queue[q].tasks)
<1>2. /\ \A p \in Queues : p # q => queue'[p] = queue[p]
      /\ queue'[q].running = h /\ queue'[q].tasks = t
  <2> HIDE DEF h, t
  <2>1. queue' = [queue EXCEPT ![q].running = h, ![q].tasks = t]
    BY DEF StartTask, h, t
  <2> QED
    BY <2>1 DEF Type, QueueType
<1>3. /\ h = queue[q].tasks[1] /\ 1 \in DOMAIN queue[q].tasks
      /\ \A i \in DOMAIN t : i + 1 \in DOMAIN queue[q].tasks /\ t[i] = queue[q].tasks[i + 1] /\ i # 0
      /\ \A i \in DOMAIN queue[q].tasks : i # 1 => i - 1 \in DOMAIN t /\ t[i - 1] = queue[q].tasks[i]
      /\ DOMAIN t \subseteq Nat
  BY <1>1
<1> HIDE DEF h, t
<1>4. \A c \in Callers : InQueue(c, q)' <=> InQueue(c, q)
  <2> SUFFICES ASSUME NEW c \in Callers PROVE InQueue(c, q)' <=> InQueue(c, q)
    OBVIOUS
  <2>1. ASSUME InQueue(c, q) PROVE InQueue(c, q)'
    <3>1. PICK i \in DOMAIN queue[q].tasks : queue[q].tasks[i] = c
      BY <1>1, <2>1, NoneDiffers DEF InQueue
    <3>2. i = 1 => h = c
      BY <1>3, <3>1
    <3>3. i # 1 => i - 1 \in DOMAIN t /\ t[i - 1] = c
      BY <1>3, <3>1
    <3> QED
      BY <1>2, <3>2, <3>3 DEF InQueue
  <2>2. ASSUME InQueue(c, q)' PROVE InQueue(c, q)
    <3>1. h = c \/ \E i \in DOMAIN t : t[i] = c
      BY <1>2, <2>2 DEF InQueue
    <3> QED
      BY <1>3, <3>1 DEF InQueue
  <2> QED
    BY <2>1, <2>2
<1>5. \A c \in Callers, p \in Queues : InQueue(c, p)' <=> InQueue(c, p)
  BY <1>2, <1>4 DEF InQueue
<1>6. \A i \in DOMAIN t : t[i] # h
  BY <1>3 DEF Once
<1>7. \A i, j \in DOMAIN t : t[i] = t[j] => i = j
  BY <1>3 DEF Once
<1>8. Once'
  BY <1>2, <1>5, <1>6, <1>7 DEF Once
<1> QED
  BY <1>5, <1>8

\* Where they are when one has ended.
LEMMA TaskFinished ==
  ASSUME Type, Once, NEW q \in Queues, FinishTask(q)
  PROVE  /\ \A c \in Callers, p \in Queues :
              InQueue(c, p)' <=> InQueue(c, p) /\ c # queue[q].running
         /\ Once'
<1> DEFINE r == queue[q].running
<1>1. /\ \A p \in Queues : p # q => queue'[p] = queue[p]
      /\ queue'[q].running = None /\ queue'[q].tasks = queue[q].tasks
      /\ r \in Callers /\ InQueue(r, q)
  <2>1. r \in Callers /\ InQueue(r, q)
    BY QueueParts DEF FinishTask, InQueue
  <2> QED
    BY <2>1 DEF FinishTask, Type, QueueType
<1>2. \A c \in Callers : InQueue(c, q)' <=> InQueue(c, q) /\ c # r
  BY <1>1, NoneDiffers DEF InQueue, Once
<1>3. \A p \in Queues : p # q => ~InQueue(r, p)
  BY <1>1 DEF Once
<1>4. \A c \in Callers, p \in Queues : p # q => (InQueue(c, p)' <=> InQueue(c, p))
  BY <1>1 DEF InQueue
<1>5. \A c \in Callers, p \in Queues : InQueue(c, p)' <=> InQueue(c, p) /\ c # r
  BY <1>2, <1>3, <1>4
<1>6. \A i \in DOMAIN queue'[q].tasks : queue'[q].tasks[i] # None
  <2>1. queue[q].tasks \in Seq(Callers)
    BY QueueParts
  <2> QED
    BY <1>1, <2>1, NoneDiffers
<1>7. Once'
  BY <1>1, <1>5, <1>6 DEF Once
<1> QED
  BY <1>5, <1>7

\* Where they are when the tasks of queue q have been cleared.
LEMMA TasksCleared ==
  ASSUME Type, Once, NEW q \in Queues, queue[q].running = None, queue'[q].running = None,
         queue'[q].tasks = << >>, \A p \in Queues : p # q => queue'[p] = queue[p], Abandon(q)
  PROVE  /\ \A c \in Callers, p \in Queues : InQueue(c, p)' <=> InQueue(c, p) /\ p # q
         /\ Once'
         /\ \A c \in Callers : answer'[c] = IF InQueue(c, q) THEN "abandoned" ELSE answer[c]
<1>1. \A c \in Callers, p \in Queues : InQueue(c, p)' <=> InQueue(c, p) /\ p # q
  BY NoneDiffers DEF InQueue
<1>2. Once'
  BY <1>1 DEF Once
<1>3. \A c \in Callers : answer'[c] = IF InQueue(c, q) THEN "abandoned" ELSE answer[c]
  BY NoneDiffers DEF InQueue, Abandon
<1> QED
  BY <1>1, <1>2, <1>3

\* The places of the tasks in every step.
LEMMA OnceStep ==
  ASSUME Type, Refs, Life, Called, Once, Waiting, [Next]_vars
  PROVE  Once'
<1>1. CASE UNCHANGED vars
  BY <1>1, TasksStay DEF vars
<1>2. ASSUME NEW c \in Callers, traa_init(c) PROVE Once'
  BY <1>2, TasksStay DEF traa_init, Begin, MayCall, GoTo
<1>3. ASSUME NEW c \in Callers, traa_release(c) PROVE Once'
  BY <1>3, TasksStay DEF traa_release, Begin, MayCall, GoTo
<1>4. ASSUME NEW c \in Callers, traa_use(c) PROVE Once'
  BY <1>4, TasksStay DEF traa_use, Begin, MayCall, GoTo
<1>5. ASSUME NEW c \in Callers, Exists(c) PROVE Once'
  BY <1>5, TasksStay DEF Exists, GoTo
<1>6. ASSUME NEW c \in Callers, CreateQueue(c) PROVE Once'
  BY <1>6, TasksStay DEF CreateQueue, GoTo
<1>7. ASSUME NEW c \in Callers, GetTaskQueue(c) PROVE Once'
  BY <1>7, TasksStay DEF GetTaskQueue, GoTo
<1>8. ASSUME NEW c \in Callers, Enqueue(c) PROVE Once'
  BY <1>8, TaskPosted
<1>9. ASSUME NEW c \in Callers, DropRef(c) PROVE Once'
  BY <1>9, TasksStay DEF DropRef, AfterDrop, GoTo
<1>10. ASSUME NEW c \in Callers, Get(c) PROVE Once'
  BY <1>10, TasksStay DEF Get, Return, GoTo
<1>11. ASSUME NEW c \in Callers, Shutdown(c) PROVE Once'
  BY <1>11, TasksStay DEF Shutdown, GoTo
<1>12. ASSUME NEW c \in Callers, StopQueue(c) PROVE Once'
  <2>1. \A q \in Queues : queue'[q].running = queue[q].running /\ queue'[q].tasks = queue[q].tasks
    BY <1>12 DEF StopQueue, Type, QueueType
  <2> QED
    BY <2>1, TasksStay
<1>13. ASSUME NEW c \in Callers, JoinQueue(c) PROVE Once'
  BY <1>13, TasksStay DEF JoinQueue, GoTo
<1>14. ASSUME NEW c \in Callers, ClearMap(c) PROVE Once'
  BY <1>14, TasksStay DEF ClearMap, Erase, GoTo
<1>15. ASSUME NEW c \in Callers, ReleaseQueue(c) PROVE Once'
  BY <1>15, TasksStay DEF ReleaseQueue, Erase, GoTo
<1>16. ASSUME NEW c \in Callers, Unlock(c) PROVE Once'
  BY <1>16, TasksStay DEF Unlock, Return, GoTo
<1>17. ASSUME NEW c \in Callers, Destructor(c) PROVE Once'
  <2>1. \A q \in Queues : queue'[q].running = queue[q].running /\ queue'[q].tasks = queue[q].tasks
    BY <1>17 DEF Destructor, Type, QueueType
  <2> QED
    BY <2>1, TasksStay
<1>18. ASSUME NEW c \in Callers, DestructorJoin(c) PROVE Once'
  BY <1>18, TasksStay DEF DestructorJoin, GoTo
<1>19. ASSUME NEW c \in Callers, Destroy(c) PROVE Once'
  <2>1. /\ reg[c] \in Queues /\ queue[reg[c]].running = None /\ queue'[reg[c]].running = None
        /\ queue'[reg[c]].tasks = << >> /\ Abandon(reg[c])
        /\ \A p \in Queues : p # reg[c] => queue'[p] = queue[p]
    BY <1>19 DEF Destroy, Type, QueueType, Refs, Life
  <2> QED
    BY <2>1, TasksCleared
<1>20. ASSUME NEW q \in Queues, StartTask(q) PROVE Once'
  BY <1>20, TaskStarted
<1>21. ASSUME NEW q \in Queues, FinishTask(q) PROVE Once'
  BY <1>21, TaskFinished
<1>22. ASSUME NEW q \in Queues, Exit(q) PROVE Once'
  <2>1. /\ q \in Queues /\ queue[q].running = None /\ queue'[q].running = None
        /\ queue'[q].tasks = << >> /\ Abandon(q)
        /\ \A p \in Queues : p # q => queue'[p] = queue[p]
    BY <1>22 DEF Exit, Type, QueueType
  <2> QED
    BY <2>1, TasksCleared
<1> QED
  BY Steps, <1>1, <1>2, <1>3, <1>4, <1>5, <1>6, <1>7, <1>8, <1>9, <1>10, <1>11,
     <1>12, <1>13, <1>14, <1>15, <1>16, <1>17, <1>18, <1>19, <1>20, <1>21, <1>22

\* Who waits for an answer in every step.
LEMMA WaitingStep ==
  ASSUME Type, Refs, Locking, Life, Called, Once, Waiting, [Next]_vars
  PROVE  Waiting'
<1> USE DEF Type, Called, Waiting
<1>1. CASE UNCHANGED vars
  BY <1>1, TasksStay DEF vars
<1>2. ASSUME NEW c \in Callers, traa_init(c) PROVE Waiting'
  BY <1>2, TasksStay DEF traa_init, Begin, MayCall, GoTo
<1>3. ASSUME NEW c \in Callers, traa_release(c) PROVE Waiting'
  BY <1>3, TasksStay DEF traa_release, Begin, MayCall, GoTo
<1>4. ASSUME NEW c \in Callers, traa_use(c) PROVE Waiting'
  BY <1>4, TasksStay DEF traa_use, Begin, MayCall, GoTo
<1>5. ASSUME NEW c \in Callers, Exists(c) PROVE Waiting'
  BY <1>5, TasksStay DEF Exists, GoTo
<1>6. ASSUME NEW c \in Callers, CreateQueue(c) PROVE Waiting'
  BY <1>6, TasksStay DEF CreateQueue, GoTo
<1>7. ASSUME NEW c \in Callers, GetTaskQueue(c) PROVE Waiting'
  BY <1>7, TasksStay DEF GetTaskQueue, GoTo
<1>8. ASSUME NEW c \in Callers, Enqueue(c) PROVE Waiting'
  <2>1. \A d \in Callers, q \in Queues : InQueue(d, q)' => InQueue(d, q) \/ d = c
    BY <1>8, TaskPosted
  <2>2. answer' = answer /\ pc' = [pc EXCEPT ![c] = "drop"] /\ pc[c] = "enqueue"
    BY <1>8 DEF Enqueue, GoTo
  <2> QED
    BY <2>1, <2>2
<1>9. ASSUME NEW c \in Callers, DropRef(c) PROVE Waiting'
  BY <1>9, TasksStay DEF DropRef, AfterDrop, GoTo
<1>10. ASSUME NEW c \in Callers, Get(c) PROVE Waiting'
  BY <1>10, TasksStay DEF Get, Return, GoTo
<1>11. ASSUME NEW c \in Callers, Shutdown(c) PROVE Waiting'
  BY <1>11, TasksStay DEF Shutdown, GoTo
<1>12. ASSUME NEW c \in Callers, StopQueue(c) PROVE Waiting'
  <2>1. \A q \in Queues : queue'[q].running = queue[q].running /\ queue'[q].tasks = queue[q].tasks
    BY <1>12 DEF StopQueue, Type, QueueType
  <2> QED
    BY <1>12, <2>1, TasksStay DEF StopQueue, GoTo
<1>13. ASSUME NEW c \in Callers, JoinQueue(c) PROVE Waiting'
  BY <1>13, TasksStay DEF JoinQueue, GoTo
<1>14. ASSUME NEW c \in Callers, ClearMap(c) PROVE Waiting'
  BY <1>14, TasksStay DEF ClearMap, Erase, GoTo
<1>15. ASSUME NEW c \in Callers, ReleaseQueue(c) PROVE Waiting'
  BY <1>15, TasksStay DEF ReleaseQueue, Erase, GoTo
<1>16. ASSUME NEW c \in Callers, Unlock(c) PROVE Waiting'
  BY <1>16, TasksStay DEF Unlock, Return, GoTo
<1>17. ASSUME NEW c \in Callers, Destructor(c) PROVE Waiting'
  <2>1. \A q \in Queues : queue'[q].running = queue[q].running /\ queue'[q].tasks = queue[q].tasks
    BY <1>17 DEF Destructor, Type, QueueType
  <2> QED
    BY <1>17, <2>1, TasksStay DEF Destructor, GoTo
<1>18. ASSUME NEW c \in Callers, DestructorJoin(c) PROVE Waiting'
  BY <1>18, TasksStay DEF DestructorJoin, GoTo
<1>19. ASSUME NEW c \in Callers, Destroy(c) PROVE Waiting'
  <2>1. /\ reg[c] \in Queues /\ queue[reg[c]].running = None /\ queue'[reg[c]].running = None
        /\ queue'[reg[c]].tasks = << >> /\ Abandon(reg[c])
        /\ \A p \in Queues : p # reg[c] => queue'[p] = queue[p]
    BY <1>19 DEF Destroy, Type, QueueType, Refs, Life
  <2>2. /\ \A d \in Callers, p \in Queues : InQueue(d, p)' => InQueue(d, p) /\ p # reg[c]
        /\ \A d \in Callers : answer'[d] = IF InQueue(d, reg[c]) THEN "abandoned" ELSE answer[d]
    BY <2>1, TasksCleared
  <2>3. pc' = [pc EXCEPT ![c] = AfterDrop(c)] /\ pc[c] = "destroy"
    BY <1>19 DEF Destroy, GoTo
  <2>4. \A d \in Callers, p \in Queues : InQueue(d, p)' => answer'[d] = "pending"
    BY <2>1, <2>2 DEF Once
  <2>5. answer[c] = "pending" => AfterDrop(c) = "get"
    BY DEF Called, AfterDrop
  <2> QED
    BY <2>2, <2>3, <2>4, <2>5
<1>20. ASSUME NEW q \in Queues, StartTask(q) PROVE Waiting'
  BY <1>20, TaskStarted DEF StartTask
<1>21. ASSUME NEW q \in Queues, FinishTask(q) PROVE Waiting'
  BY <1>21, TaskFinished, QueueParts, ZenonT(30) DEF FinishTask
<1>22. ASSUME NEW q \in Queues, Exit(q) PROVE Waiting'
  <2>1. /\ q \in Queues /\ queue[q].running = None /\ queue'[q].running = None
        /\ queue'[q].tasks = << >> /\ Abandon(q)
        /\ \A p \in Queues : p # q => queue'[p] = queue[p]
    BY <1>22 DEF Exit, Type, QueueType
  <2>2. /\ \A d \in Callers, p \in Queues : InQueue(d, p)' => InQueue(d, p) /\ p # q
        /\ \A d \in Callers : answer'[d] = IF InQueue(d, q) THEN "abandoned" ELSE answer[d]
    BY <2>1, TasksCleared
  <2>3. \A d \in Callers, p \in Queues : InQueue(d, p)' => answer'[d] = "pending"
    BY <2>2 DEF Once
  <2> QED
    BY <1>22, <2>2, <2>3 DEF Exit
<1> QED
  BY Steps, <1>1, <1>2, <1>3, <1>4, <1>5, <1>6, <1>7, <1>8, <1>9, <1>10, <1>11,
     <1>12, <1>13, <1>14, <1>15, <1>16, <1>17, <1>18, <1>19, <1>20, <1>21, <1>22

\* The threads beside traa_release in every step.
LEMMA QuietStep ==
  ASSUME Type, Called, disciplined, Quiet, [Next]_vars
  PROVE  Quiet'
<1> USE DEF Type, Called, Quiet
<1>1. CASE UNCHANGED vars
  BY <1>1 DEF vars
<1>2. ASSUME NEW c \in Callers, traa_init(c) PROVE Quiet'
  BY <1>2 DEF traa_init, Begin, MayCall, GoTo, InProgress
<1>3. ASSUME NEW c \in Callers, traa_release(c) PROVE Quiet'
  BY <1>3 DEF traa_release, Begin, MayCall, GoTo, InProgress
<1>4. ASSUME NEW c \in Callers, traa_use(c) PROVE Quiet'
  BY <1>4 DEF traa_use, Begin, MayCall, GoTo, InProgress
<1>5. ASSUME NEW c \in Callers, Exists(c) PROVE Quiet'
  BY <1>5 DEF Exists, GoTo
<1>6. ASSUME NEW c \in Callers, CreateQueue(c) PROVE Quiet'
  BY <1>6 DEF CreateQueue, GoTo
<1>7. ASSUME NEW c \in Callers, GetTaskQueue(c) PROVE Quiet'
  BY <1>7 DEF GetTaskQueue, GoTo
<1>8. ASSUME NEW c \in Callers, Enqueue(c) PROVE Quiet'
  BY <1>8 DEF Enqueue, GoTo
<1>9. ASSUME NEW c \in Callers, DropRef(c) PROVE Quiet'
  BY <1>9 DEF DropRef, AfterDrop, GoTo
<1>10. ASSUME NEW c \in Callers, Get(c) PROVE Quiet'
  BY <1>10 DEF Get, Return, GoTo
<1>11. ASSUME NEW c \in Callers, Shutdown(c) PROVE Quiet'
  BY <1>11 DEF Shutdown, GoTo
<1>12. ASSUME NEW c \in Callers, StopQueue(c) PROVE Quiet'
  BY <1>12 DEF StopQueue, GoTo
<1>13. ASSUME NEW c \in Callers, JoinQueue(c) PROVE Quiet'
  BY <1>13 DEF JoinQueue, GoTo
<1>14. ASSUME NEW c \in Callers, ClearMap(c) PROVE Quiet'
  BY <1>14 DEF ClearMap, Erase, GoTo
<1>15. ASSUME NEW c \in Callers, ReleaseQueue(c) PROVE Quiet'
  BY <1>15 DEF ReleaseQueue, Erase, GoTo
<1>16. ASSUME NEW c \in Callers, Unlock(c) PROVE Quiet'
  BY <1>16 DEF Unlock, Return, GoTo
<1>17. ASSUME NEW c \in Callers, Destructor(c) PROVE Quiet'
  BY <1>17 DEF Destructor, GoTo
<1>18. ASSUME NEW c \in Callers, DestructorJoin(c) PROVE Quiet'
  BY <1>18 DEF DestructorJoin, GoTo
<1>19. ASSUME NEW c \in Callers, Destroy(c) PROVE Quiet'
  BY <1>19 DEF Destroy, AfterDrop, GoTo
<1>20. ASSUME NEW q \in Queues, StartTask(q) PROVE Quiet'
  BY <1>20 DEF StartTask
<1>21. ASSUME NEW q \in Queues, FinishTask(q) PROVE Quiet'
  BY <1>21 DEF FinishTask
<1>22. ASSUME NEW q \in Queues, Exit(q) PROVE Quiet'
  BY <1>22 DEF Exit
<1> QED
  BY Steps, <1>1, <1>2, <1>3, <1>4, <1>5, <1>6, <1>7, <1>8, <1>9, <1>10, <1>11,
     <1>12, <1>13, <1>14, <1>15, <1>16, <1>17, <1>18, <1>19, <1>20, <1>21, <1>22

\* Who takes lock_ in every step.
LEMMA ReleasingStep ==
  ASSUME Type, Refs, Locking, Called, disciplined, Quiet, Releasing, AtMap, Answered, [Next]_vars
  PROVE  Releasing'
<1> USE DEF Type, Locking, Called, Quiet, Releasing, Answered
<1>1. CASE UNCHANGED vars
  BY <1>1 DEF vars
<1>2. ASSUME NEW c \in Callers, traa_init(c) PROVE Releasing'
  BY <1>2 DEF traa_init, Begin, MayCall, GoTo
<1>3. ASSUME NEW c \in Callers, traa_release(c) PROVE Releasing'
  BY <1>3 DEF traa_release, Begin, MayCall, GoTo
<1>4. ASSUME NEW c \in Callers, traa_use(c) PROVE Releasing'
  BY <1>4 DEF traa_use, Begin, MayCall, GoTo
<1>5. ASSUME NEW c \in Callers, Exists(c) PROVE Releasing'
  BY <1>5 DEF Exists, GoTo
<1>6. ASSUME NEW c \in Callers, CreateQueue(c) PROVE Releasing'
  BY <1>6 DEF CreateQueue, GoTo
<1>7. ASSUME NEW c \in Callers, GetTaskQueue(c) PROVE Releasing'
  BY <1>7 DEF GetTaskQueue, GoTo
<1>8. ASSUME NEW c \in Callers, Enqueue(c) PROVE Releasing'
  BY <1>8 DEF Enqueue, GoTo
<1>9. ASSUME NEW c \in Callers, DropRef(c) PROVE Releasing'
  BY <1>9 DEF DropRef, AfterDrop, GoTo, AtMap, HeldBeside, Refs
<1>10. ASSUME NEW c \in Callers, Get(c) PROVE Releasing'
  BY <1>10 DEF Get, Return, GoTo
<1>11. ASSUME NEW c \in Callers, Shutdown(c) PROVE Releasing'
  BY <1>11 DEF Shutdown, GoTo
<1>12. ASSUME NEW c \in Callers, StopQueue(c) PROVE Releasing'
  BY <1>12 DEF StopQueue, GoTo
<1>13. ASSUME NEW c \in Callers, JoinQueue(c) PROVE Releasing'
  BY <1>13 DEF JoinQueue, GoTo
<1>14. ASSUME NEW c \in Callers, ClearMap(c) PROVE Releasing'
  BY <1>14 DEF ClearMap, Erase, GoTo
<1>15. ASSUME NEW c \in Callers, ReleaseQueue(c) PROVE Releasing'
  BY <1>15 DEF ReleaseQueue, Erase, GoTo
<1>16. ASSUME NEW c \in Callers, Unlock(c) PROVE Releasing'
  BY <1>16, NoneDiffers DEF Unlock, Return, GoTo
<1>17. ASSUME NEW c \in Callers, Destructor(c) PROVE Releasing'
  BY <1>17 DEF Destructor, GoTo
<1>18. ASSUME NEW c \in Callers, DestructorJoin(c) PROVE Releasing'
  BY <1>18 DEF DestructorJoin, GoTo
<1>19. ASSUME NEW c \in Callers, Destroy(c) PROVE Releasing'
  BY <1>19 DEF Destroy, AfterDrop, GoTo
<1>20. ASSUME NEW q \in Queues, StartTask(q) PROVE Releasing'
  BY <1>20 DEF StartTask
<1>21. ASSUME NEW q \in Queues, FinishTask(q) PROVE Releasing'
  BY <1>21 DEF FinishTask
<1>22. ASSUME NEW q \in Queues, Exit(q) PROVE Releasing'
  BY <1>22 DEF Exit
<1> QED
  BY Steps, <1>1, <1>2, <1>3, <1>4, <1>5, <1>6, <1>7, <1>8, <1>9, <1>10, <1>11,
     <1>12, <1>13, <1>14, <1>15, <1>16, <1>17, <1>18, <1>19, <1>20, <1>21, <1>22

\* The answers in every step.
LEMMA AnsweredStep ==
  ASSUME Type, Refs, Locking, MainQueueRuns, Called, Waiting, disciplined, Quiet, Releasing, AtMap,
         Answered, Stands, [Next]_vars
  PROVE  Answered'
<1> USE DEF Type, Called, Answered
<1>1. CASE UNCHANGED vars
  BY <1>1 DEF vars
<1>2. ASSUME NEW c \in Callers, traa_init(c) PROVE Answered'
  BY <1>2 DEF traa_init, Begin, MayCall, GoTo
<1>3. ASSUME NEW c \in Callers, traa_release(c) PROVE Answered'
  BY <1>3 DEF traa_release, Begin, MayCall, GoTo
<1>4. ASSUME NEW c \in Callers, traa_use(c) PROVE Answered'
  BY <1>4 DEF traa_use, Begin, MayCall, GoTo
<1>5. ASSUME NEW c \in Callers, Exists(c) PROVE Answered'
  BY <1>5 DEF Exists, GoTo
<1>6. ASSUME NEW c \in Callers, CreateQueue(c) PROVE Answered'
  BY <1>6 DEF CreateQueue, GoTo
<1>7. ASSUME NEW c \in Callers, GetTaskQueue(c) PROVE Answered'
  BY <1>7, NoneDiffers DEF GetTaskQueue, GoTo, Stands, Locking, Calls
<1>8. ASSUME NEW c \in Callers, Enqueue(c) PROVE Answered'
  BY <1>8 DEF Enqueue, GoTo
<1>9. ASSUME NEW c \in Callers, DropRef(c) PROVE Answered'
  BY <1>9 DEF DropRef, AfterDrop, GoTo
<1>10. ASSUME NEW c \in Callers, Get(c) PROVE Answered'
  BY <1>10 DEF Get, Return, GoTo
<1>11. ASSUME NEW c \in Callers, Shutdown(c) PROVE Answered'
  BY <1>11 DEF Shutdown, GoTo
<1>12. ASSUME NEW c \in Callers, StopQueue(c) PROVE Answered'
  BY <1>12 DEF StopQueue, GoTo
<1>13. ASSUME NEW c \in Callers, JoinQueue(c) PROVE Answered'
  BY <1>13 DEF JoinQueue, GoTo
<1>14. ASSUME NEW c \in Callers, ClearMap(c) PROVE Answered'
  BY <1>14 DEF ClearMap, Erase, GoTo
<1>15. ASSUME NEW c \in Callers, ReleaseQueue(c) PROVE Answered'
  BY <1>15 DEF ReleaseQueue, Erase, GoTo
<1>16. ASSUME NEW c \in Callers, Unlock(c) PROVE Answered'
  BY <1>16 DEF Unlock, Return, GoTo
<1>17. ASSUME NEW c \in Callers, Destructor(c) PROVE Answered'
  BY <1>17 DEF Destructor, GoTo
<1>18. ASSUME NEW c \in Callers, DestructorJoin(c) PROVE Answered'
  BY <1>18 DEF DestructorJoin, GoTo
<1>19. ASSUME NEW c \in Callers, Destroy(c) PROVE Answered'
  <2>1. call[c] = "release" /\ reg[c] \in Queues
    BY <1>19 DEF Destroy, Releasing, Refs
  <2>2. \A d \in Callers : ~InQueue(d, reg[c])
    BY <2>1 DEF Waiting, Quiet
  <2>3. \A d \in Callers : answer'[d] = answer[d]
    BY <1>19, <2>2 DEF Destroy, Abandon, InQueue
  <2> QED
    BY <1>19, <2>3 DEF Destroy, AfterDrop, GoTo
<1>20. ASSUME NEW q \in Queues, StartTask(q) PROVE Answered'
  BY <1>20 DEF StartTask
<1>21. ASSUME NEW q \in Queues, FinishTask(q) PROVE Answered'
  BY <1>21, QueueParts DEF FinishTask
<1>22. ASSUME NEW q \in Queues, Exit(q) PROVE Answered'
  <2>1. \A d \in Callers : ~InQueue(d, q)
    <3>1. SUFFICES ASSUME NEW d \in Callers, InQueue(d, q) PROVE FALSE
      OBVIOUS
    <3>2. q = map /\ map # None /\ queue[map].stopped
      BY <1>22, <3>1, NoneDiffers DEF AtMap, Exit
    <3>3. lock \in Callers /\ pc[lock] \in {"join", "clear"}
      BY <3>2 DEF MainQueueRuns
    <3> QED
      BY <3>1, <3>3 DEF Waiting, Quiet, Releasing
  <2>2. \A d \in Callers : answer'[d] = answer[d]
    BY <1>22, <2>1 DEF Exit, Abandon, InQueue
  <2> QED
    BY <1>22, <2>2 DEF Exit
<1> QED
  BY Steps, <1>1, <1>2, <1>3, <1>4, <1>5, <1>6, <1>7, <1>8, <1>9, <1>10, <1>11,
     <1>12, <1>13, <1>14, <1>15, <1>16, <1>17, <1>18, <1>19, <1>20, <1>21, <1>22

\* The queue that the calls have to do with in every step.
LEMMA AtMapStep ==
  ASSUME Type, Refs, Locking, Life, Called, Once, Waiting, disciplined, Quiet, Releasing, AtMap,
         Answered, [Next]_vars
  PROVE  AtMap'
<1> USE DEF Type, AtMap
<1>1. CASE UNCHANGED vars
  BY <1>1, TasksStay DEF vars
<1>2. ASSUME NEW c \in Callers, traa_init(c) PROVE AtMap'
  BY <1>2, TasksStay DEF traa_init, Begin, MayCall, GoTo, Refs
<1>3. ASSUME NEW c \in Callers, traa_release(c) PROVE AtMap'
  BY <1>3, TasksStay DEF traa_release, Begin, MayCall, GoTo, Refs
<1>4. ASSUME NEW c \in Callers, traa_use(c) PROVE AtMap'
  BY <1>4, TasksStay DEF traa_use, Begin, MayCall, GoTo, Refs
<1>5. ASSUME NEW c \in Callers, Exists(c) PROVE AtMap'
  BY <1>5, TasksStay DEF Exists, GoTo
<1>6. ASSUME NEW c \in Callers, CreateQueue(c) PROVE AtMap'
  <2>1. \A d \in Callers, q \in Queues : InQueue(d, q)' <=> InQueue(d, q)
    BY <1>6, TasksStay DEF CreateQueue
  <2>2. CASE map # None
    BY <1>6, <2>1, <2>2 DEF CreateQueue, GoTo
  <2>3. CASE map = None
    <3>1. \A d \in Callers, q \in Queues : ~InQueue(d, q)
      BY <2>3, NoneDiffers
    <3>2. call[c] # "release" /\ \A d \in Callers : call[d] # "release"
      BY <1>6, NoneDiffers DEF CreateQueue, Quiet, Called, Locking, LockedPoints
    <3>3. \A d \in Callers : reg[d] = None
      BY <2>3, <3>2
    <3> QED
      BY <1>6, <2>1, <3>1, <3>3 DEF CreateQueue, GoTo
  <2> QED
    BY <2>2, <2>3
<1>7. ASSUME NEW c \in Callers, GetTaskQueue(c) PROVE AtMap'
  BY <1>7, TasksStay DEF GetTaskQueue, GoTo
<1>8. ASSUME NEW c \in Callers, Enqueue(c) PROVE AtMap'
  <2>1. \A d \in Callers, q \in Queues : InQueue(d, q)' => InQueue(d, q) \/ (d = c /\ q = reg[c])
    BY <1>8, TaskPosted
  <2>2. call[c] # "release" /\ reg[c] = map
    BY <1>8, NoneDiffers DEF Enqueue, Refs, AtMap, Called, Locking, LockedPoints
  <2> QED
    BY <1>8, <2>1, <2>2 DEF Enqueue, GoTo
<1>9. ASSUME NEW c \in Callers, DropRef(c) PROVE AtMap'
  BY <1>9, TasksStay DEF DropRef, AfterDrop, GoTo
<1>10. ASSUME NEW c \in Callers, Get(c) PROVE AtMap'
  BY <1>10, TasksStay DEF Get, Return, GoTo, Refs
<1>11. ASSUME NEW c \in Callers, Shutdown(c) PROVE AtMap'
  BY <1>11, TasksStay DEF Shutdown, GoTo
<1>12. ASSUME NEW c \in Callers, StopQueue(c) PROVE AtMap'
  <2>1. \A q \in Queues : queue'[q].running = queue[q].running /\ queue'[q].tasks = queue[q].tasks
    BY <1>12 DEF StopQueue, Type, QueueType
  <2> QED
    BY <1>12, <2>1, TasksStay DEF StopQueue, GoTo
<1>13. ASSUME NEW c \in Callers, JoinQueue(c) PROVE AtMap'
  BY <1>13, TasksStay DEF JoinQueue, GoTo
<1>14. ASSUME NEW c \in Callers, ClearMap(c) PROVE AtMap'
  <2>1. \A d \in Callers, q \in Queues : InQueue(d, q)' <=> InQueue(d, q)
    BY <1>14, TasksStay DEF ClearMap
  <2>2. call[c] = "release" /\ \A d \in Callers : d # c => pc[d] = "idle"
    BY <1>14 DEF ClearMap, Releasing, Quiet
  <2>3. \A d \in Callers, q \in Queues : ~InQueue(d, q)
    BY <2>2 DEF Waiting, Called
  <2>4. \A d \in Callers : d # c => reg[d] = None
    BY <2>2 DEF Refs
  <2> QED
    BY <1>14, <2>1, <2>2, <2>3, <2>4 DEF ClearMap, Erase, GoTo
<1>15. ASSUME NEW c \in Callers, ReleaseQueue(c) PROVE AtMap'
  BY <1>15 DEF ReleaseQueue, Erase, GoTo, Answered
<1>16. ASSUME NEW c \in Callers, Unlock(c) PROVE AtMap'
  BY <1>16, TasksStay DEF Unlock, Return, GoTo, Refs
<1>17. ASSUME NEW c \in Callers, Destructor(c) PROVE AtMap'
  <2>1. \A q \in Queues : queue'[q].running = queue[q].running /\ queue'[q].tasks = queue[q].tasks
    BY <1>17 DEF Destructor, Type, QueueType
  <2> QED
    BY <1>17, <2>1, TasksStay DEF Destructor, GoTo
<1>18. ASSUME NEW c \in Callers, DestructorJoin(c) PROVE AtMap'
  BY <1>18, TasksStay DEF DestructorJoin, GoTo
<1>19. ASSUME NEW c \in Callers, Destroy(c) PROVE AtMap'
  <2>1. /\ reg[c] \in Queues /\ queue[reg[c]].running = None /\ queue'[reg[c]].running = None
        /\ queue'[reg[c]].tasks = << >> /\ Abandon(reg[c])
        /\ \A p \in Queues : p # reg[c] => queue'[p] = queue[p]
    BY <1>19 DEF Destroy, Type, QueueType, Refs, Life
  <2>2. \A d \in Callers, p \in Queues : InQueue(d, p)' => InQueue(d, p)
    BY <2>1, TasksCleared
  <2> QED
    BY <1>19, <2>2 DEF Destroy, AfterDrop, GoTo
<1>20. ASSUME NEW q \in Queues, StartTask(q) PROVE AtMap'
  <2>1. \A c \in Callers, p \in Queues : InQueue(c, p)' <=> InQueue(c, p)
    BY <1>20, TaskStarted
  <2> QED
    BY <1>20, <2>1 DEF StartTask
<1>21. ASSUME NEW q \in Queues, FinishTask(q) PROVE AtMap'
  <2>1. \A c \in Callers, p \in Queues : InQueue(c, p)' => InQueue(c, p)
    BY <1>21, TaskFinished
  <2> QED
    BY <1>21, <2>1 DEF FinishTask
<1>22. ASSUME NEW q \in Queues, Exit(q) PROVE AtMap'
  <2>1. /\ q \in Queues /\ queue[q].running = None /\ queue'[q].running = None
        /\ queue'[q].tasks = << >> /\ Abandon(q)
        /\ \A p \in Queues : p # q => queue'[p] = queue[p]
    BY <1>22 DEF Exit, Type, QueueType
  <2>2. \A d \in Callers, p \in Queues : InQueue(d, p)' => InQueue(d, p)
    BY <2>1, TasksCleared
  <2> QED
    BY <1>22, <2>2 DEF Exit
<1> QED
  BY Steps, <1>1, <1>2, <1>3, <1>4, <1>5, <1>6, <1>7, <1>8, <1>9, <1>10, <1>11,
     <1>12, <1>13, <1>14, <1>15, <1>16, <1>17, <1>18, <1>19, <1>20, <1>21, <1>22

\* What an application has been told of in every step.
LEMMA StandsStep ==
  ASSUME Type, Refs, Locking, MainQueueRuns, Called, Waiting, disciplined, Quiet, Releasing, AtMap,
         Answered, Stands, [Next]_vars
  PROVE  Stands'
<1> USE NoneDiffers DEF Type, Called, Stands
<1>1. CASE UNCHANGED vars
  BY <1>1 DEF vars
<1>2. ASSUME NEW c \in Callers, traa_init(c) PROVE Stands'
  BY <1>2 DEF traa_init, Begin, MayCall, GoTo, InProgress
<1>3. ASSUME NEW c \in Callers, traa_release(c) PROVE Stands'
  BY <1>3 DEF traa_release, Begin, MayCall, GoTo, InProgress, Calls
<1>4. ASSUME NEW c \in Callers, traa_use(c) PROVE Stands'
  BY <1>4 DEF traa_use, Begin, MayCall, GoTo, InProgress
<1>5. ASSUME NEW c \in Callers, Exists(c) PROVE Stands'
  BY <1>5 DEF Exists, GoTo
<1>6. ASSUME NEW c \in Callers, CreateQueue(c) PROVE Stands'
  BY <1>6, TraaApiAssumption DEF CreateQueue, GoTo
<1>7. ASSUME NEW c \in Callers, GetTaskQueue(c) PROVE Stands'
  BY <1>7 DEF GetTaskQueue, GoTo
<1>8. ASSUME NEW c \in Callers, Enqueue(c) PROVE Stands'
  BY <1>8 DEF Enqueue, GoTo
<1>9. ASSUME NEW c \in Callers, DropRef(c) PROVE Stands'
  BY <1>9 DEF DropRef, AfterDrop, GoTo
<1>10. ASSUME NEW c \in Callers, Get(c) PROVE Stands'
  BY <1>10 DEF Get, Return, GoTo, Answered
<1>11. ASSUME NEW c \in Callers, Shutdown(c) PROVE Stands'
  BY <1>11 DEF Shutdown, GoTo
<1>12. ASSUME NEW c \in Callers, StopQueue(c) PROVE Stands'
  BY <1>12 DEF StopQueue, GoTo
<1>13. ASSUME NEW c \in Callers, JoinQueue(c) PROVE Stands'
  BY <1>13 DEF JoinQueue, GoTo
<1>14. ASSUME NEW c \in Callers, ClearMap(c) PROVE Stands'
  BY <1>14 DEF ClearMap, Erase, GoTo, Releasing, Quiet
<1>15. ASSUME NEW c \in Callers, ReleaseQueue(c) PROVE Stands'
  BY <1>15 DEF ReleaseQueue, Erase, GoTo, Answered
<1>16. ASSUME NEW c \in Callers, Unlock(c) PROVE Stands'
  BY <1>16 DEF Unlock, Return, GoTo
<1>17. ASSUME NEW c \in Callers, Destructor(c) PROVE Stands'
  BY <1>17 DEF Destructor, GoTo
<1>18. ASSUME NEW c \in Callers, DestructorJoin(c) PROVE Stands'
  BY <1>18 DEF DestructorJoin, GoTo
<1>19. ASSUME NEW c \in Callers, Destroy(c) PROVE Stands'
  BY <1>19 DEF Destroy, AfterDrop, GoTo, Releasing, Quiet
<1>20. ASSUME NEW q \in Queues, StartTask(q) PROVE Stands'
  <2>1. \A p \in Queues : queue'[p].engine = queue[p].engine
    BY <1>20 DEF StartTask, QueueType
  <2> QED
    BY <1>20, <2>1 DEF StartTask
<1>21. ASSUME NEW q \in Queues, FinishTask(q) PROVE Stands'
  <2>1. queue[q].running \in Callers /\ InQueue(queue[q].running, q) /\ queue[q].engine \in BOOLEAN
    BY <1>21, QueueParts DEF FinishTask, InQueue
  <2>2. q = map
    BY <2>1 DEF AtMap
  <2>3. queue'[q].engine = (queue[q].engine \/ call[queue[q].running] = "init")
    BY <1>21 DEF FinishTask, QueueType
  <2> QED
    BY <1>21, <2>1, <2>2, <2>3, ZenonT(30) DEF FinishTask
<1>22. ASSUME NEW q \in Queues, Exit(q) PROVE Stands'
  <2>1. \A d \in Callers : answer'[d] = "ok" => answer[d] = "ok"
    BY <1>22 DEF Exit, Abandon
  <2>2. CASE q # map
    <3>1. map # None => queue'[map] = queue[map]
      BY <1>22, <2>2 DEF Exit
    <3> QED
      BY <1>22, <2>1, <3>1 DEF Exit
  <2>3. CASE q = map
    <3>1. lock \in Callers /\ call[lock] = "release"
      BY <1>22, <2>3 DEF Exit, MainQueueRuns, Releasing
    <3>2. \A d \in Callers : standing[d] = "no" /\ call[d] \notin {"init", "use"}
      BY <3>1 DEF Quiet
    <3> QED
      BY <1>22, <3>2 DEF Exit
  <2> QED
    BY <2>2, <2>3
<1> QED
  BY Steps, <1>1, <1>2, <1>3, <1>4, <1>5, <1>6, <1>7, <1>8, <1>9, <1>10, <1>11,
     <1>12, <1>13, <1>14, <1>15, <1>16, <1>17, <1>18, <1>19, <1>20, <1>21, <1>22

-----------------------------------------------------------------------------
\* The invariant holds at first and always.
LEMMA Invariance == Spec => []IInv
<1>1. ASSUME Init PROVE IInv
  <2>1. /\ disciplined \in BOOLEAN /\ lock = None /\ map = None /\ made = 0 /\ calls = 0
        /\ queue = [q \in Queues |-> Fresh]
        /\ \A c \in Callers : pc[c] = "idle" /\ reg[c] = None
    BY <1>1, TraaApiAssumption DEF Init
  <2>2. Type
    <3>1. << >> \in Seq(Callers)
      OBVIOUS
    <3>2. Fresh \in QueueType
      BY <3>1 DEF Fresh, QueueType
    <3>3. queue \in [Queues -> QueueType]
      BY <2>1, <3>2
    <3> QED
      BY <1>1, <2>1, <3>3, TraaApiAssumption DEF Init, Type, Points
  <2>3. Counted
    <3>1. Making = {}
      BY <2>1 DEF Making
    <3> QED
      BY <2>1, <3>1, FS_EmptySet DEF Counted
  <2>4. Refs /\ Locking
    BY <2>1 DEF Refs, Locking
  <2>5. Life /\ MainQueueRuns /\ NoOrphanQueue
    BY <2>1 DEF Life, MainQueueRuns, NoOrphanQueue, Fresh, Queues
  <2> QED
    BY <2>2, <2>3, <2>4, <2>5 DEF IInv
<1>2. ASSUME IInv, [Next]_vars PROVE IInv'
  <2> USE <1>2 DEF IInv
  <2>1. Type' /\ Counted' /\ Refs' /\ Locking'
    BY TypeStep, CountStep, RefsStep, LockingStep
  <2>2. Life' /\ MainQueueRuns' /\ NoOrphanQueue'
    BY <2>1, LifeStep, MainStep, OrphanStep
  <2> QED
    BY <2>1, <2>2
<1> QED
  BY <1>1, <1>2, PTL DEF Spec

\* The state is well-formed, for any number of threads and calls.
THEOREM TypeCorrect == Spec => []TypeOK
<1>1. ASSUME IInv PROVE TypeOK
  <2>1. made \in 0 .. MaxCalls
    <3>1. IsFiniteSet(Making)
      BY TraaApiAssumption, FS_Subset DEF Making
    <3>2. Cardinality(Making) \in Nat
      BY <3>1, FS_CardinalityType
    <3> QED
      BY <1>1, <3>2, TraaApiAssumption DEF IInv, Type, Counted
  <2> QED
    BY <1>1, <2>1 DEF IInv, Type, Locking, TypeOK
<1> QED
  BY <1>1, Invariance, PTL

\* No thread and no engine is left behind by any mixture of public calls
\* (traa.cc:31-70, task_queue.h:492).
THEOREM NoOrphanQueueAlways == Spec => []NoOrphanQueue
<1>1. IInv => NoOrphanQueue
  BY DEF IInv
<1> QED
  BY <1>1, Invariance, PTL

\* The main queue in the map has a thread that serves it, except while shutdown()
\* takes it away (task_queue.h:505).
THEOREM MainQueueRunsAlways == Spec => []MainQueueRuns
<1>1. IInv => MainQueueRuns
  BY DEF IInv
<1> QED
  BY <1>1, Invariance, PTL

\* The rest of what holds always.
LEMMA OrderAlways == Spec => [](Posted /\ Orderly)
<1>1. ASSUME Init PROVE Posted /\ Orderly
  <2>1. /\ lock = None /\ map = None /\ queue = [q \in Queues |-> Fresh]
        /\ \A c \in Callers : /\ pc[c] = "idle" /\ reg[c] = None /\ call[c] = "none"
                              /\ answer[c] = "none" /\ standing[c] = "no"
    BY <1>1 DEF Init
  <2>2. \A c \in Callers, q \in Queues : ~InQueue(c, q)
    BY <2>1, NoneDiffers DEF InQueue, Fresh
  <2>3. Posted
    BY <2>1, <2>2, NoneDiffers DEF Posted, Called, Once, Waiting, Fresh
  <2> QED
    BY <2>1, <2>2, <2>3, NoneDiffers DEF Orderly, Quiet, Releasing, AtMap, Answered, Stands
<1>2. ASSUME IInv, Posted, Orderly, [Next]_vars PROVE (Posted /\ Orderly)'
  <2> USE <1>2 DEF IInv, Posted
  <2>1. Posted'
    BY CalledStep, OnceStep, WaitingStep
  <2>2. disciplined' = disciplined
    BY Steps DEF vars, traa_init, traa_release, traa_use, Begin, Exists, CreateQueue, GetTaskQueue,
       Enqueue, DropRef, Get, Shutdown, StopQueue, JoinQueue, ClearMap, ReleaseQueue, Unlock,
       Destructor, DestructorJoin, Destroy, StartTask, FinishTask, Exit
  <2>3. ASSUME disciplined PROVE Quiet' /\ Releasing' /\ AtMap' /\ Answered' /\ Stands'
    <3>1. Quiet /\ Releasing /\ AtMap /\ Answered /\ Stands
      BY <2>3 DEF Orderly
    <3>2. Quiet' /\ Releasing' /\ AtMap'
      BY <2>3, <3>1, QuietStep, ReleasingStep, AtMapStep
    <3>3. Answered' /\ Stands'
      BY <2>3, <3>1, AnsweredStep, StandsStep
    <3> QED
      BY <3>2, <3>3
  <2> QED
    BY <2>1, <2>2, <2>3 DEF Orderly
<1> QED
  BY <1>1, <1>2, Invariance, PTL DEF Spec

\* An application that uses the engine only after a traa_init of its own has succeeded,
\* and releases only when no other call is in progress, finds the engine there whenever
\* a task uses it, and its traa_init stands until it releases (traa.cc:47,83).
THEOREM DisciplinedUseIsSafeAlways == Spec => []DisciplinedUseIsSafe
<1>1. ASSUME IInv, Posted, Orderly PROVE DisciplinedUseIsSafe
  <2>1. SUFFICES ASSUME disciplined PROVE EngineThereWhenUsed /\ InitStands
    BY DEF DisciplinedUseIsSafe
  <2>2. AtMap /\ Stands
    BY <1>1, <2>1 DEF Orderly
  <2>3. InitStands
    BY <2>2 DEF Stands, InitStands
  <2>4. ASSUME NEW q \in Queues, queue[q].running # None, call[queue[q].running] = "use"
        PROVE  queue[q].engine
    <3>1. queue[q].running \in Callers /\ InQueue(queue[q].running, q)
      BY <1>1, <2>4, QueueParts DEF IInv, InQueue
    <3>2. q = map
      BY <2>2, <3>1 DEF AtMap
    <3> QED
      BY <2>2, <2>4, <3>1, <3>2 DEF Stands
  <2> QED
    BY <2>3, <2>4 DEF EngineThereWhenUsed
<1> QED
  BY <1>1, Invariance, OrderAlways, PTL
=============================================================================
