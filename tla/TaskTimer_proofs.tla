--------------------------- MODULE TaskTimer_proofs ---------------------------
(***************************************************************************)
(* Proofs about TaskTimer, for any timers, requests and bound on the clock. *)
(***************************************************************************)
EXTENDS TaskTimer, SequenceTheorems, TLAPS

\* What makes NoDrift and NeverEarly inductive: a timer has not run before it is
\* made, no timer expires a whole millisecond early, and a handler that came
\* without an error belongs to a timer whose time has come.
Timing ==
  /\ \A t \in Timers : state[t] = "unmade" => runs[t] = 0 /\ expiry[t] = 0
  /\ \A t \in Timers : state[t] # "unmade" /\ ~Repeats(t) => expiry[t] > asked[t] - Milli
  /\ \A i \in DOMAIN ready : ~ready[i].error => expiry[ready[i].timer] <= now

IInv == TypeOK /\ NoDrift /\ NeverEarly /\ Timing

USE TaskTimerAssumption DEF RequestType

-----------------------------------------------------------------------------
\* Cutting to milliseconds loses less than one of them, and nothing of a whole number.
LEMMA MillisecondsCut ==
  ASSUME NEW d \in Int
  PROVE  /\ Milliseconds(d) \in Int
         /\ Milliseconds(d) > d - Milli
         /\ d % Milli = 0 => Milliseconds(d) = d
<1>1. ASSUME NEW n \in Nat
      PROVE  /\ (n \div Milli) * Milli \in Int
             /\ (n \div Milli) * Milli <= n
             /\ (n \div Milli) * Milli > n - Milli
             /\ n % Milli = 0 => (n \div Milli) * Milli = n
  OBVIOUS
<1>2. CASE d >= 0
  BY <1>1, <1>2 DEF Milliseconds
<1>3. CASE ~(d >= 0)
  <2>1. -d \in Nat
    BY <1>3
  <2>2. ASSUME d % Milli = 0 PROVE (-d) % Milli = 0
    <3>1. d = (d \div Milli) * Milli
      BY <2>2
    <3> DEFINE r == (-d) % Milli
               k == (-d) \div Milli + d \div Milli
    <3>2. k \in Int /\ r \in Nat /\ r < Milli /\ 0 = k * Milli + r
      BY <2>1, <3>1
    <3>3. CASE k >= 0
      BY <3>2, <3>3
    <3>4. CASE k <= -1
      <4> HIDE DEF r, k
      <4>1. k * Milli <= -1 * Milli
        BY <3>2, <3>4
      <4> QED
        BY <4>1, <3>2
    <3> QED
      BY <3>2, <3>3, <3>4
  <2> QED
    BY <2>1, <2>2, <1>1, <1>3 DEF Milliseconds
<1> QED
  BY <1>2, <1>3

\* Sums may be taken in either order.
LEMMA PlusAssoc == ASSUME NEW a \in Int, NEW p \in Int, NEW k \in Int
                   PROVE  (a + p) + k = a + (p + k)
  OBVIOUS

\* One more period.
LEMMA OneMore == ASSUME NEW n \in Int, NEW k \in Int
                 PROVE  (n + 1) * k = n * k + k
  OBVIOUS

-----------------------------------------------------------------------------
HandlerType == [timer : Timers, error : BOOLEAN]

\* What TypeOK says of the ready handlers.
LEMMA ReadyShape ==
  ASSUME TypeOK
  PROVE  /\ ready \in Seq(HandlerType) /\ Len(ready) \in Nat
         /\ DOMAIN ready = 1 .. Len(ready)
         /\ \A i \in DOMAIN ready : ready[i].timer \in Timers /\ ready[i].error \in BOOLEAN
<1>1. ready \in Seq(HandlerType)
  BY DEF TypeOK, HandlerType
<1>2. \A i \in 1 .. Len(ready) : ready[i] \in HandlerType
  BY <1>1, ElementOfSeq
<1> QED
  BY <1>1, <1>2, LenProperties DEF HandlerType

\* A waiting timer gets its handler: they stay one each.
LEMMA HandlerJoins ==
  ASSUME TypeOK, NEW t \in Timers, state[t] = "waiting", NEW ec \in BOOLEAN,
         state' = [state EXCEPT ![t] = "ready"],
         ready' = Append(ready, Handler(t, ec))
  PROVE  /\ ready' \in Seq(HandlerType) /\ OneHandlerEach'
         /\ \A i \in DOMAIN ready' : \/ i \in DOMAIN ready /\ ready'[i] = ready[i]
                                     \/ ready'[i] = Handler(t, ec)
<1>1. Handler(t, ec) \in HandlerType /\ Handler(t, ec).timer = t
  BY DEF Handler, HandlerType
<1>2. /\ ready' \in Seq(HandlerType) /\ DOMAIN ready' = 1 .. Len(ready) + 1
      /\ \A i \in 1 .. Len(ready) : ready'[i] = ready[i]
      /\ ready'[Len(ready) + 1] = Handler(t, ec)
  <2>1. /\ ready' \in Seq(HandlerType) /\ Len(ready') = Len(ready) + 1
        /\ \A i \in 1 .. Len(ready) : ready'[i] = ready[i]
        /\ ready'[Len(ready) + 1] = Handler(t, ec)
    BY <1>1, ReadyShape, AppendProperties
  <2>2. DOMAIN ready' = 1 .. Len(ready')
    BY <2>1, LenProperties
  <2> QED
    BY <2>1, <2>2
<1>3. \A i \in DOMAIN ready : ready[i].timer # t
  BY DEF TypeOK, OneHandlerEach
<1>4. \A i \in DOMAIN ready' : \/ i \in DOMAIN ready /\ ready'[i] = ready[i]
                               \/ i = Len(ready) + 1 /\ ready'[i] = Handler(t, ec)
  BY <1>2, ReadyShape
<1>5. \A u \in Timers : state'[u] = IF u = t THEN "ready" ELSE state[u]
  BY DEF TypeOK
<1>6. \A i \in DOMAIN ready' : state'[ready'[i].timer] = "ready"
  <2> SUFFICES ASSUME NEW i \in DOMAIN ready' PROVE state'[ready'[i].timer] = "ready"
    OBVIOUS
  <2>1. CASE i \in DOMAIN ready /\ ready'[i] = ready[i]
    <3>1. ready[i].timer \in Timers /\ state[ready[i].timer] = "ready"
      BY <2>1, ReadyShape DEF TypeOK, OneHandlerEach
    <3> QED
      BY <2>1, <3>1, <1>5
  <2>2. CASE ready'[i] = Handler(t, ec)
    BY <2>2, <1>1, <1>5
  <2> QED
    BY <2>1, <2>2, <1>4
<1>7. \A i, j \in DOMAIN ready' : ready'[i].timer = ready'[j].timer => i = j
  <2> SUFFICES ASSUME NEW i \in DOMAIN ready', NEW j \in DOMAIN ready',
                      ready'[i].timer = ready'[j].timer
               PROVE  i = j
    OBVIOUS
  <2>1. \/ i \in DOMAIN ready /\ ready'[i] = ready[i] /\ ready'[i].timer # t
        \/ i = Len(ready) + 1 /\ ready'[i].timer = t
    BY <1>1, <1>3, <1>4
  <2>2. \/ j \in DOMAIN ready /\ ready'[j] = ready[j] /\ ready'[j].timer # t
        \/ j = Len(ready) + 1 /\ ready'[j].timer = t
    BY <1>1, <1>3, <1>4
  <2> QED
    BY <2>1, <2>2 DEF TypeOK, OneHandlerEach
<1>8. ASSUME NEW u \in Timers, state'[u] = "ready"
      PROVE  \E i \in DOMAIN ready' : ready'[i].timer = u
  <2>1. CASE u = t
    BY <2>1, <1>1, <1>2, ReadyShape
  <2>2. CASE u # t
    <3>1. PICK i \in DOMAIN ready : ready[i].timer = u
      BY <1>5, <1>8, <2>2 DEF TypeOK, OneHandlerEach
    <3> QED
      BY <3>1, <1>2, ReadyShape
  <2> QED
    BY <2>1, <2>2
<1> QED
  BY <1>2, <1>4, <1>6, <1>7, <1>8 DEF OneHandlerEach

\* The oldest handler is taken: its timer is ready no more, the others are.
LEMMA HandlerLeaves ==
  ASSUME TypeOK, ready # << >>, NEW s,
         s # "ready", state' = [state EXCEPT ![Head(ready).timer] = s],
         ready' = Tail(ready)
  PROVE  /\ Head(ready) \in HandlerType /\ Head(ready) = ready[1] /\ 1 \in DOMAIN ready
         /\ state[Head(ready).timer] = "ready"
         /\ ready' \in Seq(HandlerType) /\ OneHandlerEach'
         /\ \A i \in DOMAIN ready' : /\ i + 1 \in DOMAIN ready
                                     /\ ready'[i] = ready[i + 1]
                                     /\ ready'[i].timer # Head(ready).timer
<1>1. /\ Head(ready) \in HandlerType /\ ready' \in Seq(HandlerType)
      /\ Len(ready') = Len(ready) - 1
      /\ \A i \in 1 .. Len(ready') : ready'[i] = ready[i + 1]
  BY ReadyShape, HeadTailProperties
<1>2. Len(ready) # 0
  BY ReadyShape, EmptySeq
<1>3. Head(ready) = ready[1] /\ 1 \in DOMAIN ready
  BY <1>2, ReadyShape
<1>4. DOMAIN ready' = 1 .. Len(ready) - 1
  BY <1>1, LenProperties
<1>5. \A i \in DOMAIN ready' : i + 1 \in DOMAIN ready /\ ready'[i] = ready[i + 1] /\ i + 1 # 1
  BY <1>1, <1>4, ReadyShape
<1>6. \A i \in DOMAIN ready' : ready'[i].timer # Head(ready).timer
  BY <1>3, <1>5 DEF TypeOK, OneHandlerEach
<1>7. \A i \in DOMAIN ready' : state'[ready'[i].timer] = "ready"
  <2> SUFFICES ASSUME NEW i \in DOMAIN ready' PROVE state'[ready'[i].timer] = "ready"
    OBVIOUS
  <2> DEFINE j == i + 1
  <2>1. j \in DOMAIN ready /\ ready'[i] = ready[j]
    BY <1>5
  <2>2. ready[j].timer \in Timers /\ state[ready[j].timer] = "ready"
    BY <2>1, ReadyShape DEF TypeOK, OneHandlerEach
  <2> QED
    BY <2>1, <2>2, <1>6 DEF TypeOK
<1>8. \A i, j \in DOMAIN ready' : ready'[i].timer = ready'[j].timer => i = j
  <2> SUFFICES ASSUME NEW i \in DOMAIN ready', NEW j \in DOMAIN ready',
                      ready'[i].timer = ready'[j].timer
               PROVE  i = j
    OBVIOUS
  <2>1. i + 1 = j + 1
    BY <1>5 DEF TypeOK, OneHandlerEach
  <2> QED
    BY <2>1, <1>4, ReadyShape
<1>9. ASSUME NEW u \in Timers, state'[u] = "ready"
      PROVE  \E i \in DOMAIN ready' : ready'[i].timer = u
  <2>1. u # Head(ready).timer /\ state[u] = "ready"
    BY <1>9, <1>1 DEF TypeOK, HandlerType
  <2>2. PICK i \in DOMAIN ready : ready[i].timer = u
    BY <2>1 DEF TypeOK, OneHandlerEach
  <2>3. i # 1 /\ i - 1 \in DOMAIN ready' /\ (i - 1) + 1 = i
    BY <2>1, <2>2, <1>3, <1>4, ReadyShape
  <2> QED
    BY <2>2, <2>3, <1>5
<1> QED
  BY <1>1, <1>3, <1>5, <1>6, <1>7, <1>8, <1>9 DEF TypeOK, OneHandlerEach

-----------------------------------------------------------------------------
\* The inductive invariant holds before any timer is made.
LEMMA InitInv == Init => IInv
  BY DEF Init, IInv, TypeOK, OneHandlerEach, NoDrift, NeverEarly, Timing

\* Making a timer.
LEMMA EnqueueInv == ASSUME IInv, NEW t \in Timers, Enqueue(t) PROVE IInv'
<1> USE DEF IInv, Enqueue
<1>1. /\ request[t] \in RequestType /\ request[t].delay \in Int
      /\ Repeats(t) => request[t].delay % Milli = 0
  BY DEF TypeOK, Repeats
<1>2. /\ Milliseconds(request[t].delay) \in Int
      /\ Milliseconds(request[t].delay) > request[t].delay - Milli
      /\ Repeats(t) => Milliseconds(request[t].delay) = request[t].delay
  BY <1>1, MillisecondsCut
<1>3. runs[t] = 0 /\ now \in Int
  BY DEF Timing, TypeOK
<1>4. OneHandlerEach'
  BY ReadyShape, ZenonT(30) DEF TypeOK, OneHandlerEach
<1>5. TypeOK'
  BY <1>1, <1>2, <1>3, <1>4, SMTT(30) DEF TypeOK
<1>6. NoDrift'
  BY <1>1, <1>2, <1>3, SMTT(30) DEF NoDrift, TypeOK, Repeats, interval
<1>7. NeverEarly'
  BY <1>3, SMTT(30) DEF NeverEarly, TypeOK, Repeats, interval
<1>8. \A i \in DOMAIN ready : ready[i].timer # t
  BY DEF TypeOK, OneHandlerEach
<1>9. Timing'
  <2>1. \A u \in Timers \ {t} : /\ state'[u] = state[u] /\ expiry'[u] = expiry[u]
                               /\ asked'[u] = asked[u]
    BY DEF TypeOK
  <2>2. /\ state'[t] # "unmade" /\ asked'[t] = now + request[t].delay
        /\ expiry'[t] = now + Milliseconds(request[t].delay)
    BY DEF TypeOK
  <2>3. expiry'[t] > asked'[t] - Milli
    BY <2>2, <1>1, <1>2, <1>3
  <2>4. \A i \in DOMAIN ready : ~ready[i].error => expiry'[ready[i].timer] <= now
    BY <2>1, <1>8, ReadyShape DEF Timing
  <2> QED
    BY <2>1, <2>2, <2>3, <2>4 DEF Timing, Repeats
<1> QED
  BY <1>5, <1>6, <1>7, <1>9

\* A timer comes due.
LEMMA ExpireInv == ASSUME IInv, NEW t \in Timers, Expire(t) PROVE IInv'
<1> USE DEF IInv, Expire
<1>1. /\ ready' \in Seq(HandlerType) /\ OneHandlerEach'
      /\ \A i \in DOMAIN ready' : \/ i \in DOMAIN ready /\ ready'[i] = ready[i]
                                  \/ ready'[i] = Handler(t, FALSE)
  BY HandlerJoins
<1>2. TypeOK'
  BY <1>1 DEF TypeOK, HandlerType
<1>3. NoDrift'
  BY DEF NoDrift, TypeOK, Repeats, interval
<1>4. NeverEarly'
  BY DEF NeverEarly, TypeOK, Repeats, interval
<1>5. \A i \in DOMAIN ready' : ~ready'[i].error => expiry[ready'[i].timer] <= now
  BY <1>1 DEF Timing, Handler
<1>6. Timing'
  BY <1>5 DEF Timing, TypeOK, Repeats
<1> QED
  BY <1>2, <1>3, <1>4, <1>6

\* A handler is dispatched.
LEMMA DispatchInv == ASSUME IInv, Dispatch PROVE IInv'
<1> USE DEF IInv
<1> DEFINE t == Head(ready).timer
<1>1. PICK s \in {"spent", "running"} : state' = [state EXCEPT ![t] = s]
  BY DEF Dispatch
<1>2. /\ Head(ready) \in HandlerType /\ Head(ready) = ready[1] /\ 1 \in DOMAIN ready
      /\ state[t] = "ready"
      /\ ready' \in Seq(HandlerType) /\ OneHandlerEach'
      /\ \A i \in DOMAIN ready' : /\ i + 1 \in DOMAIN ready
                                  /\ ready'[i] = ready[i + 1]
                                  /\ ready'[i].timer # t
  BY <1>1, HandlerLeaves DEF Dispatch
<1>3. t \in Timers
  BY <1>2 DEF HandlerType
<1>4. UNCHANGED <<now, request, asked, stop, queue>>
  BY DEF Dispatch
<1>5. \/ UNCHANGED <<expiry, runs, late>>
      \/ /\ expiry[t] <= now
         /\ runs' = [runs EXCEPT ![t] = @ + 1]
         /\ late' = [late EXCEPT ![t] = IF stop[t] = "no" THEN 0 ELSE @ + 1]
         /\ expiry' = [expiry EXCEPT ![t] = IF Repeats(t) THEN @ + interval(t) ELSE @]
  BY <1>2 DEF Dispatch, Timing
<1>6. interval(t) \in Int /\ runs[t] \in Nat
  BY <1>3 DEF TypeOK, interval
<1>7. (runs[t] + 1) * interval(t) = runs[t] * interval(t) + interval(t)
      /\ runs[t] * interval(t) \in Int
  BY <1>6, OneMore
<1>8. TypeOK'
  <2>1. /\ expiry' \in [Timers -> Int] /\ runs' \in [Timers -> Nat]
        /\ late' \in [Timers -> Nat]
    <3>1. CASE UNCHANGED <<expiry, runs, late>>
      BY <3>1 DEF TypeOK
    <3>2. CASE /\ runs' = [runs EXCEPT ![t] = @ + 1]
               /\ late' = [late EXCEPT ![t] = IF stop[t] = "no" THEN 0 ELSE @ + 1]
               /\ expiry' = [expiry EXCEPT ![t] = IF Repeats(t) THEN @ + interval(t) ELSE @]
      <4>1. expiry[t] + interval(t) \in Int /\ runs[t] + 1 \in Nat /\ late[t] + 1 \in Nat
        BY <1>3, <1>6, SMTT(30) DEF TypeOK
      <4>2. runs' \in [Timers -> Nat] /\ late' \in [Timers -> Nat]
        BY <3>2, <4>1 DEF TypeOK
      <4>3. expiry' \in [Timers -> Int]
        BY <3>2, <4>1 DEF TypeOK
      <4> QED
        BY <4>2, <4>3
    <3> QED
      BY <3>1, <3>2, <1>5
  <2>2. state' \in [Timers -> {"unmade", "waiting", "ready", "running", "spent"}]
    BY <1>1 DEF TypeOK
  <2> QED
    BY <2>1, <2>2, <1>2, <1>4 DEF TypeOK, HandlerType
<1>9. \A u \in Timers : state'[u] = "unmade" <=> state[u] = "unmade"
  BY <1>1, <1>2, <1>3 DEF TypeOK
<1>10. ASSUME NEW u \in Timers, u # t
       PROVE  runs'[u] = runs[u] /\ expiry'[u] = expiry[u]
  BY <1>3, <1>5, <1>10 DEF TypeOK
<1>11. NoDrift'
  <2> SUFFICES ASSUME NEW u \in Timers, Repeats(u)
               PROVE  expiry'[u] = IF state'[u] = "unmade" THEN 0
                                   ELSE asked[u] + runs'[u] * interval(u)
    BY <1>4 DEF NoDrift, Repeats, interval
  <2>1. CASE u # t
    BY <2>1, <1>9, <1>10 DEF NoDrift
  <2>2. CASE u = t
    <3>1. expiry[t] = asked[t] + runs[t] * interval(t) /\ asked[t] \in Int
      BY <2>2, <1>2 DEF NoDrift, TypeOK
    <3>2. CASE UNCHANGED <<expiry, runs, late>>
      BY <3>1, <3>2, <2>2, <1>2, <1>9
    <3>3. CASE expiry'[t] = expiry[t] + interval(t) /\ runs'[t] = runs[t] + 1
      <4>1. runs'[t] * interval(t) = runs[t] * interval(t) + interval(t)
        BY <3>3, <1>7
      <4>2. expiry'[t] = (asked[t] + runs[t] * interval(t)) + interval(t)
        BY <3>1, <3>3
      <4>3. expiry'[t] = asked[t] + runs'[t] * interval(t)
        BY <4>1, <4>2, <3>1, <1>6, <1>7, PlusAssoc
      <4> QED
        BY <4>3, <2>2, <1>2, <1>9
    <3> QED
      BY <3>2, <3>3, <2>2, <1>3, <1>5 DEF TypeOK
  <2> QED
    BY <2>1, <2>2
<1>12. NeverEarly'
  <2> SUFFICES ASSUME NEW u \in Timers, runs'[u] > 0
               PROVE  now > asked[u] - Milli
                              + (IF Repeats(u) THEN (runs'[u] - 1) * interval(u) ELSE 0)
    BY <1>4 DEF NeverEarly, Repeats, interval
  <2>1. CASE u # t \/ UNCHANGED <<expiry, runs, late>>
    BY <2>1, <1>10 DEF NeverEarly
  <2>2. CASE u = t /\ expiry[t] <= now /\ runs'[t] = runs[t] + 1
    <3>1. /\ now \in Int /\ expiry[t] \in Int /\ asked[t] \in Int
          /\ (runs[t] + 1) - 1 = runs[t]
      BY <1>3, <1>6 DEF TypeOK
    <3>2. CASE Repeats(t)
      <4>1. expiry[t] = asked[t] + runs[t] * interval(t)
        BY <3>2, <1>2, <1>3 DEF NoDrift
      <4> QED
        BY <2>2, <3>1, <3>2, <4>1, <1>7
    <3>3. CASE ~Repeats(t)
      <4>1. expiry[t] > asked[t] - Milli
        BY <3>3, <1>2, <1>3 DEF Timing
      <4> QED
        BY <2>2, <3>1, <3>3, <4>1
    <3> QED
      BY <3>2, <3>3
  <2> QED
    BY <2>1, <2>2, <1>3, <1>5 DEF TypeOK
<1>13. Timing'
  <2>1. \A u \in Timers : state'[u] = "unmade" => runs'[u] = 0 /\ expiry'[u] = 0
    BY <1>2, <1>9, <1>10 DEF Timing
  <2>2. \A u \in Timers : state'[u] # "unmade" /\ ~Repeats(u) => expiry'[u] > asked[u] - Milli
    BY <1>3, <1>5, <1>9 DEF Timing, TypeOK
  <2>3. \A i \in DOMAIN ready' : ~ready'[i].error => expiry'[ready'[i].timer] <= now
    BY <1>2, <1>10, ReadyShape DEF Timing
  <2> QED
    BY <2>1, <2>2, <2>3, <1>4 DEF Timing, Repeats
<1> QED
  BY <1>8, <1>11, <1>12, <1>13

\* A timer is stopped.
LEMMA StopInv == ASSUME IInv, NEW t \in Timers, Stop(t) PROVE IInv'
<1> USE DEF IInv, Stop
<1>1. /\ ready' \in Seq(HandlerType) /\ OneHandlerEach'
      /\ \A i \in DOMAIN ready' : \/ i \in DOMAIN ready /\ ready'[i] = ready[i]
                                  \/ ready'[i] = Handler(t, TRUE)
  <2>1. CASE state[t] = "waiting"
    BY <2>1, HandlerJoins
  <2>2. CASE UNCHANGED <<state, ready>>
    BY <2>2, ReadyShape DEF TypeOK, OneHandlerEach
  <2> QED
    BY <2>1, <2>2
<1>2. TypeOK'
  BY <1>1 DEF TypeOK, HandlerType
<1>3. NoDrift'
  BY ZenonT(30) DEF NoDrift, TypeOK, Repeats, interval
<1>4. NeverEarly'
  BY DEF NeverEarly, TypeOK, Repeats, interval
<1>5. \A i \in DOMAIN ready' : ~ready'[i].error => expiry[ready'[i].timer] <= now
  BY <1>1 DEF Timing, Handler
<1>6. Timing'
  BY <1>5 DEF Timing, TypeOK, Repeats
<1> QED
  BY <1>2, <1>3, <1>4, <1>6

\* Time passes.
LEMMA TickInv == ASSUME IInv, Tick PROVE IInv'
<1> USE DEF IInv, Tick
<1>1. OneHandlerEach'
  BY ReadyShape DEF TypeOK, OneHandlerEach
<1>2. TypeOK'
  BY <1>1 DEF TypeOK
<1>3. NoDrift'
  BY DEF NoDrift, TypeOK, Repeats, interval
<1>4. NeverEarly'
  BY DEF NeverEarly, TypeOK, Repeats, interval
<1>5. \A i \in DOMAIN ready : ~ready[i].error => expiry[ready[i].timer] <= now + 1
  <2> SUFFICES ASSUME NEW i \in DOMAIN ready, ~ready[i].error
               PROVE  expiry[ready[i].timer] <= now + 1
    OBVIOUS
  <2>1. expiry[ready[i].timer] \in Int /\ now \in Int
    BY ReadyShape, SMTT(30) DEF TypeOK
  <2>2. expiry[ready[i].timer] <= now
    BY DEF Timing
  <2> QED
    BY <2>1, <2>2
<1>6. Timing'
  BY <1>5 DEF Timing, TypeOK, Repeats
<1> QED
  BY <1>2, <1>3, <1>4, <1>6

\* A task returns.
LEMMA ReturnInv == ASSUME IInv, NEW t \in Timers, TaskReturns(t) PROVE IInv'
<1> USE DEF IInv, TaskReturns
<1>1. OneHandlerEach'
  BY ReadyShape, ZenonT(30) DEF TypeOK, OneHandlerEach
<1>2. TypeOK'
  BY <1>1 DEF TypeOK
<1>3. NoDrift'
  BY DEF NoDrift, TypeOK, Repeats, interval
<1>4. NeverEarly'
  BY DEF NeverEarly, TypeOK, Repeats, interval
<1>5. Timing'
  BY ReadyShape DEF Timing, TypeOK, Repeats
<1> QED
  BY <1>2, <1>3, <1>4, <1>5

\* The queue is stopped, or its thread leaves.
LEMMA EndInv == ASSUME IInv, StopQueue \/ ExitQueue PROVE IInv'
<1> USE DEF IInv, StopQueue, ExitQueue
<1>1. OneHandlerEach'
  BY ReadyShape DEF TypeOK, OneHandlerEach
<1>2. TypeOK'
  BY <1>1 DEF TypeOK
<1>3. NoDrift'
  BY DEF NoDrift, TypeOK, Repeats, interval
<1>4. NeverEarly'
  BY DEF NeverEarly, TypeOK, Repeats, interval
<1>5. Timing'
  BY ReadyShape DEF Timing, TypeOK, Repeats
<1> QED
  BY <1>2, <1>3, <1>4, <1>5

\* The queue is destroyed.
LEMMA DestroyInv == ASSUME IInv, DestroyQueue PROVE IInv'
<1> USE DEF IInv, DestroyQueue
<1>1. OneHandlerEach'
  BY ReadyShape DEF TypeOK, OneHandlerEach
<1>2. TypeOK'
  BY <1>1 DEF TypeOK
<1>3. NoDrift'
  BY DEF NoDrift, TypeOK, Repeats, interval
<1>4. NeverEarly'
  BY DEF NeverEarly, TypeOK, Repeats, interval
<1>5. Timing'
  BY ReadyShape DEF Timing, TypeOK, Repeats
<1> QED
  BY <1>2, <1>3, <1>4, <1>5

\* Nothing happens.
LEMMA StutterInv == ASSUME IInv, UNCHANGED vars PROVE IInv'
<1> USE DEF IInv, vars
<1>1. OneHandlerEach'
  BY ReadyShape DEF TypeOK, OneHandlerEach
<1>2. TypeOK'
  BY <1>1 DEF TypeOK
<1>3. NoDrift'
  BY DEF NoDrift, TypeOK, Repeats, interval
<1>4. NeverEarly'
  BY DEF NeverEarly, TypeOK, Repeats, interval
<1>5. Timing'
  BY ReadyShape DEF Timing, TypeOK, Repeats
<1> QED
  BY <1>2, <1>3, <1>4, <1>5

\* Every step keeps the inductive invariant.
LEMMA NextInv == IInv /\ [Next]_vars => IInv'
  BY EnqueueInv, ExpireInv, DispatchInv, StopInv, TickInv, ReturnInv, EndInv, DestroyInv,
     StutterInv DEF Next, QueueStep

\* The inductive invariant holds in every reachable state.
LEMMA Invariance == Spec => []IInv
  BY InitInv, NextInv, PTL DEF Spec

-----------------------------------------------------------------------------
\* The variables never leave their types and each ready timer has its one handler.
THEOREM TypeCorrect == Spec => []TypeOK
  BY Invariance, PTL DEF IInv

\* Repeating timers keep to first + n * interval, whatever is late.
THEOREM NoDriftCorrect == Spec => []NoDrift
  BY Invariance, PTL DEF IInv

\* No execution begins a whole millisecond before its time.
THEOREM NeverEarlyCorrect == Spec => []NeverEarly
  BY Invariance, PTL DEF IInv

-----------------------------------------------------------------------------
\* A timer whose wait was found by stop() is over or has only the handler with the
\* error before it.
Found ==
  \A t \in Timers :
    stop[t] = "found" =>
      /\ state[t] \in {"ready", "spent"}
      /\ \A i \in DOMAIN ready : ready[i].timer = t => ready[i].error

\* Every step keeps Found.
LEMMA FoundNext == TypeOK /\ Found /\ [Next]_vars => Found'
<1> SUFFICES ASSUME TypeOK, Found, [Next]_vars PROVE Found'
  OBVIOUS
<1>1. ASSUME NEW t \in Timers, Enqueue(t) PROVE Found'
  BY <1>1 DEF Enqueue, Found, TypeOK
<1>2. ASSUME NEW t \in Timers, Expire(t) PROVE Found'
  <2>1. \A i \in DOMAIN ready' : \/ i \in DOMAIN ready /\ ready'[i] = ready[i]
                                 \/ ready'[i] = Handler(t, FALSE)
    BY <1>2, HandlerJoins DEF Expire
  <2>2. stop[t] # "found"
    BY <1>2 DEF Expire, Found
  <2> QED
    <3> SUFFICES ASSUME NEW u \in Timers, stop[u] = "found"
                 PROVE  /\ state'[u] \in {"ready", "spent"}
                        /\ \A i \in DOMAIN ready' : ready'[i].timer = u => ready'[i].error
      BY <1>2 DEF Expire, Found
    <3>1. u # t /\ state'[u] = state[u]
      BY <1>2, <2>2 DEF Expire, TypeOK
    <3>2. \A i \in DOMAIN ready' : ready'[i].timer = u => i \in DOMAIN ready /\ ready'[i] = ready[i]
      BY <2>1, <3>1 DEF Handler
    <3> QED
      BY <3>1, <3>2 DEF Found
<1>3. CASE Dispatch
  <2> DEFINE t == Head(ready).timer
  <2>1. PICK s \in {"spent", "running"} : /\ state' = [state EXCEPT ![t] = s]
                                          /\ s = "running" => ~Head(ready).error
    BY <1>3 DEF Dispatch
  <2>2. /\ Head(ready) \in HandlerType /\ Head(ready) = ready[1] /\ 1 \in DOMAIN ready
        /\ \A i \in DOMAIN ready' : i + 1 \in DOMAIN ready /\ ready'[i] = ready[i + 1]
    BY <1>3, <2>1, HandlerLeaves DEF Dispatch
  <2>3. stop[t] = "found" => s = "spent"
    BY <2>1, <2>2 DEF Found, HandlerType
  <2>4. UNCHANGED stop
    BY <1>3 DEF Dispatch
  <2>5. \A u \in Timers : state'[u] = IF u = t THEN s ELSE state[u]
    BY <2>1 DEF TypeOK
  <2> QED
    BY <2>2, <2>3, <2>4, <2>5 DEF Found
<1>4. ASSUME NEW t \in Timers, Stop(t) PROVE Found'
  <2>1. CASE state[t] = "waiting"
    <3>1. \A i \in DOMAIN ready' : \/ i \in DOMAIN ready /\ ready'[i] = ready[i]
                                   \/ ready'[i] = Handler(t, TRUE)
      BY <1>4, <2>1, HandlerJoins DEF Stop
    <3>2. \A i \in DOMAIN ready : ready[i].timer # t
      BY <2>1 DEF TypeOK, OneHandlerEach
    <3> QED
      <4> SUFFICES ASSUME NEW u \in Timers, stop'[u] = "found"
                   PROVE  /\ state'[u] \in {"ready", "spent"}
                          /\ \A i \in DOMAIN ready' : ready'[i].timer = u => ready'[i].error
        BY DEF Found
      <4>1. CASE u = t
        <5>1. state'[u] = "ready"
          BY <1>4, <2>1, <4>1 DEF Stop, TypeOK
        <5>2. \A i \in DOMAIN ready' : ready'[i].timer = u => ready'[i] = Handler(t, TRUE)
          BY <3>1, <3>2, <4>1
        <5> QED
          BY <5>1, <5>2 DEF Handler
      <4>2. CASE u # t
        <5>1. state'[u] = state[u] /\ stop'[u] = stop[u]
          BY <1>4, <2>1, <4>2 DEF Stop, TypeOK
        <5>2. \A i \in DOMAIN ready' : ready'[i].timer = u =>
                                      i \in DOMAIN ready /\ ready'[i] = ready[i]
          BY <3>1, <4>2 DEF Handler
        <5> QED
          BY <5>1, <5>2 DEF Found
      <4> QED
        BY <4>1, <4>2
  <2>2. CASE state[t] # "waiting"
    BY <1>4, <2>2 DEF Stop, Found, TypeOK
  <2> QED
    BY <2>1, <2>2
<1>5. CASE Tick \/ StopQueue \/ ExitQueue \/ UNCHANGED vars
  BY <1>5 DEF Tick, StopQueue, ExitQueue, vars, Found
<1>6. ASSUME NEW t \in Timers, TaskReturns(t) PROVE Found'
  BY <1>6 DEF TaskReturns, Found, TypeOK
<1>7. CASE DestroyQueue
  BY <1>7 DEF DestroyQueue, Found, TypeOK
<1> QED
  BY <1>1, <1>2, <1>3, <1>4, <1>5, <1>6, <1>7 DEF Next, QueueStep

\* A step begins an execution only by dispatching a handler without an error.
LEMMA FoundStep == TypeOK /\ Found /\ [Next]_vars =>
                     [\A t \in Timers : stop[t] = "found" => runs'[t] = runs[t]]_vars
<1> SUFFICES ASSUME TypeOK, Found, [Next]_vars, NEW t \in Timers, stop[t] = "found"
             PROVE  runs'[t] = runs[t]
  OBVIOUS
<1>1. CASE Dispatch
  <2>1. CASE runs' = [runs EXCEPT ![Head(ready).timer] = @ + 1] /\ ~Head(ready).error
    <3>1. Head(ready) \in HandlerType /\ Head(ready) = ready[1] /\ 1 \in DOMAIN ready
      BY <1>1, ReadyShape, HeadTailProperties, EmptySeq DEF Dispatch
    <3>2. Head(ready).timer # t
      BY <2>1, <3>1 DEF Found
    <3> QED
      BY <2>1, <3>2 DEF TypeOK
  <2> QED
    BY <1>1, <2>1 DEF Dispatch
<1>2. CASE runs' = runs
  BY <1>2
<1> QED
  BY <1>1, <1>2 DEF Next, QueueStep, Enqueue, Expire, TaskReturns, Stop, Tick, StopQueue,
                    ExitQueue, DestroyQueue, vars

\* A stop() that finds the timer waiting is final.
THEOREM FoundStopCorrect == Spec => FoundStopIsFinal
<1>1. Init => Found
  BY DEF Init, Found
<1> QED
  BY <1>1, TypeCorrect, FoundNext, FoundStep, PTL DEF Spec, FoundStopIsFinal

=============================================================================
