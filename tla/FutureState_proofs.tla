-------------------------- MODULE FutureState_proofs --------------------------
(***************************************************************************)
(* Proofs about FutureState, for any finite number of handles.             *)
(***************************************************************************)
EXTENDS FutureState, FiniteSetTheorems, TLAPS

\* What the promise's progress says about the bits and about the handles: the
\* part that makes the other invariants inductive.  A promise that went away
\* without settling the state left nobody who could ask for the result.
PromiseTellsBits ==
  /\ "constructed" \in bits <=> "ready" \in bits
  /\ ~("ready" \in bits /\ "abandoned" \in bits)
  /\ promise = "new" => bits = {} /\ Referring = {}
  /\ promise \in {"armed", "abandoning"} => ~settled
  /\ promise = "set" => "ready" \in bits
  /\ promise \in {"releasing", "gone"} /\ ~settled => Referring = {}

IInv == /\ TypeOK
        /\ CountMatchesHolders
        /\ FreedExactlyWhenUnheld
        /\ NoLostWakeup
        /\ PromiseTellsBits

USE HandlesAssumption

-----------------------------------------------------------------------------
\* The handles that refer to the state are finitely many, so they can be counted.
LEMMA ReferringFinite == IsFiniteSet(Referring)
  BY FS_Subset DEF Referring

\* How many they are, and when they are none.
LEMMA ReferringCount ==
  /\ Cardinality(Referring) \in Nat
  /\ Cardinality(Referring) = 0 <=> Referring = {}
<1>1. Cardinality(Referring) \in Nat
  BY ReferringFinite, FS_CardinalityType
<1>2. Cardinality(Referring) = 0 <=> Referring = {}
  BY ReferringFinite, FS_EmptySet
<1> QED
  BY <1>1, <1>2

\* A step that changes no handle between "refers" and "does not" keeps the set.
LEMMA ReferringSame ==
  ASSUME \A h \in Handles : pc[h] \in {"none", "gone"} <=> pc'[h] \in {"none", "gone"}
  PROVE  Referring' = Referring
  BY DEF Referring

\* Waking the waiters moves program points only inside a call.
LEMMA NotifyKeepsReferring ==
  ASSUME TypeOK, NotifyAll
  PROVE  /\ Referring' = Referring
         /\ pc' \in [Handles -> HandlePoints]
         /\ \A h \in Handles : pc'[h] \notin {"copy_blocked", "wait_until_blocked"}
  BY DEF TypeOK, NotifyAll, HandlePoints, Referring

\* The inductive invariant holds of a new shared state.
LEMMA InitInv == Init => IInv
<1>1. SUFFICES ASSUME Init PROVE IInv
  OBVIOUS
<1>2. Referring = {}
  BY <1>1 DEF Init, Referring
<1>3. TypeOK
  <2>1. /\ bits \subseteq Bits /\ owners \in Int /\ promise \in PromisePoints
        /\ pc \in [Handles -> HandlePoints] /\ op \in [Handles -> Ops]
        /\ result \in [Handles -> Results]
    BY <1>1 DEF Init, Bits, PromisePoints, HandlePoints, Ops, Results
  <2>2. freed \in BOOLEAN /\ expired \in [Handles -> BOOLEAN]
    BY <1>1, Zenon DEF Init
  <2> QED
    BY <2>1, <2>2 DEF TypeOK
<1>4. CountMatchesHolders /\ FreedExactlyWhenUnheld
  BY <1>1, <1>2, FS_EmptySet DEF Init, CountMatchesHolders, FreedExactlyWhenUnheld
<1>5. NoLostWakeup /\ PromiseTellsBits
  BY <1>1, <1>2 DEF Init, NoLostWakeup, PromiseTellsBits
<1> QED
  BY <1>3, <1>4, <1>5 DEF IInv

-----------------------------------------------------------------------------
\* Steps by which a handle enters, leaves or moves within a call keep the
\* invariant as long as the moved handle blocks only on an undecided state.
LEMMA MoveKeepsInv ==
  ASSUME IInv, NEW h \in Handles,
         TypeOK', NoLostWakeup',
         pc[h] \notin {"none", "gone"}, pc'[h] \notin {"none", "gone"},
         \A g \in Handles \ {h} : pc'[g] = pc[g],
         UNCHANGED <<bits, owners, freed, promise>>
  PROVE  IInv'
<1>1. Referring' = Referring
  BY ReferringSame
<1> QED
  BY <1>1 DEF IInv, CountMatchesHolders, FreedExactlyWhenUnheld, PromiseTellsBits, settled

\* Every step of promise and handles keeps the inductive invariant.
LEMMA NextInv == IInv /\ [Next]_vars => IInv'
<1> SUFFICES ASSUME IInv, [Next]_vars PROVE IInv'
  OBVIOUS
<1> USE DEF IInv
<1>1. ASSUME NEW h \in Handles, GetFuture(h) PROVE IInv'
  <2>1. Referring = {} /\ Referring' = {h} /\ owners = 0
    BY <1>1, FS_EmptySet
       DEF GetFuture, PromiseTellsBits, Referring, TypeOK, CountMatchesHolders
  <2>2. TypeOK'
    BY <1>1 DEF GetFuture, TypeOK, Bits, PromisePoints, HandlePoints
  <2>3. CountMatchesHolders' /\ FreedExactlyWhenUnheld'
    BY <1>1, <2>1, FS_Singleton
       DEF GetFuture, CountMatchesHolders, FreedExactlyWhenUnheld
  <2>4. NoLostWakeup' /\ PromiseTellsBits'
    BY <1>1, <2>1 DEF GetFuture, NoLostWakeup, PromiseTellsBits, settled, TypeOK, Referring
  <2> QED
    BY <2>2, <2>3, <2>4
<1>2. ASSUME NEW h \in Handles, NEW g \in Handles, CopyHandle(h, g) PROVE IInv'
  <2>1. /\ g \notin Referring /\ h \in Referring
        /\ Referring' = Referring \union {g}
    BY <1>2 DEF CopyHandle, Referring, TypeOK
  <2>2. Cardinality(Referring') = Cardinality(Referring) + 1
    BY <2>1, ReferringFinite, FS_AddElement
  <2>3. TypeOK'
    BY <1>2 DEF CopyHandle, TypeOK, HandlePoints
  <2>4. CountMatchesHolders' /\ FreedExactlyWhenUnheld'
    BY <1>2, <2>1, <2>2, ReferringFinite, FS_CardinalityType
       DEF CopyHandle, CountMatchesHolders, FreedExactlyWhenUnheld, TypeOK
  <2>5. NoLostWakeup' /\ PromiseTellsBits'
    BY <1>2, <2>1 DEF CopyHandle, NoLostWakeup, PromiseTellsBits, settled, TypeOK
  <2> QED
    BY <2>3, <2>4, <2>5
<1>3. ASSUME NEW h \in Handles, DropHandle(h) PROVE IInv'
  <2>1. h \in Referring /\ Referring' = Referring \ {h}
    BY <1>3 DEF DropHandle, Referring, TypeOK
  <2>2. /\ Cardinality(Referring') = Cardinality(Referring) - 1
        /\ Cardinality(Referring) \in Nat
        /\ Cardinality(Referring) = 1 <=> Referring' = {}
    <3>1. IsFiniteSet(Referring') /\ Cardinality(Referring') = Cardinality(Referring) - 1
      BY <2>1, ReferringFinite, FS_RemoveElement
    <3>2. Cardinality(Referring') = 0 <=> Referring' = {}
      BY <3>1, FS_EmptySet
    <3> QED
      BY <3>1, <3>2, ReferringCount
  <2>3. TypeOK'
    BY <1>3 DEF DropHandle, ReleaseShared, TypeOK, HandlePoints
  <2>4. owners' = owners - 1 /\ promise' = promise /\ (freed' <=> freed \/ owners = 0)
    BY <1>3 DEF DropHandle, ReleaseShared
  <2>6. CountMatchesHolders' /\ FreedExactlyWhenUnheld'
    BY <2>1, <2>2, <2>4, ReferringCount DEF CountMatchesHolders, FreedExactlyWhenUnheld, TypeOK
  <2>5. NoLostWakeup' /\ PromiseTellsBits'
    BY <1>3, <2>1 DEF DropHandle, NoLostWakeup, PromiseTellsBits, settled, TypeOK
  <2> QED
    BY <2>3, <2>5, <2>6
<1>4. CASE SetValue
  <2>1. Referring' = Referring /\ TypeOK'
    BY <1>4, NotifyKeepsReferring DEF SetValue, TypeOK, Bits, PromisePoints
  <2>2. CountMatchesHolders' /\ FreedExactlyWhenUnheld'
    BY <1>4, <2>1 DEF SetValue, CountMatchesHolders, FreedExactlyWhenUnheld
  <2>3. NoLostWakeup'
    BY <1>4, NotifyKeepsReferring DEF SetValue, NoLostWakeup
  <2>4. PromiseTellsBits'
    BY <1>4, <2>1 DEF SetValue, PromiseTellsBits, settled, has_value
  <2> QED
    BY <2>1, <2>2, <2>3, <2>4
<1>5. CASE DestroyPromise
  <2>1. Referring' = Referring
    BY <1>5 DEF DestroyPromise, Referring
  <2>2. TypeOK'
    BY <1>5 DEF DestroyPromise, TypeOK, PromisePoints
  <2>3. CountMatchesHolders' /\ FreedExactlyWhenUnheld'
    BY <1>5, <2>1 DEF DestroyPromise, CountMatchesHolders, FreedExactlyWhenUnheld
  <2>4. ~settled /\ ~(use_count > 1) => Referring = {}
    BY <1>5, ReferringCount DEF DestroyPromise, use_count, CountMatchesHolders, TypeOK
  <2>5. promise = "new" => use_count = 1
    BY ReferringCount DEF PromiseTellsBits, CountMatchesHolders, use_count, TypeOK
  <2>6. NoLostWakeup'
    BY <1>5, <2>4 DEF DestroyPromise, NoLostWakeup, settled, has_value, Referring,
                      PromiseTellsBits
  <2>7. PromiseTellsBits'
    BY <1>5, <2>1, <2>4, <2>5 DEF DestroyPromise, PromiseTellsBits, settled, has_value
  <2> QED
    BY <2>2, <2>3, <2>6, <2>7
<1>6. CASE MakeAbandoned
  <2>1. Referring' = Referring /\ TypeOK'
    BY <1>6, NotifyKeepsReferring DEF MakeAbandoned, TypeOK, Bits, PromisePoints
  <2>2. CountMatchesHolders' /\ FreedExactlyWhenUnheld'
    BY <1>6, <2>1 DEF MakeAbandoned, CountMatchesHolders, FreedExactlyWhenUnheld
  <2>3. NoLostWakeup'
    BY <1>6, NotifyKeepsReferring DEF MakeAbandoned, NoLostWakeup
  <2>4. PromiseTellsBits'
    BY <1>6, <2>1 DEF MakeAbandoned, PromiseTellsBits, settled
  <2> QED
    BY <2>1, <2>2, <2>3, <2>4
<1>7. CASE ReleasePromise
  <2>1. Referring' = Referring
    BY <1>7 DEF ReleasePromise, Referring
  <2>2. TypeOK'
    BY <1>7 DEF ReleasePromise, ReleaseShared, TypeOK, PromisePoints
  <2>3. owners' = owners - 1 /\ (freed' <=> freed \/ owners = 0)
    BY <1>7 DEF ReleasePromise, ReleaseShared
  <2>5. promise # "gone" /\ promise' = "gone"
    BY <1>7 DEF ReleasePromise
  <2>6. CountMatchesHolders' /\ FreedExactlyWhenUnheld'
    BY <2>1, <2>3, <2>5, ReferringCount DEF CountMatchesHolders, FreedExactlyWhenUnheld, TypeOK
  <2>4. NoLostWakeup' /\ PromiseTellsBits'
    BY <1>7, <2>1 DEF ReleasePromise, NoLostWakeup, PromiseTellsBits, settled
  <2> QED
    BY <2>2, <2>4, <2>6
<1>8. ASSUME NEW h \in Handles, NEW o \in Ops, Call(h, o) PROVE IInv'
  <2>1. TypeOK'
    BY <1>8, ZenonT(30) DEF Call, Return, TypeOK, HandlePoints, Ops, Results
  <2>2. NoLostWakeup'
    BY <1>8 DEF Call, Return, NoLostWakeup, TypeOK, settled
  <2> QED
    BY <1>8, <2>1, <2>2, MoveKeepsInv DEF Call, Return, TypeOK
<1>9. ASSUME NEW h \in Handles, Copy(h) PROVE IInv'
  <2>1. TypeOK'
    BY <1>9, ZenonT(30) DEF Copy, Return, Go, TypeOK, HandlePoints, Ops, Results
  <2>2. ~settled => promise \in {"armed", "abandoning"}
    BY <1>9 DEF Copy, PromiseTellsBits, TypeOK, PromisePoints, Referring, settled
  <2>3. NoLostWakeup'
    BY <1>9, <2>2 DEF Copy, Return, Go, NoLostWakeup, TypeOK, settled
  <2> QED
    BY <1>9, <2>1, <2>3, MoveKeepsInv DEF Copy, Return, Go, TypeOK
<1>10. ASSUME NEW h \in Handles, WaitUntil(h) PROVE IInv'
  <2>1. TypeOK'
    BY <1>10, ZenonT(30) DEF WaitUntil, Return, Go, TypeOK, HandlePoints, Ops, Results
  <2>2. ~settled => promise \in {"armed", "abandoning"}
    BY <1>10 DEF WaitUntil, PromiseTellsBits, TypeOK, PromisePoints, Referring, settled
  <2>3. NoLostWakeup'
    BY <1>10, <2>2 DEF WaitUntil, Return, Go, NoLostWakeup, TypeOK, settled
  <2> QED
    BY <1>10, <2>1, <2>3, MoveKeepsInv DEF WaitUntil, Return, Go, TypeOK
<1>11. ASSUME NEW h \in Handles, Expire(h) \/ TimedWake(h) \/ SpuriousWake(h) PROVE IInv'
  <2>1. TypeOK'
    BY <1>11 DEF Expire, TimedWake, SpuriousWake, TypeOK, HandlePoints
  <2>2. NoLostWakeup'
    BY <1>11 DEF Expire, TimedWake, SpuriousWake, NoLostWakeup, TypeOK, settled
  <2> QED
    BY <1>11, <2>1, <2>2, MoveKeepsInv DEF Expire, TimedWake, SpuriousWake, TypeOK
<1>12. CASE UNCHANGED vars
  BY <1>12 DEF vars, TypeOK, CountMatchesHolders, FreedExactlyWhenUnheld, NoLostWakeup,
               PromiseTellsBits, Referring, settled
<1> QED
  BY <1>1, <1>2, <1>3, <1>4, <1>5, <1>6, <1>7, <1>8, <1>9, <1>10, <1>11, <1>12
     DEF Next, PromiseStep, HandleStep, CallStep

\* The inductive invariant holds in every reachable state.
LEMMA Invariance == Spec => []IInv
  BY InitInv, NextInv, PTL DEF Spec

\* The variables of a shared state never leave their types.
THEOREM TypeCorrect == Spec => []TypeOK
  BY Invariance, PTL DEF IInv

\* The reference counter agrees with the holders in every reachable state.
THEOREM CountCorrect == Spec => []CountMatchesHolders
  BY Invariance, PTL DEF IInv

\* No use after free and no leak of the shared state, for any number of handles.
THEOREM FreedCorrect == Spec => []FreedExactlyWhenUnheld
  BY Invariance, PTL DEF IInv

\* Nobody waits on a state that no promise will settle any more.
THEOREM NoLostWakeupCorrect == Spec => []NoLostWakeup
  BY Invariance, PTL DEF IInv

-----------------------------------------------------------------------------
\* A call that returns r tells its client what r says of the decision.
LEMMA ReturnTells ==
  ASSUME TypeOK, NEW h \in Handles, NEW r, Return(h, r)
  PROVE  seen' = [seen EXCEPT ![h] = told(r)]
<1>1. result' = [result EXCEPT ![h] = r]
  BY DEF Return
<1> QED
  BY <1>1 DEF seen, TypeOK

\* Refinement: every step of the shared state is a step of Completion or a stutter.
LEMMA StepImplements == IInv /\ [Next]_vars => [Abstract!Next]_(Abstract!vars)
<1> SUFFICES ASSUME IInv, [Next]_vars PROVE [Abstract!Next]_(Abstract!vars)
  OBVIOUS
<1> USE DEF IInv
<1>1. CASE SetValue
  <2>1. outcome = "pending" /\ outcome' = "value" /\ seen' = seen
    BY <1>1 DEF SetValue, outcome, seen, has_value, is_abandoned, PromiseTellsBits
  <2> QED
    BY <2>1 DEF Abstract!Next, Abstract!Settle, Abstract!Decisions
<1>2. CASE MakeAbandoned
  <2>1. outcome = "pending" /\ outcome' = "abandoned" /\ seen' = seen
    BY <1>2 DEF MakeAbandoned, outcome, seen, is_abandoned, PromiseTellsBits, settled
  <2> QED
    BY <2>1 DEF Abstract!Next, Abstract!Settle, Abstract!Decisions
<1>3. ASSUME NEW h \in Handles, Call(h, "get") \/ Call(h, "get_for") \/ Call(h, "wait_for")
      PROVE  [Abstract!Next]_(Abstract!vars)
  <2>1. outcome' = outcome
    BY <1>3 DEF Call, outcome, is_abandoned
  <2>2. CASE is_abandoned
    <3>1. outcome = "abandoned" /\ (Return(h, "invalid") \/ Return(h, "default"))
      BY <1>3, <2>2 DEF Call, outcome, is_abandoned, PromiseTellsBits
    <3>2. seen' = [seen EXCEPT ![h] = "abandoned"]
      BY <3>1, ReturnTells DEF told
    <3> QED
      BY <2>1, <3>1, <3>2 DEF Abstract!Next, Abstract!Observe
  <2>3. CASE ~is_abandoned
    BY <1>3, <2>1, <2>3 DEF Call, seen, Abstract!vars
  <2> QED
    BY <2>2, <2>3
<1>4. ASSUME NEW h \in Handles, Copy(h) PROVE [Abstract!Next]_(Abstract!vars)
  <2>1. outcome' = outcome
    BY <1>4 DEF Copy, outcome, is_abandoned
  <2>2. CASE settled
    <3>1. \/ outcome = "abandoned" /\ Return(h, "default")
          \/ outcome = "value" /\ Return(h, "value")
      BY <1>4, <2>2 DEF Copy, outcome, is_abandoned, settled, PromiseTellsBits
    <3>2. outcome # "pending" /\ seen' = [seen EXCEPT ![h] = outcome]
      BY <3>1, ReturnTells DEF told
    <3> QED
      BY <2>1, <3>2 DEF Abstract!Next, Abstract!Observe
  <2>3. CASE ~settled
    BY <1>4, <2>1, <2>3 DEF Copy, Go, seen, Abstract!vars
  <2> QED
    BY <2>2, <2>3
<1>5. ASSUME NEW h \in Handles, WaitUntil(h) PROVE [Abstract!Next]_(Abstract!vars)
  <2>1. outcome' = outcome
    BY <1>5 DEF WaitUntil, outcome, is_abandoned
  <2>2. CASE Go(h, "wait_until_blocked") \/ Go(h, "copy")
    BY <2>1, <2>2 DEF Go, seen, Abstract!vars
  <2>3. CASE "ready" \in bits /\ Return(h, "ready")
    <3>1. outcome = "value" /\ seen' = [seen EXCEPT ![h] = "value"]
      BY <2>3 DEF Return, outcome, seen, told, TypeOK
    <3> QED
      BY <2>1, <3>1 DEF Abstract!Next, Abstract!Observe
  <2>4. CASE "ready" \notin bits /\ is_abandoned
             /\ (Return(h, "deferred") \/ Return(h, "default"))
    <3>1. outcome = "abandoned" /\ seen' = [seen EXCEPT ![h] = "abandoned"]
      BY <2>4, ZenonT(30) DEF Return, outcome, seen, told, TypeOK
    <3> QED
      BY <2>1, <3>1 DEF Abstract!Next, Abstract!Observe
  <2>5. CASE ~settled /\ Return(h, "timeout")
    <3>1. outcome = "pending" /\ seen' = [seen EXCEPT ![h] = "timeout"]
      BY <2>5 DEF Return, outcome, seen, told, settled, is_abandoned, TypeOK
    <3> QED
      BY <2>1, <3>1 DEF Abstract!Next, Abstract!GiveUp
  <2> QED
    BY <1>5, <2>2, <2>3, <2>4, <2>5 DEF WaitUntil
<1>6. CASE \/ DestroyPromise \/ ReleasePromise \/ UNCHANGED vars
           \/ \E h \in Handles : \/ GetFuture(h) \/ DropHandle(h)
                                \/ Expire(h) \/ TimedWake(h) \/ SpuriousWake(h)
                                \/ \E g \in Handles : CopyHandle(h, g)
  <2>1. outcome' = outcome /\ seen' = seen
    BY <1>6 DEF DestroyPromise, ReleasePromise, GetFuture, DropHandle, Expire, TimedWake,
                SpuriousWake, CopyHandle, vars, outcome, seen, is_abandoned
  <2> QED
    BY <2>1 DEF Abstract!vars
<1> QED
  BY <1>1, <1>2, <1>3, <1>4, <1>5, <1>6
     DEF Next, PromiseStep, HandleStep, CallStep, Ops

\* A new shared state is an undecided Completion.
LEMMA InitImplements == Init => Abstract!Init
  BY DEF Init, Abstract!Init, outcome, seen, told, is_abandoned

\* All callers see one result, decided once: the shared state implements Completion.
THEOREM Refinement == Spec => OneResultForAll
<1>1. Spec => []IInv
  BY Invariance
<1> QED
  BY <1>1, InitImplements, StepImplements, PTL DEF Spec, OneResultForAll, Abstract!Spec
=============================================================================
