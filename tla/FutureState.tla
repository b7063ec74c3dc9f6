----------------------------- MODULE FutureState -----------------------------
(***************************************************************************)
(* One shared state of base/thread/ffuture: the promise inside a packaged  *)
(* task on one side, the waitable_future (fshared_future) copies held by   *)
(* client threads on the other.  A critical section under __mut_ is one    *)
(* action; the reads the code makes without the mutex (valid(), the        *)
(* __has_value()/use_count() test of ~fpromise) are actions of their own.  *)
(* Each handle belongs to one thread, so pc is per handle.  The deferred   *)
(* and the async states have no factory in the repository and are left     *)
(* out, and so is the payload: a value is told from the caller's default.  *)
(***************************************************************************)
EXTENDS Integers, FiniteSets

CONSTANT Handles    \* slots for fshared_future objects, one thread each

ASSUME HandlesAssumption == IsFiniteSet(Handles) /\ Handles # {}

VARIABLES bits,     \* __state_, as the set of its bits
          owners,   \* __shared_owners_: holders beyond the first
          freed,    \* the state has been deleted
          promise,  \* where the promise's thread is
          pc,       \* pc[h]: where the thread of handle h is
          op,       \* op[h]: the call in progress ("get" when there is none)
          expired,  \* expired[h]: the deadline of the call has passed
          result    \* result[h]: what the last call of h returned

vars == <<bits, owners, freed, promise, pc, op, expired, result>>

Bits == {"constructed", "future_attached", "ready", "abandoned"}
PromisePoints == {"new", "armed", "set", "abandoning", "releasing", "gone"}
HandlePoints == {"none", "held", "copy", "copy_blocked",
                 "wait_until", "wait_until_blocked", "gone"}
Ops == {"get", "get_for", "wait_for"}
Results == {"none", "value", "default", "timeout", "ready", "deferred", "invalid"}

has_value == "constructed" \in bits \/ "abandoned" \in bits
is_abandoned == "abandoned" \in bits
settled == "ready" \in bits \/ "abandoned" \in bits

\* Slip: the promise's own reference, which the counter leaves out, is not added.
use_count_Raw == owners
use_count == owners + 1

\* The handles that refer to the state.
Referring == {h \in Handles : pc[h] \notin {"none", "gone"}}

Init == /\ bits = {}
        /\ owners = 0
        /\ freed = FALSE
        /\ promise = "new"
        /\ pc = [h \in Handles |-> "none"]
        /\ op = [h \in Handles |-> "get"]
        /\ expired = [h \in Handles |-> FALSE]
        /\ result = [h \in Handles |-> "none"]

-----------------------------------------------------------------------------
\* Reference counting.

\* Slip: deletes on the value after the decrement, one holder too early.
ReleaseShared_Early == /\ owners' = owners - 1
                       /\ freed' = (freed \/ owners' = 0)

\* __release_shared: the holder that finds the count at zero deletes the state.
ReleaseShared == /\ owners' = owners - 1
                 /\ freed' = (freed \/ owners = 0)

\* get_future() and share(): the unique future becomes the first handle.
GetFuture(h) == /\ promise = "new"
                /\ "future_attached" \notin bits
                /\ bits' = bits \union {"future_attached"}
                /\ owners' = owners + 1
                /\ promise' = "armed"
                /\ pc' = [pc EXCEPT ![h] = "held"]
                /\ UNCHANGED <<freed, op, expired, result>>

\* Slip: a copy that does not take a reference.
CopyHandle_NoAddShared(h, g) ==
  /\ pc[h] = "held" /\ pc[g] = "none"
  /\ pc' = [pc EXCEPT ![g] = "held"]
  /\ UNCHANGED <<bits, owners, freed, promise, op, expired, result>>

\* fshared_future's copy constructor.
CopyHandle(h, g) == /\ pc[h] = "held" /\ pc[g] = "none"
                    /\ owners' = owners + 1
                    /\ pc' = [pc EXCEPT ![g] = "held"]
                    /\ UNCHANGED <<bits, freed, promise, op, expired, result>>

\* ~fshared_future.
DropHandle(h) == /\ pc[h] = "held"
                 /\ ReleaseShared
                 /\ pc' = [pc EXCEPT ![h] = "gone"]
                 /\ UNCHANGED <<bits, promise, op, expired, result>>

-----------------------------------------------------------------------------
\* The promise: set_value once the task has run, or destruction without it.

\* __cv_.notify_all(): every waiter goes for the mutex again.
NotifyAll == pc' = [h \in Handles |->
                      CASE pc[h] = "copy_blocked" -> "copy"
                        [] pc[h] = "wait_until_blocked" -> "wait_until"
                        [] OTHER -> pc[h]]

SetValue == /\ promise = "armed"
            /\ ~has_value
            /\ bits' = bits \union {"constructed", "ready"}
            /\ NotifyAll
            /\ promise' = "set"
            /\ UNCHANGED <<owners, freed, op, expired, result>>

\* ~fpromise tests the value and the use count without the mutex.
DestroyPromise == /\ promise \in {"new", "armed", "set"}
                  /\ promise' = IF ~has_value /\ use_count > 1
                                THEN "abandoning" ELSE "releasing"
                  /\ UNCHANGED <<bits, owners, freed, pc, op, expired, result>>

\* Slip: the bit is set and nobody is told.
MakeAbandoned_Silent == /\ promise = "abandoning"
                        /\ bits' = bits \union {"abandoned"}
                        /\ promise' = "releasing"
                        /\ UNCHANGED <<owners, freed, pc, op, expired, result>>

MakeAbandoned == /\ promise = "abandoning"
                 /\ bits' = bits \union {"abandoned"}
                 /\ NotifyAll
                 /\ promise' = "releasing"
                 /\ UNCHANGED <<owners, freed, op, expired, result>>

ReleasePromise == /\ promise = "releasing"
                  /\ ReleaseShared
                  /\ promise' = "gone"
                  /\ UNCHANGED <<bits, pc, op, expired, result>>

-----------------------------------------------------------------------------
\* The calls of waitable_future.

\* A call returns r; its argument and its deadline go with its frame.
Return(h, r) == /\ pc' = [pc EXCEPT ![h] = "held"]
                /\ result' = [result EXCEPT ![h] = r]
                /\ op' = [op EXCEPT ![h] = "get"]
                /\ expired' = [expired EXCEPT ![h] = FALSE]

\* The call goes on to point p.
Go(h, p) == /\ pc' = [pc EXCEPT ![h] = p]
            /\ UNCHANGED <<result, op, expired>>

\* get, get_for/get_until and wait_for/wait_until begin with valid().
Call(h, o) == /\ pc[h] = "held"
              /\ \/ /\ is_abandoned
                    /\ Return(h, IF o = "wait_for" THEN "invalid" ELSE "default")
                 \/ /\ ~is_abandoned
                    /\ pc' = [pc EXCEPT ![h] = IF o = "get" THEN "copy" ELSE "wait_until"]
                    /\ op' = [op EXCEPT ![h] = o]
                    /\ UNCHANGED <<expired, result>>
              /\ UNCHANGED <<bits, owners, freed, promise>>

\* _fassoc_state::copy: __sub_wait under the mutex, then the value or the default.
Copy(h) == /\ pc[h] = "copy"
           /\ \/ settled /\ Return(h, IF is_abandoned THEN "default" ELSE "value")
              \/ ~settled /\ Go(h, "copy_blocked")
           /\ UNCHANGED <<bits, owners, freed, promise>>

\* Slip: the deadline is looked at before the state.
WaitUntil_DeadlineFirst(h) ==
  /\ pc[h] = "wait_until"
  /\ \/ expired[h] /\ Return(h, "timeout")
     \/ ~settled /\ ~expired[h] /\ Go(h, "wait_until_blocked")
     \/ settled /\ ~expired[h] /\ Return(h, IF is_abandoned THEN "deferred" ELSE "ready")
  /\ UNCHANGED <<bits, owners, freed, promise>>

\* Slip: wait_for passes ffuture_status::abandoned on to its caller.
WaitUntil_RawStatus(h) ==
  /\ pc[h] = "wait_until"
  /\ \/ ~settled /\ ~expired[h] /\ Go(h, "wait_until_blocked")
     \/ settled /\ Return(h, IF is_abandoned THEN "abandoned" ELSE "ready")
     \/ ~settled /\ expired[h] /\ Return(h, "timeout")
  /\ UNCHANGED <<bits, owners, freed, promise>>

\* _fassoc_sub_state::wait_until, and what get_for and wait_for make of its status.
WaitUntil(h) ==
  /\ pc[h] = "wait_until"
  /\ \/ ~settled /\ ~expired[h] /\ Go(h, "wait_until_blocked")
     \/ "ready" \in bits /\ op[h] = "get_for" /\ Go(h, "copy")
     \/ "ready" \in bits /\ op[h] = "wait_for" /\ Return(h, "ready")
     \/ /\ "ready" \notin bits /\ is_abandoned
        /\ Return(h, IF op[h] = "wait_for" THEN "deferred" ELSE "default")
     \/ ~settled /\ expired[h] /\ Return(h, "timeout")
  /\ UNCHANGED <<bits, owners, freed, promise>>

\* The clock passes the deadline of a timed call.
Expire(h) == /\ pc[h] \in {"wait_until", "wait_until_blocked"}
             /\ ~expired[h]
             /\ expired' = [expired EXCEPT ![h] = TRUE]
             /\ UNCHANGED <<bits, owners, freed, promise, pc, op, result>>

\* The condition variable returns at the deadline, or for no reason at all.
TimedWake(h) == /\ pc[h] = "wait_until_blocked" /\ expired[h]
                /\ pc' = [pc EXCEPT ![h] = "wait_until"]
                /\ UNCHANGED <<bits, owners, freed, promise, op, expired, result>>

SpuriousWake(h) == /\ pc[h] \in {"copy_blocked", "wait_until_blocked"}
                   /\ pc' = [pc EXCEPT ![h] = IF pc[h] = "copy_blocked"
                                              THEN "copy" ELSE "wait_until"]
                   /\ UNCHANGED <<bits, owners, freed, promise, op, expired, result>>

-----------------------------------------------------------------------------
PromiseStep == SetValue \/ DestroyPromise \/ MakeAbandoned \/ ReleasePromise

CallStep(h) == Copy(h) \/ WaitUntil(h) \/ Expire(h) \/ TimedWake(h)

HandleStep(h) == \/ CallStep(h)
                 \/ SpuriousWake(h)
                 \/ GetFuture(h)
                 \/ DropHandle(h)
                 \/ \E o \in Ops : Call(h, o)
                 \/ \E g \in Handles : CopyHandle(h, g)

Next == PromiseStep \/ \E h \in Handles : HandleStep(h)

\* A task's closure is run or destroyed in the end, and a thread inside a call
\* is scheduled.  Nothing obliges a client to make a call or to drop a handle.
Fairness == /\ WF_vars(PromiseStep)
            /\ \A h \in Handles : WF_vars(CallStep(h))

Spec == Init /\ [][Next]_vars
FairSpec == Spec /\ Fairness

-----------------------------------------------------------------------------
\* Properties.

\* Every variable stays within the values the code can give it.
TypeOK == /\ bits \subseteq Bits
          /\ owners \in Int
          /\ freed \in BOOLEAN
          /\ promise \in PromisePoints
          /\ pc \in [Handles -> HandlePoints]
          /\ op \in [Handles -> Ops]
          /\ expired \in [Handles -> BOOLEAN]
          /\ result \in [Handles -> Results]

\* The counter that starts at zero and counts holders beyond the first agrees
\* with the objects that really hold the state, the promise included.
CountMatchesHolders ==
  owners + 1 = Cardinality(Referring) + (IF promise = "gone" THEN 0 ELSE 1)

\* The state is deleted exactly when the last holder, on whichever side, has let
\* go: no holder is left with a dangling pointer and nothing is leaked.
FreedExactlyWhenUnheld ==
  freed <=> (promise = "gone" /\ Referring = {})

\* No lost wakeup: whoever is blocked on the condition variable still has a
\* promise in front of it that has to settle the state, although ~fpromise
\* decides from an unsynchronised use count whether to settle it at all.
NoLostWakeup ==
  \A h \in Handles : pc[h] \in {"copy_blocked", "wait_until_blocked"} =>
                       ~settled /\ promise \in {"armed", "abandoning"}

\* Callers see one decided result: what Completion promises, whatever handle,
\* thread and call they used, and a timeout only while nothing is decided.
outcome == IF "ready" \in bits THEN "value"
           ELSE IF is_abandoned THEN "abandoned" ELSE "pending"
told(r) == IF r \in {"value", "ready"} THEN "value"
           ELSE IF r \in {"default", "deferred", "invalid"} THEN "abandoned"
           ELSE IF r = "timeout" THEN "timeout" ELSE "nothing"
seen == [h \in Handles |-> told(result[h])]
Abstract == INSTANCE Completion WITH Clients <- Handles
OneResultForAll == Abstract!Spec

\* A call that has begun returns, even if the task is thrown away unrun.
EveryCallReturns == \A h \in Handles : (pc[h] \notin {"none", "held", "gone"})
                                         ~> (pc[h] = "held")
=============================================================================
