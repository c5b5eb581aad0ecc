------------------------- MODULE LinqRustProofs -------------------------
(***************************************************************************)
(* Two safety properties of the Rust binding, for any number of requests,  *)
(* streams and events: one thread at a time is in the C library, and no    *)
(* waiting task misses its wake-up.                                        *)
(***************************************************************************)
EXTENDS LinqRust, TLAPS

\* Who is in the library has the mutex, and netw_destroy, which does not take it, begins when
\* nobody else is left.
Locked ==
  /\ thread = "polling" <=> mutex = "thread"
  /\ \A i \in Requests : task[i] = "sending" <=> mutex = i
  /\ owner # "using" => \A i \in Requests : task[i] # "sending"
  /\ owner \in {"destroying", "dropped"} => thread = "ended"

\* A task that looked and found nothing keeps the mutex of its future until its waker is there.
Checking == \A i \in Requests : task[i] = "checking" => data[i] = None /\ i \in guard

Inv == TypeOK /\ Locked /\ Checking /\ WaitersAreWoken

USE RustAssumption

---------------------------------------------------------------------------
(* Callbacks *)

\* Resolving a future keeps the types of what it writes.
LEMMA ResolveTypes ==
  ASSUME TypeOK, NEW i \in Requests, Resolve(i)
  PROVE  /\ data' \in [Requests -> {None, "answer", "shutdown"}]
         /\ waker' \subseteq Requests /\ listener' \in Streams \cup {None}
         /\ woken' \subseteq Tasks
BY DEF TypeOK, Resolve, Tasks

\* Resolving a future wakes the task that waits for it, and no other loses its wake-up.
LEMMA ResolveWakes ==
  ASSUME TypeOK, WaitersAreWoken, NEW i \in Requests, Resolve(i),
         \A j \in Requests : task'[j] = "waiting" => task[j] = "waiting"
  PROVE  WaitersAreWoken'
<1>1. data'[i] # None
  BY DEF Resolve, TypeOK
<1>2. \A j \in Requests : j # i => data'[j] = data[j] /\ (j \in waker' <=> j \in waker)
  BY DEF Resolve
<1>3. woken \subseteq woken'
  BY DEF Resolve
<1>4. i \in waker => i \in woken'
  BY DEF Resolve
<1> QED
  BY <1>1, <1>2, <1>3, <1>4 DEF WaitersAreWoken

\* Queueing an event touches no future.
LEMMA LoadEventWakes ==
  ASSUME TypeOK, WaitersAreWoken, LoadEvent, UNCHANGED <<data, task>>
  PROVE  WaitersAreWoken'
<1>1. woken \subseteq woken'
  BY DEF LoadEvent
<1> QED
  BY <1>1 DEF WaitersAreWoken, LoadEvent

---------------------------------------------------------------------------
(* The invariant *)

\* At first nobody has the mutex.
LEMMA InitInv == Init => Inv
<1> SUFFICES ASSUME Init PROVE Inv
  OBVIOUS
<1>1. task \in [Tasks -> {"new", "sending", "ready", "checking", "waiting", "done", "dropped"}]
  BY DEF Init
<1>2. TypeOK
  <2>1. data \in [Requests -> {None, "answer", "shutdown"}]
    BY DEF Init
  <2>2. events \in Seq(1..MaxEvents) /\ emitted \in 0..MaxEvents
    BY DEF Init
  <2>3. /\ mutex \in Requests \cup {"thread", None} /\ shutdown \in BOOLEAN
        /\ thread \in {"sleeping", "polling", "ended"}
        /\ owner \in {"using", "joining", "destroying", "dropped"}
        /\ open \subseteq Requests /\ calling \in Requests \cup {None}
        /\ waker \subseteq Requests /\ listener \in Streams \cup {None}
        /\ guard \subseteq Tasks /\ woken \subseteq Tasks
    BY DEF Init
  <2> QED
    BY <1>1, <2>1, <2>2, <2>3 DEF TypeOK
<1>3. Locked /\ Checking /\ WaitersAreWoken
  BY DEF Init, Locked, Checking, WaitersAreWoken, Tasks
<1> QED
  BY <1>2, <1>3 DEF Inv

\* The steps of the mutex, the thread and the owner keep futures and wakers as they are.
LEMMA KeepsFutures ==
  ASSUME Inv, UNCHANGED <<data, wakers, guard, task, woken>>
  PROVE  Checking' /\ WaitersAreWoken'
BY DEF Inv, Checking, WaitersAreWoken, wakers

\* The polling thread locks, polls and unlocks.
LEMMA ThreadStep ==
  ASSUME Inv, Thread \/ ThreadEmits \/ \E i \in Requests : ThreadCalls(i)
  PROVE  Inv'
<1>1. CASE ThreadLocks
  <2>1. TypeOK' /\ Locked'
    BY <1>1 DEF Inv, TypeOK, wakers, Locked, ThreadLocks
  <2> QED
    BY <1>1, <2>1, KeepsFutures DEF Inv, ThreadLocks
<1>2. CASE ThreadUnlocks
  <2>1. TypeOK' /\ Locked'
    BY <1>2 DEF Inv, TypeOK, wakers, Locked, ThreadUnlocks
  <2> QED
    BY <1>2, <2>1, KeepsFutures DEF Inv, ThreadUnlocks
<1>3. CASE \E i \in Requests : ThreadCalls(i)
  <2>1. TypeOK' /\ Locked'
    BY <1>3 DEF Inv, TypeOK, wakers, Locked, ThreadCalls, CallBack
  <2> QED
    BY <1>3, <2>1, KeepsFutures DEF Inv, ThreadCalls
<1>4. CASE ThreadEmits
  <2>1. events' \in Seq(1..MaxEvents) /\ emitted' \in 0..MaxEvents
    BY <1>4 DEF Inv, TypeOK, ThreadEmits, LoadEvent
  <2>2. waker' \subseteq Requests /\ listener' \in Streams \cup {None}
    BY <1>4 DEF Inv, TypeOK, ThreadEmits, LoadEvent
  <2>3. woken' \subseteq Tasks
    BY <1>4 DEF Inv, TypeOK, ThreadEmits, LoadEvent, Tasks
  <2>4. TypeOK'
    BY <1>4, <2>1, <2>2, <2>3 DEF Inv, TypeOK, ThreadEmits
  <2>5. Locked' /\ Checking'
    BY <1>4 DEF Inv, Locked, Checking, ThreadEmits
  <2>6. WaitersAreWoken'
    BY <1>4, LoadEventWakes DEF Inv, ThreadEmits
  <2> QED
    BY <2>4, <2>5, <2>6 DEF Inv
<1> QED
  BY <1>1, <1>2, <1>3, <1>4 DEF Thread

\* A callback resolves a future.
LEMMA ResolvesStep == ASSUME Inv, Resolves PROVE Inv'
<1>1. calling \in Requests
  BY DEF Inv, TypeOK, Resolves
<1>2. TypeOK'
  BY <1>1, ResolveTypes DEF Inv, Resolves, TypeOK
<1>3. Locked'
  BY DEF Inv, Locked, Resolves
<1>4. Checking'
  BY <1>1 DEF Inv, Checking, Resolves, Resolve
<1>5. WaitersAreWoken'
  BY <1>1, ResolveWakes DEF Inv, Resolves
<1> QED
  BY <1>2, <1>3, <1>4, <1>5 DEF Inv

\* A task sends with the mutex.
LEMMA SendStep ==
  ASSUME Inv, NEW i \in Requests, SendLocks(i) \/ SendReturns(i)
  PROVE  Inv'
<1>1. CASE SendLocks(i)
  <2>1. TypeOK'
    BY <1>1 DEF Inv, TypeOK, wakers, SendLocks
  <2>2. Locked' /\ Checking' /\ WaitersAreWoken'
    BY <1>1 DEF Inv, TypeOK, wakers, Locked, Checking, WaitersAreWoken, SendLocks, Tasks
  <2> QED
    BY <2>1, <2>2 DEF Inv
<1>2. CASE SendReturns(i)
  <2>1. task' \in [Tasks -> {"new", "sending", "ready", "checking", "waiting", "done", "dropped"}]
    BY <1>2 DEF Inv, TypeOK, SendReturns
  <2>2. \A j \in Requests : j # i => task'[j] = task[j]
    BY <1>2 DEF Inv, SendReturns
  <2>3. task'[i] = "ready"
    BY <1>2 DEF Inv, TypeOK, SendReturns, Tasks
  <2>4. Locked'
    BY <1>2, <2>2, <2>3 DEF Inv, Locked, SendReturns
  <2>5. CASE Resolve(i) /\ UNCHANGED open
    <3>1. TypeOK'
      BY <1>2, <2>1, <2>5, ResolveTypes DEF Inv, SendReturns, TypeOK
    <3>2. Checking'
      BY <1>2, <2>2, <2>3, <2>5 DEF Inv, Checking, SendReturns, Resolve
    <3>3. WaitersAreWoken'
      BY <2>2, <2>3, <2>5, ResolveWakes DEF Inv
    <3> QED
      BY <2>4, <3>1, <3>2, <3>3 DEF Inv
  <2>6. CASE open' = open \cup {i} /\ UNCHANGED <<data, wakers, woken>>
    <3>1. TypeOK'
      BY <1>2, <2>1, <2>6 DEF Inv, SendReturns, TypeOK, wakers
    <3>2. Checking' /\ WaitersAreWoken'
      BY <1>2, <2>2, <2>3, <2>6 DEF Inv, Checking, WaitersAreWoken, SendReturns, wakers
    <3> QED
      BY <2>4, <3>1, <3>2 DEF Inv
  <2> QED
    BY <1>2, <2>5, <2>6 DEF SendReturns
<1> QED
  BY <1>1, <1>2

\* A step of a task outside of the library
LEMMA TaskStep ==
  ASSUME Inv, NEW t \in Tasks, Poll(t) \/ StoreWaker(t) \/ DropTask(t)
  PROVE  Inv'
<1>1. CASE t \in Requests /\ PollFuture(t)
  <2>1. TypeOK'
    BY <1>1 DEF Inv, TypeOK, wakers, PollFuture, context
  <2>2. Locked'
    BY <1>1 DEF Inv, TypeOK, Locked, PollFuture, Pollable, context, Tasks
  <2>3. Checking' /\ WaitersAreWoken'
    BY <1>1 DEF Inv, TypeOK, wakers, Checking, WaitersAreWoken, PollFuture, Tasks
  <2> QED
    BY <2>1, <2>2, <2>3 DEF Inv
<1>2. CASE t \in Streams /\ PollNext(t)
  <2>1. events' \in Seq(1..MaxEvents)
    <3>1. CASE events # <<>>
      <4>1. events \in Seq(1..MaxEvents) /\ events' = Tail(events)
        BY <1>2, <3>1 DEF Inv, TypeOK, PollNext
      <4> QED
        BY <3>1, <4>1
    <3>2. CASE events = <<>>
      BY <1>2, <3>2 DEF Inv, PollNext
    <3> QED
      BY <3>1, <3>2
  <2>2. TypeOK'
    BY <1>2, <2>1 DEF Inv, TypeOK, wakers, PollNext, context
  <2>3. \A i \in Requests : task'[i] = task[i] /\ (i \in woken <=> i \in woken')
    BY <1>2 DEF Inv, TypeOK, PollNext, Tasks
  <2>4. Locked' /\ Checking' /\ WaitersAreWoken'
    BY <1>2, <2>3 DEF Inv, Locked, Checking, WaitersAreWoken, PollNext, context, wakers
  <2> QED
    BY <2>2, <2>4 DEF Inv
<1>3. CASE StoreWaker(t)
  <2>1. \A i \in Requests : i # t => task'[i] = task[i] /\ (i \in waker' <=> i \in waker)
    BY <1>3 DEF Inv, StoreWaker
  <2>2. t \in Requests => task'[t] = "waiting" /\ t \in waker'
    BY <1>3 DEF Inv, TypeOK, StoreWaker
  <2>3. TypeOK'
    BY <1>3 DEF Inv, TypeOK, StoreWaker, context
  <2>4. Locked'
    BY <1>3, <2>1, <2>2 DEF Inv, Locked, StoreWaker, context
  <2>5. Checking'
    BY <1>3, <2>1, <2>2 DEF Inv, Checking, StoreWaker
  <2>6. WaitersAreWoken'
    BY <1>3, <2>1, <2>2 DEF Inv, Checking, WaitersAreWoken, StoreWaker
  <2> QED
    BY <2>3, <2>4, <2>5, <2>6 DEF Inv
<1>4. CASE DropTask(t)
  <2>1. TypeOK'
    BY <1>4 DEF Inv, TypeOK, wakers, DropTask, context
  <2>2. Locked' /\ Checking' /\ WaitersAreWoken'
    BY <1>4 DEF Inv, TypeOK, wakers, Locked, Checking, WaitersAreWoken, DropTask, Pollable, context
  <2> QED
    BY <2>1, <2>2 DEF Inv
<1> QED
  BY <1>1, <1>2, <1>3, <1>4 DEF Poll, Tasks

\* The owner drops the Context.
LEMMA OwnerStep ==
  ASSUME Inv, DropShutsDown \/ Drop \/ \E i \in Requests : DestroyCalls(i)
  PROVE  Inv'
<1>1. CASE DropShutsDown
  <2>1. TypeOK' /\ Locked'
    BY <1>1 DEF Inv, TypeOK, wakers, Locked, DropShutsDown
  <2> QED
    BY <1>1, <2>1, KeepsFutures DEF Inv, DropShutsDown
<1>2. CASE DropJoins
  <2>1. TypeOK' /\ Locked'
    BY <1>2 DEF Inv, TypeOK, wakers, Locked, DropJoins
  <2> QED
    BY <1>2, <2>1, KeepsFutures DEF Inv, DropJoins
<1>3. CASE DestroyReturns
  <2>1. TypeOK' /\ Locked'
    BY <1>3 DEF Inv, TypeOK, wakers, Locked, DestroyReturns
  <2> QED
    BY <1>3, <2>1, KeepsFutures DEF Inv, DestroyReturns
<1>4. CASE \E i \in Requests : DestroyCalls(i)
  <2>1. TypeOK' /\ Locked'
    BY <1>4 DEF Inv, TypeOK, wakers, Locked, DestroyCalls, CallBack
  <2> QED
    BY <1>4, <2>1, KeepsFutures DEF Inv, DestroyCalls
<1> QED
  BY <1>1, <1>2, <1>3, <1>4 DEF Drop

\* No step breaks the invariant.
LEMMA NextInv == ASSUME Inv, [Next]_vars PROVE Inv'
<1>1. CASE Next
  BY <1>1, ThreadStep, ResolvesStep, SendStep, TaskStep, OwnerStep DEF Next
<1>2. CASE UNCHANGED vars
  BY <1>2 DEF vars, context, Inv, TypeOK, wakers, Locked, Checking, WaitersAreWoken
<1> QED
  BY <1>1, <1>2

\* The invariant holds in every reachable state.
LEMMA InvHolds == Spec => []Inv
<1>1. Inv /\ [Next]_vars => Inv'
  BY NextInv
<1> QED
  BY InitInv, <1>1, PTL DEF Spec

---------------------------------------------------------------------------
(* Theorems *)

\* The variables keep their types, in particular the queue has at most one waker, which
\* is a stream's.
THEOREM TypeCorrect == Spec => []TypeOK
<1>1. Inv => TypeOK
  BY DEF Inv
<1> QED
  BY InvHolds, <1>1, PTL

\* One thread at a time is in the C library, netw_destroy included, and none after it
\* (arc.rs:24-39, 91-96): callers have the mutex, and Drop joins the thread first.
THEOREM LibraryIsExclusive == Spec => []OneInLibrary
<1>1. ASSUME Inv PROVE OneInLibrary
  <2>1. \A i \in Requests : i # "thread"
    OBVIOUS
  <2>2. \A x, y \in InLibrary : x = y
    BY <1>1, <2>1 DEF Inv, Locked, InLibrary
  <2>3. owner = "dropped" => thread = "ended" /\ InLibrary = {}
    BY <1>1 DEF Inv, Locked, InLibrary
  <2> QED
    BY <2>2, <2>3 DEF OneInLibrary
<1> QED
  BY InvHolds, <1>1, PTL

\* A task that waits for a future has its waker there, or was woken (simple_future.rs:43):
\* what decides is that the mutex is kept from the look at the data to the store of the waker.
THEOREM NoLostWakeUp == Spec => []WaitersAreWoken
<1>1. Inv => WaitersAreWoken
  BY DEF Inv
<1> QED
  BY InvHolds, <1>1, PTL
===========================================================================
