----------------------------- MODULE LinqRust -----------------------------
(***************************************************************************)
(* The Rust binding (src/bindings/rust/linq-network/src).  A Context       *)
(* shares the C library, under a mutex, with a thread that polls it every  *)
(* 50 ms.  A request is a future that a callback of the library resolves,  *)
(* and the library's events are queued for streams.  A future and the      *)
(* queue have a mutex of their own and hold a waker.                       *)
(*                                                                         *)
(* Every task of the application runs on a thread of its own, the least    *)
(* that can be said of an executor.  What a step does while it has a mutex *)
(* is one action unless another thread could tell the difference.          *)
(***************************************************************************)
EXTENDS Integers, Sequences

CONSTANTS
  Requests,   \* one task for each, which sends it and awaits its future
  Streams,    \* tasks that await events
  MaxEvents,  \* bound on the events
  None

ASSUME RustAssumption ==
  /\ Requests \cap Streams = {}
  /\ {None, "thread", "owner"} \cap (Requests \cup Streams) = {}
  /\ None \notin {"thread", "answer", "shutdown"}
  /\ MaxEvents \in Nat

VARIABLES
  mutex,      \* who has the mutex of the context: "thread", a request that is sent, or None
  shutdown,   \* ThreadContext.shutdown
  thread,     \* the polling thread: "sleeping", "polling" or "ended"
  owner,      \* the owner of the Context: "using", "joining", "destroying" or "dropped"
  open,       \* requests the library has a callback for
  calling,    \* the request whose callback runs, or None
  data,       \* SimpleFutureState.data: None, "answer" or "shutdown"
  events,     \* EventStreamState.events
  emitted,    \* how many events the library has had
  waker,      \* the requests whose future has a waker
  listener,   \* the stream whose waker the queue of events has, or None
  guard,      \* the tasks that have the mutex of their future, or of the queue
  task,       \* of requests: "new", "sending", "ready", "checking", "waiting", "done", "dropped"
  woken       \* waiting tasks that the executor will poll

wakers == <<waker, listener>>
context == <<mutex, shutdown, thread, owner, open, calling, emitted>>
vars == <<context, data, events, wakers, guard, task, woken>>

Tasks == Requests \cup Streams

---------------------------------------------------------------------------
(* Callbacks *)

\* on_response is called for a request that the library no longer keeps ...
CallBack(i) ==
  /\ calling = None /\ i \in open
  /\ open' = open \ {i} /\ calling' = i

\* ... and SimpleFutureState::resolve has the mutex of the future.
Resolve(i) ==
  /\ data' = [data EXCEPT ![i] = IF owner = "destroying" THEN "shutdown" ELSE "answer"]
  /\ woken' = woken \cup (waker \cap {i})
  /\ waker' = waker \ {i}
  /\ UNCHANGED listener

Resolves ==
  /\ calling # None /\ calling \notin guard
  /\ Resolve(calling)
  /\ calling' = None
  /\ UNCHANGED <<mutex, shutdown, thread, owner, open, emitted, events, guard, task>>

\* The mutex of the queue of events is free.
QueueFree == guard \cap Streams = {}

\* load_event
LoadEvent ==
  /\ QueueFree
  /\ events' = Append(events, emitted + 1)
  /\ woken' = woken \cup ({listener} \ {None})
  /\ listener' = None
  /\ UNCHANGED waker

---------------------------------------------------------------------------
(* The polling thread *)

\* It has slept, and gets the mutex.
ThreadLocks ==
  /\ thread = "sleeping" /\ mutex = None
  /\ thread' = "polling" /\ mutex' = "thread"
  /\ UNCHANGED <<shutdown, owner, open, calling, emitted, data, events, wakers, guard, task, woken>>

\* A request ends in netw_poll.
ThreadCalls(i) ==
  /\ thread = "polling"
  /\ CallBack(i)
  /\ UNCHANGED <<mutex, shutdown, thread, owner, emitted, data, events, wakers, guard, task, woken>>

\* A device is found or beats, or there is an alert or an error, in netw_poll.
ThreadEmits ==
  /\ thread = "polling" /\ calling = None /\ emitted < MaxEvents
  /\ LoadEvent
  /\ emitted' = emitted + 1
  /\ UNCHANGED <<mutex, shutdown, thread, owner, open, calling, data, guard, task>>

\* Wrong: the flag is only looked at by the loop of the application.
ThreadUnlocksForever ==
  /\ thread = "polling" /\ calling = None
  /\ mutex' = None /\ thread' = "sleeping"
  /\ UNCHANGED <<shutdown, owner, open, calling, emitted, data, events, wakers, guard, task, woken>>

\* netw_poll returns, and the thread ends when it is told to.
ThreadUnlocks ==
  /\ thread = "polling" /\ calling = None
  /\ mutex' = None
  /\ thread' = IF shutdown THEN "ended" ELSE "sleeping"
  /\ UNCHANGED <<shutdown, owner, open, calling, emitted, data, events, wakers, guard, task, woken>>

---------------------------------------------------------------------------
(* Requests *)

\* Context::send with the mutex
SendLocks(i) ==
  /\ task[i] = "new" /\ owner = "using" /\ mutex = None
  /\ mutex' = i
  /\ task' = [task EXCEPT ![i] = "sending"]
  /\ UNCHANGED <<shutdown, thread, owner, open, calling, emitted, data, events, wakers, guard, woken>>

\* netw_send queues the request, or calls back at once when the device is not there.
SendReturns(i) ==
  /\ task[i] = "sending"
  /\ \/ open' = open \cup {i} /\ UNCHANGED <<data, wakers, woken>>
     \/ Resolve(i) /\ UNCHANGED open
  /\ mutex' = None
  /\ task' = [task EXCEPT ![i] = "ready"]
  /\ UNCHANGED <<shutdown, thread, owner, calling, emitted, events, guard>>

---------------------------------------------------------------------------
(* Tasks *)

\* Whether the executor may poll: the first time, when woken, and, as join! and select! do,
\* at any other time
Pollable(t) == task[t] \in {"ready", "waiting"}

\* Wrong: the mutex is released before the waker is stored.
PollFutureUnlocked(i) ==
  /\ Pollable(i) /\ i \notin guard
  /\ task' = [task EXCEPT ![i] = IF data[i] # None THEN "done" ELSE "checking"]
  /\ woken' = woken \ {i}
  /\ UNCHANGED <<context, data, events, wakers, guard>>

\* Future::poll finds its data, or goes on with the mutex ...
PollFuture(i) ==
  /\ Pollable(i) /\ i \notin guard
  /\ IF data[i] # None
     THEN task' = [task EXCEPT ![i] = "done"] /\ UNCHANGED guard
     ELSE task' = [task EXCEPT ![i] = "checking"] /\ guard' = guard \cup {i}
  /\ woken' = woken \ {i}
  /\ UNCHANGED <<context, data, events, wakers>>

\* Wrong: the mutex of the queue is released before the waker is stored.
PollNextUnlocked(s) ==
  /\ Pollable(s) /\ QueueFree
  /\ IF events # <<>>
     THEN events' = Tail(events) /\ task' = [task EXCEPT ![s] = "ready"]
     ELSE task' = [task EXCEPT ![s] = "checking"] /\ UNCHANGED events
  /\ woken' = woken \ {s}
  /\ UNCHANGED <<context, data, wakers, guard>>

\* Stream::poll_next takes an event, or goes on with the mutex ...
PollNext(s) ==
  /\ Pollable(s) /\ QueueFree
  /\ IF events # <<>>
     THEN events' = Tail(events) /\ task' = [task EXCEPT ![s] = "ready"] /\ UNCHANGED guard
     ELSE task' = [task EXCEPT ![s] = "checking"] /\ guard' = guard \cup {s} /\ UNCHANGED events
  /\ woken' = woken \ {s}
  /\ UNCHANGED <<context, data, wakers>>

\* Wrong: the futures have no place of their own for it.
StoreWakerShared(t) ==
  /\ task[t] = "checking"
  /\ listener' = t
  /\ guard' = guard \ {t}
  /\ task' = [task EXCEPT ![t] = "waiting"]
  /\ UNCHANGED <<context, data, events, waker, woken>>

\* ... to store its waker.  The queue has room for one.
StoreWaker(t) ==
  /\ task[t] = "checking"
  /\ waker' = waker \cup ({t} \cap Requests)
  /\ listener' = IF t \in Streams THEN t ELSE listener
  /\ guard' = guard \ {t}
  /\ task' = [task EXCEPT ![t] = "waiting"]
  /\ UNCHANGED <<context, data, events, woken>>

\* The application drops a future or a stream.  Its waker stays.
DropTask(t) ==
  /\ Pollable(t)
  /\ task' = [task EXCEPT ![t] = "dropped"]
  /\ woken' = woken \ {t}
  /\ UNCHANGED <<context, data, events, wakers, guard>>

---------------------------------------------------------------------------
(* Dropping the Context *)

\* Context::drop, shutdown(): nobody borrows the Context any more.
DropShutsDown ==
  /\ owner = "using" /\ mutex = None
  /\ \A i \in Requests : task[i] # "sending"
  /\ shutdown' = TRUE /\ owner' = "joining"
  /\ UNCHANGED <<mutex, thread, open, calling, emitted, data, events, wakers, guard, task, woken>>

\* Wrong: the thread is detached.
DropDetaches ==
  /\ owner = "joining"
  /\ owner' = "destroying"
  /\ UNCHANGED <<mutex, shutdown, thread, open, calling, emitted, data, events, wakers, guard, task, woken>>

\* join(), after which the last Arc to the library is dropped
DropJoins ==
  /\ owner = "joining" /\ thread = "ended"
  /\ owner' = "destroying"
  /\ UNCHANGED <<mutex, shutdown, thread, open, calling, emitted, data, events, wakers, guard, task, woken>>

\* netw_destroy ends the requests of the devices ...
DestroyCalls(i) ==
  /\ owner = "destroying"
  /\ CallBack(i)
  /\ UNCHANGED <<mutex, shutdown, thread, owner, emitted, data, events, wakers, guard, task, woken>>

\* Wrong: the requests are freed and nobody is told.
DestroyForgets ==
  /\ owner = "destroying"
  /\ owner' = "dropped" /\ open' = {}
  /\ UNCHANGED <<mutex, shutdown, thread, calling, emitted, data, events, wakers, guard, task, woken>>

\* ... and returns.
DestroyReturns ==
  /\ owner = "destroying" /\ open = {} /\ calling = None
  /\ owner' = "dropped"
  /\ UNCHANGED <<mutex, shutdown, thread, open, calling, emitted, data, events, wakers, guard, task, woken>>

Init ==
  /\ mutex = None /\ shutdown = FALSE /\ thread = "sleeping" /\ owner = "using"
  /\ open = {} /\ calling = None /\ data = [i \in Requests |-> None]
  /\ events = <<>> /\ emitted = 0
  /\ waker = {} /\ listener = None
  /\ guard = {}
  /\ task = [t \in Tasks |-> IF t \in Streams THEN "ready" ELSE "new"]
  /\ woken = {}

Thread == ThreadLocks \/ ThreadUnlocks
Drop == DropJoins \/ DestroyReturns
Poll(t) == IF t \in Streams THEN PollNext(t) ELSE PollFuture(t)

Next ==
  \/ Thread \/ ThreadEmits \/ Resolves
  \/ \E i \in Requests : ThreadCalls(i) \/ SendLocks(i) \/ SendReturns(i)
  \/ \E t \in Tasks : Poll(t) \/ StoreWaker(t) \/ DropTask(t)
  \/ DropShutsDown \/ Drop \/ \E i \in Requests : DestroyCalls(i)

\* What the executor and the scheduler owe: a task is polled when it is new or was woken,
\* and whoever has a mutex goes on.  The thread gets the mutex because the application holds
\* it for one call at a time.  The requests that stay open end in some netw_poll, by an
\* answer or a timeout (EveryRequestEnds of ZmtpDevice), and polling a future over and over
\* keeps no callback from its mutex.
Due(t) == (task[t] = "ready" \/ t \in woken) /\ Poll(t)

Fairness ==
  /\ SF_vars(ThreadLocks) /\ WF_vars(ThreadUnlocks) /\ WF_vars(Drop)
  /\ SF_vars(Resolves)
  /\ \A i \in Requests :
       SF_vars(ThreadCalls(i)) /\ WF_vars(DestroyCalls(i)) /\ WF_vars(SendReturns(i))
  /\ \A t \in Tasks : SF_vars(Due(t)) /\ WF_vars(StoreWaker(t))

Spec == Init /\ [][Next]_vars /\ Fairness

---------------------------------------------------------------------------
(* Properties *)

TypeOK ==
  /\ mutex \in Requests \cup {"thread", None} /\ shutdown \in BOOLEAN
  /\ thread \in {"sleeping", "polling", "ended"}
  /\ owner \in {"using", "joining", "destroying", "dropped"}
  /\ open \subseteq Requests /\ calling \in Requests \cup {None}
  /\ data \in [Requests -> {None, "answer", "shutdown"}]
  /\ events \in Seq(1..MaxEvents) /\ emitted \in 0..MaxEvents
  /\ waker \subseteq Requests /\ listener \in Streams \cup {None}
  /\ guard \subseteq Tasks /\ woken \subseteq Tasks
  /\ task \in [Tasks -> {"new", "sending", "ready", "checking", "waiting", "done", "dropped"}]

\* The C library, which has no locks, is never entered by two threads, netw_destroy
\* included, and by none after it (arc.rs:24-39, 91-96).
InLibrary ==
  (IF thread = "polling" THEN {"thread"} ELSE {})
  \cup {i \in Requests : task[i] = "sending"}
  \cup (IF owner = "destroying" THEN {"owner"} ELSE {})

OneInLibrary ==
  /\ \A x, y \in InLibrary : x = y
  /\ owner = "dropped" => thread = "ended" /\ InLibrary = {}

\* A task that waits for a future has a waker there, or the future has its data and the task
\* was woken: no wake-up falls between the look at the data and the store of the waker
\* (simple_future.rs:43).
WaitersAreWoken ==
  \A i \in Requests : task[i] = "waiting" =>
    \/ data[i] = None /\ i \in waker
    \/ data[i] # None /\ i \in woken

\* A future that is awaited ends, whether the device answers or the Context is dropped.
EveryFutureEnds ==
  \A i \in Requests : task[i] = "sending" ~> task[i] \in {"done", "dropped"}

\* Events do not stay in the queue as long as a stream is there (event.rs:61, 80).
EventsAreTaken ==
  events # <<>> ~> events = <<>> \/ \A s \in Streams : task[s] = "dropped"

\* Dropping the Context returns: the thread sees the flag and the library has no request
\* left (arc.rs:91).
DropEnds == owner = "joining" ~> owner = "dropped"
===========================================================================
