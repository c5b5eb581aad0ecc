# linq-network in TLA+

Altronix linq-network is a C library (with C++, Node.js and Rust bindings) for
gateways that talk to IoT devices. Devices and other hubs connect to it through
ZeroMQ sockets or USB; the application listens, connects, polls, and sends
requests to devices by serial number; the library calls it back when a device is
found, beats, raises an alert, or answers. The library is single threaded: every
state change happens in a call of the application, in `netw_poll`, or in a
callback made from one of these. The Rust binding adds a thread, the Node.js
binding timers and promises.

This directory holds TLA+ models of that code, the TLC runs that check them and
TLAPS proofs about them. Paths in the text are relative to the root of the
repository (`PROJECT.json` has them with the directory the repository is in).

## Inventory

| component | source | state | operations |
|---|---|---|---|
| request queue of a device | `src/zmtp/zmtp_device.c` | `pending`, `requests`, `reqid`, `legacy`, `router`; the globals `retry_timeout`, `max_retry` | send, flush, retry, resolve, poll, create, destroy |
| packet parsing and dispatch | `src/zmtp/zmtp.c` | none of its own | heartbeat, request, response, alert, hello |
| registry | `src/netw.c`, `src/zmtp/zmtp.c`, `src/zmtp/node.c`, `src/common/device.c`, `src/common/containers.h` | maps of devices, nodes, router and dealer sockets | listen, connect, close, remove, summary |
| hop forwarding | `src/zmtp/zmtp.c`, `src/zmtp/node.c` | the broadcast bit of a packet; the node kept as context of a forwarded request | pass a broadcast on, pass a request down and a response up |
| main loop | `src/netw.c`, `src/zmtp/callbacks.c`, `src/apps/linqd` | `shutdown` | poll, shutdown, destroy, relays |
| USB transport | `src/usb`, `src/apps/ttyd` | the buffers of both ends | scan, send, receive, device poll |
| RLP, JSON | `src/common/rlp.c`, `src/common/json.c`, `src/usb/common/wire.c` | none (pure) | push, print, parse, read |
| Rust binding | `bindings/rust/linq-network/src` | waker and value of a future, event queue, the `running` flag | send, resolve, poll, drop |
| Node.js and C++ bindings | `bindings/node`, `bindings/cpp` | `running`, the timer, the cache of devices, the update stream | run, shutdown, send, update, remove |
| applications | `src/apps/linqd`, `src/apps/ttyd` | configuration; a proxied HTTP request | poll loop |

What is hard, and what makes each part correct:

* **Request queue.** Requests are accepted from the application and from
  completion callbacks, transmitted one at a time, repeated on a timer, and
  ended by a response, a timeout, a failed send or the removal of the device.
  Responses may be lost, late, repeated, or belong to an earlier object of the
  same device. Correct means: each accepted request ends exactly once, in the
  order of acceptance; a response ends only the request it answers; retries are
  bounded and patient; no request waits for ever.
* **Registry.** Handles are positions in a hash map. Correct means: the map stays
  searchable; a handle names its socket; what is open is polled; each connection
  has its node.
* **Hop forwarding.** A broadcast must reach every hub once and stop; the
  response to a forwarded request must find the hub that asked; every request
  must end although both ends of a hop retry.
* **USB.** Nothing on the wire tells which request a response answers, and what
  is sent arrives in parts. Correct means: requests get their own responses where
  nothing was late, and `netw_send`, which blocks, returns.
* **RLP.** Two walks must agree on every length; a round trip must be the identity.
* **Rust binding.** One thread at a time in the library; no lost wake-up; every
  future ends; `drop` returns.
* **Node.js binding.** `shutdown`, in a task, a continuation or a callback, must not free a
  network that is polled, then or later; packets of an update keep their order.

## Modules

| module | models | uses |
|---|---|---|
| `RequestService` | what an application is promised about the requests to one device | |
| `ZmtpDevice` | the request queue of a device, with the handlers that drive it | implements `RequestService` |
| `SocketMap` | the hash map whose positions are the handles of the library | |
| `Sockets` | listen, connect, close, destroy; hellos and heartbeats over several sockets | `SocketMap` |
| `Hops` | instances connected to each other that share a device | |
| `Usb` | host and device at the two ends of a USB cable | |
| `Rlp` | the encoding of what goes over USB, and its length | |
| `LinqRust` | the Rust binding: polling thread, futures, streams, drop | |
| `LinqJS` | the Node.js binding, with the part of the C++ binding it uses | |
| `ZmtpDeviceProofs`, `ServiceProofs` | theorems about `ZmtpDevice` | the second extends the first |
| `SocketsProofs` | theorems about `SocketMap` and `Sockets` | |
| `HopsProofs`, `UsbProofs`, `RlpProofs`, `LinqRustProofs`, `LinqJSProofs` | theorems about the module in the name | |
| `MCZmtpDevice`, `MCSockets`, `MCHops`, `MCRlp`, `MCLinqJS` | values for TLC | |

Each definition that models code is listed in `PROJECT.json` under `map` with the
lines it stands for. A definition whose comment starts with "Wrong:" is a fault:
each was put in the place of the definition it precedes, and TLC found the property
it is listed with in `PROJECT.json` violated.

### ZmtpDevice

`dev` is the `zmtp_device_s`: `pending`, `requests`, `reqid`, `legacy` and `router` are its
fields, and `alive` says whether it is in the device map. A request keeps its `retry_at`,
its `retry_count` and `rid`, the frame with the router id, which each transmission compares
with the device's (`RouterIdSet`). The functions of `zmtp_device.c` are operators from
device to device (`Push`, `Resolve`, `Transmit`, `Flush`, `Retry`, `Destroy`, ...), and a
step composes them in the order of the C code: `ResponseEnds` is `device_resolve`,
`zmtp_device_request_resolve` with the requests its callback issues, and
`zmtp_device_request_flush_w_check` with those of the callback of a failed send, in one
step, because nothing interrupts the handler. The sends of a callback are a number of
requests (`CallbackSends`), queued while the request is still pending, as in the code.

History, which no step reads to decide anything: `accepted`, `done` (how each request
ended, with the transmission that answered it), `sent`, `epoch`, `heard`, and in a
request `due`, `since`, `last`. A response is a transmission in `sent` with answers
left, delivered at any time and in any order; answers that never come are lost. The
clock `now` is unbounded, and the code sees `now % TickMod`; `reqid` is unbounded and
goes out as `Int32(reqid)`.

### SocketMap and Sockets

A map is the record that `kh_init` creates: slots with the three flags of khash, keys
and values, the number of live and of used slots. `Find`, `Add`, `Del` and `Rehash`
(with the kick-outs of `kh_resize`) follow khash.h. A slot that was deleted, or left
by a rehash, keeps its key and value, because `socket_map_resolve` reads them.

`Sockets` has one action per call of the application and per packet that changes the
tables. `zmq` is the state of the ZeroMQ library: the sockets that are open. A send or
a poll on a closed socket is modelled as failing, which is what libzmq does while it
can still tell. `held` has the handles as the application knows them. `lib` says
whether the process is running, which assertion stopped it, or how `netw_destroy`
ended.

### Hops

Three or more instances, the links between them (a dealer socket of one connected to a
router of the other) and one device with its home instance. Per instance: the nodes it
knows, its object for the device (`via` says whether that leads to the device or to
another instance), the queue of who asked, the pending request with its id and tries.
`channel` holds the messages under way on each ordered pair; they may be lost, and an
instance may stop. An action receives one packet and does all its handler does:
`ReceiveHeartbeat` creates the object and passes the broadcast on to each node,
`ReceiveRequest` queues with `on_device_response` as the callback,
`ReceiveResponse` ends the pending request, answers whoever asked, and sends the next.
Where the code reads what was never written (a request that arrives on a dealer
socket, a response without id) the packet is dropped, as the checks of the code drop it.

### Usb

A packet crosses the wire in two parts, its head and the end with the terminator;
each read takes any number of the parts that have arrived. The host's `netw_send` is
`Send` and then reads until a terminator, a timeout, or the device is gone; what it
read past the terminator is lost. The device takes what it reads for one packet, asks
its web server and writes as much of the answer as the terminal takes. `Outcomes` is
what the parser makes of the bytes that were read.

### Rlp

A node of the tree is the C struct: `b` has the encoded item, `child` the children with
the newest first. `PrintWalk[d]` is `rlp_print_walk` for nodes with up to d lists within
each other; it gives the size that is counted and the bytes that are written, which the
code computes in two walks. In it `Siblings` is the loop, `Written` what the loop does
with one node, and `WithPrefix` what follows the loop. `ParseWalk[n]` is `rlp_parse_walk`
for up to n bytes, where `First` makes the node at the head of the buffer. The recursion is
in functions with a bound (`MaxDepth`, `MaxArray`), not in recursive operators, so that it
can be proved about. `PushSource` follows a caller that keeps what `rlp_push` returns.
`CopyPrints` and `CopyParses` are the two halves of `rlp_copy`; the
first happens only if the tree fits `RLP_CONFIG_MAX_ARRAY`. `WireReadSz` is `wire_read_sz`,
which looks for the length of a packet in the part of it that has arrived.

### LinqRust

Who has the mutex of the handle, where the polling thread is, the state of each task
that sends and awaits, of the streams and of the owner. The mutex of a future is its
own (`guard`), so that the look at the data and the store of the waker are two steps.
`woken` holds tasks an executor will poll again. Callbacks of `netw_poll` and of
`netw_destroy` resolve futures and queue events.

### LinqJS

JavaScript runs on one thread, in three places: a task, the continuation of a promise,
a callback on the stack of `netw.poll` (`Place`). A timer of `run` fires only when no
continuation waits. Continuations of settled promises are `jobs`; the update stream has
its own state because it waits for one request at a time (`concatMap`). `fault` says
how a process went wrong: it called the library after the network was destroyed,
destroyed it while `netw.poll` was on the stack, or threw through the library. The model
does not follow such a process any further, so that properties with `Up` say nothing of
what it does then.

## Runs

| run | shows | bounds |
|---|---|---|
| `device_queue` | `EachOnceInOrder`, `OneAtATime`: requests end once and in order and are sent one at a time, through failed sends and sends from callbacks; `StalledOnlyAfterSendFailure`; `PatientRetries`: timers are waited out | 3 requests, 1 retry, 1 request per callback |
| `device_changes` | `AnswersLatest`: a response ends only the request whose latest transmission it answers; `RetryBudget`; while the device changes its protocol version or is removed, `max_retry` changes and ids go round | 2 requests, 2 answers per transmission, ids modulo 4 |
| `device_service` | `EveryRequestEnds`; `ImplementsService`: the queue implements `RequestService`; `AddressedToLatestRoute` | 2 requests, 2 objects, 2 router ids, sends that succeed |
| `sockets_map` | `MapsConsistent`, `OthersKept`: the map stays searchable and adding one endpoint leaves the others; `HandlesHold`: handles go bad only when a map is full; `ConnectionHasNode`: each connection has a node of its own socket, also when the endpoint was connected before | 4 endpoints, connected as often as 5 sockets allow, hash values that collide in 4 slots, in 8, or in neither |
| `sockets_few` | `OpenIsPolled`: no endpoint is used twice, and the open sockets are those that are polled | 3 endpoints, 3 sockets, 1 peer, 1 device |
| `hops` | `OneHop`: broadcasts and answers go where they should and no further; `AlertOnce`; `RetriesMultiply`: executions are bounded by the product of the tries; `EveryAskEnds` | 3 instances in a triangle, either direction of the link between asker and hub, 1 retry, 1 heartbeat, 1 alert, 1 message per channel |
| `usb` | `OwnAnswer`, `AnswersAdvance`: only a timeout or an unplugging lets a response reach another request, and then a later one; `SendReturns` | 4 requests, 1 unplugging |
| `rlp` | `ReadsBack`, `NumbersReadBack`: a round trip is the identity; `EndFound`: the length is found in whatever has arrived | trees of 3 children; strings of 0, 1, 2, 52 to 56, 255 and 256 bytes; numbers on both sides of each width; lists of up to 2; a buffer of 600 bytes |
| `rust` | `OneInLibrary`, `WaitersAreWoken`, `EveryFutureEnds`, `EventsAreTaken`, `DropEnds` | 2 requests, 1 stream, 2 events |
| `node_loop` | `LoopPollsOpen`, `SettledIsOver`, `ShutdownSettles`: `shutdown` in a task or a continuation ends the loop and nothing freed is polled; `CacheWithinTable`; `UpdateInOrder` | 2 devices, 1 run, `shutdown` not from callbacks, `remove` from tasks, an update of two files with 3 packets |
| `close_nodes`, `forward_response` | findings, see below | |

Each of the modules with state but `Rlp`, whose variables are a tree, its bytes and its copy,
also has its `TypeOK` checked by one of these runs.

Why the bounds are enough. The queue treats all requests alike: with one request pending and
two behind it (`device_queue`) each position of the list, and each way in which two of them
can be out of order, occurs; the id of a response is compared with one number, so that two
requests with two transmissions each give every kind of late response. `MaxLate` lets a poll
come on time or a tick late. `IdMod` 4 has ids go round within two retries, while 1024
stands for an id that does not. In `SocketMap` three slots of four may be used, so that the
fourth endpoint moves the entries; after removals the map is rehashed in place. Tables of 16
slots are not reached. In `Hops` a triangle is the smallest network in which a broadcast
that is passed on twice comes back, and one message per channel already has every order of
messages on different channels. In `Usb` the third request can get the response to the first
and the fourth what that leaves. Rlp's strings lie on both sides of each form of a length,
and its numbers, which readers of 1, 2 and 4 bytes read, on both sides of each width; the
buffer has room for two of the longest strings and not for three. In `LinqRust` a second
request is what can be sent while the first waits. In `LinqJS` two devices tell the one of
an update from the one that is removed. For most of the safety properties the theorems below
do without these bounds.

Fairness. `device_service`: `WF(PollRetry \/ PollTimeout)`, because an application calls
`netw_poll` in a loop (`src/apps/linqd/main.c`, `Context::poll` of the bindings) and each
call runs `devices_foreach_poll`; `WF(Tick)`, because time passes. `hops`: `WF` of the poll
of each instance, for the same reason. `usb`: `WF(Receive)`, since `netw_send` does not
return before. `node_loop`: `WF` of continuations, of timers and of the return of
`netw.poll`, which Node.js and the timeout of `zmtp_poll` give. `rust`: `SF` for what must
win a mutex (the thread takes the handle, a callback takes its future, a task that is new or
was woken is polled) and for the end of each request inside `netw_poll` (`ThreadCalls`),
which `EveryRequestEnds` of `ZmtpDevice` is about: the thread sleeps 50 ms without the mutex
after each poll and an application call holds it for that call only. `WF` for what needs no
mutex that is contended (`Drop`, the end of a call). Nothing is assumed of devices, of
messages, or of the application.

Deadlock is not checked where the system really stops: the process ends at
`netw_destroy` or a failed assertion (`Sockets`), the Context is dropped (`LinqRust`),
the bound on what the application does is reached (`Hops`, `Usb`, `Rlp`, `LinqJS`).

## Findings

* `close_nodes`: closing a connection removes neither nodes nor devices, because
  `zmtp_close_dealer` gives `remove_if` the address of the slot instead of the socket
  (zmtp.c:706-709).
* `forward_response`: the response to a forwarded request is sent as a packet of
  version 1 without the id such a packet must have (zmtp.c:333), so that the instance
  that asked refuses it and its request times out.

## Noted while modelling

What the models show or the reading showed, without a run of its own.

Request queue. The timer comparison ignores that the 32-bit millisecond clock goes
round: a request that got a 504 shortly before is repeated at once (zmtp_device.c:474).
A device that was removed and found again starts its ids at 0, so that a late response
to its earlier object ends a request it does not answer (zmtp_device.c:259); this is the
exception in `AnswersLatest`. A 504 is final only after `LINQ_NETW_MAX_RETRY` retries,
whatever `max_retry` is (zmtp.c:431). After a failed send the queue stands still until
the next request (zmtp_device.c:398).

Registry. Handles move when the map is resized at the fourth socket (zmtp.c:638); the
node that a closed router socket leaves behind makes the next broadcast fail an
assertion (node.c:67); a device left behind keeps the closed socket when it is heard on
another port (zmtp.c:236). The first of two connections to one endpoint is never
closed, and `netw_destroy` waits for it for ever (the constant `Again` of `Sockets`
allows it, and `OpenIsPolled` fails with it). The tenth socket fails the assertion of
`zmtp_poll`, which has room for ten.
Callbacks may change the tables that are iterated (zmtp.c:717, device.c:178) or into
which a pointer is held (zmtp.c:532); `netw_destroy` clears `l->devices` before the
callbacks run (netw.c:61); keys of the maps point to the caller's string, which the
bindings free (containers.h:155).

Hops. The error of a response to a forwarded request is in host byte order. A request
on a dealer socket reads a message that was never received (zmtp.c:266), and the
checks of the number of frames with `>=` (360, 397, 403, 482, 528) let packets through
that are one frame short. A request that ends without a text reaches `strlen(NULL)`
(347). The pointer into the node table that a forwarded request keeps outlives a resize.

Bindings. `run` called twice (`MaxRuns = 2`) breaks `LoopPollsOpen`: `shutdown` clears
only the last timer. `shutdown` in a callback breaks it too: `shutdownTimer` still holds
the timer that has fired (Linq.ts:258), so that the network is destroyed while `netw.poll`
is on the stack and goes on over what was freed, while the comment at Linq.ts:309-311 has
the network of a running loop destroyed after the poll. Removing devices
from callbacks or continuations breaks `CacheWithinTable`. A dashboard of three files
of which one is empty loses its third (update.ts:32-51). `sys_running` always returns
true, so that `on_ctrlc` is never called, unlike what quickstart_nodejs.rst says. A
shutdown during an update has `refresh` send on the freed network (Linq.ts:289;
test/integration/timeout/timeout.ts:103 does this). `std::string` is built from NULL for
requests that end without a text (netw.hpp:111). Two event streams share one waker, so
that one misses events (`EventsAreTaken` fails with two streams). A stream does not end
after drop. Wakers are woken under locks. `connect` passes a pointer to a string that is
already dropped (polling.rs:98).

USB and RLP. The helpers of rlp.h (91-186) throw away what `rlp_push` returns, so that
pushing with them to a root that is an item leaves the caller with the bare item and
loses the list. A response after the timeout answers the next request; ttyd never tells
the host of a failure; a response that is too short is noticed and reported as a
success with garbage (io_m5.c:161). `rlp_parse` ignores the length it is given;
arrays of several values lose their boundaries; `wire_read_sz` does not clear its result
for long strings; `wire_read_be` writes below its result (wire.c:293).

## Proofs

All theorems hold for every value of the constants that satisfies the assumption named
in the module they are about.

**Queue** (`ZmtpDeviceProofs`). `EachOnceInOrder` fixes the number of each request by
its position: the ended ones are 1 to n, the pending one is n + 1, the queued ones
follow. So it is enough that each C function keeps `done`, `pending`, `requests` in this
form: one lemma per function (`PushPreserves`, `ResolvePreserves`, `FlushPreserves`, ...),
which the steps cite. The invariant adds `GoneIsEmpty`: a device that is not in the map
has no requests; without it, creating it anew could lose some. `AddressedToLatestRoute`:
the router id of a device is the one it was last heard under (`RouteIsHeard`), and a
handler that hears a new one takes it over before it sends (`SentAlong`). A request that
was sent before keeps the frame of that time; `FramesSet` says that a transmission replaces
it by the device's router id, whatever it was.

**Service** (`ServiceProofs`). `OneAtATime`, `StalledOnlyAfterSendFailure` and
`QueueImplementsService`, that is `Spec => ImplementsService`, the refinement of
`RequestService`. Inside a handler the state is not yet in order: `Mid` is what holds
between two of its functions (the pending request has ended, the next is not sent),
`Good` what holds when it returns. A relation `Extends` between device states says that
endings are only added; it is transitive, so that a handler composed of several
functions extends, and a step that extends is a step of the service.

**Answers** (the second part of `ServiceProofs`). `AnswersLatest` and `RetryBudget`. Within
one object of the device the numbers of transmissions grow, and the pending request has the
latest, `reqid - 1`; so an id that is equal, where ids have not gone round, is the same
transmission. The transmissions of a request are counted: the pending one has `retry_count +
1`, which the guard of the retry bounds.

**Timers** (the last part of `ServiceProofs`). `PatientRetries` is false where the clock goes
round, so `TimersAreWaitedOut` proves it for behaviours in which it does not
(`[]ClockFits`: no timer that is set reaches 2^32 ms, that is, the first 49 days). The
invariant `Timed` says of each request that `retry_at` is its true due time, and that up
to now it has waited for `retry_count` timeouts, with one more until it is due. A retry
adds one to what was waited for because it comes when the request is due; a 504 starts the
timer again and may do so at any time, since what was waited for stays. That the step which
sends the next request does not count as sending the pending one again follows from
`Accounted`.

**Map** (the first half of `SocketsProofs`). What `kh_put`, `kh_del` and `kh_resize` do to
the entries of a map with any keys, hash values and number of slots (`AddMap`, `DelMap`),
and that the map stays `Consistent`. `Consistent` says what `Find` returns, and is not
inductive in the middle of a rehash, where entries are in the old table, in the new one and
in hand. The invariant is `Good`: the keys are different, the counters are right, and no
slot on the way to an entry is empty (`Leads`), which can be kept one entry at a time. A
search ends because its steps visit each slot: the triangular numbers below 2^k have
different remainders modulo 2^k, as one of two neighbouring factors is odd
(`ProbeInjective`, `ProbeOnto`). The loop of `kh_resize` keeps `Carries`: what is in the new
table can be found, and together with what is in the old table and in hand it is the map
before. Its number of moves is the number of entries. The library's induction theorems take
an operator, which the provers cannot instantiate, so the inductions, here and in
`RlpProofs`, are over sets of numbers (`NatSetInduction`, `NumbersUpTo`).

**Sockets** (the second half of `SocketsProofs`). With `AddMap` and `DelMap` a step is what
it does to entries (`Steps`), and the model's maps need not be looked into again. The
invariant is `MapsGood`, `TypeOK` and `HeldOnce`, that no slot is the handle of two sockets.
`MapsConsistent`, `OthersKept`, `HandlesHold` and `ConnectionHasNode` hold for any number of
endpoints and sockets. `OpenIsPolled` does not: the fourth socket moves handles, and closing
one that has moved closes another socket than it removes. So it is proved twice, for an
application that uses no endpoint twice: as long as the handles it holds stay good
(`OpenSocketsPolled`), and with up to three sockets, where they do so by themselves
(`FewSocketsPolled`).

**Hops** (`HopsProofs`). `OneHop` and `AlertOnce` in a network of any size. The
invariant says for each connection what may be under way on it (`Fit`): broadcasts only
from the device's home, unmarked ones only from the device, requests only towards home,
responses only to an instance that asked. For `AlertOnce` the alerts an application
heard and those under way to it are counted together, and stay below those raised.
For `RetriesMultiply` the invariant is a budget (`Budget`): what the device executed, the
requests under way to it and the transmissions that are left for what is queued or pending
at home, and the same for every other instance, multiplied by the transmissions each of its
requests may cause. A retry or a flush moves one unit from what is left to what is under
way, receiving a forwarded request turns one unit of the asker into max_retry + 1 of home,
and only asking adds. The sum over the instances is the cardinality of a set of pairs
(`Total`), which needs no induction.

**RLP** (`RlpProofs`). `RoundTrip`: for lists of any depth and strings of any bytes, what
`rlp_parse` makes of what `rlp_print` wrote is the tree itself, if it fits the buffer.
From this `ReadsBack`, `EndFound` and `NumbersReadBack` follow for any strings, numbers
and pushes. The assumption is that lengths and numbers have 32 bits, which their types in
the code say. The argument goes from the bytes up. A number without its leading zeros
has the value it was made of (`NumberReadBack`), so `rlp_read_sz` finds at the head of a
string or list the size that was written there (`StringSize`, `ListSize`). The size that
`rlp_print_walk` counts is the number of bytes it writes, at every depth (`PrintExact`).
So `rlp_parse_walk` takes as many bytes for a node as were written for it, and goes on with
what its older siblings wrote (`WalkNext`). The induction is over the number of bytes, for all
depths and positions among siblings at once (`AllRead`): a list is shorter inside than
with its prefix, and the rest is shorter than the whole. What each
recursive function computes in a step is a lemma of its own (`PrintWalkDef`,
`ParseWalkDef`, `SiblingsDef`, ...). The invariant of the state machine is that the root is
what the pushes built (`Built`), and the buffer and the copy belong to the root as it is.

**Rust** (`LinqRustProofs`). `OneInLibrary` and `WaitersAreWoken` for any number of
tasks. Who is in the library has the mutex, and the owner destroys only after the
thread has ended; the mutex of a future is kept from the look at the data to the store
of the waker.

**USB** (`UsbProofs`). `AnswersAdvance` and `OwnAnswer` for any number of requests. The
heads of packets stay in the order of the requests along the whole way: used, in the
buffer, on the wire to the host, in the device, on the wire to the device (`Ordered`).
While nothing timed out and no device was gone, nothing is on this way but the request
that waits (`Undisturbed`).

**Node.js** (`LinqJSProofs`). `UpdateInOrder` under the assumption that updates have two
files (the stream has one request under way, and what was answered, what is under way and
what is to come are the plan); `CacheWithinTable` if the application removes devices from
tasks of its own (then no continuation waits); `SettledIsOver` if it calls `run` once (the
timer and the network agree, `Loop`), and `LoopPollsOpen` if it also calls `shutdown` from
tasks and continuations only (then no poll is on the stack, `Polled`). The assumptions are
those without which the properties are false, see above.

Each `TypeOK` that a run checks is a theorem too.

Model-checked only: all liveness properties (`EveryRequestEnds`, `EveryAskEnds`,
`SendReturns`, `EveryFutureEnds`, `EventsAreTaken`, `DropEnds`, `ShutdownSettles`),
because fairness and ENABLED are out of the prover's reach. Every other property that a
passing run checks is stated by a theorem, `PatientRetries`, `OpenIsPolled` and some of
`LinqJS` under the assumptions named above.

## Not modelled

* Contents of requests and responses; memory exhaustion; frames of a message sent
  before one that fails; the checks of the number and lengths of frames, which refuse a
  packet and change nothing.
* A completion callback that removes its own device, and callbacks that change tables
  while they are iterated or pointed into: what khash's iteration visits, and what
  freed memory holds, has no meaning in a model of values.
* More than three connected instances with TLC (the theorems cover them), and an
  instance that closes a connection.
* USB: several devices, device classes. RLP: arrays of numbers, `rlp_foreach`, the
  formats of `rlp_write`.
* Bindings: listen, connect, close, scan and logs, which hand a call on.
* `json.c`, a wrapper of the vendored jsmn tokenizer; klist, jsmn, http_parser, base64.
* The scripts beside the generated documentation (`docs/_build`: jQuery, underscore,
  Sphinx): third-party code, which is most of the JavaScript in the repository.

## Plan

What is left, in the order of importance:

1. An instance that closes a connection while requests are forwarded over it (`Hops`
   with `Sockets`).
2. Several USB devices, and the scan that finds them.
