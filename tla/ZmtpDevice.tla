---------------------------- MODULE ZmtpDevice ----------------------------
(***************************************************************************)
(* The request queue linq-network keeps for one ZMTP device                *)
(* (src/zmtp/zmtp_device.c) with the handlers of src/zmtp/zmtp.c that      *)
(* drive it: process_response, device_resolve, and the poll of the main    *)
(* loop.                                                                   *)
(*                                                                         *)
(* At most one request is pending, that is, on the wire.  The others wait  *)
(* in a FIFO list.  A pending request is sent again when its timer runs    *)
(* out, each time under a new id, until max_retry is reached.  A response  *)
(* is matched to the pending request by that id.                           *)
(*                                                                         *)
(* The operators of the first part take the device (a record) and return   *)
(* the device after one C function; a handler composes them as the C code  *)
(* calls those functions.  Requests are numbered in the order in which     *)
(* they are accepted.                                                      *)
(***************************************************************************)
EXTENDS Integers, Sequences, FiniteSets

CONSTANTS
  Versions,          \* protocol versions of the device's packets: 0 (legacy), 1
  Routers,           \* router ids its connection may have
  SendResults,       \* whether request_send succeeds: FALSE is zmq_msg_send < 0
  RetryTimeouts,     \* values netw_retry_timeout_set is called with
  MaxRetries,        \* values netw_max_retry_set is called with
  LinqNetwMaxRetry,  \* LINQ_NETW_MAX_RETRY of zmtp.h
  TickMod,           \* sys_tick() is read as an uint32_t: 2^32
  IdMod,             \* reqid is an int32_t: 2^32
  None               \* the C NULL

CONSTANTS            \* bounds of the model
  MaxRequests,       \* requests accepted in a behaviour
  MaxCallbackSends,  \* requests a completion callback issues
  MaxAnswers,        \* responses one transmission may bring (lost: 0, repeated: 2)
  MaxEpochs,         \* how many times the device is created
  MaxLate            \* how many ticks a poll may come after the timer ran out

ASSUME DeviceAssumption ==
  /\ Versions \subseteq {0, 1} /\ Versions # {}
  /\ Routers # {} /\ None \notin Routers
  /\ SendResults \subseteq BOOLEAN
  /\ RetryTimeouts \subseteq Nat /\ MaxRetries \subseteq Nat
  /\ LinqNetwMaxRetry \in Nat
  /\ TickMod \in Nat \ {0}
  /\ IdMod \in Nat \ {0} /\ IdMod % 2 = 0
  /\ MaxRequests \in Nat /\ MaxCallbackSends \in Nat /\ MaxAnswers \in Nat
  /\ MaxEpochs \in Nat /\ MaxLate \in Nat

VARIABLES
  dev,            \* the zmtp_device_s, and the history of what happened to it
  retry_timeout,  \* static int retry_timeout
  max_retry,      \* static int max_retry
  now             \* the true time, of which sys_tick() is what fits in 32 bits

vars == <<dev, retry_timeout, max_retry, now>>

---------------------------------------------------------------------------
(* Data *)

Codes == {"200", "504"}  \* "200" stands for every code but 504: all are handled alike
Fates == Codes \cup {"IO", "TIMEOUT", "SHUTTING_DOWN"}

\* The C NULL of node_s.pending, and a request_s: rid is frames[FRAME_RID_IDX]. The
\* fields due, since and last are history: the true time at which the timer should run
\* out, the time of acceptance, and the latest transmission (an index of dev.sent).
NoRequest == [req |-> 0, rid |-> None, retry_at |-> 0, retry_count |-> 0,
              due |-> 0, since |-> 0, last |-> 0]

Request == [req : Nat \ {0}, rid : Routers \cup {None}, retry_at : Nat, retry_count : Nat,
            due : Nat, since : Nat, last : Nat]

\* A transmission: the request it carries, the protocol version it is written
\* in, its number (what reqid would be if it had no width), the router id it is
\* addressed to, the device object that sent it, and how many responses to it
\* may still arrive.
Transmission == [req : Nat \ {0}, ver : {0, 1}, n : Nat, router : Routers,
                 epoch : Nat, left : Nat]

\* The end of a request: how, the transmission that was answered (0: none),
\* and the latest transmission of the request (0: none).  "DROPPED" is a
\* request freed without a call of its callback.
Ending == [req : Nat \ {0}, fate : Fates \cup {"DROPPED"}, answer : Nat, last : Nat]

Device == [alive : BOOLEAN, pending : Request \cup {NoRequest},
           requests : Seq(Request), reqid : Nat, legacy : BOOLEAN,
           router : Routers, heard : Routers,
           accepted : Nat, done : Seq(Ending), sent : Seq(Transmission), epoch : Nat]

SysTick(t) == t % TickMod

\* The int32_t a device's reqid holds after n increments.
Int32(n) == IF n % IdMod < IdMod \div 2 THEN n % IdMod ELSE (n % IdMod) - IdMod

\* The id a response to transmission s carries; process_response takes -1 for
\* the version 0 response, which has no id.
WireId(s) == IF s.ver = 1 THEN Int32(s.n) ELSE -1

---------------------------------------------------------------------------
(* The functions of zmtp_device.c.  The definitions marked "Wrong:" are faults *)
(* that the properties below are known to catch; nothing else refers to them.  *)

\* Wrong: the request goes to the head of the list.
PushFront(d, k) ==
  [d EXCEPT
     !.requests = [i \in 1..k |->
        [req |-> d.accepted + i, rid |-> None,
         retry_at |-> SysTick(now + retry_timeout), retry_count |-> 0, due |-> now + retry_timeout, since |-> now, last |-> 0]] \o @,
     !.accepted = @ + k]

\* request_alloc_mem and request_list_push, for k requests issued in a row
Push(d, k) ==
  [d EXCEPT
     !.requests = @ \o [i \in 1..k |->
        [req |-> d.accepted + i, rid |-> None,
         retry_at |-> SysTick(now + retry_timeout), retry_count |-> 0, due |-> now + retry_timeout, since |-> now, last |-> 0]],
     !.accepted = @ + k]

\* Wrong: the request is destroyed before its callback is told.
ResolveDestroyed(d, fate, answer, k) ==
  [Push(d, k) EXCEPT
     !.done = Append(@, [req |-> NoRequest.req, fate |-> fate,
                         answer |-> answer, last |-> NoRequest.last]),
     !.pending = NoRequest]

\* exe_on_complete then request_destroy. The callback runs while the request
\* is still pending, so that the k requests it issues are only queued.
Resolve(d, fate, answer, k) ==
  [Push(d, k) EXCEPT
     !.done = Append(@, [req |-> d.pending.req, fate |-> fate,
                         answer |-> answer, last |-> d.pending.last]),
     !.pending = NoRequest]

\* request_id_set: a legacy device gets no id, and reqid stays as it is
TakeId(d) == IF d.legacy THEN d ELSE [d EXCEPT !.reqid = @ + 1]

\* Wrong: the frame of the first transmission is used again.
RouterIdSetOnce(d) ==
  IF d.pending.rid = None THEN [d EXCEPT !.pending.rid = d.router] ELSE d

\* request_router_id_set: the frame kept in the request is replaced unless it has this id
RouterIdSet(d) == [d EXCEPT !.pending.rid = d.router]

\* request_id_set, request_router_id_set and request_send of the pending request, with
\* its frames; when the send fails the request ends there and then, and nothing is flushed
Transmit(d, ok, k) ==
  LET t == RouterIdSet(TakeId(d))
  IN  IF ok
      THEN [t EXCEPT
              !.sent = Append(@, [req |-> d.pending.req, ver |-> IF d.legacy THEN 0 ELSE 1,
                                  n |-> d.reqid, router |-> t.pending.rid,
                                  epoch |-> d.epoch, left |-> MaxAnswers]),
              !.pending.last = Len(d.sent) + 1]
      ELSE Resolve(t, "IO", 0, k)

\* Wrong: the youngest request is sent first.
FlushYoungest(d, ok, k) ==
  LET n == Len(d.requests)
  IN  Transmit([d EXCEPT !.pending = d.requests[n],
                         !.requests = SubSeq(@, 1, n - 1)], ok, k)

\* zmtp_device_request_flush
Flush(d, ok, k) ==
  Transmit([d EXCEPT !.pending = Head(d.requests), !.requests = Tail(d.requests)], ok, k)

\* Wrong: a request that is on the wire is overwritten.
FlushUnchecked(d, ok, k) ==
  IF d.requests # <<>> THEN Flush(d, ok, k) ELSE d

\* zmtp_device_request_flush_w_check
FlushWCheck(d, ok, k) ==
  IF d.requests # <<>> /\ d.pending = NoRequest THEN Flush(d, ok, k) ELSE d

\* zmtp_device_request_retry_at_set(d, -1)
RetryAtSet(d) ==
  [d EXCEPT !.pending.retry_at = SysTick(now + retry_timeout),
            !.pending.due = now + retry_timeout]

\* zmtp_device_request_retry
Retry(d, ok, k) ==
  Transmit([RetryAtSet(d) EXCEPT !.pending.retry_count = @ + 1], ok, k)

\* Wrong: the ids of earlier transmissions are accepted too.
EarlierIdPending(d, id) ==
  /\ d.pending # NoRequest
  /\ id >= 0 => id <= Int32(d.reqid - 1)

\* zmtp_device_request_pending; zmtp_device_request_pending_id is reqid - 1
RequestPending(d, id) ==
  /\ d.pending # NoRequest
  /\ id >= 0 => id = Int32(d.reqid - 1)

\* zmtp_device_destroy: the pending request and those behind it are told that
\* the library shuts down; when none is pending the list is freed unseen
Destroy(d) ==
  LET waiting == IF d.pending = NoRequest THEN d.requests ELSE <<d.pending>> \o d.requests
      fate    == IF d.pending = NoRequest THEN "DROPPED" ELSE "SHUTTING_DOWN"
  IN  [d EXCEPT
         !.alive = FALSE, !.pending = NoRequest, !.requests = <<>>,
         !.done = @ \o [i \in 1..Len(waiting) |->
            [req |-> waiting[i].req, fate |-> fate, answer |-> 0, last |-> waiting[i].last]]]

\* device_resolve of a known device: the router id and the version of the packet
\* replace those of the device (zmtp_device_update_router, device_legacy_detect)
Seen(d, ver, r) == [d EXCEPT !.router = r, !.legacy = (ver = 0)]

\* device_resolve of an unknown device: zmtp_device_create. The history goes on.
Create(d, ver, r) ==
  [d EXCEPT !.alive = TRUE, !.pending = NoRequest, !.requests = <<>>, !.reqid = 0,
            !.legacy = (ver = 0), !.router = r, !.epoch = @ + 1]

---------------------------------------------------------------------------
(* The steps: calls of the application, packets, and polls *)

Init ==
  /\ dev = [alive |-> FALSE, pending |-> NoRequest, requests |-> <<>>, reqid |-> 0,
            legacy |-> FALSE, router |-> CHOOSE r \in Routers : TRUE,
            heard |-> CHOOSE r \in Routers : TRUE,
            accepted |-> 0, done |-> <<>>, sent |-> <<>>, epoch |-> 0]
  /\ retry_timeout \in RetryTimeouts
  /\ max_retry \in MaxRetries
  /\ now = 0

Settings == <<retry_timeout, max_retry>>

CallbackSends == 0..MaxCallbackSends

\* History: the router id under which the device was last heard.
Hear(d, r) == [d EXCEPT !.heard = r]

\* What every step on the device leaves alone, and its bounds.
Step ==
  /\ UNCHANGED <<Settings, now>>
  /\ dev'.accepted <= MaxRequests
  /\ dev'.epoch <= MaxEpochs

\* netw_send to a device that exists: zmtp_device_send
Send ==
  /\ dev.alive
  /\ \E ok \in SendResults, k \in CallbackSends :
       dev' = FlushWCheck(Push(dev, 1), ok, k)
  /\ Step

\* A heartbeat of a device that is known, or not yet
\* (process_heartbeat, device_resolve with insert)
Heartbeat ==
  /\ \E ver \in Versions, r \in Routers :
       dev' = IF dev.alive THEN Seen(Hear(dev, r), ver, r)
                           ELSE Create(Hear(dev, r), ver, r)
  /\ Step

\* The next response to transmission s that arrives leaves one fewer to come.
Arrives(s) ==
  /\ s \in DOMAIN dev.sent
  /\ dev.sent[s].left > 0

\* The device as process_response finds it once device_resolve has returned.
Resolved(s, r) ==
  Seen(Hear([dev EXCEPT !.sent[s].left = @ - 1], r), dev.sent[s].ver, r)

\* process_response: the device is unknown, so that nothing happens
ResponseOfUnknown(s) ==
  /\ Arrives(s)
  /\ ~dev.alive
  /\ dev' = [dev EXCEPT !.sent[s].left = @ - 1]
  /\ Step

\* process_response: "unsolicited or late response"
LateResponse(s) ==
  /\ Arrives(s)
  /\ dev.alive
  /\ \E r \in Routers :
       /\ ~RequestPending(Resolved(s, r), WireId(dev.sent[s]))
       /\ dev' = Resolved(s, r)
  /\ Step

\* process_response: a 504 restarts the timer while retries are left
Response504(s) ==
  /\ Arrives(s)
  /\ dev.alive
  /\ \E r \in Routers :
       /\ RequestPending(Resolved(s, r), WireId(dev.sent[s]))
       /\ dev.pending.retry_count < LinqNetwMaxRetry
       /\ dev' = RetryAtSet(Resolved(s, r))
  /\ Step

\* Wrong: the requests that wait are not sent.
ResponseEndsUnflushed(s, code) ==
  /\ Arrives(s)
  /\ dev.alive
  /\ code = "504" => dev.pending.retry_count >= LinqNetwMaxRetry
  /\ \E r \in Routers, k1 \in CallbackSends :
       /\ RequestPending(Resolved(s, r), WireId(dev.sent[s]))
       /\ dev' = Resolve(Resolved(s, r), code, s, k1)
  /\ Step

\* process_response: every other answer ends the request and sends the next
ResponseEnds(s, code) ==
  /\ Arrives(s)
  /\ dev.alive
  /\ code = "504" => dev.pending.retry_count >= LinqNetwMaxRetry
  /\ \E r \in Routers, ok \in SendResults, k1, k2 \in CallbackSends :
       /\ RequestPending(Resolved(s, r), WireId(dev.sent[s]))
       /\ dev' = FlushWCheck(Resolve(Resolved(s, r), code, s, k1), ok, k2)
  /\ Step

\* Wrong: the timer runs out a tick early.
TimerRanOutEarly ==
  /\ dev.alive
  /\ dev.pending # NoRequest
  /\ SysTick(now) + 1 >= dev.pending.retry_at

\* zmtp_device_poll: the timer of the pending request has run out
TimerRanOut ==
  /\ dev.alive
  /\ dev.pending # NoRequest
  /\ SysTick(now) >= dev.pending.retry_at

\* Wrong: one retry too many.
PollRetryOnceMore ==
  /\ TimerRanOut
  /\ dev.pending.retry_count <= max_retry
  /\ \E ok \in SendResults, k \in CallbackSends : dev' = Retry(dev, ok, k)
  /\ Step

PollRetry ==
  /\ TimerRanOut
  /\ dev.pending.retry_count < max_retry
  /\ \E ok \in SendResults, k \in CallbackSends : dev' = Retry(dev, ok, k)
  /\ Step

\* Wrong: the requests that wait are not sent.
PollTimeoutUnflushed ==
  /\ TimerRanOut
  /\ dev.pending.retry_count >= max_retry
  /\ \E k1 \in CallbackSends : dev' = Resolve(dev, "TIMEOUT", 0, k1)
  /\ Step

PollTimeout ==
  /\ TimerRanOut
  /\ dev.pending.retry_count >= max_retry
  /\ \E ok \in SendResults, k1, k2 \in CallbackSends :
       dev' = FlushWCheck(Resolve(dev, "TIMEOUT", 0, k1), ok, k2)
  /\ Step

\* netw_device_remove, netw_destroy: callbacks cannot reach the device any more
Remove ==
  /\ dev.alive
  /\ dev' = Destroy(dev)
  /\ Step

\* netw_retry_timeout_set, netw_max_retry_set
Configure ==
  /\ retry_timeout' \in RetryTimeouts
  /\ max_retry' \in MaxRetries
  /\ UNCHANGED <<dev, now>>

\* Time passes while a request is pending. The bound MaxLate says how much later
\* than its timer the poll that notices it may come.
Tick ==
  /\ dev.pending # NoRequest
  /\ now < dev.pending.due + MaxLate
  /\ now' = now + 1
  /\ UNCHANGED <<dev, Settings>>

Respond(s) ==
  \/ ResponseOfUnknown(s)
  \/ LateResponse(s)
  \/ Response504(s)
  \/ \E code \in Codes : ResponseEnds(s, code)

Next ==
  \/ Send
  \/ Heartbeat
  \/ \E s \in DOMAIN dev.sent : Respond(s)
  \/ PollRetry
  \/ PollTimeout
  \/ Remove
  \/ Configure
  \/ Tick

Spec == Init /\ [][Next]_vars

\* The main loop polls again and again, and time passes; whether the application
\* sends or the device answers is up to them.
Fairness ==
  /\ WF_vars(PollRetry \/ PollTimeout)
  /\ WF_vars(Tick)

FairSpec == Spec /\ Fairness

---------------------------------------------------------------------------
(* Properties *)

\* Every variable, and every field of the device, has its type.
TypeOK ==
  /\ dev \in Device
  /\ retry_timeout \in RetryTimeouts
  /\ max_retry \in MaxRetries
  /\ now \in Nat

Pending(d) == d.pending # NoRequest
OnWire(d) == IF Pending(d) THEN 1 ELSE 0

Accounted(d) ==
  /\ \A i \in DOMAIN d.done : d.done[i].req = i
  /\ Pending(d) => d.pending.req = Len(d.done) + 1
  /\ \A i \in DOMAIN d.requests : d.requests[i].req = Len(d.done) + OnWire(d) + i
  /\ d.accepted = Len(d.done) + OnWire(d) + Len(d.requests)

\* The requests that ended, the pending one and the queued ones are together all
\* the accepted requests, in the order of acceptance: none is lost, none is ended
\* twice and none overtakes another, however callbacks, failed sends, retries and
\* late responses interleave (zmtp_device_request_resolve, _flush, _destroy).
EachOnceInOrder == Accounted(dev)

\* One request at a time is on the wire: a request is transmitted only when all
\* those before it have ended, and what was transmitted last is the pending request.
OneAtATime ==
  /\ \A s \in DOMAIN dev.sent : dev.sent[s].req <= Len(dev.done) + 1
  /\ \A s, t \in DOMAIN dev.sent : s < t => dev.sent[s].req <= dev.sent[t].req
  /\ Pending(dev) => /\ dev.alive
                     /\ dev.pending.last = Len(dev.sent) /\ dev.pending.last # 0
                     /\ dev.sent[dev.pending.last].req = dev.pending.req
                     /\ dev.sent[dev.pending.last].epoch = dev.epoch

\* Requests wait with none on the wire, or are freed without their callback, only
\* where a send has failed: zmtp_device_request_flush and _retry end the request
\* that could not be sent and do not go on to the next one.
StalledOnlyAfterSendFailure ==
  /\ ~Pending(dev) /\ dev.requests # <<>> =>
       dev.done # <<>> /\ dev.done[Len(dev.done)].fate = "IO"
  /\ \A i \in DOMAIN dev.done : dev.done[i].fate = "DROPPED" =>
       \E j \in 1..(i - 1) : dev.done[j].fate = "IO"

\* A versioned response that ends a request answers the latest transmission of
\* that very request, unless it was sent by an earlier object of the device or the
\* ids have gone round: late responses never reach another request
\* (zmtp_device_request_pending in process_response).
AnswersLatest ==
  \A i \in DOMAIN dev.done :
    dev.done[i].answer # 0 =>
      LET a == dev.sent[dev.done[i].answer]
          b == dev.sent[dev.done[i].last]
      IN  /\ b.req = dev.done[i].req
          /\ \/ a.ver = 0 \/ b.ver = 0
             \/ a.epoch # b.epoch
             \/ a.n >= IdMod \div 2 \/ b.n >= IdMod \div 2
             \/ dev.done[i].answer = dev.done[i].last

Transmissions(r) == {s \in DOMAIN dev.sent : dev.sent[s].req = r}

\* A request is transmitted once, and once more for each retry, which are at most
\* the most retries that were ever allowed; and it is given up, with LINQ_ERROR_TIMEOUT
\* or LINQ_ERROR_504, only after the retries that this ending asks for.
RetryBudget ==
  /\ \A r \in 1..dev.accepted : \E m \in MaxRetries :
       Cardinality(Transmissions(r)) <= m + 1
  /\ Pending(dev) =>
       Cardinality(Transmissions(dev.pending.req)) = dev.pending.retry_count + 1
  /\ \A i \in DOMAIN dev.done :
       /\ dev.done[i].fate = "TIMEOUT" =>
            \E m \in MaxRetries : Cardinality(Transmissions(i)) >= m + 1
       /\ dev.done[i].fate = "504" =>
            Cardinality(Transmissions(i)) >= LinqNetwMaxRetry + 1

\* The step sends the pending request again.
Retries ==
  /\ Len(dev'.sent) > Len(dev.sent)
  /\ dev.pending.req = dev'.sent[Len(dev'.sent)].req

\* The step reports that the pending request timed out.
TimesOut ==
  /\ Len(dev'.done) > Len(dev.done)
  /\ dev'.done[Len(dev.done) + 1].fate = "TIMEOUT"

\* A request is sent again, or given up, only once its timer has really run out,
\* and it is given up only after as many timeouts as it may be transmitted, counted
\* from its acceptance (zmtp_device_poll, zmtp_device_request_retry_at_set).
PatientRetries ==
  [][/\ Retries \/ TimesOut => now >= dev.pending.due
     /\ TimesOut /\ RetryTimeouts = {retry_timeout} =>
          now >= dev.pending.since + (max_retry + 1) * retry_timeout]_vars

\* Whatever is transmitted is addressed to the router id under which the device was
\* last heard, also when the request was first sent under another one, whose frame it
\* still has (zmtp_device_update_router, request_router_id_set).
AddressedToLatestRoute ==
  [][Len(dev'.sent) > Len(dev.sent) =>
       dev'.sent[Len(dev'.sent)].router = dev'.heard]_vars

\* Every accepted request ends, as long as the main loop polls (the sends that
\* fail stall the queue until the application sends again, see above).
EveryRequestEnds ==
  \A n \in 1..MaxRequests : (dev.accepted >= n) ~> (Len(dev.done) >= n)

\* The promise that the queue implements: the endings are its answers. That a request
\* is freed without an answer is possible only where sends fail.
Service == INSTANCE RequestService WITH
  Outcomes <- Fates \cup (IF FALSE \in SendResults THEN {"DROPPED"} ELSE {}),
  issued   <- dev.accepted,
  answered <- [i \in DOMAIN dev.done |->
                 [req |-> dev.done[i].req, outcome |-> dev.done[i].fate]]

\* ZmtpDevice implements RequestService.
ImplementsService == Service!Safety
===========================================================================
