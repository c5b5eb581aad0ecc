------------------------------- MODULE Hops -------------------------------
(***************************************************************************)
(* Instances of linq-network that are connected to each other and share a  *)
(* device (src/zmtp/zmtp.c, src/zmtp/node.c).                              *)
(*                                                                         *)
(* An instance that connects to another says hello, and both then have a   *)
(* node for the other.  The instance the device talks to passes its        *)
(* heartbeats and alerts on to every node, marked as broadcasts, and       *)
(* whoever hears of the device that way sends requests for it back over    *)
(* the same connection.  The request is then queued for the device like a  *)
(* request of the instance's own application, with on_device_response as   *)
(* its callback.                                                           *)
(*                                                                         *)
(* The queue of a device and its retries are those of ZmtpDevice, without  *)
(* 504s, failing sends and the numbers of the clock.  The device speaks    *)
(* version 1 and stays connected to one instance.                          *)
(***************************************************************************)
EXTENDS Integers, Sequences, FiniteSets

CONSTANTS
  Instances,
  Topologies,   \* sets of pairs <<i, j>>: i has a dealer socket connected to a router of j
  Home,         \* the instance the device is connected to
  Device,
  Askers,       \* the instances whose application sends a request to the device
  MaxRetry,     \* max_retry of zmtp_device.c
  None

CONSTANTS       \* bounds
  MaxBeats, MaxAlerts,  \* heartbeats and alerts of the device
  MaxChannel            \* messages under way on a connection; zmq drops the rest

\* The objects an instance may have for the device
Objects == [via : Instances \cup {Device}, queue : Seq(Instances \cup {"app"}),
            pending : Instances \cup {"app", None}, id : Nat, tries : 0..MaxRetry]

ASSUME HopsAssumption ==
  /\ Home \in Instances /\ Askers \subseteq Instances
  /\ \A Links \in Topologies :
       /\ Links \subseteq Instances \X Instances
       /\ \A l \in Links : l[1] # l[2] /\ <<l[2], l[1]>> \notin Links
  /\ Device \notin Instances /\ "app" \notin Instances
  /\ LET Peers == Instances \cup {Device}
     IN  None \notin Peers \cup {"app"} /\ None \notin Peers \X Peers /\ None \notin Objects
  /\ {MaxRetry, MaxBeats, MaxAlerts, MaxChannel} \subseteq Nat

VARIABLES
  links,      \* who connects to whom, one of Topologies
  up,         \* whether the process of the instance runs
  nodes,      \* netw_s.nodes of an instance, by the peer
  object,     \* its device object, or None
  channel,    \* per ordered pair, the messages under way
  beats, alerts,  \* how many heartbeats and alerts the device sent
  asked,      \* the instances whose application has sent its request
  result,     \* how that request ended, or None
  heard,      \* history: the alerts an application was called with
  executed,   \* history: how often the device executed a request
  refused     \* history: whether an instance refused a response as no valid packet

history == <<heard, executed, refused>>
vars == <<links, up, nodes, object, channel, beats, alerts, asked, result, heard, executed, refused>>

---------------------------------------------------------------------------
(* Messages and connections *)

Hello == [kind |-> "hello"]
Announce(kind, marked) == [kind |-> kind, marked |-> marked]
Request(id) == [kind |-> "request", id |-> id]
Response(id) == [kind |-> "response", id |-> id]

\* The ordered pairs that may have messages under way, the device's connection included
Pairs == links \cup {<<l[2], l[1]>> : l \in links} \cup {<<Home, Device>>, <<Device, Home>>}

\* msg sent by i to p
To(i, p, msg) == [link |-> <<i, p>>, msg |-> msg]

\* The channels after the message at the head of link was received, unless link is None,
\* and at most one message was sent on each other
Sent(link, sends) ==
  [l \in Pairs |->
     LET rest == IF l = link THEN Tail(channel[l]) ELSE channel[l]
         new == {s \in sends : s.link = l}
     IN  IF new = {} \/ Len(rest) >= MaxChannel THEN rest
         ELSE Append(rest, (CHOOSE s \in new : TRUE).msg)]

Arrives(p, i, kind) ==
  /\ up[i]
  /\ <<p, i>> \in Pairs
  /\ channel[<<p, i>>] # <<>>
  /\ Head(channel[<<p, i>>]).kind = kind

\* i received it on a router, which names the peer by its router id.
OnRouter(p, i) == p = Device \/ <<p, i>> \in links

---------------------------------------------------------------------------
(* The object of the device *)

\* zmtp_device_create: requests go where the device was first heard.
Create(p) == [via |-> p, queue |-> <<>>, pending |-> None, id |-> 0, tries |-> 0]

\* zmtp_device_send queues the request of an asker, the application ("app") or a node.
Push(o, asker) == [o EXCEPT !.queue = Append(@, asker)]

Idle(o) == o.pending = None /\ o.queue # <<>>

\* zmtp_device_request_flush_w_check, and what it sends
Flush(o) ==
  IF Idle(o)
  THEN [o EXCEPT !.pending = Head(o.queue), !.queue = Tail(@), !.id = @ + 1, !.tries = 0]
  ELSE o

\* Wrong: the first request is sent, whether or not one is pending.
FlushSendsUnchecked(i, o) ==
  IF o.queue # <<>> THEN {To(i, o.via, Request(o.id + 1))} ELSE {}

FlushSends(i, o) == IF Idle(o) THEN {To(i, o.via, Request(o.id + 1))} ELSE {}

\* on_device_response: a packet of version 1 without the id of the request
AnswerSends(i, asker) == IF asker = "app" THEN {} ELSE {To(i, asker, Response(None))}

\* The pending request of i ends, and the next is sent.
Resolve(i, link, outcome) ==
  LET asker == object[i].pending
      rest == [object[i] EXCEPT !.pending = None]
  IN  /\ object' = [object EXCEPT ![i] = Flush(rest)]
      /\ channel' = Sent(link, AnswerSends(i, asker) \cup FlushSends(i, rest))
      /\ result' = IF asker = "app" THEN [result EXCEPT ![i] = outcome] ELSE result

---------------------------------------------------------------------------
(* Connecting *)

\* zmtp_connect, after which zmq queues what is sent in either direction
Connect(i, j) ==
  /\ up[i]
  /\ <<i, j>> \in links
  /\ j \notin nodes[i]
  /\ nodes' = [nodes EXCEPT ![i] = @ \cup {j}]
  /\ channel' = Sent(None, {To(i, j, Hello)})
  /\ UNCHANGED <<links, up, object, beats, alerts, asked, result, history>>

\* process_hello
ReceiveHello(j, i) ==
  /\ Arrives(i, j, "hello")
  /\ nodes' = [nodes EXCEPT ![j] = @ \cup {i}]
  /\ channel' = Sent(<<i, j>>, {})
  /\ UNCHANGED <<links, up, object, beats, alerts, asked, result, history>>

---------------------------------------------------------------------------
(* Heartbeats and alerts *)

DeviceBeat ==
  /\ beats < MaxBeats
  /\ beats' = beats + 1
  /\ channel' = Sent(None, {To(Device, Home, Announce("heartbeat", FALSE))})
  /\ UNCHANGED <<links, up, nodes, object, alerts, asked, result, history>>

DeviceAlert ==
  /\ alerts < MaxAlerts
  /\ alerts' = alerts + 1
  /\ channel' = Sent(None, {To(Device, Home, Announce("alert", FALSE))})
  /\ UNCHANGED <<links, up, nodes, object, beats, asked, result, history>>

\* Wrong: what is passed on is not marked.
PassOnUnmarked(i, msg) ==
  IF msg.marked THEN {} ELSE {To(i, p, msg) : p \in nodes[i]}

\* Wrong: what is marked is passed on as well.
PassOnAll(i, msg) == {To(i, p, [msg EXCEPT !.marked = TRUE]) : p \in nodes[i]}

\* foreach_node_forward_message: every node gets what is no broadcast yet.
PassOn(i, msg) ==
  IF msg.marked THEN {} ELSE {To(i, p, [msg EXCEPT !.marked = TRUE]) : p \in nodes[i]}

\* process_heartbeat: the device is resolved, and created if it is new.
ReceiveHeartbeat(i, p) ==
  /\ Arrives(p, i, "heartbeat")
  /\ object' = [object EXCEPT ![i] = IF @ = None THEN Create(p) ELSE @]
  /\ channel' = Sent(<<p, i>>, PassOn(i, Head(channel[<<p, i>>])))
  /\ UNCHANGED <<links, up, nodes, beats, alerts, asked, result, history>>

\* process_alert: of an unknown device it is an error, and goes nowhere.
ReceiveAlert(i, p) ==
  /\ Arrives(p, i, "alert")
  /\ IF object[i] = None
     THEN channel' = Sent(<<p, i>>, {}) /\ UNCHANGED heard
     ELSE /\ channel' = Sent(<<p, i>>, PassOn(i, Head(channel[<<p, i>>])))
          /\ heard' = [heard EXCEPT ![i] = @ + 1]
  /\ UNCHANGED <<links, up, nodes, object, beats, alerts, asked, result, executed, refused>>

---------------------------------------------------------------------------
(* Requests and responses *)

\* The application of i sends its request.
Ask(i) ==
  /\ up[i] /\ i \in Askers \ asked
  /\ object[i] # None
  /\ asked' = asked \cup {i}
  /\ object' = [object EXCEPT ![i] = Flush(Push(@, "app"))]
  /\ channel' = Sent(None, FlushSends(i, Push(object[i], "app")))
  /\ UNCHANGED <<links, up, nodes, beats, alerts, result, history>>

\* process_request on a router: it is queued when its node and the device are known.
ReceiveRequest(j, i) ==
  /\ Arrives(i, j, "request")
  /\ OnRouter(i, j)
  /\ IF i \in nodes[j] /\ object[j] # None
     THEN /\ object' = [object EXCEPT ![j] = Flush(Push(@, i))]
          /\ channel' = Sent(<<i, j>>, FlushSends(j, Push(object[j], i)))
     ELSE channel' = Sent(<<i, j>>, {}) /\ UNCHANGED object
  /\ UNCHANGED <<links, up, nodes, beats, alerts, asked, result, history>>

\* process_request on a dealer: node_resolve reads the router id from a message that was
\* never received.  zmq stops the process when it finds that it is no message; else no
\* node has such an id, and the request is refused.
ReceiveRequestOnDealer(j, i) ==
  /\ Arrives(i, j, "request")
  /\ ~OnRouter(i, j)
  /\ channel' = Sent(<<i, j>>, {})
  /\ \E stays \in BOOLEAN : up' = [up EXCEPT ![j] = stays]
  /\ UNCHANGED <<links, nodes, object, beats, alerts, asked, result, history>>

\* The device executes a request and answers it.
DeviceAnswers ==
  LET link == <<Home, Device>>
  IN  /\ channel[link] # <<>>
      /\ executed' = executed + 1
      /\ channel' = Sent(link, {To(Device, Home, Response(Head(channel[link]).id))})
      /\ UNCHANGED <<links, up, nodes, object, beats, alerts, asked, result, heard, refused>>

\* parse_response wants an id of four bytes, and finds the error code where it should be.
ReceiveForwardedResponse(i, p) ==
  /\ Arrives(p, i, "response")
  /\ Head(channel[<<p, i>>]).id = None
  /\ refused' = TRUE
  /\ channel' = Sent(<<p, i>>, {})
  /\ UNCHANGED <<links, up, nodes, object, beats, alerts, asked, result, heard, executed>>

\* process_response: only the answer to the latest transmission counts.
ReceiveResponse(i, p) ==
  LET msg == Head(channel[<<p, i>>])
  IN  /\ Arrives(p, i, "response")
      /\ msg.id # None
      /\ IF object[i] # None /\ object[i].pending # None /\ object[i].id = msg.id
         THEN Resolve(i, <<p, i>>, "ok")
         ELSE channel' = Sent(<<p, i>>, {}) /\ UNCHANGED <<links, object, result>>
      /\ UNCHANGED <<links, up, nodes, beats, alerts, asked, history>>

\* zmtp_device_request_retry
Again(o) == [o EXCEPT !.tries = @ + 1, !.id = @ + 1]

\* Wrong: one retry more than max_retry.
RetryOnceMore(i) ==
  /\ up[i] /\ object[i] # None /\ object[i].pending # None
  /\ object[i].tries <= MaxRetry
  /\ object' = [object EXCEPT ![i] = Again(@)]
  /\ channel' = Sent(None, {To(i, object[i].via, Request(object[i].id + 1))})
  /\ UNCHANGED <<links, up, nodes, beats, alerts, asked, result, history>>

\* zmtp_device_poll: the pending request is sent again under a new id ...
Retry(i) ==
  /\ up[i] /\ object[i] # None /\ object[i].pending # None
  /\ object[i].tries < MaxRetry
  /\ object' = [object EXCEPT ![i] = Again(@)]
  /\ channel' = Sent(None, {To(i, object[i].via, Request(object[i].id + 1))})
  /\ UNCHANGED <<links, up, nodes, beats, alerts, asked, result, history>>

\* Wrong: given up after a retry that is never made.
TimeoutLater(i) ==
  /\ up[i] /\ object[i] # None /\ object[i].pending # None
  /\ object[i].tries > MaxRetry
  /\ Resolve(i, None, "timeout")
  /\ UNCHANGED <<links, up, nodes, beats, alerts, asked, history>>

\* ... and given up after max_retry times.
Timeout(i) ==
  /\ up[i] /\ object[i] # None /\ object[i].pending # None
  /\ object[i].tries >= MaxRetry
  /\ Resolve(i, None, "timeout")
  /\ UNCHANGED <<links, up, nodes, beats, alerts, asked, history>>

---------------------------------------------------------------------------
(* The network *)

\* A message is lost, as when a connection breaks.
Lose(l) ==
  /\ channel[l] # <<>>
  /\ channel' = Sent(l, {})
  /\ UNCHANGED <<links, up, nodes, object, beats, alerts, asked, result, history>>

Init ==
  /\ links \in Topologies
  /\ up = [i \in Instances |-> TRUE]
  /\ nodes = [i \in Instances |-> {}]
  /\ object = [i \in Instances |-> None]
  /\ channel = [l \in Pairs |-> <<>>]
  /\ beats = 0 /\ alerts = 0
  /\ asked = {}
  /\ result = [i \in Instances |-> None]
  /\ heard = [i \in Instances |-> 0]
  /\ executed = 0
  /\ refused = FALSE

Receive(i, p) ==
  \/ ReceiveHello(i, p) \/ ReceiveHeartbeat(i, p) \/ ReceiveAlert(i, p)
  \/ ReceiveRequest(i, p) \/ ReceiveRequestOnDealer(i, p)
  \/ ReceiveResponse(i, p) \/ ReceiveForwardedResponse(i, p)

Poll(i) == Retry(i) \/ Timeout(i)

Next ==
  \/ \E i, j \in Instances : Connect(i, j)
  \/ \E i \in Instances, p \in Instances \cup {Device} : Receive(i, p)
  \/ \E i \in Instances : Ask(i) \/ Poll(i)
  \/ DeviceBeat \/ DeviceAlert \/ DeviceAnswers
  \/ \E l \in Pairs : Lose(l)

\* A loop polls each instance as long as its process runs.
Fairness == \A i \in Instances : WF_vars(Poll(i))

Spec == Init /\ [][Next]_vars /\ Fairness

---------------------------------------------------------------------------
(* Properties *)

TypeOK ==
  /\ links \in Topologies
  /\ up \in [Instances -> BOOLEAN]
  /\ nodes \in [Instances -> SUBSET Instances]
  /\ object \in [Instances -> Objects \cup {None}]
  /\ DOMAIN channel = Pairs
  /\ \A l \in Pairs : Len(channel[l]) <= MaxChannel
  /\ beats \in 0..MaxBeats /\ alerts \in 0..MaxAlerts
  /\ asked \subseteq Askers
  /\ result \in [Instances -> {None, "ok", "timeout"}]
  /\ heard \in [Instances -> Nat] /\ executed \in Nat /\ refused \in BOOLEAN

\* One hop is the limit. A broadcast goes no further: whoever knows the device hears it from
\* the instance the device talks to, so a request is never passed on twice (zmtp.c:490-494,
\* 536-540). A response that was passed on goes to an instance that asked (zmtp.c:334, 372).
OneHop ==
  /\ \A i \in Instances : object[i] # None =>
       object[i].via = IF i = Home THEN Device ELSE Home
  /\ \A l \in Pairs : \A n \in DOMAIN channel[l] :
       channel[l][n].kind = "response" /\ l[1] = Home => l[2] \in asked

\* An alert of the device reaches an application at most once, whatever the connections
\* among the instances (zmtp.c:490-498).
AlertOnce == \A i \in Instances : heard[i] <= alerts

\* Retries multiply over a hop, and no further: each transmission of a request to the
\* instance the device talks to is a request of its own there (zmtp.c:371).
RetriesMultiply ==
  executed <= (MaxRetry + 1) * Cardinality(asked \cap {Home})
              + (MaxRetry + 1) * (MaxRetry + 1) * Cardinality(asked \ {Home})

\* A request ends also when the instance it is sent over stops, and none of its messages
\* has to arrive (zmtp_device.c, the retries of both hops).
EveryAskEnds ==
  \A i \in Askers : i \in asked ~> result[i] # None \/ ~up[i]

\* The response to a forwarded request is accepted, as the test of forwarding expects
\* (zmtp.c:333-348).
ForwardedResponseAccepted == ~refused
===========================================================================
