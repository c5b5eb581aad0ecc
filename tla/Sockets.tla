----------------------------- MODULE Sockets -----------------------------
(***************************************************************************)
(* The connections of one linq-network instance: netw_listen, netw_connect *)
(* and netw_close with the sockets, nodes and devices they create and      *)
(* leave (src/zmtp/zmtp.c, src/zmtp/node.c, src/common/device.c).          *)
(*                                                                         *)
(* A router socket listens for devices and for other instances, which say  *)
(* hello and become nodes; a dealer socket is connected to one other       *)
(* instance and has a node of its own.  Heartbeats of devices are passed   *)
(* on to every node.  The handle the application gets for a socket is the  *)
(* number of the slot in which the map of its kind keeps it.               *)
(*                                                                         *)
(* A pointer to a socket is <<"socket", n>>, where n counts the sockets    *)
(* that were created; a pointer into a map is <<"slot", kind, i>>.         *)
(***************************************************************************)
EXTENDS SocketMap

CONSTANTS
  Endpoints,       \* the strings the application listens on and connects to
  HashValues,      \* the values of kh_str_hash_func for them
  Peers,           \* other instances, by the router id their connection gets
  Serials,         \* the serial numbers of devices
  MaxConnections   \* MAX_CONNECTIONS of zmtp.h

CONSTANTS          \* bounds of the model, and what the application does
  MaxSockets,      \* how many sockets are created
  Listens,         \* whether the application listens
  Connects,        \* whether it connects
  Again            \* whether it connects, or listens, on an endpoint in use

ASSUME SocketsAssumption ==
  /\ HashValues \subseteq Nat /\ HashValues # {}
  /\ Endpoints \cap Peers = {}
  /\ MaxConnections \in Nat /\ MaxSockets \in Nat
  /\ {Listens, Connects, Again} \subseteq BOOLEAN

VARIABLES
  routers,   \* zmtp_s.routers
  dealers,   \* zmtp_s.dealers
  nodes,     \* netw_s.nodes: per key its socket, and whether it has a router id
  devices,   \* netw_s.devices: per serial the socket of the object
  zmq,       \* the open sockets of the zmq context, and their endpoints
  held,      \* the handles the application holds, with the socket each is for
  created,   \* how many sockets were created
  lib        \* "running", the assertion that stopped the process, or how
             \* netw_destroy ended

vars == <<routers, dealers, nodes, devices, zmq, held, created, lib>>

---------------------------------------------------------------------------
(* Data *)

Kinds == {"router", "dealer"}
Ends == {"assert_poll", "assert_send", "destroyed", "blocked"}

Socket(n) == <<"socket", n>>
SlotAddress(kind, i) == <<"slot", kind, i>>

Map(kind) == IF kind = "router" THEN routers ELSE dealers

Held(kind, slot, sock) == [kind |-> kind, slot |-> slot, sock |-> sock]

\* The sockets zmtp_poll fills its poll set with
PollSet == {routers.slots[i].val : i \in Live(routers)}
           \cup {dealers.slots[i].val : i \in Live(dealers)}

Connections == routers.size + dealers.size

\* zmq_poll fails when one of its sockets is closed, and then no packet is read.
Polls ==
  /\ lib = "running"
  /\ Connections < MaxConnections
  /\ PollSet \subseteq DOMAIN zmq

Only(f, S) == [x \in S |-> f[x]]

With(f, x, y) == [z \in DOMAIN f \cup {x} |-> IF z = x THEN y ELSE f[z]]

---------------------------------------------------------------------------
(* Calls of the application *)

Init ==
  /\ \E hash \in [Endpoints -> HashValues] :
       routers = EmptyMap(hash) /\ dealers = EmptyMap(hash)
  /\ nodes = <<>> /\ devices = <<>> /\ zmq = <<>>
  /\ held = {}
  /\ created = 0
  /\ lib = "running"

\* A handle returned again is the same number, so the earlier one is no more.
Hold(kind, slot, sock) ==
  held' = {h \in held : h.kind # kind \/ h.slot # slot} \cup {Held(kind, slot, sock)}

Creates ==
  /\ lib = "running"
  /\ created < MaxSockets
  /\ created' = created + 1

\* zmtp_listen when zmq_bind succeeds, on an endpoint in use as it does for ipc; when it
\* fails everything stays as it is
Listen(ep) ==
  LET sock == Socket(created + 1)
      added == Add(routers, ep, sock)
  IN  /\ Creates
      /\ Again \/ \A s \in DOMAIN zmq : zmq[s] # <<"router", ep>>
      /\ routers' = added
      /\ zmq' = With(zmq, sock, <<"router", ep>>)
      /\ Hold("router", KeyOf(added, ep), sock)
      /\ UNCHANGED <<dealers, nodes, devices, lib>>

\* Wrong: the node gets what socket_map_add returns, which points to the socket's slot.
ConnectSlotAddress(ep) ==
  LET sock == Socket(created + 1)
      added == Add(dealers, ep, sock)
      slot == SlotAddress("dealer", Find(added, ep))
  IN  /\ Creates
      /\ Again \/ Lookup(dealers, ep) = {}
      /\ dealers' = added
      /\ zmq' = With(zmq, sock, <<"dealer", ep>>)
      /\ nodes' = With(nodes, ep, [sock |-> slot, router |-> FALSE])
      /\ Hold("dealer", KeyOf(added, ep), sock)
      /\ UNCHANGED <<routers, devices, lib>>

\* Wrong: the node of an endpoint that was connected before is kept.
ConnectKeepsNode(ep) ==
  LET sock == Socket(created + 1)
      added == Add(dealers, ep, sock)
  IN  /\ Creates
      /\ Again \/ Lookup(dealers, ep) = {}
      /\ dealers' = added
      /\ zmq' = With(zmq, sock, <<"dealer", ep>>)
      /\ nodes' = IF ep \in DOMAIN nodes THEN nodes
                  ELSE With(nodes, ep, [sock |-> sock, router |-> FALSE])
      /\ Hold("dealer", KeyOf(added, ep), sock)
      /\ UNCHANGED <<routers, devices, lib>>

\* zmtp_connect; zmq_connect does not wait for the other side
Connect(ep) ==
  LET sock == Socket(created + 1)
      added == Add(dealers, ep, sock)
  IN  /\ Creates
      /\ Again \/ Lookup(dealers, ep) = {}
      /\ dealers' = added
      /\ zmq' = With(zmq, sock, <<"dealer", ep>>)
      /\ nodes' = With(nodes, ep, [sock |-> sock, router |-> FALSE])
      /\ Hold("dealer", KeyOf(added, ep), sock)
      /\ UNCHANGED <<routers, devices, lib>>

\* remove_if of zmtp.c: the socket of a node or device is compared with s
RemoveIf(v, s) == v.sock = s

Remaining(f, s) == Only(f, {x \in DOMAIN f : ~RemoveIf(f[x], s)})

\* zmtp_close_router: remove_if is given the address of the slot
CloseRouter(h) ==
  /\ lib = "running"
  /\ devices' = Remaining(devices, SlotAddress("router", h.slot))
  /\ routers' = Del(routers, h.slot)
  /\ zmq' = Only(zmq, DOMAIN zmq \ {ValueAt(routers, h.slot)})
  /\ held' = held \ {h}
  /\ UNCHANGED <<dealers, nodes, created, lib>>

\* Wrong: the entry is removed and its socket stays open.
CloseDealerLeaks(h) ==
  /\ lib = "running"
  /\ devices' = Remaining(devices, SlotAddress("dealer", h.slot))
  /\ nodes' = Remaining(nodes, SlotAddress("dealer", h.slot))
  /\ dealers' = Del(dealers, h.slot)
  /\ held' = held \ {h}
  /\ UNCHANGED <<routers, zmq, created, lib>>

\* zmtp_close_dealer
CloseDealer(h) ==
  /\ lib = "running"
  /\ devices' = Remaining(devices, SlotAddress("dealer", h.slot))
  /\ nodes' = Remaining(nodes, SlotAddress("dealer", h.slot))
  /\ dealers' = Del(dealers, h.slot)
  /\ zmq' = Only(zmq, DOMAIN zmq \ {ValueAt(dealers, h.slot)})
  /\ held' = held \ {h}
  /\ UNCHANGED <<routers, created, lib>>

\* netw_close: the type in the handle's upper byte says which. A handle is closed
\* once by the application.
Close(h) ==
  \/ h.kind = "router" /\ CloseRouter(h)
  \/ h.kind = "dealer" /\ CloseDealer(h)

\* netw_device_remove
RemoveDevice(sid) ==
  /\ lib = "running"
  /\ devices' = Only(devices, DOMAIN devices \ {sid})
  /\ UNCHANGED <<routers, dealers, nodes, zmq, held, created, lib>>

\* The sockets that are open after zmtp_deinit has closed those of its maps
LeftOpen == DOMAIN zmq \ PollSet

\* netw_destroy: zmq_ctx_destroy returns once every socket is closed
Destroy ==
  /\ lib = "running"
  /\ lib' = IF LeftOpen = {} THEN "destroyed" ELSE "blocked"
  /\ routers' = EmptyMap(routers.hash) /\ dealers' = EmptyMap(dealers.hash)
  /\ nodes' = <<>> /\ devices' = <<>> /\ held' = {}
  /\ zmq' = Only(zmq, LeftOpen)
  /\ UNCHANGED created

---------------------------------------------------------------------------
(* netw_poll *)

\* The assertion at the head of zmtp_poll
PollAsserts ==
  /\ lib = "running"
  /\ Connections >= MaxConnections
  /\ lib' = "assert_poll"
  /\ UNCHANGED <<routers, dealers, nodes, devices, zmq, held, created>>

\* process_hello and node_resolve: a peer on a router socket, whose router id
\* zmq made up for its connection
Hello(s, peer) ==
  /\ Polls
  /\ s \in PollSet /\ zmq[s][1] = "router"
  /\ peer \in DOMAIN nodes => nodes[peer].sock = s
  /\ nodes' = IF peer \in DOMAIN nodes THEN nodes
              ELSE With(nodes, peer, [sock |-> s, router |-> TRUE])
  /\ UNCHANGED <<routers, dealers, devices, zmq, held, created, lib>>

\* process_heartbeat: device_resolve does not change the socket of a device that is
\* known. Unless the heartbeat was passed on to us it is passed on to every node, where
\* optional_send_router asserts that a socket with a router id takes the frame.
Heartbeat(s, sid, broadcast) ==
  /\ Polls
  /\ s \in PollSet
  /\ devices' = With(devices, sid,
                     [sock |-> IF sid \in DOMAIN devices THEN devices[sid].sock ELSE s])
  /\ lib' = IF ~broadcast /\ \E k \in DOMAIN nodes :
                               nodes[k].router /\ nodes[k].sock \notin DOMAIN zmq
            THEN "assert_send" ELSE lib
  /\ UNCHANGED <<routers, dealers, nodes, zmq, held, created>>

Next ==
  \/ \E ep \in Endpoints : Listens /\ Listen(ep)
  \/ \E ep \in Endpoints : Connects /\ Connect(ep)
  \/ \E h \in held : Close(h)
  \/ \E sid \in DOMAIN devices : RemoveDevice(sid)
  \/ Destroy
  \/ PollAsserts
  \/ \E s \in PollSet, peer \in Peers : Hello(s, peer)
  \/ \E s \in PollSet, sid \in Serials, broadcast \in BOOLEAN : Heartbeat(s, sid, broadcast)

Spec == Init /\ [][Next]_vars

---------------------------------------------------------------------------
(* Properties *)

Pointers == {Socket(n) : n \in 1..MaxSockets}

\* The variables that are not maps have their types.
TypeOK ==
  /\ DOMAIN nodes \subseteq Endpoints \cup Peers
  /\ \A k \in DOMAIN nodes : nodes[k] \in [sock : Pointers, router : BOOLEAN]
  /\ DOMAIN devices \subseteq Serials
  /\ \A sid \in DOMAIN devices : devices[sid] \in [sock : Pointers]
  /\ DOMAIN zmq \subseteq Pointers
  /\ \A s \in DOMAIN zmq : zmq[s] \in Kinds \X Endpoints
  /\ held \subseteq [kind : Kinds, slot : Nat, sock : Pointers]
  /\ created \in 0..MaxSockets
  /\ lib \in Ends \cup {"running"}

\* However entries are added, removed and moved by kh_put, kh_del and kh_resize, with
\* whatever hash values: each entry is found at its slot, the counters are right, and
\* an empty slot remains at which every search ends.
MapsConsistent == Consistent(routers) /\ Consistent(dealers)

\* netw_listen and netw_connect leave the sockets of the other endpoints to be found
\* as before, also when the map is resized and its entries kick each other out.
OthersKept ==
  [][\A kind \in Kinds, ep \in Endpoints :
       created' # created /\ lib' = "running" =>
         \/ zmq'[Socket(created')] = <<kind, ep>>
         \/ Lookup(Map(kind)', ep) = Lookup(Map(kind), ep)]_vars

\* The handle is still good: its slot has the socket it was returned for.
Names(h) == h.slot \in Live(Map(h.kind)) /\ ValueAt(Map(h.kind), h.slot) = h.sock

\* The map is full, so that the next kh_put moves its entries.
Full(t) == t.occupied >= UpperBound(Buckets(t))

\* "A socket handle used to represent a specific connection"
\* (docs/source/api/api_c/api_c_linq_network_socket.rst): a handle names the socket it is
\* returned for, and goes bad only when a listen or connect finds the map of its kind full,
\* or at the end.
HandlesHold ==
  [][/\ \A h \in held' \ held : Names(h)'
     /\ \A h \in held \cap held' :
          Names(h) /\ ~Names(h)' => created' # created /\ Full(Map(h.kind))]_vars

\* The sockets that are open are those in the maps: each is polled while the library
\* runs, each is closed by the application or by netw_destroy, whose zmq_ctx_destroy
\* would wait for one that was left, and none is closed behind the back of a map, which
\* would make zmq_poll fail.
OpenIsPolled == lib = "running" => DOMAIN zmq = PollSet

\* Each connection to another instance has a node through which heartbeats and alerts
\* are passed on to it, also after it was connected anew (zmtp_connect).
ConnectionHasNode ==
  \A i \in Live(dealers) :
    LET slot == dealers.slots[i]
    IN  slot.key \in DOMAIN nodes /\ nodes[slot.key].sock = slot.val

\* "Anytime you close a connection to a remote linq_network instance, the node count
\* will decrease by 1" (docs/source/api/api_c/api_c_linq_network_node_count.rst).
CloseLowersNodeCount ==
  [][\A h \in held : CloseDealer(h) =>
       Cardinality(DOMAIN nodes') = Cardinality(DOMAIN nodes) - 1]_vars
===========================================================================
