-------------------------------- MODULE Usb --------------------------------
(***************************************************************************)
(* A device on USB: the host (src/usb/host/io_m5.c, usbh.c), which sends a *)
(* request and waits for the response before netw_send returns, and the    *)
(* device (src/usb/device/usbd.c, apps/ttyd), which asks its own web       *)
(* server.  Nothing on the wire says which request a response answers.     *)
(*                                                                         *)
(* A packet goes over the wire in two parts, its head and the end with the *)
(* terminator, and whoever reads gets as many parts as have arrived.  How  *)
(* a head gives the length of its packet is in Rlp.                        *)
(***************************************************************************)
EXTENDS Integers, Sequences

CONSTANTS
  MaxRequests, MaxUnplugs,    \* bounds on what the application and the user do
  None

ASSUME UsbAssumption ==
  /\ {MaxRequests, MaxUnplugs} \subseteq Nat
  /\ None \notin Nat /\ None \notin {"live", "dead"}

VARIABLES
  handle,     \* the device's entry in netw_s.devices: None, "live", or "dead" once unplugged
  waiting,    \* the request netw_send has not returned from, or None
  buffer,     \* what io->in holds of the response
  out, in,    \* parts under way to the device, and to the host
  serving,    \* the request the device asks its web server for, or None
  plugged, unplugs,
  results     \* history: how each request ended, "answer", "garbage", "timeout", "error" or
              \* "gone", and the request that the response was of

host == <<handle, waiting, buffer, results>>
wire == <<out, in>>
device == <<serving, plugged, unplugs>>
vars == <<host, wire, device>>

Packet(n) == << [id |-> n, part |-> "head"], [id |-> n, part |-> "end"] >>
IsEnd(u) == u.part = "end"

---------------------------------------------------------------------------
(* The host *)

Ended(how) == [how |-> how, of |-> None]

\* usbh_scan: a device is opened unless its serial is among the devices, opened or dead.
Scan ==
  /\ waiting = None /\ handle = None /\ plugged
  /\ handle' = "live"
  /\ UNCHANGED <<waiting, buffer, results, wire, device>>

\* netw_device_remove
Remove ==
  /\ waiting = None /\ handle # None
  /\ handle' = None
  /\ UNCHANGED <<waiting, buffer, results, wire, device>>

\* Wrong: the next response is read behind the last.
CompleteKeepsBuffer(result) ==
  /\ results' = Append(results, result)
  /\ waiting' = None /\ UNCHANGED buffer
  /\ handle' = IF result.how = "gone" THEN None ELSE handle

\* The callback is called, and process_io_error has a device that is gone removed.
Complete(result) ==
  /\ results' = Append(results, result)
  /\ waiting' = None /\ buffer' = <<>>
  /\ handle' = IF result.how = "gone" THEN None ELSE handle

\* io_m5_send with what io_m5_send_http_request_sync transmits
Send ==
  /\ waiting = None /\ handle # None /\ Len(results) < MaxRequests
  /\ IF handle = "dead"
     THEN Complete(Ended("gone")) /\ UNCHANGED out
     ELSE /\ waiting' = Len(results) + 1
          /\ out' = out \o Packet(Len(results) + 1)
          /\ UNCHANGED <<handle, buffer, results>>
  /\ UNCHANGED <<in, device>>

\* What wire_read_sz and wire_parse_http_response make of the bytes read: of the end of a
\* packet, whose text is no list, an error; of a head the packet, even when its end is another's,
\* unless that is too short.  The size is found wrong then, and 0 is returned all the same,
\* so that the callback gets a code and a text that were never written.
Outcomes(b) ==
  IF IsEnd(Head(b)) THEN {Ended("error")}
  ELSE {[how |-> "answer", of |-> Head(b).id]}
       \cup (IF IsEnd(b[2]) THEN {} ELSE {Ended("garbage")})

\* Wrong: one transfer is taken for the whole response.
ReadOnce ==
  /\ waiting # None /\ handle = "live"
  /\ \E n \in 1..Len(in) :
       /\ in' = SubSeq(in, n + 1, Len(in))
       /\ \E result \in IF \E k \in 1..n : IsEnd(in[k]) THEN Outcomes(in) ELSE {Ended("garbage")} :
            Complete(result)
  /\ UNCHANGED <<out, device>>

\* io_m5_recv_http_response_sync reads until there is a terminator.  What follows it is lost.
Read ==
  /\ waiting # None /\ handle = "live"
  /\ \E n \in 1..Len(in) :
       LET read == buffer \o SubSeq(in, 1, n)
       IN  /\ in' = SubSeq(in, n + 1, Len(in))
           /\ IF \E k \in 1..n : IsEnd(in[k])
              THEN \E result \in Outcomes(read) : Complete(result)
              ELSE buffer' = read /\ UNCHANGED <<handle, waiting, results>>
  /\ UNCHANGED <<out, device>>

\* Wrong: only the first transfer has a timeout.
TimeoutFirst ==
  /\ waiting # None /\ handle = "live" /\ in = <<>> /\ buffer = <<>>
  /\ Complete(Ended("timeout"))
  /\ UNCHANGED <<wire, device>>

\* Nothing arrives for two seconds.
Timeout ==
  /\ waiting # None /\ handle = "live" /\ in = <<>>
  /\ Complete(Ended("timeout"))
  /\ UNCHANGED <<wire, device>>

\* LIBUSB_ERROR_NO_DEVICE
Gone ==
  /\ waiting # None /\ handle = "dead"
  /\ Complete(Ended("gone"))
  /\ UNCHANGED <<wire, device>>

---------------------------------------------------------------------------
(* The device *)

\* usbd_poll takes what it reads for one packet, all of it or not.  What starts with the end
\* of one is an error event, and what follows a packet is lost.
DevicePoll ==
  /\ plugged /\ serving = None
  /\ \E n \in 1..Len(out) :
       /\ out' = SubSeq(out, n + 1, Len(out))
       /\ \/ ~IsEnd(Head(out)) /\ serving' = Head(out).id
          \/ (IsEnd(Head(out)) \/ n = 1) /\ UNCHANGED serving
  /\ UNCHANGED <<host, in, plugged, unplugs>>

\* make_request has an answer, and usbd_write_http_response writes as much of it as the
\* terminal takes without blocking ...
DeviceResponds ==
  /\ serving # None
  /\ \E n \in 1..2 : in' = IF plugged THEN in \o SubSeq(Packet(serving), 1, n) ELSE in
  /\ serving' = None
  /\ UNCHANGED <<host, out, plugged, unplugs>>

\* ... or it fails, of which the host is not told.
DeviceFails ==
  /\ serving # None
  /\ serving' = None
  /\ UNCHANGED <<host, wire, plugged, unplugs>>

Unplug ==
  /\ plugged /\ unplugs < MaxUnplugs
  /\ plugged' = FALSE /\ unplugs' = unplugs + 1
  /\ out' = <<>> /\ in' = <<>>
  /\ handle' = IF handle = None THEN None ELSE "dead"
  /\ UNCHANGED <<waiting, buffer, results, serving>>

Plug ==
  /\ ~plugged
  /\ plugged' = TRUE
  /\ UNCHANGED <<host, wire, serving, unplugs>>

Init ==
  /\ handle = None /\ waiting = None /\ buffer = <<>> /\ results = <<>>
  /\ out = <<>> /\ in = <<>>
  /\ serving = None /\ plugged = TRUE /\ unplugs = 0

Receive == Read \/ Timeout \/ Gone

Next ==
  \/ Scan \/ Remove \/ Send \/ Receive
  \/ DevicePoll \/ DeviceResponds \/ DeviceFails
  \/ Unplug \/ Plug

\* netw_send goes on until it returns.
Spec == Init /\ [][Next]_vars /\ WF_vars(Receive)

---------------------------------------------------------------------------
(* Properties *)

Parts(s) == s \in Seq([id : 1..MaxRequests, part : {"head", "end"}])

TypeOK ==
  /\ handle \in {None, "live", "dead"} /\ waiting \in 1..MaxRequests \cup {None}
  /\ Parts(buffer) /\ Parts(out) /\ Parts(in)
  /\ waiting = None => buffer = <<>>
  /\ serving \in 1..MaxRequests \cup {None} /\ plugged \in BOOLEAN
  /\ unplugs \in 0..MaxUnplugs
  /\ results \in Seq([how : {"answer"}, of : 1..MaxRequests]
                      \cup [how : {"garbage", "timeout", "error", "gone"}, of : {None}])

Answered == {n \in 1..Len(results) : results[n].how = "answer"}

\* While no request has timed out or was on its way when the device was unplugged, each is
\* answered by its own response, however the packets are cut, and none by what was never
\* received (io_m5.c:161).  A late response may be taken for one to a later request.
OwnAnswer ==
  \A n \in 1..Len(results) :
    (n \in Answered /\ results[n].of # n) \/ results[n].how = "garbage" =>
      \E m \in 1..(n - 1) : results[m].how \in {"timeout", "gone"}

\* No response is used twice, and none overtakes another or answers an earlier request.
AnswersAdvance ==
  \A n \in Answered :
    /\ results[n].of <= n
    /\ \A m \in Answered : m < n => results[m].of < results[n].of

\* netw_send, which blocks the main loop, returns once the request is transmitted, whatever
\* the device does and however its response is cut (io_m5.c:150).
SendReturns == waiting # None ~> waiting = None
===========================================================================
