------------------------- MODULE ZmtpDeviceProofs -------------------------
(***************************************************************************)
(* Proofs about ZmtpDevice, for every number of requests, retries, routers *)
(* and every width of the clock and of the ids.                            *)
(*                                                                         *)
(* The first part shows, function by function, that the C functions of     *)
(* zmtp_device.c keep the queue accounted for; the second part that every  *)
(* step, which composes them, keeps the invariant Inv.  Inv strengthens    *)
(* EachOnceInOrder by the types and by GoneIsEmpty: without it a device    *)
(* that is created again could inherit requests of its earlier object.     *)
(* The last part is where requests are sent: a step that sends does so     *)
(* last (SentAlong), after any update of the router id (RouteIsHeard).     *)
(***************************************************************************)
EXTENDS ZmtpDevice, SequenceTheorems, TLAPS
---------------------------------------------------------------------------
(* The functions of the device *)

\* A function on 1..k is a sequence of k elements.
LEMMA FunctionIsSeq ==
  ASSUME NEW S, NEW k \in Nat, NEW q, q \in [1..k -> S]
  PROVE  q \in Seq(S) /\ Len(q) = k
  OBVIOUS

\* The clock and the settings, as every operator of the device reads them.
Clock == now \in Nat /\ retry_timeout \in Nat

\* The time at which a timer that starts now runs out is a natural number.
LEMMA SysTickIsNat ==
  ASSUME Clock
  PROVE  SysTick(now + retry_timeout) \in Nat
  BY DeviceAssumption DEF Clock, SysTick

\* What Push does, with the new requests given a name: they are numbered in the
\* order of acceptance.
LEMMA PushLemma ==
  ASSUME Clock, NEW d \in Device, NEW k \in Nat
  PROVE  \E new \in Seq(Request) :
            /\ Len(new) = k
            /\ \A i \in 1..k : new[i].req = d.accepted + i
            /\ Push(d, k) = [d EXCEPT !.requests = @ \o new, !.accepted = @ + k]
<1> DEFINE new == [i \in 1..k |->
        [req |-> d.accepted + i, rid |-> None,
         retry_at |-> SysTick(now + retry_timeout), retry_count |-> 0, due |-> now + retry_timeout, since |-> now, last |-> 0]]
<1>1. d.accepted \in Nat
  BY DEF Device
<1>2. \A i \in 1..k : new[i] \in Request /\ new[i].req = d.accepted + i
  BY <1>1, SysTickIsNat DEF Request, Clock
<1>3. new \in Seq(Request) /\ Len(new) = k
  <2>1. new \in [1..k -> Request]
    BY <1>2
  <2> QED BY <2>1, FunctionIsSeq
<1>4. Push(d, k) = [d EXCEPT !.requests = @ \o new, !.accepted = @ + k]
  BY Zenon DEF Push
<1> QED BY <1>2, <1>3, <1>4, Zenon

\* The types and domains of the sequences of a device.
LEMMA Lengths ==
  ASSUME NEW d \in Device
  PROVE  /\ Len(d.done) \in Nat /\ DOMAIN d.done = 1..Len(d.done) /\ d.done \in Seq(Ending)
         /\ Len(d.requests) \in Nat /\ DOMAIN d.requests = 1..Len(d.requests)
         /\ d.requests \in Seq(Request)
         /\ Len(d.sent) \in Nat /\ DOMAIN d.sent = 1..Len(d.sent)
         /\ d.sent \in Seq(Transmission)
         /\ d.accepted \in Nat /\ OnWire(d) \in {0, 1}
         /\ Pending(d) <=> OnWire(d) = 1
<1>1. d.done \in Seq(Ending) /\ d.requests \in Seq(Request) /\ d.sent \in Seq(Transmission)
      /\ d.accepted \in Nat
  BY DEF Device
<1>2. OnWire(d) \in {0, 1} /\ (Pending(d) <=> OnWire(d) = 1)
  BY DEF OnWire
<1> QED BY <1>1, <1>2, LenProperties

\* request_alloc_mem with request_list_push: requests are queued behind the others.
LEMMA PushPreserves ==
  ASSUME Clock, NEW d \in Device, NEW k \in Nat
  PROVE  /\ Push(d, k) \in Device
         /\ Push(d, k).pending = d.pending
         /\ Push(d, k).alive = d.alive
         /\ Accounted(d) => Accounted(Push(d, k))
<1>0. PICK new \in Seq(Request) :
            /\ Len(new) = k
            /\ \A i \in 1..k : new[i].req = d.accepted + i
            /\ Push(d, k) = [d EXCEPT !.requests = @ \o new, !.accepted = @ + k]
  BY PushLemma
<1>1. Len(new) = k /\ \A i \in 1..k : new[i].req = d.accepted + i
  BY <1>0, Zenon
<1> DEFINE all == d.requests \o new
           e == Push(d, k)
<1>2. d.requests \in Seq(Request) /\ Len(d.requests) \in Nat /\ d.accepted \in Nat
  BY Lengths
<1>3. /\ all \in Seq(Request)
      /\ Len(all) = Len(d.requests) + k
      /\ \A i \in 1..Len(d.requests) + k : all[i] =
           IF i <= Len(d.requests) THEN d.requests[i] ELSE new[i - Len(d.requests)]
  BY <1>2, <1>1, ConcatProperties
<1>7. e = [d EXCEPT !.requests = all, !.accepted = d.accepted + k]
  BY <1>0, Zenon DEF all
<1> HIDE DEF all
<1>5. e \in Device
  <2>1. all \in Seq(Request) /\ d.accepted + k \in Nat
    BY <1>2, <1>3
  <2> QED BY <2>1, <1>7 DEF Device
<1>6. /\ e.pending = d.pending /\ e.done = d.done /\ e.alive = d.alive
      /\ e.requests = all /\ e.accepted = d.accepted + k
  BY <1>7 DEF Device
<1> HIDE DEF e
<1>8. ASSUME Accounted(d) PROVE Accounted(e)
  <2>1. /\ \A i \in DOMAIN d.done : d.done[i].req = i
        /\ Pending(d) => d.pending.req = Len(d.done) + 1
        /\ \A i \in 1..Len(d.requests) : d.requests[i].req = Len(d.done) + OnWire(d) + i
        /\ d.accepted = Len(d.done) + OnWire(d) + Len(d.requests)
    BY <1>8, Lengths DEF Accounted
  <2>2. \A i \in 1..Len(all) : all[i].req = Len(d.done) + OnWire(d) + i
    <3>1. Len(d.done) \in Nat /\ OnWire(d) \in {0, 1}
      BY Lengths
    <3>2. TAKE i \in 1..Len(all)
    <3>3. CASE i <= Len(d.requests)
      BY <1>2, <1>3, <2>1, <3>3
    <3>4. CASE i > Len(d.requests)
      <4>1. i - Len(d.requests) \in 1..k /\ all[i] = new[i - Len(d.requests)]
        BY <1>2, <1>3, <3>4
      <4>2. all[i].req = d.accepted + (i - Len(d.requests))
        BY <1>1, <4>1
      <4> QED BY <4>2, <2>1, <3>1, <1>2
    <3> QED BY <1>2, <1>3, <3>3, <3>4
  <2>3. DOMAIN all = 1..Len(all)
    BY <1>3, LenProperties
  <2>4. OnWire(e) = OnWire(d) /\ (Pending(e) <=> Pending(d))
    BY <1>6 DEF OnWire, Pending
  <2>5. d.accepted + k = Len(d.done) + OnWire(d) + Len(all)
    BY <1>3, <2>1, Lengths
  <2>6. \A i \in DOMAIN e.done : e.done[i].req = i
    BY <1>6, <2>1
  <2>7. Pending(e) => e.pending.req = Len(e.done) + 1
    BY <1>6, <2>1, <2>4
  <2>8. \A i \in DOMAIN e.requests : e.requests[i].req = Len(e.done) + OnWire(e) + i
    BY <1>6, <2>2, <2>3, <2>4
  <2> QED
    BY <1>6, <2>4, <2>5, <2>6, <2>7, <2>8 DEF Accounted
<1> QED BY <1>5, <1>6, <1>8 DEF e

\* A device that exists, and whose requests are accounted for.
DeviceOK(d) == d \in Device /\ d.alive /\ Accounted(d)

\* exe_on_complete and request_destroy: the pending request becomes the next ending.
LEMMA ResolvePreserves ==
  ASSUME Clock, NEW d, DeviceOK(d), Pending(d),
         NEW fate \in Fates, NEW answer \in Nat, NEW k \in Nat
  PROVE  DeviceOK(Resolve(d, fate, answer, k)) /\ ~Pending(Resolve(d, fate, answer, k))
<1> DEFINE p == Push(d, k)
           x == [req |-> d.pending.req, fate |-> fate, answer |-> answer, last |-> d.pending.last]
           ends == Append(p.done, x)
           e == Resolve(d, fate, answer, k)
<1>1. d \in Device /\ d.alive /\ Accounted(d) /\ d.pending \in Request
  BY DEF DeviceOK, Device, Pending
<1>2. p \in Device /\ p.alive /\ p.pending = d.pending /\ Accounted(p) /\ Pending(p)
  BY <1>1, PushPreserves DEF Pending
<1>3. e = [p EXCEPT !.done = ends, !.pending = NoRequest]
  BY Zenon DEF Resolve
<1> HIDE DEF p
<1>4. x \in Ending
  BY <1>1 DEF Ending, Request
<1>5. p.done \in Seq(Ending) /\ Len(p.done) \in Nat
  BY <1>2, Lengths
<1>6. x.req = Len(p.done) + 1
  BY <1>2 DEF Accounted
<1> HIDE DEF x
<1>7. /\ ends \in Seq(Ending)
      /\ Len(ends) = Len(p.done) + 1
      /\ \A i \in 1..Len(p.done) : ends[i] = p.done[i]
      /\ ends[Len(p.done) + 1] = x
  BY <1>4, <1>5
<1> HIDE DEF ends
<1>8. e \in Device
  BY <1>2, <1>3, <1>7 DEF Device
<1>9. /\ e.pending = NoRequest /\ e.done = ends /\ e.alive
      /\ e.requests = p.requests /\ e.accepted = p.accepted
  BY <1>2, <1>3 DEF Device
<1> HIDE DEF e
<1>10. ~Pending(e) /\ OnWire(e) = 0 /\ OnWire(p) = 1
  BY <1>2, <1>9 DEF Pending, OnWire
<1>11. Accounted(e)
  <2>1. /\ \A i \in 1..Len(p.done) : p.done[i].req = i
        /\ \A i \in DOMAIN p.requests : p.requests[i].req = Len(p.done) + 1 + i
        /\ p.accepted = Len(p.done) + 1 + Len(p.requests)
    BY <1>2, <1>10, Lengths DEF Accounted
  <2>2. \A i \in 1..Len(ends) : ends[i].req = i
    BY <1>5, <1>6, <1>7, <2>1
  <2>3. DOMAIN ends = 1..Len(ends)
    BY <1>7, LenProperties
  <2>4. \A i \in DOMAIN p.requests : p.requests[i].req = Len(ends) + 0 + i
    BY <1>5, <1>7, <2>1, <1>2, Lengths
  <2>5. p.accepted = Len(ends) + 0 + Len(p.requests)
    BY <1>5, <1>7, <2>1, <1>2, Lengths
  <2> QED
    BY <1>9, <1>10, <2>2, <2>3, <2>4, <2>5 DEF Accounted
<1> QED BY <1>8, <1>9, <1>10, <1>11 DEF e, DeviceOK

\* Accounted reads four fields of the device only.
LEMMA SameQueue ==
  ASSUME NEW d, NEW e, Accounted(d),
         e.done = d.done, e.requests = d.requests, e.accepted = d.accepted,
         Pending(e) <=> Pending(d), Pending(d) => e.pending.req = d.pending.req
  PROVE  Accounted(e)
<1>1. OnWire(e) = OnWire(d)
  BY DEF OnWire
<1> QED BY <1>1 DEF Accounted

\* request_id_set leaves the queue alone.
LEMMA TakeIdPreserves ==
  ASSUME NEW d, DeviceOK(d)
  PROVE  DeviceOK(TakeId(d)) /\ TakeId(d).pending = d.pending /\ TakeId(d).sent = d.sent
<1>1. TakeId(d) \in Device
  <2>1. d \in Device /\ d.reqid + 1 \in Nat
    BY DEF DeviceOK, Device
  <2>2. TakeId(d) = d \/ TakeId(d) = [d EXCEPT !.reqid = d.reqid + 1]
    BY DEF TakeId
  <2> QED BY <2>1, <2>2 DEF Device
<1>2. /\ TakeId(d).done = d.done /\ TakeId(d).requests = d.requests
      /\ TakeId(d).accepted = d.accepted /\ TakeId(d).pending = d.pending
      /\ TakeId(d).sent = d.sent /\ TakeId(d).alive
  BY DEF DeviceOK, Device, TakeId
<1>3. Accounted(TakeId(d))
  BY <1>2, SameQueue DEF DeviceOK, Pending
<1> QED BY <1>1, <1>2, <1>3 DEF DeviceOK

\* request_id_set and request_router_id_set: the pending request gets its frames, and stays
\* the pending one.
LEMMA FramesSet ==
  ASSUME NEW d, DeviceOK(d), Pending(d)
  PROVE  LET t == RouterIdSet(TakeId(d))
         IN  /\ DeviceOK(t) /\ t \in Device /\ Pending(t) /\ t.pending \in Request
             /\ t.pending.req = d.pending.req /\ t.pending.retry_at = d.pending.retry_at
             /\ t.pending.retry_count = d.pending.retry_count /\ t.pending.due = d.pending.due
             /\ t.pending.since = d.pending.since /\ t.pending.last = d.pending.last
             /\ t.pending.rid = d.router /\ t.router = d.router /\ t.heard = d.heard
             /\ t.sent = d.sent /\ t.done = d.done /\ t.epoch = d.epoch
             /\ t.requests = d.requests /\ t.accepted = d.accepted
             /\ t.reqid = IF d.legacy THEN d.reqid ELSE d.reqid + 1
<1> DEFINE u == TakeId(d)
           q == [d.pending EXCEPT !.rid = d.router]
           t == RouterIdSet(TakeId(d))
<1>1. /\ DeviceOK(u) /\ u \in Device /\ u.pending = d.pending /\ u.sent = d.sent
      /\ u.done = d.done /\ u.epoch = d.epoch /\ u.requests = d.requests
      /\ u.accepted = d.accepted /\ u.router = d.router /\ u.heard = d.heard /\ u.alive
      /\ u.reqid = IF d.legacy THEN d.reqid ELSE d.reqid + 1
  BY TakeIdPreserves DEF DeviceOK, TakeId, Device
<1>2. d.pending \in Request /\ d.router \in Routers
  BY DEF DeviceOK, Device, Pending
<1>3. /\ q \in Request /\ q.req = d.pending.req /\ q.retry_at = d.pending.retry_at
      /\ q.retry_count = d.pending.retry_count /\ q.due = d.pending.due
      /\ q.since = d.pending.since /\ q.last = d.pending.last /\ q.rid = d.router
  BY <1>2 DEF Request
<1>4. t = [u EXCEPT !.pending.rid = u.router]
  BY Zenon DEF RouterIdSet
<1> HIDE DEF u
<1>5. t = [u EXCEPT !.pending = q]
  BY <1>1, <1>4 DEF Device
<1> HIDE DEF q, t
<1>6. /\ t \in Device /\ t.pending = q /\ t.alive
      /\ t.sent = d.sent /\ t.done = d.done /\ t.epoch = d.epoch /\ t.requests = d.requests
      /\ t.accepted = d.accepted /\ t.router = d.router /\ t.heard = d.heard /\ t.reqid = u.reqid
  BY <1>1, <1>3, <1>5 DEF Device
<1>7. Pending(t)
  <2>1. q.req # 0
    BY <1>3 DEF Request
  <2> QED
    BY <1>6, <2>1 DEF Pending, NoRequest
<1>8. Accounted(t)
  BY <1>3, <1>6, <1>7, SameQueue DEF DeviceOK
<1> QED
  BY <1>1, <1>3, <1>6, <1>7, <1>8 DEF DeviceOK, t

\* The send of the pending request, also when it fails and thereby ends the request.
LEMMA TransmitPreserves ==
  ASSUME Clock, NEW d, DeviceOK(d), Pending(d), NEW ok \in BOOLEAN, NEW k \in Nat
  PROVE  DeviceOK(Transmit(d, ok, k))
<1> DEFINE t == RouterIdSet(TakeId(d))
           e == Transmit(d, ok, k)
           s == [req |-> d.pending.req, ver |-> IF d.legacy THEN 0 ELSE 1,
                 n |-> d.reqid, router |-> t.pending.rid, epoch |-> d.epoch, left |-> MaxAnswers]
           out == Append(t.sent, s)
<1>1. /\ DeviceOK(t) /\ t.sent = d.sent /\ Pending(t)
      /\ t.pending.req = d.pending.req /\ t.pending.rid = d.router
  BY FramesSet
<1>2. CASE ok
  <2>1. e = [t EXCEPT !.sent = out, !.pending.last = Len(d.sent) + 1]
    BY <1>2, Zenon DEF Transmit
  <2>2. /\ t \in Device /\ t.alive /\ d \in Device /\ d.pending \in Request /\ t.pending \in Request
        /\ d.legacy \in BOOLEAN /\ d.reqid \in Nat /\ d.router \in Routers /\ d.epoch \in Nat
        /\ Len(d.sent) + 1 \in Nat
    BY <1>1, Lengths DEF DeviceOK, Device, Pending
  <2>3. s \in Transmission
    <3>1. d.pending.req \in Nat \ {0} /\ t.pending.rid \in Routers
      BY <1>1, <2>2 DEF Request
    <3> HIDE DEF t
    <3> QED
      BY <2>2, <3>1, DeviceAssumption DEF Transmission
  <2> HIDE DEF s
  <2>4. out \in Seq(Transmission)
    BY <2>2, <2>3, Lengths
  <2> HIDE DEF out, t
  <2> DEFINE q == [t.pending EXCEPT !.last = Len(d.sent) + 1]
  <2>5. q \in Request /\ q.req = t.pending.req
    BY <2>2 DEF Request
  <2>6. e = [t EXCEPT !.sent = out, !.pending = q]
    BY <2>1, <2>2 DEF Device
  <2> HIDE DEF q
  <2>7. e \in Device
    BY <2>2, <2>4, <2>5, <2>6 DEF Device
  <2>8. /\ e.done = t.done /\ e.requests = t.requests /\ e.accepted = t.accepted
        /\ e.pending = q /\ e.alive
    BY <2>2, <2>6 DEF Device
  <2> HIDE DEF e
  <2>9. q # NoRequest
    BY <2>5 DEF Request, NoRequest
  <2>10. Accounted(e)
    BY <1>1, <2>5, <2>8, <2>9, SameQueue DEF Pending, DeviceOK
  <2> QED BY <2>7, <2>8, <2>10 DEF DeviceOK, e
<1>3. CASE ~ok
  <2>1. e = Resolve(t, "IO", 0, k)
    BY <1>3, Zenon DEF Transmit
  <2> HIDE DEF t
  <2> QED BY <1>1, <2>1, ResolvePreserves DEF Fates
<1> QED BY <1>2, <1>3

\* zmtp_device_request_flush makes the head of the queue the pending request.
LEMMA TakeHeadPreserves ==
  ASSUME NEW d, DeviceOK(d), ~Pending(d), d.requests # <<>>
  PROVE  LET e == [d EXCEPT !.pending = Head(d.requests), !.requests = Tail(d.requests)]
         IN  DeviceOK(e) /\ Pending(e)
<1> DEFINE h == Head(d.requests)
           t == Tail(d.requests)
           e == [d EXCEPT !.pending = h, !.requests = t]
<1>1. d \in Device /\ d.alive /\ Accounted(d)
  BY DEF DeviceOK
<1>2. /\ h \in Request /\ t \in Seq(Request) /\ h = d.requests[1]
      /\ Len(t) = Len(d.requests) - 1
      /\ \A i \in 1..Len(t) : t[i] = d.requests[i + 1]
      /\ Len(t) \in Nat /\ DOMAIN t = 1..Len(t)
  BY <1>1, Lengths, HeadTailProperties, LenProperties
<1> HIDE DEF h, t
<1>3. e \in Device
  BY <1>1, <1>2 DEF Device
<1>4. /\ e.done = d.done /\ e.accepted = d.accepted /\ e.alive
      /\ e.pending = h /\ e.requests = t
  BY <1>1 DEF Device
<1> HIDE DEF e
<1>6. OnWire(d) = 0 /\ OnWire(e) = 1 /\ Pending(e)
  BY <1>2, <1>4 DEF OnWire, Pending, Request, NoRequest
<1>7. Accounted(e)
  <2>1. /\ \A i \in DOMAIN d.done : d.done[i].req = i
        /\ \A i \in 1..Len(d.requests) : d.requests[i].req = Len(d.done) + 0 + i
        /\ d.accepted = Len(d.done) + 0 + Len(d.requests)
        /\ Len(d.done) \in Nat /\ Len(d.requests) \in Nat
    BY <1>1, <1>6, Lengths DEF Accounted
  <2>2. h.req = Len(d.done) + 1
    BY <1>2, <2>1
  <2>3. ASSUME NEW i \in 1..Len(t) PROVE t[i].req = Len(d.done) + 1 + i
    <3>1. i + 1 \in 1..Len(d.requests) /\ t[i] = d.requests[i + 1]
      BY <1>2, <2>1
    <3> DEFINE n == Len(d.done)
               x == t[i].req
    <3>2. i \in Nat /\ n \in Nat
      BY <1>2, <2>1
    <3>4. d.requests[i + 1].req = n + 0 + (i + 1)
      BY <2>1, <3>1
    <3>5. x = n + 0 + (i + 1)
      BY <3>1, <3>4
    <3> HIDE DEF n, x
    <3>3. x = n + 1 + i
      BY <3>2, <3>5
    <3> QED BY <3>3 DEF n, x
  <2>4. d.accepted = Len(d.done) + 1 + Len(t)
    <3>1. Len(t) = Len(d.requests) - 1 /\ Len(t) \in Nat
      BY <1>2
    <3> DEFINE n == Len(d.done)
               r == Len(d.requests)
               u == Len(t)
    <3>2. d.accepted = n + 0 + r /\ n \in Nat /\ r \in Nat /\ u \in Nat /\ u = r - 1
      BY <2>1, <3>1
    <3> HIDE DEF n, r, u
    <3>3. d.accepted = n + 1 + u
      BY <3>2
    <3> QED BY <3>3 DEF n, u
  <2> QED BY <1>2, <1>4, <1>6, <2>1, <2>2, <2>3, <2>4 DEF Accounted
<1> QED BY <1>3, <1>4, <1>6, <1>7 DEF DeviceOK, e, h, t

\* zmtp_device_request_flush.
LEMMA FlushPreserves ==
  ASSUME Clock, NEW d, DeviceOK(d), ~Pending(d), d.requests # <<>>,
         NEW ok \in BOOLEAN, NEW k \in Nat
  PROVE  DeviceOK(Flush(d, ok, k))
  BY TakeHeadPreserves, TransmitPreserves, Zenon DEF Flush

\* zmtp_device_request_flush_w_check.
LEMMA FlushWCheckPreserves ==
  ASSUME Clock, NEW d, DeviceOK(d), NEW ok \in BOOLEAN, NEW k \in Nat
  PROVE  DeviceOK(FlushWCheck(d, ok, k))
  BY FlushPreserves DEF FlushWCheck, Pending

\* zmtp_device_request_retry_at_set changes the timer of the pending request only.
LEMMA RetryAtSetPreserves ==
  ASSUME Clock, NEW d, DeviceOK(d), Pending(d)
  PROVE  DeviceOK(RetryAtSet(d)) /\ Pending(RetryAtSet(d))
<1> DEFINE e == RetryAtSet(d)
           at == SysTick(now + retry_timeout)
           due == now + retry_timeout
           q == [d.pending EXCEPT !.retry_at = at, !.due = due]
<1>1. d \in Device /\ d.alive /\ Accounted(d) /\ d.pending \in Request
  BY DEF DeviceOK, Device, Pending
<1>2. q \in Request /\ q.req = d.pending.req
  <2>1. at \in Nat /\ due \in Nat
    BY SysTickIsNat DEF Clock
  <2> HIDE DEF at, due
  <2> QED BY <1>1, <2>1 DEF Request
<1>3. e = [d EXCEPT !.pending = q]
  BY <1>1 DEF RetryAtSet, Device
<1> HIDE DEF q
<1>4. e \in Device
  BY <1>1, <1>2, <1>3 DEF Device
<1>5. /\ e.done = d.done /\ e.requests = d.requests /\ e.accepted = d.accepted
      /\ e.pending = q /\ e.alive
  BY <1>1, <1>3 DEF Device
<1> HIDE DEF e
<1>6. Pending(e)
  BY <1>2, <1>5 DEF Pending, Request, NoRequest
<1> QED BY <1>1, <1>2, <1>4, <1>5, <1>6, SameQueue DEF DeviceOK, e

\* zmtp_device_request_retry: the pending request is sent again, or ends.
LEMMA RetryPreserves ==
  ASSUME Clock, NEW d, DeviceOK(d), Pending(d), NEW ok \in BOOLEAN, NEW k \in Nat
  PROVE  DeviceOK(Retry(d, ok, k))
<1> DEFINE r == RetryAtSet(d)
           q == [r.pending EXCEPT !.retry_count = @ + 1]
           e == [r EXCEPT !.pending.retry_count = @ + 1]
<1>1. DeviceOK(r) /\ Pending(r) /\ r \in Device /\ r.alive /\ Accounted(r) /\ r.pending \in Request
  BY RetryAtSetPreserves DEF DeviceOK, Device, Pending
<1>2. Retry(d, ok, k) = Transmit(e, ok, k)
  BY Zenon DEF Retry
<1> HIDE DEF r
<1>3. q \in Request /\ q.req = r.pending.req
  BY <1>1 DEF Request
<1>4. e = [r EXCEPT !.pending = q]
  BY <1>1 DEF Device
<1> HIDE DEF q
<1>5. e \in Device
  BY <1>1, <1>3, <1>4 DEF Device
<1>6. /\ e.done = r.done /\ e.requests = r.requests /\ e.accepted = r.accepted
      /\ e.pending = q /\ e.alive
  BY <1>1, <1>4 DEF Device
<1> HIDE DEF e
<1>7. Pending(e)
  BY <1>3, <1>6 DEF Pending, Request, NoRequest
<1>8. DeviceOK(e)
  BY <1>1, <1>3, <1>5, <1>6, <1>7, SameQueue DEF DeviceOK
<1> QED BY <1>2, <1>7, <1>8, TransmitPreserves

\* device_resolve of a known device leaves the queue alone.
LEMMA SeenPreserves ==
  ASSUME NEW d, DeviceOK(d), NEW ver, NEW r \in Routers
  PROVE  DeviceOK(Seen(d, ver, r)) /\ Seen(d, ver, r).pending = d.pending
<1> DEFINE e == Seen(d, ver, r)
<1>1. d \in Device /\ d.alive /\ Accounted(d)
  BY DEF DeviceOK
<1>2. e \in Device
  BY <1>1 DEF Seen, Device
<1>3. /\ e.done = d.done /\ e.requests = d.requests /\ e.accepted = d.accepted
      /\ e.pending = d.pending /\ e.alive
  BY <1>1 DEF Seen, Device
<1> QED BY <1>1, <1>2, <1>3, SameQueue DEF DeviceOK, Pending

\* zmtp_device_destroy: all that waited ends, in the order in which it waited.
LEMMA DestroyPreserves ==
  ASSUME NEW d, DeviceOK(d)
  PROVE  /\ Destroy(d) \in Device /\ Accounted(Destroy(d))
         /\ ~Destroy(d).alive /\ ~Pending(Destroy(d)) /\ Destroy(d).requests = <<>>
         /\ Len(Destroy(d).done) = Len(d.done) + OnWire(d) + Len(d.requests)
         /\ \A i \in 1..Len(d.done) : Destroy(d).done[i] = d.done[i]
         /\ \A i \in 1..Len(Destroy(d).done) : i > Len(d.done) =>
              Destroy(d).done[i].answer = 0 /\
              Destroy(d).done[i].fate = IF Pending(d) THEN "SHUTTING_DOWN" ELSE "DROPPED"
<1> DEFINE waiting == IF d.pending = NoRequest THEN d.requests ELSE <<d.pending>> \o d.requests
           fate == IF d.pending = NoRequest THEN "DROPPED" ELSE "SHUTTING_DOWN"
           ends == [i \in 1..Len(waiting) |->
             [req |-> waiting[i].req, fate |-> fate, answer |-> 0, last |-> waiting[i].last]]
           all == d.done \o ends
           e == Destroy(d)
<1>1. d \in Device /\ Accounted(d) /\ d.requests \in Seq(Request)
  BY DEF DeviceOK, Device
<1>2. /\ waiting \in Seq(Request)
      /\ Len(waiting) = OnWire(d) + Len(d.requests)
      /\ \A i \in 1..Len(waiting) : waiting[i].req = Len(d.done) + i
  <2>1. /\ Pending(d) => d.pending.req = Len(d.done) + 1
        /\ \A i \in 1..Len(d.requests) : d.requests[i].req = Len(d.done) + OnWire(d) + i
        /\ Len(d.done) \in Nat /\ Len(d.requests) \in Nat
    BY <1>1, Lengths DEF Accounted
  <2>2. CASE ~Pending(d)
    <3>1. waiting = d.requests /\ OnWire(d) = 0
      BY <2>2 DEF Pending, OnWire
    <3> HIDE DEF waiting
    <3> QED BY <1>1, <2>1, <3>1
  <2>3. CASE Pending(d)
    <3>1. waiting = <<d.pending>> \o d.requests /\ OnWire(d) = 1
      BY <2>3 DEF Pending, OnWire
    <3>2. d.pending \in Request
      BY <1>1, <2>3 DEF Device, Pending
    <3> DEFINE p == <<d.pending>>
    <3>3. p \in Seq(Request) /\ Len(p) = 1 /\ p[1] = d.pending
      BY <3>2
    <3> HIDE DEF p
    <3>4. /\ p \o d.requests \in Seq(Request)
          /\ Len(p \o d.requests) = 1 + Len(d.requests)
          /\ \A i \in 1..1 + Len(d.requests) : (p \o d.requests)[i] =
               IF i <= 1 THEN p[i] ELSE d.requests[i - 1]
      <4>1. d.requests \in Seq(Request)
        BY <1>1
      <4>2. /\ p \o d.requests \in Seq(Request)
            /\ Len(p \o d.requests) = Len(p) + Len(d.requests)
            /\ \A i \in 1..Len(p) + Len(d.requests) : (p \o d.requests)[i] =
                 IF i <= Len(p) THEN p[i] ELSE d.requests[i - Len(p)]
        BY <3>3, <4>1, ConcatProperties
      <4> QED BY <3>3, <4>2
    <3>5. waiting = p \o d.requests
      BY <3>1 DEF p
    <3> HIDE DEF waiting
    <3>6. ASSUME NEW i \in 1..Len(waiting) PROVE waiting[i].req = Len(d.done) + i
      <4>1. CASE i = 1
        BY <2>1, <2>3, <3>3, <3>4, <3>5, <4>1
      <4>2. CASE i > 1
        <5>1. i - 1 \in 1..Len(d.requests) /\ waiting[i] = d.requests[i - 1]
          BY <2>1, <3>4, <3>5, <4>2
        <5> QED BY <2>1, <3>1, <5>1
      <4> QED BY <2>1, <3>4, <3>5, <4>1, <4>2
    <3> QED BY <3>1, <3>4, <3>5, <3>6
  <2> QED BY <2>2, <2>3
<1>3. Len(waiting) \in Nat
  BY <1>1, <1>2, Lengths
<1>4. fate \in Fates \cup {"DROPPED"} /\ fate = IF Pending(d) THEN "SHUTTING_DOWN" ELSE "DROPPED"
  BY DEF Fates, Pending
<1>5. e = [d EXCEPT !.alive = FALSE, !.pending = NoRequest, !.requests = <<>>, !.done = all]
  BY Zenon DEF Destroy
<1> HIDE DEF waiting, fate
<1>6. ends \in Seq(Ending) /\ Len(ends) = Len(waiting)
      /\ \A i \in 1..Len(waiting) : ends[i].req = Len(d.done) + i /\ ends[i].fate = fate /\ ends[i].answer = 0
  <2>1. ASSUME NEW i \in 1..Len(waiting)
        PROVE  ends[i] \in Ending /\ ends[i].req = Len(d.done) + i /\ ends[i].fate = fate /\ ends[i].answer = 0
    <3>1. waiting[i] \in Request
      BY <1>2, ElementOfSeq
    <3> QED BY <1>2, <1>4, <3>1 DEF Request, Ending
  <2>2. ends \in [1..Len(waiting) -> Ending]
    BY <2>1
  <2> QED BY <1>3, <2>1, <2>2, FunctionIsSeq
<1> HIDE DEF ends
<1>7. /\ all \in Seq(Ending)
      /\ Len(all) = Len(d.done) + Len(waiting)
      /\ \A i \in 1..Len(d.done) + Len(waiting) : all[i] =
           IF i <= Len(d.done) THEN d.done[i] ELSE ends[i - Len(d.done)]
  <2>1. d.done \in Seq(Ending)
    BY <1>1, Lengths
  <2>2. ends \in Seq(Ending)
    BY <1>6
  <2>3. /\ all \in Seq(Ending)
        /\ Len(all) = Len(d.done) + Len(ends)
        /\ \A i \in 1..Len(d.done) + Len(ends) : all[i] =
             IF i <= Len(d.done) THEN d.done[i] ELSE ends[i - Len(d.done)]
    BY <2>1, <2>2, ConcatProperties
  <2>4. Len(ends) = Len(waiting)
    BY <1>6
  <2> QED BY <2>3, <2>4
<1> HIDE DEF all
<1>8. e \in Device
  <2>1. all \in Seq(Ending) /\ <<>> \in Seq(Request) /\ d \in Device
    BY <1>1, <1>7
  <2> QED BY <1>5, <2>1 DEF Device
<1>9. /\ e.done = all /\ e.requests = <<>> /\ e.accepted = d.accepted
      /\ e.pending = NoRequest /\ ~e.alive
  BY <1>1, <1>5 DEF Device
<1> HIDE DEF e
<1>10. ~Pending(e) /\ OnWire(e) = 0
  BY <1>9 DEF Pending, OnWire
<1>11. Accounted(e)
  <2>1. /\ \A i \in 1..Len(d.done) : d.done[i].req = i
        /\ d.accepted = Len(d.done) + OnWire(d) + Len(d.requests)
        /\ Len(d.done) \in Nat /\ Len(d.requests) \in Nat /\ OnWire(d) \in {0, 1}
    BY <1>1, Lengths DEF Accounted
  <2>2. ASSUME NEW i \in 1..Len(all) PROVE all[i].req = i
    <3> DEFINE n == Len(d.done)
               w == Len(waiting)
    <3>1. /\ n \in Nat /\ w \in Nat /\ i \in 1..n + w
          /\ all[i] = IF i <= n THEN d.done[i] ELSE ends[i - n]
      BY <1>3, <1>7, <2>1
    <3>2. /\ \A j \in 1..n : d.done[j].req = j
          /\ \A j \in 1..w : ends[j].req = n + j
      BY <1>6, <2>1
    <3> HIDE DEF n, w
    <3>3. CASE i <= n
      <4>1. i \in 1..n /\ all[i] = d.done[i]
        BY <3>1, <3>3
      <4> QED BY <3>2, <4>1
    <3>4. CASE ~(i <= n)
      <4>1. i - n \in 1..w /\ n + (i - n) = i
        BY <3>1, <3>4
      <4>2. all[i] = ends[i - n]
        BY <3>1, <3>4
      <4> QED BY <3>2, <4>1, <4>2
    <3> QED BY <3>3, <3>4
  <2>3. DOMAIN all = 1..Len(all) /\ Len(all) = d.accepted /\ Len(all) \in Nat
    <3>1. all \in Seq(Ending)
      BY <1>7
    <3>2. DOMAIN all = 1..Len(all) /\ Len(all) \in Nat
      BY <3>1, LenProperties
    <3>3. Len(all) = d.accepted
      BY <1>2, <1>7, <2>1
    <3> QED
      BY <3>2, <3>3
  <2>4. DOMAIN e.requests = {} /\ Len(e.requests) = 0
    BY <1>9
  <2> QED BY <1>9, <1>10, <2>2, <2>3, <2>4 DEF Accounted
<1>12. /\ Len(all) = Len(d.done) + OnWire(d) + Len(d.requests)
       /\ \A i \in 1..Len(d.done) : all[i] = d.done[i]
       /\ \A i \in 1..Len(all) : i > Len(d.done) => all[i].answer = 0 /\ all[i].fate = fate
  <2> DEFINE n == Len(d.done)
             w == Len(waiting)
  <2>1. /\ n \in Nat /\ w \in Nat /\ OnWire(d) \in Nat /\ Len(d.requests) \in Nat
        /\ w = OnWire(d) + Len(d.requests) /\ Len(all) = n + w
        /\ \A i \in 1..n + w : all[i] = IF i <= n THEN d.done[i] ELSE ends[i - n]
        /\ \A i \in 1..w : ends[i].fate = fate /\ ends[i].answer = 0
    BY <1>1, <1>2, <1>3, <1>6, <1>7, Lengths
  <2> HIDE DEF n, w
  <2>2. Len(all) = n + OnWire(d) + Len(d.requests)
    BY <2>1
  <2>3. ASSUME NEW i \in 1..n PROVE all[i] = d.done[i]
    <3>1. i \in 1..n + w /\ i <= n
      BY <2>1
    <3> QED BY <2>1, <3>1
  <2>4. ASSUME NEW i \in 1..n + w, i > n
        PROVE  i - n \in 1..w /\ all[i] = ends[i - n]
    <3>1. n \in Nat /\ w \in Nat
      BY <2>1
    <3>2. i - n \in 1..w /\ ~(i <= n)
      BY <2>4, <3>1
    <3>3. all[i] = IF i <= n THEN d.done[i] ELSE ends[i - n]
      BY <2>1
    <3> QED BY <3>2, <3>3
  <2>5. \A i \in 1..n + w : i > n => all[i].answer = 0 /\ all[i].fate = fate
    BY <2>1, <2>4
  <2> QED BY <2>1, <2>2, <2>3, <2>5 DEF n
<1> QED BY <1>4, <1>8, <1>9, <1>10, <1>11, <1>12 DEF e

\* A device that is gone has left nothing behind.
GoneIsEmpty(d) == ~d.alive => ~Pending(d) /\ d.requests = <<>>

\* The router id under which a device was heard is history only.
LEMMA HearPreserves ==
  ASSUME NEW d \in Device, NEW r \in Routers
  PROVE  LET e == Hear(d, r)
         IN  e \in Device /\ e.pending = d.pending /\ e.alive = d.alive
             /\ e.requests = d.requests /\ (Accounted(d) => Accounted(e))
<1> DEFINE e == Hear(d, r)
<1>1. e \in Device
  BY DEF Hear, Device
<1>2. /\ e.done = d.done /\ e.requests = d.requests /\ e.accepted = d.accepted
      /\ e.pending = d.pending /\ e.alive = d.alive
  BY DEF Hear, Device
<1> HIDE DEF e
<1>3. ASSUME Accounted(d) PROVE Accounted(e)
  BY <1>2, <1>3, SameQueue DEF Pending
<1> QED BY <1>1, <1>2, <1>3 DEF e

\* device_resolve of an unknown device: the new object has an empty queue.
LEMMA CreatePreserves ==
  ASSUME NEW d \in Device, Accounted(d), ~d.alive, GoneIsEmpty(d), NEW ver, NEW r \in Routers
  PROVE  DeviceOK(Create(d, ver, r))
<1> DEFINE e == Create(d, ver, r)
<1>1. e \in Device
  <2> DEFINE f == [d EXCEPT !.alive = TRUE, !.pending = NoRequest, !.requests = <<>>]
             g == [f EXCEPT !.reqid = 0, !.epoch = d.epoch + 1]
  <2>1. f \in Device
    <3>1. <<>> \in Seq(Request)
      OBVIOUS
    <3> QED BY <3>1 DEF Device
  <2>2. g \in Device
    <3>1. d.epoch + 1 \in Nat
      BY DEF Device
    <3> HIDE DEF f
    <3> QED BY <2>1, <3>1 DEF Device
  <2>3. e = [g EXCEPT !.legacy = (ver = 0), !.router = r]
    BY DEF Create, Device
  <2> HIDE DEF g, e
  <2> QED BY <2>2, <2>3 DEF Device
<1>2. /\ e.done = d.done /\ e.requests = <<>> /\ e.accepted = d.accepted
      /\ e.pending = NoRequest /\ e.alive
  BY DEF Create, Device
<1> HIDE DEF e
<1>3. Accounted(e)
  BY <1>2, SameQueue DEF GoneIsEmpty, Pending
<1> QED BY <1>1, <1>2, <1>3 DEF DeviceOK, e

\* One response fewer is under way; nothing else changes.
LEMMA AnswerArrives ==
  ASSUME NEW d \in Device, Accounted(d), NEW s \in DOMAIN d.sent, d.sent[s].left > 0
  PROVE  LET e == [d EXCEPT !.sent[s].left = @ - 1]
         IN  e \in Device /\ Accounted(e) /\ e.pending = d.pending
             /\ e.alive = d.alive /\ e.requests = d.requests
<1> DEFINE e == [d EXCEPT !.sent[s].left = @ - 1]
           x == [d.sent[s] EXCEPT !.left = @ - 1]
           new == [d.sent EXCEPT ![s] = x]
<1>1. d.sent \in Seq(Transmission) /\ s \in 1..Len(d.sent)
  BY Lengths
<1>2. d.sent[s] \in Transmission
  BY <1>1, ElementOfSeq
<1>3. x \in Transmission
  BY <1>2 DEF Transmission
<1>4. e = [d EXCEPT !.sent = new]
  BY DEF Device
<1> HIDE DEF x
<1>5. new \in Seq(Transmission)
  BY <1>1, <1>3, ExceptSeq
<1> HIDE DEF new
<1>6. e \in Device
  BY <1>4, <1>5 DEF Device
<1>7. /\ e.done = d.done /\ e.requests = d.requests /\ e.accepted = d.accepted
      /\ e.pending = d.pending /\ e.alive = d.alive
  BY <1>4 DEF Device
<1> HIDE DEF e
<1>8. Accounted(e)
  BY <1>7, SameQueue DEF Pending
<1> QED BY <1>6, <1>7, <1>8 DEF e

---------------------------------------------------------------------------
(* The steps *)

\* The inductive invariant.
Inv == TypeOK /\ EachOnceInOrder /\ GoneIsEmpty(dev)

\* Inv holds before the device is first heard of.
LEMMA InitInv ==
  ASSUME Init
  PROVE  Inv
<1>1. /\ <<>> \in Seq(Request) /\ <<>> \in Seq(Ending) /\ <<>> \in Seq(Transmission)
      /\ (CHOOSE r \in Routers : TRUE) \in Routers
  BY DeviceAssumption
<1>2. dev \in Device
  BY <1>1 DEF Init, Device
<1>3. TypeOK
  BY <1>2 DEF Init, TypeOK
<1>4. dev.done = <<>> /\ dev.requests = <<>> /\ dev.accepted = 0 /\ dev.pending = NoRequest
  BY DEF Init
<1>5. EachOnceInOrder
  BY <1>4 DEF EachOnceInOrder, Accounted, Pending, OnWire
<1> QED BY <1>3, <1>4, <1>5 DEF Inv, GoneIsEmpty, Pending

\* A callback issues a natural number of requests.
LEMMA CallbackSendsAreNat == CallbackSends \subseteq Nat
  BY DeviceAssumption DEF CallbackSends

\* What a step on the device has to show.
LEMMA StepInv ==
  ASSUME Inv, UNCHANGED <<Settings, now>>, dev' \in Device, Accounted(dev'), GoneIsEmpty(dev')
  PROVE  Inv'
  BY DEF Inv, TypeOK, EachOnceInOrder, Accounted, GoneIsEmpty, Pending, OnWire, Settings

\* A step that leaves the device alone changes the clock or the settings.
LEMMA SameDeviceInv ==
  ASSUME Inv, dev' = dev, now' \in Nat,
         retry_timeout' \in RetryTimeouts, max_retry' \in MaxRetries
  PROVE  Inv'
  BY DEF Inv, TypeOK, EachOnceInOrder, Accounted, GoneIsEmpty, Pending, OnWire

\* The device as process_response finds it is accounted for.
LEMMA ResolvedPreserves ==
  ASSUME Inv, NEW s, Arrives(s), dev.alive, NEW r \in Routers
  PROVE  /\ DeviceOK(Resolved(s, r))
         /\ Resolved(s, r).pending = dev.pending
<1> DEFINE e == [dev EXCEPT !.sent[s].left = @ - 1]
<1>1. dev \in Device /\ Accounted(dev) /\ s \in DOMAIN dev.sent /\ dev.sent[s].left > 0
  BY DEF Inv, TypeOK, EachOnceInOrder, Arrives
<1>2. e \in Device /\ Accounted(e) /\ e.pending = dev.pending /\ e.alive
  BY <1>1, AnswerArrives
<1> DEFINE h == Hear(e, r)
<1>3. Resolved(s, r) = Seen(h, dev.sent[s].ver, r)
  BY DEF Resolved
<1> HIDE DEF e
<1>4. DeviceOK(h) /\ h.pending = dev.pending
  BY <1>2, HearPreserves DEF DeviceOK
<1> HIDE DEF h
<1> QED BY <1>3, <1>4, SeenPreserves

\* Every step keeps Inv.
LEMMA NextInv ==
  ASSUME Inv, [Next]_vars
  PROVE  Inv'
<1> USE CallbackSendsAreNat, DeviceAssumption
<1>1. /\ dev \in Device /\ Accounted(dev) /\ GoneIsEmpty(dev) /\ Clock
      /\ dev.alive => DeviceOK(dev)
  BY DEF Inv, TypeOK, EachOnceInOrder, DeviceOK, Clock
<1>2. ASSUME Step, DeviceOK(dev') PROVE Inv'
  BY <1>2, StepInv DEF Step, DeviceOK, GoneIsEmpty
<1>3. CASE Send
  <2>1. PICK ok \in BOOLEAN, k \in Nat : dev' = FlushWCheck(Push(dev, 1), ok, k)
    BY <1>3 DEF Send
  <2>2. DeviceOK(Push(dev, 1))
    BY <1>1, <1>3, PushPreserves DEF Send, DeviceOK
  <2>3. DeviceOK(dev')
    BY <1>1, <2>1, <2>2, FlushWCheckPreserves
  <2> QED BY <1>2, <1>3, <2>3 DEF Send
<1>4. CASE Heartbeat
  <2>1. PICK ver \in Versions, r \in Routers :
          dev' = IF dev.alive THEN Seen(Hear(dev, r), ver, r)
                              ELSE Create(Hear(dev, r), ver, r)
    BY <1>4 DEF Heartbeat
  <2> DEFINE h == Hear(dev, r)
  <2>2. /\ h \in Device /\ h.pending = dev.pending /\ h.alive = dev.alive
        /\ h.requests = dev.requests /\ Accounted(h)
    <3>1. dev \in Device /\ Accounted(dev) /\ r \in Routers
      BY <1>1
    <3> QED BY <3>1, HearPreserves
  <2>3. dev' = IF dev.alive THEN Seen(h, ver, r) ELSE Create(h, ver, r)
    BY <2>1
  <2> HIDE DEF h
  <2>4. ASSUME dev.alive PROVE DeviceOK(dev')
    <3>1. DeviceOK(h) /\ r \in Routers /\ dev' = Seen(h, ver, r)
      BY <2>2, <2>3, <2>4 DEF DeviceOK
    <3> QED BY <3>1, SeenPreserves
  <2>5. ASSUME ~dev.alive PROVE DeviceOK(dev')
    <3>1. GoneIsEmpty(h)
      BY <1>1, <2>2 DEF GoneIsEmpty, Pending
    <3>2. h \in Device /\ Accounted(h) /\ ~h.alive /\ r \in Routers
      BY <2>2, <2>5
    <3>3. dev' = Create(h, ver, r)
      BY <2>3, <2>5
    <3> QED BY <3>1, <3>2, <3>3, CreatePreserves
  <2>6. DeviceOK(dev')
    BY <2>4, <2>5
  <2> QED BY <1>2, <1>4, <2>6 DEF Heartbeat
<1>5. ASSUME NEW s \in DOMAIN dev.sent, ResponseOfUnknown(s) PROVE Inv'
  <2> DEFINE e == [dev EXCEPT !.sent[s].left = @ - 1]
  <2>1. /\ e \in Device /\ Accounted(e) /\ e.pending = dev.pending
        /\ e.alive = dev.alive /\ e.requests = dev.requests
    BY <1>1, <1>5, AnswerArrives DEF ResponseOfUnknown, Arrives
  <2>2. dev' = e
    BY <1>5 DEF ResponseOfUnknown
  <2> HIDE DEF e
  <2>3. GoneIsEmpty(dev')
    BY <1>1, <2>1, <2>2 DEF GoneIsEmpty, Pending
  <2> QED BY <1>5, <2>1, <2>2, <2>3, StepInv DEF ResponseOfUnknown, Step
<1>6. ASSUME NEW s \in DOMAIN dev.sent, LateResponse(s) PROVE Inv'
  <2>1. DeviceOK(dev')
    BY <1>6, ResolvedPreserves DEF LateResponse
  <2> QED BY <1>2, <1>6, <2>1 DEF LateResponse
<1>7. ASSUME NEW s \in DOMAIN dev.sent, Response504(s) PROVE Inv'
  <2>1. PICK r \in Routers : /\ RequestPending(Resolved(s, r), WireId(dev.sent[s]))
                             /\ dev' = RetryAtSet(Resolved(s, r))
    BY <1>7 DEF Response504
  <2>2. DeviceOK(Resolved(s, r)) /\ Pending(Resolved(s, r))
    BY <1>7, <2>1, ResolvedPreserves DEF Response504, RequestPending, Pending
  <2>3. DeviceOK(dev')
    BY <1>1, <2>1, <2>2, RetryAtSetPreserves
  <2> QED BY <1>2, <1>7, <2>3 DEF Response504
<1>8. ASSUME NEW s \in DOMAIN dev.sent, NEW code \in Codes, ResponseEnds(s, code) PROVE Inv'
  <2>1. PICK r \in Routers, ok \in BOOLEAN, k1 \in Nat, k2 \in Nat :
          /\ RequestPending(Resolved(s, r), WireId(dev.sent[s]))
          /\ dev' = FlushWCheck(Resolve(Resolved(s, r), code, s, k1), ok, k2)
    BY <1>8 DEF ResponseEnds
  <2>2. DeviceOK(Resolved(s, r)) /\ Pending(Resolved(s, r))
    BY <1>8, <2>1, ResolvedPreserves DEF ResponseEnds, RequestPending, Pending
  <2>3. code \in Fates /\ s \in Nat
    BY <1>1, Lengths DEF Fates
  <2>4. DeviceOK(Resolve(Resolved(s, r), code, s, k1))
    BY <1>1, <2>2, <2>3, ResolvePreserves
  <2>5. DeviceOK(dev')
    BY <1>1, <2>1, <2>4, FlushWCheckPreserves
  <2> QED BY <1>2, <1>8, <2>5 DEF ResponseEnds
<1>9. CASE PollRetry
  <2>1. PICK ok \in BOOLEAN, k \in Nat : dev' = Retry(dev, ok, k)
    BY <1>9 DEF PollRetry
  <2>2. DeviceOK(dev) /\ Pending(dev)
    BY <1>1, <1>9 DEF PollRetry, TimerRanOut, Pending
  <2>3. DeviceOK(dev')
    BY <1>1, <2>1, <2>2, RetryPreserves
  <2> QED BY <1>2, <1>9, <2>3 DEF PollRetry
<1>10. CASE PollTimeout
  <2>1. PICK ok \in BOOLEAN, k1 \in Nat, k2 \in Nat :
          dev' = FlushWCheck(Resolve(dev, "TIMEOUT", 0, k1), ok, k2)
    BY <1>10 DEF PollTimeout
  <2>2. DeviceOK(dev) /\ Pending(dev)
    BY <1>1, <1>10 DEF PollTimeout, TimerRanOut, Pending
  <2>3. DeviceOK(Resolve(dev, "TIMEOUT", 0, k1))
    BY <1>1, <2>2, ResolvePreserves DEF Fates
  <2>4. DeviceOK(dev')
    BY <1>1, <2>1, <2>3, FlushWCheckPreserves
  <2> QED BY <1>2, <1>10, <2>4 DEF PollTimeout
<1>11. CASE Remove
  <2>1. /\ dev' \in Device /\ Accounted(dev')
        /\ ~dev'.alive /\ ~Pending(dev') /\ dev'.requests = <<>>
    BY <1>1, <1>11, DestroyPreserves DEF Remove
  <2> QED BY <1>11, <2>1, StepInv DEF Remove, Step, GoneIsEmpty
<1>12. CASE Configure
  BY <1>1, <1>12, SameDeviceInv DEF Configure, Clock
<1>13. CASE Tick
  <2>1. now' \in Nat
    BY <1>1, <1>13 DEF Tick, Clock
  <2> QED BY <1>13, <2>1, SameDeviceInv DEF Tick, Settings, Inv, TypeOK
<1>14. CASE UNCHANGED vars
  BY <1>1, <1>14, SameDeviceInv DEF vars, Clock, Inv, TypeOK
<1> QED
  BY <1>3, <1>4, <1>5, <1>6, <1>7, <1>8, <1>9, <1>10, <1>11, <1>12, <1>13, <1>14
  DEF Next, Respond

\* Inv holds in every reachable state.
THEOREM InvIsInvariant == Spec => []Inv
<1>1. Init => Inv
  BY InitInv
<1>2. Inv /\ [Next]_vars => Inv'
  BY NextInv
<1> QED BY <1>1, <1>2, PTL DEF Spec

\* The device_s keeps its type: a pending request is NULL or a request, ids, counts and
\* timers stay natural numbers, whatever the callbacks and the network do.
THEOREM TypeCorrect == Spec => []TypeOK
<1>1. Inv => TypeOK
  BY DEF Inv
<1> QED BY <1>1, InvIsInvariant, PTL

\* Every accepted request is ended once and in order, or is pending, or waits in order
\* behind it, whatever the interleaving of sends, callbacks that send, responses, retries,
\* failed sends and removals (zmtp_device.c, process_response of zmtp.c).
THEOREM QueueCorrect == Spec => []EachOnceInOrder
<1>1. Inv => EachOnceInOrder
  BY DEF Inv
<1> QED BY <1>1, InvIsInvariant, PTL

---------------------------------------------------------------------------
(* Where requests are sent *)

\* The device is addressed by the router id under which it was last heard.
RouteIsHeard(d) == d.router = d.heard

\* Nothing is sent, and the route stays.
SameRoute(d, e) == e.router = d.router /\ e.heard = d.heard /\ e.sent = d.sent

\* What is sent goes along the route, which stays.
SentAlong(d, e) ==
  /\ e.router = d.router /\ e.heard = d.heard
  /\ Len(e.sent) > Len(d.sent) => e.sent[Len(e.sent)].router = d.router

\* Queueing sends nothing.
LEMMA PushRoute ==
  ASSUME Clock, NEW d, DeviceOK(d), NEW k \in Nat
  PROVE  SameRoute(d, Push(d, k)) /\ DeviceOK(Push(d, k))
<1>1. d \in Device
  BY DEF DeviceOK
<1>2. SameRoute(d, Push(d, k))
  BY <1>1 DEF Push, SameRoute, Device
<1> QED
  BY <1>1, <1>2, PushPreserves DEF DeviceOK

\* Ending a request sends nothing.
LEMMA ResolveRoute ==
  ASSUME Clock, NEW d, DeviceOK(d), NEW fate, NEW answer, NEW k \in Nat
  PROVE  SameRoute(d, Resolve(d, fate, answer, k))
<1> DEFINE p == Push(d, k)
           end == [req |-> d.pending.req, fate |-> fate, answer |-> answer, last |-> d.pending.last]
<1>1. SameRoute(d, p) /\ p \in Device
  BY PushRoute DEF DeviceOK
<1>2. Resolve(d, fate, answer, k) = [p EXCEPT !.done = Append(@, end), !.pending = NoRequest]
  BY Zenon DEF Resolve
<1> HIDE DEF p, end
<1> QED
  BY <1>1, <1>2 DEF SameRoute, Device

\* A transmission goes along the route.
LEMMA TransmitRoute ==
  ASSUME Clock, NEW d, DeviceOK(d), Pending(d), NEW ok \in BOOLEAN, NEW k \in Nat
  PROVE  SentAlong(d, Transmit(d, ok, k))
<1> DEFINE t == RouterIdSet(TakeId(d))
           s == [req |-> d.pending.req, ver |-> IF d.legacy THEN 0 ELSE 1,
                 n |-> d.reqid, router |-> t.pending.rid, epoch |-> d.epoch, left |-> MaxAnswers]
<1>1. /\ DeviceOK(t) /\ t \in Device /\ SameRoute(d, t) /\ d \in Device
      /\ t.pending.rid = d.router
  BY FramesSet DEF SameRoute, DeviceOK
<1>2. CASE ok
  <2>1. Transmit(d, ok, k) = [t EXCEPT !.sent = Append(t.sent, s), !.pending.last = Len(d.sent) + 1]
    BY <1>2, Zenon DEF Transmit
  <2>2. s.router = d.router
    BY <1>1
  <2> HIDE DEF t, s
  <2>3. /\ Transmit(d, ok, k).sent = Append(d.sent, s)
        /\ Transmit(d, ok, k).router = d.router /\ Transmit(d, ok, k).heard = d.heard
    BY <1>1, <2>1 DEF SameRoute, Device
  <2>4. d.sent \in Seq(Transmission) /\ Len(d.sent) \in Nat
    BY <1>1, Lengths
  <2>5. Append(d.sent, s)[Len(Append(d.sent, s))] = s
    BY <2>4
  <2> QED
    BY <2>2, <2>3, <2>5 DEF SentAlong
<1>3. CASE ~ok
  <2>1. Transmit(d, ok, k) = Resolve(t, "IO", 0, k)
    BY <1>3, Zenon DEF Transmit
  <2>2. SameRoute(t, Resolve(t, "IO", 0, k))
    BY <1>1, ResolveRoute
  <2>3. Len(d.sent) \in Nat
    BY <1>1, Lengths
  <2> QED
    BY <1>1, <2>1, <2>2, <2>3 DEF SameRoute, SentAlong
<1> QED
  BY <1>2, <1>3

\* So does the next request of the queue.
LEMMA FlushWCheckRoute ==
  ASSUME Clock, NEW d, DeviceOK(d), NEW ok \in BOOLEAN, NEW k \in Nat
  PROVE  SentAlong(d, FlushWCheck(d, ok, k))
<1>1. CASE d.requests # <<>> /\ d.pending = NoRequest
  <2> DEFINE e == [d EXCEPT !.pending = Head(d.requests), !.requests = Tail(d.requests)]
  <2>1. DeviceOK(e) /\ Pending(e)
    BY <1>1, TakeHeadPreserves DEF Pending
  <2>2. SameRoute(d, e)
    BY DEF SameRoute, DeviceOK, Device
  <2>3. FlushWCheck(d, ok, k) = Transmit(e, ok, k)
    BY <1>1 DEF FlushWCheck, Flush
  <2> HIDE DEF e
  <2>4. SentAlong(e, Transmit(e, ok, k))
    BY <2>1, TransmitRoute
  <2> QED
    BY <2>2, <2>3, <2>4 DEF SameRoute, SentAlong
<1>2. CASE ~(d.requests # <<>> /\ d.pending = NoRequest)
  <2>1. FlushWCheck(d, ok, k) = d
    BY <1>2 DEF FlushWCheck
  <2>2. Len(d.sent) \in Nat
    BY Lengths DEF DeviceOK
  <2> QED
    BY <2>1, <2>2 DEF SentAlong
<1> QED
  BY <1>1, <1>2

\* And so does what is sent again.
LEMMA RetryRoute ==
  ASSUME Clock, NEW d, DeviceOK(d), Pending(d), NEW ok \in BOOLEAN, NEW k \in Nat
  PROVE  SentAlong(d, Retry(d, ok, k))
<1> DEFINE e == [RetryAtSet(d) EXCEPT !.pending.retry_count = @ + 1]
<1>1. DeviceOK(RetryAtSet(d)) /\ Pending(RetryAtSet(d))
  BY RetryAtSetPreserves
<1>2. SameRoute(d, RetryAtSet(d))
  BY DEF SameRoute, RetryAtSet, DeviceOK, Device
<1>3. DeviceOK(e) /\ Pending(e) /\ SameRoute(d, e)
  <2> DEFINE r == RetryAtSet(d)
             q == [r.pending EXCEPT !.retry_count = @ + 1]
  <2>1. r \in Device /\ r.pending \in Request /\ r.alive /\ Accounted(r)
    BY <1>1 DEF DeviceOK, Device, Pending
  <2> HIDE DEF r
  <2>2. q \in Request /\ q.req = r.pending.req
    BY <2>1 DEF Request
  <2>3. [r EXCEPT !.pending.retry_count = @ + 1] = [r EXCEPT !.pending = q]
    BY <2>1 DEF Device
  <2> HIDE DEF q
  <2> DEFINE f == [r EXCEPT !.pending = q]
  <2>4. f \in Device
    BY <2>1, <2>2 DEF Device
  <2>5. /\ f.done = r.done /\ f.requests = r.requests /\ f.accepted = r.accepted
        /\ f.pending = q /\ f.alive /\ SameRoute(r, f)
    BY <2>1 DEF Device, SameRoute
  <2> HIDE DEF f
  <2>6. q # NoRequest /\ r.pending # NoRequest
    BY <2>1, <2>2 DEF Request, NoRequest
  <2>7. Accounted(f)
    BY <2>1, <2>2, <2>5, <2>6, SameQueue DEF Pending
  <2> QED
    BY <1>2, <2>3, <2>4, <2>5, <2>6, <2>7 DEF DeviceOK, Pending, SameRoute, f, r
<1>4. Retry(d, ok, k) = Transmit(e, ok, k)
  BY Zenon DEF Retry
<1> HIDE DEF e
<1>5. SentAlong(e, Transmit(e, ok, k))
  BY <1>3, TransmitRoute
<1> QED
  BY <1>3, <1>4, <1>5 DEF SameRoute, SentAlong

\* The device as process_response finds it is addressed by the router id of the response.
LEMMA ResolvedRoute ==
  ASSUME Inv, NEW s, Arrives(s), NEW r \in Routers
  PROVE  RouteIsHeard(Resolved(s, r)) /\ Len(Resolved(s, r).sent) = Len(dev.sent)
<1> DEFINE x == [dev.sent[s] EXCEPT !.left = @ - 1]
           new == [dev.sent EXCEPT ![s] = x]
           e == [dev EXCEPT !.sent[s].left = @ - 1]
<1>1. dev \in Device
  BY DEF Inv, TypeOK
<1>2. dev.sent \in Seq(Transmission) /\ s \in 1..Len(dev.sent)
  BY <1>1, Lengths DEF Arrives
<1>3. e = [dev EXCEPT !.sent = new]
  BY <1>1 DEF Device
<1>4. Len(new) = Len(dev.sent)
  BY <1>2
<1> HIDE DEF x, new
<1>5. Resolved(s, r) = Seen(Hear(e, r), dev.sent[s].ver, r)
  BY DEF Resolved
<1> HIDE DEF e
<1>6. /\ Seen(Hear(e, r), dev.sent[s].ver, r).router = r
      /\ Seen(Hear(e, r), dev.sent[s].ver, r).heard = r
      /\ Seen(Hear(e, r), dev.sent[s].ver, r).sent = new
  BY <1>1, <1>3 DEF Seen, Hear, Device
<1> QED
  BY <1>4, <1>5, <1>6 DEF RouteIsHeard

\* What a step on the device does to the route
GoesAlong ==
  /\ RouteIsHeard(dev')
  /\ Len(dev'.sent) > Len(dev.sent) => dev'.sent[Len(dev'.sent)].router = dev'.heard

\* A step keeps to the route if its last part does and the rest sends nothing.
LEMMA AlongRoute ==
  ASSUME NEW d, RouteIsHeard(d), Len(d.sent) = Len(dev.sent), SentAlong(d, dev')
  PROVE  GoesAlong
BY DEF RouteIsHeard, SentAlong, GoesAlong

\* Every step keeps to the route.
LEMMA NextRoute ==
  ASSUME Inv, RouteIsHeard(dev), [Next]_vars
  PROVE  GoesAlong
<1> USE CallbackSendsAreNat, DeviceAssumption
<1>1. /\ dev \in Device /\ Clock /\ Len(dev.sent) \in Nat
      /\ dev.alive => DeviceOK(dev)
  BY Lengths DEF Inv, TypeOK, EachOnceInOrder, DeviceOK, Clock
<1>2. CASE Send
  <2>1. PICK ok \in BOOLEAN, k \in Nat : dev' = FlushWCheck(Push(dev, 1), ok, k)
    BY <1>2 DEF Send
  <2>2. SameRoute(dev, Push(dev, 1)) /\ DeviceOK(Push(dev, 1))
    BY <1>1, <1>2, PushRoute DEF Send
  <2>3. SentAlong(Push(dev, 1), dev')
    BY <1>1, <2>1, <2>2, FlushWCheckRoute
  <2>4. RouteIsHeard(Push(dev, 1)) /\ Len(Push(dev, 1).sent) = Len(dev.sent)
    BY <2>2 DEF SameRoute, RouteIsHeard
  <2> QED
    BY <2>3, <2>4, AlongRoute
<1>3. CASE Heartbeat
  <2>1. PICK ver \in Versions, r \in Routers :
          dev' = IF dev.alive THEN Seen(Hear(dev, r), ver, r)
                              ELSE Create(Hear(dev, r), ver, r)
    BY <1>3 DEF Heartbeat
  <2>2. dev'.router = r /\ dev'.heard = r /\ dev'.sent = dev.sent
    BY <1>1, <2>1 DEF Seen, Hear, Create, Device
  <2> QED
    BY <1>1, <2>2 DEF RouteIsHeard, GoesAlong
<1>4. ASSUME NEW s \in DOMAIN dev.sent, ResponseOfUnknown(s) PROVE GoesAlong
  <2> DEFINE new == [dev.sent EXCEPT ![s].left = @ - 1]
  <2>1. dev' = [dev EXCEPT !.sent = new]
    BY <1>1, <1>4 DEF ResponseOfUnknown, Device
  <2>2. Len(new) = Len(dev.sent)
    BY <1>1, Lengths
  <2> HIDE DEF new
  <2>3. dev'.router = dev.router /\ dev'.heard = dev.heard /\ dev'.sent = new
    BY <1>1, <2>1 DEF Device
  <2> QED
    BY <1>1, <2>2, <2>3 DEF RouteIsHeard, GoesAlong
<1>5. ASSUME NEW s \in DOMAIN dev.sent, LateResponse(s) PROVE GoesAlong
  <2>1. PICK r \in Routers : dev' = Resolved(s, r)
    BY <1>5 DEF LateResponse
  <2>2. RouteIsHeard(dev') /\ Len(dev'.sent) = Len(dev.sent)
    BY <1>5, <2>1, ResolvedRoute DEF LateResponse
  <2> QED
    BY <1>1, <2>2 DEF GoesAlong
<1>6. ASSUME NEW s \in DOMAIN dev.sent, Response504(s) PROVE GoesAlong
  <2>1. PICK r \in Routers : dev' = RetryAtSet(Resolved(s, r))
    BY <1>6 DEF Response504
  <2>2. RouteIsHeard(Resolved(s, r)) /\ Len(Resolved(s, r).sent) = Len(dev.sent)
    BY <1>6, ResolvedRoute DEF Response504
  <2>3. Resolved(s, r) \in Device
    BY <1>6, ResolvedPreserves DEF Response504, DeviceOK
  <2>4. SameRoute(Resolved(s, r), dev')
    BY <2>1, <2>3 DEF SameRoute, RetryAtSet, Device
  <2> QED
    BY <1>1, <2>2, <2>4 DEF SameRoute, RouteIsHeard, GoesAlong
<1>7. ASSUME NEW s \in DOMAIN dev.sent, NEW code \in Codes, ResponseEnds(s, code) PROVE GoesAlong
  <2>1. PICK r \in Routers, ok \in BOOLEAN, k1 \in Nat, k2 \in Nat :
          /\ RequestPending(Resolved(s, r), WireId(dev.sent[s]))
          /\ dev' = FlushWCheck(Resolve(Resolved(s, r), code, s, k1), ok, k2)
    BY <1>7 DEF ResponseEnds
  <2> DEFINE d == Resolved(s, r)
             e == Resolve(d, code, s, k1)
  <2>2. RouteIsHeard(d) /\ Len(d.sent) = Len(dev.sent)
    BY <1>7, ResolvedRoute DEF ResponseEnds
  <2>3. DeviceOK(d) /\ Pending(d)
    BY <1>7, <2>1, ResolvedPreserves DEF ResponseEnds, RequestPending, Pending
  <2>4. code \in Fates /\ s \in Nat
    BY <1>1, Lengths DEF Fates
  <2> HIDE DEF d
  <2>5. DeviceOK(e) /\ SameRoute(d, e)
    BY <1>1, <2>3, <2>4, ResolvePreserves, ResolveRoute
  <2>6. dev' = FlushWCheck(e, ok, k2)
    BY <2>1 DEF d
  <2> HIDE DEF e
  <2>7. SentAlong(e, dev')
    BY <1>1, <2>5, <2>6, FlushWCheckRoute
  <2>8. RouteIsHeard(e) /\ Len(e.sent) = Len(dev.sent)
    BY <2>2, <2>5 DEF SameRoute, RouteIsHeard
  <2> QED
    BY <2>7, <2>8, AlongRoute
<1>8. CASE PollRetry
  <2>1. PICK ok \in BOOLEAN, k \in Nat : dev' = Retry(dev, ok, k)
    BY <1>8 DEF PollRetry
  <2>2. DeviceOK(dev) /\ Pending(dev)
    BY <1>1, <1>8 DEF PollRetry, TimerRanOut, Pending
  <2>3. SentAlong(dev, dev')
    BY <1>1, <2>1, <2>2, RetryRoute
  <2> QED
    BY <2>3, AlongRoute
<1>9. CASE PollTimeout
  <2>1. PICK ok \in BOOLEAN, k1 \in Nat, k2 \in Nat :
          dev' = FlushWCheck(Resolve(dev, "TIMEOUT", 0, k1), ok, k2)
    BY <1>9 DEF PollTimeout
  <2> DEFINE e == Resolve(dev, "TIMEOUT", 0, k1)
  <2>2. DeviceOK(dev) /\ Pending(dev)
    BY <1>1, <1>9 DEF PollTimeout, TimerRanOut, Pending
  <2>3. DeviceOK(e) /\ SameRoute(dev, e)
    BY <1>1, <2>2, ResolvePreserves, ResolveRoute DEF Fates
  <2>4. dev' = FlushWCheck(e, ok, k2)
    BY <2>1
  <2> HIDE DEF e
  <2>5. SentAlong(e, dev')
    BY <1>1, <2>3, <2>4, FlushWCheckRoute
  <2>6. RouteIsHeard(e) /\ Len(e.sent) = Len(dev.sent)
    BY <2>3 DEF SameRoute, RouteIsHeard
  <2> QED
    BY <2>5, <2>6, AlongRoute
<1>10. CASE Remove
  <2>1. SameRoute(dev, dev')
    BY <1>1, <1>10 DEF Remove, Destroy, SameRoute, Device
  <2> QED
    BY <1>1, <2>1 DEF SameRoute, RouteIsHeard, GoesAlong
<1>11. CASE UNCHANGED dev
  BY <1>1, <1>11 DEF RouteIsHeard, GoesAlong
<1> QED
  BY <1>2, <1>3, <1>4, <1>5, <1>6, <1>7, <1>8, <1>9, <1>10, <1>11
  DEF Next, Respond, Configure, Tick, vars

\* Whatever is transmitted goes to the router id under which the device was last heard,
\* whichever step sends it and however often the device has moved since the request was
\* accepted (zmtp_device_update_router, request_router_id_set).
THEOREM SentToLatestRoute == Spec => AddressedToLatestRoute
<1> DEFINE J == Inv /\ RouteIsHeard(dev)
<1>1. Init => J
  BY InitInv DEF Init, RouteIsHeard
<1>2. J /\ [Next]_vars => J'
  <2> SUFFICES ASSUME J, [Next]_vars PROVE J'
    OBVIOUS
  <2>1. Inv'
    BY NextInv
  <2>2. GoesAlong
    BY NextRoute
  <2> QED
    BY <2>1, <2>2 DEF GoesAlong, RouteIsHeard
<1>3. J /\ [Next]_vars =>
        [Len(dev'.sent) > Len(dev.sent) => dev'.sent[Len(dev'.sent)].router = dev'.heard]_vars
  BY NextRoute DEF GoesAlong
<1> QED
  BY <1>1, <1>2, <1>3, PTL DEF Spec, AddressedToLatestRoute
===========================================================================
