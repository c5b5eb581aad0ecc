--------------------------- MODULE ServiceProofs ---------------------------
(***************************************************************************)
(* Proofs that the queue of ZmtpDevice implements RequestService, and of   *)
(* the two facts about transmissions that this rests on or goes with: one  *)
(* request at a time is on the wire, and the queue stalls, or is freed     *)
(* without a word, only where a send has failed.                           *)
(*                                                                         *)
(* ZmtpDeviceProofs shows what is in the queue; what is added here is the  *)
(* invariant Good of what was sent and how requests ended, and that no     *)
(* function of the device takes back an ending (Extends).  Transmit starts *)
(* from a device whose pending request is not sent yet, where only Mid     *)
(* holds.                                                                  *)
(*                                                                         *)
(* The second part is about the transmissions: that a versioned response   *)
(* only ever ends the request it answers, and that a request is sent as    *)
(* often as its retries allow.  The first of these rests on the numbers of *)
(* the transmissions: within one object of the device they grow            *)
(* (Numbered), and reqid - 1, with which a response is compared, is that   *)
(* of the latest (LatestNumber).  The second counts the transmissions of   *)
(* each request (Spent), which the retries of the pending request count    *)
(* too (PendingSpent).                                                     *)
(*                                                                         *)
(* The last part is about time: until the clock goes round (ClockFits),    *)
(* the timer of each request says when it is due, and what a request has   *)
(* waited for grows with its retries (Timed).                              *)
(***************************************************************************)
EXTENDS ZmtpDeviceProofs, FiniteSetTheorems
---------------------------------------------------------------------------
(* What was sent, and how requests ended *)

\* The requests were transmitted in order, none before those ahead of it had ended.
InOrder(d) ==
  /\ \A s \in DOMAIN d.sent : d.sent[s].req <= Len(d.done) + OnWire(d)
  /\ \A s, t \in DOMAIN d.sent : s < t => d.sent[s].req <= d.sent[t].req

\* What was transmitted last is the pending request.
LastIsPending(d) ==
  Pending(d) => /\ d.pending.last = Len(d.sent) /\ d.pending.last # 0
                /\ d.sent[d.pending.last].req = d.pending.req
                /\ d.sent[d.pending.last].epoch = d.epoch

\* Requests wait with none pending only when a send has just failed.
Moving(d) ==
  ~Pending(d) /\ d.requests # <<>> => d.done # <<>> /\ d.done[Len(d.done)].fate = "IO"

SendsFail == FALSE \in SendResults

\* A request is dropped only after a send has failed, and sends fail only if they can.
Blamed(d) ==
  /\ \A i \in DOMAIN d.done : d.done[i].fate = "DROPPED" =>
       \E j \in 1..(i - 1) : d.done[j].fate = "IO"
  /\ \A i \in DOMAIN d.done : d.done[i].fate = "IO" => SendsFail

Mid(d)  == DeviceOK(d) /\ InOrder(d) /\ Blamed(d)
Good(d) == Mid(d) /\ LastIsPending(d) /\ Moving(d)

\* What Good says of the history, also of a device that is gone.
Sound(d) == InOrder(d) /\ Blamed(d) /\ LastIsPending(d) /\ Moving(d)

\* Requests are accepted and ended; nothing is taken back.
Extends(d, e) ==
  /\ d.accepted <= e.accepted
  /\ Len(d.done) <= Len(e.done)
  /\ \A i \in 1..Len(d.done) : e.done[i] = d.done[i]

\* Transmissions are of numbered requests.
LEMMA SentReqs ==
  ASSUME NEW d \in Device
  PROVE  \A s \in DOMAIN d.sent : d.sent[s].req \in Nat
<1> TAKE s \in DOMAIN d.sent
<1>1. d.sent[s] \in Transmission
  BY Lengths, ElementOfSeq
<1> QED
  BY <1>1 DEF Transmission

\* One extension after another is an extension.
LEMMA ExtendsTransitive ==
  ASSUME NEW c \in Device, NEW d \in Device, NEW e \in Device, Extends(c, d), Extends(d, e)
  PROVE  Extends(c, e)
  BY Lengths DEF Extends

\* All these read some fields of the device only.
LEMMA SameHistory ==
  ASSUME NEW d \in Device, NEW e,
         e.done = d.done, e.sent = d.sent, e.epoch = d.epoch, e.accepted = d.accepted,
         e.requests = d.requests,
         Pending(e) <=> Pending(d),
         Pending(d) => e.pending.req = d.pending.req /\ e.pending.last = d.pending.last
  PROVE  /\ InOrder(d) => InOrder(e)
         /\ Blamed(d) => Blamed(e)
         /\ LastIsPending(d) => LastIsPending(e)
         /\ Moving(d) => Moving(e)
         /\ Extends(d, e)
<1>1. OnWire(e) = OnWire(d)
  BY DEF OnWire
<1>2. InOrder(d) => InOrder(e)
  BY <1>1 DEF InOrder
<1>3. Blamed(d) => Blamed(e)
  BY DEF Blamed
<1>4. LastIsPending(d) => LastIsPending(e)
  BY DEF LastIsPending
<1>5. Moving(d) => Moving(e)
  BY DEF Moving
<1>6. Extends(d, e)
  BY Lengths DEF Extends
<1> QED
  BY <1>2, <1>3, <1>4, <1>5, <1>6

---------------------------------------------------------------------------
(* The functions of the device *)

\* Queueing requests leaves the history.
LEMMA PushHistory ==
  ASSUME Clock, NEW d \in Device, NEW k \in Nat
  PROVE  LET e == Push(d, k)
         IN  /\ e.done = d.done /\ e.sent = d.sent /\ e.epoch = d.epoch
             /\ e.pending = d.pending /\ e.reqid = d.reqid
             /\ e.accepted = d.accepted + k
<1> PICK new \in Seq(Request) : Push(d, k) = [d EXCEPT !.requests = @ \o new, !.accepted = @ + k]
  BY PushLemma
<1> QED
  BY DEF Device

\* zmtp_device_send queues a request.
LEMMA PushMid ==
  ASSUME Clock, NEW d, Mid(d), NEW k \in Nat
  PROVE  /\ Mid(Push(d, k)) /\ Extends(d, Push(d, k))
         /\ Pending(Push(d, k)) <=> Pending(d)
         /\ LastIsPending(d) => LastIsPending(Push(d, k))
<1> DEFINE e == Push(d, k)
<1>1. /\ e.done = d.done /\ e.sent = d.sent /\ e.epoch = d.epoch
      /\ e.pending = d.pending /\ e.accepted = d.accepted + k /\ d.accepted \in Nat
  BY PushHistory, Lengths DEF Mid, DeviceOK
<1>2. DeviceOK(e)
  BY PushPreserves DEF Mid, DeviceOK
<1> HIDE DEF e
<1>3. OnWire(e) = OnWire(d) /\ (Pending(e) <=> Pending(d))
  BY <1>1 DEF OnWire, Pending
<1>4. InOrder(e) /\ Blamed(e)
  BY <1>1, <1>3 DEF Mid, InOrder, Blamed
<1>5. Extends(d, e)
  BY <1>1, Lengths DEF Extends, Mid, DeviceOK
<1>6. LastIsPending(d) => LastIsPending(e)
  BY <1>1, <1>3 DEF LastIsPending
<1> QED
  BY <1>2, <1>3, <1>4, <1>5, <1>6 DEF Mid, e

\* exe_on_complete and request_destroy: the ending is the last one, and none is taken back.
LEMMA ResolveMid ==
  ASSUME Clock, NEW d, Mid(d), Pending(d),
         NEW fate \in Fates, NEW answer \in Nat, NEW k \in Nat,
         fate = "IO" => SendsFail
  PROVE  LET e == Resolve(d, fate, answer, k)
         IN  /\ Mid(e) /\ ~Pending(e) /\ Extends(d, e)
             /\ e.done # <<>> /\ e.done[Len(e.done)].fate = fate
<1> DEFINE p == Push(d, k)
           x == [req |-> d.pending.req, fate |-> fate, answer |-> answer, last |-> d.pending.last]
           ends == Append(p.done, x)
           e == Resolve(d, fate, answer, k)
<1>1. /\ Mid(p) /\ Extends(d, p) /\ Pending(p) /\ p \in Device /\ d \in Device
  BY PushMid DEF Mid, DeviceOK
<1>2. DeviceOK(e) /\ ~Pending(e) /\ e \in Device
  BY ResolvePreserves DEF Mid, DeviceOK
<1>3. e = [p EXCEPT !.done = ends, !.pending = NoRequest]
  BY Zenon DEF Resolve
<1>4. x.fate = fate /\ fate # "DROPPED"
  BY DEF Fates, Codes
<1> HIDE DEF p, x
<1>5. /\ p.done \in Seq(Ending) /\ Len(p.done) \in Nat /\ Len(ends) = Len(p.done) + 1
      /\ \A i \in 1..Len(p.done) : ends[i] = p.done[i]
      /\ ends[Len(p.done) + 1] = x
      /\ DOMAIN ends = 1..Len(p.done) + 1 /\ DOMAIN p.done = 1..Len(p.done)
  BY <1>1, Lengths
<1> HIDE DEF ends
<1>6. /\ e.done = ends /\ e.sent = p.sent /\ e.accepted = p.accepted
  BY <1>1, <1>3 DEF Device
<1> HIDE DEF e
<1>7. OnWire(p) = 1 /\ OnWire(e) = 0
  BY <1>1, <1>2 DEF OnWire
<1>8. InOrder(e)
  BY <1>1, <1>5, <1>6, <1>7 DEF Mid, InOrder
<1>9. Blamed(e)
  <2>1. ASSUME NEW i \in DOMAIN ends, ends[i].fate = "DROPPED"
        PROVE  \E j \in 1..(i - 1) : ends[j].fate = "IO"
    <3>1. i \in DOMAIN p.done /\ ends[i] = p.done[i]
      BY <1>4, <1>5, <2>1
    <3>2. PICK j \in 1..(i - 1) : p.done[j].fate = "IO"
      BY <1>1, <2>1, <3>1 DEF Mid, Blamed
    <3>3. ends[j] = p.done[j]
      BY <1>5, <3>1
    <3> QED
      BY <3>2, <3>3
  <2>2. ASSUME NEW i \in DOMAIN ends, ends[i].fate = "IO"
        PROVE  SendsFail
    <3>1. CASE i \in DOMAIN p.done
      BY <1>1, <1>5, <2>2, <3>1 DEF Mid, Blamed
    <3>2. CASE i = Len(p.done) + 1
      BY <1>4, <1>5, <2>2, <3>2
    <3> QED
      BY <1>5, <3>1, <3>2
  <2> QED
    BY <1>6, <2>1, <2>2 DEF Blamed
<1>10. Extends(p, e)
  BY <1>1, <1>5, <1>6, Lengths DEF Extends
<1>11. Extends(d, e)
  BY <1>1, <1>2, <1>10, ExtendsTransitive
<1> QED
  BY <1>2, <1>4, <1>5, <1>6, <1>8, <1>9, <1>11 DEF Mid, e

\* The send of the pending request: either it is now the last transmission, or it has
\* ended with LINQ_ERROR_IO.
LEMMA TransmitGood ==
  ASSUME Clock, NEW d, Mid(d), Pending(d), NEW ok \in SendResults, NEW k \in Nat
  PROVE  Good(Transmit(d, ok, k)) /\ Extends(d, Transmit(d, ok, k))
<1> DEFINE t == RouterIdSet(TakeId(d))
           e == Transmit(d, ok, k)
           s == [req |-> d.pending.req, ver |-> IF d.legacy THEN 0 ELSE 1,
                 n |-> d.reqid, router |-> t.pending.rid, epoch |-> d.epoch, left |-> MaxAnswers]
           out == Append(d.sent, s)
<1>1. d \in Device /\ DeviceOK(d) /\ ok \in BOOLEAN
  BY DeviceAssumption DEF Mid, DeviceOK
<1>2. /\ DeviceOK(t) /\ t.sent = d.sent /\ Pending(t) /\ t \in Device
      /\ t.pending \in Request /\ t.pending.req = d.pending.req
      /\ t.pending.last = d.pending.last
      /\ t.done = d.done /\ t.epoch = d.epoch /\ t.requests = d.requests
      /\ t.accepted = d.accepted
  BY <1>1, FramesSet
<1>3. Mid(t) /\ Extends(d, t)
  BY <1>1, <1>2, SameHistory DEF Mid
<1>4. DeviceOK(e) /\ e \in Device
  BY <1>1, TransmitPreserves DEF DeviceOK
<1>5. CASE ok
  <2>1. e = [t EXCEPT !.sent = out, !.pending.last = Len(d.sent) + 1]
    BY <1>2, <1>5, Zenon DEF Transmit
  <2>2. s.req = d.pending.req /\ s.epoch = d.epoch
    OBVIOUS
  <2> HIDE DEF s, t
  <2>3. /\ Len(out) = Len(d.sent) + 1 /\ Len(d.sent) \in Nat
        /\ DOMAIN out = 1..Len(d.sent) + 1 /\ DOMAIN d.sent = 1..Len(d.sent)
        /\ \A i \in 1..Len(d.sent) : out[i] = d.sent[i]
        /\ out[Len(d.sent) + 1] = s
    BY <1>1, Lengths
  <2> HIDE DEF out
  <2> DEFINE q == [t.pending EXCEPT !.last = Len(d.sent) + 1]
  <2>4. /\ e.sent = out /\ e.pending = q /\ e.done = d.done
        /\ e.epoch = d.epoch /\ e.accepted = d.accepted
    BY <1>2, <2>1 DEF Device
  <2>5. q.last = Len(d.sent) + 1 /\ q.req = d.pending.req /\ q # NoRequest
    BY <1>2, <2>3 DEF Device, Pending, Request, NoRequest
  <2> HIDE DEF e, q
  <2>6. Pending(e) /\ OnWire(e) = 1 /\ OnWire(d) = 1
    BY <2>4, <2>5 DEF Pending, OnWire
  <2>7. d.pending.req = Len(d.done) + 1
    BY <1>1 DEF DeviceOK, Accounted
  <2>8. \A i \in 1..Len(d.sent) : d.sent[i].req <= Len(d.done) + 1
    BY <2>3, <2>6 DEF Mid, InOrder
  <2>9. \A i, j \in 1..Len(d.sent) : i < j => d.sent[i].req <= d.sent[j].req
    BY <2>3 DEF Mid, InOrder
  <2>10. InOrder(e)
    <3>1. Len(d.done) \in Nat
      BY <1>1, Lengths
    <3>2. \A i \in 1..Len(d.sent) + 1 : out[i].req <= Len(d.done) + 1
      BY <2>2, <2>3, <2>7, <2>8, <3>1
    <3>3. ASSUME NEW i \in 1..Len(d.sent) + 1, NEW j \in 1..Len(d.sent) + 1, i < j
          PROVE  out[i].req <= out[j].req
      <4>1. i \in 1..Len(d.sent) /\ out[i] = d.sent[i]
        BY <2>3, <3>3
      <4>2. CASE j \in 1..Len(d.sent)
        BY <2>3, <2>9, <3>3, <4>1, <4>2
      <4>3. CASE j = Len(d.sent) + 1
        BY <2>2, <2>3, <2>7, <2>8, <4>1, <4>3
      <4> QED
        BY <2>3, <4>2, <4>3
    <3> QED
      BY <2>3, <2>4, <2>6, <3>2, <3>3 DEF InOrder
  <2>11. LastIsPending(e)
    BY <2>2, <2>3, <2>4, <2>5 DEF LastIsPending
  <2>12. Blamed(e) /\ Moving(e)
    BY <2>4, <2>6 DEF Mid, Blamed, Moving
  <2>13. Extends(d, e)
    BY <1>1, <2>4, Lengths DEF Extends
  <2> QED
    BY <1>4, <2>10, <2>11, <2>12, <2>13 DEF Good, Mid, e
<1>6. CASE ~ok
  <2>1. e = Resolve(t, "IO", 0, k) /\ SendsFail
    BY <1>1, <1>6, Zenon DEF Transmit, SendsFail
  <2> HIDE DEF t
  <2>2. /\ Mid(e) /\ ~Pending(e) /\ Extends(t, e)
        /\ e.done # <<>> /\ e.done[Len(e.done)].fate = "IO"
    <3>1. "IO" \in Fates /\ 0 \in Nat /\ Mid(t) /\ Pending(t)
      BY <1>2, <1>3 DEF Fates
    <3> DEFINE r == Resolve(t, "IO", 0, k)
    <3>2. /\ Mid(r) /\ ~Pending(r) /\ Extends(t, r)
          /\ r.done # <<>> /\ r.done[Len(r.done)].fate = "IO"
      BY <2>1, <3>1, ResolveMid
    <3> HIDE DEF r, e
    <3>3. e = r
      BY <2>1 DEF r
    <3> QED
      BY <3>2, <3>3
  <2> HIDE DEF e
  <2>3. Extends(d, e)
    BY <1>1, <1>2, <1>3, <1>4, <2>2, ExtendsTransitive
  <2> QED
    BY <2>2, <2>3 DEF Good, Moving, LastIsPending, e
<1> QED
  BY <1>5, <1>6

\* zmtp_device_request_flush_w_check leaves nothing waiting that could be sent.
LEMMA FlushWCheckGood ==
  ASSUME Clock, NEW d, Mid(d), LastIsPending(d), NEW ok \in SendResults, NEW k \in Nat
  PROVE  Good(FlushWCheck(d, ok, k)) /\ Extends(d, FlushWCheck(d, ok, k))
<1> DEFINE e == [d EXCEPT !.pending = Head(d.requests), !.requests = Tail(d.requests)]
<1>1. d \in Device /\ DeviceOK(d)
  BY DEF Mid, DeviceOK
<1>2. CASE d.requests # <<>> /\ d.pending = NoRequest
  <2>1. DeviceOK(e) /\ Pending(e) /\ ~Pending(d)
    BY <1>1, <1>2, TakeHeadPreserves DEF Pending
  <2>2. FlushWCheck(d, ok, k) = Transmit(e, ok, k)
    BY <1>2, Zenon DEF FlushWCheck, Flush
  <2>3. /\ e.done = d.done /\ e.sent = d.sent /\ e.accepted = d.accepted /\ e \in Device
    BY <1>1, <2>1 DEF DeviceOK, Device
  <2> HIDE DEF e
  <2>4. OnWire(e) = 1 /\ OnWire(d) = 0 /\ Len(d.done) \in Nat
    BY <1>1, <2>1, Lengths DEF OnWire
  <2>5. \A s \in DOMAIN d.sent : d.sent[s].req \in Nat
    BY <1>1, SentReqs
  <2>6. InOrder(e)
    BY <2>3, <2>4, <2>5 DEF Mid, InOrder
  <2>7. Blamed(e)
    BY <2>3 DEF Mid, Blamed
  <2>8. Mid(e) /\ Extends(d, e)
    BY <1>1, <2>1, <2>3, <2>6, <2>7, Lengths DEF Mid, Extends
  <2>9. Good(Transmit(e, ok, k)) /\ Extends(e, Transmit(e, ok, k))
    BY <2>1, <2>8, TransmitGood
  <2> QED
    BY <1>1, <2>2, <2>3, <2>8, <2>9, ExtendsTransitive DEF Good, Mid, DeviceOK
<1>3. CASE ~(d.requests # <<>> /\ d.pending = NoRequest)
  <2>1. FlushWCheck(d, ok, k) = d
    BY <1>3 DEF FlushWCheck
  <2> QED
    BY <1>1, <1>3, <2>1, Lengths DEF Good, Moving, Pending, Extends
<1> QED
  BY <1>2, <1>3

\* zmtp_device_request_retry_at_set changes the timer only.
LEMMA RetryAtSetGood ==
  ASSUME Clock, NEW d, Good(d), Pending(d)
  PROVE  LET e == RetryAtSet(d)
         IN  Good(e) /\ Pending(e) /\ Extends(d, e)
<1> DEFINE e == RetryAtSet(d)
<1>1. d \in Device /\ d.pending \in Request
  BY DEF Good, Mid, DeviceOK, Device, Pending
<1>2. DeviceOK(e) /\ Pending(e)
  BY RetryAtSetPreserves DEF Good, Mid
<1>3. /\ e.done = d.done /\ e.sent = d.sent /\ e.epoch = d.epoch /\ e.accepted = d.accepted
      /\ e.requests = d.requests
      /\ e.pending.req = d.pending.req /\ e.pending.last = d.pending.last
  BY <1>1 DEF RetryAtSet, Device, Request
<1> HIDE DEF e
<1> QED
  BY <1>1, <1>2, <1>3, SameHistory DEF Good, Mid, e

\* zmtp_device_request_retry sends the pending request again, or ends it.
LEMMA RetryGood ==
  ASSUME Clock, NEW d, Good(d), Pending(d), NEW ok \in SendResults, NEW k \in Nat
  PROVE  Good(Retry(d, ok, k)) /\ Extends(d, Retry(d, ok, k))
<1> DEFINE r == RetryAtSet(d)
           q == [r.pending EXCEPT !.retry_count = @ + 1]
           e == [r EXCEPT !.pending.retry_count = @ + 1]
<1>1. /\ Good(r) /\ Pending(r) /\ Extends(d, r) /\ DeviceOK(r) /\ r \in Device /\ d \in Device
      /\ r.pending \in Request
  BY RetryAtSetGood DEF Good, Mid, DeviceOK, Device, Pending
<1>2. Retry(d, ok, k) = Transmit(e, ok, k)
  BY Zenon DEF Retry
<1> HIDE DEF r
<1>3. q \in Request /\ q.req = r.pending.req /\ q.last = r.pending.last
  BY <1>1 DEF Request
<1>4. e = [r EXCEPT !.pending = q]
  BY <1>1 DEF Device
<1> HIDE DEF q
<1>5. e \in Device
  BY <1>1, <1>3, <1>4 DEF Device
<1>6. /\ e.done = r.done /\ e.requests = r.requests /\ e.accepted = r.accepted
      /\ e.pending = q /\ e.alive /\ e.sent = r.sent /\ e.epoch = r.epoch
  BY <1>1, <1>4 DEF Device, DeviceOK
<1> HIDE DEF e
<1>7. Pending(e)
  BY <1>3, <1>6 DEF Pending, Request, NoRequest
<1>8. DeviceOK(e)
  BY <1>1, <1>3, <1>5, <1>6, <1>7, SameQueue DEF DeviceOK
<1>9. Mid(e) /\ Extends(r, e)
  BY <1>1, <1>3, <1>6, <1>7, <1>8, SameHistory DEF Good, Mid
<1>10. Good(Transmit(e, ok, k)) /\ Extends(e, Transmit(e, ok, k))
  BY <1>7, <1>9, TransmitGood
<1>11. Extends(r, Transmit(e, ok, k)) /\ Transmit(e, ok, k) \in Device
  BY <1>1, <1>5, <1>9, <1>10, ExtendsTransitive DEF Good, Mid, DeviceOK
<1> QED
  BY <1>1, <1>2, <1>10, <1>11, ExtendsTransitive

\* device_resolve of a known device leaves what was sent and what has ended alone.
LEMMA SeenGood ==
  ASSUME NEW d, Good(d), NEW ver, NEW r \in Routers
  PROVE  LET e == Seen(Hear(d, r), ver, r)
         IN  Good(e) /\ Extends(d, e) /\ e.pending = d.pending
<1> DEFINE h == Hear(d, r)
           e == Seen(h, ver, r)
<1>1. d \in Device /\ d.alive /\ Accounted(d) /\ DeviceOK(d)
  BY DEF Good, Mid, DeviceOK
<1>2. /\ DeviceOK(h) /\ h.pending = d.pending /\ h.done = d.done /\ h.sent = d.sent
      /\ h.epoch = d.epoch /\ h.accepted = d.accepted /\ h.requests = d.requests
  BY <1>1, HearPreserves DEF DeviceOK, Hear, Device
<1> HIDE DEF h
<1>3. /\ DeviceOK(e) /\ e.pending = h.pending /\ e.done = h.done /\ e.sent = h.sent
      /\ e.epoch = h.epoch /\ e.accepted = h.accepted /\ e.requests = h.requests
  BY <1>2, SeenPreserves DEF DeviceOK, Seen, Device
<1> HIDE DEF e
<1> QED
  BY <1>1, <1>2, <1>3, SameHistory DEF Good, Mid, Pending, e, h

\* An answer that is used up leaves the rest of its transmission.
LEMMA SentWithLeft ==
  ASSUME NEW d \in Device, NEW s \in DOMAIN d.sent
  PROVE  LET e == [d EXCEPT !.sent[s].left = @ - 1]
         IN  /\ DOMAIN e.sent = DOMAIN d.sent /\ Len(e.sent) = Len(d.sent)
             /\ \A t \in DOMAIN d.sent :
                  /\ e.sent[t].req = d.sent[t].req /\ e.sent[t].epoch = d.sent[t].epoch
                  /\ e.sent[t].ver = d.sent[t].ver /\ e.sent[t].n = d.sent[t].n
<1> DEFINE x == [d.sent[s] EXCEPT !.left = @ - 1]
           new == [d.sent EXCEPT ![s] = x]
           e == [d EXCEPT !.sent[s].left = @ - 1]
<1>1. d.sent \in Seq(Transmission) /\ s \in 1..Len(d.sent) /\ DOMAIN d.sent = 1..Len(d.sent)
  BY Lengths
<1>2. d.sent[s] \in Transmission
  BY <1>1, ElementOfSeq
<1>3. /\ x.req = d.sent[s].req /\ x.epoch = d.sent[s].epoch
      /\ x.ver = d.sent[s].ver /\ x.n = d.sent[s].n
  BY <1>2 DEF Transmission
<1>4. e.sent = new
  BY DEF Device
<1> HIDE DEF x, e
<1>5. Len(new) = Len(d.sent) /\ DOMAIN new = DOMAIN d.sent
  BY <1>1
<1>6. \A t \in DOMAIN d.sent : new[t] = IF t = s THEN x ELSE d.sent[t]
  BY <1>1
<1> HIDE DEF new
<1> QED
  BY <1>3, <1>4, <1>5, <1>6 DEF e

\* A response that arrives leaves one fewer to come; which, matters to nothing here.
LEMMA AnswerArrivesGood ==
  ASSUME NEW d \in Device, Accounted(d), Sound(d), NEW s \in DOMAIN d.sent, d.sent[s].left > 0
  PROVE  LET e == [d EXCEPT !.sent[s].left = @ - 1]
         IN  Sound(e) /\ Extends(d, e)
<1> DEFINE e == [d EXCEPT !.sent[s].left = @ - 1]
<1>2. /\ e \in Device /\ Accounted(e) /\ e.pending = d.pending /\ e.requests = d.requests
  BY AnswerArrives
<1>3. e.done = d.done /\ e.accepted = d.accepted /\ e.epoch = d.epoch
  BY DEF Device
<1>4. /\ DOMAIN e.sent = DOMAIN d.sent /\ Len(e.sent) = Len(d.sent)
      /\ \A t \in DOMAIN d.sent : e.sent[t].req = d.sent[t].req /\ e.sent[t].epoch = d.sent[t].epoch
  BY SentWithLeft
<1> HIDE DEF e
<1>5. OnWire(e) = OnWire(d) /\ (Pending(e) <=> Pending(d))
  BY <1>2 DEF OnWire, Pending
<1>6. InOrder(e)
  BY <1>3, <1>4, <1>5 DEF Sound, InOrder
<1>7. Blamed(e) /\ Moving(e)
  BY <1>2, <1>3, <1>5 DEF Sound, Blamed, Moving
<1>8. LastIsPending(e)
  <2> SUFFICES ASSUME Pending(e)
               PROVE  /\ e.pending.last = Len(e.sent) /\ e.pending.last # 0
                      /\ e.sent[e.pending.last].req = e.pending.req
                      /\ e.sent[e.pending.last].epoch = e.epoch
    BY DEF LastIsPending
  <2>1. /\ d.pending.last = Len(d.sent) /\ d.pending.last # 0 /\ d.sent[d.pending.last].req = d.pending.req
        /\ d.sent[d.pending.last].epoch = d.epoch
    BY <1>5 DEF Sound, LastIsPending
  <2>2. d.pending.last \in DOMAIN d.sent
    BY <2>1, Lengths
  <2> QED
    BY <1>2, <1>3, <1>4, <2>1, <2>2
<1>9. Extends(d, e)
  BY <1>3, Lengths DEF Extends
<1> QED
  BY <1>6, <1>7, <1>8, <1>9 DEF Sound, e

\* device_resolve of an unknown device: the new object has sent nothing, nothing waits.
LEMMA CreateGood ==
  ASSUME NEW d \in Device, Accounted(d), Sound(d), ~d.alive, GoneIsEmpty(d),
         NEW ver, NEW r \in Routers
  PROVE  LET e == Create(Hear(d, r), ver, r)
         IN  Good(e) /\ Extends(d, e)
<1> DEFINE h == Hear(d, r)
           e == Create(h, ver, r)
<1>1. /\ h \in Device /\ h.pending = d.pending /\ h.alive = d.alive
      /\ h.requests = d.requests /\ Accounted(h)
  BY HearPreserves
<1>2. h.done = d.done /\ h.sent = d.sent /\ h.accepted = d.accepted
  BY DEF Hear, Device
<1> HIDE DEF h
<1>3. GoneIsEmpty(h) /\ ~h.alive
  BY <1>1 DEF GoneIsEmpty, Pending
<1>4. DeviceOK(e)
  BY <1>1, <1>3, CreatePreserves
<1>5. /\ e.done = d.done /\ e.sent = d.sent /\ e.accepted = d.accepted
      /\ e.pending = NoRequest /\ e.requests = <<>>
  BY <1>1, <1>2 DEF Create, Device
<1> HIDE DEF e
<1>6. ~Pending(e) /\ OnWire(e) = OnWire(d)
  BY <1>5 DEF GoneIsEmpty, Pending, OnWire
<1>7. InOrder(e)
  BY <1>5, <1>6 DEF Sound, InOrder
<1>8. Blamed(e) /\ Moving(e) /\ LastIsPending(e)
  BY <1>5, <1>6 DEF Sound, Blamed, Moving, LastIsPending
<1>9. Extends(d, e)
  BY <1>5, Lengths DEF Extends
<1> QED
  BY <1>4, <1>7, <1>8, <1>9 DEF Good, Mid, e, h

\* zmtp_device_destroy ends what waits: told, when a request is pending; dropped when none is,
\* which is so only because a send has failed.
LEMMA DestroySound ==
  ASSUME NEW d, Good(d)
  PROVE  Sound(Destroy(d)) /\ Extends(d, Destroy(d))
<1> DEFINE e == Destroy(d)
           n == Len(d.done)
           w == OnWire(d) + Len(d.requests)
<1>1. d \in Device /\ DeviceOK(d)
  BY DEF Good, Mid, DeviceOK
<1>2. /\ e \in Device /\ ~Pending(e) /\ e.requests = <<>> /\ Len(e.done) = n + w
      /\ \A i \in 1..n : e.done[i] = d.done[i]
      /\ \A i \in 1..n + w : i > n =>
           e.done[i].fate = IF Pending(d) THEN "SHUTTING_DOWN" ELSE "DROPPED"
      /\ n \in Nat /\ w \in Nat /\ OnWire(d) \in {0, 1} /\ OnWire(d) <= w
      /\ DOMAIN e.done = 1..n + w /\ DOMAIN d.done = 1..n
  <2> DEFINE o == OnWire(d)
             l == Len(d.requests)
  <2>1. n \in Nat /\ o \in {0, 1} /\ l \in Nat /\ DOMAIN d.done = 1..n
    BY <1>1, Lengths
  <2>2. /\ e \in Device /\ ~Pending(e) /\ e.requests = <<>> /\ Len(e.done) = n + o + l
        /\ \A i \in 1..n : e.done[i] = d.done[i]
        /\ \A i \in 1..Len(e.done) : i > n =>
             e.done[i].fate = IF Pending(d) THEN "SHUTTING_DOWN" ELSE "DROPPED"
    BY <1>1, DestroyPreserves
  <2>3. DOMAIN e.done = 1..Len(e.done)
    BY <2>2, Lengths
  <2>4. w = o + l
    OBVIOUS
  <2> HIDE DEF e, n, w, o, l
  <2>5. w \in Nat /\ o <= w /\ n + w = n + o + l
    BY <2>1, <2>4
  <2> QED
    BY <2>1, <2>2, <2>3, <2>5 DEF o
<1>3. e.sent = d.sent /\ e.accepted = d.accepted
  BY <1>1 DEF Destroy, Device
<1>4. OnWire(e) = 0
  BY <1>2 DEF OnWire
<1>5. ~Pending(d) /\ w > 0 => n > 0 /\ d.done[n].fate = "IO"
  <2> SUFFICES ASSUME ~Pending(d), w > 0 PROVE n > 0 /\ d.done[n].fate = "IO"
    OBVIOUS
  <2>1. d.requests # <<>>
    BY <1>1, Lengths DEF OnWire
  <2>2. d.done # <<>> /\ d.done[n].fate = "IO"
    BY <2>1 DEF Good, Moving
  <2> QED
    BY <1>1, <2>2, Lengths, EmptySeq
<1>6. /\ \A i \in 1..n : d.done[i].fate = "DROPPED" => \E j \in 1..(i - 1) : d.done[j].fate = "IO"
      /\ \A i \in 1..n : d.done[i].fate = "IO" => SendsFail
  BY <1>2 DEF Good, Mid, Blamed
<1>7. \A s \in DOMAIN d.sent : d.sent[s].req \in Nat /\ d.sent[s].req <= n + OnWire(d)
  BY <1>1, SentReqs DEF Good, Mid, InOrder
<1>8. d.accepted \in Nat
  BY <1>1, Lengths
<1> HIDE DEF e, n, w
<1>9. InOrder(e)
  <2>1. \A s \in DOMAIN d.sent : d.sent[s].req <= n + w + 0
    BY <1>2, <1>4, <1>7
  <2> QED
    BY <1>2, <1>3, <1>4, <2>1 DEF Good, Mid, InOrder
<1>10. Blamed(e)
  <2>1. ASSUME NEW i \in 1..n + w, e.done[i].fate = "DROPPED"
        PROVE  \E j \in 1..(i - 1) : e.done[j].fate = "IO"
    <3>1. CASE i \in 1..n
      <4>1. PICK j \in 1..(i - 1) : d.done[j].fate = "IO"
        BY <1>2, <1>6, <2>1, <3>1
      <4>2. j \in 1..n
        BY <1>2, <3>1
      <4> QED
        BY <1>2, <4>1, <4>2
    <3>2. CASE i \notin 1..n
      <4>1. i > n /\ w > 0
        BY <1>2, <3>2
      <4>2. ~Pending(d)
        BY <1>2, <2>1, <4>1
      <4>3. n \in 1..(i - 1) /\ e.done[n].fate = "IO"
        BY <1>2, <1>5, <4>1, <4>2
      <4> QED
        BY <4>3
    <3> QED
      BY <3>1, <3>2
  <2>2. ASSUME NEW i \in 1..n + w, e.done[i].fate = "IO" PROVE SendsFail
    <3>1. i \in 1..n
      BY <1>2, <2>2, SMTT(20)
    <3> QED
      BY <1>2, <1>6, <2>2, <3>1
  <2> QED
    BY <1>2, <2>1, <2>2 DEF Blamed
<1>11. Moving(e) /\ LastIsPending(e)
  BY <1>2 DEF Moving, LastIsPending
<1>12. Extends(d, e)
  BY <1>2, <1>3, <1>8 DEF Extends, n
<1> QED
  BY <1>9, <1>10, <1>11, <1>12 DEF Sound, e

---------------------------------------------------------------------------
(* The steps *)

\* The device as process_response finds it.
LEMMA ResolvedGood ==
  ASSUME Inv, Sound(dev), NEW s, Arrives(s), dev.alive, NEW r \in Routers
  PROVE  /\ Good(Resolved(s, r)) /\ Extends(dev, Resolved(s, r))
         /\ Resolved(s, r).pending = dev.pending
<1> DEFINE e == [dev EXCEPT !.sent[s].left = @ - 1]
<1>1. dev \in Device /\ Accounted(dev) /\ s \in DOMAIN dev.sent /\ dev.sent[s].left > 0
  BY DEF Inv, TypeOK, EachOnceInOrder, Arrives
<1>2. /\ e \in Device /\ Accounted(e) /\ e.pending = dev.pending /\ e.alive
      /\ Sound(e) /\ Extends(dev, e)
  BY <1>1, AnswerArrives, AnswerArrivesGood
<1>3. Resolved(s, r) = Seen(Hear(e, r), dev.sent[s].ver, r)
  BY DEF Resolved
<1> HIDE DEF e
<1>4. Good(e)
  BY <1>2 DEF Good, Mid, Sound, DeviceOK
<1>5. Good(Resolved(s, r)) /\ Extends(e, Resolved(s, r)) /\ Resolved(s, r).pending = e.pending
  BY <1>3, <1>4, SeenGood
<1> QED
  BY <1>1, <1>2, <1>5, ExtendsTransitive DEF Good, Mid, DeviceOK

\* The pending request ends, and the next one is sent.
LEMMA ResolveFlushGood ==
  ASSUME Clock, NEW d, Good(d), Pending(d), NEW fate \in Fates \ {"IO"}, NEW answer \in Nat,
         NEW k1 \in Nat, NEW ok \in SendResults, NEW k2 \in Nat
  PROVE  LET e == FlushWCheck(Resolve(d, fate, answer, k1), ok, k2)
         IN  Good(e) /\ Extends(d, e)
<1> DEFINE r == Resolve(d, fate, answer, k1)
<1>1. Mid(r) /\ ~Pending(r) /\ Extends(d, r)
  BY ResolveMid DEF Good
<1> HIDE DEF r
<1>2. Good(FlushWCheck(r, ok, k2)) /\ Extends(r, FlushWCheck(r, ok, k2))
  BY <1>1, FlushWCheckGood DEF LastIsPending
<1>3. d \in Device /\ r \in Device /\ FlushWCheck(r, ok, k2) \in Device
  BY <1>1, <1>2 DEF Good, Mid, DeviceOK
<1> QED
  BY <1>1, <1>2, <1>3, ExtendsTransitive DEF r

\* A step of the code extends what has ended, and keeps the rest in order.
LEMMA NextSound ==
  ASSUME Inv, Sound(dev), [Next]_vars
  PROVE  Sound(dev') /\ Extends(dev, dev')
<1> USE CallbackSendsAreNat
<1>1. /\ dev \in Device /\ Accounted(dev) /\ GoneIsEmpty(dev) /\ Clock
      /\ dev.alive => Good(dev)
  BY DeviceAssumption DEF Inv, TypeOK, EachOnceInOrder, DeviceOK, Clock, Good, Mid, Sound
<1>2. ASSUME Good(dev') PROVE Sound(dev')
  BY <1>2 DEF Good, Mid, Sound
<1>3. CASE Send
  <2>1. PICK ok \in SendResults, k \in Nat : dev' = FlushWCheck(Push(dev, 1), ok, k)
    BY <1>3 DEF Send
  <2> DEFINE p == Push(dev, 1)
  <2>2. Mid(p) /\ LastIsPending(p) /\ Extends(dev, p)
    BY <1>1, <1>3, PushMid DEF Send, Good
  <2> HIDE DEF p
  <2>3. Good(dev') /\ Extends(p, dev')
    BY <1>1, <2>1, <2>2, FlushWCheckGood DEF p
  <2>4. p \in Device /\ dev' \in Device
    BY <2>2, <2>3 DEF Good, Mid, DeviceOK
  <2> QED
    BY <1>1, <1>2, <2>2, <2>3, <2>4, ExtendsTransitive
<1>4. CASE Heartbeat
  <2>1. PICK ver \in Versions, r \in Routers :
          dev' = IF dev.alive THEN Seen(Hear(dev, r), ver, r)
                              ELSE Create(Hear(dev, r), ver, r)
    BY <1>4 DEF Heartbeat
  <2>2. Good(dev') /\ Extends(dev, dev')
    BY <1>1, <2>1, SeenGood, CreateGood
  <2> QED
    BY <1>2, <2>2
<1>5. ASSUME NEW s \in DOMAIN dev.sent, ResponseOfUnknown(s)
      PROVE  Sound(dev') /\ Extends(dev, dev')
  BY <1>1, <1>5, AnswerArrivesGood DEF ResponseOfUnknown, Arrives
<1>6. ASSUME NEW s \in DOMAIN dev.sent, LateResponse(s)
      PROVE  Sound(dev') /\ Extends(dev, dev')
  BY <1>2, <1>6, ResolvedGood DEF LateResponse
<1>7. ASSUME NEW s \in DOMAIN dev.sent, Response504(s)
      PROVE  Sound(dev') /\ Extends(dev, dev')
  <2>1. PICK r \in Routers : /\ RequestPending(Resolved(s, r), WireId(dev.sent[s]))
                             /\ dev' = RetryAtSet(Resolved(s, r))
    BY <1>7 DEF Response504
  <2> DEFINE d == Resolved(s, r)
  <2>2. Good(d) /\ Extends(dev, d) /\ Pending(d)
    BY <1>7, <2>1, ResolvedGood DEF Response504, RequestPending, Pending
  <2>3. Good(dev') /\ Extends(d, dev')
    BY <1>1, <2>1, <2>2, RetryAtSetGood
  <2>4. d \in Device /\ dev' \in Device
    BY <2>2, <2>3 DEF Good, Mid, DeviceOK
  <2> QED
    BY <1>1, <1>2, <2>2, <2>3, <2>4, ExtendsTransitive
<1>8. ASSUME NEW s \in DOMAIN dev.sent, NEW code \in Codes, ResponseEnds(s, code)
      PROVE  Sound(dev') /\ Extends(dev, dev')
  <2>1. PICK r \in Routers, ok \in SendResults, k1 \in Nat, k2 \in Nat :
          /\ RequestPending(Resolved(s, r), WireId(dev.sent[s]))
          /\ dev' = FlushWCheck(Resolve(Resolved(s, r), code, s, k1), ok, k2)
    BY <1>8 DEF ResponseEnds
  <2> DEFINE d == Resolved(s, r)
  <2>2. Good(d) /\ Extends(dev, d) /\ Pending(d)
    BY <1>8, <2>1, ResolvedGood DEF ResponseEnds, RequestPending, Pending
  <2>3. code \in Fates \ {"IO"} /\ s \in Nat
    BY <1>1, Lengths DEF Fates, Codes
  <2>4. Good(dev') /\ Extends(d, dev')
    BY <1>1, <2>1, <2>2, <2>3, ResolveFlushGood
  <2>5. d \in Device /\ dev' \in Device
    BY <2>2, <2>4 DEF Good, Mid, DeviceOK
  <2> QED
    BY <1>1, <1>2, <2>2, <2>4, <2>5, ExtendsTransitive
<1>9. CASE PollRetry
  <2>1. PICK ok \in SendResults, k \in Nat : dev' = Retry(dev, ok, k)
    BY <1>9 DEF PollRetry
  <2> QED
    BY <1>1, <1>2, <1>9, <2>1, RetryGood DEF PollRetry, TimerRanOut, Pending
<1>10. CASE PollTimeout
  <2>1. PICK ok \in SendResults, k1 \in Nat, k2 \in Nat :
          dev' = FlushWCheck(Resolve(dev, "TIMEOUT", 0, k1), ok, k2)
    BY <1>10 DEF PollTimeout
  <2>2. "TIMEOUT" \in Fates \ {"IO"} /\ Good(dev) /\ Pending(dev)
    BY <1>1, <1>10 DEF Fates, PollTimeout, TimerRanOut, Pending
  <2> QED
    BY <1>1, <1>2, <2>1, <2>2, ResolveFlushGood
<1>11. CASE Remove
  BY <1>1, <1>11, DestroySound DEF Remove
<1>12. CASE dev' = dev
  <2>1. Extends(dev, dev)
    BY <1>1, Lengths DEF Extends
  <2> QED
    BY <1>12, <2>1
<1> QED
  BY <1>3, <1>4, <1>5, <1>6, <1>7, <1>8, <1>9, <1>10, <1>11, <1>12
  DEF Next, Respond, Configure, Tick, vars

\* The inductive invariant.
Whole == Inv /\ Sound(dev)

\* No step breaks the invariant.
LEMMA WholeStep ==
  ASSUME Whole, [Next]_vars
  PROVE  Whole'
  BY NextInv, NextSound
  DEF Whole, Sound, InOrder, Blamed, LastIsPending, Moving, Pending, OnWire

\* It holds at first.
LEMMA InitWhole ==
  ASSUME Init
  PROVE  Whole
<1>1. dev.pending = NoRequest /\ dev.requests = <<>> /\ dev.done = <<>> /\ dev.sent = <<>>
  BY DEF Init
<1>2. Sound(dev)
  BY <1>1 DEF Sound, InOrder, Blamed, LastIsPending, Moving, Pending
<1> QED
  BY <1>2, InitInv DEF Whole

\* Whole holds in every reachable state.
THEOREM WholeIsInvariant == Spec => []Whole
<1>1. Init => Whole
  BY InitWhole
<1>2. Whole /\ [Next]_vars => Whole'
  BY WholeStep
<1> QED
  BY <1>1, <1>2, PTL DEF Spec

---------------------------------------------------------------------------
(* The service *)

\* The answers of the service, and their type, for a device d.
Answers(d) == [i \in DOMAIN d.done |-> [req |-> d.done[i].req, outcome |-> d.done[i].fate]]

\* The endings of a device are answers of the service.
LEMMA EndingsAreAnswers ==
  ASSUME NEW d \in Device, Accounted(d), Blamed(d)
  PROVE  /\ Answers(d) \in Seq(Service!Answer) /\ Len(Answers(d)) = Len(d.done)
         /\ \A i \in 1..Len(d.done) :
              Answers(d)[i] = [req |-> i, outcome |-> d.done[i].fate]
         /\ Len(d.done) \in Nat /\ d.accepted \in Nat /\ Len(d.done) <= d.accepted
<1> DEFINE n == Len(d.done)
<1>1. /\ n \in Nat /\ DOMAIN d.done = 1..n /\ d.done \in Seq(Ending)
      /\ \A i \in 1..n : d.done[i].req = i
  BY Lengths DEF Accounted
<1>2. n <= d.accepted /\ d.accepted \in Nat
  <2>1. d.accepted = n + OnWire(d) + Len(d.requests) /\ OnWire(d) \in {0, 1} /\ Len(d.requests) \in Nat
    BY Lengths DEF Accounted
  <2> HIDE DEF n
  <2> QED
    BY <1>1, <2>1
<1>3. ASSUME NEW i \in 1..n
      PROVE  d.done[i].fate \in Fates \cup (IF FALSE \in SendResults THEN {"DROPPED"} ELSE {})
  <2>1. d.done[i].fate \in Fates \cup {"DROPPED"}
    <3>1. d.done[i] \in Ending
      BY <1>1, <1>3, ElementOfSeq
    <3> QED
      BY <3>1 DEF Ending
  <2>2. ASSUME d.done[i].fate = "DROPPED" PROVE FALSE \in SendResults
    <3>1. PICK j \in 1..(i - 1) : d.done[j].fate = "IO"
      BY <1>1, <1>3, <2>2 DEF Blamed
    <3>2. j \in 1..n
      BY <1>1, <1>3
    <3> QED
      BY <1>1, <3>1, <3>2 DEF Blamed, SendsFail
  <2> QED
    BY <2>1, <2>2
<1>4. ASSUME NEW i \in 1..n
      PROVE  /\ Answers(d)[i] = [req |-> i, outcome |-> d.done[i].fate]
             /\ Answers(d)[i] \in Service!Answer
  <2>1. Answers(d)[i] = [req |-> i, outcome |-> d.done[i].fate]
    BY <1>1, <1>4 DEF Answers
  <2>2. i \in Nat \ {0}
    BY <1>1, <1>4
  <2> DEFINE f == d.done[i].fate
             outcomes == Fates \cup (IF FALSE \in SendResults THEN {"DROPPED"} ELSE {})
  <2>3. f \in outcomes
    BY <1>3
  <2>4. Service!Answer = [req : Nat \ {0}, outcome : outcomes]
    BY DEF Service!Answer
  <2> HIDE DEF f, outcomes
  <2>5. [req |-> i, outcome |-> f] \in Service!Answer
    BY <2>2, <2>3, <2>4
  <2> QED
    BY <2>1, <2>5 DEF f
<1>5. Answers(d) \in [1..n -> Service!Answer]
  BY <1>1, <1>4 DEF Answers
<1> HIDE DEF n
<1>6. Answers(d) \in Seq(Service!Answer) /\ Len(Answers(d)) = n
  BY <1>1, <1>5, FunctionIsSeq
<1> QED
  BY <1>1, <1>2, <1>4, <1>6 DEF n

\* Every step of the device is a step of the service.
LEMMA StepOfService ==
  ASSUME Whole, Whole', Extends(dev, dev')
  PROVE  Service!Next
<1> DEFINE n == Len(dev.done)
           m == Len(dev'.done)
<1>1. /\ dev \in Device /\ Accounted(dev) /\ Blamed(dev)
      /\ dev' \in Device /\ Accounted(dev') /\ Blamed(dev')
  BY DEF Whole, Inv, TypeOK, EachOnceInOrder, Sound, Accounted, Blamed, Pending, OnWire
<1>2. /\ Answers(dev') \in Seq(Service!Answer) /\ Len(Answers(dev')) = m
      /\ \A i \in 1..m : Answers(dev')[i] = [req |-> i, outcome |-> dev'.done[i].fate]
      /\ m \in Nat /\ dev'.accepted \in Nat /\ m <= dev'.accepted
  BY <1>1, EndingsAreAnswers
<1>3. /\ Len(Answers(dev)) = n /\ n \in Nat
      /\ \A i \in 1..n : Answers(dev)[i] = [req |-> i, outcome |-> dev.done[i].fate]
  BY <1>1, EndingsAreAnswers
<1>4. /\ dev.accepted <= dev'.accepted /\ n <= m
      /\ \A i \in 1..n : dev'.done[i] = dev.done[i]
  BY DEF Extends
<1> HIDE DEF n, m
<1>5. \A i \in 1..n : Answers(dev')[i] = Answers(dev)[i]
  BY <1>2, <1>3, <1>4
<1>6. \A i \in (n + 1)..m : Answers(dev')[i].req = i
  BY <1>2, <1>3
<1>7. dev'.accepted >= dev.accepted
  BY <1>1, <1>4, Lengths
<1>8. /\ Len(Answers(dev)) <= Len(Answers(dev')) /\ Len(Answers(dev')) <= dev'.accepted
      /\ \A i \in 1..Len(Answers(dev)) : Answers(dev')[i] = Answers(dev)[i]
      /\ \A i \in (Len(Answers(dev)) + 1)..Len(Answers(dev')) : Answers(dev')[i].req = i
      /\ Answers(dev') \in Seq(Service!Answer)
  BY <1>2, <1>3, <1>4, <1>5, <1>6
<1> QED
  BY <1>2, <1>7, <1>8, Zenon DEF Service!Next, Service!AnswersOldest, Answers

\* The service begins when the queue does.
LEMMA InitOfService ==
  ASSUME Init
  PROVE  Service!Init
<1>1. dev.done = <<>> /\ dev.accepted = 0
  BY DEF Init
<1>2. [i \in DOMAIN dev.done |-> [req |-> dev.done[i].req, outcome |-> dev.done[i].fate]] = <<>>
  BY <1>1
<1> QED
  BY <1>1, <1>2 DEF Service!Init

---------------------------------------------------------------------------
(* Theorems *)

\* The queue of a device implements the service: whatever callbacks, retries, failed sends,
\* late responses and removals do, the accepted requests are answered one at a time, in the
\* order in which they were accepted, each once, and no answer is taken back
\* (zmtp_device_request_resolve, _flush, _destroy of zmtp_device.c).
THEOREM QueueImplementsService == Spec => ImplementsService
<1>1. Whole /\ [Next]_vars => [Service!Next]_(Service!vars)
  BY NextInv, NextSound, StepOfService, WholeStep DEF Whole
<1> QED
  BY InitOfService, WholeIsInvariant, <1>1, PTL DEF Spec, ImplementsService, Service!Safety

\* One request at a time is on the wire, and what was transmitted last is the pending request
\* (zmtp_device_request_flush, _flush_w_check, _retry).
THEOREM OneAtATimeHolds == Spec => []OneAtATime
<1>1. ASSUME Whole PROVE OneAtATime
  <2>1. /\ dev \in Device /\ InOrder(dev) /\ LastIsPending(dev) /\ GoneIsEmpty(dev)
        /\ Len(dev.done) \in Nat /\ OnWire(dev) \in {0, 1}
    BY <1>1, Lengths DEF Whole, Inv, TypeOK, Sound
  <2>2. \A s \in DOMAIN dev.sent : dev.sent[s].req <= Len(dev.done) + 1
    BY <2>1, SentReqs DEF InOrder
  <2> QED
    BY <2>1, <2>2 DEF InOrder, LastIsPending, GoneIsEmpty, OneAtATime
<1> QED
  BY WholeIsInvariant, <1>1, PTL

\* Requests wait with none on the wire, or are freed without their callback, only where a
\* send has failed (zmtp_device_request_flush, _retry and zmtp_device_destroy).
THEOREM StallsOnlyAfterSendFailure == Spec => []StalledOnlyAfterSendFailure
<1>1. Whole => StalledOnlyAfterSendFailure
  BY DEF Whole, Sound, Moving, Blamed, StalledOnlyAfterSendFailure
<1> QED
  BY WholeIsInvariant, <1>1, PTL
---------------------------------------------------------------------------
(* Answers and retries: the invariant *)

\* The transmissions of one object of the device have growing numbers, below its reqid.
Numbered(d) ==
  /\ \A s \in DOMAIN d.sent : d.sent[s].epoch <= d.epoch
  /\ \A s \in DOMAIN d.sent :
       d.sent[s].ver = 1 /\ d.sent[s].epoch = d.epoch => d.sent[s].n < d.reqid
  /\ \A s, t \in DOMAIN d.sent :
       s < t /\ d.sent[s].ver = 1 /\ d.sent[t].ver = 1 /\ d.sent[s].epoch = d.sent[t].epoch =>
         d.sent[s].n < d.sent[t].n

\* The number of the latest transmission of the pending request is reqid - 1.
LatestNumber(d) ==
  Pending(d) /\ d.sent[Len(d.sent)].ver = 1 => d.reqid = d.sent[Len(d.sent)].n + 1

\* A response to transmission s may end a request that was last sent as transmission t.
Matches(d, s, t) ==
  \/ d.sent[s].ver = 0 \/ d.sent[t].ver = 0
  \/ d.sent[s].epoch # d.sent[t].epoch
  \/ d.sent[s].n >= IdMod \div 2 \/ d.sent[t].n >= IdMod \div 2
  \/ s = t

\* Transmission s answers the request numbered r, which was last sent as transmission t.
AnswersRequest(d, r, s, t) ==
  s \in DOMAIN d.sent /\ t \in DOMAIN d.sent /\ d.sent[t].req = r /\ Matches(d, s, t)

AllMatch(d) ==
  \A i \in DOMAIN d.done :
    d.done[i].answer # 0 => AnswersRequest(d, i, d.done[i].answer, d.done[i].last)

\* The transmissions of a request, and how many they are.
SentFor(d, r) == {s \in DOMAIN d.sent : d.sent[s].req = r}
Times(d, r) == Cardinality(SentFor(d, r))

\* A request that ends for this reason has been sent often enough.
EnoughFor(d, r, fate) ==
  /\ fate = "TIMEOUT" => \E m \in MaxRetries : Times(d, r) >= m + 1
  /\ fate = "504" => Times(d, r) >= LinqNetwMaxRetry + 1

Spent(d) ==
  /\ \A r : \E m \in MaxRetries : Times(d, r) <= m + 1
  /\ \A i \in DOMAIN d.done : EnoughFor(d, i, d.done[i].fate)

PendingSpent(d) == Pending(d) => Times(d, d.pending.req) = d.pending.retry_count + 1

\* Requests that wait have not been retried.
Unsent(d) == \A i \in DOMAIN d.requests : d.requests[i].retry_count = 0

Logged(d) == Numbered(d) /\ AllMatch(d) /\ Spent(d) /\ Unsent(d)
Settled(d) == Logged(d) /\ LatestNumber(d) /\ PendingSpent(d)

---------------------------------------------------------------------------
(* Counting *)

\* How often a request was sent is a number.
LEMMA TimesOfSent ==
  ASSUME NEW d \in Device, NEW r
  PROVE  IsFiniteSet(SentFor(d, r)) /\ Times(d, r) \in Nat
<1>1. SentFor(d, r) \subseteq 1..Len(d.sent) /\ Len(d.sent) \in Nat
  BY Lengths DEF SentFor
<1>2. IsFiniteSet(1..Len(d.sent))
  BY <1>1, FS_Interval
<1>3. IsFiniteSet(SentFor(d, r))
  BY <1>1, <1>2, FS_Subset
<1> QED
  BY <1>3, FS_CardinalityType DEF Times

\* One transmission more is one more for the request it carries.
LEMMA TimesAppend ==
  ASSUME NEW d \in Device, NEW s \in Transmission, NEW e, e.sent = Append(d.sent, s), NEW r
  PROVE  Times(e, r) = IF r = s.req THEN Times(d, r) + 1 ELSE Times(d, r)
<1> DEFINE n == Len(d.sent)
<1>1. n \in Nat /\ DOMAIN d.sent = 1..n /\ d.sent \in Seq(Transmission)
  BY Lengths
<1>2. /\ DOMAIN e.sent = 1..n + 1 /\ e.sent[n + 1] = s
      /\ \A i \in 1..n : e.sent[i] = d.sent[i]
  BY <1>1
<1> HIDE DEF n
<1>3. CASE r = s.req
  <2>1. SentFor(e, r) = SentFor(d, r) \cup {n + 1} /\ n + 1 \notin SentFor(d, r)
    BY <1>1, <1>2, <1>3 DEF SentFor
  <2>2. IsFiniteSet(SentFor(d, r))
    BY TimesOfSent
  <2>3. Cardinality(SentFor(d, r) \cup {n + 1}) = Cardinality(SentFor(d, r)) + 1
    BY ONLY <2>1, <2>2, FS_AddElement
  <2> QED
    BY <1>3, <2>1, <2>3 DEF Times
<1>4. CASE r # s.req
  <2>1. SentFor(e, r) = SentFor(d, r)
    BY <1>1, <1>2, <1>4 DEF SentFor
  <2> QED
    BY <1>4, <2>1 DEF Times
<1> QED
  BY <1>3, <1>4

\* Transmissions are counted by the requests they carry.
LEMMA SameTimes ==
  ASSUME NEW d, NEW e, DOMAIN e.sent = DOMAIN d.sent,
         \A t \in DOMAIN d.sent : e.sent[t].req = d.sent[t].req
  PROVE  \A r : Times(e, r) = Times(d, r)
  BY DEF Times, SentFor

---------------------------------------------------------------------------
(* What may happen to the history of a device *)

\* A request that has not been sent has no transmissions.
LEMMA NotSentYet ==
  ASSUME NEW d, Mid(d), NEW r \in Nat, r > Len(d.done) + OnWire(d)
  PROVE  Times(d, r) = 0
<1>1. d \in Device /\ Len(d.done) \in Nat /\ OnWire(d) \in {0, 1}
  BY Lengths DEF Mid, DeviceOK
<1>2. \A s \in DOMAIN d.sent : d.sent[s].req \in Nat /\ d.sent[s].req <= Len(d.done) + OnWire(d)
  BY <1>1, SentReqs DEF Mid, InOrder
<1>3. SentFor(d, r) = {}
  BY <1>1, <1>2 DEF SentFor
<1> QED
  BY <1>3, FS_EmptySet DEF Times

\* Transmissions have numbers.
LEMMA SentNumbers ==
  ASSUME NEW d \in Device
  PROVE  \A s \in DOMAIN d.sent : d.sent[s].n \in Nat /\ d.sent[s].epoch \in Nat
<1> TAKE s \in DOMAIN d.sent
<1>1. d.sent[s] \in Transmission
  BY Lengths, ElementOfSeq
<1> QED
  BY <1>1 DEF Transmission

\* Nothing is sent and nothing ends; the numbers may grow.
LEMMA SameLog ==
  ASSUME NEW d \in Device, NEW e \in Device, Logged(d),
         e.done = d.done, e.sent = d.sent, e.epoch = d.epoch, e.reqid >= d.reqid, Unsent(e)
  PROVE  /\ Logged(e)
         /\ /\ e.reqid = d.reqid /\ (Pending(e) <=> Pending(d))
            /\ Pending(d) =>
                 e.pending.req = d.pending.req /\ e.pending.retry_count = d.pending.retry_count
            /\ Settled(d)
            => Settled(e)
<1>1. \A r : Times(e, r) = Times(d, r)
  BY SameTimes
<1>2. \A s \in DOMAIN d.sent : d.sent[s].n \in Nat
  BY SentNumbers
<1>3. Numbered(e)
  BY <1>2 DEF Logged, Numbered, Device
<1>4. AllMatch(e)
  BY DEF Logged, AllMatch, AnswersRequest, Matches
<1>5. Spent(e)
  BY <1>1 DEF Logged, Spent, EnoughFor
<1>6. Logged(e)
  BY <1>3, <1>4, <1>5 DEF Logged
<1> QED
  BY <1>1, <1>6 DEF Settled, LatestNumber, PendingSpent

\* The pending request ends.
LEMMA EndedLog ==
  ASSUME NEW d, Mid(d), Pending(d), Logged(d), NEW x \in Ending,
         NEW e \in Device, ~Pending(e), Unsent(e),
         e.done = Append(d.done, x), e.sent = d.sent, e.epoch = d.epoch, e.reqid >= d.reqid,
         x.answer # 0 => AnswersRequest(d, d.pending.req, x.answer, x.last),
         EnoughFor(d, d.pending.req, x.fate)
  PROVE  Settled(e)
<1> DEFINE n == Len(d.done)
<1>1. /\ d \in Device /\ n \in Nat /\ DOMAIN d.done = 1..n /\ d.done \in Seq(Ending)
      /\ d.pending.req = n + 1
  BY Lengths DEF Mid, DeviceOK, Accounted
<1>2. /\ DOMAIN e.done = 1..n + 1 /\ e.done[n + 1] = x
      /\ \A i \in 1..n : e.done[i] = d.done[i]
  BY <1>1
<1> HIDE DEF n
<1>3. \A r : Times(e, r) = Times(d, r)
  BY SameTimes
<1>4. \A s \in DOMAIN d.sent : d.sent[s].n \in Nat
  BY <1>1, SentNumbers
<1>5. Numbered(e)
  BY <1>1, <1>4 DEF Logged, Numbered, Device
<1>6. AllMatch(e)
  <2>1. ASSUME NEW i \in 1..n + 1, e.done[i].answer # 0
        PROVE  AnswersRequest(d, i, e.done[i].answer, e.done[i].last)
    <3>1. CASE i \in 1..n
      BY <1>1, <1>2, <2>1, <3>1 DEF Logged, AllMatch
    <3>2. CASE i = n + 1
      BY <1>1, <1>2, <2>1, <3>2
    <3> QED
      BY <1>1, <3>1, <3>2
  <2> QED
    BY <1>2, <2>1 DEF AllMatch, AnswersRequest, Matches
<1>7. Spent(e)
  <2>1. ASSUME NEW i \in 1..n + 1
        PROVE  EnoughFor(d, i, e.done[i].fate)
    <3>1. CASE i \in 1..n
      BY <1>1, <1>2, <3>1 DEF Logged, Spent
    <3>2. CASE i = n + 1
      BY <1>1, <1>2, <3>2
    <3> QED
      BY <1>1, <3>1, <3>2
  <2> QED
    BY <1>2, <1>3, <2>1 DEF Logged, Spent, EnoughFor
<1> QED
  BY <1>5, <1>6, <1>7 DEF Settled, Logged, LatestNumber, PendingSpent

\* The pending request is sent, for the first time or again.
LEMMA SentLog ==
  ASSUME NEW d, Mid(d), Pending(d), Logged(d),
         Times(d, d.pending.req) = d.pending.retry_count,
         \E m \in MaxRetries : d.pending.retry_count <= m,
         NEW s \in Transmission, s.req = d.pending.req, s.epoch = d.epoch, s.n = d.reqid,
         NEW e \in Device, Pending(e), Unsent(e),
         e.sent = Append(d.sent, s), e.done = d.done, e.epoch = d.epoch,
         e.reqid = IF s.ver = 1 THEN d.reqid + 1 ELSE d.reqid,
         e.pending.req = d.pending.req, e.pending.retry_count = d.pending.retry_count
  PROVE  Settled(e)
<1> DEFINE n == Len(d.sent)
<1>1. /\ d \in Device /\ n \in Nat /\ DOMAIN d.sent = 1..n /\ d.sent \in Seq(Transmission)
      /\ d.reqid \in Nat /\ d.epoch \in Nat
  BY Lengths DEF Mid, DeviceOK, Device
<1>2. /\ DOMAIN e.sent = 1..n + 1 /\ e.sent[n + 1] = s /\ Len(e.sent) = n + 1
      /\ \A i \in 1..n : e.sent[i] = d.sent[i]
  BY <1>1
<1> HIDE DEF n
<1>3. \A r : Times(e, r) = IF r = s.req THEN Times(d, r) + 1 ELSE Times(d, r)
  BY <1>1, TimesAppend
<1>4. \A i \in 1..n : d.sent[i].n \in Nat /\ d.sent[i].epoch \in Nat
  BY <1>1, SentNumbers
<1>5. Numbered(e)
  <2>1. \A i \in 1..n + 1 : e.sent[i].epoch <= e.epoch
    <3>1. \A i \in 1..n : d.sent[i].epoch <= d.epoch
      BY <1>1 DEF Logged, Numbered
    <3> QED
      BY <1>1, <1>2, <3>1
  <2>2. ASSUME NEW i \in 1..n + 1, e.sent[i].ver = 1, e.sent[i].epoch = e.epoch
        PROVE  e.sent[i].n < e.reqid
    <3>1. CASE i \in 1..n
      <4>1. d.sent[i].n < d.reqid
        BY <1>1, <1>2, <2>2, <3>1 DEF Logged, Numbered
      <4> QED
        BY <1>1, <1>2, <1>4, <3>1, <4>1
    <3>2. CASE i = n + 1
      BY <1>1, <1>2, <2>2, <3>2
    <3> QED
      BY <1>1, <3>1, <3>2
  <2>3. ASSUME NEW i \in 1..n + 1, NEW j \in 1..n + 1, i < j,
               e.sent[i].ver = 1, e.sent[j].ver = 1, e.sent[i].epoch = e.sent[j].epoch
        PROVE  e.sent[i].n < e.sent[j].n
    <3>1. i \in 1..n
      BY <1>1, <2>3
    <3>2. CASE j \in 1..n
      BY <1>1, <1>2, <2>3, <3>1, <3>2 DEF Logged, Numbered
    <3>3. CASE j = n + 1
      BY <1>1, <1>2, <2>3, <3>1, <3>3 DEF Logged, Numbered
    <3> QED
      BY <1>1, <3>2, <3>3
  <2> QED
    BY <1>2, <2>1, <2>2, <2>3 DEF Numbered
<1>6. AllMatch(e)
  <2>1. ASSUME NEW i \in DOMAIN d.done, d.done[i].answer # 0
        PROVE  AnswersRequest(e, i, d.done[i].answer, d.done[i].last)
    <3>1. AnswersRequest(d, i, d.done[i].answer, d.done[i].last)
      BY <2>1 DEF Logged, AllMatch
    <3>2. /\ d.done[i].answer \in 1..n /\ d.done[i].last \in 1..n
          /\ d.done[i].answer \in 1..n + 1 /\ d.done[i].last \in 1..n + 1
      BY <1>1, <3>1 DEF AnswersRequest
    <3> QED
      BY <1>2, <3>1, <3>2 DEF AnswersRequest, Matches
  <2> QED
    BY <2>1 DEF AllMatch
<1>7. Spent(e)
  <2>1. Times(d, s.req) \in Nat
    BY <1>1, TimesOfSent
  <2>2. ASSUME NEW r PROVE \E m \in MaxRetries : Times(e, r) <= m + 1
    <3>1. CASE r = s.req
      <4>1. PICK m \in MaxRetries : d.pending.retry_count <= m
        OBVIOUS
      <4>2. m \in Nat /\ Times(e, r) = d.pending.retry_count + 1 /\ d.pending.retry_count \in Nat
        BY <1>3, <2>1, <3>1, DeviceAssumption
      <4> QED
        BY <4>1, <4>2
    <3>2. CASE r # s.req
      BY <1>3, <3>2 DEF Logged, Spent
    <3> QED
      BY <3>1, <3>2
  <2>3. ASSUME NEW i \in DOMAIN d.done
        PROVE  EnoughFor(e, i, d.done[i].fate)
    <3>1. i # s.req
      <4>1. i \in 1..Len(d.done) /\ Len(d.done) \in Nat /\ s.req = Len(d.done) + 1
        BY <1>1, <2>3, Lengths DEF Mid, DeviceOK, Accounted
      <4> QED
        BY <4>1
    <3>2. EnoughFor(d, i, d.done[i].fate)
      BY DEF Logged, Spent
    <3> QED
      BY <1>3, <3>1, <3>2 DEF EnoughFor
  <2> QED
    BY <2>2, <2>3 DEF Spent
<1>8. LatestNumber(e)
  BY <1>2 DEF LatestNumber
<1>9. PendingSpent(e)
  BY <1>3 DEF PendingSpent
<1> QED
  BY <1>5, <1>6, <1>7, <1>8, <1>9 DEF Settled, Logged

---------------------------------------------------------------------------
(* The functions of the device *)

\* What Push and Resolve do to the fields that are read here.
LEMMA PushLog ==
  ASSUME Clock, NEW d \in Device, NEW k \in Nat, Unsent(d)
  PROVE  LET e == Push(d, k)
         IN  /\ e \in Device /\ Unsent(e) /\ e.done = d.done /\ e.sent = d.sent
             /\ e.epoch = d.epoch /\ e.pending = d.pending /\ e.reqid = d.reqid
<1> DEFINE new == [i \in 1..k |->
        [req |-> d.accepted + i, rid |-> None,
         retry_at |-> SysTick(now + retry_timeout), retry_count |-> 0, due |-> now + retry_timeout, since |-> now, last |-> 0]]
           e == Push(d, k)
<1>1. e \in Device /\ e.done = d.done /\ e.sent = d.sent /\ e.epoch = d.epoch
      /\ e.pending = d.pending /\ e.reqid = d.reqid
  BY PushPreserves, PushHistory
<1>2. e.requests = d.requests \o new
  BY DEF Push, Device
<1>3. \A i \in 1..k : new[i].retry_count = 0 /\ new[i] \in Request
  <2>1. d.accepted \in Nat
    BY DEF Device
  <2> QED
    BY <2>1, SysTickIsNat DEF Request, Clock
<1>4. new \in Seq(Request) /\ Len(new) = k
  <2>1. new \in [1..k -> Request]
    BY <1>3
  <2> QED
    BY <2>1, FunctionIsSeq
<1> HIDE DEF new, e
<1> DEFINE n == Len(d.requests)
<1>5. /\ n \in Nat /\ DOMAIN d.requests = 1..n /\ Len(e.requests) = n + k
      /\ DOMAIN e.requests = 1..n + k
      /\ \A i \in 1..n + k : e.requests[i] = IF i <= n THEN d.requests[i] ELSE new[i - n]
  <2>1. d.requests \in Seq(Request) /\ DOMAIN d.requests = 1..n /\ n \in Nat
    BY Lengths
  <2>2. /\ d.requests \o new \in Seq(Request) /\ Len(d.requests \o new) = n + k
        /\ \A i \in 1..n + k : (d.requests \o new)[i] = IF i <= n THEN d.requests[i] ELSE new[i - n]
    BY <1>4, <2>1, ConcatProperties
  <2> QED
    BY <1>2, <2>1, <2>2, LenProperties
<1> HIDE DEF n
<1>6. ASSUME NEW i \in 1..n + k PROVE e.requests[i].retry_count = 0
  <2>1. CASE i <= n
    BY <1>5, <2>1 DEF Unsent
  <2>2. CASE i > n
    <3>1. i - n \in 1..k /\ e.requests[i] = new[i - n]
      BY <1>5, <2>2
    <3> QED
      BY <1>3, <3>1
  <2> QED
    BY <1>5, <2>1, <2>2
<1> QED
  BY <1>1, <1>5, <1>6 DEF Unsent, e

\* exe_on_complete and request_destroy.
LEMMA ResolveSettled ==
  ASSUME Clock, NEW d, Mid(d), Pending(d), Logged(d),
         NEW fate \in Fates, NEW answer \in Nat, NEW k \in Nat,
         answer # 0 => AnswersRequest(d, d.pending.req, answer, d.pending.last),
         EnoughFor(d, d.pending.req, fate)
  PROVE  Settled(Resolve(d, fate, answer, k))
<1> DEFINE p == Push(d, k)
           x == [req |-> d.pending.req, fate |-> fate, answer |-> answer, last |-> d.pending.last]
           e == Resolve(d, fate, answer, k)
<1>1. d \in Device /\ d.pending \in Request /\ Unsent(d) /\ d.reqid \in Nat
  BY DEF Mid, DeviceOK, Device, Pending, Logged
<1>2. /\ p \in Device /\ Unsent(p) /\ p.done = d.done /\ p.sent = d.sent
      /\ p.epoch = d.epoch /\ p.reqid = d.reqid
  BY <1>1, PushLog
<1>3. e = [p EXCEPT !.done = Append(@, x), !.pending = NoRequest]
  BY Zenon DEF Resolve
<1>4. x \in Ending /\ x.fate = fate /\ x.answer = answer /\ x.last = d.pending.last
  BY <1>1 DEF Ending, Request
<1>5. DeviceOK(e) /\ e \in Device /\ ~Pending(e)
  BY ResolvePreserves DEF Mid, DeviceOK
<1> HIDE DEF p, x
<1>6. /\ e.done = Append(d.done, x) /\ e.sent = d.sent /\ e.epoch = d.epoch
      /\ e.reqid = d.reqid /\ e.requests = p.requests
  BY <1>2, <1>3 DEF Device
<1> HIDE DEF e
<1>7. Unsent(e)
  BY <1>2, <1>6 DEF Unsent
<1>8. e.reqid >= d.reqid
  BY <1>1, <1>6
<1> QED
  BY <1>4, <1>5, <1>6, <1>7, <1>8, EndedLog DEF e

\* The pending request may be sent: it has been sent as often as it counts retries.
Sendable(d) ==
  /\ Times(d, d.pending.req) = d.pending.retry_count
  /\ \E m \in MaxRetries : d.pending.retry_count <= m

\* request_id_set and request_send.
LEMMA TransmitSettled ==
  ASSUME Clock, NEW d, Mid(d), Pending(d), Logged(d), Sendable(d),
         NEW ok \in SendResults, NEW k \in Nat
  PROVE  Settled(Transmit(d, ok, k))
<1> DEFINE t == RouterIdSet(TakeId(d))
           e == Transmit(d, ok, k)
           s == [req |-> d.pending.req, ver |-> IF d.legacy THEN 0 ELSE 1,
                 n |-> d.reqid, router |-> t.pending.rid, epoch |-> d.epoch, left |-> MaxAnswers]
<1>1. /\ d \in Device /\ DeviceOK(d) /\ ok \in BOOLEAN /\ d.pending \in Request /\ Unsent(d)
      /\ d.legacy \in BOOLEAN /\ d.reqid \in Nat /\ d.router \in Routers /\ d.epoch \in Nat
  BY DeviceAssumption DEF Mid, DeviceOK, Device, Pending, Logged
<1>2. /\ DeviceOK(t) /\ t \in Device /\ Pending(t) /\ t.pending \in Request
      /\ t.pending.req = d.pending.req /\ t.pending.retry_count = d.pending.retry_count
      /\ t.pending.last = d.pending.last /\ t.pending.rid = d.router
      /\ t.sent = d.sent /\ t.done = d.done /\ t.epoch = d.epoch
      /\ t.requests = d.requests /\ t.accepted = d.accepted
      /\ t.reqid = IF d.legacy THEN d.reqid ELSE d.reqid + 1
  BY <1>1, FramesSet
<1>3. DeviceOK(e) /\ e \in Device
  BY <1>1, TransmitPreserves DEF DeviceOK
<1>4. CASE ok
  <2>1. e = [t EXCEPT !.sent = Append(d.sent, s), !.pending.last = Len(d.sent) + 1]
    BY <1>2, <1>4, Zenon DEF Transmit
  <2>2. s \in Transmission
    <3>1. d.pending.req \in Nat \ {0} /\ t.pending.rid \in Routers
      BY <1>1, <1>2 DEF Request
    <3> HIDE DEF t
    <3> QED
      BY <1>1, <3>1, DeviceAssumption DEF Transmission
  <2>3. /\ s.req = d.pending.req /\ s.epoch = d.epoch /\ s.n = d.reqid
        /\ s.ver = IF d.legacy THEN 0 ELSE 1
    OBVIOUS
  <2> HIDE DEF s, t
  <2> DEFINE q == [t.pending EXCEPT !.last = Len(d.sent) + 1]
  <2>4. /\ e.sent = Append(d.sent, s) /\ e.pending = q /\ e.done = d.done
        /\ e.epoch = d.epoch /\ e.reqid = t.reqid /\ e.requests = d.requests
    BY <1>2, <2>1 DEF Device
  <2>5. q.req = d.pending.req /\ q.retry_count = d.pending.retry_count /\ q # NoRequest
    <3>1. t.pending \in Request
      BY <1>2
    <3>2. /\ q.req = t.pending.req /\ q.retry_count = t.pending.retry_count
          /\ t.pending.req # 0
      BY <3>1 DEF Request
    <3>3. q.req = d.pending.req /\ q.retry_count = d.pending.retry_count /\ q.req # 0
      BY <1>2, <3>2
    <3> HIDE DEF q
    <3> QED
      BY <3>3 DEF NoRequest
  <2> HIDE DEF e, q
  <2>6. Pending(e) /\ Unsent(e)
    BY <1>1, <2>4, <2>5 DEF Pending, Unsent
  <2>7. e.reqid = IF s.ver = 1 THEN d.reqid + 1 ELSE d.reqid
    BY <1>1, <1>2, <2>3, <2>4
  <2>8. /\ e.pending.req = d.pending.req /\ e.pending.retry_count = d.pending.retry_count
    BY <2>4, <2>5
  <2> QED
    BY <1>3, <2>2, <2>3, <2>4, <2>6, <2>7, <2>8, SentLog DEF e, Sendable
<1>5. CASE ~ok
  <2>1. e = Resolve(t, "IO", 0, k)
    BY <1>5, Zenon DEF Transmit
  <2> HIDE DEF t
  <2>2. Mid(t)
    BY <1>1, <1>2, SameHistory DEF Mid
  <2>3. t.reqid >= d.reqid /\ Unsent(t)
    BY <1>1, <1>2 DEF Unsent
  <2>4. Logged(t)
    BY <1>1, <1>2, <2>3, SameLog
  <2>5. "IO" \in Fates /\ EnoughFor(t, t.pending.req, "IO")
    BY DEF Fates, EnoughFor
  <2>6. Settled(Resolve(t, "IO", 0, k))
    BY <1>2, <2>2, <2>4, <2>5, ResolveSettled
  <2> QED
    BY <2>1, <2>6
<1> QED
  BY <1>1, <1>4, <1>5

\* zmtp_device_request_flush_w_check.
LEMMA FlushWCheckSettled ==
  ASSUME Clock, NEW d, Mid(d), Settled(d), max_retry \in MaxRetries,
         NEW ok \in SendResults, NEW k \in Nat
  PROVE  Settled(FlushWCheck(d, ok, k))
<1> DEFINE h == Head(d.requests)
           t == Tail(d.requests)
           e == [d EXCEPT !.pending = h, !.requests = t]
<1>1. d \in Device /\ DeviceOK(d) /\ Logged(d) /\ Unsent(d)
  BY DEF Mid, DeviceOK, Settled, Logged
<1>2. CASE d.requests # <<>> /\ d.pending = NoRequest
  <2>1. DeviceOK(e) /\ Pending(e) /\ ~Pending(d)
    BY <1>1, <1>2, TakeHeadPreserves DEF Pending
  <2>2. FlushWCheck(d, ok, k) = Transmit(e, ok, k)
    BY <1>2, Zenon DEF FlushWCheck, Flush
  <2>3. /\ h = d.requests[1] /\ 1 \in DOMAIN d.requests /\ h \in Request
        /\ DOMAIN t = 1..Len(t) /\ Len(t) \in Nat
        /\ \A i \in 1..Len(t) : i + 1 \in DOMAIN d.requests /\ t[i] = d.requests[i + 1]
    <3>1. d.requests \in Seq(Request) /\ DOMAIN d.requests = 1..Len(d.requests)
      BY <1>1, Lengths
    <3> QED
      BY <1>2, <3>1
  <2> HIDE DEF h, t
  <2>4. /\ e.done = d.done /\ e.sent = d.sent /\ e.epoch = d.epoch /\ e.reqid = d.reqid
        /\ e.pending = h /\ e.requests = t /\ e \in Device /\ d.reqid \in Nat
        /\ e.accepted = d.accepted
    BY <1>1, <2>1 DEF DeviceOK, Device
  <2> HIDE DEF e
  <2>5. e.pending.retry_count = 0 /\ Unsent(e)
    BY <1>1, <2>3, <2>4 DEF Unsent
  <2>6. Logged(e)
    BY <1>1, <2>4, <2>5, SameLog
  <2>7. OnWire(d) = 0 /\ OnWire(e) = 1 /\ Len(d.done) \in Nat /\ e.pending.req = Len(d.done) + 1
    BY <1>1, <2>1, <2>4, Lengths DEF OnWire, DeviceOK, Accounted
  <2>8. Times(d, e.pending.req) = 0
    BY <2>7, NotSentYet
  <2>9. Sendable(e)
    <3>1. Times(e, e.pending.req) = 0
      BY <2>4, <2>8, SameTimes
    <3>2. max_retry \in Nat
      BY DeviceAssumption
    <3> QED
      BY <2>5, <3>1, <3>2 DEF Sendable
  <2>10. Mid(e)
    <3>1. \A s \in DOMAIN d.sent : d.sent[s].req \in Nat /\ d.sent[s].req <= Len(d.done) + 0
      BY <1>1, <2>7, SentReqs DEF Mid, InOrder
    <3>2. \A s \in DOMAIN d.sent : d.sent[s].req <= Len(d.done) + 1
      BY <2>7, <3>1
    <3> QED
      BY <2>1, <2>4, <2>7, <3>2 DEF Mid, InOrder, Blamed
  <2> QED
    BY <2>1, <2>2, <2>6, <2>9, <2>10, TransmitSettled
<1>3. CASE ~(d.requests # <<>> /\ d.pending = NoRequest)
  BY <1>3 DEF FlushWCheck
<1> QED
  BY <1>2, <1>3

\* zmtp_device_request_retry_at_set.
LEMMA RetryAtSetSettled ==
  ASSUME Clock, NEW d, DeviceOK(d), Pending(d), Settled(d)
  PROVE  Settled(RetryAtSet(d)) /\ RetryAtSet(d).pending.retry_count = d.pending.retry_count
<1> DEFINE e == RetryAtSet(d)
<1>1. d \in Device /\ d.pending \in Request /\ d.reqid \in Nat /\ Logged(d) /\ Unsent(d)
  BY DEF DeviceOK, Device, Pending, Settled, Logged
<1>2. e \in Device /\ Pending(e)
  BY RetryAtSetPreserves DEF DeviceOK
<1>3. /\ e.done = d.done /\ e.sent = d.sent /\ e.epoch = d.epoch /\ e.reqid = d.reqid
      /\ e.requests = d.requests
      /\ e.pending.req = d.pending.req /\ e.pending.retry_count = d.pending.retry_count
  BY <1>1 DEF RetryAtSet, Device, Request
<1> HIDE DEF e
<1>4. e.reqid >= d.reqid /\ Unsent(e)
  BY <1>1, <1>3 DEF Unsent
<1> QED
  BY <1>1, <1>2, <1>3, <1>4, SameLog DEF e

\* zmtp_device_request_retry, while retries are left.
LEMMA RetrySettled ==
  ASSUME Clock, NEW d, Good(d), Pending(d), Settled(d),
         max_retry \in MaxRetries, d.pending.retry_count < max_retry,
         NEW ok \in SendResults, NEW k \in Nat
  PROVE  Settled(Retry(d, ok, k))
<1> DEFINE r == RetryAtSet(d)
           q == [r.pending EXCEPT !.retry_count = @ + 1]
           e == [r EXCEPT !.pending.retry_count = @ + 1]
<1>1. /\ Good(r) /\ Pending(r) /\ DeviceOK(r) /\ r \in Device /\ r.pending \in Request
      /\ Settled(r) /\ r.pending.retry_count = d.pending.retry_count
      /\ Logged(r) /\ Unsent(r) /\ r.reqid \in Nat
  BY RetryAtSetGood, RetryAtSetSettled DEF Good, Mid, DeviceOK, Device, Pending, Settled, Logged
<1>2. Retry(d, ok, k) = Transmit(e, ok, k)
  BY Zenon DEF Retry
<1> HIDE DEF r
<1>3. /\ q \in Request /\ q.req = r.pending.req /\ q.last = r.pending.last
      /\ q.retry_count = r.pending.retry_count + 1
  BY <1>1 DEF Request
<1>4. e = [r EXCEPT !.pending = q]
  BY <1>1 DEF Device
<1> HIDE DEF q
<1>5. e \in Device
  BY <1>1, <1>3, <1>4 DEF Device
<1>6. /\ e.done = r.done /\ e.requests = r.requests /\ e.accepted = r.accepted
      /\ e.pending = q /\ e.alive /\ e.sent = r.sent /\ e.epoch = r.epoch /\ e.reqid = r.reqid
  BY <1>1, <1>4 DEF Device, DeviceOK
<1> HIDE DEF e
<1>7. Pending(e)
  BY <1>3, <1>6 DEF Pending, Request, NoRequest
<1>8. DeviceOK(e)
  BY <1>1, <1>3, <1>5, <1>6, <1>7, SameQueue DEF DeviceOK
<1>9. Mid(e)
  BY <1>1, <1>3, <1>6, <1>7, <1>8, SameHistory DEF Good, Mid
<1>10. e.reqid >= r.reqid /\ Unsent(e)
  BY <1>1, <1>6 DEF Unsent
<1>11. Logged(e)
  BY <1>1, <1>5, <1>6, <1>10, SameLog
<1>12. Sendable(e)
  <2>1. Times(e, e.pending.req) = Times(r, r.pending.req)
    BY <1>3, <1>6, SameTimes
  <2>2. Times(r, r.pending.req) = r.pending.retry_count + 1
    BY <1>1 DEF Settled, PendingSpent
  <2>3. max_retry \in Nat /\ r.pending.retry_count \in Nat
    BY <1>1, DeviceAssumption DEF Request
  <2>4. e.pending.retry_count <= max_retry
    BY <1>1, <1>3, <1>6, <2>3
  <2> QED
    BY <1>3, <1>6, <2>1, <2>2, <2>4 DEF Sendable
<1> QED
  BY <1>2, <1>7, <1>9, <1>11, <1>12, TransmitSettled

\* device_resolve of a known device.
LEMMA SeenSettled ==
  ASSUME NEW d, DeviceOK(d), Settled(d), NEW ver, NEW r \in Routers
  PROVE  LET e == Seen(Hear(d, r), ver, r)
         IN  Settled(e) /\ e.sent = d.sent /\ e.reqid = d.reqid /\ e.pending = d.pending
<1> DEFINE h == Hear(d, r)
           e == Seen(h, ver, r)
<1>1. d \in Device /\ d.reqid \in Nat /\ Logged(d) /\ Unsent(d) /\ d.alive /\ Accounted(d)
  BY DEF DeviceOK, Device, Settled, Logged
<1>2. /\ h \in Device /\ DeviceOK(h) /\ h.pending = d.pending /\ h.done = d.done /\ h.sent = d.sent
      /\ h.epoch = d.epoch /\ h.requests = d.requests /\ h.reqid = d.reqid
  BY <1>1, HearPreserves DEF DeviceOK, Hear, Device
<1> HIDE DEF h
<1>3. /\ e \in Device /\ e.pending = h.pending /\ e.done = h.done /\ e.sent = h.sent
      /\ e.epoch = h.epoch /\ e.requests = h.requests /\ e.reqid = h.reqid
  BY <1>2, SeenPreserves DEF DeviceOK, Seen, Device
<1> HIDE DEF e
<1>4. e.reqid >= d.reqid /\ Unsent(e)
  BY <1>1, <1>2, <1>3 DEF Unsent
<1> QED
  BY <1>1, <1>2, <1>3, <1>4, SameLog DEF Pending, e, h

\* A response that arrives leaves one fewer to come.
LEMMA AnswerArrivesSettled ==
  ASSUME NEW d \in Device, Accounted(d), Settled(d), NEW s \in DOMAIN d.sent, d.sent[s].left > 0
  PROVE  Settled([d EXCEPT !.sent[s].left = @ - 1])
<1> DEFINE e == [d EXCEPT !.sent[s].left = @ - 1]
<1>1. e \in Device /\ e.pending = d.pending /\ e.requests = d.requests
  BY AnswerArrives
<1>2. e.done = d.done /\ e.epoch = d.epoch /\ e.reqid = d.reqid
  BY DEF Device
<1>3. /\ DOMAIN e.sent = DOMAIN d.sent /\ Len(e.sent) = Len(d.sent)
      /\ \A t \in DOMAIN d.sent :
           /\ e.sent[t].req = d.sent[t].req /\ e.sent[t].epoch = d.sent[t].epoch
           /\ e.sent[t].ver = d.sent[t].ver /\ e.sent[t].n = d.sent[t].n
  BY SentWithLeft
<1> HIDE DEF e
<1>4. \A r : Times(e, r) = Times(d, r)
  BY <1>3, SameTimes
<1>5. Numbered(e)
  BY <1>2, <1>3 DEF Settled, Logged, Numbered
<1>6. AllMatch(e)
  BY <1>2, <1>3, SMTT(20) DEF Settled, Logged, AllMatch, AnswersRequest, Matches
<1>7. Spent(e)
  BY <1>2, <1>4 DEF Settled, Logged, Spent, EnoughFor
<1>8. Unsent(e)
  BY <1>1 DEF Settled, Logged, Unsent
<1>9. LatestNumber(e)
  <2> SUFFICES ASSUME Pending(e), e.sent[Len(e.sent)].ver = 1
               PROVE  e.reqid = e.sent[Len(e.sent)].n + 1
    BY DEF LatestNumber
  <2>1. Len(d.sent) \in DOMAIN d.sent
    <3>1. DOMAIN d.sent = 1..Len(d.sent) /\ Len(d.sent) \in Nat /\ s \in 1..Len(d.sent)
      BY Lengths
    <3> QED
      BY <3>1
  <2> QED
    BY <1>1, <1>2, <1>3, <2>1 DEF Settled, LatestNumber, Pending
<1>10. PendingSpent(e)
  BY <1>1, <1>4 DEF Settled, PendingSpent, Pending
<1> QED
  BY <1>5, <1>6, <1>7, <1>8, <1>9, <1>10 DEF Settled, Logged, e

\* device_resolve of an unknown device: a new object numbers its transmissions afresh.
LEMMA CreateSettled ==
  ASSUME NEW d \in Device, Accounted(d), Settled(d), ~d.alive, GoneIsEmpty(d),
         NEW ver, NEW r \in Routers
  PROVE  Settled(Create(Hear(d, r), ver, r))
<1> DEFINE h == Hear(d, r)
           e == Create(h, ver, r)
<1>1. /\ h \in Device /\ h.pending = d.pending /\ h.alive = d.alive
      /\ h.requests = d.requests /\ Accounted(h)
  BY HearPreserves
<1>2. h.done = d.done /\ h.sent = d.sent /\ h.epoch = d.epoch
  BY DEF Hear, Device
<1> HIDE DEF h
<1>3. /\ e.done = d.done /\ e.sent = d.sent /\ e.epoch = d.epoch + 1 /\ e.reqid = 0
      /\ e.pending = NoRequest /\ e.requests = <<>>
  BY <1>1, <1>2 DEF Create, Device
<1> HIDE DEF e
<1>4. \A r1 : Times(e, r1) = Times(d, r1)
  BY <1>3, SameTimes
<1>5. Numbered(e)
  <2>1. d.epoch \in Nat /\ \A s \in DOMAIN d.sent : d.sent[s].epoch \in Nat
    BY SentNumbers DEF Device
  <2>2. \A s \in DOMAIN d.sent : d.sent[s].epoch <= d.epoch
    BY DEF Settled, Logged, Numbered
  <2>3. \A s \in DOMAIN d.sent : d.sent[s].epoch <= d.epoch + 1 /\ d.sent[s].epoch # d.epoch + 1
    BY <2>1, <2>2
  <2> QED
    BY <1>3, <2>3 DEF Settled, Logged, Numbered
<1>6. AllMatch(e)
  BY <1>3 DEF Settled, Logged, AllMatch, AnswersRequest, Matches
<1>7. Spent(e)
  BY <1>3, <1>4 DEF Settled, Logged, Spent, EnoughFor
<1>8. Unsent(e) /\ LatestNumber(e) /\ PendingSpent(e)
  BY <1>3 DEF Unsent, LatestNumber, PendingSpent, Pending
<1> QED
  BY <1>5, <1>6, <1>7, <1>8 DEF Settled, Logged, e, h

\* zmtp_device_destroy ends requests without an answer, and none for want of one.
LEMMA DestroySettled ==
  ASSUME NEW d, DeviceOK(d), Settled(d)
  PROVE  Settled(Destroy(d))
<1> DEFINE e == Destroy(d)
           n == Len(d.done)
           m == Len(e.done)
<1>1. d \in Device /\ n \in Nat /\ DOMAIN d.done = 1..n
  BY Lengths DEF DeviceOK
<1>2. /\ e \in Device /\ ~Pending(e) /\ e.requests = <<>>
      /\ \A i \in 1..n : e.done[i] = d.done[i]
      /\ \A i \in 1..m : i > n =>
           e.done[i].answer = 0 /\
           e.done[i].fate = IF Pending(d) THEN "SHUTTING_DOWN" ELSE "DROPPED"
  BY DestroyPreserves
<1>3. m \in Nat /\ DOMAIN e.done = 1..m
  BY <1>2, Lengths
<1>4. e.sent = d.sent /\ e.epoch = d.epoch /\ e.reqid = d.reqid
  BY <1>1 DEF Destroy, Device
<1> HIDE DEF e, n, m
<1>5. \A r : Times(e, r) = Times(d, r)
  BY <1>4, SameTimes
<1>6. Numbered(e)
  BY <1>4 DEF Settled, Logged, Numbered
<1>7. ASSUME NEW i \in DOMAIN e.done
      PROVE  \/ i \in DOMAIN d.done /\ e.done[i] = d.done[i]
             \/ e.done[i].answer = 0 /\ e.done[i].fate \in {"SHUTTING_DOWN", "DROPPED"}
  <2>1. CASE i \in 1..n
    <3>1. i \in DOMAIN d.done
      BY <1>1, <2>1
    <3>2. e.done[i] = d.done[i]
      BY <1>2, <2>1
    <3> QED
      BY <3>1, <3>2
  <2>2. CASE i > n
    BY <1>2, <1>3, <2>2
  <2> QED
    BY <1>1, <1>3, <2>1, <2>2
<1>8. AllMatch(e)
  BY <1>4, <1>7 DEF Settled, Logged, AllMatch, AnswersRequest, Matches
<1>9. Spent(e)
  BY <1>5, <1>7 DEF Settled, Logged, Spent, EnoughFor
<1>10. Unsent(e) /\ LatestNumber(e) /\ PendingSpent(e)
  BY <1>2 DEF Unsent, LatestNumber, PendingSpent
<1> QED
  BY <1>6, <1>8, <1>9, <1>10 DEF Settled, Logged, e

---------------------------------------------------------------------------
(* The steps *)

\* The id of a versioned transmission, before the ids go round, is its number.
LEMMA IdsAreNumbers ==
  ASSUME NEW n \in Nat, n < IdMod \div 2
  PROVE  Int32(n) = n
<1> DEFINE h == IdMod \div 2
<1>1. IdMod \in Nat /\ IdMod > 0 /\ IdMod % 2 = 0
  BY DeviceAssumption
<1>2. h \in Nat /\ 2 * h <= IdMod
  BY <1>1
<1> HIDE DEF h
<1>3. n < IdMod
  BY <1>1, <1>2 DEF h
<1>4. n % IdMod = n
  BY <1>1, <1>3
<1> QED
  BY <1>4 DEF Int32

\* A response that process_response takes for that of the pending request is that of its
\* latest transmission, where the ids tell.
LEMMA PendingMatches ==
  ASSUME NEW d, Good(d), Settled(d), NEW s \in DOMAIN d.sent, RequestPending(d, WireId(d.sent[s]))
  PROVE  AnswersRequest(d, d.pending.req, s, d.pending.last)
<1> DEFINE l == d.pending.last
<1>1. /\ Pending(d) /\ d \in Device /\ l = Len(d.sent) /\ l \in DOMAIN d.sent
      /\ d.sent[l].req = d.pending.req /\ d.sent[l].epoch = d.epoch
      /\ DOMAIN d.sent = 1..l /\ l \in Nat
  <2>1. Pending(d) /\ d \in Device
    BY DEF RequestPending, Pending, Good, Mid, DeviceOK
  <2>2. /\ l = Len(d.sent) /\ l # 0
        /\ d.sent[l].req = d.pending.req /\ d.sent[l].epoch = d.epoch
    BY <2>1 DEF Good, LastIsPending
  <2> QED
    BY <2>1, <2>2, Lengths
<1> HIDE DEF l
<1>2. SUFFICES ASSUME d.sent[s].ver # 0, d.sent[l].ver # 0,
                      d.sent[s].epoch = d.sent[l].epoch,
                      ~(d.sent[s].n >= IdMod \div 2), ~(d.sent[l].n >= IdMod \div 2)
               PROVE  s = l
  BY <1>1 DEF AnswersRequest, Matches, l
<1>3. /\ d.sent[s].n \in Nat /\ d.sent[l].n \in Nat /\ d.sent[s].ver = 1 /\ d.sent[l].ver = 1
  <2>1. d.sent[s] \in Transmission /\ d.sent[l] \in Transmission
    BY <1>1, Lengths, ElementOfSeq
  <2> QED
    BY <1>2, <2>1 DEF Transmission
<1>4. d.reqid = d.sent[l].n + 1
  BY <1>1, <1>3 DEF Settled, LatestNumber
<1> DEFINE half == IdMod \div 2
           x == d.sent[s].n
           y == d.sent[l].n
<1>5. half \in Nat
  BY DeviceAssumption
<1>6. x < half /\ y < half
  <2> HIDE DEF half, x, y
  <2> QED
    BY <1>2, <1>3, <1>5 DEF half, x, y
<1>7. Int32(x) = x /\ Int32(y) = y
  BY <1>3, <1>6, IdsAreNumbers
<1>8. WireId(d.sent[s]) = x
  BY <1>3, <1>7 DEF WireId
<1>9. x = Int32(d.reqid - 1)
  BY <1>3, <1>8 DEF RequestPending
<1>10. d.reqid - 1 = y
  BY <1>3, <1>4
<1>11. x = y
  BY <1>7, <1>9, <1>10
<1>12. ~(s < l)
  BY <1>1, <1>2, <1>3, <1>11 DEF Settled, Logged, Numbered
<1> QED
  BY <1>1, <1>12

\* A response that arrives keeps what is settled, before its request is ended.
LEMMA ResolvedSettled ==
  ASSUME Inv, Sound(dev), Settled(dev), NEW s, Arrives(s), dev.alive, NEW r \in Routers
  PROVE  LET d == Resolved(s, r)
         IN  /\ Settled(d) /\ Good(d) /\ d.pending = dev.pending
             /\ s \in DOMAIN d.sent /\ WireId(d.sent[s]) = WireId(dev.sent[s])
             /\ \A q : Times(d, q) = Times(dev, q)
<1> DEFINE e == [dev EXCEPT !.sent[s].left = @ - 1]
           d == Resolved(s, r)
<1>1. dev \in Device /\ Accounted(dev) /\ s \in DOMAIN dev.sent /\ dev.sent[s].left > 0
  BY DEF Inv, TypeOK, EachOnceInOrder, Arrives
<1>2. e \in Device /\ Accounted(e) /\ e.alive /\ Settled(e)
  BY <1>1, AnswerArrives, AnswerArrivesSettled
<1>3. DOMAIN e.sent = DOMAIN dev.sent /\ \A t \in DOMAIN dev.sent :
         /\ e.sent[t].req = dev.sent[t].req
         /\ e.sent[t].ver = dev.sent[t].ver /\ e.sent[t].n = dev.sent[t].n
  BY <1>1, SentWithLeft
<1>4. d = Seen(Hear(e, r), dev.sent[s].ver, r)
  BY DEF Resolved
<1> HIDE DEF e
<1>5. Settled(d) /\ d.sent = e.sent
  BY <1>2, <1>4, SeenSettled DEF DeviceOK
<1>6. Good(d) /\ d.pending = dev.pending
  BY ResolvedGood
<1> HIDE DEF d
<1>7. \A q : Times(d, q) = Times(dev, q)
  BY <1>3, <1>5, SameTimes
<1> QED
  BY <1>1, <1>3, <1>5, <1>6, <1>7 DEF WireId, d

\* The pending request ends, and the next one is sent.
LEMMA ResolveFlushSettled ==
  ASSUME Clock, max_retry \in MaxRetries, NEW d, Good(d), Settled(d), Pending(d),
         NEW fate \in Fates \ {"IO"}, NEW answer \in Nat,
         answer # 0 => AnswersRequest(d, d.pending.req, answer, d.pending.last),
         EnoughFor(d, d.pending.req, fate),
         NEW k1 \in Nat, NEW ok \in SendResults, NEW k2 \in Nat
  PROVE  Settled(FlushWCheck(Resolve(d, fate, answer, k1), ok, k2))
<1> DEFINE r == Resolve(d, fate, answer, k1)
<1>1. Mid(r) /\ Settled(r)
  BY ResolveMid, ResolveSettled DEF Good, Settled
<1> HIDE DEF r
<1> QED
  BY <1>1, FlushWCheckSettled DEF r

\* No step breaks what is settled.
LEMMA NextSettled ==
  ASSUME Whole, Settled(dev), [Next]_vars
  PROVE  Settled(dev')
<1> USE CallbackSendsAreNat
<1>1. /\ dev \in Device /\ Accounted(dev) /\ GoneIsEmpty(dev) /\ Clock /\ Inv /\ Sound(dev)
      /\ max_retry \in MaxRetries /\ Logged(dev) /\ Unsent(dev)
      /\ dev.alive => Good(dev) /\ DeviceOK(dev)
  BY DeviceAssumption
  DEF Whole, Inv, TypeOK, EachOnceInOrder, DeviceOK, Clock, Good, Mid, Sound, Settled, Logged
<1>2. CASE Send
  <2>1. PICK ok \in SendResults, k \in Nat : dev' = FlushWCheck(Push(dev, 1), ok, k)
    BY <1>2 DEF Send
  <2> DEFINE p == Push(dev, 1)
  <2>2. Mid(p)
    BY <1>1, <1>2, PushMid DEF Send, Good
  <2>3. /\ p \in Device /\ Unsent(p) /\ p.done = dev.done /\ p.sent = dev.sent
        /\ p.epoch = dev.epoch /\ p.pending = dev.pending /\ p.reqid = dev.reqid
        /\ dev.reqid \in Nat
    BY <1>1, PushLog DEF Device
  <2> HIDE DEF p
  <2>4. Settled(p)
    BY <1>1, <2>3, SameLog DEF Pending
  <2> QED
    BY <1>1, <2>1, <2>2, <2>4, FlushWCheckSettled DEF p
<1>3. CASE Heartbeat
  <2>1. PICK ver \in Versions, r \in Routers :
          dev' = IF dev.alive THEN Seen(Hear(dev, r), ver, r)
                              ELSE Create(Hear(dev, r), ver, r)
    BY <1>3 DEF Heartbeat
  <2> QED
    BY <1>1, <2>1, SeenSettled, CreateSettled
<1>4. ASSUME NEW s \in DOMAIN dev.sent, ResponseOfUnknown(s) PROVE Settled(dev')
  BY <1>1, <1>4, AnswerArrivesSettled DEF ResponseOfUnknown, Arrives
<1>5. ASSUME NEW s \in DOMAIN dev.sent, LateResponse(s) PROVE Settled(dev')
  BY <1>1, <1>5, ResolvedSettled DEF LateResponse
<1>6. ASSUME NEW s \in DOMAIN dev.sent, Response504(s) PROVE Settled(dev')
  <2>1. PICK r \in Routers : /\ RequestPending(Resolved(s, r), WireId(dev.sent[s]))
                             /\ dev' = RetryAtSet(Resolved(s, r))
    BY <1>6 DEF Response504
  <2> DEFINE d == Resolved(s, r)
  <2>2. Settled(d) /\ DeviceOK(d) /\ Pending(d)
    BY <1>1, <1>6, <2>1, ResolvedSettled DEF Response504, RequestPending, Pending, Good, Mid
  <2> QED
    BY <1>1, <2>1, <2>2, RetryAtSetSettled
<1>7. ASSUME NEW s \in DOMAIN dev.sent, NEW code \in Codes, ResponseEnds(s, code)
      PROVE  Settled(dev')
  <2>1. PICK r \in Routers, ok \in SendResults, k1 \in Nat, k2 \in Nat :
          /\ RequestPending(Resolved(s, r), WireId(dev.sent[s]))
          /\ dev' = FlushWCheck(Resolve(Resolved(s, r), code, s, k1), ok, k2)
    BY <1>7 DEF ResponseEnds
  <2> DEFINE d == Resolved(s, r)
  <2>2. /\ Settled(d) /\ Good(d) /\ d.pending = dev.pending /\ s \in DOMAIN d.sent
        /\ WireId(d.sent[s]) = WireId(dev.sent[s])
    BY <1>1, <1>7, ResolvedSettled DEF ResponseEnds
  <2>3. code \in Fates \ {"IO"} /\ s \in Nat /\ code # "TIMEOUT"
    BY <1>1, Lengths DEF Fates, Codes
  <2>4. code = "504" => dev.pending.retry_count >= LinqNetwMaxRetry
    BY <1>7 DEF ResponseEnds
  <2> HIDE DEF d
  <2>5. Pending(d) /\ RequestPending(d, WireId(d.sent[s]))
    BY <2>1, <2>2 DEF RequestPending, Pending, d
  <2>6. AnswersRequest(d, d.pending.req, s, d.pending.last)
    BY <2>2, <2>5, PendingMatches
  <2>7. EnoughFor(d, d.pending.req, code)
    <3>1. Times(d, d.pending.req) = d.pending.retry_count + 1
      BY <2>2, <2>5 DEF Settled, PendingSpent
    <3>2. d.pending.retry_count \in Nat
      BY <2>2, <2>5 DEF Good, Mid, DeviceOK, Device, Pending, Request
    <3>3. code = "504" => Times(d, d.pending.req) >= LinqNetwMaxRetry + 1
      BY <2>2, <2>4, <3>1, <3>2, DeviceAssumption
    <3> QED
      BY <2>3, <3>3 DEF EnoughFor
  <2>8. Settled(FlushWCheck(Resolve(d, code, s, k1), ok, k2))
    BY <1>1, <2>2, <2>3, <2>5, <2>6, <2>7, ResolveFlushSettled
  <2> QED
    BY <2>1, <2>8 DEF d
<1>8. CASE PollRetry
  <2>1. PICK ok \in SendResults, k \in Nat : dev' = Retry(dev, ok, k)
    BY <1>8 DEF PollRetry
  <2>2. Good(dev) /\ Pending(dev) /\ dev.pending.retry_count < max_retry
    BY <1>1, <1>8 DEF PollRetry, TimerRanOut, Pending
  <2> QED
    BY <1>1, <2>1, <2>2, RetrySettled
<1>9. CASE PollTimeout
  <2>1. PICK ok \in SendResults, k1 \in Nat, k2 \in Nat :
          dev' = FlushWCheck(Resolve(dev, "TIMEOUT", 0, k1), ok, k2)
    BY <1>9 DEF PollTimeout
  <2>2. /\ "TIMEOUT" \in Fates \ {"IO"} /\ Good(dev) /\ Pending(dev)
        /\ dev.pending.retry_count >= max_retry
    BY <1>1, <1>9 DEF Fates, PollTimeout, TimerRanOut, Pending
  <2>3. EnoughFor(dev, dev.pending.req, "TIMEOUT")
    <3>1. Times(dev, dev.pending.req) = dev.pending.retry_count + 1
      BY <2>2 DEF Settled, PendingSpent
    <3>2. dev.pending.retry_count \in Nat /\ max_retry \in Nat
      BY <1>1, <2>2, DeviceAssumption DEF Device, Pending, Request
    <3>3. Times(dev, dev.pending.req) >= max_retry + 1
      BY <2>2, <3>1, <3>2
    <3> QED
      BY <1>1, <3>3 DEF EnoughFor
  <2> QED
    BY <1>1, <2>1, <2>2, <2>3, ResolveFlushSettled
<1>10. CASE Remove
  BY <1>1, <1>10, DestroySettled DEF Remove
<1>11. CASE dev' = dev
  BY <1>11
<1> QED
  BY <1>2, <1>3, <1>4, <1>5, <1>6, <1>7, <1>8, <1>9, <1>10, <1>11
  DEF Next, Respond, Configure, Tick, vars

\* Before the device is first heard of, nothing has been sent.
LEMMA InitSettled ==
  ASSUME Init
  PROVE  Settled(dev)
<1>1. /\ dev.pending = NoRequest /\ dev.requests = <<>> /\ dev.done = <<>> /\ dev.sent = <<>>
      /\ max_retry \in Nat /\ max_retry \in MaxRetries
  BY DeviceAssumption DEF Init
<1>2. \A r : Times(dev, r) = 0
  <2>1. \A r : SentFor(dev, r) = {}
    BY <1>1 DEF SentFor
  <2> QED
    BY <2>1, FS_EmptySet DEF Times
<1>3. Spent(dev)
  BY <1>1, <1>2 DEF Spent
<1> QED
  BY <1>1, <1>3
  DEF Settled, Logged, Numbered, AllMatch, Unsent, LatestNumber, PendingSpent, Pending

\* Whole and Settled hold in every reachable state.
THEOREM SettledIsInvariant == Spec => [](Whole /\ Settled(dev))
<1>1. Init => Whole /\ Settled(dev)
  BY InitWhole, InitSettled
<1>2. Whole /\ Settled(dev) /\ [Next]_vars => (Whole /\ Settled(dev))'
  BY WholeStep, NextSettled
<1> QED
  BY <1>1, <1>2, PTL DEF Spec

---------------------------------------------------------------------------
(* Theorems *)

\* A versioned response that ends a request answers the latest transmission of that request,
\* unless the device was created again or the ids have gone round: whatever is lost, late or
\* repeated, no response reaches another request (zmtp_device_request_pending in
\* process_response).
THEOREM AnswersReachTheirRequest == Spec => []AnswersLatest
<1>1. ASSUME Whole, Settled(dev) PROVE AnswersLatest
  <2>1. SUFFICES ASSUME NEW i \in DOMAIN dev.done, dev.done[i].answer # 0
                 PROVE  LET a == dev.sent[dev.done[i].answer]
                            b == dev.sent[dev.done[i].last]
                        IN  /\ b.req = dev.done[i].req
                            /\ \/ a.ver = 0 \/ b.ver = 0
                               \/ a.epoch # b.epoch
                               \/ a.n >= IdMod \div 2 \/ b.n >= IdMod \div 2
                               \/ dev.done[i].answer = dev.done[i].last
    BY DEF AnswersLatest
  <2>2. AnswersRequest(dev, i, dev.done[i].answer, dev.done[i].last)
    BY <1>1, <2>1 DEF Settled, Logged, AllMatch
  <2>3. dev.done[i].req = i
    BY <1>1 DEF Whole, Inv, EachOnceInOrder, Accounted
  <2> QED
    BY <2>2, <2>3 DEF AnswersRequest, Matches
<1> QED
  BY SettledIsInvariant, <1>1, PTL

\* A request is transmitted once and once more for each retry, within the most retries that
\* were ever allowed, and is given up only after the retries that its ending asks for
\* (zmtp_device_poll, zmtp_device_request_retry, process_response).
THEOREM RetriesWithinBudget == Spec => []RetryBudget
<1>1. ASSUME Whole, Settled(dev) PROVE RetryBudget
  <2>1. \A r : Cardinality(Transmissions(r)) = Times(dev, r)
    BY DEF Transmissions, Times, SentFor
  <2>2. \A i \in DOMAIN dev.done :
          /\ dev.done[i].fate = "TIMEOUT" => \E m \in MaxRetries : Times(dev, i) >= m + 1
          /\ dev.done[i].fate = "504" => Times(dev, i) >= LinqNetwMaxRetry + 1
    BY <1>1 DEF Settled, Logged, Spent, EnoughFor
  <2> QED
    BY <1>1, <2>1, <2>2 DEF Settled, Logged, Spent, PendingSpent, RetryBudget
<1> QED
  BY SettledIsInvariant, <1>1, PTL
---------------------------------------------------------------------------
(* Timers *)

\* The 32-bit clock does not go round before a timer that is set now runs out.
ClockFits == \A u \in RetryTimeouts : now + u < TickMod

\* No timeout that may be set is shorter.
Shortest(T) == \A u \in RetryTimeouts : T <= u

\* The timer of a request says when it is due; and up to time t it has been waited for as
\* often as the request was sent again, with one more time to wait.
Timed(r, t) ==
  /\ r.retry_at = r.due
  /\ \A T \in Nat : Shortest(T) =>
       /\ r.since + r.retry_count * T <= t
       /\ r.since + (r.retry_count + 1) * T <= r.due

AllTimed(d, t) ==
  /\ Pending(d) => Timed(d.pending, t)
  /\ \A i \in DOMAIN d.requests : Timed(d.requests[i], t)

\* The clock as the functions of the device read it, before it goes round
TrueClock == Clock /\ ClockFits /\ retry_timeout \in RetryTimeouts

\* sys_tick() is then the true time.
LEMMA TrueTick ==
  ASSUME TrueClock
  PROVE  SysTick(now) = now /\ SysTick(now + retry_timeout) = now + retry_timeout
<1>1. now \in Nat /\ retry_timeout \in Nat /\ now + retry_timeout < TickMod /\ TickMod \in Nat \ {0}
  BY DeviceAssumption DEF TrueClock, Clock, ClockFits
<1>2. \A n \in Nat : n < TickMod => (n % TickMod) = n
  BY <1>1
<1> QED
  BY <1>1, <1>2 DEF SysTick

\* A timer that starts now, of a request that waited for the earlier ones
LEMMA TimerStarts ==
  ASSUME TrueClock, NEW r, NEW since \in Nat, NEW count \in Nat,
         \A T \in Nat : Shortest(T) => since + count * T <= now,
         r.since = since, r.retry_count = count,
         r.retry_at = SysTick(now + retry_timeout), r.due = now + retry_timeout
  PROVE  Timed(r, now)
<1>1. now \in Nat /\ retry_timeout \in Nat /\ retry_timeout \in RetryTimeouts
  BY DEF TrueClock, Clock
<1>2. ASSUME NEW T \in Nat, Shortest(T)
      PROVE  since + (count + 1) * T <= now + retry_timeout
  <2>1. T <= retry_timeout /\ since + count * T <= now
    BY <1>1, <1>2 DEF Shortest
  <2>2. (count + 1) * T = count * T + T /\ count * T \in Nat
    OBVIOUS
  <2> DEFINE w == count * T
  <2> HIDE DEF w
  <2>3. since + (w + T) <= now + retry_timeout
    BY <1>1, <2>1, <2>2 DEF w
  <2> QED
    BY <2>2, <2>3 DEF w
<1> QED
  BY <1>2, TrueTick DEF Timed

\* A request that is due has waited once more.
LEMMA Waited ==
  ASSUME TrueClock, NEW r \in Request, Timed(r, now), now >= r.due
  PROVE  \A T \in Nat : Shortest(T) => r.since + (r.retry_count + 1) * T <= now
<1> TAKE T \in Nat
<1> HAVE Shortest(T)
<1>1. r.since + (r.retry_count + 1) * T <= r.due
  BY DEF Timed
<1>2. r.since + (r.retry_count + 1) * T \in Nat /\ r.due \in Nat /\ now \in Nat
  BY DEF Request, TrueClock, Clock
<1> QED
  BY <1>1, <1>2

\* Timed reads the requests and the pending one only.
LEMMA SameTimers ==
  ASSUME NEW d, NEW e, NEW t, AllTimed(d, t), e.pending = d.pending, e.requests = d.requests
  PROVE  AllTimed(e, t)
BY DEF AllTimed, Pending

\* Time passes.
LEMMA TimePasses ==
  ASSUME NEW d \in Device, NEW t \in Nat, AllTimed(d, t)
  PROVE  AllTimed(d, t + 1)
<1>1. ASSUME NEW r \in Request, Timed(r, t) PROVE Timed(r, t + 1)
  <2>1. ASSUME NEW T \in Nat, Shortest(T) PROVE r.since + r.retry_count * T <= t + 1
    <3>1. r.since + r.retry_count * T <= t
      BY <1>1, <2>1 DEF Timed
    <3>2. r.since + r.retry_count * T \in Nat
      BY DEF Request
    <3> QED
      BY <3>1, <3>2
  <2> QED
    BY <1>1, <2>1 DEF Timed
<1>2. Pending(d) => d.pending \in Request
  BY DEF Device, Pending
<1>3. \A i \in DOMAIN d.requests : d.requests[i] \in Request
  BY Lengths, ElementOfSeq
<1> QED
  BY <1>1, <1>2, <1>3 DEF AllTimed

\* request_alloc_mem sets the timer of a request that is accepted.
LEMMA PushTimed ==
  ASSUME TrueClock, NEW d \in Device, AllTimed(d, now), NEW k \in Nat
  PROVE  AllTimed(Push(d, k), now)
<1> DEFINE new == [i \in 1..k |->
        [req |-> d.accepted + i, rid |-> None,
         retry_at |-> SysTick(now + retry_timeout), retry_count |-> 0, due |-> now + retry_timeout, since |-> now, last |-> 0]]
           e == Push(d, k)
<1>0. Clock /\ now \in Nat
  BY DEF TrueClock, Clock
<1>1. e.pending = d.pending
  BY <1>0, PushPreserves
<1>2. e.requests = d.requests \o new
  BY DEF Push, Device
<1>3. \A i \in 1..k : new[i] \in Request /\ Timed(new[i], now)
  <2> TAKE i \in 1..k
  <2>1. d.accepted \in Nat
    BY DEF Device
  <2>2. new[i] \in Request
    BY <1>0, <2>1, SysTickIsNat DEF Request, Clock
  <2> DEFINE r == new[i]
  <2>3. /\ r.since = now /\ r.retry_count = 0
        /\ r.retry_at = SysTick(now + retry_timeout) /\ r.due = now + retry_timeout
    OBVIOUS
  <2> HIDE DEF new, r
  <2>4. \A T \in Nat : now + 0 * T <= now
    BY <1>0
  <2>5. Timed(r, now)
    BY <1>0, <2>3, <2>4, TimerStarts
  <2> QED
    BY <2>2, <2>5 DEF r
<1>4. new \in Seq(Request) /\ Len(new) = k
  <2>1. new \in [1..k -> Request]
    BY <1>3
  <2> QED
    BY <2>1, FunctionIsSeq
<1> HIDE DEF new, e
<1> DEFINE n == Len(d.requests)
<1>5. /\ n \in Nat /\ DOMAIN d.requests = 1..n /\ DOMAIN e.requests = 1..n + k
      /\ \A i \in 1..n + k : e.requests[i] = IF i <= n THEN d.requests[i] ELSE new[i - n]
  <2>1. d.requests \in Seq(Request) /\ DOMAIN d.requests = 1..n /\ n \in Nat
    BY Lengths
  <2>2. /\ d.requests \o new \in Seq(Request) /\ Len(d.requests \o new) = n + k
        /\ \A i \in 1..n + k : (d.requests \o new)[i] = IF i <= n THEN d.requests[i] ELSE new[i - n]
    BY <1>4, <2>1, ConcatProperties
  <2> QED
    BY <1>2, <2>1, <2>2, LenProperties
<1> HIDE DEF n
<1>6. ASSUME NEW i \in 1..n + k PROVE Timed(e.requests[i], now)
  <2>1. CASE i <= n
    <3>1. i \in DOMAIN d.requests /\ e.requests[i] = d.requests[i]
      BY <1>5, <2>1
    <3> QED
      BY <3>1 DEF AllTimed
  <2>2. CASE i > n
    <3>1. i - n \in 1..k /\ e.requests[i] = new[i - n]
      BY <1>5, <2>2
    <3> QED
      BY <1>3, <3>1
  <2> QED
    BY <1>5, <2>1, <2>2
<1>7. Pending(e) => Timed(e.pending, now)
  BY <1>1 DEF AllTimed, Pending
<1> QED
  BY <1>5, <1>6, <1>7 DEF AllTimed, e

\* exe_on_complete and request_destroy.
LEMMA ResolveTimed ==
  ASSUME TrueClock, NEW d, DeviceOK(d), AllTimed(d, now), NEW fate, NEW answer, NEW k \in Nat
  PROVE  AllTimed(Resolve(d, fate, answer, k), now)
<1> DEFINE p == Push(d, k)
           x == [req |-> d.pending.req, fate |-> fate, answer |-> answer, last |-> d.pending.last]
           e == Resolve(d, fate, answer, k)
<1>1. p \in Device /\ AllTimed(p, now)
  BY PushPreserves, PushTimed DEF DeviceOK, TrueClock
<1>2. e = [p EXCEPT !.done = Append(@, x), !.pending = NoRequest]
  BY Zenon DEF Resolve
<1> HIDE DEF p, x
<1>3. e.requests = p.requests /\ e.pending = NoRequest
  BY <1>1, <1>2 DEF Device
<1> QED
  BY <1>1, <1>3 DEF AllTimed, Pending

\* What Transmit does to the history: it sends the pending request or ends it with LINQ_ERROR_IO.
Tries(d, e) ==
  /\ Len(e.sent) > Len(d.sent) => e.sent[Len(e.sent)].req = d.pending.req
  /\ Len(e.done) > Len(d.done) => e.done[Len(d.done) + 1].fate = "IO"

\* Sending sets no timer.
LEMMA TransmitTimed ==
  ASSUME TrueClock, NEW d, DeviceOK(d), Pending(d), AllTimed(d, now), NEW ok \in BOOLEAN, NEW k \in Nat
  PROVE  AllTimed(Transmit(d, ok, k), now) /\ Tries(d, Transmit(d, ok, k))
<1> DEFINE t == RouterIdSet(TakeId(d))
           e == Transmit(d, ok, k)
           s == [req |-> d.pending.req, ver |-> IF d.legacy THEN 0 ELSE 1,
                 n |-> d.reqid, router |-> t.pending.rid, epoch |-> d.epoch, left |-> MaxAnswers]
<1>0. Clock
  BY DEF TrueClock
<1>1. d \in Device /\ d.pending \in Request
  BY DEF DeviceOK, Device, Pending
<1>2. /\ DeviceOK(t) /\ t \in Device /\ Pending(t) /\ t.pending \in Request
      /\ t.pending.retry_at = d.pending.retry_at
      /\ t.pending.retry_count = d.pending.retry_count
      /\ t.pending.due = d.pending.due /\ t.pending.since = d.pending.since
      /\ t.sent = d.sent /\ t.done = d.done /\ t.requests = d.requests
  BY <1>1, FramesSet
<1>3. /\ Len(d.sent) \in Nat /\ Len(d.done) \in Nat
      /\ d.sent \in Seq(Transmission) /\ d.done \in Seq(Ending)
  BY <1>1, Lengths
<1>4. CASE ok
  <2>1. e = [t EXCEPT !.sent = Append(d.sent, s), !.pending.last = Len(d.sent) + 1]
    BY <1>2, <1>4, Zenon DEF Transmit
  <2>2. s.req = d.pending.req
    OBVIOUS
  <2> HIDE DEF s, t
  <2> DEFINE q == [t.pending EXCEPT !.last = Len(d.sent) + 1]
  <2>3. /\ e.sent = Append(d.sent, s) /\ e.pending = q /\ e.done = d.done
        /\ e.requests = d.requests
    BY <1>2, <2>1 DEF Device
  <2>4. /\ q.retry_at = d.pending.retry_at /\ q.retry_count = d.pending.retry_count
        /\ q.due = d.pending.due /\ q.since = d.pending.since
    BY <1>1, <1>2 DEF Request
  <2> HIDE DEF e, q
  <2>5. AllTimed(e, now)
    BY <2>3, <2>4 DEF AllTimed, Timed
  <2>6. e.sent[Len(e.sent)] = s
    BY <1>3, <2>3
  <2>7. Tries(d, e)
    BY <1>3, <2>2, <2>3, <2>6 DEF Tries
  <2> QED
    BY <2>5, <2>7 DEF e
<1>5. CASE ~ok
  <2> DEFINE p == Push(t, k)
             x == [req |-> t.pending.req, fate |-> "IO", answer |-> 0, last |-> t.pending.last]
  <2>1. e = Resolve(t, "IO", 0, k)
    BY <1>5, Zenon DEF Transmit
  <2> HIDE DEF t
  <2>2. AllTimed(t, now)
    BY <1>2 DEF AllTimed, Timed
  <2>3. AllTimed(Resolve(t, "IO", 0, k), now)
    BY <1>2, <2>2, ResolveTimed
  <2>4. p \in Device /\ p.done = d.done /\ p.sent = d.sent
    BY <1>0, <1>2, PushPreserves, PushHistory
  <2>5. e = [p EXCEPT !.done = Append(@, x), !.pending = NoRequest]
    BY <2>1, Zenon DEF Resolve
  <2>6. x.fate = "IO"
    OBVIOUS
  <2> HIDE DEF p, x
  <2>7. e.sent = d.sent /\ e.done = Append(d.done, x)
    BY <2>4, <2>5 DEF Device
  <2> HIDE DEF e
  <2>8. Append(d.done, x)[Len(d.done) + 1] = x
    BY <1>3
  <2>9. Tries(d, e)
    BY <1>3, <2>6, <2>7, <2>8 DEF Tries
  <2> QED
    BY <2>1, <2>3, <2>9 DEF e
<1> QED
  BY <1>4, <1>5

\* The next request of the queue keeps its timer.
LEMMA FlushWCheckTimed ==
  ASSUME TrueClock, NEW d, DeviceOK(d), AllTimed(d, now), NEW ok \in BOOLEAN, NEW k \in Nat
  PROVE  LET e == FlushWCheck(d, ok, k)
         IN  /\ AllTimed(e, now)
             /\ Len(e.sent) > Len(d.sent) =>
                  ~Pending(d) /\ e.sent[Len(e.sent)].req = Len(d.done) + 1
             /\ Len(e.done) > Len(d.done) => ~Pending(d) /\ e.done[Len(d.done) + 1].fate = "IO"
<1> DEFINE h == Head(d.requests)
           t == Tail(d.requests)
           e == [d EXCEPT !.pending = h, !.requests = t]
<1>1. d \in Device /\ Len(d.sent) \in Nat /\ Len(d.done) \in Nat
  BY Lengths DEF DeviceOK
<1>2. CASE d.requests # <<>> /\ d.pending = NoRequest
  <2>1. DeviceOK(e) /\ Pending(e) /\ ~Pending(d)
    BY <1>2, TakeHeadPreserves DEF Pending
  <2>2. FlushWCheck(d, ok, k) = Transmit(e, ok, k)
    BY <1>2, Zenon DEF FlushWCheck, Flush
  <2>3. /\ h = d.requests[1] /\ 1 \in DOMAIN d.requests
        /\ DOMAIN t = 1..Len(t) /\ Len(t) \in Nat
        /\ \A i \in 1..Len(t) : i + 1 \in DOMAIN d.requests /\ t[i] = d.requests[i + 1]
    <3>1. d.requests \in Seq(Request) /\ DOMAIN d.requests = 1..Len(d.requests)
      BY <1>1, Lengths
    <3> QED
      BY <1>2, <3>1
  <2> HIDE DEF h, t
  <2>4. e.done = d.done /\ e.sent = d.sent /\ e.pending = h /\ e.requests = t /\ e \in Device
    BY <1>1, <2>1 DEF DeviceOK, Device
  <2> HIDE DEF e
  <2>5. AllTimed(e, now)
    BY <2>3, <2>4 DEF AllTimed
  <2>6. e.pending.req = Len(d.done) + 1
    BY <2>1, <2>4 DEF DeviceOK, Accounted
  <2>7. AllTimed(Transmit(e, ok, k), now) /\ Tries(e, Transmit(e, ok, k))
    BY <2>1, <2>5, TransmitTimed
  <2> QED
    BY <2>1, <2>2, <2>4, <2>6, <2>7 DEF Tries
<1>3. CASE ~(d.requests # <<>> /\ d.pending = NoRequest)
  <2>1. FlushWCheck(d, ok, k) = d
    BY <1>3 DEF FlushWCheck
  <2> QED
    BY <1>1, <2>1
<1> QED
  BY <1>2, <1>3

\* zmtp_device_request_retry_at_set starts the timer again, which has been waited for as often
\* as before.
LEMMA RetryAtSetTimed ==
  ASSUME TrueClock, NEW d, DeviceOK(d), Pending(d), AllTimed(d, now)
  PROVE  AllTimed(RetryAtSet(d), now)
<1> DEFINE q == [d.pending EXCEPT !.retry_at = SysTick(now + retry_timeout), !.due = now + retry_timeout]
           e == RetryAtSet(d)
<1>1. d \in Device /\ d.pending \in Request /\ Timed(d.pending, now)
  BY DEF DeviceOK, Device, Pending, AllTimed
<1>2. e.pending = q /\ e.requests = d.requests
  BY <1>1 DEF RetryAtSet, Device
<1>3. /\ q.retry_at = SysTick(now + retry_timeout) /\ q.due = now + retry_timeout
      /\ q.since = d.pending.since /\ q.retry_count = d.pending.retry_count
      /\ d.pending.since \in Nat /\ d.pending.retry_count \in Nat
  BY <1>1 DEF Request
<1> HIDE DEF q, e
<1>4. \A T \in Nat : Shortest(T) => d.pending.since + d.pending.retry_count * T <= now
  BY <1>1 DEF Timed
<1>5. Timed(q, now)
  BY <1>3, <1>4, TimerStarts
<1> QED
  BY <1>2, <1>5 DEF AllTimed, e

\* zmtp_device_request_retry of a request that is due
LEMMA RetryTimed ==
  ASSUME TrueClock, NEW d, DeviceOK(d), Pending(d), AllTimed(d, now), now >= d.pending.due,
         NEW ok \in BOOLEAN, NEW k \in Nat
  PROVE  LET e == Retry(d, ok, k)
         IN  /\ AllTimed(e, now)
             /\ Len(e.done) > Len(d.done) => e.done[Len(d.done) + 1].fate = "IO"
<1> DEFINE r == RetryAtSet(d)
           q == [r.pending EXCEPT !.retry_count = @ + 1]
           e == [r EXCEPT !.pending.retry_count = @ + 1]
<1>1. /\ DeviceOK(r) /\ Pending(r) /\ r \in Device /\ r.alive /\ Accounted(r)
      /\ r.pending \in Request /\ AllTimed(r, now)
  BY RetryAtSetPreserves, RetryAtSetTimed DEF TrueClock, DeviceOK, Device, Pending
<1>2. d \in Device /\ d.pending \in Request /\ Timed(d.pending, now)
  BY DEF DeviceOK, Device, Pending, AllTimed
<1>3. /\ r.pending.retry_at = SysTick(now + retry_timeout) /\ r.pending.due = now + retry_timeout
      /\ r.pending.since = d.pending.since /\ r.pending.retry_count = d.pending.retry_count
      /\ r.done = d.done
  BY <1>2 DEF RetryAtSet, Device, Request
<1>4. Retry(d, ok, k) = Transmit(e, ok, k)
  BY Zenon DEF Retry
<1> HIDE DEF r
<1>5. /\ q \in Request /\ q.req = r.pending.req /\ q # NoRequest
      /\ q.retry_at = SysTick(now + retry_timeout) /\ q.due = now + retry_timeout
      /\ q.since = d.pending.since /\ q.retry_count = d.pending.retry_count + 1
      /\ d.pending.since \in Nat /\ d.pending.retry_count \in Nat
  BY <1>1, <1>2, <1>3 DEF Request, NoRequest
<1>6. e = [r EXCEPT !.pending = q]
  BY <1>1 DEF Device
<1> HIDE DEF q
<1>7. e \in Device
  BY <1>1, <1>5, <1>6 DEF Device
<1>8. /\ e.done = r.done /\ e.requests = r.requests /\ e.accepted = r.accepted
      /\ e.pending = q /\ e.alive
  BY <1>1, <1>6 DEF Device
<1> HIDE DEF e
<1>9. Pending(e) /\ DeviceOK(e)
  BY <1>1, <1>5, <1>7, <1>8, SameQueue DEF Pending, DeviceOK
<1>10. \A T \in Nat : Shortest(T) => d.pending.since + (d.pending.retry_count + 1) * T <= now
  BY <1>2, Waited
<1>11. Timed(q, now)
  <2> DEFINE n == d.pending.retry_count + 1
  <2>1. n \in Nat /\ q.retry_count = n
    BY <1>5
  <2>2. \A T \in Nat : Shortest(T) => d.pending.since + n * T <= now
    BY <1>10
  <2> HIDE DEF n
  <2> QED
    BY <1>5, <2>1, <2>2, TimerStarts
<1>12. AllTimed(e, now)
  BY <1>1, <1>8, <1>11 DEF AllTimed
<1>13. AllTimed(Transmit(e, ok, k), now) /\ Tries(e, Transmit(e, ok, k))
  BY <1>9, <1>12, TransmitTimed
<1> QED
  BY <1>3, <1>4, <1>8, <1>13 DEF Tries

---------------------------------------------------------------------------
(* The steps, and the time at which they happen *)

\* What PatientRetries says of a step
Patient ==
  /\ Retries \/ TimesOut => now >= dev.pending.due
  /\ TimesOut /\ RetryTimeouts = {retry_timeout} =>
       now >= dev.pending.since + (max_retry + 1) * retry_timeout

\* A step that ends nothing first by a timeout, and does not send the pending request, is patient.
LEMMA NotTooEarly ==
  ASSUME NEW r, Len(dev'.sent) > Len(dev.sent) => dev'.sent[Len(dev'.sent)].req = r,
         r # dev.pending.req,
         Len(dev'.done) > Len(dev.done) => dev'.done[Len(dev.done) + 1].fate # "TIMEOUT"
  PROVE  Patient
BY DEF Patient, Retries, TimesOut

\* A poll that finds the timer run out finds it due.
LEMMA RanOut ==
  ASSUME TrueClock, TimerRanOut, AllTimed(dev, now)
  PROVE  Pending(dev) /\ Timed(dev.pending, now) /\ now >= dev.pending.due
<1>1. Pending(dev) /\ Timed(dev.pending, now)
  BY DEF TimerRanOut, AllTimed, Pending
<1>2. SysTick(now) = now
  BY TrueTick
<1> QED
  BY <1>1, <1>2 DEF TimerRanOut, Timed

\* A request that is given up has waited for all its timers.
LEMMA TimeoutPatient ==
  ASSUME TrueClock, max_retry \in Nat, dev.pending \in Request, Timed(dev.pending, now),
         now >= dev.pending.due, dev.pending.retry_count >= max_retry
  PROVE  RetryTimeouts = {retry_timeout} =>
           now >= dev.pending.since + (max_retry + 1) * retry_timeout
<1> HAVE RetryTimeouts = {retry_timeout}
<1> DEFINE T == retry_timeout
           c == dev.pending.retry_count
           s == dev.pending.since
<1>1. T \in Nat /\ c \in Nat /\ s \in Nat /\ now \in Nat /\ c >= max_retry
  BY DEF TrueClock, Clock, Request
<1>2. Shortest(T)
  BY <1>1 DEF Shortest
<1>3. s + (c + 1) * T <= now
  BY <1>1, <1>2, Waited
<1> HIDE DEF T, c, s
<1>4. (max_retry + 1) * T <= (c + 1) * T
  <2>1. PICK k \in Nat : c = max_retry + k
    <3>1. c - max_retry \in Nat /\ c = max_retry + (c - max_retry)
      BY <1>1
    <3> QED
      BY <3>1
  <2>2. (c + 1) * T = (max_retry + 1) * T + k * T
    BY <1>1, <2>1
  <2>3. k * T \in Nat /\ (max_retry + 1) * T \in Nat
    BY <1>1
  <2> QED
    BY <2>2, <2>3
<1>5. (max_retry + 1) * T \in Nat /\ (c + 1) * T \in Nat
  BY <1>1
<1>6. s + (max_retry + 1) * T <= now
  BY <1>1, <1>3, <1>4, <1>5
<1> QED
  BY <1>6 DEF T, s

\* Before the clock goes round every step is patient, and the timers are right after it.
LEMMA NextTimed ==
  ASSUME Whole, AllTimed(dev, now), ClockFits, [Next]_vars
  PROVE  Patient /\ AllTimed(dev', now')
<1> USE CallbackSendsAreNat, DeviceAssumption
<1>1. /\ dev \in Device /\ Accounted(dev) /\ Clock /\ TrueClock /\ Inv /\ Sound(dev)
      /\ max_retry \in Nat /\ Len(dev.sent) \in Nat /\ Len(dev.done) \in Nat
      /\ dev.alive => DeviceOK(dev) /\ Good(dev)
      /\ Pending(dev) => dev.pending \in Request /\ dev.pending.req = Len(dev.done) + 1
      /\ ~Pending(dev) => dev.pending.req = 0
  BY Lengths
  DEF Whole, Inv, TypeOK, EachOnceInOrder, DeviceOK, Clock, TrueClock, Good, Mid, Sound, Device,
      Pending, Accounted, NoRequest
<1>2. ASSUME Step PROVE now' = now
  BY <1>2 DEF Step
<1>3. CASE Send
  <2>1. PICK ok \in BOOLEAN, k \in Nat : dev' = FlushWCheck(Push(dev, 1), ok, k)
    BY <1>3 DEF Send
  <2> DEFINE p == Push(dev, 1)
  <2>2. DeviceOK(p) /\ p.pending = dev.pending /\ AllTimed(p, now)
    BY <1>1, <1>3, PushPreserves, PushTimed DEF Send, DeviceOK
  <2>3. p.done = dev.done /\ p.sent = dev.sent
    BY <1>1, PushHistory
  <2> HIDE DEF p
  <2>4. /\ AllTimed(dev', now)
        /\ Len(dev'.sent) > Len(p.sent) =>
             ~Pending(p) /\ dev'.sent[Len(dev'.sent)].req = Len(p.done) + 1
        /\ Len(dev'.done) > Len(p.done) => dev'.done[Len(p.done) + 1].fate = "IO"
    BY <1>1, <2>1, <2>2, FlushWCheckTimed DEF p
  <2>5. Patient
    BY <1>1, <2>2, <2>3, <2>4 DEF Patient, Retries, TimesOut, Pending
  <2> QED
    BY <1>2, <1>3, <2>4, <2>5 DEF Send
<1>4. CASE Heartbeat
  <2>1. PICK ver \in Versions, r \in Routers :
          dev' = IF dev.alive THEN Seen(Hear(dev, r), ver, r)
                              ELSE Create(Hear(dev, r), ver, r)
    BY <1>4 DEF Heartbeat
  <2>2. /\ dev'.done = dev.done /\ dev'.sent = dev.sent
        /\ \/ dev'.pending = dev.pending /\ dev'.requests = dev.requests
           \/ dev'.pending = NoRequest /\ dev'.requests = <<>>
    BY <1>1, <2>1 DEF Seen, Hear, Create, Device
  <2>3. AllTimed(dev', now)
    BY <2>2, SameTimers DEF AllTimed, Pending
  <2>4. Patient
    BY <1>1, <2>2 DEF Patient, Retries, TimesOut
  <2> QED
    BY <1>2, <1>4, <2>3, <2>4 DEF Heartbeat
<1>5. ASSUME NEW s \in DOMAIN dev.sent, ResponseOfUnknown(s) PROVE Patient /\ AllTimed(dev', now')
  <2> DEFINE new == [dev.sent EXCEPT ![s].left = @ - 1]
  <2>1. dev' = [dev EXCEPT !.sent = new]
    BY <1>1, <1>5 DEF ResponseOfUnknown, Device
  <2>2. Len(new) = Len(dev.sent)
    BY <1>1, Lengths
  <2> HIDE DEF new
  <2>3. /\ dev'.sent = new /\ dev'.done = dev.done
        /\ dev'.pending = dev.pending /\ dev'.requests = dev.requests
    BY <1>1, <2>1 DEF Device
  <2>4. Patient
    BY <1>1, <2>2, <2>3 DEF Patient, Retries, TimesOut
  <2>5. AllTimed(dev', now)
    BY <2>3, SameTimers
  <2> QED
    BY <1>2, <1>5, <2>4, <2>5 DEF ResponseOfUnknown
<1>6. ASSUME NEW s, Arrives(s), dev.alive, NEW r \in Routers
      PROVE  LET d == Resolved(s, r)
             IN  /\ DeviceOK(d) /\ Good(d) /\ AllTimed(d, now) /\ d.pending = dev.pending
                 /\ d.done = dev.done /\ Len(d.sent) = Len(dev.sent)
  <2> DEFINE d == Resolved(s, r)
  <2>1. DeviceOK(d) /\ Good(d) /\ d.pending = dev.pending
    BY <1>1, <1>6, ResolvedPreserves, ResolvedGood
  <2>2. d.done = dev.done /\ d.requests = dev.requests
    BY <1>1 DEF Resolved, Seen, Hear, Device
  <2>3. Len(d.sent) = Len(dev.sent)
    BY <1>1, <1>6, ResolvedRoute
  <2> QED
    BY <2>1, <2>2, <2>3, SameTimers
<1>7. ASSUME NEW s \in DOMAIN dev.sent, LateResponse(s) PROVE Patient /\ AllTimed(dev', now')
  <2>1. AllTimed(dev', now) /\ dev'.done = dev.done /\ Len(dev'.sent) = Len(dev.sent)
    BY <1>6, <1>7 DEF LateResponse
  <2>2. Patient
    BY <1>1, <2>1 DEF Patient, Retries, TimesOut
  <2> QED
    BY <1>2, <1>7, <2>1, <2>2 DEF LateResponse
<1>8. ASSUME NEW s \in DOMAIN dev.sent, Response504(s) PROVE Patient /\ AllTimed(dev', now')
  <2>1. PICK r \in Routers : /\ RequestPending(Resolved(s, r), WireId(dev.sent[s]))
                             /\ dev' = RetryAtSet(Resolved(s, r))
    BY <1>8 DEF Response504
  <2> DEFINE d == Resolved(s, r)
  <2>2. /\ DeviceOK(d) /\ AllTimed(d, now) /\ d.done = dev.done /\ Len(d.sent) = Len(dev.sent)
    BY <1>6, <1>8 DEF Response504
  <2>3. Pending(d)
    BY <2>1 DEF RequestPending, Pending
  <2> HIDE DEF d
  <2>4. AllTimed(dev', now)
    BY <1>1, <2>1, <2>2, <2>3, RetryAtSetTimed DEF d
  <2>5. dev'.done = d.done /\ dev'.sent = d.sent
    BY <2>1, <2>2 DEF d, RetryAtSet, DeviceOK, Device
  <2>6. Patient
    BY <1>1, <2>2, <2>5 DEF Patient, Retries, TimesOut
  <2> QED
    BY <1>2, <1>8, <2>4, <2>6 DEF Response504
<1>9. ASSUME NEW s \in DOMAIN dev.sent, NEW code \in Codes, ResponseEnds(s, code)
      PROVE  Patient /\ AllTimed(dev', now')
  <2>1. PICK r \in Routers, ok \in SendResults, k1 \in Nat, k2 \in Nat :
          /\ RequestPending(Resolved(s, r), WireId(dev.sent[s]))
          /\ dev' = FlushWCheck(Resolve(Resolved(s, r), code, s, k1), ok, k2)
    BY <1>9 DEF ResponseEnds
  <2> DEFINE d == Resolved(s, r)
             e == Resolve(d, code, s, k1)
  <2>2. /\ DeviceOK(d) /\ Good(d) /\ AllTimed(d, now) /\ d.pending = dev.pending
        /\ d.done = dev.done /\ Len(d.sent) = Len(dev.sent)
    BY <1>6, <1>9 DEF ResponseEnds
  <2>3. Pending(d) /\ Pending(dev)
    BY <2>1, <2>2 DEF RequestPending, Pending
  <2>4. code \in Fates /\ s \in Nat /\ code # "IO" /\ code # "TIMEOUT" /\ ok \in BOOLEAN
    BY <1>1, Lengths DEF Fates, Codes
  <2>5. dev' = FlushWCheck(e, ok, k2)
    BY <2>1
  <2> HIDE DEF d
  <2>6. /\ Mid(e) /\ DeviceOK(e) /\ ~Pending(e) /\ AllTimed(e, now)
    BY <1>1, <2>2, <2>3, <2>4, ResolveMid, ResolveTimed DEF Good, Mid
  <2>7. /\ Len(e.sent) = Len(dev.sent) /\ Len(e.done) = Len(dev.done) + 1
        /\ e.done[Len(dev.done) + 1].fate = code
    <3> DEFINE p == Push(d, k1)
               x == [req |-> d.pending.req, fate |-> code, answer |-> s, last |-> d.pending.last]
    <3>1. p \in Device /\ p.done = dev.done /\ p.sent = d.sent
      BY <1>1, <2>2, PushPreserves, PushHistory DEF DeviceOK
    <3>2. e = [p EXCEPT !.done = Append(@, x), !.pending = NoRequest]
      BY Zenon DEF Resolve
    <3>3. x.fate = code
      OBVIOUS
    <3> HIDE DEF p, x
    <3>4. e.sent = d.sent /\ e.done = Append(dev.done, x)
      BY <3>1, <3>2 DEF Device
    <3>5. dev.done \in Seq(Ending)
      BY <1>1, Lengths
    <3> HIDE DEF e
    <3> QED
      BY <2>2, <3>3, <3>4, <3>5
  <2> HIDE DEF e
  <2>8. /\ AllTimed(dev', now)
        /\ Len(dev'.sent) > Len(e.sent) => dev'.sent[Len(dev'.sent)].req = Len(e.done) + 1
    BY <1>1, <2>4, <2>5, <2>6, FlushWCheckTimed
  <2>9. Extends(e, dev')
    BY <1>1, <2>5, <2>6, FlushWCheckGood DEF LastIsPending
  <2>10. dev'.done[Len(dev.done) + 1].fate # "TIMEOUT"
    BY <1>1, <2>4, <2>7, <2>9 DEF Extends
  <2>11. Len(e.done) + 1 # dev.pending.req
    BY <1>1, <2>3, <2>7
  <2>12. Patient
    BY <2>7, <2>8, <2>10, <2>11, NotTooEarly
  <2> QED
    BY <1>2, <1>9, <2>8, <2>12 DEF ResponseEnds
<1>10. CASE PollRetry
  <2>1. PICK ok \in BOOLEAN, k \in Nat : dev' = Retry(dev, ok, k)
    BY <1>10 DEF PollRetry
  <2>2. /\ DeviceOK(dev) /\ Pending(dev) /\ Timed(dev.pending, now) /\ now >= dev.pending.due
    BY <1>1, <1>10, RanOut DEF PollRetry, TimerRanOut
  <2>3. /\ AllTimed(dev', now)
        /\ Len(dev'.done) > Len(dev.done) => dev'.done[Len(dev.done) + 1].fate = "IO"
    BY <1>1, <2>1, <2>2, RetryTimed
  <2>4. ~TimesOut
    BY <2>3 DEF TimesOut
  <2> QED
    BY <1>2, <1>10, <2>2, <2>3, <2>4 DEF PollRetry, Patient
<1>11. CASE PollTimeout
  <2>1. PICK ok \in BOOLEAN, k1 \in Nat, k2 \in Nat :
          dev' = FlushWCheck(Resolve(dev, "TIMEOUT", 0, k1), ok, k2)
    BY <1>11 DEF PollTimeout
  <2> DEFINE e == Resolve(dev, "TIMEOUT", 0, k1)
  <2>2. /\ DeviceOK(dev) /\ Pending(dev) /\ Timed(dev.pending, now) /\ now >= dev.pending.due
        /\ dev.pending.retry_count >= max_retry
    BY <1>1, <1>11, RanOut DEF PollTimeout, TimerRanOut
  <2>3. DeviceOK(e) /\ AllTimed(e, now)
    BY <1>1, <2>2, ResolvePreserves, ResolveTimed DEF Fates
  <2>4. dev' = FlushWCheck(e, ok, k2)
    BY <2>1
  <2> HIDE DEF e
  <2>5. AllTimed(dev', now)
    BY <1>1, <2>3, <2>4, FlushWCheckTimed
  <2>6. Patient
    BY <1>1, <2>2, TimeoutPatient DEF Patient
  <2> QED
    BY <1>2, <1>11, <2>5, <2>6 DEF PollTimeout
<1>12. CASE Remove
  <2>1. dev' = Destroy(dev)
    BY <1>12 DEF Remove
  <2>2. dev'.sent = dev.sent /\ dev'.pending = NoRequest /\ dev'.requests = <<>>
    BY <1>1, <2>1 DEF Destroy, Device
  <2>3. ~TimesOut
    <3>1. \A i \in 1..Len(dev'.done) : i > Len(dev.done) =>
            dev'.done[i].fate = IF Pending(dev) THEN "SHUTTING_DOWN" ELSE "DROPPED"
      BY <1>1, <1>12, <2>1, DestroyPreserves DEF Remove
    <3>2. Len(dev'.done) \in Nat
      <4>1. dev' \in Device
        BY <1>1, <1>12, <2>1, DestroyPreserves DEF Remove
      <4> QED
        BY <4>1, Lengths
    <3>3. Len(dev'.done) > Len(dev.done) => dev'.done[Len(dev.done) + 1].fate # "TIMEOUT"
      BY <1>1, <3>1, <3>2
    <3> QED
      BY <3>3 DEF TimesOut
  <2>4. Patient
    BY <1>1, <2>2, <2>3 DEF Patient, Retries
  <2>5. AllTimed(dev', now)
    BY <2>2 DEF AllTimed, Pending
  <2> QED
    BY <1>2, <1>12, <2>4, <2>5 DEF Remove
<1>13. CASE Tick
  <2>1. dev' = dev /\ now' = now + 1 /\ now \in Nat
    BY <1>1, <1>13 DEF Tick, Clock
  <2> QED
    BY <1>1, <2>1, TimePasses DEF Patient, Retries, TimesOut
<1>14. CASE dev' = dev /\ now' = now
  BY <1>1, <1>14 DEF Patient, Retries, TimesOut
<1> QED
  BY <1>3, <1>4, <1>5, <1>7, <1>8, <1>9, <1>10, <1>11, <1>12, <1>13, <1>14
  DEF Next, Respond, Configure, vars

\* Until the 32-bit clock goes round, a request is sent again, or given up, only when its timer
\* has run out, and is given up only after the timeouts of all its transmissions, whatever
\* callbacks, failed sends, 504s and other requests come between (zmtp_device_poll,
\* zmtp_device_request_retry_at_set).
THEOREM TimersAreWaitedOut == Spec /\ []ClockFits => PatientRetries
<1> DEFINE J == Whole /\ AllTimed(dev, now)
<1>1. Init => J
  <2> SUFFICES ASSUME Init PROVE J
    OBVIOUS
  <2>1. dev.pending = NoRequest /\ dev.requests = <<>>
    BY DEF Init
  <2> QED
    BY <2>1, InitWhole DEF AllTimed, Pending
<1>2. J /\ ClockFits /\ [Next]_vars => J'
  <2> SUFFICES ASSUME J, ClockFits, [Next]_vars PROVE J'
    OBVIOUS
  <2>1. Whole'
    BY WholeStep
  <2>2. AllTimed(dev', now')
    BY NextTimed
  <2> QED
    BY <2>1, <2>2 DEF AllTimed, Pending, Timed, Shortest
<1>3. J /\ ClockFits /\ [Next]_vars =>
        [/\ Retries \/ TimesOut => now >= dev.pending.due
         /\ TimesOut /\ RetryTimeouts = {retry_timeout} =>
              now >= dev.pending.since + (max_retry + 1) * retry_timeout]_vars
  BY NextTimed DEF Patient
<1> QED
  BY <1>1, <1>2, <1>3, PTL DEF Spec, PatientRetries
===========================================================================
