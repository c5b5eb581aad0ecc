-------------------------- MODULE LinqJSProofs --------------------------
(***************************************************************************)
(* The Node.js binding for any devices, updates and packets: the order of  *)
(* an update, the devices that are reported, and the end of the loop.      *)
(*                                                                         *)
(* Each rests on what the application does: updates have two files, it     *)
(* removes devices from tasks of its own, it calls run once, and shutdown  *)
(* never from a callback.                                                  *)
(***************************************************************************)
EXTENDS LinqJS, FiniteSetTheorems, SequenceTheorems, TLAPS

---------------------------------------------------------------------------
(* Updates *)

Plan(d) == IF IsUpdateDashboard(d) THEN NormalizeUpdateDashboard(d) ELSE d[1]

\* What was answered is the beginning of the plan, what is to be sent its end, and while a
\* packet is on its way it lies between the two.
Planned ==
  update.phase # "idle" =>
    LET all == Plan(update.files)
        answered == Len(acked)
    IN  /\ update.sid \in Serials /\ update.files \in Dashboards
        /\ answered <= Len(all) /\ acked = SubSeq(all, 1, answered)
        /\ update.remaining = Len(all) - answered
        /\ update.phase = "next" => update.todo = SubSeq(all, answered + 1, Len(all))
        /\ update.phase = "sending" =>
             answered < Len(all) /\ update.todo = SubSeq(all, answered + 2, Len(all))
        /\ update.phase \in {"refreshing", "done"} => answered = Len(all)

Underway == {r \in sent : r.for # "about"}
Answers == {j \in jobs : j.req.for # "about"}

\* The stream waits for one request at a time.
OneUnderway ==
  /\ Underway = {} \/ Answers = {}
  /\ \A r, q \in Underway : r = q
  /\ \A j, k \in Answers : j = k
  /\ \A r \in Underway \cup {j.req : j \in Answers} :
       /\ r.for = "packet" => /\ update.phase = "sending"
                              /\ r.packet = Plan(update.files)[Len(acked) + 1]
       /\ r.for = "refresh" => update.phase = "refreshing"

Fresh == update.phase = "idle" => acked = <<>>

\* The timer shutdown() clears is one that was set.
TimerSet == shutdownTimer # None => loops[shutdownTimer] # "none"

InOrder == TypeOK /\ Planned /\ OneUnderway /\ Fresh /\ TimerSet

USE LinqJSAssumption

UpdateType ==
  [sid : Serials \cup {None}, todo : Seq(Packets), remaining : Nat,
   phase : {"idle", "next", "sending", "refreshing", "done", "failed"},
   files : Seq(Seq(Packets))]

\* A plan is a sequence of packets.
LEMMA PlanIsPackets == ASSUME NEW d \in Dashboards PROVE Plan(d) \in Seq(Packets)
<1>1. d \in Seq(Seq(Packets)) /\ d # <<>>
  OBVIOUS
<1>2. d[1] \in Seq(Packets)
  BY <1>1
<1>3. ASSUME IsUpdateDashboard(d) PROVE d[2] \in Seq(Packets)
  <2> DEFINE filled == {i \in DOMAIN d : d[i] # <<>>}
  <2>1. SUFFICES ASSUME Len(d) < 2 PROVE FALSE
    BY <1>1
  <2>2. DOMAIN d = {1}
    <3>1. DOMAIN d = 1..Len(d) /\ Len(d) \in Nat /\ Len(d) # 0
      BY <1>1
    <3>2. Len(d) = 1
      BY <2>1, <3>1
    <3> QED
      BY <3>1, <3>2
  <2>3. filled = {} \/ filled = {1}
    BY <2>2
  <2>4. Cardinality({}) = 0 /\ Cardinality({1}) = 1
    BY FS_EmptySet, FS_Singleton
  <2>5. Cardinality(filled) = 2
    BY <1>3 DEF IsUpdateDashboard
  <2> HIDE DEF filled
  <2>6. Cardinality(filled) = 0 \/ Cardinality(filled) = 1
    BY <2>3, <2>4, Zenon
  <2> QED
    BY <2>5, <2>6
<1> QED
  BY <1>2, <1>3 DEF Plan, NormalizeUpdateDashboard

\* A dashboard of two files is planned in full.
LEMMA PlanOfTwoFiles ==
  ASSUME NEW d \in Dashboards, Len(d) = 2, d[1] # <<>>, d[2] # <<>>
  PROVE  Plan(d) = d[1] \o d[2]
<1>1. DOMAIN d = {1, 2}
  <2>1. d \in Seq(Seq(Packets))
    OBVIOUS
  <2> QED
    BY <2>1
<1>2. {i \in DOMAIN d : d[i] # <<>>} = {1, 2}
  BY <1>1
<1>3. Cardinality({1, 2}) = 2
  <2>1. IsFiniteSet({1}) /\ Cardinality({1}) = 1
    BY FS_Singleton
  <2>2. Cardinality({1} \cup {2}) = Cardinality({1}) + 1
    <3>1. 2 \notin {1}
      OBVIOUS
    <3> QED
      BY <2>1, <3>1, FS_AddElement, Zenon
  <2>3. {1} \cup {2} = {1, 2}
    OBVIOUS
  <2>4. Cardinality({1, 2}) = 1 + 1
    BY <2>1, <2>2, <2>3, Zenon
  <2> QED
    BY <2>4
<1> QED
  BY <1>2, <1>3 DEF Plan, IsUpdateDashboard, NormalizeUpdateDashboard

\* Rejected requests are jobs.
LEMMA RejectedTypes ==
  ASSUME NEW rs \in SUBSET Requests
  PROVE  Rejected(rs) \subseteq [req : Requests, ok : BOOLEAN]
<1>1. ASSUME NEW j \in Rejected(rs) PROVE j \in [req : Requests, ok : BOOLEAN]
  <2>1. PICK q \in rs : j = [req |-> q, ok |-> FALSE]
    BY DEF Rejected, Job
  <2>2. q \in Requests
    OBVIOUS
  <2> QED
    BY <2>1, <2>2
<1> QED
  BY <1>1

\* Sending and shutting down keep the types.
LEMMA SendTypes ==
  ASSUME TypeOK, NEW r \in Requests, Send(r)
  PROVE  /\ netw' \in {"open", "destroyed"} /\ table' \subseteq Serials
         /\ sent' \subseteq Requests /\ jobs' \subseteq [req : Requests, ok : BOOLEAN]
         /\ fault' \in {"none", "reentrant", "send", "devices", "poll", "null_json"}
<1>1. Rejected({r}) \subseteq [req : Requests, ok : BOOLEAN]
  BY RejectedTypes
<1>2. TypeOK /\ Send(r)
  OBVIOUS
<1> QED
  BY <1>1, <1>2 DEF TypeOK, Send, SendFails, deviceVars

\* Shutting down keeps the types.
LEMMA EarlyDestructTypes ==
  ASSUME TypeOK, NEW inPoll \in BOOLEAN, EarlyDestruct(inPoll)
  PROVE  /\ netw' \in {"open", "destroyed"} /\ table' \subseteq Serials
         /\ sent' \subseteq Requests /\ jobs' \subseteq [req : Requests, ok : BOOLEAN]
         /\ fault' \in {"none", "reentrant", "send", "devices", "poll", "null_json"}
<1>1. Rejected(sent) \subseteq [req : Requests, ok : BOOLEAN]
  BY RejectedTypes DEF TypeOK
<1> QED
  BY <1>1 DEF TypeOK, EarlyDestruct, deviceVars

\* A request of the stream is sent, or is rejected at once, or the process fails.
LEMMA SendUnderway ==
  ASSUME NEW r, r.for # "about", Send(r), Underway = {}, Answers = {}
  PROVE  /\ Underway' = {} \/ Answers' = {}
         /\ \A q \in Underway' : q = r
         /\ \A j \in Answers' : j = Job(r, FALSE)
<1>1. CASE UNCHANGED <<sent, jobs>>
  BY <1>1 DEF Underway, Answers
<1>2. CASE sent' = sent \cup {r} /\ UNCHANGED jobs
  BY <1>2 DEF Underway, Answers
<1>3. CASE jobs' = jobs \cup Rejected({r}) /\ UNCHANGED sent
  BY <1>3 DEF Underway, Answers, Rejected
<1> QED
  BY <1>1, <1>2, <1>3 DEF Send, SendFails, deviceVars

\* The requests end as they are, as with a network that is destroyed.
LEMMA RejectUnderway ==
  ASSUME OneUnderway, NEW rs \in SUBSET sent, sent' = sent \ rs, jobs' = jobs \cup Rejected(rs),
         UNCHANGED <<update, acked>>
  PROVE  OneUnderway'
<1>1. Underway' \subseteq Underway
  BY DEF Underway
<1>2. \A j \in Answers' : j \in Answers \/ (j.req \in Underway /\ j = Job(j.req, FALSE) /\ j.req \in rs)
  BY DEF Answers, Underway, Rejected, Job
<1>3. \A j \in Answers : j \in jobs
  BY DEF Answers
<1>4. Underway' = {} \/ Answers' = {}
  <2>1. SUFFICES ASSUME NEW q \in Underway', NEW j \in Answers' PROVE FALSE
    OBVIOUS
  <2>2. j.req \in Underway /\ j.req \in rs /\ q \in Underway
    BY <1>1, <1>2 DEF OneUnderway
  <2>3. q = j.req /\ q \notin rs
    BY <2>2 DEF OneUnderway, Underway
  <2> QED
    BY <2>2, <2>3
<1>5. \A j, k \in Answers' : j = k
  BY <1>2 DEF OneUnderway
<1>6. {j.req : j \in Answers'} \subseteq Underway \cup {j.req : j \in Answers}
  BY <1>2
<1> QED
  BY <1>1, <1>4, <1>5, <1>6 DEF OneUnderway


\* The stream and its requests are left alone.
LEMMA StreamAlone ==
  ASSUME InOrder, UNCHANGED <<update, acked>>, Underway' = Underway, Answers' = Answers
  PROVE  Planned' /\ OneUnderway' /\ Fresh'
BY DEF InOrder, Planned, OneUnderway, Fresh

\* The network is destroyed, or not.
LEMMA DestructInOrder ==
  ASSUME InOrder, NEW inPoll \in BOOLEAN, EarlyDestruct(inPoll) \/ UNCHANGED deviceVars,
         UNCHANGED <<update, acked>>
  PROVE  Planned' /\ OneUnderway' /\ Fresh'
<1>1. CASE UNCHANGED deviceVars
  BY <1>1, StreamAlone DEF deviceVars, Underway, Answers
<1>2. CASE ~UNCHANGED deviceVars
  <2>1. sent' = sent \ sent /\ jobs' = jobs \cup Rejected(sent)
    BY <1>2 DEF EarlyDestruct
  <2>2. OneUnderway'
    BY <2>1, RejectUnderway DEF InOrder
  <2> QED
    BY <2>2 DEF InOrder, Planned, Fresh
<1> QED
  BY <1>1, <1>2

\* The run whose promise is resolved is one that was started.
LEMMA LatestIsRun ==
  ASSUME TypeOK
  PROVE  /\ Latest \in 0..MaxRuns
         /\ \A r \in Runs : loops[r] # "none" => Latest \in Runs
<1>1. IsFiniteSet(Runs) /\ Cardinality(Runs) = MaxRuns
  <2>1. 1 \in Int /\ MaxRuns \in Int
    OBVIOUS
  <2>2. IsFiniteSet(1..MaxRuns) /\ Cardinality(1..MaxRuns) = IF 1 > MaxRuns THEN 0 ELSE MaxRuns - 1 + 1
    BY <2>1, FS_Interval
  <2> QED
    BY <2>2 DEF Runs
<1>2. Started \subseteq Runs
  BY DEF Started
<1>3. IsFiniteSet(Started) /\ Cardinality(Started) <= MaxRuns
  BY <1>1, <1>2, FS_Subset
<1>4. Cardinality(Started) \in Nat /\ (Cardinality(Started) = 0 <=> Started = {})
  BY <1>3, FS_CardinalityType, FS_EmptySet
<1>5. \A r \in Runs : loops[r] # "none" => Started # {}
  BY DEF Started
<1> QED
  BY <1>3, <1>4, <1>5 DEF Latest, Runs

\* A step of the stream: a packet is sent, or after the last the refresh.
LEMMA AdvanceInOrder ==
  ASSUME TypeOK, Underway = {}, Answers = {}, NEW u, Advance(u), UNCHANGED acked,
         u \in UpdateType, u.sid \in Serials, u.files \in Dashboards,
         LET all == Plan(u.files)
         IN  /\ Len(acked) <= Len(all) /\ acked = SubSeq(all, 1, Len(acked))
             /\ u.remaining = Len(all) - Len(acked)
             /\ u.todo = SubSeq(all, Len(acked) + 1, Len(all))
  PROVE  /\ update' \in UpdateType /\ Planned' /\ OneUnderway' /\ Fresh'
         /\ \E r \in Requests : Send(r)
<1> DEFINE all == Plan(u.files)  n == Len(acked)
<1>1. all \in Seq(Packets) /\ Len(all) \in Nat /\ n \in Nat /\ u.todo \in Seq(Packets) /\ n <= Len(all)
  BY PlanIsPackets DEF TypeOK, UpdateType
<1>2. u.todo = SubSeq(all, n + 1, Len(all)) /\ Len(u.todo) = Len(all) - n
  <2>1. n + 1 \in Nat
    BY <1>1
  <2> HIDE DEF all, n
  <2>2. Len(SubSeq(all, n + 1, Len(all))) = Len(all) - n
    BY <1>1
  <2> QED
    BY <2>2 DEF all, n
<1> HIDE DEF all, n
<1>3. CASE u.todo # <<>>
  <2>1. n < Len(all)
    BY <1>1, <1>2, <1>3
  <2>2. Head(u.todo) = all[n + 1] /\ Head(u.todo) \in Packets
    BY <1>1, <1>2, <1>3, <2>1
  <2>3. Tail(u.todo) = SubSeq(all, n + 2, Len(all)) /\ Tail(u.todo) \in Seq(Packets)
    <3>1. n + 1 \in 1..Len(all) /\ Len(all) \in (n + 1)..Len(all) /\ (n + 1) + 1 = n + 2
      BY <1>1, <2>1
    <3>2. Tail(SubSeq(all, n + 1, Len(all))) = SubSeq(all, (n + 1) + 1, Len(all))
      BY <1>1, <3>1, HeadTailOfSubSeq
    <3>3. Tail(u.todo) \in Seq(Packets)
      BY <1>1, <1>3
    <3> QED
      BY <1>2, <3>1, <3>2, <3>3
  <2> DEFINE r == Packet(u.sid, Head(u.todo))
  <2>4. Send(r) /\ update' = [u EXCEPT !.todo = Tail(@), !.phase = "sending"]
    BY <1>3 DEF Advance
  <2>5. r \in Requests /\ r.for = "packet" /\ r.packet = all[n + 1]
    BY <2>2 DEF Packet, Request, Requests
  <2>6. /\ update' \in UpdateType /\ update'.phase = "sending" /\ update'.files = u.files /\ update'.sid = u.sid
        /\ update'.remaining = u.remaining /\ update'.todo = Tail(u.todo)
    BY <2>3, <2>4 DEF UpdateType
  <2> HIDE DEF r
  <2>7. /\ Underway' = {} \/ Answers' = {}
        /\ \A q \in Underway' : q = r
        /\ \A j \in Answers' : j = Job(r, FALSE)
    BY <2>4, <2>5, SendUnderway
  <2>8. Planned'
    BY <1>1, <2>1, <2>3, <2>6 DEF Planned, all, n
  <2>9. \A q \in Underway' \cup {j.req : j \in Answers'} : q = r
    BY <2>7 DEF Job
  <2>10. OneUnderway'
    BY <2>5, <2>6, <2>7, <2>9 DEF OneUnderway, all, n
  <2> QED
    BY <2>4, <2>5, <2>6, <2>8, <2>10 DEF Fresh
<1>4. CASE u.todo = <<>>
  <2>1. n = Len(all)
    BY <1>1, <1>2, <1>4
  <2> DEFINE r == Refresh(u.sid)
  <2>2. Send(r) /\ update' = [u EXCEPT !.phase = "refreshing"]
    BY <1>4 DEF Advance
  <2>3. r \in Requests /\ r.for = "refresh"
    BY DEF Refresh, Request, Requests
  <2>4. /\ update' \in UpdateType /\ update'.phase = "refreshing" /\ update'.files = u.files /\ update'.sid = u.sid
        /\ update'.remaining = u.remaining
    BY <2>2 DEF UpdateType
  <2> HIDE DEF r
  <2>5. /\ Underway' = {} \/ Answers' = {}
        /\ \A q \in Underway' : q = r
        /\ \A j \in Answers' : j = Job(r, FALSE)
    BY <2>2, <2>3, SendUnderway
  <2>6. Planned'
    BY <1>1, <2>1, <2>4 DEF Planned, all, n
  <2>7. \A q \in Underway' \cup {j.req : j \in Answers'} : q = r
    BY <2>5 DEF Job
  <2>8. OneUnderway'
    BY <2>3, <2>4, <2>5, <2>7 DEF OneUnderway
  <2> QED
    BY <2>2, <2>3, <2>4, <2>6, <2>8 DEF Fresh
<1> QED
  BY <1>3, <1>4

\* The stream goes on after an answer.
LEMMA UpdateNextInOrder == ASSUME InOrder, UpdateNext PROVE InOrder'
<1>1. Advance(update) /\ update.phase = "next" /\ UNCHANGED <<loopVars, open, cache, acked>>
  BY DEF UpdateNext, Streaming
<1>2. Underway = {} /\ Answers = {}
  <2>1. \A q \in Underway \cup {j.req : j \in Answers} : q.for \notin {"packet", "refresh"}
    BY <1>1 DEF InOrder, OneUnderway
  <2>2. \A q \in Underway : q.for \in {"packet", "refresh"}
    BY DEF Underway, InOrder, TypeOK, Requests
  <2>3. \A j \in Answers : j.req.for \in {"packet", "refresh"}
    BY DEF Answers, InOrder, TypeOK, Requests
  <2> QED
    BY <2>1, <2>2, <2>3
<1>3. update \in UpdateType
  BY DEF InOrder, TypeOK, UpdateType
<1>4. update.sid \in Serials /\ update.files \in Dashboards
  BY <1>1 DEF InOrder, Planned
<1>5. /\ update' \in UpdateType /\ Planned' /\ OneUnderway' /\ Fresh'
      /\ \E r \in Requests : Send(r)
  BY <1>1, <1>2, <1>3, <1>4, AdvanceInOrder DEF InOrder, Planned
<1>6. TypeOK' /\ TimerSet'
  BY <1>1, <1>5, SendTypes DEF InOrder, TypeOK, UpdateType, loopVars, TimerSet
<1> QED
  BY <1>5, <1>6 DEF InOrder

\* An update begins.
LEMMA UpdateInOrderStep ==
  ASSUME InOrder, NEW s \in Serials, NEW d \in Dashboards, Update(s, d)
  PROVE  InOrder'
<1> DEFINE all == Plan(d)
           u == [sid |-> s, todo |-> all, remaining |-> Len(all), phase |-> "next", files |-> d]
<1>1. Advance(u) /\ update.phase = "idle" /\ UNCHANGED <<loopVars, open, cache, acked>>
  BY DEF Update, Plan
<1>2. Underway = {} /\ Answers = {}
  <2>1. \A q \in Underway \cup {j.req : j \in Answers} : q.for \notin {"packet", "refresh"}
    BY <1>1 DEF InOrder, OneUnderway
  <2>2. \A q \in Underway : q.for \in {"packet", "refresh"}
    BY DEF Underway, InOrder, TypeOK, Requests
  <2>3. \A j \in Answers : j.req.for \in {"packet", "refresh"}
    BY DEF Answers, InOrder, TypeOK, Requests
  <2> QED
    BY <2>1, <2>2, <2>3
<1>3. all \in Seq(Packets) /\ Len(all) \in Nat
  BY PlanIsPackets
<1>4. acked = <<>>
  BY <1>1 DEF InOrder, Fresh
<1> HIDE DEF all
<1>5. SubSeq(all, 1, 0) = <<>> /\ SubSeq(all, 1, Len(all)) = all
  BY <1>3, SubSeqEmpty, SubSeqFull
<1>6. u \in UpdateType /\ u.sid \in Serials /\ u.files \in Dashboards /\ u.files = d
      /\ u.remaining = Len(all) /\ u.todo = all
  BY <1>3 DEF UpdateType
<1>7. Len(acked) = 0 /\ Len(acked) + 1 = 1 /\ Len(all) - 0 = Len(all) /\ 0 <= Len(all)
  BY <1>3, <1>4
<1> HIDE DEF u
<1>8. Plan(u.files) = all
  BY <1>6 DEF all
<1>9. /\ Len(acked) <= Len(all) /\ acked = SubSeq(all, 1, Len(acked))
      /\ u.remaining = Len(all) - Len(acked)
      /\ u.todo = SubSeq(all, Len(acked) + 1, Len(all))
  BY <1>4, <1>5, <1>6, <1>7
<1>10. /\ update' \in UpdateType /\ Planned' /\ OneUnderway' /\ Fresh'
       /\ \E r \in Requests : Send(r)
  BY <1>1, <1>2, <1>6, <1>8, <1>9, AdvanceInOrder DEF InOrder
<1>11. TypeOK' /\ TimerSet'
  BY <1>1, <1>10, SendTypes DEF InOrder, TypeOK, UpdateType, loopVars, TimerSet
<1> QED
  BY <1>10, <1>11 DEF InOrder

\* The packet that was under way is answered, or refused.
LEMMA PacketDoneInOrder == ASSUME InOrder, NEW j \in jobs, PacketDone(j) PROVE InOrder'
<1>1. /\ j.req.for = "packet" /\ jobs' = jobs \ {j}
      /\ UNCHANGED <<loopVars, netw, table, sent, open, cache, fault>>
  BY DEF PacketDone
<1>2. j \in Answers
  BY <1>1 DEF Answers
<1>3. Underway' = {} /\ Answers' = {}
  BY <1>1, <1>2 DEF InOrder, OneUnderway, Underway, Answers
<1> DEFINE all == Plan(update.files)  n == Len(acked)
<1>4. update.phase = "sending" /\ j.req.packet = all[n + 1]
  BY <1>1, <1>2 DEF InOrder, OneUnderway
<1>5. /\ all \in Seq(Packets) /\ Len(all) \in Nat /\ n \in Nat /\ n < Len(all)
      /\ acked = SubSeq(all, 1, n) /\ update.remaining = Len(all) - n
      /\ update.todo = SubSeq(all, n + 2, Len(all)) /\ acked \in Seq(Packets)
      /\ update \in UpdateType /\ update.sid \in Serials /\ update.files \in Dashboards
  BY <1>4, PlanIsPackets DEF InOrder, Planned, TypeOK, UpdateType
<1>6. CASE j.ok
  <2>1. /\ update' = [update EXCEPT !.remaining = @ - 1, !.phase = "next"]
        /\ acked' = Append(acked, j.req.packet)
    BY <1>6 DEF PacketDone
  <2>2. /\ update' \in UpdateType /\ update'.phase = "next" /\ update'.files = update.files
        /\ update'.remaining = Len(all) - (n + 1) /\ update'.todo = update.todo
        /\ update'.sid = update.sid
    <3> HIDE DEF all, n
    <3>1. (Len(all) - n) - 1 = Len(all) - (n + 1) /\ Len(all) - (n + 1) \in Nat
      BY <1>5
    <3>2. update' = [update EXCEPT !.remaining = Len(all) - (n + 1), !.phase = "next"]
      BY <1>5, <2>1, <3>1
    <3> QED
      BY <1>5, <3>1, <3>2 DEF UpdateType
  <2>3. acked' = SubSeq(all, 1, n + 1) /\ Len(acked') = n + 1 /\ acked' \in Seq(Packets)
    <3> HIDE DEF all
    <3>1. all[n + 1] \in Packets
      BY <1>5
    <3>2. acked' \in Seq(Packets) /\ Len(acked') = n + 1
      BY <1>4, <1>5, <2>1, <3>1
    <3> HIDE DEF n
    <3>3. SubSeq(all, 1, n + 1) = Append(SubSeq(all, 1, n), all[n + 1])
      BY <1>5
    <3> QED
      BY <1>4, <1>5, <2>1, <3>2, <3>3
  <2>4. Planned'
    <3>1. (n + 1) + 1 = n + 2
      BY <1>5
    <3>2. Plan(update'.files) = all
      BY <2>2
    <3> HIDE DEF all, n
    <3>3. n + 1 <= Len(all)
      BY <1>5
    <3> QED
      BY <1>5, <2>2, <2>3, <3>1, <3>2, <3>3 DEF Planned
  <2>5. TypeOK' /\ TimerSet'
    BY <1>1, <2>2, <2>3 DEF InOrder, TypeOK, UpdateType, loopVars, TimerSet
  <2> QED
    BY <1>3, <2>2, <2>4, <2>5 DEF InOrder, OneUnderway, Fresh
<1>7. CASE ~j.ok
  <2>1. update' = [update EXCEPT !.phase = "failed"] /\ UNCHANGED acked
    BY <1>7 DEF PacketDone
  <2>2. /\ update' \in UpdateType /\ update'.phase = "failed" /\ update'.files = update.files
        /\ update'.remaining = update.remaining /\ update'.sid = update.sid
    BY <1>5, <2>1 DEF UpdateType
  <2>3. Planned'
    BY <1>5, <2>1, <2>2 DEF Planned
  <2>4. TypeOK' /\ TimerSet'
    BY <1>1, <2>1, <2>2 DEF InOrder, TypeOK, UpdateType, loopVars, TimerSet
  <2> QED
    BY <1>3, <2>2, <2>3, <2>4 DEF InOrder, OneUnderway, Fresh
<1> QED
  BY <1>6, <1>7

\* The refresh ends the stream.
LEMMA RefreshDoneInOrder == ASSUME InOrder, NEW j \in jobs, RefreshDone(j) PROVE InOrder'
<1>1. /\ j.req.for = "refresh" /\ jobs' = jobs \ {j} /\ j.req.sid \in Serials
      /\ cache' = IF j.ok THEN cache \cup {j.req.sid} ELSE cache
      /\ update' = [update EXCEPT !.phase = IF j.ok THEN "done" ELSE "failed"]
      /\ UNCHANGED <<loopVars, netw, table, sent, open, acked, fault>>
  BY DEF RefreshDone, InOrder, TypeOK, Requests
<1>2. j \in Answers
  BY <1>1 DEF Answers
<1>3. Underway' = {} /\ Answers' = {}
  BY <1>1, <1>2 DEF InOrder, OneUnderway, Underway, Answers
<1>4. update.phase = "refreshing"
  BY <1>1, <1>2 DEF InOrder, OneUnderway
<1>5. /\ update' \in UpdateType /\ update'.phase \in {"done", "failed"} /\ update'.files = update.files
      /\ update'.remaining = update.remaining /\ update'.sid = update.sid
  BY <1>1 DEF InOrder, TypeOK, UpdateType
<1>6. Planned'
  BY <1>1, <1>4, <1>5 DEF InOrder, Planned
<1>7. TypeOK' /\ TimerSet'
  BY <1>1, <1>5 DEF InOrder, TypeOK, UpdateType, loopVars, TimerSet
<1> QED
  BY <1>3, <1>5, <1>6, <1>7 DEF InOrder, OneUnderway, Fresh

\* The answer of a new device is none of the stream's.
LEMMA AboutDoneInOrder == ASSUME InOrder, NEW j \in jobs, AboutDone(j) PROVE InOrder'
<1>1. /\ j.req.for = "about" /\ jobs' = jobs \ {j} /\ j.req.sid \in Serials
      /\ UNCHANGED <<loopVars, netw, table, sent, open, update, acked>>
      /\ cache' \subseteq cache \cup {j.req.sid} /\ fault' \in {fault, "devices"}
  BY DEF AboutDone, InOrder, TypeOK, Requests
<1>2. Underway' = Underway /\ Answers' = Answers
  BY <1>1 DEF Underway, Answers
<1>3. TypeOK' /\ TimerSet'
  BY <1>1 DEF InOrder, TypeOK, loopVars, TimerSet
<1> QED
  BY <1>1, <1>2, <1>3, StreamAlone DEF InOrder

\* The steps inside netw.poll.
LEMMA PollInOrder == ASSUME InOrder, Poll PROVE InOrder'
<1>1. CASE \E s \in Serials : PollNew(s)
  <2>1. PICK s \in Serials : PollNew(s)
    BY <1>1
  <2>2. /\ table' = table \cup {s} /\ sent' \in {sent, sent \cup {About(s)}} /\ open' \in BOOLEAN
        /\ UNCHANGED <<loopVars, netw, jobs, cache, update, acked, fault>>
    BY <2>1 DEF PollNew, InOrder, TypeOK
  <2>3. About(s) \in Requests /\ About(s).for = "about"
    BY DEF About, Request, Requests
  <2>4. Underway' = Underway /\ Answers' = Answers
    BY <2>2, <2>3 DEF Underway, Answers
  <2>5. TypeOK' /\ TimerSet'
    BY <2>2, <2>3 DEF InOrder, TypeOK, loopVars, TimerSet
  <2> QED
    BY <2>2, <2>4, <2>5, StreamAlone DEF InOrder
<1>2. CASE PollEvent
  <2>1. UNCHANGED <<loopVars, deviceVars, cache, update, acked, fault>> /\ open' \in BOOLEAN
    BY <1>2 DEF PollEvent, InOrder, TypeOK
  <2>2. Underway' = Underway /\ Answers' = Answers
    BY <2>1 DEF Underway, Answers, deviceVars
  <2>3. TypeOK' /\ TimerSet'
    BY <2>1 DEF InOrder, TypeOK, loopVars, deviceVars, TimerSet
  <2> QED
    BY <2>1, <2>2, <2>3, StreamAlone DEF InOrder
<1>3. CASE \E r \in sent, ok \in BOOLEAN : PollAnswer(r, ok)
  <2>1. PICK r \in sent, ok \in BOOLEAN : PollAnswer(r, ok)
    BY <1>3
  <2>2. /\ sent' = sent \ {r} /\ jobs' = jobs \cup {Job(r, ok)}
        /\ UNCHANGED <<loopVars, netw, table, open, cache, update, acked, fault>>
    BY <2>1 DEF PollAnswer
  <2>3. Job(r, ok) \in [req : Requests, ok : BOOLEAN] /\ Job(r, ok).req = r
    BY DEF InOrder, TypeOK, Job
  <2>4. TypeOK' /\ TimerSet'
    BY <2>2, <2>3 DEF InOrder, TypeOK, loopVars, TimerSet
  <2>5. Planned' /\ Fresh'
    BY <2>2 DEF InOrder, Planned, Fresh
  <2>6. OneUnderway'
    <3>1. CASE r.for = "about"
      <4>1. Underway' = Underway /\ Answers' = Answers
        BY <2>2, <2>3, <3>1 DEF Underway, Answers
      <4> QED
        BY <2>2, <4>1 DEF InOrder, OneUnderway
    <3>2. CASE r.for # "about"
      <4>1. r \in Underway
        BY <3>2 DEF Underway
      <4>2. Underway' = {}
        BY <2>2, <4>1 DEF InOrder, OneUnderway, Underway
      <4>3. Answers' = {Job(r, ok)}
        <5>1. Answers = {}
          BY <4>1 DEF InOrder, OneUnderway
        <5> QED
          BY <2>2, <2>3, <3>2, <5>1 DEF Answers
      <4> QED
        BY <2>2, <2>3, <4>1, <4>2, <4>3 DEF InOrder, OneUnderway
    <3> QED
      BY <3>1, <3>2
  <2> QED
    BY <2>4, <2>5, <2>6 DEF InOrder
<1>4. CASE PollSendFails
  <2>1. UNCHANGED <<loopVars, deviceVars, open, cache, update, acked>> /\ fault' = "null_json"
    BY <1>4 DEF PollSendFails, SendFails
  <2>2. Underway' = Underway /\ Answers' = Answers
    BY <2>1 DEF Underway, Answers, deviceVars
  <2>3. TypeOK' /\ TimerSet'
    BY <2>1 DEF InOrder, TypeOK, loopVars, deviceVars, TimerSet
  <2> QED
    BY <2>1, <2>2, <2>3, StreamAlone DEF InOrder
<1>5. CASE \E r \in Runs : PollReturns(r)
  <2>1. PICK r \in Runs : PollReturns(r)
    BY <1>5
  <2>2. /\ polling' = FALSE /\ UNCHANGED <<running, open, cache, update, acked>>
        /\ \/ UNCHANGED <<deviceVars, fault>>
           \/ EarlyDestruct(FALSE)
    BY <2>1 DEF PollReturns
  <2>3. Latest \in Runs \/ settled' = settled
    <3>1. loops[r] = "firing"
      BY <2>1 DEF PollReturns
    <3> QED
      BY <3>1, LatestIsRun DEF InOrder
  <2>4. /\ loops' \in [Runs -> {"none", "armed", "firing", "cleared", "ended"}]
        /\ shutdownTimer' \in Runs \cup {None} /\ settled' \subseteq Runs
    <3>1. \/ loops' = [loops EXCEPT ![r] = "armed"] /\ shutdownTimer' = r /\ UNCHANGED settled
          \/ /\ loops' = [loops EXCEPT ![r] = "ended"] /\ settled' = settled \cup {Latest}
             /\ UNCHANGED shutdownTimer
      BY <2>1 DEF PollReturns
    <3> QED
      BY <2>3, <3>1 DEF InOrder, TypeOK
  <2>5. TimerSet'
    BY <2>1 DEF PollReturns, InOrder, TypeOK, TimerSet
  <2>6. TypeOK'
    <3>1. CASE UNCHANGED <<deviceVars, fault>>
      BY <2>2, <2>4, <3>1 DEF InOrder, TypeOK, deviceVars
    <3>2. CASE EarlyDestruct(FALSE)
      BY <2>2, <2>4, <3>2, EarlyDestructTypes DEF InOrder, TypeOK
    <3> QED
      BY <2>2, <3>1, <3>2
  <2> QED
    BY <2>2, <2>5, <2>6, DestructInOrder DEF InOrder
<1> QED
  BY <1>1, <1>2, <1>3, <1>4, <1>5 DEF Poll


\* Timers, and calls of the application.
LEMMA ApplicationInOrder ==
  ASSUME InOrder, Application \/ \E r \in Runs : Fire(r)
  PROVE  InOrder'
<1>1. CASE Run
  <2>1. /\ Latest + 1 \in Runs /\ loops' = [loops EXCEPT ![Latest + 1] = "armed"]
        /\ shutdownTimer' = Latest + 1
        /\ UNCHANGED <<running, polling, settled, deviceVars, open, cache, update, acked, fault>>
    BY <1>1, LatestIsRun DEF Run, Runs, InOrder
  <2>2. TypeOK' /\ TimerSet'
    BY <2>1 DEF InOrder, TypeOK, deviceVars, TimerSet
  <2> QED
    BY <2>1, <2>2, DestructInOrder DEF InOrder
<1>2. CASE Shutdown
  <2>1. /\ running' = FALSE /\ UNCHANGED <<polling, open, cache, update, acked>>
        /\ EarlyDestruct(polling) \/ UNCHANGED <<deviceVars, fault>>
        /\ polling \in BOOLEAN
    BY <1>2 DEF Shutdown, InOrder, TypeOK
  <2>2. CASE shutdownTimer = None
    <3>1. UNCHANGED <<loops, shutdownTimer, settled, deviceVars, fault>>
      BY <1>2, <2>2 DEF Shutdown
    <3>2. TypeOK' /\ TimerSet'
      BY <2>1, <2>2, <3>1 DEF InOrder, TypeOK, deviceVars, TimerSet
    <3> QED
      BY <2>1, <3>1, <3>2, DestructInOrder DEF InOrder
  <2>3. CASE shutdownTimer # None
    <3>1. /\ loops' = [loops EXCEPT ![shutdownTimer] = IF @ = "armed" THEN "cleared" ELSE @]
          /\ shutdownTimer' = None /\ EarlyDestruct(polling) /\ settled' = settled \cup {Latest}
      BY <1>2, <2>3 DEF Shutdown
    <3>2. Latest \in Runs
      BY <2>3, LatestIsRun DEF InOrder, TypeOK, TimerSet
    <3>3. loops' \in [Runs -> {"none", "armed", "firing", "cleared", "ended"}]
      BY <3>1 DEF InOrder, TypeOK
    <3>4. TypeOK' /\ TimerSet'
      BY <2>1, <3>1, <3>2, <3>3, EarlyDestructTypes DEF InOrder, TypeOK, TimerSet
    <3> QED
      BY <2>1, <3>1, <3>4, DestructInOrder DEF InOrder
  <2> QED
    BY <2>2, <2>3
<1>3. CASE Devices
  <2>1. cache' = cache \cup table /\ UNCHANGED <<loopVars, deviceVars, open, update, acked, fault>>
    BY <1>3 DEF Devices
  <2>2. TypeOK' /\ TimerSet'
    BY <2>1 DEF InOrder, TypeOK, deviceVars, loopVars, TimerSet
  <2> QED
    BY <2>1, <2>2, DestructInOrder DEF InOrder
<1>4. CASE \E s \in Serials : Remove(s)
  <2>1. PICK s \in Serials : Remove(s)
    BY <1>4
  <2> DEFINE rs == {r \in sent : r.sid = s}
  <2>2. /\ cache' = cache \ {s} /\ table' = table \ {s}
        /\ jobs' = jobs \cup Rejected(rs) /\ sent' = {r \in sent : r.sid # s}
        /\ UNCHANGED <<loopVars, netw, open, update, acked, fault>>
    BY <2>1 DEF Remove
  <2>3. sent' = sent \ rs /\ rs \in SUBSET sent /\ rs \in SUBSET Requests
    BY <2>2 DEF InOrder, TypeOK
  <2> HIDE DEF rs
  <2>4. Rejected(rs) \subseteq [req : Requests, ok : BOOLEAN]
    BY <2>3, RejectedTypes
  <2>5. TypeOK' /\ TimerSet'
    BY <2>2, <2>3, <2>4 DEF InOrder, TypeOK, loopVars, TimerSet
  <2>6. OneUnderway'
    BY <2>2, <2>3, RejectUnderway DEF InOrder
  <2>7. Planned' /\ Fresh'
    BY <2>2 DEF InOrder, Planned, Fresh
  <2> QED
    BY <2>5, <2>6, <2>7 DEF InOrder
<1>5. CASE \E r \in Runs : Fire(r)
  <2>1. PICK r \in Runs : Fire(r)
    BY <1>5
  <2>2. /\ loops' = [loops EXCEPT ![r] = "firing"] /\ polling' \in BOOLEAN
        /\ fault' \in {fault, "poll"}
        /\ UNCHANGED <<running, shutdownTimer, settled, deviceVars, open, cache, update, acked>>
    BY <2>1 DEF Fire, InOrder, TypeOK
  <2>3. TypeOK' /\ TimerSet'
    BY <2>2 DEF InOrder, TypeOK, deviceVars, TimerSet
  <2> QED
    BY <2>2, <2>3, DestructInOrder DEF InOrder
<1> QED
  BY <1>1, <1>2, <1>3, <1>4, <1>5, UpdateInOrderStep DEF Application

\* No step breaks the order.
LEMMA NextInOrder == ASSUME InOrder, [Next]_vars PROVE InOrder'
<1>1. CASE Next
  BY <1>1, PollInOrder, ApplicationInOrder, UpdateNextInOrder, PacketDoneInOrder,
     RefreshDoneInOrder, AboutDoneInOrder DEF Next, Continue
<1>2. CASE UNCHANGED vars
  <2>1. TypeOK' /\ TimerSet'
    BY <1>2 DEF InOrder, TypeOK, vars, TimerSet
  <2>2. Underway' = Underway /\ Answers' = Answers
    BY <1>2 DEF vars, Underway, Answers
  <2> QED
    BY <1>2, <2>1, <2>2, StreamAlone DEF InOrder, vars
<1> QED
  BY <1>1, <1>2

\* No update has begun at first.
LEMMA InitInOrder == ASSUME Init PROVE InOrder
<1>1. TypeOK /\ TimerSet
  <2>1. NoUpdate \in UpdateType
    BY DEF NoUpdate, UpdateType
  <2>2. acked \in Seq(Packets)
    BY DEF Init
  <2> QED
    BY <2>1, <2>2 DEF Init, TypeOK, TimerSet, UpdateType
<1>2. Planned /\ Fresh /\ OneUnderway
  BY DEF Init, NoUpdate, Planned, Fresh, OneUnderway, Underway, Answers
<1> QED
  BY <1>1, <1>2 DEF InOrder

---------------------------------------------------------------------------
(* Devices *)

\* What was answered, or can be, is a device the C library has.
Known ==
  Up /\ netw = "open" =>
    /\ cache \subseteq table
    /\ \A r \in sent : r.sid \in table
    /\ \A j \in jobs : j.ok => j.req.sid \in table

\* What is sent asks a device the C library has, and what fails at once is no answer.
LEMMA SendKnown ==
  ASSUME Known, NEW r, Send(r), Up, UNCHANGED cache
  PROVE  Known'
<1>1. CASE netw = "open" /\ ~UNCHANGED <<sent, jobs>>
  <2>1. /\ UNCHANGED <<netw, table, fault>>
        /\ \/ r.sid \in table /\ sent' = sent \cup {r} /\ UNCHANGED jobs
           \/ jobs' = jobs \cup Rejected({r}) /\ UNCHANGED sent
    BY <1>1 DEF Send, SendFails, deviceVars
  <2>2. \A j \in Rejected({r}) : ~j.ok
    BY DEF Rejected, Job
  <2> QED
    BY <1>1, <2>1, <2>2 DEF Known
<1>2. CASE netw # "open" \/ UNCHANGED <<sent, jobs>>
  <2>1. netw' = netw /\ (UNCHANGED <<sent, jobs>> => table' = table)
    BY DEF Send, SendFails, deviceVars
  <2> QED
    BY <1>2, <2>1 DEF Known
<1> QED
  BY <1>1, <1>2

\* After early_destruct the network is not open.
LEMMA DestructKnown ==
  ASSUME Known, NEW inPoll, EarlyDestruct(inPoll) PROVE netw' # "open"
BY DEF EarlyDestruct, deviceVars

\* No step leaves a device in the cache that is not in the table.
LEMMA StepKnown ==
  ASSUME Known, Next, RemoveFrom \subseteq {"task"}
  PROVE  Known'
<1>1. ASSUME NEW s \in Serials, PollNew(s) PROVE Known'
  <2>1. About(s).sid = s
    BY DEF About, Request
  <2> QED
    BY <1>1, <2>1 DEF PollNew, Known
<1>2. CASE PollEvent \/ PollSendFails
  BY <1>2 DEF PollEvent, PollSendFails, SendFails, deviceVars, Known, Up
<1>3. ASSUME NEW r \in sent, NEW ok \in BOOLEAN, PollAnswer(r, ok) PROVE Known'
  <2>1. Job(r, ok).req = r
    BY DEF Job
  <2> QED
    BY <1>3, <2>1 DEF PollAnswer, Known, Up
<1>4. ASSUME NEW r \in Runs, PollReturns(r) PROVE Known'
  <2>1. cache' = cache /\ (UNCHANGED <<deviceVars, fault>> \/ netw' # "open")
    BY <1>4, DestructKnown DEF PollReturns
  <2> QED
    BY <2>1 DEF Known, Up, deviceVars
<1>5. ASSUME NEW j \in jobs, AboutDone(j) \/ PacketDone(j) \/ RefreshDone(j) PROVE Known'
  <2>1. /\ jobs' \subseteq jobs /\ UNCHANGED <<netw, table, sent>> /\ Up
        /\ cache' \subseteq IF j.ok THEN cache \cup {j.req.sid} ELSE cache
    BY <1>5 DEF AboutDone, PacketDone, RefreshDone, Continues
  <2> QED
    BY <2>1 DEF Known
<1>6. CASE UpdateNext
  <2>1. \E r : Send(r)
    BY <1>6 DEF UpdateNext, Advance
  <2> QED
    BY <1>6, <2>1, SendKnown DEF UpdateNext
<1>7. CASE Run
  BY <1>7 DEF Run, deviceVars, Known, Up
<1>8. CASE Shutdown
  <2>1. cache' = cache /\ (UNCHANGED <<deviceVars, fault>> \/ netw' # "open")
    BY <1>8, DestructKnown DEF Shutdown
  <2> QED
    BY <2>1 DEF Known, Up, deviceVars
<1>9. CASE Devices
  BY <1>9 DEF Devices, deviceVars, Known, Up
<1>10. ASSUME NEW s \in Serials, Remove(s) PROVE Known'
  <2>1. Place = "task"
    BY <1>10 DEF Remove
  <2>2. jobs = {}
    BY <2>1 DEF Place
  <2>3. \A j \in jobs' : ~j.ok
    BY <1>10, <2>2 DEF Remove, Rejected, Job
  <2> QED
    BY <1>10, <2>3 DEF Remove, Known, Up
<1>11. ASSUME NEW s \in Serials, NEW d \in Dashboards, Update(s, d) PROVE Known'
  <2>1. \E r : Send(r)
    BY <1>11 DEF Update, Advance
  <2> QED
    BY <1>11, <2>1, SendKnown DEF Update
<1>12. ASSUME NEW r \in Runs, Fire(r) PROVE Known'
  BY <1>12 DEF Fire, deviceVars, Known, Up
<1> QED
  BY <1>1, <1>2, <1>3, <1>4, <1>5, <1>6, <1>7, <1>8, <1>9, <1>10, <1>11, <1>12
  DEF Next, Poll, Continue, Application

---------------------------------------------------------------------------
(* The loop *)

Loop ==
  /\ fault # "poll"
  /\ Up =>
       /\ polling => loops[1] = "firing"
       /\ loops[1] = "armed" => shutdownTimer = 1
       /\ loops[1] \in {"none", "armed", "firing"} => netw = "open" /\ settled = {}
       /\ loops[1] = "firing" => polling
       /\ loops[1] \in {"cleared", "ended"} => netw = "destroyed"
       /\ loops[1] = "none" => shutdownTimer = None

\* No step lets the timer of the one run outlive the network.
LEMMA StepLoop ==
  ASSUME InOrder, Loop, Next, MaxRuns = 1
  PROVE  Loop'
<1>1. Runs = {1} /\ 1 # None
  BY DEF Runs
<1> USE DEF Up
<1>2. loops \in [{1} -> {"none", "armed", "firing", "cleared", "ended"}]
      /\ shutdownTimer \in {1, None} /\ settled \subseteq {1}
  BY <1>1 DEF InOrder, TypeOK
<1>3. ASSUME UNCHANGED <<polling, loops, shutdownTimer, settled, netw>>, Up, fault' # "poll"
      PROVE  Loop'
  BY <1>3 DEF Loop
<1>4. ASSUME NEW r, Send(r), Up, UNCHANGED loopVars PROVE Loop'
  BY <1>3, <1>4 DEF Send, SendFails, deviceVars, loopVars
<1>5. ASSUME NEW s \in Serials, PollNew(s) PROVE Loop'
  BY <1>3, <1>5 DEF PollNew, loopVars
<1>6. CASE PollEvent \/ PollSendFails
  BY <1>3, <1>6 DEF PollEvent, PollSendFails, SendFails, loopVars, deviceVars
<1>7. ASSUME NEW r \in sent, NEW ok \in BOOLEAN, PollAnswer(r, ok) PROVE Loop'
  BY <1>3, <1>7 DEF PollAnswer, loopVars
<1>8. ASSUME NEW r \in Runs, PollReturns(r) PROVE Loop'
  <2>1. r = 1 /\ loops[1] = "firing" /\ Up /\ netw = "open" /\ polling' = FALSE
    BY <1>1, <1>8 DEF PollReturns, Loop
  <2>2. CASE running
    BY <1>2, <1>8, <2>1, <2>2 DEF PollReturns, Loop, deviceVars
  <2>3. CASE ~running
    <3>1. loops' = [loops EXCEPT ![1] = "ended"] /\ EarlyDestruct(FALSE)
      BY <1>8, <2>1, <2>3 DEF PollReturns
    <3>2. netw' = "destroyed" /\ fault' = fault
      BY <2>1, <3>1 DEF EarlyDestruct
    <3> QED
      BY <1>2, <2>1, <3>1, <3>2 DEF Loop
  <2> QED
    BY <2>2, <2>3
<1>9. ASSUME NEW j \in jobs, AboutDone(j) \/ PacketDone(j) \/ RefreshDone(j) PROVE Loop'
  BY <1>3, <1>9 DEF AboutDone, PacketDone, RefreshDone, Continues, loopVars
<1>10. CASE UpdateNext
  <2>1. \E r : Send(r)
    BY <1>10 DEF UpdateNext, Advance
  <2> QED
    BY <1>4, <1>10, <2>1 DEF UpdateNext
<1>11. CASE Run
  <2>1. Latest = 0 /\ loops[1] = "none"
    BY <1>1, <1>11, LatestIsRun DEF Run, InOrder
  <2>2. loops'[1] = "armed" /\ shutdownTimer' = 1 /\ UNCHANGED <<polling, settled, netw, fault>>
    BY <1>2, <1>11, <2>1 DEF Run, deviceVars
  <2> QED
    BY <1>11, <2>1, <2>2 DEF Run, Loop
<1>12. CASE Shutdown
  <2>1. CASE shutdownTimer = None
    BY <1>3, <1>12, <2>1 DEF Shutdown, deviceVars, Loop
  <2>2. CASE shutdownTimer # None
    <3>1. shutdownTimer = 1 /\ Up /\ loops[1] # "none"
      BY <1>2, <1>12, <2>2 DEF Shutdown, InOrder, TimerSet
    <3>2. /\ loops' = [loops EXCEPT ![1] = IF @ = "armed" THEN "cleared" ELSE @]
          /\ shutdownTimer' = None /\ EarlyDestruct(polling) /\ UNCHANGED polling
      BY <1>12, <2>2, <3>1 DEF Shutdown
    <3>3. CASE polling
      <4>1. netw = "open" /\ fault' = "reentrant"
        BY <3>1, <3>2, <3>3 DEF Loop, EarlyDestruct
      <4> QED
        BY <4>1 DEF Loop
    <3>4. CASE ~polling
      <4>1. loops[1] \in {"armed", "cleared", "ended"}
        BY <1>2, <3>1, <3>4 DEF Loop
      <4>2. loops'[1] \in {"cleared", "ended"}
        BY <1>2, <3>2, <4>1
      <4>3. netw' = "destroyed" /\ fault' = fault
        <5>1. netw \in {"open", "destroyed"}
          BY DEF InOrder, TypeOK
        <5> QED
          BY <3>2, <3>4, <5>1 DEF EarlyDestruct, deviceVars
      <4> QED
        BY <3>2, <3>4, <4>2, <4>3 DEF Loop
    <3> QED
      BY <3>3, <3>4
  <2> QED
    BY <2>1, <2>2
<1>13. CASE Devices
  BY <1>3, <1>13 DEF Devices, loopVars, deviceVars
<1>14. ASSUME NEW s \in Serials, Remove(s) PROVE Loop'
  BY <1>3, <1>14 DEF Remove, loopVars
<1>15. ASSUME NEW s \in Serials, NEW d \in Dashboards, Update(s, d) PROVE Loop'
  <2>1. \E r : Send(r)
    BY <1>15 DEF Update, Advance
  <2> QED
    BY <1>4, <1>15, <2>1 DEF Update
<1>16. ASSUME NEW r \in Runs, Fire(r) PROVE Loop'
  <2>1. r = 1 /\ loops[1] = "armed" /\ netw = "open"
    BY <1>1, <1>16 DEF Fire, Loop
  <2>2. /\ loops'[1] = "firing" /\ polling' /\ UNCHANGED <<shutdownTimer, settled, netw, fault>>
    BY <1>2, <1>16, <2>1 DEF Fire, deviceVars
  <2> QED
    BY <1>16, <2>1, <2>2 DEF Fire, Loop
<1> QED
  BY <1>5, <1>6, <1>7, <1>8, <1>9, <1>10, <1>11, <1>12, <1>13, <1>14, <1>15, <1>16
  DEF Next, Poll, Continue, Application

\* What netw.poll works on while it is on the stack.
Polled == polling => netw = "open"

\* Only a shutdown in a callback destroys the network under a poll.
LEMMA StepPolled ==
  ASSUME InOrder, Polled, Next, "callback" \notin ShutdownFrom
  PROVE  Polled'
<1>1. ASSUME UNCHANGED <<polling, netw>> PROVE Polled'
  BY <1>1 DEF Polled
<1>2. ASSUME NEW r, Send(r), UNCHANGED loopVars PROVE Polled'
  BY <1>1, <1>2 DEF Send, SendFails, deviceVars, loopVars
<1>3. ASSUME NEW s \in Serials, PollNew(s) PROVE Polled'
  BY <1>1, <1>3 DEF PollNew, loopVars
<1>4. CASE PollEvent \/ PollSendFails
  BY <1>1, <1>4 DEF PollEvent, PollSendFails, SendFails, loopVars, deviceVars
<1>5. ASSUME NEW r \in sent, NEW ok \in BOOLEAN, PollAnswer(r, ok) PROVE Polled'
  BY <1>1, <1>5 DEF PollAnswer, loopVars
<1>6. ASSUME NEW r \in Runs, PollReturns(r) PROVE Polled'
  BY <1>6 DEF PollReturns, Polled
<1>7. ASSUME NEW j \in jobs, AboutDone(j) \/ PacketDone(j) \/ RefreshDone(j) PROVE Polled'
  BY <1>1, <1>7 DEF AboutDone, PacketDone, RefreshDone, loopVars
<1>8. CASE UpdateNext
  <2>1. \E r : Send(r)
    BY <1>8 DEF UpdateNext, Advance
  <2> QED
    BY <1>2, <1>8, <2>1 DEF UpdateNext
<1>9. CASE Run \/ Devices
  BY <1>1, <1>9 DEF Run, Devices, loopVars, deviceVars
<1>10. CASE Shutdown
  <2>1. ~polling /\ polling' = polling
    BY <1>10 DEF Shutdown, Place
  <2> QED
    BY <2>1 DEF Polled
<1>11. ASSUME NEW s \in Serials, Remove(s) PROVE Polled'
  BY <1>1, <1>11 DEF Remove, loopVars
<1>12. ASSUME NEW s \in Serials, NEW d \in Dashboards, Update(s, d) PROVE Polled'
  <2>1. \E r : Send(r)
    BY <1>12 DEF Update, Advance
  <2> QED
    BY <1>2, <1>12, <2>1 DEF Update
<1>13. ASSUME NEW r \in Runs, Fire(r) PROVE Polled'
  <2>1. netw \in {"open", "destroyed"} /\ netw' = netw
    BY <1>13 DEF InOrder, TypeOK, Fire, deviceVars
  <2> QED
    BY <1>13, <2>1 DEF Fire, Polled
<1> QED
  BY <1>3, <1>4, <1>5, <1>6, <1>7, <1>8, <1>9, <1>10, <1>11, <1>12, <1>13
  DEF Next, Poll, Continue, Application

---------------------------------------------------------------------------
(* Theorems *)

\* The order of an update is kept in every reachable state.
LEMMA InOrderHolds == Spec => []InOrder
<1>1. InOrder /\ [Next]_vars => InOrder'
  BY NextInOrder
<1> QED
  BY InitInOrder, <1>1, PTL DEF Spec

\* The fields of the class, the addon and the stream keep their types; the count an update
\* emits never goes below zero.
THEOREM TypeCorrect == Spec => []TypeOK
<1>1. InOrder => TypeOK
  BY DEF InOrder
<1> QED
  BY InOrderHolds, <1>1, PTL

\* The packets of an update of two files are answered in their order, with the counts that
\* belong to them, also when devices are removed, requests fail or the network is shut down
\* meanwhile (Linq.ts:279).
THEOREM UpdatesInOrder ==
  ASSUME \A d \in Dashboards : Len(d) = 2 /\ d[1] # <<>> /\ d[2] # <<>>
  PROVE  Spec => []UpdateInOrder
<1>1. InOrder => UpdateInOrder
  <2>1. SUFFICES ASSUME InOrder, update.phase # "idle"
                 PROVE  LET all == update.files[1] \o update.files[2]
                        IN  /\ acked = SubSeq(all, 1, Len(acked))
                            /\ update.remaining = Len(all) - Len(acked)
                            /\ update.phase \in {"refreshing", "done"} => acked = all
    BY DEF UpdateInOrder
  <2> DEFINE all == Plan(update.files)
  <2>2. update.files \in Dashboards
    BY <2>1 DEF InOrder, Planned
  <2>3. update.files[1] \o update.files[2] = all /\ all \in Seq(Packets)
    BY <2>2, PlanOfTwoFiles, PlanIsPackets
  <2>4. /\ acked = SubSeq(all, 1, Len(acked)) /\ update.remaining = Len(all) - Len(acked)
        /\ update.phase \in {"refreshing", "done"} => Len(acked) = Len(all)
    BY <2>1 DEF InOrder, Planned
  <2> HIDE DEF all
  <2>5. SubSeq(all, 1, Len(all)) = all
    BY <2>3, SubSeqFull
  <2> QED
    BY <2>3, <2>4, <2>5
<1> QED
  BY InOrderHolds, <1>1, PTL

\* An application that removes devices from tasks of its own is told of no device the C
\* library does not have (Linq.ts:61, 113, 249).
THEOREM CacheIsWithinTable ==
  ASSUME RemoveFrom \subseteq {"task"}
  PROVE  Spec => []CacheWithinTable
<1>1. Init => Known
  BY DEF Init, Known
<1>2. Known /\ [Next]_vars => Known'
  <2>1. ASSUME Known, UNCHANGED vars PROVE Known'
    BY <2>1 DEF vars, Known, Up
  <2> QED
    BY <2>1, StepKnown
<1>3. Known => CacheWithinTable
  BY DEF Known, CacheWithinTable
<1> QED
  BY <1>1, <1>2, <1>3, PTL DEF Spec

\* The timer and the network agree in every reachable state.
LEMMA LoopHolds == ASSUME MaxRuns = 1 PROVE Spec => []Loop
<1>1. Init => Loop
  <2>1. 1 \in Runs
    BY DEF Runs
  <2> QED
    BY <2>1 DEF Init, Loop
<1>2. InOrder /\ Loop /\ [Next]_vars => Loop'
  <2>1. ASSUME Loop, UNCHANGED vars PROVE Loop'
    BY <2>1 DEF vars, Loop, Up
  <2> QED
    BY <2>1, StepLoop
<1> QED
  BY InOrderHolds, <1>1, <1>2, PTL DEF Spec

\* An application that calls run once, and shutdown from tasks and continuations, never has
\* netw.poll called on a network that was destroyed, nor the network destroyed under a
\* netw.poll that is on the stack (Linq.ts:255-264, 299-320).  Called in a callback, shutdown
\* does the latter.
THEOREM LoopPollsOpenHolds ==
  ASSUME MaxRuns = 1, "callback" \notin ShutdownFrom
  PROVE  Spec => []LoopPollsOpen
<1>1. Init => Polled
  BY DEF Init, Polled
<1>2. InOrder /\ Polled /\ [Next]_vars => Polled'
  <2>1. ASSUME Polled, UNCHANGED vars PROVE Polled'
    BY <2>1 DEF vars, Polled
  <2> QED
    BY <2>1, StepPolled
<1>3. Loop /\ Polled => LoopPollsOpen
  BY DEF Loop, Polled, LoopPollsOpen
<1> QED
  BY InOrderHolds, LoopHolds, <1>1, <1>2, <1>3, PTL DEF Spec

\* An application that calls run once finds the timer gone and the network destroyed when the
\* promise of run is resolved (Linq.ts:299-320).
THEOREM SettledIsOverHolds == ASSUME MaxRuns = 1 PROVE Spec => []SettledIsOver
<1>1. InOrder /\ Loop => SettledIsOver
  <2>1. SUFFICES ASSUME InOrder, Loop, Up, NEW r \in settled
                 PROVE  loops[r] \in {"cleared", "ended"} /\ netw = "destroyed"
    BY DEF SettledIsOver
  <2>2. r = 1 /\ loops[1] \in {"none", "armed", "firing", "cleared", "ended"}
    BY <2>1 DEF InOrder, TypeOK, Runs
  <2> QED
    BY <2>1, <2>2 DEF Loop
<1> QED
  BY InOrderHolds, LoopHolds, <1>1, PTL
===========================================================================
