------------------------------ MODULE LinqJS ------------------------------
(***************************************************************************)
(* The Node.js binding: the class Linq of bindings/node/lib/src/Linq.ts    *)
(* over the addon of bindings/node/src/LinqJS.cc.                          *)
(*                                                                         *)
(* JavaScript runs on one thread.  A timer of run() calls netw.poll, and   *)
(* the callbacks of the C library call into JavaScript while that poll is  *)
(* on the stack; the promises a callback settles are continued after the   *)
(* poll returned and before the next timer.  So code of the application    *)
(* runs in three places: in a task of its own, in the continuation of a    *)
(* promise, and in a callback inside netw.poll.  shutdown() frees the      *)
(* network wherever it is called.                                          *)
(*                                                                         *)
(* sys_running() of src/zmtp/zmtp.c returns true, so on_ctrlc is never     *)
(* called, isRunning() is true, and neither is part of the state.          *)
(***************************************************************************)
EXTENDS Integers, Sequences, FiniteSets

CONSTANTS
  Serials,        \* the serial numbers of devices
  Packets,        \* the packets of updates
  Dashboards,     \* the updates of the application: sequences of files, each the
                  \* sequence of its packets, empty when it holds no valid update
  ShutdownFrom,   \* where the application calls shutdown
  RemoveFrom,     \* where the application calls remove
  MaxRuns,        \* bound: how often it calls run
  None

Places == {"task", "continuation", "callback"}

ASSUME LinqJSAssumption ==
  /\ MaxRuns \in Nat
  /\ Dashboards \subseteq Seq(Seq(Packets)) \ {<<>>} /\ None \notin Packets
  /\ ShutdownFrom \subseteq Places /\ RemoveFrom \subseteq Places
  /\ None \notin Serials /\ None \notin Nat

VARIABLES
  running,        \* Linq.running
  netw,           \* netw_ of the addon: "open", or "destroyed" and NULL
  table,          \* the devices in the table of the C library
  sent,           \* requests the C library holds, each with a promise
  polling,        \* whether netw.poll is on the stack
  loops,          \* per run, the state of its timer
  shutdownTimer,  \* Linq.shutdownTimer: the run whose timer it holds, or None
  settled,        \* the runs whose promise was resolved
  open,           \* whether takeWhileRunning still listens to the callbacks
  jobs,           \* the settled promises whose continuation has not run
  cache,          \* the keys of Linq._devices
  update,         \* the update stream of the application
  acked,          \* history: the packets of the update that were answered
  fault           \* how the process went wrong: a call with netw_ NULL ends it, and
                  \* after a destroy inside a poll nothing is defined

loopVars == <<running, polling, loops, shutdownTimer, settled>>
deviceVars == <<netw, table, sent, jobs>>
vars == <<running, netw, table, sent, polling, loops, shutdownTimer, settled, open,
          jobs, cache, update, acked, fault>>

---------------------------------------------------------------------------
(* Data *)

Runs == 1..MaxRuns

Started == {r \in Runs : loops[r] # "none"}

\* The run whose promise shutdownResolve resolves: the last one
Latest == Cardinality(Started)

Request(s, for, p) == [sid |-> s, for |-> for, packet |-> p]

About(s) == Request(s, "about", None)
Refresh(s) == Request(s, "refresh", None)
Packet(s, p) == Request(s, "packet", p)

Requests == [sid : Serials, for : {"about", "refresh", "packet"}, packet : Packets \cup {None}]

Job(r, ok) == [req |-> r, ok |-> ok]

Rejected(rs) == {Job(r, FALSE) : r \in rs}

\* Two of its files hold a valid update.
IsUpdateDashboard(d) == Cardinality({i \in DOMAIN d : d[i] # <<>>}) = 2

NormalizeUpdateDashboard(d) == d[1] \o d[2]

NoUpdate == [sid |-> None, todo |-> <<>>, remaining |-> 0, phase |-> "idle", files |-> <<>>]

\* Between the steps of the stream the application handles its next value.
Streaming == update.phase = "next"

Place ==
  IF polling THEN "callback"
  ELSE IF jobs # {} \/ Streaming THEN "continuation" ELSE "task"

---------------------------------------------------------------------------
(* The addon *)

Up == fault = "none"

\* early_destruct, called from a poll or not: every pending request fails with
\* LINQ_ERROR_SHUTTING_DOWN.  The second call does nothing.  Inside a poll, netw_poll goes
\* on over what was freed, and the process is not followed any further.
EarlyDestruct(inPoll) ==
  IF netw = "open"
  THEN /\ netw' = "destroyed"
       /\ table' = {}
       /\ jobs' = jobs \cup Rejected(sent)
       /\ sent' = {}
       /\ fault' = IF inPoll THEN "reentrant" ELSE fault
  ELSE UNCHANGED <<deviceVars, fault>>

\* A request that cannot be sent ends without a text, and Linq::on_response builds a
\* std::string from NULL, which throws through the C library.
SendFails == fault' = "null_json" /\ UNCHANGED deviceVars

\* netw.send: a request for a device that is not in the table is rejected at once.
Send(r) ==
  \/ netw = "destroyed" /\ fault' = "send" /\ UNCHANGED deviceVars
  \/ netw = "open" /\ r.sid \in table /\ SendFails
  \/ /\ netw = "open"
     /\ IF r.sid \in table
        THEN sent' = sent \cup {r} /\ UNCHANGED jobs
        ELSE jobs' = jobs \cup Rejected({r}) /\ UNCHANGED sent
     /\ UNCHANGED <<netw, table, fault>>

---------------------------------------------------------------------------
(* Inside netw.poll *)

\* A device is found: the callback "new" asks it about itself, unless the network was
\* shut down, which closes the pipeline.
PollNew(s) ==
  LET passes == open /\ running
  IN  /\ Up /\ polling
      /\ s \notin table
      /\ table' = table \cup {s}
      /\ sent' = IF passes THEN sent \cup {About(s)} ELSE sent
      /\ open' = passes
      /\ UNCHANGED <<loopVars, netw, jobs, cache, update, acked, fault>>

\* The callbacks "heartbeat" and "alert", and "error" when the library names a serial
\* number: the event goes on to the application, or closes the pipeline.
PollEvent ==
  /\ Up /\ polling
  /\ table # {}
  /\ open' = (open /\ running)
  /\ UNCHANGED <<loopVars, deviceVars, cache, update, acked, fault>>

\* The request ends: the promise is resolved or rejected, its continuation has to wait.
PollAnswer(r, ok) ==
  /\ Up /\ polling
  /\ r \in sent
  /\ sent' = sent \ {r}
  /\ jobs' = jobs \cup {Job(r, ok)}
  /\ UNCHANGED <<loopVars, netw, table, open, cache, update, acked, fault>>

\* A request that waited for its turn, or is sent again, cannot be sent.
PollSendFails ==
  /\ Up /\ polling
  /\ sent # {}
  /\ SendFails
  /\ UNCHANGED <<loopVars, open, cache, update, acked>>

\* Wrong: poll() goes on as long as the addon does.
PollReturnsUnasked(r) ==
  /\ Up /\ polling
  /\ loops[r] = "firing"
  /\ polling' = FALSE
  /\ loops' = [loops EXCEPT ![r] = "armed"]
  /\ shutdownTimer' = r
  /\ UNCHANGED <<running, settled, deviceVars, open, cache, update, acked, fault>>

\* Wrong: the end of the loop leaves the network to the garbage collector.
PollReturnsUndestroyed(r) ==
  /\ Up /\ polling
  /\ loops[r] = "firing"
  /\ polling' = FALSE
  /\ IF running
     THEN loops' = [loops EXCEPT ![r] = "armed"] /\ shutdownTimer' = r /\ UNCHANGED settled
     ELSE /\ loops' = [loops EXCEPT ![r] = "ended"]
          /\ settled' = settled \cup {Latest}
          /\ UNCHANGED shutdownTimer
  /\ UNCHANGED <<running, deviceVars, open, cache, update, acked, fault>>

\* netw.poll returned to the callback of the timer.
PollReturns(r) ==
  /\ Up /\ polling
  /\ loops[r] = "firing"
  /\ polling' = FALSE
  /\ \/ /\ running
        /\ loops' = [loops EXCEPT ![r] = "armed"]
        /\ shutdownTimer' = r
        /\ UNCHANGED <<settled, deviceVars, fault>>
     \/ /\ ~running
        /\ loops' = [loops EXCEPT ![r] = "ended"]
        /\ EarlyDestruct(FALSE)
        /\ settled' = settled \cup {Latest}
        /\ UNCHANGED shutdownTimer
  /\ UNCHANGED <<running, open, cache, update, acked>>

---------------------------------------------------------------------------
(* Continuations *)

Continues(j) ==
  /\ Up /\ ~polling /\ ~Streaming
  /\ j \in jobs

\* The answer to the question about a new device is kept with what the C library knows
\* of it and emitted as "new"; without an answer nothing is.
AboutDone(j) ==
  /\ Continues(j)
  /\ j.req.for = "about"
  /\ jobs' = jobs \ {j}
  /\ IF ~j.ok THEN UNCHANGED <<cache, fault>>
     ELSE IF netw = "destroyed" THEN fault' = "devices" /\ UNCHANGED cache
     ELSE cache' = cache \cup {j.req.sid} /\ UNCHANGED fault
  /\ UNCHANGED <<loopVars, netw, table, sent, open, update, acked>>

\* A packet was answered: the stream emits how many remain, and goes on from there.
PacketDone(j) ==
  /\ Continues(j)
  /\ j.req.for = "packet"
  /\ jobs' = jobs \ {j}
  /\ IF j.ok
     THEN /\ update' = [update EXCEPT !.remaining = @ - 1, !.phase = "next"]
          /\ acked' = Append(acked, j.req.packet)
     ELSE update' = [update EXCEPT !.phase = "failed"] /\ UNCHANGED acked
  /\ UNCHANGED <<loopVars, netw, table, sent, open, cache, fault>>

\* Wrong: the answer is emitted and counted like that of a packet.
RefreshDoneCounted(j) ==
  /\ Continues(j)
  /\ j.req.for = "refresh"
  /\ jobs' = jobs \ {j}
  /\ cache' = IF j.ok THEN cache \cup {j.req.sid} ELSE cache
  /\ update' = [update EXCEPT !.phase = IF j.ok THEN "done" ELSE "failed",
                              !.remaining = @ - 1]
  /\ UNCHANGED <<loopVars, netw, table, sent, open, acked, fault>>

\* refresh ends, and with it the stream, which emits nothing for it.
RefreshDone(j) ==
  /\ Continues(j)
  /\ j.req.for = "refresh"
  /\ jobs' = jobs \ {j}
  /\ cache' = IF j.ok THEN cache \cup {j.req.sid} ELSE cache
  /\ update' = [update EXCEPT !.phase = IF j.ok THEN "done" ELSE "failed"]
  /\ UNCHANGED <<loopVars, netw, table, sent, open, acked, fault>>

\* Wrong: all packets are sent at once (mergeMap).
AdvanceAll(u) ==
  IF u.todo # <<>>
  THEN /\ sent' = sent \cup {Packet(u.sid, u.todo[i]) : i \in DOMAIN u.todo}
       /\ update' = [u EXCEPT !.todo = <<>>, !.phase = "sending"]
       /\ UNCHANGED <<netw, table, jobs, fault>>
  ELSE Send(Refresh(u.sid)) /\ update' = [u EXCEPT !.phase = "refreshing"]

\* The next packet is sent when the one before it was answered, and after the last the
\* device is asked about itself again.
Advance(u) ==
  IF u.todo # <<>>
  THEN /\ Send(Packet(u.sid, Head(u.todo)))
       /\ update' = [u EXCEPT !.todo = Tail(@), !.phase = "sending"]
  ELSE Send(Refresh(u.sid)) /\ update' = [u EXCEPT !.phase = "refreshing"]

UpdateNext ==
  /\ Up /\ ~polling /\ Streaming
  /\ Advance(update)
  /\ UNCHANGED <<loopVars, open, cache, acked>>

---------------------------------------------------------------------------
(* Timers, and calls of the application *)

\* The timer of a run fires when the thread is idle.
Fire(r) ==
  /\ Up /\ Place = "task"
  /\ loops[r] = "armed"
  /\ loops' = [loops EXCEPT ![r] = "firing"]
  /\ IF netw = "destroyed" THEN fault' = "poll" /\ UNCHANGED polling
                           ELSE polling' = TRUE /\ UNCHANGED fault
  /\ UNCHANGED <<running, shutdownTimer, settled, deviceVars, open, cache, update, acked>>

Run ==
  /\ Up /\ Place = "task"
  /\ Latest < MaxRuns
  /\ loops' = [loops EXCEPT ![Latest + 1] = "armed"]
  /\ shutdownTimer' = Latest + 1
  /\ UNCHANGED <<running, polling, settled, deviceVars, open, cache, update, acked, fault>>

\* Wrong: the timer is forgotten and still fires.
ShutdownUncleared ==
  /\ Up /\ Place \in ShutdownFrom
  /\ running' = FALSE
  /\ IF shutdownTimer = None
     THEN UNCHANGED <<loops, shutdownTimer, settled, deviceVars, fault>>
     ELSE /\ shutdownTimer' = None
          /\ EarlyDestruct(polling)
          /\ settled' = settled \cup {Latest}
          /\ UNCHANGED loops
  /\ UNCHANGED <<polling, open, cache, update, acked>>

\* shutdownTimer still holds a timer that has fired, until poll() sets the next one.
Shutdown ==
  /\ Up /\ Place \in ShutdownFrom
  /\ running' = FALSE
  /\ IF shutdownTimer = None
     THEN UNCHANGED <<loops, shutdownTimer, settled, deviceVars, fault>>
     ELSE /\ loops' = [loops EXCEPT ![shutdownTimer] = IF @ = "armed" THEN "cleared" ELSE @]
          /\ shutdownTimer' = None
          /\ EarlyDestruct(polling)
          /\ settled' = settled \cup {Latest}
  /\ UNCHANGED <<polling, open, cache, update, acked>>

\* Wrong: the device stays among the devices the binding knows.
RemoveCached(s) ==
  /\ Up /\ Place \in RemoveFrom
  /\ netw = "open" /\ s \in table \cup cache
  /\ table' = table \ {s}
  /\ jobs' = jobs \cup Rejected({r \in sent : r.sid = s})
  /\ sent' = {r \in sent : r.sid # s}
  /\ UNCHANGED <<loopVars, netw, open, cache, update, acked, fault>>

\* remove: the C library fails the requests of the device.  (The application does not
\* call a network it has shut down.)
Remove(s) ==
  /\ Up /\ Place \in RemoveFrom
  /\ netw = "open" /\ s \in table \cup cache
  /\ cache' = cache \ {s}
  /\ table' = table \ {s}
  /\ jobs' = jobs \cup Rejected({r \in sent : r.sid = s})
  /\ sent' = {r \in sent : r.sid # s}
  /\ UNCHANGED <<loopVars, netw, open, update, acked, fault>>

\* The getter devices adds what the C library knows to what the binding knows.
Devices ==
  /\ Up /\ netw = "open"
  /\ cache' = cache \cup table
  /\ UNCHANGED <<loopVars, deviceVars, open, update, acked, fault>>

\* update, and the subscription to its stream.  What is no dashboard is a sequence of
\* packets.
Update(s, d) ==
  LET packets == IF IsUpdateDashboard(d) THEN NormalizeUpdateDashboard(d) ELSE d[1]
  IN  /\ Up /\ netw = "open" /\ Place = "task"
      /\ update.phase = "idle"
      /\ Advance([sid |-> s, todo |-> packets, remaining |-> Len(packets),
                  phase |-> "next", files |-> d])
      /\ UNCHANGED <<loopVars, open, cache, acked>>

---------------------------------------------------------------------------

Init ==
  /\ running = TRUE
  /\ netw = "open"
  /\ table = {} /\ sent = {} /\ jobs = {} /\ cache = {}
  /\ polling = FALSE
  /\ loops = [r \in Runs |-> "none"]
  /\ shutdownTimer = None
  /\ settled = {}
  /\ open = TRUE
  /\ update = NoUpdate
  /\ acked = <<>>
  /\ fault = "none"

Poll ==
  \/ \E s \in Serials : PollNew(s)
  \/ PollEvent
  \/ \E r \in sent, ok \in BOOLEAN : PollAnswer(r, ok)
  \/ PollSendFails
  \/ \E r \in Runs : PollReturns(r)

Continue ==
  \/ \E j \in jobs : AboutDone(j) \/ PacketDone(j) \/ RefreshDone(j)
  \/ UpdateNext

Application ==
  \/ Run \/ Shutdown \/ Devices
  \/ \E s \in Serials : Remove(s)
  \/ \E s \in Serials, d \in Dashboards : Update(s, d)

Next == Poll \/ Continue \/ Application \/ \E r \in Runs : Fire(r)

\* Node.js continues settled promises and fires timers, and zmtp_poll returns after its
\* time.
Fairness ==
  /\ WF_vars(Continue)
  /\ \A r \in Runs : WF_vars(Fire(r)) /\ WF_vars(PollReturns(r))

Spec == Init /\ [][Next]_vars /\ Fairness

---------------------------------------------------------------------------
(* Properties *)

TypeOK ==
  /\ running \in BOOLEAN /\ polling \in BOOLEAN /\ open \in BOOLEAN
  /\ netw \in {"open", "destroyed"}
  /\ table \subseteq Serials /\ cache \subseteq Serials
  /\ sent \subseteq Requests
  /\ jobs \subseteq [req : Requests, ok : BOOLEAN]
  /\ loops \in [Runs -> {"none", "armed", "firing", "cleared", "ended"}]
  /\ shutdownTimer \in Runs \cup {None}
  /\ settled \subseteq Runs
  /\ update \in [sid : Serials \cup {None}, todo : Seq(Packets), remaining : Nat,
                 phase : {"idle", "next", "sending", "refreshing", "done", "failed"},
                 files : Seq(Seq(Packets))]
  /\ acked \in Seq(Packets)
  /\ fault \in {"none", "reentrant", "send", "devices", "poll", "null_json"}

\* netw.poll is not called on a network that was destroyed, and the network is not destroyed
\* while netw.poll is on the stack: "Arrive here, then [...] caller told us to shutdown. We
\* use earlyDestruct()" (Linq.ts:305-312).  It holds for an application that calls shutdown
\* from tasks and continuations.  In a callback, shutdown() itself destroys the network, and
\* the poll goes on over what was freed.
LoopPollsOpen == fault # "poll" /\ (polling => netw = "open")

\* When the promise of run() is resolved, its timer is gone and the network is destroyed:
\* an application that waits for the promise may exit or start anew (Linq.ts:299-320).
SettledIsOver ==
  Up => \A r \in settled : loops[r] \in {"cleared", "ended"} /\ netw = "destroyed"

\* The devices the binding reports are devices of the C library: none it removed stays or
\* comes back, as long as the application removes devices from tasks of its own (Linq.ts:61,
\* 113, 249).
CacheWithinTable == Up /\ netw = "open" => cache \subseteq table

\* The packets of both files are answered in their order, the count that is emitted with
\* each says what is left, and the stream ends only when all were answered (Linq.ts:279).
UpdateInOrder ==
  update.phase # "idle" =>
    LET all == update.files[1] \o update.files[2]
    IN  /\ acked = SubSeq(all, 1, Len(acked))
        /\ update.remaining = Len(all) - Len(acked)
        /\ update.phase \in {"refreshing", "done"} => acked = all

\* After shutdown() the promise of run() is resolved, also when shutdown() came first
\* (Linq.ts:255-264, 306-315).
ShutdownSettles ==
  \A r \in Runs : ~running /\ loops[r] # "none" ~> r \in settled \/ ~Up
===========================================================================
