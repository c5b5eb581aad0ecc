--------------------------- MODULE HopsProofs ---------------------------
(***************************************************************************)
(* What Hops says of broadcasts and forwarded requests, for any number of  *)
(* instances and however they are connected: nothing goes further than one *)
(* hop, and the device executes a request no more often than the retries   *)
(* of the two hops allow.                                                  *)
(***************************************************************************)
EXTENDS Hops, FiniteSetTheorems, TLAPS

---------------------------------------------------------------------------
(* The invariant *)

Messages ==
  [kind : {"hello"}] \cup [kind : {"heartbeat", "alert"}, marked : BOOLEAN]
  \cup [kind : {"request"}, id : Nat] \cup [kind : {"response"}, id : Nat \cup {None}]

\* What may be under way on the connection l when the instances in A have asked: unmarked
\* broadcasts come from the device and marked ones from Home, requests go to Home and from
\* there to the device, and responses go back.
Fits(m, l, A) ==
  /\ m.kind = "hello" => l \in Instances \X Instances
  /\ m.kind \in {"heartbeat", "alert"} =>
       IF m.marked THEN l[1] = Home /\ l[2] \in Instances ELSE l = <<Device, Home>>
  /\ m.kind = "request" =>
       l = <<Home, Device>> \/ (l[1] \in A \ {Home} /\ l[2] = Home)
  /\ m.kind = "response" =>
       l = <<Device, Home>> \/ (l[1] = Home /\ l[2] \in A)

Fit(l, A) == {m \in Messages : Fits(m, l, A)}

ChannelsFit(A) ==
  /\ DOMAIN channel = Pairs
  /\ \A l \in Pairs : channel[l] \in Seq(Fit(l, A)) /\ Len(channel[l]) <= MaxChannel

\* Whose requests the object of i may have
AskersOf(i, A) == {"app"} \cup (IF i = Home THEN A ELSE {})

ObjectFits(o, i, A) ==
  /\ o \in Objects
  /\ o.via = IF i = Home THEN Device ELSE Home
  /\ o.queue \in Seq(AskersOf(i, A))
  /\ o.pending \in AskersOf(i, A) \cup {None}
  /\ i # Home /\ i \notin A => o.pending = None /\ o.queue = <<>>

Typed ==
  /\ links \in Topologies
  /\ up \in [Instances -> BOOLEAN]
  /\ nodes \in [Instances -> SUBSET Instances]
  /\ object \in [Instances -> Objects \cup {None}]
  /\ beats \in 0..MaxBeats /\ alerts \in 0..MaxAlerts
  /\ asked \subseteq Askers
  /\ result \in [Instances -> {None, "ok", "timeout"}]
  /\ heard \in [Instances -> Nat] /\ executed \in Nat /\ refused \in BOOLEAN

Inv ==
  /\ Typed
  /\ ChannelsFit(asked)
  /\ \A i \in Instances : object[i] # None => ObjectFits(object[i], i, asked)

\* Intervals are finite.
LEMMA UpToFinite ==
  ASSUME NEW n \in Nat
  PROVE  IsFiniteSet(1..n)
BY FS_Interval

---------------------------------------------------------------------------
(* Counting the messages of a kind in a channel *)

KindAt(s, kind) == {n \in DOMAIN s : s[n].kind = kind}

Count(s, kind) == Cardinality(KindAt(s, kind))

IsKind(m, kind) == IF m.kind = kind THEN 1 ELSE 0

\* They can be counted.
LEMMA CountFinite ==
  ASSUME NEW S, NEW s \in Seq(S), NEW kind
  PROVE  IsFiniteSet(KindAt(s, kind)) /\ Count(s, kind) \in Nat
<1>1. Len(s) \in Nat /\ KindAt(s, kind) \subseteq 1..Len(s)
  BY DEF KindAt
<1>2. IsFiniteSet(1..Len(s))
  BY <1>1, UpToFinite
<1>3. IsFiniteSet(KindAt(s, kind))
  BY <1>1, <1>2, FS_Subset
<1> QED
  BY <1>3, FS_CardinalityType DEF Count

\* Appending one adds one to the count.
LEMMA AppendCount ==
  ASSUME NEW S, NEW s \in Seq(S), NEW m, NEW kind
  PROVE  Count(Append(s, m), kind) = Count(s, kind) + IsKind(m, kind)
<1> DEFINE t == Append(s, m)
<1>1. /\ DOMAIN t = 1..(Len(s) + 1) /\ t[Len(s) + 1] = m
      /\ \A n \in 1..Len(s) : t[n] = s[n]
  OBVIOUS
<1>2. DOMAIN s = 1..Len(s) /\ Len(s) \in Nat
  OBVIOUS
<1> HIDE DEF t
<1>3. CASE m.kind = kind
  <2>1. KindAt(t, kind) = KindAt(s, kind) \cup {Len(s) + 1}
    BY <1>1, <1>2, <1>3 DEF KindAt
  <2>2. Len(s) + 1 \notin KindAt(s, kind)
    BY <1>2 DEF KindAt
  <2>3. IsFiniteSet(KindAt(s, kind))
    BY CountFinite
  <2>4. Cardinality(KindAt(t, kind)) = Cardinality(KindAt(s, kind)) + 1
    BY <2>1, <2>2, <2>3, FS_AddElement
  <2> QED
    BY <1>3, <2>4 DEF Count, IsKind, t
<1>4. CASE m.kind # kind
  <2>1. KindAt(t, kind) = KindAt(s, kind)
    BY <1>1, <1>2, <1>4 DEF KindAt
  <2> QED
    BY <1>4, <2>1, CountFinite DEF Count, IsKind, t
<1> QED
  BY <1>3, <1>4

\* Taking one takes one from the count.
LEMMA TailCount ==
  ASSUME NEW S, NEW s \in Seq(S), s # <<>>, NEW kind
  PROVE  Count(Tail(s), kind) = Count(s, kind) - IsKind(Head(s), kind)
<1> DEFINE t == Tail(s)
           later == KindAt(s, kind) \ {1}
           f == [n \in KindAt(t, kind) |-> n + 1]
<1>1. /\ t \in Seq(S) /\ Len(s) \in Nat \ {0} /\ DOMAIN s = 1..Len(s)
      /\ DOMAIN t = 1..(Len(s) - 1) /\ \A n \in DOMAIN t : t[n] = s[n + 1]
  OBVIOUS
<1>2. \A n \in DOMAIN t : n + 1 \in DOMAIN s /\ n + 1 # 1
  BY <1>1
<1>3. \A n \in DOMAIN s : n # 1 => n - 1 \in DOMAIN t /\ s[n] = t[n - 1] /\ (n - 1) + 1 = n
  BY <1>1
<1>4. KindAt(t, kind) \subseteq Nat
  BY <1>1 DEF KindAt
<1> HIDE DEF t
<1>5. f \in [KindAt(t, kind) -> later]
  BY <1>1, <1>2 DEF KindAt
<1>6. \A a, b \in KindAt(t, kind) : f[a] = f[b] => a = b
  BY <1>4
<1>7. \A n \in later : \E a \in KindAt(t, kind) : f[a] = n
  <2> SUFFICES ASSUME NEW n \in later PROVE n - 1 \in KindAt(t, kind) /\ f[n - 1] = n
    OBVIOUS
  <2>1. n \in DOMAIN s /\ s[n].kind = kind /\ n # 1
    BY DEF KindAt
  <2> QED
    BY <1>3, <2>1 DEF KindAt
<1> HIDE DEF f, later
<1>8. ExistsBijection(KindAt(t, kind), later)
  BY <1>5, <1>6, <1>7 DEF ExistsBijection, Bijection, Injection, Surjection, IsInjective
<1>9. Cardinality(later) = Count(t, kind)
  BY <1>1, <1>8, CountFinite, FS_Bijection DEF Count
<1>10. Cardinality(later) = IF 1 \in KindAt(s, kind) THEN Count(s, kind) - 1 ELSE Count(s, kind)
  BY CountFinite, FS_RemoveElement DEF Count, later
<1>11. 1 \in KindAt(s, kind) <=> Head(s).kind = kind
  BY <1>1 DEF KindAt
<1> QED
  BY <1>9, <1>10, <1>11, CountFinite DEF IsKind, t

---------------------------------------------------------------------------
(* Totals: the sum of f[i] over the i in S, as a number of pairs *)

Units(S, f) == {u \in S \X Nat : u[2] \in 1..f[u[1]]}

Total(S, f) == Cardinality(Units(S, f))

\* The total of one
LEMMA UnitsOfOne ==
  ASSUME NEW i, NEW f, f[i] \in Nat
  PROVE  IsFiniteSet(Units({i}, f)) /\ Total({i}, f) = f[i]
<1>1. Units({i}, f) = {i} \X (1..f[i])
  BY DEF Units
<1>2. IsFiniteSet({i}) /\ Cardinality({i}) = 1
  BY FS_Singleton
<1>3. IsFiniteSet(1..f[i]) /\ Cardinality(1..f[i]) = f[i]
  BY FS_Interval
<1>4. IsFiniteSet({i} \X (1..f[i])) /\ Cardinality({i} \X (1..f[i])) = 1 * f[i]
  <2> DEFINE one == {i}
             numbers == 1..f[i]
  <2> HIDE DEF one, numbers
  <2>1. IsFiniteSet(one) /\ IsFiniteSet(numbers)
    BY <1>2, <1>3 DEF one, numbers
  <2>2. /\ IsFiniteSet(one \X numbers)
        /\ Cardinality(one \X numbers) = Cardinality(one) * Cardinality(numbers)
    BY <2>1, FS_Product
  <2> QED
    BY <1>2, <1>3, <2>2 DEF one, numbers
<1>5. 1 * f[i] = f[i]
  OBVIOUS
<1> QED
  BY <1>1, <1>4, <1>5 DEF Total

\* A total over a finite set is finite.
LEMMA UnitsFinite ==
  ASSUME NEW S, IsFiniteSet(S), NEW f, \A i \in S : f[i] \in Nat
  PROVE  IsFiniteSet(Units(S, f)) /\ Total(S, f) \in Nat
<1> DEFINE g == [i \in S |-> Units({i}, f)]
           T == {g[i] : i \in S}
<1>1. g \in Surjection(S, T)
  BY DEF Surjection
<1>2. IsFiniteSet(T)
  BY <1>1, FS_Surjection
<1>3. \A t \in T : IsFiniteSet(t)
  BY UnitsOfOne
<1>4. Units(S, f) = UNION T
  <2>1. \A u \in Units(S, f) : u[1] \in S /\ u \in g[u[1]]
    BY DEF Units
  <2>2. \A i \in S : g[i] \subseteq Units(S, f)
    BY DEF Units
  <2> QED
    BY <2>1, <2>2
<1>5. IsFiniteSet(UNION T)
  BY <1>2, <1>3, FS_UNION
<1> QED
  BY <1>4, <1>5, FS_CardinalityType DEF Total

\* One part of a total
LEMMA TotalWithout ==
  ASSUME NEW S, IsFiniteSet(S), NEW f, \A i \in S : f[i] \in Nat, NEW i \in S
  PROVE  Total(S, f) = Total(S \ {i}, f) + f[i]
<1>1. Units(S, f) = Units(S \ {i}, f) \cup Units({i}, f)
  BY DEF Units
<1>2. Units(S \ {i}, f) \cap Units({i}, f) = {}
  BY DEF Units
<1>3. IsFiniteSet(S \ {i}) /\ \A j \in S \ {i} : f[j] \in Nat
  BY FS_RemoveElement
<1>4. IsFiniteSet(Units(S \ {i}, f)) /\ Total(S \ {i}, f) \in Nat
  BY <1>3, UnitsFinite
<1>5. IsFiniteSet(Units({i}, f)) /\ Total({i}, f) = f[i]
  BY UnitsOfOne
<1>6. Cardinality(Units(S \ {i}, f) \cup Units({i}, f))
        = Cardinality(Units(S \ {i}, f)) + Cardinality(Units({i}, f))
          - Cardinality(Units(S \ {i}, f) \cap Units({i}, f))
  BY <1>4, <1>5, FS_Union
<1>7. Cardinality({}) = 0
  BY FS_EmptySet
<1>8. Total(S, f) = Total(S \ {i}, f) + Total({i}, f) - 0
  BY <1>1, <1>2, <1>6, <1>7 DEF Total
<1> QED
  BY <1>4, <1>5, <1>8

\* A total of less
LEMMA TotalOfLess ==
  ASSUME NEW S, IsFiniteSet(S), NEW f, NEW g, \A i \in S : f[i] \in Nat,
         \A i \in S : g[i] \in Nat /\ g[i] <= f[i]
  PROVE  Total(S, g) <= Total(S, f)
<1>1. Units(S, g) \subseteq Units(S, f)
  <2> SUFFICES ASSUME NEW u \in Units(S, g) PROVE u[2] \in 1..f[u[1]]
    BY DEF Units
  <2>1. u[1] \in S /\ u[2] \in 1..g[u[1]]
    BY DEF Units
  <2> QED
    BY <2>1
<1>2. IsFiniteSet(Units(S, f))
  BY UnitsFinite
<1> QED
  BY <1>1, <1>2, FS_Subset DEF Total

USE HopsAssumption

---------------------------------------------------------------------------
(* Connections *)

\* A connection joins two instances, or the device and its home.
LEMMA PairsOfInstances ==
  ASSUME links \in Topologies, NEW l \in Pairs
  PROVE  /\ l = <<l[1], l[2]>> /\ l[1] # l[2] /\ l # None
         /\ l[1] \in Instances \cup {Device} /\ l[2] \in Instances \cup {Device}
         /\ l[1] = Device => l[2] = Home
         /\ l[2] = Device => l[1] = Home
<1>1. CASE l \in links
  BY <1>1
<1>2. CASE \E k \in links : l = <<k[2], k[1]>>
  BY <1>2
<1>3. CASE l \in {<<Home, Device>>, <<Device, Home>>}
  BY <1>3
<1> QED
  BY <1>1, <1>2, <1>3 DEF Pairs

\* Messages keep fitting when more instances have asked.
LEMMA FitGrows ==
  ASSUME NEW A, NEW B, A \subseteq B, NEW l
  PROVE  Fit(l, A) \subseteq Fit(l, B)
BY DEF Fit, Fits

\* Channels fit more askers too.
LEMMA ChannelsFitGrow ==
  ASSUME NEW A, NEW B, A \subseteq B, ChannelsFit(A)
  PROVE  ChannelsFit(B)
<1> SUFFICES ASSUME NEW l \in Pairs PROVE channel[l] \in Seq(Fit(l, B))
  BY DEF ChannelsFit
<1>1. channel[l] \in Seq(Fit(l, A)) /\ Fit(l, A) \subseteq Fit(l, B)
  BY FitGrows DEF ChannelsFit
<1> QED
  BY <1>1

\* Receiving the message at the head of a channel and sending messages that fit leaves
\* channels whose messages fit.
LEMMA SentFits ==
  ASSUME NEW A, ChannelsFit(A), links' = links,
         NEW link, \A l \in Pairs : l = link => channel[l] # <<>>,
         NEW sends, \A s \in sends : s.link \in Pairs => s.msg \in Fit(s.link, A),
         channel' = Sent(link, sends)
  PROVE  ChannelsFit(A)'
<1>1. Pairs' = Pairs
  BY DEF Pairs
<1>2. DOMAIN channel' = Pairs
  BY DEF Sent
<1> SUFFICES ASSUME NEW l \in Pairs
             PROVE  channel'[l] \in Seq(Fit(l, A)) /\ Len(channel'[l]) <= MaxChannel
  BY <1>1, <1>2 DEF ChannelsFit, Fit, Fits
<1> DEFINE rest == IF l = link THEN Tail(channel[l]) ELSE channel[l]
           new == {s \in sends : s.link = l}
           one == CHOOSE s \in new : TRUE
<1>3. rest \in Seq(Fit(l, A)) /\ Len(rest) <= MaxChannel
  <2>1. channel[l] \in Seq(Fit(l, A)) /\ Len(channel[l]) <= MaxChannel
    BY DEF ChannelsFit
  <2>2. CASE l = link
    BY <2>1, <2>2
  <2>3. CASE l # link
    BY <2>1, <2>3
  <2> QED
    BY <2>2, <2>3
<1>4. channel'[l] = IF new = {} \/ Len(rest) >= MaxChannel THEN rest ELSE Append(rest, one.msg)
  BY DEF Sent
<1>5. new # {} => one \in new
  OBVIOUS
<1>6. new # {} => one.msg \in Fit(l, A)
  BY <1>5
<1> HIDE DEF rest, new, one
<1>7. CASE new = {} \/ Len(rest) >= MaxChannel
  BY <1>3, <1>4, <1>7
<1>8. CASE ~(new = {} \/ Len(rest) >= MaxChannel)
  <2>1. channel'[l] = Append(rest, one.msg)
    BY <1>4, <1>8
  <2>2. Len(rest) \in Nat
    BY <1>3
  <2> QED
    BY <1>3, <1>6, <1>8, <2>1, <2>2
<1> QED
  BY <1>7, <1>8

\* What arrives fits its connection.
LEMMA ArrivesFits ==
  ASSUME Inv, NEW i \in Instances, NEW p \in Instances \cup {Device}, NEW kind,
         Arrives(p, i, kind)
  PROVE  /\ <<p, i>> \in Pairs /\ p # i /\ (p = Device => i = Home)
         /\ channel[<<p, i>>] # <<>>
         /\ Head(channel[<<p, i>>]) \in Messages
         /\ Fits(Head(channel[<<p, i>>]), <<p, i>>, asked)
         /\ Head(channel[<<p, i>>]).kind = kind
<1>1. <<p, i>> \in Pairs /\ channel[<<p, i>>] # <<>> /\ Head(channel[<<p, i>>]).kind = kind
  BY DEF Arrives
<1>2. p # i /\ (p = Device => i = Home)
  BY <1>1, PairsOfInstances DEF Inv, Typed
<1>3. channel[<<p, i>>] \in Seq(Fit(<<p, i>>, asked))
  BY <1>1 DEF Inv, ChannelsFit
<1>4. Head(channel[<<p, i>>]) \in Fit(<<p, i>>, asked)
  BY <1>1, <1>3
<1> QED
  BY <1>1, <1>2, <1>4 DEF Fit

---------------------------------------------------------------------------
(* The object of the device *)

\* What is sent from a queue fits the channel.
LEMMA FlushFits ==
  ASSUME NEW A \in SUBSET Instances, NEW i \in Instances, NEW o, ObjectFits(o, i, A)
  PROVE  /\ ObjectFits(Flush(o), i, A)
         /\ \A s \in FlushSends(i, o) : s.msg \in Fit(s.link, A)
<1>1. CASE ~Idle(o)
  BY <1>1 DEF Flush, FlushSends
<1>2. CASE Idle(o)
  <2>1. o.queue # <<>> /\ o.queue \in Seq(AskersOf(i, A)) /\ o.queue \in Seq(Instances \cup {"app"})
    BY <1>2 DEF Idle, ObjectFits, Objects
  <2>2. /\ Head(o.queue) \in AskersOf(i, A) /\ Head(o.queue) \in Instances \cup {"app"}
        /\ Tail(o.queue) \in Seq(AskersOf(i, A)) /\ Tail(o.queue) \in Seq(Instances \cup {"app"})
    BY <2>1
  <2>3. i # Home => i \in A
    BY <2>1 DEF ObjectFits
  <2>4. o \in Objects /\ o.via = IF i = Home THEN Device ELSE Home
    BY DEF ObjectFits
  <2>5. Flush(o) = [o EXCEPT !.pending = Head(o.queue), !.queue = Tail(@), !.id = @ + 1, !.tries = 0]
    BY <1>2 DEF Flush
  <2>6. /\ Flush(o).via = o.via /\ Flush(o).queue = Tail(o.queue)
        /\ Flush(o).pending = Head(o.queue)
        /\ Flush(o) \in Objects
    <3>1. Flush(o) = [via |-> o.via, queue |-> Tail(o.queue), pending |-> Head(o.queue),
                      id |-> o.id + 1, tries |-> 0]
      BY <2>4, <2>5 DEF Objects
    <3>2. o.via \in Instances \cup {Device} /\ o.id + 1 \in Nat /\ 0 \in 0..MaxRetry
      BY <2>4 DEF Objects
    <3> QED
      BY <2>2, <3>1, <3>2 DEF Objects
  <2>7. ObjectFits(Flush(o), i, A)
    BY <2>2, <2>3, <2>4, <2>6 DEF ObjectFits
  <2>8. FlushSends(i, o) = {To(i, o.via, Request(o.id + 1))}
    BY <1>2 DEF FlushSends
  <2>9. Request(o.id + 1) \in Messages
    BY <2>4 DEF Request, Messages, Objects
  <2>10. Fits(Request(o.id + 1), <<i, o.via>>, A)
    BY <2>3, <2>4 DEF Fits, Request
  <2> QED
    BY <2>7, <2>8, <2>9, <2>10 DEF To, Fit
<1> QED
  BY <1>1, <1>2

\* A request may be queued for whoever may ask.
LEMMA PushFits ==
  ASSUME NEW A \in SUBSET Instances, NEW i \in Instances, NEW o, ObjectFits(o, i, A),
         NEW asker \in AskersOf(i, A), i # Home => i \in A
  PROVE  ObjectFits(Push(o, asker), i, A)
<1>1. asker \in Instances \cup {"app"}
  BY DEF AskersOf
<1>2. Append(o.queue, asker) \in Seq(AskersOf(i, A))
  BY DEF ObjectFits
<1>3. o \in Objects /\ o.queue \in Seq(Instances \cup {"app"})
  BY DEF ObjectFits, Objects
<1>4. Push(o, asker) = [o EXCEPT !.queue = Append(o.queue, asker)]
  BY DEF Push
<1>5. /\ Push(o, asker).via = o.via /\ Push(o, asker).pending = o.pending
      /\ Push(o, asker).queue = Append(o.queue, asker)
      /\ Push(o, asker) \in Objects
  <2>1. Push(o, asker) = [via |-> o.via, queue |-> Append(o.queue, asker), pending |-> o.pending,
                          id |-> o.id, tries |-> o.tries]
    BY <1>3, <1>4 DEF Objects
  <2>2. Append(o.queue, asker) \in Seq(Instances \cup {"app"})
    BY <1>1, <1>3
  <2> QED
    BY <1>3, <2>1, <2>2 DEF Objects
<1> QED
  BY <1>2, <1>5 DEF ObjectFits

\* A queue fits more askers too.
LEMMA ObjectFitsGrows ==
  ASSUME NEW A, NEW B, A \subseteq B, NEW i, NEW o, ObjectFits(o, i, A)
  PROVE  ObjectFits(o, i, B)
<1>1. AskersOf(i, A) \subseteq AskersOf(i, B)
  BY DEF AskersOf
<1>2. o.queue \in Seq(AskersOf(i, B))
  BY <1>1 DEF ObjectFits
<1> QED
  BY <1>1, <1>2 DEF ObjectFits

\* The pending request of i ends: the answer fits, and so does the next request.
LEMMA ResolveFits ==
  ASSUME Inv, NEW i \in Instances, object[i] # None, object[i].pending # None, links' = links,
         asked' = asked,
         NEW link, \A l \in Pairs : l = link => channel[l] # <<>>,
         NEW outcome \in {"ok", "timeout"}, Resolve(i, link, outcome)
  PROVE  /\ ChannelsFit(asked)'
         /\ object' \in [Instances -> Objects \cup {None}]
         /\ \A j \in Instances : object'[j] # None => ObjectFits(object'[j], j, asked)
         /\ result' \in [Instances -> {None, "ok", "timeout"}]
<1> DEFINE o == object[i]
           rest == [o EXCEPT !.pending = None]
<1>1. ObjectFits(o, i, asked) /\ asked \in SUBSET Instances
  BY DEF Inv, Typed
<1>2. rest \in Objects
  BY <1>1 DEF ObjectFits, Objects
<1>3. ObjectFits(rest, i, asked)
  BY <1>1, <1>2 DEF ObjectFits, Objects
<1>4. /\ ObjectFits(Flush(rest), i, asked)
      /\ \A s \in FlushSends(i, rest) : s.msg \in Fit(s.link, asked)
  BY <1>1, <1>3, FlushFits
<1>5. \A s \in AnswerSends(i, o.pending) : s.msg \in Fit(s.link, asked)
  <2> SUFFICES ASSUME o.pending # "app"
               PROVE  Response(None) \in Fit(<<i, o.pending>>, asked)
    BY DEF AnswerSends, To
  <2>1. i = Home /\ o.pending \in asked
    BY <1>1 DEF ObjectFits, AskersOf
  <2>2. Response(None) \in Messages
    BY DEF Response, Messages
  <2>3. Fits(Response(None), <<i, o.pending>>, asked)
    BY <2>1 DEF Fits, Response
  <2> QED
    BY <2>2, <2>3 DEF Fit
<1>6. channel' = Sent(link, AnswerSends(i, o.pending) \cup FlushSends(i, rest))
  BY DEF Resolve
<1>7. object' = [object EXCEPT ![i] = Flush(rest)]
  BY DEF Resolve
<1> HIDE DEF rest
<1>8. ChannelsFit(asked)'
  <2>1. \A s \in AnswerSends(i, o.pending) \cup FlushSends(i, rest) :
          s.link \in Pairs => s.msg \in Fit(s.link, asked)
    BY <1>4, <1>5
  <2>2. ChannelsFit(asked)
    BY DEF Inv
  <2> QED
    BY <1>6, <2>1, <2>2, SentFits
<1>9. /\ object' \in [Instances -> Objects \cup {None}]
      /\ \A j \in Instances : object'[j] # None => ObjectFits(object'[j], j, asked)
  <2>1. Flush(rest) \in Objects
    BY <1>4 DEF ObjectFits
  <2> QED
    BY <1>4, <1>7, <2>1 DEF Inv, Typed
<1>10. result' \in [Instances -> {None, "ok", "timeout"}]
  BY DEF Resolve, Inv, Typed
<1> QED
  BY <1>8, <1>9, <1>10

---------------------------------------------------------------------------
(* Steps *)

\* A step that leaves the objects and who asked alone needs only channels that fit.
LEMMA SendsOnly ==
  ASSUME Inv, Typed', links' = links, asked' = asked, object' = object,
         NEW link, \A l \in Pairs : l = link => channel[l] # <<>>,
         NEW sends, \A s \in sends : s.link \in Pairs => s.msg \in Fit(s.link, asked),
         channel' = Sent(link, sends)
  PROVE  Inv'
<1>1. ChannelsFit(asked)'
  BY SentFits DEF Inv
<1> QED
  BY <1>1 DEF Inv

\* None is no connection.
LEMMA NoneIsNoPair == links \in Topologies => \A l \in Pairs : l # None
BY PairsOfInstances

\* The same when nothing is received.
LEMMA SendsUnasked ==
  ASSUME Inv, Typed', links' = links, asked' = asked, object' = object,
         NEW sends, \A s \in sends : s.msg \in Fit(s.link, asked),
         channel' = Sent(None, sends)
  PROVE  Inv'
<1>1. \A l \in Pairs : l = None => channel[l] # <<>>
  BY NoneIsNoPair DEF Inv, Typed
<1> QED
  BY <1>1, SendsOnly

\* A message fits the connection it is addressed to.
LEMMA ToFits ==
  ASSUME NEW A, NEW i, NEW p, NEW msg \in Fit(<<i, p>>, A)
  PROVE  To(i, p, msg).msg \in Fit(To(i, p, msg).link, A)
BY DEF To

\* An instance connects and says hello.
LEMMA ConnectStep ==
  ASSUME Inv, NEW i \in Instances, NEW j \in Instances, Connect(i, j)
  PROVE  Inv'
<1>1. Typed'
  BY DEF Inv, Typed, Connect, history
<1>2. Hello \in Fit(<<i, j>>, asked)
  BY DEF Hello, Fit, Fits, Messages
<1>3. \A s \in {To(i, j, Hello)} : s.msg \in Fit(s.link, asked)
  BY <1>2 DEF To
<1> QED
  BY <1>1, <1>3, SendsUnasked DEF Connect

\* A hello makes its sender a node.
LEMMA ReceiveHelloStep ==
  ASSUME Inv, NEW j \in Instances, NEW i \in Instances \cup {Device}, ReceiveHello(j, i)
  PROVE  Inv'
<1>1. Arrives(i, j, "hello")
  BY DEF ReceiveHello
<1>2. i \in Instances /\ channel[<<i, j>>] # <<>>
  BY <1>1, ArrivesFits DEF Fits
<1>3. Typed'
  BY <1>2 DEF Inv, Typed, ReceiveHello, history
<1> QED
  BY <1>2, <1>3, SendsOnly DEF ReceiveHello

\* Only Home passes messages on, to instances.
LEMMA PassOnFits ==
  ASSUME Inv, NEW i \in Instances, NEW p \in Instances \cup {Device},
         NEW kind \in {"heartbeat", "alert"}, Arrives(p, i, kind)
  PROVE  \A s \in PassOn(i, Head(channel[<<p, i>>])) : s.msg \in Fit(s.link, asked)
<1> DEFINE msg == Head(channel[<<p, i>>])
<1>1. msg \in Messages /\ Fits(msg, <<p, i>>, asked) /\ msg.kind = kind
  BY ArrivesFits
<1>2. msg \in [kind : {"heartbeat", "alert"}, marked : BOOLEAN]
  BY <1>1 DEF Messages
<1> HIDE DEF msg
<1> SUFFICES ASSUME ~msg.marked
             PROVE  \A s \in {To(i, q, [msg EXCEPT !.marked = TRUE]) : q \in nodes[i]} :
                      s.msg \in Fit(s.link, asked)
  BY DEF PassOn, msg
<1> DEFINE passed == [msg EXCEPT !.marked = TRUE]
<1>3. \A q \in nodes[i] : i = Home /\ q \in Instances
  BY <1>1 DEF Fits, Inv, Typed
<1>4. passed \in [kind : {"heartbeat", "alert"}, marked : BOOLEAN] /\ passed.kind = kind /\ passed.marked
  BY <1>1, <1>2
<1> HIDE DEF passed
<1>5. passed \in Messages
  BY <1>4 DEF Messages
<1>6. \A q \in nodes[i] : Fits(passed, <<i, q>>, asked)
  BY <1>3, <1>4 DEF Fits
<1>7. \A q \in nodes[i] : passed \in Fit(<<i, q>>, asked)
  BY <1>5, <1>6 DEF Fit
<1> QED
  BY <1>7, ToFits DEF passed

\* A heartbeat is passed on once, or stops.
LEMMA ReceiveHeartbeatStep ==
  ASSUME Inv, NEW i \in Instances, NEW p \in Instances \cup {Device}, ReceiveHeartbeat(i, p)
  PROVE  Inv'
<1>1. Arrives(p, i, "heartbeat")
  BY DEF ReceiveHeartbeat
<1>2. /\ channel[<<p, i>>] # <<>> /\ Fits(Head(channel[<<p, i>>]), <<p, i>>, asked)
      /\ Head(channel[<<p, i>>]).kind = "heartbeat" /\ p # i
  BY <1>1, ArrivesFits
<1>3. p = IF i = Home THEN Device ELSE Home
  BY <1>2 DEF Fits
<1>4. Create(p) \in Objects
  BY DEF Create, Objects
<1>5. ObjectFits(Create(p), i, asked)
  BY <1>3, <1>4 DEF ObjectFits, Create, AskersOf
<1>6. object' = [object EXCEPT ![i] = IF object[i] = None THEN Create(p) ELSE object[i]]
  BY DEF ReceiveHeartbeat
<1>7. Typed'
  BY <1>4, <1>6 DEF Inv, Typed, ReceiveHeartbeat, history
<1>8. ChannelsFit(asked)'
  BY <1>1, <1>2, PassOnFits, SentFits DEF Inv, ReceiveHeartbeat
<1>9. \A j \in Instances : object'[j] # None => ObjectFits(object'[j], j, asked)
  BY <1>5, <1>6 DEF Inv, Typed
<1> QED
  BY <1>7, <1>8, <1>9 DEF Inv, ReceiveHeartbeat

\* An alert is passed on once, or stops.
LEMMA ReceiveAlertStep ==
  ASSUME Inv, NEW i \in Instances, NEW p \in Instances \cup {Device}, ReceiveAlert(i, p)
  PROVE  Inv'
<1>1. Arrives(p, i, "alert") /\ channel[<<p, i>>] # <<>>
  BY ArrivesFits DEF ReceiveAlert
<1>2. Typed'
  BY DEF Inv, Typed, ReceiveAlert
<1>3. CASE object[i] = None
  BY <1>1, <1>2, <1>3, SendsOnly DEF ReceiveAlert
<1>4. CASE object[i] # None
  BY <1>1, <1>2, <1>4, PassOnFits, SendsOnly DEF ReceiveAlert
<1> QED
  BY <1>3, <1>4

\* The device beats or raises an alert.
LEMMA DeviceStep ==
  ASSUME Inv, DeviceBeat \/ DeviceAlert
  PROVE  Inv'
<1>1. ASSUME NEW kind \in {"heartbeat", "alert"}
      PROVE  \A s \in {To(Device, Home, Announce(kind, FALSE))} : s.msg \in Fit(s.link, asked)
  <2>1. Announce(kind, FALSE) \in Messages
    BY DEF Announce, Messages
  <2>2. Fits(Announce(kind, FALSE), <<Device, Home>>, asked)
    BY DEF Announce, Fits
  <2> QED
    BY <2>1, <2>2, ToFits DEF Fit
<1>2. CASE DeviceBeat
  <2>1. Typed'
    BY <1>2 DEF Inv, Typed, DeviceBeat, history
  <2> QED
    <3> DEFINE sends == {To(Device, Home, Announce("heartbeat", FALSE))}
    <3>1. \A s \in sends : s.msg \in Fit(s.link, asked)
      BY <1>1
    <3>2. channel' = Sent(None, sends) /\ links' = links /\ asked' = asked /\ object' = object
      BY <1>2 DEF DeviceBeat
    <3> HIDE DEF sends
    <3> QED
      BY <2>1, <3>1, <3>2, SendsUnasked
<1>3. CASE DeviceAlert
  <2>1. Typed'
    BY <1>3 DEF Inv, Typed, DeviceAlert, history
  <2> QED
    <3> DEFINE sends == {To(Device, Home, Announce("alert", FALSE))}
    <3>1. \A s \in sends : s.msg \in Fit(s.link, asked)
      BY <1>1
    <3>2. channel' = Sent(None, sends) /\ links' = links /\ asked' = asked /\ object' = object
      BY <1>3 DEF DeviceAlert
    <3> HIDE DEF sends
    <3> QED
      BY <2>1, <3>1, <3>2, SendsUnasked
<1> QED
  BY <1>2, <1>3

\* A message is lost.
LEMMA LoseStep ==
  ASSUME Inv, NEW l \in Pairs, Lose(l)
  PROVE  Inv'
<1>1. Typed'
  BY DEF Inv, Typed, Lose, history
<1> QED
  BY <1>1, SendsOnly DEF Lose

\* The device answers.
LEMMA DeviceAnswersStep == ASSUME Inv, DeviceAnswers PROVE Inv'
<1> DEFINE msg == Head(channel[<<Home, Device>>])
<1>1. <<Home, Device>> \in Pairs /\ channel[<<Home, Device>>] # <<>>
  BY DEF DeviceAnswers, Pairs
<1>2. msg \in Fit(<<Home, Device>>, asked)
  BY <1>1 DEF Inv, ChannelsFit
<1>3. msg.kind = "request" /\ msg \in Messages
  BY <1>2 DEF Fit, Fits, Inv, Typed, Messages
<1>4. msg.id \in Nat
  BY <1>3 DEF Messages
<1>5. Response(msg.id) \in Fit(<<Device, Home>>, asked)
  BY <1>4 DEF Response, Fit, Fits, Messages
<1>6. Typed'
  BY DEF Inv, Typed, DeviceAnswers
<1> QED
  BY <1>1, <1>5, <1>6, SendsOnly DEF DeviceAnswers, To

\* An application asks.
LEMMA AskStep ==
  ASSUME Inv, NEW i \in Instances, Ask(i)
  PROVE  Inv'
<1> DEFINE o == Push(object[i], "app")
<1>1. asked' = asked \cup {i} /\ asked' \in SUBSET Instances /\ asked' \subseteq Askers
  BY DEF Ask, Inv, Typed
<1>2. ObjectFits(object[i], i, asked')
  BY <1>1, ObjectFitsGrows DEF Ask, Inv
<1>3. ObjectFits(o, i, asked')
  BY <1>1, <1>2, PushFits DEF AskersOf
<1>4. ObjectFits(Flush(o), i, asked') /\ \A s \in FlushSends(i, o) : s.msg \in Fit(s.link, asked')
  BY <1>1, <1>3, FlushFits
<1>5. object' = [object EXCEPT ![i] = Flush(o)] /\ channel' = Sent(None, FlushSends(i, o))
  BY DEF Ask
<1> HIDE DEF o
<1>6. ChannelsFit(asked)'
  <2>1. ChannelsFit(asked')
    BY <1>1, ChannelsFitGrow DEF Inv
  <2> QED
    BY <1>4, <1>5, <2>1, SentFits, NoneIsNoPair DEF Ask, Inv, Typed
<1>7. \A j \in Instances : object'[j] # None => ObjectFits(object'[j], j, asked')
  BY <1>1, <1>4, <1>5, ObjectFitsGrows DEF Inv, Typed
<1>8. Typed'
  <2>1. Flush(o) \in Objects
    BY <1>4 DEF ObjectFits
  <2> QED
    BY <1>1, <1>5, <2>1 DEF Inv, Typed, Ask, history
<1> QED
  BY <1>6, <1>7, <1>8 DEF Inv

\* A request is queued at the hub for the node that asked.
LEMMA ReceiveRequestStep ==
  ASSUME Inv, NEW j \in Instances, NEW i \in Instances \cup {Device}, ReceiveRequest(j, i)
  PROVE  Inv'
<1>1. Arrives(i, j, "request")
  BY DEF ReceiveRequest
<1>2. /\ channel[<<i, j>>] # <<>> /\ Fits(Head(channel[<<i, j>>]), <<i, j>>, asked)
      /\ Head(channel[<<i, j>>]).kind = "request"
  BY <1>1, ArrivesFits
<1>3. j = Home /\ i \in asked
  BY <1>2 DEF Fits
<1>4. CASE i \in nodes[j] /\ object[j] # None
  <2> DEFINE o == Push(object[j], i)
  <2>1. asked \in SUBSET Instances
    BY DEF Inv, Typed
  <2>2. ObjectFits(o, j, asked)
    BY <1>3, <1>4, <2>1, PushFits DEF AskersOf, Inv
  <2>3. ObjectFits(Flush(o), j, asked) /\ \A s \in FlushSends(j, o) : s.msg \in Fit(s.link, asked)
    BY <2>1, <2>2, FlushFits
  <2>4. object' = [object EXCEPT ![j] = Flush(o)] /\ channel' = Sent(<<i, j>>, FlushSends(j, o))
    BY <1>4 DEF ReceiveRequest
  <2> HIDE DEF o
  <2>5. ChannelsFit(asked)'
    BY <1>2, <2>3, <2>4, SentFits DEF ReceiveRequest, Inv
  <2>6. \A k \in Instances : object'[k] # None => ObjectFits(object'[k], k, asked)
    BY <2>3, <2>4 DEF Inv, Typed
  <2>7. Typed'
    <3>1. Flush(o) \in Objects
      BY <2>3 DEF ObjectFits
    <3> QED
      BY <2>4, <3>1 DEF Inv, Typed, ReceiveRequest, history
  <2> QED
    BY <2>5, <2>6, <2>7 DEF Inv, ReceiveRequest
<1>5. CASE ~(i \in nodes[j] /\ object[j] # None)
  <2>1. Typed'
    BY <1>5 DEF Inv, Typed, ReceiveRequest, history
  <2> QED
    BY <1>2, <1>5, <2>1, SendsOnly DEF ReceiveRequest
<1> QED
  BY <1>4, <1>5

\* A request on a dealer socket and the response to a forwarded request cannot be read, and are dropped.
LEMMA RefusedStep ==
  ASSUME Inv, NEW j \in Instances, NEW i \in Instances \cup {Device},
         ReceiveRequestOnDealer(j, i) \/ ReceiveForwardedResponse(j, i)
  PROVE  Inv'
<1>1. CASE ReceiveRequestOnDealer(j, i)
  <2>1. channel[<<i, j>>] # <<>>
    BY <1>1, ArrivesFits DEF ReceiveRequestOnDealer
  <2>2. Typed'
    BY <1>1 DEF Inv, Typed, ReceiveRequestOnDealer, history
  <2> QED
    BY <1>1, <2>1, <2>2, SendsOnly DEF ReceiveRequestOnDealer
<1>2. CASE ReceiveForwardedResponse(j, i)
  <2>1. channel[<<i, j>>] # <<>>
    BY <1>2, ArrivesFits DEF ReceiveForwardedResponse
  <2>2. Typed'
    BY <1>2 DEF Inv, Typed, ReceiveForwardedResponse
  <2> QED
    BY <1>2, <2>1, <2>2, SendsOnly DEF ReceiveForwardedResponse
<1> QED
  BY <1>1, <1>2

\* A response ends the pending request.
LEMMA ReceiveResponseStep ==
  ASSUME Inv, NEW i \in Instances, NEW p \in Instances \cup {Device}, ReceiveResponse(i, p)
  PROVE  Inv'
<1>1. channel[<<p, i>>] # <<>>
  BY ArrivesFits DEF ReceiveResponse
<1>2. CASE Resolve(i, <<p, i>>, "ok") /\ object[i] # None /\ object[i].pending # None
  <2>1. links' = links /\ asked' = asked
    BY DEF ReceiveResponse
  <2>2. /\ ChannelsFit(asked)'
        /\ object' \in [Instances -> Objects \cup {None}]
        /\ \A j \in Instances : object'[j] # None => ObjectFits(object'[j], j, asked)
        /\ result' \in [Instances -> {None, "ok", "timeout"}]
    BY <1>1, <1>2, <2>1, ResolveFits
  <2>3. Typed'
    BY <2>2 DEF Inv, Typed, ReceiveResponse, history
  <2> QED
    BY <2>1, <2>2, <2>3 DEF Inv
<1>3. CASE channel' = Sent(<<p, i>>, {}) /\ UNCHANGED <<links, object, result>>
  <2>1. Typed'
    BY <1>3 DEF Inv, Typed, ReceiveResponse, history
  <2> QED
    BY <1>1, <1>3, <2>1, SendsOnly DEF ReceiveResponse
<1> QED
  BY <1>2, <1>3 DEF ReceiveResponse

\* A timer runs out.
LEMMA PollStep ==
  ASSUME Inv, NEW i \in Instances, Poll(i)
  PROVE  Inv'
<1>1. object[i] # None /\ object[i].pending # None /\ ObjectFits(object[i], i, asked)
  BY DEF Poll, Retry, Timeout, Inv
<1>2. CASE Retry(i)
  <2> DEFINE o == object[i]
             again == Again(o)
  <2>1. o \in Objects /\ o.tries < MaxRetry
    BY <1>1, <1>2 DEF ObjectFits, Retry
  <2>2. object' = [object EXCEPT ![i] = again]
    BY <1>2 DEF Retry
  <2>3. /\ again.via = o.via /\ again.queue = o.queue /\ again.pending = o.pending
        /\ again \in Objects
    <3> HIDE DEF o
    <3>1. PICK p : p = again
      OBVIOUS
    <3>2. /\ p.via = o.via /\ p.queue = o.queue /\ p.pending = o.pending
          /\ p.id = o.id + 1 /\ p.tries = o.tries + 1
      BY <2>1, <3>1 DEF Objects, Again
    <3>3. p = [via |-> p.via, queue |-> p.queue, pending |-> p.pending, id |-> p.id, tries |-> p.tries]
      BY <2>1, <3>1 DEF Objects, Again
    <3>4. o.id + 1 \in Nat /\ o.tries + 1 \in 0..MaxRetry
      BY <2>1 DEF Objects
    <3>5. p \in Objects
      BY <2>1, <3>2, <3>3, <3>4 DEF Objects
    <3> QED
      BY <3>1, <3>2, <3>5
  <2> HIDE DEF again
  <2>4. ObjectFits(again, i, asked)
    BY <1>1, <2>3 DEF ObjectFits
  <2>5. Request(o.id + 1) \in Fit(<<i, o.via>>, asked)
    <3>1. Request(o.id + 1) \in Messages
      BY <2>1 DEF Request, Messages, Objects
    <3>2. Fits(Request(o.id + 1), <<i, o.via>>, asked)
      BY <1>1 DEF Fits, Request, ObjectFits
    <3> QED
      BY <3>1, <3>2 DEF Fit
  <2>6. ChannelsFit(asked)'
    <3>1. \A s \in {To(i, o.via, Request(o.id + 1))} : s.msg \in Fit(s.link, asked)
      BY <2>5, ToFits
    <3>2. channel' = Sent(None, {To(i, o.via, Request(o.id + 1))}) /\ links' = links /\ asked' = asked
      BY <1>2 DEF Retry
    <3>3. \A l \in Pairs : l = None => channel[l] # <<>>
      BY NoneIsNoPair DEF Inv, Typed
    <3> QED
      BY <3>1, <3>2, <3>3, SentFits DEF Inv
  <2> HIDE DEF again
  <2>7. \A j \in Instances : object'[j] # None => ObjectFits(object'[j], j, asked)
    BY <2>2, <2>4 DEF Inv, Typed
  <2>8. Typed'
    <3>1. object' \in [Instances -> Objects \cup {None}]
      BY <2>2, <2>3 DEF Inv, Typed
    <3> QED
      BY <1>2, <3>1 DEF Inv, Typed, Retry, history
  <2> QED
    BY <1>2, <2>6, <2>7, <2>8 DEF Inv, Retry
<1>3. CASE Timeout(i)
  <2>1. \A l \in Pairs : l = None => channel[l] # <<>>
    BY NoneIsNoPair DEF Inv, Typed
  <2>2. Resolve(i, None, "timeout") /\ links' = links /\ asked' = asked
    BY <1>3 DEF Timeout
  <2>3. /\ ChannelsFit(asked)'
        /\ object' \in [Instances -> Objects \cup {None}]
        /\ \A j \in Instances : object'[j] # None => ObjectFits(object'[j], j, asked)
        /\ result' \in [Instances -> {None, "ok", "timeout"}]
    BY <1>1, <2>1, <2>2, ResolveFits
  <2>4. Typed'
    BY <1>3, <2>3 DEF Inv, Typed, Timeout, history
  <2> QED
    BY <2>2, <2>3, <2>4 DEF Inv
<1> QED
  BY <1>2, <1>3 DEF Poll

\* At first nobody is connected.
LEMMA InitInv == Init => Inv
<1> SUFFICES ASSUME Init PROVE Inv
  OBVIOUS
<1>1. Typed
  <2>1. object \in [Instances -> Objects \cup {None}] /\ nodes \in [Instances -> SUBSET Instances]
    BY DEF Init
  <2>2. /\ up \in [Instances -> BOOLEAN] /\ heard \in [Instances -> Nat]
        /\ result \in [Instances -> {None, "ok", "timeout"}]
    BY DEF Init
  <2>3. /\ links \in Topologies /\ asked \subseteq Askers
        /\ executed \in Nat /\ refused \in BOOLEAN
    BY DEF Init
  <2>4. beats \in 0..MaxBeats /\ alerts \in 0..MaxAlerts
    <3>1. MaxBeats \in Nat /\ MaxAlerts \in Nat
      OBVIOUS
    <3> QED
      BY <3>1 DEF Init
  <2> QED
    BY <2>1, <2>2, <2>3, <2>4 DEF Typed
<1>2. ChannelsFit(asked)
  <2>1. \A l \in Pairs : <<>> \in Seq(Fit(l, asked)) /\ Len(<<>>) <= MaxChannel
    OBVIOUS
  <2> QED
    BY <2>1 DEF Init, ChannelsFit
<1> QED
  BY <1>1, <1>2 DEF Init, Inv

\* No step breaks the invariant.
LEMMA NextInv == ASSUME Inv, [Next]_vars PROVE Inv'
<1>1. CASE \E i, j \in Instances : Connect(i, j)
  BY <1>1, ConnectStep
<1>2. CASE \E i \in Instances, p \in Instances \cup {Device} : Receive(i, p)
  BY <1>2, ReceiveHelloStep, ReceiveHeartbeatStep, ReceiveAlertStep, ReceiveRequestStep,
     RefusedStep, ReceiveResponseStep DEF Receive
<1>3. CASE \E i \in Instances : Ask(i) \/ Poll(i)
  BY <1>3, AskStep, PollStep
<1>4. CASE DeviceBeat \/ DeviceAlert \/ DeviceAnswers
  BY <1>4, DeviceStep, DeviceAnswersStep
<1>5. CASE \E l \in Pairs : Lose(l)
  BY <1>5, LoseStep
<1>6. CASE UNCHANGED vars
  BY <1>6 DEF vars, Inv, Typed, ChannelsFit, Pairs
<1> QED
  BY <1>1, <1>2, <1>3, <1>4, <1>5, <1>6 DEF Next

\* The invariant holds in every reachable state.
LEMMA InvHolds == Spec => []Inv
<1>1. Inv /\ [Next]_vars => Inv'
  BY NextInv
<1> QED
  BY InitInv, <1>1, PTL DEF Spec

---------------------------------------------------------------------------
(* What a step does to the messages of a kind *)

\* What Sent does to the messages of a kind on a connection
LEMMA SentCount ==
  ASSUME NEW A, ChannelsFit(A), NEW l \in Pairs,
         NEW link, l = link => channel[l] # <<>>,
         NEW sends, channel' = Sent(link, sends), NEW kind
  PROVE  /\ Count(channel[l], kind) \in Nat /\ Count(channel'[l], kind) \in Nat
         /\ Count(channel'[l], kind) <= Count(channel[l], kind)
                                    - (IF l = link THEN IsKind(Head(channel[l]), kind) ELSE 0) + 1
         /\ (\A s \in sends : s.link = l => s.msg.kind # kind) =>
              Count(channel'[l], kind) <= Count(channel[l], kind)
                                     - (IF l = link THEN IsKind(Head(channel[l]), kind) ELSE 0)
<1> DEFINE rest == IF l = link THEN Tail(channel[l]) ELSE channel[l]
           new == {s \in sends : s.link = l}
           one == CHOOSE s \in new : TRUE
           less == IF l = link THEN IsKind(Head(channel[l]), kind) ELSE 0
<1>1. channel[l] \in Seq(Fit(l, A)) /\ Count(channel[l], kind) \in Nat
  BY CountFinite DEF ChannelsFit
<1>2. rest \in Seq(Fit(l, A)) /\ Count(rest, kind) = Count(channel[l], kind) - less
  <2>1. CASE l = link
    BY <1>1, <2>1, TailCount
  <2>2. CASE l # link
    BY <1>1, <2>2
  <2> QED
    BY <2>1, <2>2
<1>3. channel'[l] = IF new = {} \/ Len(rest) >= MaxChannel THEN rest ELSE Append(rest, one.msg)
  BY DEF Sent
<1>4. new # {} => one \in new
  OBVIOUS
<1>5. (\A s \in sends : s.link = l => s.msg.kind # kind) => new = {} \/ IsKind(one.msg, kind) = 0
  BY <1>4 DEF IsKind
<1>6. Count(rest, kind) \in Nat /\ less \in {0, 1}
  BY <1>2, CountFinite DEF IsKind
<1> HIDE DEF rest, new, one, less
<1>7. CASE new = {} \/ Len(rest) >= MaxChannel
  <2>1. Count(channel'[l], kind) = Count(channel[l], kind) - less
    BY <1>2, <1>3, <1>7
  <2> QED
    BY <1>1, <1>2, <1>6, <2>1 DEF less
<1>8. CASE ~(new = {} \/ Len(rest) >= MaxChannel)
  <2>1. Count(channel'[l], kind) = Count(rest, kind) + IsKind(one.msg, kind) /\ IsKind(one.msg, kind) \in {0, 1}
    BY <1>2, <1>3, <1>8, AppendCount DEF IsKind
  <2> QED
    BY <1>1, <1>2, <1>5, <1>6, <1>8, <2>1 DEF less
<1> QED
  BY <1>7, <1>8

---------------------------------------------------------------------------
(* Alerts: what an application has heard and what is still under way to it *)

Alerts(s) == Count(s, "alert")

IsAlert(m) == IsKind(m, "alert")

\* The alerts in a channel can be counted.
LEMMA AlertsFinite ==
  ASSUME NEW S, NEW s \in Seq(S)
  PROVE  Alerts(s) \in Nat
BY CountFinite DEF Alerts

\* What Sent does to the alerts on a connection
LEMMA SentAlerts ==
  ASSUME NEW A, ChannelsFit(A), NEW l \in Pairs,
         NEW link, l = link => channel[l] # <<>>,
         NEW sends, channel' = Sent(link, sends)
  PROVE  /\ Alerts(channel[l]) \in Nat /\ Alerts(channel'[l]) \in Nat
         /\ Alerts(channel'[l]) <= Alerts(channel[l])
                                    - (IF l = link THEN IsAlert(Head(channel[l])) ELSE 0) + 1
         /\ (\A s \in sends : s.link = l => s.msg.kind # "alert") =>
              Alerts(channel'[l]) <= Alerts(channel[l])
                                     - (IF l = link THEN IsAlert(Head(channel[l])) ELSE 0)
BY SentCount DEF Alerts, IsAlert

Waiting(i) == IF <<Home, i>> \in Pairs THEN Alerts(channel[<<Home, i>>]) ELSE 0

\* Each alert that Home has heard, or that is on its way to it, is one the device sent; and
\* each that another instance has heard, or is on its way to it, is one that Home has heard.
Counted ==
  /\ heard[Home] + Alerts(channel[<<Device, Home>>]) <= alerts
  /\ \A i \in Instances \ {Home} : heard[i] + Waiting(i) <= heard[Home]

\* The connections that Counted is about
LEMMA AlertPairs ==
  ASSUME Inv, links' = links
  PROVE  /\ Pairs' = Pairs /\ <<Device, Home>> \in Pairs
         /\ Alerts(channel[<<Device, Home>>]) \in Nat
         /\ \A i \in Instances \ {Home} : Waiting(i) \in Nat /\ <<Home, i>> # <<Device, Home>>
<1>1. Pairs' = Pairs /\ <<Device, Home>> \in Pairs
  BY DEF Pairs
<1>2. \A l \in Pairs : Alerts(channel[l]) \in Nat
  BY AlertsFinite DEF Inv, ChannelsFit
<1> QED
  BY <1>1, <1>2 DEF Waiting

\* A step that sends no alert and in which nobody hears one
LEMMA QuietStep ==
  ASSUME Inv, Counted, links' = links, heard' = heard, alerts' = alerts,
         NEW link, \A l \in Pairs : l = link => channel[l] # <<>>,
         NEW sends, \A s \in sends : s.msg.kind # "alert",
         channel' = Sent(link, sends)
  PROVE  Counted'
<1>1. /\ Pairs' = Pairs /\ <<Device, Home>> \in Pairs
      /\ heard \in [Instances -> Nat] /\ alerts \in Nat
  BY AlertPairs DEF Inv, Typed
<1>2. ASSUME NEW l \in Pairs
      PROVE  /\ Alerts(channel[l]) \in Nat /\ Alerts(channel'[l]) \in Nat
             /\ Alerts(channel'[l]) <= Alerts(channel[l])
  <2> DEFINE less == IF l = link THEN IsAlert(Head(channel[l])) ELSE 0
  <2>1. /\ Alerts(channel[l]) \in Nat /\ Alerts(channel'[l]) \in Nat
        /\ Alerts(channel'[l]) <= Alerts(channel[l]) - less
    BY SentAlerts DEF Inv
  <2>2. less \in {0, 1}
    BY DEF IsAlert, IsKind
  <2> QED
    BY <2>1, <2>2
<1>3. heard'[Home] + Alerts(channel'[<<Device, Home>>]) <= alerts'
  <2>1. heard[Home] \in Nat
    BY <1>1
  <2> QED
    BY <1>1, <1>2, <2>1 DEF Counted
<1>4. ASSUME NEW i \in Instances \ {Home}
      PROVE  heard'[i] + Waiting(i)' <= heard'[Home]
  <2>1. heard[Home] \in Nat /\ heard[i] \in Nat
    BY <1>1
  <2>2. Waiting(i) \in Nat /\ Waiting(i)' \in Nat /\ Waiting(i)' <= Waiting(i)
    BY <1>1, <1>2 DEF Waiting
  <2> QED
    BY <2>1, <2>2 DEF Counted
<1> QED
  BY <1>1, <1>3, <1>4 DEF Counted, Waiting

\* Requests and their answers are no alerts.
LEMMA QuietSends ==
  ASSUME NEW i, NEW o, NEW asker
  PROVE  \A s \in FlushSends(i, o) \cup AnswerSends(i, asker) : s.msg.kind # "alert"
BY DEF FlushSends, AnswerSends, To, Request, Response

\* Nothing is received: Sent(None, sends) takes no message away.
LEMMA QuietSend ==
  ASSUME Inv, Counted, links' = links, heard' = heard, alerts' = alerts,
         NEW sends, \A s \in sends : s.msg.kind # "alert", channel' = Sent(None, sends)
  PROVE  Counted'
<1>1. \A l \in Pairs : l = None => channel[l] # <<>>
  BY NoneIsNoPair DEF Inv, Typed
<1> QED
  BY <1>1, QuietStep

\* A raised alert is under way once.
LEMMA DeviceAlertCounted ==
  ASSUME Inv, Counted, DeviceAlert
  PROVE  Counted'
<1> DEFINE sends == {To(Device, Home, Announce("alert", FALSE))}
<1>1. /\ channel' = Sent(None, sends) /\ alerts' = alerts + 1 /\ heard' = heard /\ links' = links
  BY DEF DeviceAlert, history
<1>2. \A s \in sends : s.link = <<Device, Home>>
  BY DEF To
<1>3. \A l \in Pairs : l # None
  BY NoneIsNoPair DEF Inv, Typed
<1> HIDE DEF sends
<1>4. /\ Pairs' = Pairs /\ <<Device, Home>> \in Pairs /\ ChannelsFit(asked)
      /\ heard \in [Instances -> Nat] /\ alerts \in Nat
  BY <1>1, AlertPairs DEF Inv, Typed
<1>5. /\ Alerts(channel[<<Device, Home>>]) \in Nat /\ Alerts(channel'[<<Device, Home>>]) \in Nat
      /\ Alerts(channel'[<<Device, Home>>]) <= Alerts(channel[<<Device, Home>>]) + 1
  BY <1>1, <1>3, <1>4, SentAlerts
<1>6. \A l \in Pairs : l # <<Device, Home>> =>
        /\ Alerts(channel[l]) \in Nat /\ Alerts(channel'[l]) \in Nat
        /\ Alerts(channel'[l]) <= Alerts(channel[l])
  <2> SUFFICES ASSUME NEW l \in Pairs, l # <<Device, Home>>
               PROVE  /\ Alerts(channel[l]) \in Nat /\ Alerts(channel'[l]) \in Nat
                      /\ Alerts(channel'[l]) <= Alerts(channel[l])
    OBVIOUS
  <2>1. \A s \in sends : s.link = l => s.msg.kind # "alert"
    BY <1>2
  <2> QED
    BY <1>1, <1>3, <1>4, <2>1, SentAlerts
<1>7. heard'[Home] + Alerts(channel'[<<Device, Home>>]) <= alerts'
  <2>1. heard[Home] \in Nat
    BY <1>4
  <2> QED
    BY <1>1, <1>4, <1>5, <2>1 DEF Counted
<1>8. ASSUME NEW i \in Instances \ {Home}
      PROVE  heard'[i] + Waiting(i)' <= heard'[Home]
  <2>1. heard[Home] \in Nat /\ heard[i] \in Nat /\ <<Home, i>> # <<Device, Home>>
    BY <1>4
  <2>2. Waiting(i) \in Nat /\ Waiting(i)' \in Nat /\ Waiting(i)' <= Waiting(i)
    BY <1>4, <1>6, <2>1 DEF Waiting
  <2> QED
    BY <1>1, <2>1, <2>2 DEF Counted
<1> QED
  BY <1>4, <1>7, <1>8 DEF Counted, Waiting

\* An alert that is heard was under way.
LEMMA ReceiveAlertCounted ==
  ASSUME Inv, Counted, NEW i \in Instances, NEW p \in Instances \cup {Device}, ReceiveAlert(i, p)
  PROVE  Counted'
<1> DEFINE link == <<p, i>>
           msg == Head(channel[link])
           sends == PassOn(i, msg)
<1>1. /\ link \in Pairs /\ p # i /\ channel[link] # <<>>
      /\ Fits(msg, link, asked) /\ msg.kind = "alert"
  BY ArrivesFits DEF ReceiveAlert
<1>2. link = IF i = Home THEN <<Device, Home>> ELSE <<Home, i>>
  BY <1>1 DEF Fits
<1>3. CASE object[i] = None
  <2>1. /\ channel' = Sent(link, {}) /\ heard' = heard /\ alerts' = alerts /\ links' = links
    BY <1>3 DEF ReceiveAlert
  <2> QED
    BY <1>1, <2>1, QuietStep
<1>4. CASE object[i] # None
  <2>1. /\ channel' = Sent(link, sends) /\ heard' = [heard EXCEPT ![i] = @ + 1]
        /\ alerts' = alerts /\ links' = links
    BY <1>4 DEF ReceiveAlert
  <2>2. /\ Pairs' = Pairs /\ <<Device, Home>> \in Pairs /\ ChannelsFit(asked)
        /\ heard \in [Instances -> Nat] /\ alerts \in Nat
    BY <2>1, AlertPairs DEF Inv, Typed
  <2>3. IsAlert(msg) = 1
    BY <1>1 DEF IsAlert, IsKind
  <2>4. \A s \in sends : i = Home /\ s.link[1] = Home
    <3>1. ~msg.marked => i = Home
      BY <1>1 DEF Fits
    <3> QED
      BY <3>1 DEF PassOn, To
  <2> HIDE DEF msg, sends
  <2>5. /\ Alerts(channel[link]) \in Nat /\ Alerts(channel'[link]) \in Nat
        /\ Alerts(channel'[link]) <= Alerts(channel[link]) - 1
    <3>1. \A s \in sends : s.link # link
      BY <1>1, <2>4
    <3>2. Alerts(channel'[link]) <= Alerts(channel[link])
                                     - (IF link = link THEN IsAlert(Head(channel[link])) ELSE 0)
      BY <1>1, <2>1, <2>2, <3>1, SentAlerts
    <3>3. Alerts(channel[link]) \in Nat /\ Alerts(channel'[link]) \in Nat
      BY <1>1, <2>1, <2>2, SentAlerts
    <3> QED
      BY <2>3, <3>2, <3>3 DEF msg
  <2>6. ASSUME NEW l \in Pairs, l # link
        PROVE  /\ Alerts(channel[l]) \in Nat /\ Alerts(channel'[l]) \in Nat
               /\ Alerts(channel'[l]) <= Alerts(channel[l]) + 1
               /\ sends = {} \/ l[1] # Home => Alerts(channel'[l]) <= Alerts(channel[l])
    <3>1. sends = {} \/ l[1] # Home => \A s \in sends : s.link = l => s.msg.kind # "alert"
      BY <2>4
    <3> HIDE DEF link
    <3> QED
      BY <2>1, <2>2, <2>6, <3>1, SentAlerts
  <2>7. CASE i = Home
    <3>1. heard'[Home] = heard[Home] + 1 /\ heard[Home] \in Nat
      BY <2>1, <2>2, <2>7
    <3>2. heard'[Home] + Alerts(channel'[<<Device, Home>>]) <= alerts'
      BY <1>2, <2>1, <2>2, <2>5, <2>7, <3>1 DEF Counted
    <3>3. ASSUME NEW j \in Instances \ {Home}
          PROVE  heard'[j] + Waiting(j)' <= heard'[Home]
      <4>1. heard'[j] = heard[j] /\ heard[j] \in Nat /\ <<Home, j>> # link
        BY <1>2, <2>1, <2>2, <2>7
      <4>2. Waiting(j) \in Nat /\ Waiting(j)' \in Nat /\ Waiting(j)' <= Waiting(j) + 1
        BY <2>2, <2>6, <4>1 DEF Waiting
      <4> QED
        BY <3>1, <4>1, <4>2 DEF Counted
    <3> QED
      BY <2>2, <3>2, <3>3 DEF Counted, Waiting
  <2>8. CASE i # Home
    <3>1. sends = {} /\ link = <<Home, i>> /\ link # <<Device, Home>>
      BY <1>2, <2>4, <2>8
    <3>2. heard'[Home] = heard[Home] /\ heard[Home] \in Nat
      BY <2>1, <2>2, <2>8
    <3>3. heard'[Home] + Alerts(channel'[<<Device, Home>>]) <= alerts'
      BY <2>1, <2>2, <2>6, <3>1, <3>2 DEF Counted
    <3>4. ASSUME NEW j \in Instances \ {Home}, j # i
          PROVE  heard'[j] + Waiting(j)' <= heard'[Home]
      <4>1. heard'[j] = heard[j] /\ heard[j] \in Nat /\ <<Home, j>> # link
        BY <2>1, <2>2, <3>1, <3>4
      <4>2. Waiting(j) \in Nat /\ Waiting(j)' \in Nat /\ Waiting(j)' <= Waiting(j)
        BY <2>2, <2>6, <3>1, <4>1 DEF Waiting
      <4> QED
        BY <3>2, <4>1, <4>2 DEF Counted
    <3>5. heard'[i] + Waiting(i)' <= heard'[Home]
      <4>1. heard'[i] = heard[i] + 1 /\ heard[i] \in Nat
        BY <2>1, <2>2
      <4>2. Waiting(i) \in Nat /\ Waiting(i)' \in Nat /\ Waiting(i)' <= Waiting(i) - 1
        BY <1>1, <2>2, <2>5, <3>1 DEF Waiting
      <4> QED
        BY <2>8, <3>2, <4>1, <4>2 DEF Counted
    <3> QED
      BY <2>2, <3>3, <3>4, <3>5 DEF Counted, Waiting
  <2> QED
    BY <2>7, <2>8
<1> QED
  BY <1>3, <1>4

\* Receiving anything else adds no alert.
LEMMA QuietReceive ==
  ASSUME Inv, Counted, NEW i \in Instances, NEW p \in Instances \cup {Device},
         \/ ReceiveHello(i, p) \/ ReceiveHeartbeat(i, p) \/ ReceiveRequest(i, p)
         \/ ReceiveRequestOnDealer(i, p) \/ ReceiveResponse(i, p)
         \/ ReceiveForwardedResponse(i, p)
  PROVE  Counted'
<1> DEFINE link == <<p, i>>
           msg == Head(channel[link])
<1>1. /\ \A l \in Pairs : l = link => channel[l] # <<>>
      /\ links' = links /\ heard' = heard /\ alerts' = alerts
  BY ArrivesFits DEF ReceiveHello, ReceiveHeartbeat, ReceiveRequest, ReceiveRequestOnDealer,
     ReceiveResponse, ReceiveForwardedResponse, history
<1>2. \/ channel' = Sent(link, {})
      \/ channel' = Sent(link, PassOn(i, msg)) /\ msg.kind = "heartbeat" /\ msg \in Messages
      \/ \E o : channel' = Sent(link, FlushSends(i, o))
      \/ \E o, asker : channel' = Sent(link, AnswerSends(i, asker) \cup FlushSends(i, o))
  BY ArrivesFits DEF ReceiveHello, ReceiveHeartbeat, ReceiveRequest, ReceiveRequestOnDealer,
     ReceiveResponse, ReceiveForwardedResponse, Resolve
<1> HIDE DEF msg, link
<1>3. CASE msg.kind = "heartbeat" /\ msg \in Messages /\ channel' = Sent(link, PassOn(i, msg))
  <2> DEFINE passed == [msg EXCEPT !.marked = TRUE]
  <2>1. passed.kind = "heartbeat"
    BY <1>3 DEF Messages
  <2> HIDE DEF passed
  <2>2. \A q : To(i, q, passed).msg = passed
    BY DEF To
  <2>3. PassOn(i, msg) \subseteq {To(i, q, passed) : q \in nodes[i]}
    BY DEF PassOn, passed
  <2>4. \A s \in PassOn(i, msg) : s.msg.kind # "alert"
    BY <2>1, <2>2, <2>3
  <2> QED
    BY <1>1, <1>3, <2>4, QuietStep
<1>4. ASSUME NEW o, NEW asker,
             \/ channel' = Sent(link, FlushSends(i, o))
             \/ channel' = Sent(link, AnswerSends(i, asker) \cup FlushSends(i, o))
      PROVE  Counted'
  <2>1. /\ \A s \in FlushSends(i, o) : s.msg.kind # "alert"
        /\ \A s \in AnswerSends(i, asker) \cup FlushSends(i, o) : s.msg.kind # "alert"
    BY QuietSends
  <2> QED
    BY <1>1, <1>4, <2>1, QuietStep
<1>5. CASE channel' = Sent(link, {})
  BY <1>1, <1>5, QuietStep
<1> QED
  BY <1>2, <1>3, <1>4, <1>5

\* Connecting, beating, asking and polling add no alert.
LEMMA QuietSender ==
  ASSUME Inv, Counted,
         \/ \E i, j \in Instances : Connect(i, j)
         \/ DeviceBeat
         \/ \E i \in Instances : Ask(i) \/ Poll(i)
  PROVE  Counted'
<1>1. CASE \E i, j \in Instances : Connect(i, j)
  <2>1. PICK i \in Instances, j \in Instances : Connect(i, j)
    BY <1>1
  <2> DEFINE sends == {To(i, j, Hello)}
  <2>2. \A s \in sends : s.msg.kind # "alert"
    BY DEF To, Hello
  <2>3. channel' = Sent(None, sends) /\ links' = links /\ heard' = heard /\ alerts' = alerts
    BY <2>1 DEF Connect, history
  <2> HIDE DEF sends
  <2> QED
    BY <2>2, <2>3, QuietSend
<1>2. CASE DeviceBeat
  <2> DEFINE sends == {To(Device, Home, Announce("heartbeat", FALSE))}
  <2>1. \A s \in sends : s.msg.kind # "alert"
    BY DEF To, Announce
  <2>2. channel' = Sent(None, sends) /\ links' = links /\ heard' = heard /\ alerts' = alerts
    BY <1>2 DEF DeviceBeat, history
  <2> HIDE DEF sends
  <2> QED
    BY <2>1, <2>2, QuietSend
<1>3. CASE \E i \in Instances : Ask(i) \/ Poll(i)
  <2>1. PICK i \in Instances : Ask(i) \/ Poll(i)
    BY <1>3
  <2>2. links' = links /\ heard' = heard /\ alerts' = alerts
    BY <2>1 DEF Ask, Poll, Retry, Timeout, history
  <2>3. \/ \E o : channel' = Sent(None, FlushSends(i, o))
        \/ \E o, asker : channel' = Sent(None, AnswerSends(i, asker) \cup FlushSends(i, o))
        \/ \E q, id : channel' = Sent(None, {To(i, q, Request(id))})
    BY <2>1 DEF Ask, Poll, Retry, Timeout, Resolve
  <2>4. ASSUME NEW o, NEW asker,
               \/ channel' = Sent(None, FlushSends(i, o))
               \/ channel' = Sent(None, AnswerSends(i, asker) \cup FlushSends(i, o))
        PROVE  Counted'
    <3>1. /\ \A s \in FlushSends(i, o) : s.msg.kind # "alert"
          /\ \A s \in AnswerSends(i, asker) \cup FlushSends(i, o) : s.msg.kind # "alert"
      BY QuietSends
    <3> QED
      BY <2>2, <2>4, <3>1, QuietSend
  <2>5. ASSUME NEW q, NEW id, channel' = Sent(None, {To(i, q, Request(id))})
        PROVE  Counted'
    <3> DEFINE sends == {To(i, q, Request(id))}
    <3>1. \A s \in sends : s.msg.kind # "alert"
      BY DEF To, Request
    <3>2. channel' = Sent(None, sends)
      BY <2>5
    <3> HIDE DEF sends
    <3> QED
      BY <2>2, <3>1, <3>2, QuietSend
  <2> QED
    BY <2>3, <2>4, <2>5
<1> QED
  BY <1>1, <1>2, <1>3

\* Losing messages and answering add no alert.
LEMMA QuietOther ==
  ASSUME Inv, Counted, DeviceAnswers \/ \E l \in Pairs : Lose(l)
  PROVE  Counted'
<1>1. CASE DeviceAnswers
  <2> DEFINE sends == {To(Device, Home, Response(Head(channel[<<Home, Device>>]).id))}
  <2>1. \A s \in sends : s.msg.kind # "alert"
    BY DEF To, Response
  <2>2. /\ channel' = Sent(<<Home, Device>>, sends) /\ channel[<<Home, Device>>] # <<>>
        /\ links' = links /\ heard' = heard /\ alerts' = alerts
    BY <1>1 DEF DeviceAnswers
  <2> HIDE DEF sends
  <2> QED
    BY <2>1, <2>2, QuietStep
<1>2. CASE \E l \in Pairs : Lose(l)
  <2>1. PICK l \in Pairs : Lose(l)
    BY <1>2
  <2>2. /\ channel' = Sent(l, {}) /\ channel[l] # <<>>
        /\ links' = links /\ heard' = heard /\ alerts' = alerts
    BY <2>1 DEF Lose, history
  <2> QED
    BY <2>2, QuietStep
<1> QED
  BY <1>1, <1>2

\* At first there are no alerts.
LEMMA InitCounted == Init => Counted
<1> SUFFICES ASSUME Init PROVE Counted
  OBVIOUS
<1>1. \A l \in Pairs : Alerts(channel[l]) = 0
  <2>1. KindAt(<<>>, "alert") = {}
    BY DEF KindAt
  <2> QED
    BY <2>1, FS_EmptySet DEF Init, Alerts, Count
<1>2. <<Device, Home>> \in Pairs
  BY DEF Pairs
<1> QED
  BY <1>1, <1>2 DEF Init, Counted, Waiting

\* No step adds to the alerts heard and under way more than was raised.
LEMMA NextCounted == ASSUME Inv, Counted, [Next]_vars PROVE Counted'
<1>1. CASE \E i \in Instances, p \in Instances \cup {Device} : Receive(i, p)
  BY <1>1, QuietReceive, ReceiveAlertCounted DEF Receive
<1>2. CASE \/ \E i, j \in Instances : Connect(i, j)
           \/ DeviceBeat
           \/ \E i \in Instances : Ask(i) \/ Poll(i)
  BY <1>2, QuietSender
<1>3. CASE DeviceAnswers \/ \E l \in Pairs : Lose(l)
  BY <1>3, QuietOther
<1>4. CASE DeviceAlert
  BY <1>4, DeviceAlertCounted
<1>5. CASE UNCHANGED vars
  BY <1>5 DEF vars, Counted, Waiting, Pairs
<1> QED
  BY <1>1, <1>2, <1>3, <1>4, <1>5 DEF Next

---------------------------------------------------------------------------
(* Requests: how often the device may still be asked to execute them *)

Tries == MaxRetry + 1

\* Where i sends its requests
Out(i) == IF i = Home THEN <<Home, Device>> ELSE <<i, Home>>

\* The requests of i that are under way
UnderWay(i) == IF Out(i) \in Pairs THEN Count(channel[Out(i)], "request") ELSE 0

\* How often the object o may still send a request
Untried(o) ==
  IF o = None THEN 0
  ELSE Tries * Len(o.queue) + (IF o.pending = None THEN 0 ELSE MaxRetry - o.tries)

\* The requests of i that may still arrive
Coming(i) == UnderWay(i) + Untried(object[i])

Amounts == [i \in Instances |-> Coming(i)]

Others == asked \ {Home}

\* What the device has executed and what may still come, each request to Home counted as often
\* as Home may send it on
Budget ==
  /\ IsFiniteSet(asked)
  /\ executed + Coming(Home) + Tries * Total(Others, Amounts)
       <= Tries * Cardinality(asked \cap {Home}) + Tries * (Tries * Cardinality(Others))

\* How many requests of i are received with the message at the head of link
Taken(i, link) == IF Out(i) = link /\ link \in Pairs THEN IsKind(Head(channel[link]), "request") ELSE 0

\* Products in the order of natural numbers
LEMMA Times ==
  ASSUME NEW a \in Nat, NEW b \in Int, NEW c \in Int
  PROVE  /\ a * (b + c) = a * b + a * c
         /\ a * (b - c) = a * b - a * c
         /\ a * b \in Int
         /\ b <= c => a * b <= a * c
         /\ 0 <= b => a * b \in Nat
OBVIOUS

\* One more and one less
LEMMA TimesOne ==
  ASSUME NEW a \in Nat, NEW b \in Nat
  PROVE  a * b \in Nat /\ a * (b + 1) = a * b + a /\ a * (b - 1) = a * b - a
OBVIOUS

\* The parts of an object of the device
LEMMA ObjectParts ==
  ASSUME NEW o \in Objects
  PROVE  /\ o # None /\ Len(o.queue) \in Nat /\ o.queue \in Seq(Instances \cup {"app"})
         /\ o.tries \in Nat /\ MaxRetry - o.tries \in Nat
         /\ MaxRetry \in Nat /\ Tries \in Nat
<1>1. o # None
  <2>1. None \notin Objects
    BY HopsAssumption
  <2> QED
    BY <2>1
<1>2. MaxRetry \in Nat
  BY HopsAssumption
<1>3. o.queue \in Seq(Instances \cup {"app"}) /\ o.tries \in 0..MaxRetry
  BY DEF Objects
<1> QED
  BY <1>1, <1>2, <1>3 DEF Tries

\* What may still come is a number.
LEMMA ComingNat ==
  ASSUME Inv, NEW i \in Instances
  PROVE  UnderWay(i) \in Nat /\ Untried(object[i]) \in Nat /\ Coming(i) \in Nat
<1>1. UnderWay(i) \in Nat
  BY CountFinite DEF UnderWay, Inv, ChannelsFit
<1>2. CASE object[i] = None
  BY <1>1, <1>2 DEF Untried, Coming
<1>3. CASE object[i] # None
  <2>1. object[i] \in Objects
    BY <1>3 DEF Inv, Typed
  <2>2. Len(object[i].queue) \in Nat /\ MaxRetry - object[i].tries \in Nat
    BY <2>1, ObjectParts
  <2>3. Tries \in Nat
    BY <2>1, ObjectParts
  <2>4. Tries * Len(object[i].queue) \in Nat
    BY <2>2, <2>3, TimesOne, Zenon
  <2>5. Untried(object[i]) \in Nat
    <3> DEFINE x == Tries * Len(object[i].queue)
               r == IF object[i].pending = None THEN 0 ELSE MaxRetry - object[i].tries
    <3>1. Untried(object[i]) = x + r
      BY <1>3 DEF Untried
    <3>2. x \in Nat /\ r \in Nat
      BY <2>2, <2>4
    <3> HIDE DEF x, r
    <3> QED
      BY <3>1, <3>2
  <2> QED
    BY <1>1, <2>5 DEF Coming
<1> QED
  BY <1>2, <1>3

\* What flushing leaves untried: one transmission less if it sends the request
LEMMA UntriedFlush ==
  ASSUME NEW o, o \in Objects
  PROVE  /\ Untried(o) \in Int
         /\ Untried(Flush(o)) = Untried(o) - (IF Idle(o) THEN 1 ELSE 0)
<1>1. o # None /\ Len(o.queue) \in Nat /\ o.tries \in Nat /\ Tries \in Nat /\ MaxRetry \in Nat
  BY ObjectParts
<1>2. Tries * Len(o.queue) \in Int
  BY <1>1, Times
<1>3. Untried(o) \in Int
  BY <1>1, <1>2 DEF Untried
<1>4. CASE ~Idle(o)
  BY <1>3, <1>4 DEF Flush
<1>5. CASE Idle(o)
  <2> DEFINE new == [o EXCEPT !.pending = Head(o.queue), !.queue = Tail(@), !.id = @ + 1, !.tries = 0]
  <2>1. o.queue # <<>> /\ o.queue \in Seq(Instances \cup {"app"}) /\ o.pending = None
    BY <1>5 DEF Idle, Objects
  <2>2. Head(o.queue) \in Instances \cup {"app"} /\ Len(Tail(o.queue)) = Len(o.queue) - 1
        /\ Tail(o.queue) \in Seq(Instances \cup {"app"})
    BY <2>1
  <2>3. Flush(o) = new
    BY <1>5 DEF Flush
  <2>4. /\ new.queue = Tail(o.queue) /\ new.pending = Head(o.queue) /\ new.tries = 0
        /\ new \in Objects
    <3>1. Flush(o) = [via |-> o.via, queue |-> Tail(o.queue), pending |-> Head(o.queue),
                      id |-> o.id + 1, tries |-> 0]
      BY <1>5 DEF Flush, Objects
    <3>2. o.via \in Instances \cup {Device} /\ o.id + 1 \in Nat /\ 0 \in 0..MaxRetry
      BY <1>1 DEF Objects
    <3> QED
      BY <2>2, <2>3, <3>1, <3>2 DEF Objects
  <2> HIDE DEF new
  <2>5. Head(o.queue) # None /\ new # None
    <3>1. None \notin Instances \cup {"app"}
      BY HopsAssumption
    <3> QED
      BY <2>2, <2>4, <3>1, ObjectParts
  <2>6. Untried(Flush(o)) = Tries * (Len(o.queue) - 1) + MaxRetry
    <3>1. Untried(new) = Tries * Len(new.queue) + (MaxRetry - new.tries)
      BY <2>4, <2>5 DEF Untried
    <3>2. Len(new.queue) = Len(o.queue) - 1 /\ MaxRetry - new.tries = MaxRetry
      BY <1>1, <2>2, <2>4
    <3> QED
      BY <2>3, <3>1, <3>2
  <2>7. Untried(o) = Tries * Len(o.queue)
    BY <1>1, <1>2, <2>1 DEF Untried
  <2>8. Tries * (Len(o.queue) - 1) = Tries * Len(o.queue) - Tries
    <3>1. Tries \in Nat /\ Len(o.queue) \in Nat
      BY <1>1
    <3> QED
      BY <3>1, TimesOne, Zenon
  <2>9. Tries = MaxRetry + 1
    BY DEF Tries
  <2>10. Untried(Flush(o)) = (Untried(o) - Tries) + MaxRetry
    BY <2>6, <2>7, <2>8, Zenon
  <2> QED
    BY <1>1, <1>3, <1>5, <2>9, <2>10
<1> QED
  BY <1>3, <1>4, <1>5

\* A queued request adds all its transmissions.
LEMMA UntriedPush ==
  ASSUME NEW o \in Objects, NEW asker \in Instances \cup {"app"}
  PROVE  Push(o, asker) \in Objects /\ Untried(Push(o, asker)) = Untried(o) + Tries
<1>1. o # None /\ Len(o.queue) \in Nat /\ o.tries \in Nat /\ Tries \in Nat /\ MaxRetry \in Nat
  BY ObjectParts
<1> DEFINE new == Push(o, asker)
<1>2. /\ new.queue = Append(o.queue, asker) /\ new.pending = o.pending /\ new.tries = o.tries
      /\ new \in Objects
  <2>1. o.queue \in Seq(Instances \cup {"app"})
    BY ObjectParts
  <2>2. Append(o.queue, asker) \in Seq(Instances \cup {"app"})
    BY <2>1
  <2>3. Push(o, asker) = [o EXCEPT !.queue = Append(o.queue, asker)]
    BY DEF Push
  <2>4. Push(o, asker) = [via |-> o.via, queue |-> Append(o.queue, asker), pending |-> o.pending,
                          id |-> o.id, tries |-> o.tries]
    BY <2>3 DEF Objects
  <2> QED
    BY <2>2, <2>4 DEF Objects
<1>3. new # None /\ Len(new.queue) = Len(o.queue) + 1
  BY <1>2, ObjectParts
<1> HIDE DEF new
<1>4. Tries * (Len(o.queue) + 1) = Tries * Len(o.queue) + Tries /\ Tries * Len(o.queue) \in Int
  <2>1. Tries \in Nat /\ Len(o.queue) \in Nat
    BY <1>1
  <2>2. Tries * (Len(o.queue) + 1) = Tries * Len(o.queue) + Tries
    BY <2>1, TimesOne, Zenon
  <2>3. Tries * Len(o.queue) \in Nat
    BY <2>1, TimesOne, Zenon
  <2> QED
    BY <2>2, <2>3
<1> DEFINE x == Tries * Len(o.queue)
           r == IF o.pending = None THEN 0 ELSE MaxRetry - o.tries
<1>5. Untried(o) = x + r /\ Untried(new) = Tries * Len(new.queue) + r
  BY <1>1, <1>2, <1>3 DEF Untried
<1>6. Tries * Len(new.queue) = x + Tries
  BY <1>3, <1>4, Zenon
<1>7. x \in Int /\ r \in Int
  BY <1>1, <1>4
<1> HIDE DEF x, r
<1>8. Untried(new) = (x + Tries) + r
  BY <1>5, <1>6, Zenon
<1>9. Untried(new) = Untried(o) + Tries
  BY <1>1, <1>5, <1>7, <1>8
<1> QED
  BY <1>2, <1>9 DEF new

\* A retry is one transmission less.
LEMMA UntriedAgain ==
  ASSUME NEW o, o \in Objects, o.pending # None, o.tries < MaxRetry
  PROVE  Untried(Again(o)) = Untried(o) - 1
<1>1. o # None /\ Len(o.queue) \in Nat /\ o.tries \in Nat /\ Tries \in Nat /\ MaxRetry \in Nat
  BY ObjectParts
<1> DEFINE new == Again(o)
<1>2. /\ new.queue = o.queue /\ new.pending = o.pending /\ new.tries = o.tries + 1
      /\ new \in Objects
  <2>1. o.id + 1 \in Nat /\ o.tries + 1 \in 0..MaxRetry
    BY <1>1 DEF Objects
  <2> QED
    BY <2>1 DEF Again, Objects
<1>3. new # None
  BY <1>2, ObjectParts
<1> HIDE DEF new
<1>4. Tries * Len(o.queue) \in Int
  BY <1>1, Times
<1> QED
  BY <1>1, <1>2, <1>3, <1>4 DEF Untried, new

\* A request that ends leaves no more untried.
LEMMA UntriedRest ==
  ASSUME NEW o \in Objects
  PROVE  /\ [o EXCEPT !.pending = None] \in Objects
         /\ Untried([o EXCEPT !.pending = None]) <= Untried(o)
<1>1. o # None /\ Len(o.queue) \in Nat /\ MaxRetry - o.tries \in Nat /\ Tries \in Nat
  BY ObjectParts
<1> DEFINE new == [o EXCEPT !.pending = None]
<1>2. new.queue = o.queue /\ new.pending = None /\ new \in Objects
  BY DEF Objects
<1>3. new # None
  BY <1>2, ObjectParts
<1> HIDE DEF new
<1>4. Tries * Len(o.queue) \in Int
  BY <1>1, Times
<1> QED
  BY <1>1, <1>2, <1>3, <1>4 DEF Untried, new

\* Each instance has a connection of its own to send requests over.
LEMMA OutDiffers ==
  ASSUME NEW i \in Instances, NEW j \in Instances, i # j
  PROVE  Out(i) # Out(j)
BY HopsAssumption DEF Out

\* What Sent does to the requests of i that are under way
LEMMA SentRequests ==
  ASSUME Inv, links' = links, NEW i \in Instances,
         NEW link, \A l \in Pairs : l = link => channel[l] # <<>>,
         NEW sends, channel' = Sent(link, sends)
  PROVE  /\ UnderWay(i) \in Nat /\ UnderWay(i)' \in Nat /\ Taken(i, link) \in {0, 1}
         /\ UnderWay(i)' <= UnderWay(i) - Taken(i, link) + 1
         /\ (\A s \in sends : s.msg.kind = "request" => s.link # Out(i)) =>
              UnderWay(i)' <= UnderWay(i) - Taken(i, link)
<1>1. Pairs' = Pairs /\ Out(i)' = Out(i)
  BY DEF Pairs, Out
<1>2. Taken(i, link) \in {0, 1}
  BY DEF Taken, IsKind
<1>3. CASE Out(i) \notin Pairs
  <2>1. UnderWay(i) = 0 /\ UnderWay(i)' = 0 /\ Taken(i, link) = 0
    BY <1>1, <1>3 DEF UnderWay, Taken
  <2> QED
    BY <2>1
<1>4. CASE Out(i) \in Pairs
  <2> DEFINE l == Out(i)
  <2>1. /\ UnderWay(i) = Count(channel[l], "request")
        /\ UnderWay(i)' = Count(channel'[l], "request")
        /\ Taken(i, link) = IF l = link THEN IsKind(Head(channel[l]), "request") ELSE 0
    BY <1>1, <1>4 DEF UnderWay, Taken
  <2>2. l \in Pairs /\ ChannelsFit(asked)
    BY <1>4 DEF Inv
  <2> HIDE DEF l
  <2>3. /\ Count(channel[l], "request") \in Nat /\ Count(channel'[l], "request") \in Nat
        /\ Count(channel'[l], "request") <= Count(channel[l], "request")
             - (IF l = link THEN IsKind(Head(channel[l]), "request") ELSE 0) + 1
        /\ (\A s \in sends : s.link = l => s.msg.kind # "request") =>
             Count(channel'[l], "request") <= Count(channel[l], "request")
               - (IF l = link THEN IsKind(Head(channel[l]), "request") ELSE 0)
    BY <2>2, SentCount
  <2> QED
    BY <1>2, <2>1, <2>3 DEF l
<1> QED
  BY <1>3, <1>4

\* A step that sends no request and leaves the objects alone
LEMMA NoRequestSent ==
  ASSUME Inv, links' = links, object' = object, NEW i \in Instances,
         NEW link, \A l \in Pairs : l = link => channel[l] # <<>>,
         NEW sends, channel' = Sent(link, sends),
         \A s \in sends : s.msg.kind # "request"
  PROVE  Coming(i) \in Nat /\ Coming(i)' \in Nat /\ Coming(i)' <= Coming(i) - Taken(i, link)
<1>1. /\ UnderWay(i) \in Nat /\ UnderWay(i)' \in Nat /\ Taken(i, link) \in {0, 1}
      /\ UnderWay(i)' <= UnderWay(i) - Taken(i, link)
  BY SentRequests
<1>2. Untried(object[i]) \in Nat
  BY ComingNat
<1>3. Untried(object[i])' = Untried(object[i])
  OBVIOUS
<1> QED
  BY <1>1, <1>2, <1>3 DEF Coming

\* A step in which only i sends requests and changes its object
LEMMA OneSends ==
  ASSUME Inv, links' = links, NEW i \in Instances,
         NEW new, object' = [object EXCEPT ![i] = new], Untried(new) \in Int,
         NEW link, \A l \in Pairs : l = link => channel[l] # <<>>,
         NEW sends, channel' = Sent(link, sends),
         \A s \in sends : s.msg.kind = "request" => s.link = Out(i)
  PROVE  /\ Coming(i)' <= UnderWay(i) - Taken(i, link) + 1 + Untried(new)
         /\ (\A s \in sends : s.msg.kind # "request") =>
              Coming(i)' <= UnderWay(i) - Taken(i, link) + Untried(new)
         /\ \A j \in Instances : j # i => Coming(j)' <= Coming(j) - Taken(j, link)
<1>1. object \in [Instances -> Objects \cup {None}]
  BY DEF Inv, Typed
<1>2. /\ Coming(i)' <= UnderWay(i) - Taken(i, link) + 1 + Untried(new)
      /\ (\A s \in sends : s.msg.kind # "request") =>
           Coming(i)' <= UnderWay(i) - Taken(i, link) + Untried(new)
  <2>1. object'[i] = new
    BY <1>1
  <2>2. Untried(object[i])' = Untried(new)
    BY <2>1 DEF Untried, Tries
  <2>3. /\ UnderWay(i) \in Nat /\ UnderWay(i)' \in Nat /\ Taken(i, link) \in {0, 1}
        /\ UnderWay(i)' <= UnderWay(i) - Taken(i, link) + 1
        /\ (\A s \in sends : s.msg.kind = "request" => s.link # Out(i)) =>
             UnderWay(i)' <= UnderWay(i) - Taken(i, link)
    BY SentRequests
  <2>4. Coming(i)' = UnderWay(i)' + Untried(new)
    BY <2>2 DEF Coming
  <2>5. (\A s \in sends : s.msg.kind # "request") =>
          UnderWay(i)' <= UnderWay(i) - Taken(i, link)
    BY <2>3
  <2>6. Untried(new) \in Int
    OBVIOUS
  <2> QED
    BY <2>3, <2>4, <2>5, <2>6
<1>3. ASSUME NEW j \in Instances, j # i
      PROVE  Coming(j)' <= Coming(j) - Taken(j, link)
  <2>1. object'[j] = object[j]
    BY <1>1, <1>3
  <2>2. Untried(object[j])' = Untried(object[j]) /\ Untried(object[j]) \in Nat
    <3>1. Untried(object[j])' = Untried(object[j])
      BY <2>1 DEF Untried, Tries
    <3>2. Untried(object[j]) \in Nat
      BY ComingNat
    <3> QED
      BY <3>1, <3>2
  <2>3. \A s \in sends : s.msg.kind = "request" => s.link # Out(j)
    BY <1>3, OutDiffers
  <2>4. /\ UnderWay(j) \in Nat /\ UnderWay(j)' \in Nat /\ Taken(j, link) \in {0, 1}
        /\ UnderWay(j)' <= UnderWay(j) - Taken(j, link)
    BY <2>3, SentRequests
  <2>5. Coming(j)' = UnderWay(j)' + Untried(object[j])
    BY <2>2 DEF Coming
  <2> QED
    BY <2>2, <2>4, <2>5 DEF Coming
<1> QED
  BY <1>2, <1>3

\* A step that flushes the object o of i
LEMMA OneFlushes ==
  ASSUME Inv, links' = links, NEW i \in Instances, NEW A, NEW o, ObjectFits(o, i, A),
         object' = [object EXCEPT ![i] = Flush(o)],
         NEW link, \A l \in Pairs : l = link => channel[l] # <<>>,
         NEW sends, \A s \in sends : s.msg.kind # "request",
         channel' = Sent(link, sends \cup FlushSends(i, o))
  PROVE  /\ Coming(i)' <= UnderWay(i) - Taken(i, link) + Untried(o)
         /\ \A j \in Instances : j # i => Coming(j)' <= Coming(j) - Taken(j, link)
<1> DEFINE all == sends \cup FlushSends(i, o)
<1>1. o \in Objects /\ <<i, o.via>> = Out(i)
  BY DEF ObjectFits, Out
<1>2. Untried(o) \in Int /\ Untried(Flush(o)) = Untried(o) - (IF Idle(o) THEN 1 ELSE 0)
  BY <1>1, UntriedFlush
<1>3. \A s \in all : s.msg.kind = "request" => s.link = Out(i)
  BY <1>1 DEF FlushSends, To
<1>4. ~Idle(o) => \A s \in all : s.msg.kind # "request"
  BY DEF FlushSends
<1>5. channel' = Sent(link, all)
  OBVIOUS
<1> HIDE DEF all
<1>6. Untried(Flush(o)) \in Int
  BY <1>2
<1>7. /\ Coming(i)' <= UnderWay(i) - Taken(i, link) + 1 + Untried(Flush(o))
      /\ (\A s \in all : s.msg.kind # "request") =>
           Coming(i)' <= UnderWay(i) - Taken(i, link) + Untried(Flush(o))
      /\ \A j \in Instances : j # i => Coming(j)' <= Coming(j) - Taken(j, link)
  BY <1>3, <1>5, <1>6, OneSends
<1>8. UnderWay(i) \in Nat /\ Taken(i, link) \in {0, 1}
  BY ComingNat DEF Taken, IsKind
<1>9. Coming(i)' <= UnderWay(i) - Taken(i, link) + Untried(o)
  BY <1>2, <1>4, <1>7, <1>8
<1> QED
  BY <1>7, <1>9

\* The amounts are numbers.
AmountsTyped == Amounts \in [Instances -> Nat]

LEMMA AmountsNat == Inv => AmountsTyped
BY ComingNat DEF Amounts, AmountsTyped

\* They stay so.
LEMMA AmountsNatLater == Inv' => AmountsTyped'
BY AmountsNat, PTL

\* What they are the numbers of
LEMMA BudgetNumbers ==
  ASSUME Inv, Inv'
  PROVE  /\ \A i \in Instances :
              /\ Amounts[i] = Coming(i) /\ Coming(i) \in Nat
              /\ Amounts'[i] = Coming(i)' /\ Coming(i)' \in Nat
         /\ executed \in Nat /\ executed' \in Nat
         /\ Tries \in Nat /\ Others \subseteq Instances \ {Home} /\ Home \in Instances
<1>1. \A i \in Instances : Amounts[i] = Coming(i) /\ Coming(i) \in Nat
  BY AmountsNat DEF Amounts, AmountsTyped
<1>2. \A i \in Instances : Amounts'[i] = Coming(i)' /\ Coming(i)' \in Nat
  BY AmountsNatLater DEF Amounts, AmountsTyped
<1>3. /\ executed \in Nat /\ executed' \in Nat
      /\ Others \subseteq Instances \ {Home} /\ Home \in Instances
  BY HopsAssumption DEF Inv, Typed, Others
<1>4. Tries \in Nat
  BY HopsAssumption DEF Tries
<1> QED
  BY <1>1, <1>2, <1>3, <1>4

\* The numbers of Budget
LEMMA BudgetNat ==
  ASSUME Inv, Inv', IsFiniteSet(asked)
  PROVE  /\ IsFiniteSet(Others) /\ Total(Others, Amounts) \in Nat
         /\ Cardinality(asked \cap {Home}) \in Nat /\ Cardinality(Others) \in Nat
<1>1. IsFiniteSet(Others) /\ IsFiniteSet(asked \cap {Home})
  BY FS_Subset DEF Others
<1>2. \A i \in Others : Amounts[i] \in Nat
  BY BudgetNumbers
<1> QED
  BY <1>1, <1>2, UnitsFinite, FS_CardinalityType

\* A step in which nobody asks, and that adds to nothing
LEMMA QuietBudget ==
  ASSUME Inv, Inv', Budget, asked' = asked,
         executed' + Coming(Home)' <= executed + Coming(Home),
         \A i \in Instances \ {Home} : Coming(i)' <= Coming(i)
  PROVE  Budget'
<1> DEFINE f == Amounts
           g == Amounts'
           t == Total(Others, f)
           u == Total(Others, g)
<1>1. Others' = Others /\ Tries' = Tries
  BY DEF Others, Tries
<1>2. /\ IsFiniteSet(Others) /\ t \in Nat
      /\ Cardinality(asked \cap {Home}) \in Nat /\ Cardinality(Others) \in Nat
  BY BudgetNat DEF Budget
<1>3. \A i \in Others : f[i] \in Nat /\ g[i] \in Nat /\ g[i] <= f[i]
  BY BudgetNumbers
<1> HIDE DEF f, g
<1>4. u \in Nat /\ u <= t
  BY <1>2, <1>3, UnitsFinite, TotalOfLess
<1> HIDE DEF t, u
<1>5. executed + Coming(Home) + Tries * t
        <= Tries * Cardinality(asked \cap {Home}) + Tries * (Tries * Cardinality(Others))
  BY DEF Budget, t, f
<1>6. executed' + Coming(Home)' + Tries * u
        <= Tries * Cardinality(asked \cap {Home}) + Tries * (Tries * Cardinality(Others))
  <2>1. Tries \in Nat /\ executed \in Nat /\ executed' \in Nat /\ Coming(Home) \in Nat /\ Coming(Home)' \in Nat
    BY BudgetNumbers
  <2>2. Tries * u <= Tries * t /\ Tries * u \in Int /\ Tries * t \in Int
    BY <1>2, <1>4, <2>1, Times
  <2>3. Tries * Cardinality(asked \cap {Home}) \in Int /\ Tries * (Tries * Cardinality(Others)) \in Int
    BY <1>2, <2>1, Times
  <2> QED
    BY <1>5, <2>1, <2>2, <2>3
<1>7. IsFiniteSet(asked')
  BY DEF Budget
<1> QED
  BY <1>1, <1>6, <1>7 DEF Budget, u, g

\* Home receives a request of i and queues it.
LEMMA PassedOnBudget ==
  ASSUME Inv, Inv', Budget, asked' = asked, executed' = executed,
         NEW i \in Others, Coming(i)' <= Coming(i) - 1,
         Coming(Home)' <= Coming(Home) + Tries,
         \A j \in Instances \ {Home, i} : Coming(j)' <= Coming(j)
  PROVE  Budget'
<1> DEFINE f == Amounts
           g == Amounts'
           t == Total(Others, f)
           u == Total(Others, g)
<1>1. Others' = Others /\ Tries' = Tries
  BY DEF Others, Tries
<1>2. /\ IsFiniteSet(Others) /\ t \in Nat
      /\ Cardinality(asked \cap {Home}) \in Nat /\ Cardinality(Others) \in Nat
  BY BudgetNat DEF Budget
<1>3. /\ \A j \in Others : f[j] \in Nat /\ g[j] \in Nat
      /\ \A j \in Others \ {i} : g[j] <= f[j]
      /\ g[i] <= f[i] - 1
  BY BudgetNumbers
<1> HIDE DEF f, g
<1>4. u \in Nat /\ u <= t - 1
  <2>1. IsFiniteSet(Others \ {i})
    BY <1>2, FS_RemoveElement
  <2>2. Total(Others \ {i}, g) <= Total(Others \ {i}, f)
    BY <1>3, <2>1, TotalOfLess
  <2>3. Total(Others \ {i}, g) \in Nat /\ Total(Others \ {i}, f) \in Nat
    BY <1>3, <2>1, UnitsFinite
  <2>4. t = Total(Others \ {i}, f) + f[i] /\ u = Total(Others \ {i}, g) + g[i]
    BY <1>2, <1>3, TotalWithout
  <2>5. f[i] \in Nat /\ g[i] \in Nat
    BY <1>3
  <2> QED
    BY <1>3, <2>2, <2>3, <2>4, <2>5
<1> HIDE DEF t, u
<1>5. executed + Coming(Home) + Tries * t
        <= Tries * Cardinality(asked \cap {Home}) + Tries * (Tries * Cardinality(Others))
  BY DEF Budget, t, f
<1>6. executed' + Coming(Home)' + Tries * u
        <= Tries * Cardinality(asked \cap {Home}) + Tries * (Tries * Cardinality(Others))
  <2>1. Tries \in Nat /\ executed \in Nat /\ Coming(Home) \in Nat /\ Coming(Home)' \in Nat
    BY BudgetNumbers
  <2>2. Tries * u <= Tries * (t - 1) /\ Tries * u \in Int /\ Tries * t \in Int
    BY <1>2, <1>4, <2>1, Times
  <2>3. Tries * (t - 1) = Tries * t - Tries
    BY <1>2, <2>1, TimesOne, Zenon
  <2>4. Tries * u <= Tries * t - Tries
    BY <2>2, <2>3, Zenon
  <2>5. Tries * Cardinality(asked \cap {Home}) \in Int /\ Tries * (Tries * Cardinality(Others)) \in Int
    BY <1>2, <2>1, Times
  <2> QED
    BY <1>5, <2>1, <2>2, <2>4, <2>5
<1>7. IsFiniteSet(asked')
  BY DEF Budget
<1> QED
  BY <1>1, <1>6, <1>7 DEF Budget, u, g

\* Another instance than Home asks.
LEMMA AskedBudget ==
  ASSUME Inv, Inv', Budget, NEW i \in Instances \ {Home}, i \notin asked,
         asked' = asked \cup {i}, executed' = executed, Coming(i)' <= Tries,
         \A j \in Instances \ {i} : Coming(j)' <= Coming(j)
  PROVE  Budget'
<1> DEFINE f == Amounts
           g == Amounts'
           t == Total(Others, f)
           u == Total(Others \cup {i}, g)
           n == Cardinality(Others)
           home == Tries * Cardinality(asked \cap {Home})
<1>1. Others' = Others \cup {i} /\ asked' \cap {Home} = asked \cap {Home} /\ Tries' = Tries
  BY DEF Others, Tries
<1>2. /\ IsFiniteSet(Others) /\ t \in Nat
      /\ Cardinality(asked \cap {Home}) \in Nat /\ n \in Nat
  BY BudgetNat DEF Budget
<1>3. /\ \A j \in Others : f[j] \in Nat /\ g[j] \in Nat /\ g[j] <= f[j]
      /\ g[i] \in Nat /\ g[i] <= Tries
      /\ i \notin Others
  BY BudgetNumbers DEF Others
<1>4. IsFiniteSet(Others \cup {i}) /\ Cardinality(Others \cup {i}) = n + 1
  BY <1>2, <1>3, FS_AddElement
<1> HIDE DEF f, g
<1>5. u \in Nat /\ u <= t + Tries
  <2>1. Total(Others, g) <= t /\ Total(Others, g) \in Nat
    BY <1>2, <1>3, TotalOfLess, UnitsFinite
  <2>2. \A j \in Others \cup {i} : g[j] \in Nat
    BY <1>3
  <2>3. u = Total((Others \cup {i}) \ {i}, g) + g[i]
    BY <1>4, <2>2, TotalWithout
  <2>4. (Others \cup {i}) \ {i} = Others
    BY <1>3
  <2>5. u = Total(Others, g) + g[i]
    BY <2>3, <2>4
  <2>6. Tries \in Nat
    BY BudgetNumbers
  <2> QED
    BY <1>2, <1>3, <2>1, <2>5, <2>6
<1>6. executed + Coming(Home) + Tries * t <= home + Tries * (Tries * n)
  BY DEF Budget, f
<1> HIDE DEF t, u, n
<1>7. executed' + Coming(Home)' + Tries * u <= home + Tries * (Tries * (n + 1))
  <2>1. /\ Tries \in Nat /\ executed \in Nat
        /\ Coming(Home) \in Nat /\ Coming(Home)' \in Nat /\ Coming(Home)' <= Coming(Home)
    BY BudgetNumbers
  <2>2. Tries * u <= Tries * (t + Tries) /\ Tries * u \in Int /\ Tries * t \in Int
    BY <1>2, <1>5, <2>1, Times
  <2>3. Tries * (t + Tries) = Tries * t + Tries * Tries
    BY <1>2, <2>1, Times
  <2>4. Tries * n \in Int /\ Tries * Tries \in Int
    BY <1>2, <2>1, Times
  <2>5. Tries * (n + 1) = Tries * n + Tries
    BY <1>2, <2>1, TimesOne, Zenon
  <2>6. Tries * (Tries * n + Tries) = Tries * (Tries * n) + Tries * Tries
    BY <2>1, <2>4, Times
  <2>7. Tries * (Tries * (n + 1)) = Tries * (Tries * n) + Tries * Tries
    BY <2>5, <2>6, Zenon
  <2>8. Tries * u <= Tries * t + Tries * Tries
    BY <2>2, <2>3, Zenon
  <2>9. home \in Int /\ Tries * (Tries * n) \in Int
    BY <1>2, <2>1, <2>4, Times
  <2> HIDE DEF home
  <2>10. executed' + Coming(Home)' + Tries * u <= home + (Tries * (Tries * n) + Tries * Tries)
    BY <1>6, <2>1, <2>2, <2>4, <2>8, <2>9
  <2> QED
    BY <2>7, <2>10, Zenon
<1>8. IsFiniteSet(asked')
  BY FS_AddElement DEF Budget
<1> QED
  BY <1>1, <1>4, <1>7, <1>8 DEF Budget, u, g

\* Home asks.
LEMMA AskedHomeBudget ==
  ASSUME Inv, Inv', Budget, Home \notin asked,
         asked' = asked \cup {Home}, executed' = executed,
         Coming(Home)' <= Coming(Home) + Tries,
         \A j \in Instances \ {Home} : Coming(j)' <= Coming(j)
  PROVE  Budget'
<1> DEFINE f == Amounts
           g == Amounts'
           t == Total(Others, f)
           u == Total(Others, g)
<1>1. Others' = Others /\ Tries' = Tries /\ asked \cap {Home} = {} /\ asked' \cap {Home} = {Home}
  BY DEF Others, Tries
<1>2. /\ IsFiniteSet(Others) /\ t \in Nat /\ Cardinality(Others) \in Nat
  BY BudgetNat DEF Budget
<1>3. \A j \in Others : f[j] \in Nat /\ g[j] \in Nat /\ g[j] <= f[j]
  BY BudgetNumbers
<1>4. Cardinality(asked \cap {Home}) = 0 /\ Cardinality(asked' \cap {Home}) = 1
  BY <1>1, FS_EmptySet, FS_Singleton
<1> HIDE DEF f, g
<1>5. u \in Nat /\ u <= t
  BY <1>2, <1>3, UnitsFinite, TotalOfLess
<1> HIDE DEF t, u
<1>6. Tries \in Nat /\ Tries * 0 = 0 /\ Tries * 1 = Tries
  <2>1. Tries \in Nat
    BY BudgetNumbers
  <2> QED
    BY <2>1
<1>7. executed + Coming(Home) + Tries * t <= 0 + Tries * (Tries * Cardinality(Others))
  BY <1>4, <1>6 DEF Budget, t, f
<1>8. executed' + Coming(Home)' + Tries * u <= Tries + Tries * (Tries * Cardinality(Others))
  <2>1. executed \in Nat /\ Coming(Home) \in Nat /\ Coming(Home)' \in Nat
    BY BudgetNumbers
  <2>2. Tries * u <= Tries * t /\ Tries * u \in Int /\ Tries * t \in Int
    BY <1>2, <1>5, <1>6, Times
  <2>3. Tries * (Tries * Cardinality(Others)) \in Int
    BY <1>2, <1>6, Times
  <2> QED
    BY <1>6, <1>7, <2>1, <2>2, <2>3
<1>9. IsFiniteSet(asked')
  BY FS_AddElement DEF Budget
<1> QED
  BY <1>1, <1>4, <1>6, <1>8, <1>9 DEF Budget, u, g

\* A step in which nobody asks and no amount grows
LEMMA QuietAmounts ==
  ASSUME Inv, Inv', Budget, asked' = asked, executed' = executed,
         \A i \in Instances : Coming(i)' <= Coming(i)
  PROVE  Budget'
<1>1. executed \in Nat /\ Home \in Instances /\ Coming(Home) \in Nat /\ Coming(Home)' \in Nat
  BY BudgetNumbers
<1>2. executed' + Coming(Home)' <= executed + Coming(Home)
  BY <1>1
<1> QED
  BY <1>2, QuietBudget

\* A step that sends no request
LEMMA NoRequestStep ==
  ASSUME Inv, Inv', Budget, links' = links, object' = object, asked' = asked, executed' = executed,
         NEW link, \A l \in Pairs : l = link => channel[l] # <<>>,
         NEW sends, channel' = Sent(link, sends),
         \A s \in sends : s.msg.kind # "request"
  PROVE  Budget'
<1>1. ASSUME NEW i \in Instances PROVE Coming(i)' <= Coming(i)
  <2>1. Coming(i) \in Nat /\ Coming(i)' \in Nat /\ Coming(i)' <= Coming(i) - Taken(i, link)
    BY NoRequestSent
  <2>2. Taken(i, link) \in {0, 1}
    BY DEF Taken, IsKind
  <2> QED
    BY <2>1, <2>2
<1> QED
  BY <1>1, QuietAmounts

\* The pending request of i ends.
LEMMA ResolveBudget ==
  ASSUME Inv, Inv', Budget, links' = links, asked' = asked, executed' = executed,
         NEW i \in Instances, object[i] # None,
         NEW link, \A l \in Pairs : l = link => channel[l] # <<>>,
         NEW outcome, Resolve(i, link, outcome)
  PROVE  Budget'
<1> DEFINE o == object[i]
           rest == [o EXCEPT !.pending = None]
           sends == AnswerSends(i, o.pending)
<1>1. ObjectFits(o, i, asked) /\ o \in Objects
  BY DEF Inv, ObjectFits
<1>2. rest \in Objects /\ Untried(rest) <= Untried(o) /\ Untried(rest) \in Int /\ Untried(o) \in Int
  BY <1>1, UntriedRest, UntriedFlush
<1>3. ObjectFits(rest, i, asked)
  BY <1>1, <1>2 DEF ObjectFits, Objects
<1>4. \A s \in sends : s.msg.kind # "request"
  BY DEF AnswerSends, To, Response
<1>5. object' = [object EXCEPT ![i] = Flush(rest)] /\ channel' = Sent(link, sends \cup FlushSends(i, rest))
  BY DEF Resolve
<1> HIDE DEF rest, sends
<1>6. /\ Coming(i)' <= UnderWay(i) - Taken(i, link) + Untried(rest)
      /\ \A j \in Instances : j # i => Coming(j)' <= Coming(j) - Taken(j, link)
  BY <1>3, <1>4, <1>5, OneFlushes
<1>7. ASSUME NEW j \in Instances PROVE Coming(j)' <= Coming(j)
  <2>1. /\ Taken(j, link) \in {0, 1} /\ UnderWay(j) \in Nat
        /\ Coming(j) \in Nat /\ Coming(j)' \in Nat
    BY ComingNat, BudgetNumbers DEF Taken, IsKind
  <2>2. CASE j = i
    <3>1. Coming(i) = UnderWay(i) + Untried(o)
      BY DEF Coming
    <3> QED
      BY <1>2, <1>6, <2>1, <2>2, <3>1
  <2>3. CASE j # i
    BY <1>6, <2>1, <2>3
  <2> QED
    BY <2>2, <2>3
<1> QED
  BY <1>7, QuietAmounts

\* A poll sends a request again, or gives it up.
LEMMA PollBudget ==
  ASSUME Inv, Inv', Budget, NEW i \in Instances, Poll(i)
  PROVE  Budget'
<1>1. /\ links' = links /\ asked' = asked /\ executed' = executed
      /\ object[i] # None /\ object[i].pending # None
  BY DEF Poll, Retry, Timeout, history, Resolve
<1>2. \A l \in Pairs : l = None => channel[l] # <<>>
  BY NoneIsNoPair DEF Inv, Typed
<1>3. CASE Timeout(i)
  <2>1. Resolve(i, None, "timeout")
    BY <1>3 DEF Timeout
  <2> QED
    BY <1>1, <1>2, <2>1, ResolveBudget
<1>4. CASE Retry(i)
  <2> DEFINE o == object[i]
             sends == {To(i, o.via, Request(o.id + 1))}
  <2>1. o \in Objects /\ <<i, o.via>> = Out(i)
    BY <1>1 DEF Inv, ObjectFits, Out
  <2>2. /\ object' = [object EXCEPT ![i] = Again(o)] /\ channel' = Sent(None, sends)
        /\ o.tries < MaxRetry
    BY <1>4 DEF Retry
  <2>3. Untried(Again(o)) = Untried(o) - 1 /\ Untried(o) \in Int
    BY <1>1, <2>1, <2>2, UntriedAgain, UntriedFlush
  <2>4. \A s \in sends : s.msg.kind = "request" => s.link = Out(i)
    BY <2>1 DEF To
  <2> HIDE DEF sends
  <2>5. Untried(Again(o)) \in Int
    BY <2>3
  <2>6. /\ Coming(i)' <= UnderWay(i) - Taken(i, None) + 1 + Untried(Again(o))
        /\ \A j \in Instances : j # i => Coming(j)' <= Coming(j) - Taken(j, None)
    BY <1>1, <1>2, <2>2, <2>4, <2>5, OneSends
  <2>7. ASSUME NEW j \in Instances PROVE Coming(j)' <= Coming(j)
    <3>1. /\ Taken(j, None) \in {0, 1} /\ UnderWay(j) \in Nat
          /\ Coming(j) \in Nat /\ Coming(j)' \in Nat
      BY ComingNat, BudgetNumbers DEF Taken, IsKind
    <3>2. CASE j = i
      <4>1. Coming(i) = UnderWay(i) + Untried(o)
        BY DEF Coming
      <4> QED
        BY <2>3, <2>6, <3>1, <3>2, <4>1
    <3>3. CASE j # i
      BY <2>6, <3>1, <3>3
    <3> QED
      BY <3>2, <3>3
  <2> QED
    BY <1>1, <2>7, QuietAmounts
<1> QED
  BY <1>3, <1>4 DEF Poll

\* Nothing is on its way from an instance that has not asked.
LEMMA UnaskedSendsNothing ==
  ASSUME Inv, NEW i \in Instances, i # Home, i \notin asked
  PROVE  Coming(i) = 0
<1>1. UnderWay(i) = 0
  <2>1. CASE Out(i) \notin Pairs
    BY <2>1 DEF UnderWay
  <2>2. CASE Out(i) \in Pairs
    <3>1. channel[Out(i)] \in Seq(Fit(Out(i), asked))
      BY <2>2 DEF Inv, ChannelsFit
    <3>2. Out(i)[1] = i /\ Out(i) # <<Home, Device>>
      BY DEF Out
    <3>3. \A m \in Fit(Out(i), asked) : m.kind # "request"
      BY <3>2 DEF Fit, Fits
    <3>4. KindAt(channel[Out(i)], "request") = {}
      BY <3>1, <3>3 DEF KindAt
    <3> QED
      BY <2>2, <3>4, FS_EmptySet DEF UnderWay, Count
  <2> QED
    BY <2>1, <2>2
<1>2. Untried(object[i]) = 0
  <2>1. CASE object[i] = None
    BY <2>1 DEF Untried
  <2>2. CASE object[i] # None
    <3>1. object[i].pending = None /\ object[i].queue = <<>> /\ object[i] \in Objects
      BY <2>2 DEF Inv, ObjectFits
    <3>2. Tries \in Nat /\ Len(object[i].queue) = 0
      BY <3>1, ObjectParts
    <3>3. Tries * 0 = 0
      BY <3>2
    <3> QED
      BY <2>2, <3>1, <3>2, <3>3 DEF Untried
  <2> QED
    BY <2>1, <2>2
<1> QED
  BY <1>1, <1>2 DEF Coming

\* The application of i asks.
LEMMA AskBudget ==
  ASSUME Inv, Inv', Budget, NEW i \in Instances, Ask(i)
  PROVE  Budget'
<1> DEFINE o == object[i]
           pushed == Push(o, "app")
           A == asked \cup {i}
<1>1. /\ links' = links /\ asked' = A /\ executed' = executed /\ i \notin asked /\ o # None
      /\ object' = [object EXCEPT ![i] = Flush(pushed)]
      /\ channel' = Sent(None, FlushSends(i, pushed))
  BY DEF Ask, history
<1>2. ObjectFits(pushed, i, A)
  <2>1. A \in SUBSET Instances
    BY HopsAssumption DEF Inv, Typed
  <2>2. ObjectFits(o, i, A)
    BY <1>1, ObjectFitsGrows DEF Inv
  <2>3. "app" \in AskersOf(i, A)
    BY DEF AskersOf
  <2> QED
    BY <2>1, <2>2, <2>3, PushFits
<1>3. Untried(pushed) = Untried(o) + Tries
  <2>1. o \in Objects
    BY <1>1 DEF Inv, ObjectFits
  <2> QED
    BY <2>1, UntriedPush
<1>4. \A l \in Pairs : l = None => channel[l] # <<>>
  BY NoneIsNoPair DEF Inv, Typed
<1> HIDE DEF pushed
<1>5. /\ Coming(i)' <= UnderWay(i) - Taken(i, None) + Untried(pushed)
      /\ \A j \in Instances : j # i => Coming(j)' <= Coming(j) - Taken(j, None)
  <2> DEFINE none == {}
  <2>1. none \cup FlushSends(i, pushed) = FlushSends(i, pushed)
    OBVIOUS
  <2>2. channel' = Sent(None, none \cup FlushSends(i, pushed))
    BY <1>1, <2>1
  <2>3. \A s \in none : s.msg.kind # "request"
    OBVIOUS
  <2> HIDE DEF none
  <2> QED
    BY <1>1, <1>2, <1>4, <2>2, <2>3, OneFlushes
<1>6. \A j \in Instances : /\ Taken(j, None) \in {0, 1} /\ UnderWay(j) \in Nat
                           /\ Untried(object[j]) \in Nat
                           /\ Coming(j) \in Nat /\ Coming(j)' \in Nat
  BY ComingNat, BudgetNumbers DEF Taken, IsKind
<1>7. Coming(i)' <= Coming(i) + Tries /\ Tries \in Nat
  <2>1. Coming(i) = UnderWay(i) + Untried(o)
    BY DEF Coming
  <2>2. Tries \in Nat
    BY BudgetNumbers
  <2> QED
    BY <1>3, <1>5, <1>6, <2>1, <2>2
<1>8. \A j \in Instances \ {i} : Coming(j)' <= Coming(j)
  BY <1>5, <1>6
<1>9. CASE i = Home
  BY <1>1, <1>7, <1>8, <1>9, AskedHomeBudget
<1>10. CASE i # Home
  <2>1. Coming(i) = 0
    BY <1>1, <1>10, UnaskedSendsNothing
  <2>2. Coming(i)' <= Tries
    BY <1>6, <1>7, <2>1
  <2> QED
    BY <1>1, <1>8, <1>10, <2>2, AskedBudget
<1> QED
  BY <1>9, <1>10

\* A request arrives.
LEMMA ReceiveRequestBudget ==
  ASSUME Inv, Inv', Budget, NEW j \in Instances, NEW i \in Instances \cup {Device},
         ReceiveRequest(j, i)
  PROVE  Budget'
<1> DEFINE link == <<i, j>>
<1>1. /\ link \in Pairs /\ channel[link] # <<>>
      /\ Head(channel[link]).kind = "request" /\ Fits(Head(channel[link]), link, asked)
  BY ArrivesFits DEF ReceiveRequest
<1>2. links' = links /\ asked' = asked /\ executed' = executed
  BY DEF ReceiveRequest, history
<1>3. j = Home /\ i \in Others /\ i \in Instances /\ link = Out(i)
  BY <1>1, HopsAssumption DEF Fits, Others, Out, Inv, Typed
<1>4. CASE i \in nodes[j] /\ object[j] # None
  <2> DEFINE o == object[j]
             pushed == Push(o, i)
  <2>1. /\ object' = [object EXCEPT ![j] = Flush(pushed)]
        /\ channel' = Sent(link, FlushSends(j, pushed))
    BY <1>4 DEF ReceiveRequest
  <2>2. ObjectFits(o, j, asked) /\ o \in Objects /\ asked \in SUBSET Instances
    BY <1>4, HopsAssumption DEF Inv, ObjectFits, Typed
  <2>3. ObjectFits(pushed, j, asked)
    <3>1. i \in AskersOf(j, asked)
      BY <1>3 DEF AskersOf, Others
    <3> QED
      BY <1>3, <2>2, <3>1, PushFits
  <2>4. Untried(pushed) = Untried(o) + Tries
    BY <1>3, <2>2, UntriedPush
  <2> HIDE DEF pushed, link
  <2>5. /\ Coming(j)' <= UnderWay(j) - Taken(j, link) + Untried(pushed)
        /\ \A k \in Instances : k # j => Coming(k)' <= Coming(k) - Taken(k, link)
    <3> DEFINE none == {}
    <3>1. none \cup FlushSends(j, pushed) = FlushSends(j, pushed)
      OBVIOUS
    <3>2. channel' = Sent(link, none \cup FlushSends(j, pushed))
      BY <2>1, <3>1
    <3>3. \A s \in none : s.msg.kind # "request"
      OBVIOUS
    <3>4. \A l \in Pairs : l = link => channel[l] # <<>>
      BY <1>1
    <3> HIDE DEF none
    <3> QED
      BY <1>2, <2>1, <2>3, <3>2, <3>3, <3>4, OneFlushes
  <2>6. \A k \in Instances : /\ Taken(k, link) \in {0, 1} /\ UnderWay(k) \in Nat
                             /\ Untried(object[k]) \in Nat
                             /\ Coming(k) \in Nat /\ Coming(k)' \in Nat
    BY ComingNat, BudgetNumbers DEF Taken, IsKind
  <2>7. Taken(i, link) = 1
    BY <1>1, <1>3 DEF Taken, IsKind
  <2>8. Coming(Home)' <= Coming(Home) + Tries
    <3>1. Coming(j) = UnderWay(j) + Untried(o) /\ Tries \in Nat
      BY BudgetNumbers DEF Coming
    <3> QED
      BY <1>3, <2>4, <2>5, <2>6, <3>1
  <2>9. Coming(i)' <= Coming(i) - 1
    <3>1. i # j
      BY <1>3 DEF Others
    <3> QED
      BY <1>3, <2>5, <2>6, <2>7, <3>1
  <2>10. \A k \in Instances \ {Home, i} : Coming(k)' <= Coming(k)
    BY <1>3, <2>5, <2>6
  <2> QED
    BY <1>2, <1>3, <2>8, <2>9, <2>10, PassedOnBudget
<1>5. CASE ~(i \in nodes[j] /\ object[j] # None)
  <2>1. channel' = Sent(link, {}) /\ object' = object
    BY <1>5 DEF ReceiveRequest
  <2>2. \A s \in {} : s.msg.kind # "request"
    OBVIOUS
  <2> QED
    BY <1>1, <1>2, <2>1, <2>2, NoRequestStep
<1> QED
  BY <1>4, <1>5

\* Receiving anything else adds nothing.
LEMMA ReceiveOtherBudget ==
  ASSUME Inv, Inv', Budget, NEW i \in Instances, NEW p \in Instances \cup {Device},
         \/ ReceiveHello(i, p) \/ ReceiveHeartbeat(i, p) \/ ReceiveAlert(i, p)
         \/ ReceiveRequestOnDealer(i, p) \/ ReceiveResponse(i, p)
         \/ ReceiveForwardedResponse(i, p)
  PROVE  Budget'
<1> DEFINE link == <<p, i>>
           msg == Head(channel[link])
<1>1. /\ \A l \in Pairs : l = link => channel[l] # <<>>
      /\ links' = links /\ asked' = asked /\ executed' = executed
  BY ArrivesFits DEF ReceiveHello, ReceiveHeartbeat, ReceiveAlert, ReceiveRequestOnDealer,
     ReceiveResponse, ReceiveForwardedResponse, history, Resolve
<1>2. CASE channel' = Sent(link, {}) /\ object' = object
  <2>1. \A s \in {} : s.msg.kind # "request"
    OBVIOUS
  <2> QED
    BY <1>1, <1>2, <2>1, NoRequestStep
<1>3. \A s \in PassOn(i, msg) : msg.kind \in {"heartbeat", "alert"} /\ msg \in Messages
        => s.msg.kind # "request"
  <2> DEFINE passed == [msg EXCEPT !.marked = TRUE]
  <2>1. msg.kind \in {"heartbeat", "alert"} /\ msg \in Messages => passed.kind # "request"
    BY DEF Messages
  <2> HIDE DEF passed
  <2>2. \A q : To(i, q, passed).msg = passed
    BY DEF To
  <2>3. PassOn(i, msg) \subseteq {To(i, q, passed) : q \in nodes[i]}
    BY DEF PassOn, passed
  <2> QED
    BY <2>1, <2>2, <2>3
<1>4. CASE ReceiveAlert(i, p)
  <2>1. msg.kind = "alert" /\ msg \in Messages
    BY <1>4, ArrivesFits DEF ReceiveAlert
  <2>2. \/ channel' = Sent(link, {}) /\ object' = object
        \/ channel' = Sent(link, PassOn(i, msg)) /\ object' = object
    BY <1>4 DEF ReceiveAlert
  <2> HIDE DEF link, msg
  <2> QED
    BY <1>1, <1>2, <1>3, <2>1, <2>2, NoRequestStep
<1>5. CASE ReceiveHeartbeat(i, p)
  <2> DEFINE new == IF object[i] = None THEN Create(p) ELSE object[i]
  <2>1. msg.kind = "heartbeat" /\ msg \in Messages
    BY <1>5, ArrivesFits DEF ReceiveHeartbeat
  <2>2. channel' = Sent(link, PassOn(i, msg)) /\ object' = [object EXCEPT ![i] = new]
    BY <1>5 DEF ReceiveHeartbeat
  <2>3. Untried(new) = Untried(object[i])
    <3>1. CASE object[i] = None
      <4>1. Len(<<>>) = 0 /\ Tries \in Nat
        BY BudgetNumbers
      <4>2. Tries * 0 = 0
        BY <4>1
      <4>3. new.queue = <<>> /\ new.pending = None
        BY <3>1 DEF Create
      <4> HIDE DEF new
      <4>4. Untried(new) = 0
        BY <4>1, <4>2, <4>3 DEF Untried
      <4> QED
        BY <3>1, <4>4 DEF Untried
    <3>2. CASE object[i] # None
      BY <3>2
    <3> QED
      BY <3>1, <3>2
  <2>4. Untried(new) \in Int
    BY <2>3, ComingNat
  <2>5. \A s \in PassOn(i, msg) : s.msg.kind # "request"
    BY <1>3, <2>1
  <2> HIDE DEF new, link, msg
  <2>6. /\ Coming(i)' <= UnderWay(i) - Taken(i, link) + Untried(new)
        /\ \A j \in Instances : j # i => Coming(j)' <= Coming(j) - Taken(j, link)
    BY <1>1, <2>2, <2>4, <2>5, OneSends
  <2>7. ASSUME NEW j \in Instances PROVE Coming(j)' <= Coming(j)
    <3>1. /\ Taken(j, link) \in {0, 1} /\ UnderWay(j) \in Nat
          /\ Coming(j) \in Nat /\ Coming(j)' \in Nat
      BY ComingNat, BudgetNumbers DEF Taken, IsKind
    <3>2. CASE j = i
      <4>1. Coming(i) = UnderWay(i) + Untried(new)
        BY <2>3 DEF Coming
      <4> QED
        BY <2>4, <2>6, <3>1, <3>2, <4>1
    <3>3. CASE j # i
      BY <2>6, <3>1, <3>3
    <3> QED
      BY <3>2, <3>3
  <2> QED
    BY <1>1, <2>7, QuietAmounts
<1>6. CASE ReceiveResponse(i, p)
  <2>1. \/ channel' = Sent(link, {}) /\ object' = object
        \/ object[i] # None /\ Resolve(i, link, "ok")
    BY <1>6 DEF ReceiveResponse
  <2> HIDE DEF link
  <2> QED
    BY <1>1, <1>2, <2>1, ResolveBudget
<1>7. CASE ReceiveHello(i, p) \/ ReceiveRequestOnDealer(i, p) \/ ReceiveForwardedResponse(i, p)
  <2>1. channel' = Sent(link, {}) /\ object' = object
    BY <1>7 DEF ReceiveHello, ReceiveRequestOnDealer, ReceiveForwardedResponse
  <2> QED
    BY <1>2, <2>1
<1> QED
  BY <1>4, <1>5, <1>6, <1>7

\* The device executes a request, and then it is no longer under way.
LEMMA DeviceAnswersBudget ==
  ASSUME Inv, Inv', Budget, DeviceAnswers
  PROVE  Budget'
<1> DEFINE link == <<Home, Device>>
           sends == {To(Device, Home, Response(Head(channel[link]).id))}
<1>1. /\ links' = links /\ asked' = asked /\ object' = object /\ executed' = executed + 1
      /\ channel[link] # <<>> /\ channel' = Sent(link, sends)
  BY DEF DeviceAnswers
<1>2. \A s \in sends : s.msg.kind # "request"
  BY DEF To, Response
<1>3. link \in Pairs /\ link = Out(Home) /\ Home \in Instances
  BY HopsAssumption DEF Pairs, Out
<1>4. Head(channel[link]).kind = "request"
  <2>1. channel[link] \in Seq(Fit(link, asked))
    BY <1>3 DEF Inv, ChannelsFit
  <2>2. Head(channel[link]) \in Fit(link, asked)
    BY <1>1, <2>1
  <2>3. link[1] # Device /\ link[2] \notin Instances
    BY HopsAssumption
  <2>4. asked \subseteq Instances
    BY HopsAssumption DEF Inv, Typed
  <2> HIDE DEF link
  <2>5. Head(channel[link]) \in Messages /\ Fits(Head(channel[link]), link, asked)
    BY <2>2 DEF Fit
  <2> QED
    BY <2>3, <2>4, <2>5 DEF Messages, Fits
<1> HIDE DEF sends
<1>5. Taken(Home, link) = 1
  BY <1>3, <1>4 DEF Taken, IsKind
<1> HIDE DEF link
<1>6. \A i \in Instances : /\ Coming(i) \in Nat /\ Coming(i)' \in Nat
                           /\ Coming(i)' <= Coming(i) - Taken(i, link)
                           /\ Taken(i, link) \in {0, 1}
  BY <1>1, <1>2, NoRequestSent DEF Taken, IsKind
<1>7. executed \in Nat
  BY BudgetNumbers
<1>8. executed' + Coming(Home)' <= executed + Coming(Home)
  BY <1>1, <1>3, <1>5, <1>6, <1>7
<1>9. \A i \in Instances \ {Home} : Coming(i)' <= Coming(i)
  BY <1>6
<1> QED
  BY <1>1, <1>8, <1>9, QuietBudget

\* Connecting, beating and losing a message add nothing.
LEMMA OtherBudget ==
  ASSUME Inv, Inv', Budget,
         \/ \E i, j \in Instances : Connect(i, j)
         \/ DeviceBeat \/ DeviceAlert
         \/ \E l \in Pairs : Lose(l)
  PROVE  Budget'
<1>1. links' = links /\ asked' = asked /\ object' = object /\ executed' = executed
  BY DEF Connect, DeviceBeat, DeviceAlert, Lose, history
<1>2. \A l \in Pairs : l = None => channel[l] # <<>>
  BY NoneIsNoPair DEF Inv, Typed
<1>3. CASE \E l \in Pairs : Lose(l)
  <2>1. PICK l \in Pairs : Lose(l)
    BY <1>3
  <2> DEFINE none == {}
  <2>2. channel' = Sent(l, none) /\ channel[l] # <<>> /\ \A s \in none : s.msg.kind # "request"
    BY <2>1 DEF Lose
  <2> HIDE DEF none
  <2> QED
    BY <1>1, <2>2, NoRequestStep
<1>4. ASSUME NEW i, NEW j, NEW msg, msg.kind # "request", channel' = Sent(None, {To(i, j, msg)})
      PROVE  Budget'
  <2> DEFINE sends == {To(i, j, msg)}
  <2>1. \A s \in sends : s.msg.kind # "request"
    BY <1>4 DEF To
  <2>2. channel' = Sent(None, sends)
    BY <1>4
  <2> HIDE DEF sends
  <2> QED
    BY <1>1, <1>2, <2>1, <2>2, NoRequestStep
<1>5. CASE \E i, j \in Instances : Connect(i, j)
  <2>1. PICK i \in Instances, j \in Instances : Connect(i, j)
    BY <1>5
  <2>2. Hello.kind # "request" /\ channel' = Sent(None, {To(i, j, Hello)})
    BY <2>1 DEF Connect, Hello
  <2> QED
    BY <2>2, <1>4
<1>6. CASE DeviceBeat \/ DeviceAlert
  <2>1. PICK kind \in {"heartbeat", "alert"} : channel' = Sent(None, {To(Device, Home, Announce(kind, FALSE))})
    BY <1>6 DEF DeviceBeat, DeviceAlert
  <2>2. Announce(kind, FALSE).kind # "request"
    BY DEF Announce
  <2> QED
    BY <2>1, <2>2, <1>4
<1> QED
  BY <1>3, <1>5, <1>6

\* At first nothing is on its way.
LEMMA InitBudget == Init => Budget
<1> SUFFICES ASSUME Init PROVE Budget
  OBVIOUS
<1>1. asked = {} /\ executed = 0 /\ Others = {} /\ asked \cap {Home} = {}
  BY DEF Init, Others
<1>2. IsFiniteSet({}) /\ Cardinality({}) = 0
  BY FS_EmptySet
<1>3. Coming(Home) = 0
  <2>1. Home \in Instances
    BY HopsAssumption
  <2>2. Untried(object[Home]) = 0
    BY <2>1 DEF Init, Untried
  <2>3. UnderWay(Home) = 0
    <3>1. KindAt(<<>>, "request") = {}
      BY DEF KindAt
    <3> QED
      BY <1>2, <3>1 DEF Init, UnderWay, Count
  <2> QED
    BY <2>2, <2>3 DEF Coming
<1>4. Total(Others, Amounts) = 0
  <2>1. Units({}, Amounts) = {}
    BY DEF Units
  <2> QED
    BY <1>1, <1>2, <2>1 DEF Total
<1>5. Tries \in Nat /\ Tries * 0 = 0
  <2>1. Tries \in Nat
    BY HopsAssumption DEF Tries
  <2> QED
    BY <2>1
<1> QED
  BY <1>1, <1>2, <1>3, <1>4, <1>5 DEF Budget

\* No step goes over the budget.
LEMMA NextBudget == ASSUME Inv, Budget, [Next]_vars PROVE Budget'
<1>1. Inv'
  BY NextInv
<1>2. CASE \E i \in Instances, p \in Instances \cup {Device} : Receive(i, p)
  BY <1>1, <1>2, ReceiveRequestBudget, ReceiveOtherBudget DEF Receive
<1>3. CASE \/ \E i, j \in Instances : Connect(i, j)
           \/ DeviceBeat \/ DeviceAlert
           \/ \E l \in Pairs : Lose(l)
  BY <1>1, <1>3, OtherBudget
<1>4. CASE \E i \in Instances : Ask(i) \/ Poll(i)
  BY <1>1, <1>4, AskBudget, PollBudget
<1>5. CASE DeviceAnswers
  BY <1>1, <1>5, DeviceAnswersBudget
<1>6. CASE UNCHANGED vars
  <2>1. asked' = asked /\ executed' = executed /\ \A i \in Instances : Coming(i)' = Coming(i)
    BY <1>6 DEF vars, history, Coming, UnderWay, Untried, Pairs, Out, Tries
  <2>2. \A i \in Instances : Coming(i)' <= Coming(i)
    BY <1>1, <2>1, BudgetNumbers
  <2> QED
    BY <1>1, <2>1, <2>2, QuietAmounts
<1> QED
  BY <1>2, <1>3, <1>4, <1>5, <1>6 DEF Next

---------------------------------------------------------------------------
(* Theorems *)

\* The variables of the instances keep their types.
THEOREM TypeCorrect == Spec => []TypeOK
<1>1. Inv => TypeOK
  BY DEF Inv, Typed, TypeOK, ChannelsFit
<1> QED
  BY InvHolds, <1>1, PTL

\* Nothing goes further than one hop, in any network of instances: a broadcast is passed on
\* by the instance the device talks to and by no other, and a response to a request that was
\* passed on goes to an instance that asked (zmtp.c:334, 372, 490-494, 536-540).
THEOREM OneHopHolds == Spec => []OneHop
<1>1. ASSUME Inv PROVE OneHop
  <2>1. \A i \in Instances : object[i] # None => object[i].via = IF i = Home THEN Device ELSE Home
    BY <1>1 DEF Inv, ObjectFits
  <2>2. ASSUME NEW l \in Pairs, NEW n \in DOMAIN channel[l],
               channel[l][n].kind = "response", l[1] = Home
        PROVE  l[2] \in asked
    <3>1. channel[l] \in Seq(Fit(l, asked))
      BY <1>1 DEF Inv, ChannelsFit
    <3>2. channel[l][n] \in Fit(l, asked)
      BY <3>1
    <3> QED
      BY <2>2, <3>2 DEF Fit, Fits
  <2> QED
    BY <2>1, <2>2 DEF OneHop
<1> QED
  BY InvHolds, <1>1, PTL

\* An application hears an alert of the device at most once, in any network of instances
\* (zmtp.c:490-498): each way on which an alert is passed on ends after one hop.
THEOREM AlertOnceHolds == Spec => []AlertOnce
<1>1. Inv /\ Counted /\ [Next]_vars => Counted'
  BY NextCounted
<1>2. ASSUME Inv, Counted PROVE AlertOnce
  <2> SUFFICES ASSUME NEW i \in Instances PROVE heard[i] <= alerts
    BY DEF AlertOnce
  <2>1. heard[i] \in Nat /\ heard[Home] \in Nat /\ alerts \in Nat
    BY <1>2 DEF Inv, Typed
  <2>2. /\ Alerts(channel[<<Device, Home>>]) \in Nat
        /\ i # Home => Waiting(i) \in Nat
    <3>1. <<Device, Home>> \in Pairs
      BY DEF Pairs
    <3>2. \A l \in Pairs : Alerts(channel[l]) \in Nat
      BY <1>2, AlertsFinite DEF Inv, ChannelsFit
    <3> QED
      BY <3>1, <3>2 DEF Waiting
  <2> QED
    BY <1>2, <2>1, <2>2 DEF Counted
<1> QED
  BY InvHolds, InitCounted, <1>1, <1>2, PTL DEF Spec

\* The retries of the two hops multiply, and nothing else does: in any network of instances and
\* for any max_retry, the device executes max_retry + 1 requests for a request of its own
\* instance and the square of that for one of another instance, at most (zmtp.c:371).
THEOREM RetriesMultiplyHolds == Spec => []RetriesMultiply
<1>1. Inv /\ Budget /\ [Next]_vars => Budget'
  BY NextBudget
<1>2. ASSUME Inv, Budget PROVE RetriesMultiply
  <2>1. Tries \in Nat /\ Tries = MaxRetry + 1
    BY HopsAssumption DEF Tries
  <2>2. executed \in Nat /\ Coming(Home) \in Nat /\ Home \in Instances
    BY <1>2, ComingNat, HopsAssumption DEF Inv, Typed
  <2>3. /\ IsFiniteSet(Others) /\ IsFiniteSet(asked \cap {Home})
        /\ Cardinality(Others) \in Nat /\ Cardinality(asked \cap {Home}) \in Nat
    BY <1>2, FS_Subset, FS_CardinalityType DEF Budget, Others
  <2>4. Total(Others, Amounts) \in Nat
    <3>1. \A i \in Others : Amounts[i] \in Nat
      BY <1>2, AmountsNat, HopsAssumption DEF AmountsTyped, Others, Inv, Typed
    <3> QED
      BY <2>3, <3>1, UnitsFinite
  <2>5. Tries * Total(Others, Amounts) \in Nat
    BY <2>1, <2>4, Times
  <2>6. /\ Tries * Cardinality(asked \cap {Home}) \in Int
        /\ Tries * (Tries * Cardinality(Others)) \in Int
    BY <2>1, <2>3, Times
  <2>7. executed <= Tries * Cardinality(asked \cap {Home}) + Tries * (Tries * Cardinality(Others))
    BY <1>2, <2>2, <2>5, <2>6 DEF Budget
  <2>8. Tries * (Tries * Cardinality(Others)) = Tries * Tries * Cardinality(Others)
    BY <2>1, <2>3
  <2>9. executed <= Tries * Cardinality(asked \cap {Home}) + Tries * Tries * Cardinality(Others)
    BY <2>7, <2>8, Zenon
  <2> QED
    BY <2>1, <2>9, Zenon DEF RetriesMultiply, Others
<1> QED
  BY InvHolds, InitBudget, <1>1, <1>2, PTL DEF Spec
===========================================================================
