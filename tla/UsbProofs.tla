--------------------------- MODULE UsbProofs ---------------------------
(***************************************************************************)
(* What a response over USB answers, for any number of requests and of     *)
(* unplugged devices: no response is used twice or for an earlier request, *)
(* and a wrong one is used only after a request that timed out or whose    *)
(* device was gone.                                                        *)
(*                                                                         *)
(* The heads of packets are what tells requests apart.  On their way from  *)
(* the host to the device and back they stay in the order of the requests: *)
(* what was answered, the buffer, the wire to the host, the device, and    *)
(* the wire to the device (Ordered).  While nothing was lost there is      *)
(* nothing on this way but the request that waits (Undisturbed).           *)
(***************************************************************************)
EXTENDS Usb, SequenceTheorems, TLAPS

Part == [id : 1..MaxRequests, part : {"head", "end"}]

Heads(s) == {n \in 1..MaxRequests : \E k \in 1..Len(s) : ~IsEnd(s[k]) /\ s[k].id = n}

\* The heads in s are of ever later requests.
Grows(s) ==
  \A i, j \in 1..Len(s) : i < j /\ ~IsEnd(s[i]) /\ ~IsEnd(s[j]) => s[i].id < s[j].id

Below(S, T) == \A x \in S, y \in T : x < y

Used == {n \in 1..MaxRequests : \E k \in 1..Len(results) :
           results[k].how = "answer" /\ results[k].of = n}

Asked == {serving} \ {None}

\* The request that was sent last
Issued == Len(results) + (IF waiting = None THEN 0 ELSE 1)

Waiting ==
  /\ waiting # None => waiting = Len(results) + 1 /\ handle # None
  /\ Len(results) <= MaxRequests

Ordered ==
  /\ Grows(buffer) /\ Grows(in) /\ Grows(out)
  /\ Below(Used, Heads(buffer) \cup Heads(in) \cup Asked \cup Heads(out))
  /\ Below(Heads(buffer), Heads(in) \cup Asked \cup Heads(out))
  /\ Below(Heads(in), Asked \cup Heads(out))
  /\ Below(Asked, Heads(out))
  /\ \A n \in Used \cup Heads(buffer) \cup Heads(in) \cup Asked \cup Heads(out) : n <= Issued

Clean == \A m \in 1..Len(results) : results[m].how \notin {"timeout", "gone"}

Undisturbed ==
  IF waiting = None
  THEN in = <<>> /\ serving = None /\ Heads(out) = {}
  ELSE /\ serving \in {None, waiting}
       /\ Heads(out) \subseteq {waiting}
       /\ buffer \o in \in {<<>>, SubSeq(Packet(waiting), 1, 1), Packet(waiting)}

Inv ==
  /\ TypeOK /\ Waiting /\ Ordered /\ AnswersAdvance
  /\ Clean => Undisturbed
  /\ OwnAnswer
(***************************************************************************)
(* Parts read from the wire in two pieces, after those in the buffer.      *)
(***************************************************************************)
LEMMA PartsAssociate ==
  ASSUME NEW s \in Seq(Part), NEW t \in Seq(Part), NEW u \in Seq(Part)
  PROVE  (s \o t) \o u = s \o (t \o u)
BY ConcatAssociative

USE UsbAssumption

---------------------------------------------------------------------------
(* Parts of packets *)

\* A stretch of a sequence has heads of the sequence, in their order.
LEMMA SubSeqHeads ==
  ASSUME NEW s \in Seq(Part), NEW a \in 1..(Len(s) + 1), NEW b \in 0..Len(s)
  PROVE  /\ SubSeq(s, a, b) \in Seq(Part)
         /\ Heads(SubSeq(s, a, b)) \subseteq Heads(s)
         /\ Grows(s) => Grows(SubSeq(s, a, b))
<1> DEFINE t == SubSeq(s, a, b)
<1>1. t \in Seq(Part) /\ Len(t) = (IF a <= b THEN b - a + 1 ELSE 0)
  OBVIOUS
<1>2. \A k \in 1..Len(t) : t[k] = s[a + k - 1] /\ a + k - 1 \in 1..Len(s)
  BY <1>1
<1>3. Heads(t) \subseteq Heads(s)
  BY <1>2 DEF Heads
<1>4. Grows(s) => Grows(t)
  <2>1. SUFFICES ASSUME Grows(s), NEW i \in 1..Len(t), NEW j \in 1..Len(t), i < j,
                        ~IsEnd(t[i]), ~IsEnd(t[j])
                 PROVE  t[i].id < t[j].id
    BY DEF Grows
  <2>2. t[i] = s[a + i - 1] /\ t[j] = s[a + j - 1]
    BY <1>2
  <2>3. a + i - 1 \in 1..Len(s) /\ a + j - 1 \in 1..Len(s) /\ a + i - 1 < a + j - 1
    BY <1>1, <1>2, <2>1
  <2> HIDE DEF t
  <2> QED
    BY <2>1, <2>2, <2>3 DEF Grows
<1> QED
  BY <1>1, <1>3, <1>4

\* Where the heads grow, those of a beginning are below the rest.
LEMMA SplitHeads ==
  ASSUME NEW s \in Seq(Part), NEW n \in 0..Len(s), Grows(s)
  PROVE  Below(Heads(SubSeq(s, 1, n)), Heads(SubSeq(s, n + 1, Len(s))))
<1> DEFINE t == SubSeq(s, 1, n)  u == SubSeq(s, n + 1, Len(s))
<1>1. Len(t) = n /\ \A k \in 1..n : t[k] = s[k]
  OBVIOUS
<1>2. Len(u) = Len(s) - n /\ \A k \in 1..(Len(s) - n) : u[k] = s[n + k]
  OBVIOUS
<1>3. SUFFICES ASSUME NEW x \in Heads(t), NEW y \in Heads(u) PROVE x < y
  BY DEF Below
<1>4. PICK i \in 1..n : ~IsEnd(s[i]) /\ s[i].id = x
  BY <1>1, <1>3 DEF Heads
<1>5. PICK j \in 1..(Len(s) - n) : ~IsEnd(s[n + j]) /\ s[n + j].id = y
  BY <1>2, <1>3 DEF Heads
<1>6. i \in 1..Len(s) /\ n + j \in 1..Len(s) /\ i < n + j
  OBVIOUS
<1> QED
  BY <1>4, <1>5, <1>6 DEF Grows

\* What is appended adds its heads.
LEMMA ConcatHeads ==
  ASSUME NEW s \in Seq(Part), NEW t \in Seq(Part)
  PROVE  /\ s \o t \in Seq(Part)
         /\ Heads(s \o t) = Heads(s) \cup Heads(t)
         /\ Grows(s) /\ Grows(t) /\ Below(Heads(s), Heads(t)) => Grows(s \o t)
<1> DEFINE u == s \o t
<1>1. u \in Seq(Part) /\ Len(u) = Len(s) + Len(t) /\ Len(s) \in Nat /\ Len(t) \in Nat
  OBVIOUS
<1>2. \A k \in 1..Len(s) : u[k] = s[k]
  OBVIOUS
<1>3. \A k \in 1..Len(t) : u[Len(s) + k] = t[k] /\ Len(s) + k \in 1..Len(u)
  OBVIOUS
<1>4. \A k \in 1..Len(u) : k \in 1..Len(s) \/ (k - Len(s) \in 1..Len(t) /\ u[k] = t[k - Len(s)])
  <2>1. ASSUME NEW k \in 1..Len(u), k \notin 1..Len(s)
        PROVE  k - Len(s) \in 1..Len(t) /\ u[k] = t[k - Len(s)]
    <3>1. k - Len(s) \in 1..Len(t) /\ Len(s) + (k - Len(s)) = k
      BY <1>1, <2>1
    <3> QED
      BY <1>3, <3>1
  <2> HIDE DEF u
  <2> QED
    BY <2>1
<1>5. Heads(u) \subseteq Heads(s) \cup Heads(t)
  BY <1>2, <1>4 DEF Heads
<1>6. Heads(s) \subseteq Heads(u)
  BY <1>1, <1>2 DEF Heads
<1>7. Heads(t) \subseteq Heads(u)
  BY <1>3 DEF Heads
<1>8. ASSUME Grows(s), Grows(t), Below(Heads(s), Heads(t)) PROVE Grows(u)
  <2>1. SUFFICES ASSUME NEW i \in 1..Len(u), NEW j \in 1..Len(u), i < j,
                        ~IsEnd(u[i]), ~IsEnd(u[j])
                 PROVE  u[i].id < u[j].id
    BY DEF Grows
  <2>2. CASE j \in 1..Len(s)
    BY <1>1, <1>2, <1>8, <2>1, <2>2 DEF Grows
  <2>3. CASE i \notin 1..Len(s)
    <3>1. i - Len(s) \in 1..Len(t) /\ u[i] = t[i - Len(s)]
      BY <1>4, <2>3
    <3>2. j - Len(s) \in 1..Len(t) /\ u[j] = t[j - Len(s)]
      BY <1>1, <1>4, <2>1, <2>3
    <3> QED
      BY <1>1, <1>8, <2>1, <3>1, <3>2 DEF Grows
  <2>4. CASE i \in 1..Len(s) /\ j \notin 1..Len(s)
    <3>1. u[i] = s[i] /\ s[i] \in Part
      BY <1>2, <2>4
    <3>2. j - Len(s) \in 1..Len(t) /\ u[j] = t[j - Len(s)] /\ t[j - Len(s)] \in Part
      BY <1>4, <2>4
    <3>3. u[i].id \in Heads(s)
      BY <2>1, <2>4, <3>1 DEF Heads, Part
    <3>4. u[j].id \in Heads(t)
      BY <2>1, <3>2 DEF Heads, Part
    <3> QED
      BY <1>8, <3>3, <3>4 DEF Below
  <2> QED
    BY <2>2, <2>3, <2>4
<1> QED
  BY <1>1, <1>5, <1>6, <1>7, <1>8

\* The beginning of a packet has its head.
LEMMA PacketHeads ==
  ASSUME NEW n \in 1..MaxRequests, NEW k \in 1..2
  PROVE  LET p == SubSeq(Packet(n), 1, k)
         IN  p \in Seq(Part) /\ Heads(p) = {n} /\ Grows(p) /\ Len(p) = k
<1> DEFINE p == SubSeq(Packet(n), 1, k)
<1>1. Packet(n) \in Seq(Part) /\ Len(Packet(n)) = 2
  BY DEF Packet, Part
<1>2. p \in Seq(Part) /\ Len(p) = k
  <2>1. ASSUME NEW q \in Seq(Part), Len(q) = 2
        PROVE  SubSeq(q, 1, k) \in Seq(Part) /\ Len(SubSeq(q, 1, k)) = k
    <3>1. 1 \in 1..(Len(q) + 1) /\ k \in 0..Len(q) /\ 1 <= k
      BY <2>1
    <3>2. Len(SubSeq(q, 1, k)) = k
      BY <3>1
    <3> QED
      BY <3>1, <3>2, SubSeqHeads
  <2> QED
    BY <1>1, <2>1
<1>3. p[1] = [id |-> n, part |-> "head"] /\ (k = 2 => p[2] = [id |-> n, part |-> "end"])
  BY <1>1 DEF Packet
<1>4. Heads(p) = {n}
  BY <1>2, <1>3 DEF Heads, IsEnd
<1>5. Grows(p)
  BY <1>2, <1>3 DEF Grows, IsEnd
<1> QED
  BY <1>2, <1>4, <1>5

\* A whole packet is its own beginning.
LEMMA PacketWhole ==
  ASSUME NEW n \in 1..MaxRequests
  PROVE  SubSeq(Packet(n), 1, 2) = Packet(n)
<1> DEFINE p == Packet(n)
<1>1. p \in Seq(Part) /\ Len(p) = 2
  BY DEF Packet, Part
<1> HIDE DEF p
<1>2. SubSeq(p, 1, Len(p)) = p
  BY <1>1, SubSeqFull
<1> QED
  BY <1>1, <1>2 DEF p

---------------------------------------------------------------------------
(* Results *)

Result ==
  [how : {"answer"}, of : 1..MaxRequests]
    \cup [how : {"garbage", "timeout", "error", "gone"}, of : {None}]

\* A result is added behind the others.
LEMMA ResultAdded ==
  ASSUME TypeOK, NEW result \in Result, results' = Append(results, result)
  PROVE  /\ results' \in Seq(Result) /\ Len(results') = Len(results) + 1
         /\ \A k \in 1..Len(results) : results'[k] = results[k]
         /\ results'[Len(results) + 1] = result
         /\ Len(results) \in Nat /\ results \in Seq(Result)
BY DEF TypeOK, Result

\* A failure is not an answer.
LEMMA FailureAdded ==
  ASSUME TypeOK, AnswersAdvance, OwnAnswer,
         NEW how \in {"garbage", "timeout", "error", "gone"},
         results' = Append(results, Ended(how)), how = "garbage" => ~Clean
  PROVE  /\ results' \in Seq(Result) /\ Len(results') = Len(results) + 1
         /\ Used' = Used /\ AnswersAdvance' /\ OwnAnswer'
         /\ Clean' => Clean /\ how \notin {"timeout", "gone"}
<1> DEFINE L == Len(results)
<1>1. Ended(how) \in Result /\ Ended(how).how = how
  BY DEF Result, Ended
<1>2. /\ results' \in Seq(Result) /\ Len(results') = L + 1 /\ L \in Nat
      /\ \A k \in 1..L : results'[k] = results[k]
      /\ results'[L + 1].how = how
  BY <1>1, ResultAdded
<1>3. 1..(L + 1) = 1..L \cup {L + 1}
  BY <1>2
<1>4. Used' = Used
  BY <1>2, <1>3 DEF Used
<1>5. Answered' = Answered /\ \A k \in Answered : results'[k] = results[k] /\ k \in 1..L
  BY <1>2, <1>3 DEF Answered
<1>6. AnswersAdvance'
  BY <1>5 DEF AnswersAdvance
<1>7. Clean' => Clean /\ how \notin {"timeout", "gone"}
  BY <1>2, <1>3 DEF Clean
<1>8. OwnAnswer'
  <2>1. ASSUME NEW k \in 1..L, (k \in Answered' /\ results'[k].of # k) \/ results'[k].how = "garbage"
        PROVE  \E m \in 1..(k - 1) : results'[m].how \in {"timeout", "gone"}
    <3>1. PICK m \in 1..(k - 1) : results[m].how \in {"timeout", "gone"}
      BY <1>2, <1>5, <2>1 DEF OwnAnswer
    <3>2. m \in 1..L
      BY <1>2
    <3> QED
      BY <1>2, <3>1, <3>2
  <2>2. how = "garbage" => \E m \in 1..L : results'[m].how \in {"timeout", "gone"}
    BY <1>2 DEF Clean
  <2>3. L + 1 \notin Answered' /\ (L + 1) - 1 = L
    BY <1>2, <1>5
  <2> QED
    BY <1>2, <1>3, <2>1, <2>2, <2>3 DEF OwnAnswer
<1> QED
  BY <1>2, <1>4, <1>6, <1>7, <1>8

\* An answer that is later than those before it, and not of a later request, and that is
\* another's only where something was lost.
LEMMA AnswerAdded ==
  ASSUME TypeOK, Waiting, waiting # None, AnswersAdvance, OwnAnswer, NEW a \in 1..MaxRequests,
         results' = Append(results, [how |-> "answer", of |-> a]),
         a <= waiting, Below(Used, {a}), Clean => a = waiting
  PROVE  /\ results' \in Seq(Result) /\ Len(results') = Len(results) + 1
         /\ Used' = Used \cup {a} /\ AnswersAdvance' /\ OwnAnswer'
         /\ Clean' => Clean
<1> DEFINE L == Len(results)  r == [how |-> "answer", of |-> a]
<1>1. r \in Result
  BY DEF Result
<1>2. /\ results' \in Seq(Result) /\ Len(results') = L + 1 /\ L \in Nat
      /\ \A k \in 1..L : results'[k] = results[k] /\ results[k] \in Result
      /\ results'[L + 1].how = "answer" /\ results'[L + 1].of = a
  BY <1>1, ResultAdded
<1>3. 1..(L + 1) = 1..L \cup {L + 1}
  BY <1>2
<1>4. Used' = Used \cup {a}
  BY <1>2, <1>3 DEF Used
<1>5. /\ Answered' = Answered \cup {L + 1}
      /\ \A k \in Answered : results'[k] = results[k] /\ k \in 1..L /\ results[k].of \in Used
  BY <1>2, <1>3 DEF Answered, Used, Result
<1>6. AnswersAdvance'
  <2>1. a <= L + 1 /\ \A x \in Used : x < a
    BY DEF Waiting, Below
  <2>2. \A k \in Answered : ~(L + 1 < k) /\ ~(L + 1 < L + 1)
    BY <1>2, <1>5
  <2> QED
    BY <1>2, <1>5, <2>1, <2>2 DEF AnswersAdvance
<1>7. Clean' => Clean
  BY <1>2, <1>3 DEF Clean
<1>8. OwnAnswer'
  <2>1. ASSUME NEW k \in 1..L, (k \in Answered' /\ results'[k].of # k) \/ results'[k].how = "garbage"
        PROVE  \E m \in 1..(k - 1) : results'[m].how \in {"timeout", "gone"}
    <3>1. k \in Answered' => k \in Answered
      BY <1>2, <1>5
    <3>2. PICK m \in 1..(k - 1) : results[m].how \in {"timeout", "gone"}
      BY <1>2, <2>1, <3>1 DEF OwnAnswer
    <3>3. m \in 1..L
      BY <1>2
    <3> QED
      BY <1>2, <3>2, <3>3
  <2>2. a # L + 1 => \E m \in 1..L : results'[m].how \in {"timeout", "gone"}
    BY <1>2 DEF Clean, Waiting
  <2>3. (L + 1) - 1 = L /\ results'[L + 1].how # "garbage"
    BY <1>2
  <2> QED
    BY <1>2, <1>3, <2>1, <2>2, <2>3 DEF OwnAnswer
<1> QED
  BY <1>2, <1>4, <1>6, <1>7, <1>8

\* The order stays when nothing is added.
LEMMA OrderedShrinks ==
  ASSUME TypeOK, Ordered, Grows(buffer)', Grows(in)', Grows(out)',
         Heads(buffer)' \subseteq Heads(buffer), Heads(in)' \subseteq Heads(in),
         Asked' \subseteq Asked, Heads(out)' \subseteq Heads(out), Used' = Used,
         Issued \in Nat, Issued' \in Nat, Issued' >= Issued
  PROVE  Ordered'
<1>1. Used \subseteq Nat /\ Heads(buffer) \subseteq Nat /\ Heads(in) \subseteq Nat
      /\ Asked \subseteq Nat /\ Heads(out) \subseteq Nat
  BY DEF TypeOK, Used, Heads, Asked
<1>2. \A n \in Used \cup Heads(buffer) \cup Heads(in) \cup Asked \cup Heads(out) :
        n \in Nat /\ n <= Issued
  BY <1>1 DEF Ordered
<1>3. \A n \in Used' \cup Heads(buffer)' \cup Heads(in)' \cup Asked' \cup Heads(out)' : n <= Issued'
  <2>1. \A n \in Nat : n <= Issued => n <= Issued'
    OBVIOUS
  <2> QED
    BY <1>2, <2>1
<1> QED
  BY <1>3 DEF Ordered, Below

\* Nothing has no heads.
LEMMA EmptyHeads == <<>> \in Seq(Part) /\ Heads(<<>>) = {} /\ Grows(<<>>)
BY DEF Heads, Grows

---------------------------------------------------------------------------
(* Steps *)

\* What a step that adds no result owes.
LEMMA NothingEnded ==
  ASSUME AnswersAdvance, OwnAnswer, UNCHANGED results
  PROVE  AnswersAdvance' /\ OwnAnswer' /\ Used' = Used /\ (Clean' => Clean)
BY DEF AnswersAdvance, Answered, OwnAnswer, Used, Clean

\* A request ends without an answer and its buffer is cleared.
LEMMA FailureStep ==
  ASSUME Inv, NEW how \in {"garbage", "timeout", "error", "gone"},
         Complete(Ended(how)), UNCHANGED <<out, device>>, Len(results) < MaxRequests,
         in' \in Seq(Part), Grows(in)', Heads(in)' \subseteq Heads(in),
         how = "garbage" => ~Clean,
         Clean /\ how \notin {"timeout", "gone"} => in' = <<>> /\ serving = None /\ Heads(out) = {}
  PROVE  Inv'
<1>1. results' = Append(results, Ended(how)) /\ waiting' = None /\ buffer' = <<>>
  BY DEF Complete
<1>2. /\ results' \in Seq(Result) /\ Len(results') = Len(results) + 1
      /\ Used' = Used /\ AnswersAdvance' /\ OwnAnswer'
      /\ Clean' => Clean /\ how \notin {"timeout", "gone"}
  BY <1>1, FailureAdded DEF Inv
<1>3. handle' \in {None, "live", "dead"}
  BY DEF Complete, Inv, TypeOK
<1>4. TypeOK'
  BY <1>1, <1>2, <1>3, EmptyHeads DEF Inv, TypeOK, device, Parts, Part, Result
<1>5. Waiting'
  BY <1>1, <1>2 DEF Inv, Waiting, TypeOK
<1>6. Issued \in Nat /\ Issued' \in Nat /\ Issued' >= Issued
  BY <1>1, <1>2 DEF Issued, Inv, TypeOK
<1>7. Grows(buffer)' /\ Heads(buffer)' \subseteq Heads(buffer)
  <2>1. buffer' = <<>>
    BY <1>1
  <2> QED
    BY <2>1, EmptyHeads DEF Grows, Heads
<1>8. UNCHANGED <<out, serving>>
  BY DEF device
<1>9. Asked' = Asked /\ Grows(out)' /\ Heads(out)' = Heads(out)
  BY <1>8 DEF Asked, Grows, Heads, Inv, Ordered
<1>10. Ordered'
  BY <1>2, <1>6, <1>7, <1>9, OrderedShrinks DEF Inv
<1>11. Clean' => Undisturbed'
  BY <1>1, <1>2, <1>8, <1>9 DEF Undisturbed
<1> QED
  BY <1>2, <1>4, <1>5, <1>10, <1>11 DEF Inv

\* A device is found or removed: nothing is under way that this touches.
LEMMA ScanStep == ASSUME Inv, Scan \/ Remove PROVE Inv'
<1>1. UNCHANGED <<waiting, buffer, results, out, in, serving, plugged, unplugs>>
  BY DEF Scan, Remove, wire, device
<1>2. handle' \in {None, "live", "dead"} /\ waiting = None
  BY DEF Scan, Remove
<1>3. TypeOK' /\ Waiting'
  BY <1>1, <1>2 DEF Inv, TypeOK, Waiting, Parts
<1>4. Ordered'
  BY <1>1 DEF Inv, Ordered, Used, Asked, Issued, Grows, Below, Heads
<1>5. Clean' => Undisturbed'
  BY <1>1, <1>2, NothingEnded DEF Inv, Undisturbed, Heads
<1> QED
  BY <1>1, <1>3, <1>4, <1>5, NothingEnded DEF Inv

\* A request is sent behind all that is under way, or ends at once as the device is dead.
LEMMA SendStep == ASSUME Inv, Send PROVE Inv'
<1>1. waiting = None /\ handle # None /\ Len(results) < MaxRequests /\ UNCHANGED <<in, device>>
  BY DEF Send
<1>2. Grows(in)' /\ Heads(in)' \subseteq Heads(in) /\ in' \in Seq(Part)
  BY <1>1 DEF Inv, Ordered, Grows, Heads, TypeOK, Parts, Part
<1>3. CASE handle = "dead"
  <2>1. Complete(Ended("gone")) /\ UNCHANGED out
    BY <1>3 DEF Send
  <2> QED
    BY <1>1, <1>2, <2>1, FailureStep
<1>4. CASE handle # "dead"
  <2> DEFINE new == Len(results) + 1
  <2>1. /\ waiting' = new /\ out' = out \o Packet(new)
        /\ UNCHANGED <<handle, buffer, results, in, serving, plugged, unplugs>>
    BY <1>1, <1>4 DEF Send, device
  <2>2. new \in 1..MaxRequests /\ new \in Nat /\ Len(results) \in Nat
    BY <1>1 DEF Inv, TypeOK
  <2>3. Packet(new) \in Seq(Part) /\ Heads(Packet(new)) = {new} /\ Grows(Packet(new))
    <3>1. 2 \in 1..2
      OBVIOUS
    <3> QED
      BY <2>2, <3>1, PacketHeads, PacketWhole
  <2>4. Below(Heads(out), {new}) /\ out \in Seq(Part)
    <3>1. Issued = Len(results) /\ out \in Seq(Part)
      BY <1>1, <2>2 DEF Issued, Inv, TypeOK, Parts, Part
    <3>2. \A n \in Heads(out) : n \in Nat /\ n <= Len(results)
      BY <3>1 DEF Inv, Ordered, Heads
    <3> QED
      BY <2>2, <3>1, <3>2 DEF Below
  <2> HIDE DEF new
  <2>5. out' \in Seq(Part) /\ Heads(out)' = Heads(out) \cup {new} /\ Grows(out)'
    <3>1. out' \in Seq(Part) /\ Heads(out') = Heads(out) \cup {new} /\ Grows(out')
      <4>1. out' = out \o Packet(new) /\ Grows(out)
        BY <2>1 DEF Inv, Ordered
      <4> DEFINE p == Packet(new)
      <4>2. p \in Seq(Part) /\ Heads(p) = {new} /\ Grows(p) /\ out' = out \o p
        BY <2>3, <4>1
      <4> HIDE DEF p
      <4>3. /\ out \o p \in Seq(Part)
            /\ Heads(out \o p) = Heads(out) \cup Heads(p)
            /\ Grows(out) /\ Grows(p) /\ Below(Heads(out), Heads(p)) => Grows(out \o p)
        BY <2>4, <4>2, ConcatHeads
      <4> QED
        BY <2>4, <4>1, <4>2, <4>3, Zenon
    <3>2. Heads(out)' = Heads(out')
      BY DEF Heads
    <3>3. Grows(out)' <=> Grows(out')
      BY DEF Grows
    <3> QED
      BY <3>1, <3>2, <3>3
  <2>6. TypeOK'
    BY <1>1, <2>1, <2>2, <2>5 DEF Inv, TypeOK, Parts, Part
  <2>7. Waiting'
    BY <1>1, <2>1, <2>2 DEF Inv, Waiting, new
  <2>8. Ordered'
    <3>1. /\ Grows(buffer)' /\ Grows(in)' /\ Heads(buffer)' = Heads(buffer) /\ Heads(in)' = Heads(in)
          /\ Asked' = Asked /\ Used' = Used
      BY <2>1 DEF Inv, Ordered, Grows, Heads, Asked, Used
    <3>2. Issued' = new /\ Issued = new - 1 /\ new \in Nat
      BY <1>1, <2>1, <2>2 DEF Issued, new
    <3>3. \A n \in Used \cup Heads(buffer) \cup Heads(in) \cup Asked \cup Heads(out) :
            n \in Nat /\ n < new
      BY <3>2 DEF Inv, Ordered, TypeOK, Used, Heads, Asked
    <3>4. \A n \in Used' \cup Heads(buffer)' \cup Heads(in)' \cup Asked' \cup Heads(out)' :
            n <= Issued'
      BY <2>5, <3>1, <3>2, <3>3
    <3> QED
      BY <2>5, <3>1, <3>3, <3>4 DEF Inv, Ordered, Below
  <2>9. Clean' => Undisturbed'
    <3>1. SUFFICES ASSUME Clean' PROVE Undisturbed'
      OBVIOUS
    <3>2. in = <<>> /\ serving = None /\ Heads(out) = {} /\ buffer = <<>>
      BY <1>1, <2>1, <3>1, NothingEnded DEF Inv, Undisturbed, TypeOK
    <3>3. buffer' \o in' = <<>> /\ waiting' # None
      BY <2>1, <2>2, <3>2
    <3> QED
      BY <2>1, <2>5, <3>2, <3>3 DEF Undisturbed
  <2> QED
    BY <2>1, <2>6, <2>7, <2>8, <2>9, NothingEnded DEF Inv
<1> QED
  BY <1>3, <1>4

\* The response does not come.
LEMMA TimeoutStep == ASSUME Inv, Timeout \/ Gone PROVE Inv'
<1>1. Len(results) < MaxRequests
  BY DEF Inv, TypeOK, Waiting, Timeout, Gone
<1>2. PICK how \in {"timeout", "gone"} : Complete(Ended(how)) /\ UNCHANGED <<wire, device>>
  BY DEF Timeout, Gone
<1>3. UNCHANGED <<in, out>>
  BY <1>2 DEF wire
<1>4. in' \in Seq(Part) /\ Grows(in)' /\ Heads(in)' \subseteq Heads(in)
  BY <1>3 DEF Inv, Ordered, Grows, Heads, TypeOK, Parts, Part
<1> QED
  BY <1>1, <1>2, <1>3, <1>4, FailureStep

\* When the response to w is all there is, a read that finds a terminator takes all of it.
LEMMA WholeRead ==
  ASSUME buffer \in Seq(Part), in \in Seq(Part), NEW w \in 1..MaxRequests,
         buffer \o in \in {<<>>, SubSeq(Packet(w), 1, 1), Packet(w)},
         NEW n \in 1..Len(in), NEW k \in 1..n, IsEnd(in[k])
  PROVE  buffer \o SubSeq(in, 1, n) = Packet(w) /\ SubSeq(in, n + 1, Len(in)) = <<>>
<1> DEFINE u == buffer \o in  p == Packet(w)
<1>1. u \in Seq(Part) /\ Len(u) = Len(buffer) + Len(in) /\ Len(buffer) \in Nat
  OBVIOUS
<1>2. u[Len(buffer) + k] = in[k]
  OBVIOUS
<1>3. p \in Seq(Part) /\ Len(p) = 2 /\ ~IsEnd(p[1])
  BY DEF Packet, Part, IsEnd
<1> HIDE DEF p
<1>4. Len(SubSeq(p, 1, 1)) = 1 /\ SubSeq(p, 1, 1)[1] = p[1]
  BY <1>3
<1>5. u \in {<<>>, SubSeq(p, 1, 1), p}
  BY DEF p
<1> HIDE DEF u
<1>6. u # <<>>
  BY <1>1
<1>7. u # SubSeq(p, 1, 1)
  <2>1. SUFFICES ASSUME u = SubSeq(p, 1, 1) PROVE FALSE
    OBVIOUS
  <2>2. Len(buffer) + k = 1
    BY <1>1, <1>4, <2>1
  <2> QED
    BY <1>2, <1>3, <1>4, <2>1, <2>2
<1>8. u = p /\ Len(buffer) + Len(in) = 2
  BY <1>1, <1>3, <1>5, <1>6, <1>7
<1>9. Len(buffer) + k # 1
  BY <1>2, <1>3, <1>8
<1>10. n = Len(in)
  BY <1>1, <1>8, <1>9
<1>11. SubSeq(in, 1, n) = in /\ SubSeq(in, n + 1, Len(in)) = <<>>
  BY <1>10, SubSeqFull, SubSeqEmpty
<1> QED
  BY <1>8, <1>11 DEF u, p

\* What was read of a packet before the rest was lost is its beginning.
LEMMA Beginning ==
  ASSUME NEW s \in Seq(Part), NEW t \in Seq(Part), NEW w \in 1..MaxRequests,
         s \o t \in {<<>>, SubSeq(Packet(w), 1, 1), Packet(w)}
  PROVE  s \in {<<>>, SubSeq(Packet(w), 1, 1), Packet(w)}
<1> DEFINE u == s \o t
<1>1. Len(u) = Len(s) + Len(t) /\ Len(s) \in Nat /\ Len(t) \in Nat /\ u \in Seq(Part)
  OBVIOUS
<1>2. SubSeq(u, 1, Len(s)) = s
  OBVIOUS
<1>3. Len(s) = 0 => s = <<>>
  OBVIOUS
<1>4. Len(t) = 0 => u = s
  OBVIOUS
<1>5. Packet(w) \in Seq(Part) /\ Len(Packet(w)) = 2
  BY DEF Packet, Part
<1>6. Len(SubSeq(Packet(w), 1, 1)) = 1
  BY <1>5
<1> HIDE DEF u
<1>7. CASE u = <<>>
  BY <1>1, <1>3, <1>7
<1>8. CASE u = SubSeq(Packet(w), 1, 1)
  BY <1>1, <1>3, <1>4, <1>6, <1>8
<1>9. CASE u = Packet(w)
  BY <1>1, <1>2, <1>3, <1>4, <1>5, <1>9
<1> QED
  BY <1>7, <1>8, <1>9 DEF u

\* The host reads: more of a response, or its end and with it the result.
LEMMA ReadStep == ASSUME Inv, Read PROVE Inv'
<1>1. waiting # None /\ handle = "live" /\ UNCHANGED <<out, serving, plugged, unplugs>>
  BY DEF Read, device
<1>2. PICK n \in 1..Len(in) :
        /\ in' = SubSeq(in, n + 1, Len(in))
        /\ IF \E k \in 1..n : IsEnd(in[k])
           THEN \E result \in Outcomes(buffer \o SubSeq(in, 1, n)) : Complete(result)
           ELSE buffer' = buffer \o SubSeq(in, 1, n) /\ UNCHANGED <<handle, waiting, results>>
  BY DEF Read
<1> DEFINE got == SubSeq(in, 1, n)  rest == SubSeq(in, n + 1, Len(in))  read == buffer \o got
<1>3. buffer \in Seq(Part) /\ in \in Seq(Part) /\ out \in Seq(Part) /\ n \in 0..Len(in)
      /\ Len(in) \in Nat
  BY DEF Inv, TypeOK, Parts, Part
<1>4. /\ got \in Seq(Part) /\ Heads(got) \subseteq Heads(in) /\ Grows(got)
      /\ rest \in Seq(Part) /\ Heads(rest) \subseteq Heads(in) /\ Grows(rest)
  <2>1. n + 1 \in 1..(Len(in) + 1) /\ Len(in) \in 0..Len(in) /\ 1 \in 1..(Len(in) + 1)
    BY <1>3
  <2> QED
    BY <1>3, <2>1, SubSeqHeads DEF Inv, Ordered
<1>5. Below(Heads(got), Heads(rest))
  BY <1>3, SplitHeads DEF Inv, Ordered
<1> HIDE DEF got, rest
<1>6. /\ read \in Seq(Part) /\ Heads(read) = Heads(buffer) \cup Heads(got) /\ Grows(read)
  <2>1. Below(Heads(buffer), Heads(got))
    BY <1>4 DEF Inv, Ordered, Below
  <2> QED
    BY <1>3, <1>4, <2>1, ConcatHeads DEF Inv, Ordered
<1>7. /\ Below(Used, Heads(read) \cup Heads(rest)) /\ Below(Heads(read), Heads(rest) \cup Asked \cup Heads(out))
      /\ Below(Heads(rest), Asked \cup Heads(out))
  BY <1>4, <1>5, <1>6 DEF Inv, Ordered, Below
<1>8. in' = rest /\ Grows(in)' /\ Heads(in)' = Heads(rest) /\ in' \in Seq(Part)
  <2>1. in' = rest
    BY <1>2 DEF rest
  <2> QED
    BY <1>4, <2>1 DEF Grows, Heads
<1>9. Grows(out)' /\ Heads(out)' = Heads(out) /\ Asked' = Asked
  BY <1>1 DEF Inv, Ordered, Grows, Heads, Asked
<1>10. Len(results) \in Nat /\ Len(results) < MaxRequests /\ waiting = Len(results) + 1
       /\ waiting \in 1..MaxRequests /\ Issued = waiting
  BY <1>1 DEF Inv, TypeOK, Waiting, Issued
<1>11. CASE ~\E k \in 1..n : IsEnd(in[k])
  <2>1. buffer' = read /\ UNCHANGED <<handle, waiting, results>>
    BY <1>2, <1>11 DEF read, got
  <2> HIDE DEF read
  <2>2. buffer' \in Seq(Part) /\ Grows(buffer)' /\ Heads(buffer)' = Heads(read)
    BY <1>6, <2>1 DEF Grows, Heads
  <2>3. TypeOK' /\ Waiting'
    BY <1>1, <1>8, <2>1, <2>2 DEF Inv, TypeOK, Waiting, Parts, Part
  <2>4. Ordered'
    <3>1. Issued' = Issued /\ Used' = Used
      BY <2>1 DEF Issued, Used
    <3>2. Heads(read) \cup Heads(rest) \subseteq Heads(buffer) \cup Heads(in)
      BY <1>4, <1>6
    <3>3. Below(Used, Asked \cup Heads(out)) /\ Below(Asked, Heads(out))
      BY DEF Inv, Ordered, Below
    <3>4. \A m \in Used \cup Heads(read) \cup Heads(rest) \cup Asked \cup Heads(out) : m <= Issued
      BY <3>2 DEF Inv, Ordered
    <3>5. Below(Used, Heads(read) \cup Heads(rest) \cup Asked \cup Heads(out))
      BY <1>7, <3>3 DEF Below
    <3> QED
      BY <1>7, <1>8, <1>9, <2>2, <3>1, <3>3, <3>4, <3>5 DEF Ordered
  <2>5. Clean' => Undisturbed'
    <3>1. SUFFICES ASSUME Clean' PROVE Undisturbed'
      OBVIOUS
    <3>2. Undisturbed
      BY <2>1, <3>1, NothingEnded DEF Inv
    <3>3. got \o rest = in
      BY <1>3 DEF got, rest
    <3>4. buffer' \o in' = buffer \o in
      <4>1. (buffer \o got) \o rest = buffer \o (got \o rest)
        <5>1. buffer \in Seq(Part) /\ got \in Seq(Part) /\ rest \in Seq(Part)
          BY <1>3, <1>4
        <5> HIDE DEF got, rest
        <5> QED
          BY <5>1, PartsAssociate
      <4> QED
        BY <1>8, <2>1, <3>3, <4>1 DEF read
    <3> QED
      BY <1>1, <1>9, <2>1, <3>2, <3>4 DEF Undisturbed
  <2> QED
    BY <2>1, <2>3, <2>4, <2>5, NothingEnded DEF Inv
<1>12. CASE \E k \in 1..n : IsEnd(in[k])
  <2>1. PICK result \in Outcomes(read) : Complete(result)
    BY <1>2, <1>12 DEF read, got
  <2>2. Clean => read = Packet(waiting) /\ rest = <<>> /\ serving = None /\ Heads(out) = {}
    <3>1. SUFFICES ASSUME Clean
                   PROVE  read = Packet(waiting) /\ rest = <<>> /\ serving = None /\ Heads(out) = {}
      OBVIOUS
    <3>2. read = Packet(waiting) /\ rest = <<>>
      BY <1>1, <1>3, <1>10, <1>12, <3>1, WholeRead DEF Inv, Undisturbed, read, got, rest
    <3>3. waiting \in Heads(read)
      <4>1. 2 \in 1..2
        OBVIOUS
      <4>2. Heads(Packet(waiting)) = {waiting}
        BY <1>10, <4>1, PacketHeads, PacketWhole
      <4> QED
        BY <3>2, <4>2
    <3>4. Asked \subseteq {waiting} /\ Heads(out) \subseteq {waiting}
      BY <1>1, <3>1 DEF Inv, Undisturbed, Asked
    <3>5. ~(waiting < waiting)
      BY <1>10
    <3>6. Asked = {} /\ Heads(out) = {}
      BY <1>7, <3>3, <3>4, <3>5 DEF Below
    <3> QED
      BY <3>2, <3>6 DEF Asked
  <2>3. CASE \E how \in {"garbage", "error"} : result = Ended(how) /\ (how = "garbage" => ~Clean)
    <3>1. Clean => in' = <<>> /\ serving = None /\ Heads(out) = {}
      BY <1>8, <2>2
    <3> QED
      BY <1>1, <1>4, <1>8, <1>10, <2>1, <2>3, <3>1, FailureStep DEF device
  <2>4. CASE \E a \in Heads(read) : result = [how |-> "answer", of |-> a] /\ (Clean => a = waiting)
    <3>1. PICK a \in Heads(read) : result = [how |-> "answer", of |-> a] /\ (Clean => a = waiting)
      BY <2>4
    <3>2. /\ results' = Append(results, [how |-> "answer", of |-> a])
          /\ waiting' = None /\ buffer' = <<>> /\ handle' = handle
      BY <2>1, <3>1 DEF Complete
    <3>3. a \in 1..MaxRequests /\ a <= waiting /\ Below(Used, {a})
      <4>1. a \in 1..MaxRequests /\ Below(Used, {a})
        BY <1>7 DEF Heads, Below
      <4>2. a \in Heads(buffer) \cup Heads(in)
        BY <1>4, <1>6
      <4> QED
        BY <1>10, <4>1, <4>2 DEF Inv, Ordered
    <3>4. /\ results' \in Seq(Result) /\ Len(results') = Len(results) + 1
          /\ Used' = Used \cup {a} /\ AnswersAdvance' /\ OwnAnswer' /\ (Clean' => Clean)
      BY <1>1, <3>1, <3>2, <3>3, AnswerAdded DEF Inv
    <3>5. TypeOK' /\ Waiting'
      BY <1>1, <1>8, <1>10, <3>2, <3>4, EmptyHeads DEF Inv, TypeOK, Waiting, Parts, Part, Result
    <3>6. Grows(buffer)' /\ Heads(buffer)' = {}
      BY <3>2, EmptyHeads DEF Grows, Heads
    <3>7. Issued' = Issued
      BY <1>10, <3>2, <3>4 DEF Issued
    <3>8. Ordered'
      <4>1. Below({a}, Heads(rest) \cup Asked \cup Heads(out))
        BY <1>7 DEF Below
      <4>2. Below(Used, Asked \cup Heads(out)) /\ Below(Asked, Heads(out))
        BY DEF Inv, Ordered, Below
      <4>3. Below(Used', Heads(rest) \cup Asked \cup Heads(out))
        BY <1>7, <3>4, <4>1, <4>2 DEF Below
      <4>4. \A m \in Used' \cup Heads(rest) \cup Asked \cup Heads(out) : m <= Issued'
        BY <1>4, <1>10, <3>3, <3>4, <3>7 DEF Inv, Ordered
      <4> HIDE DEF read
      <4> QED
        BY <1>7, <1>8, <1>9, <3>6, <4>2, <4>3, <4>4 DEF Ordered, Below
    <3>9. Clean' => Undisturbed'
      BY <1>1, <1>8, <1>9, <2>2, <3>2, <3>4 DEF Undisturbed
    <3> QED
      BY <3>4, <3>5, <3>8, <3>9 DEF Inv
  <2>5. \/ \E how \in {"garbage", "error"} : result = Ended(how) /\ (how = "garbage" => ~Clean)
        \/ \E a \in Heads(read) : result = [how |-> "answer", of |-> a] /\ (Clean => a = waiting)
    <3>1. read # <<>>
      <4>1. Len(got) = n /\ n > 0
        BY <1>3 DEF got
      <4>2. Len(read) = Len(buffer) + Len(got) /\ Len(buffer) \in Nat
        BY <1>3, <1>4 DEF read
      <4> QED
        BY <4>1, <4>2
    <3>2. Head(read) = read[1] /\ 1 \in 1..Len(read) /\ read[1] \in Part
      BY <1>6, <3>1
    <3> HIDE DEF read
    <3>3. Clean => Head(read).id = waiting /\ ~IsEnd(Head(read)) /\ IsEnd(read[2])
      BY <2>2, <3>2 DEF Packet, IsEnd
    <3>4. ~IsEnd(Head(read)) => Head(read).id \in Heads(read)
      BY <3>2 DEF Heads, Part
    <3>5. \/ result = Ended("error")
          \/ ~IsEnd(Head(read)) /\ result = [how |-> "answer", of |-> Head(read).id]
          \/ ~IsEnd(read[2]) /\ result = Ended("garbage")
      BY <2>1 DEF Outcomes
    <3> QED
      BY <3>3, <3>4, <3>5
  <2> QED
    BY <2>3, <2>4, <2>5
<1> QED
  BY <1>11, <1>12


\* The device takes a request off the wire, or what cannot be one.
LEMMA DevicePollStep == ASSUME Inv, DevicePoll PROVE Inv'
<1>1. UNCHANGED <<handle, waiting, buffer, results, in, plugged, unplugs>> /\ serving = None
  BY DEF DevicePoll, host
<1>2. PICK n \in 1..Len(out) :
        /\ out' = SubSeq(out, n + 1, Len(out))
        /\ \/ ~IsEnd(Head(out)) /\ serving' = Head(out).id
           \/ (IsEnd(Head(out)) \/ n = 1) /\ UNCHANGED serving
  BY DEF DevicePoll
<1> DEFINE got == SubSeq(out, 1, n)  rest == SubSeq(out, n + 1, Len(out))
<1>3. out \in Seq(Part) /\ n \in 0..Len(out) /\ Len(out) \in Nat
  BY DEF Inv, TypeOK, Parts, Part
<1>4. rest \in Seq(Part) /\ Heads(rest) \subseteq Heads(out) /\ Grows(rest)
  <2>1. n + 1 \in 1..(Len(out) + 1) /\ Len(out) \in 0..Len(out)
    BY <1>3
  <2> QED
    BY <1>3, <2>1, SubSeqHeads DEF Inv, Ordered
<1>5. Below(Heads(got), Heads(rest))
  BY <1>3, SplitHeads DEF Inv, Ordered
<1>6. ~IsEnd(Head(out)) => Head(out).id \in Heads(got) /\ Head(out).id \in Heads(out)
  <2>1. Len(got) = n /\ got[1] = out[1] /\ Head(out) = out[1] /\ out[1] \in Part
        /\ 1 \in 1..n /\ 1 \in 1..Len(out)
    BY <1>3
  <2> QED
    BY <2>1 DEF Heads, Part
<1> HIDE DEF got, rest
<1>7. out' = rest /\ Heads(out)' = Heads(rest) /\ Grows(out)' /\ out' \in Seq(Part)
  <2>1. out' = rest
    BY <1>2 DEF rest
  <2> QED
    BY <1>4, <2>1 DEF Heads, Grows
<1>8. Asked' \subseteq Heads(out) /\ Below(Asked', Heads(rest)) /\ serving' \in {None} \cup Heads(out)
  <2>1. CASE ~IsEnd(Head(out)) /\ serving' = Head(out).id
    BY <1>5, <1>6, <2>1 DEF Asked, Below
  <2>2. CASE serving' = serving
    BY <1>1, <2>2 DEF Asked, Below
  <2> QED
    BY <1>2, <2>1, <2>2
<1>9. TypeOK' /\ Waiting'
  BY <1>1, <1>7, <1>8 DEF Inv, TypeOK, Waiting, Parts, Part, Heads
<1>10. Ordered'
  <2>1. /\ Grows(buffer)' /\ Grows(in)' /\ Heads(buffer)' = Heads(buffer) /\ Heads(in)' = Heads(in)
        /\ Used' = Used /\ Issued' = Issued
    BY <1>1 DEF Inv, Ordered, Grows, Heads, Used, Issued
  <2>2. Below(Used, Heads(buffer) \cup Heads(in) \cup Heads(out))
        /\ Below(Heads(buffer), Heads(in) \cup Heads(out)) /\ Below(Heads(in), Heads(out))
        /\ \A m \in Used \cup Heads(buffer) \cup Heads(in) \cup Heads(out) : m <= Issued
    BY DEF Inv, Ordered, Below
  <2> QED
    BY <1>4, <1>7, <1>8, <2>1, <2>2 DEF Ordered, Below
<1>11. Clean' => Undisturbed'
  BY <1>1, <1>4, <1>7, <1>8, NothingEnded DEF Inv, Undisturbed
<1> QED
  BY <1>1, <1>9, <1>10, <1>11, NothingEnded DEF Inv

\* The device gives up on its request.
LEMMA DeviceFailsStep == ASSUME Inv, DeviceFails PROVE Inv'
<1>1. /\ UNCHANGED <<handle, waiting, buffer, results, out, in, plugged, unplugs>>
      /\ serving' = None
  BY DEF DeviceFails, host, wire
<1>2. TypeOK' /\ Waiting'
  BY <1>1 DEF Inv, TypeOK, Waiting, Parts
<1>3. Ordered'
  BY <1>1 DEF Inv, Ordered, Used, Asked, Issued, Grows, Below, Heads
<1>4. Clean' => Undisturbed'
  BY <1>1, NothingEnded DEF Inv, Undisturbed, Heads
<1> QED
  BY <1>1, <1>2, <1>3, <1>4, NothingEnded DEF Inv

\* The device writes its response, or part of it.
LEMMA DeviceRespondsStep == ASSUME Inv, DeviceResponds PROVE Inv'
<1>1. /\ UNCHANGED <<handle, waiting, buffer, results, out, plugged, unplugs>>
      /\ serving' = None /\ serving # None /\ serving \in 1..MaxRequests
  BY DEF DeviceResponds, host, Inv, TypeOK
<1>2. CASE in' = in
  <2>1. DeviceFails
    BY <1>1, <1>2 DEF DeviceFails, host, wire
  <2> QED
    BY <2>1, DeviceFailsStep
<1>3. CASE in' # in
  <2>1. PICK k \in 1..2 : in' = in \o SubSeq(Packet(serving), 1, k)
    BY <1>3 DEF DeviceResponds
  <2> DEFINE p == SubSeq(Packet(serving), 1, k)
  <2>2. p \in Seq(Part) /\ Heads(p) = {serving} /\ Grows(p)
    BY <1>1, PacketHeads
  <2>3. in \in Seq(Part) /\ Asked = {serving}
    BY <1>1 DEF Inv, TypeOK, Parts, Part, Asked
  <2>4. /\ in' \in Seq(Part) /\ Grows(in)' /\ Heads(in)' = Heads(in) \cup {serving}
    <3> HIDE DEF p
    <3>1. Below(Heads(in), Heads(p)) /\ Grows(in)
      BY <2>2, <2>3 DEF Inv, Ordered, Below
    <3>2. LET t == in \o p IN t \in Seq(Part) /\ Grows(t) /\ Heads(t) = Heads(in) \cup Heads(p)
      BY <2>2, <2>3, <3>1, ConcatHeads
    <3>3. in' = in \o p
      BY <2>1 DEF p
    <3> QED
      BY <2>2, <3>2, <3>3 DEF Heads, Grows
  <2>5. TypeOK' /\ Waiting'
    BY <1>1, <2>4 DEF Inv, TypeOK, Waiting, Parts, Part
  <2>6. Ordered'
    <3>1. /\ Grows(buffer)' /\ Grows(out)' /\ Heads(buffer)' = Heads(buffer) /\ Heads(out)' = Heads(out)
          /\ Used' = Used /\ Issued' = Issued /\ Asked' = {}
      BY <1>1 DEF Inv, Ordered, Grows, Heads, Used, Issued, Asked
    <3> QED
      BY <2>3, <2>4, <3>1 DEF Inv, Ordered, Below
  <2>7. Clean' => Undisturbed'
    <3>1. SUFFICES ASSUME Clean' PROVE Undisturbed'
      OBVIOUS
    <3>2. Undisturbed /\ waiting # None /\ serving = waiting /\ Heads(out) \subseteq {waiting}
      BY <1>1, <3>1, NothingEnded DEF Inv, Undisturbed
    <3>3. waiting \notin Heads(buffer) \cup Heads(in)
      <4>1. ~(serving < serving)
        BY <1>1
      <4>2. \A x \in Heads(buffer) \cup Heads(in) : x < serving
        BY <2>3 DEF Inv, Ordered, Below
      <4> QED
        BY <3>2, <4>1, <4>2
    <3>4. buffer \in Seq(Part) /\ Heads(buffer \o in) = Heads(buffer) \cup Heads(in)
      BY <2>3, ConcatHeads DEF Inv, TypeOK, Parts, Part
    <3>5. Heads(SubSeq(Packet(waiting), 1, 1)) = {waiting} /\ Heads(Packet(waiting)) = {waiting}
      <4>1. 1 \in 1..2 /\ 2 \in 1..2
        OBVIOUS
      <4> QED
        BY <1>1, <3>2, <4>1, PacketHeads, PacketWhole
    <3>6. buffer \o in = <<>>
      BY <3>2, <3>3, <3>4, <3>5 DEF Undisturbed
    <3>7. buffer = <<>> /\ in = <<>>
      <4>1. Len(buffer) + Len(in) = 0 /\ Len(buffer) \in Nat /\ Len(in) \in Nat
        BY <2>3, <3>4, <3>6
      <4> QED
        BY <2>3, <3>4, <4>1
    <3>8. in' = p
      <4> HIDE DEF p
      <4>1. in' = in \o p
        BY <2>1 DEF p
      <4> QED
        BY <2>2, <3>7, <4>1
    <3>9. buffer' \o in' = p
      <4> HIDE DEF p
      <4> QED
        BY <1>1, <2>2, <3>7, <3>8
    <3>10. p \in {SubSeq(Packet(waiting), 1, 1), Packet(waiting)}
      <4>1. k = 1 \/ k = 2
        OBVIOUS
      <4> QED
        BY <1>1, <3>2, <4>1, PacketWhole
    <3> HIDE DEF p
    <3>11. Heads(out)' = Heads(out)
      BY <1>1 DEF Heads
    <3> QED
      BY <1>1, <3>2, <3>9, <3>10, <3>11 DEF Undisturbed
  <2> QED
    BY <1>1, <2>5, <2>6, <2>7, NothingEnded DEF Inv
<1> QED
  BY <1>2, <1>3

\* The device is unplugged and what is on the wire lost.
LEMMA UnplugStep == ASSUME Inv, Unplug PROVE Inv'
<1>1. /\ UNCHANGED <<waiting, buffer, results, serving>>
      /\ out' = <<>> /\ in' = <<>> /\ plugged' = FALSE /\ unplugs' = unplugs + 1
      /\ unplugs < MaxUnplugs /\ handle' = IF handle = None THEN None ELSE "dead"
  BY DEF Unplug
<1>2. TypeOK' /\ Waiting'
  <2>1. unplugs' \in 0..MaxUnplugs
    BY <1>1 DEF Inv, TypeOK
  <2>2. handle' \in {None, "live", "dead"} /\ (handle # None => handle' # None)
    BY <1>1 DEF Inv, TypeOK
  <2>3. None # "dead" => Waiting'
    BY <1>1, <2>2 DEF Inv, Waiting
  <2> QED
    BY <1>1, <2>1, <2>2, <2>3, EmptyHeads DEF Inv, TypeOK, Waiting, Parts, Part
<1>3. /\ Grows(in)' /\ Heads(in)' = {} /\ Grows(out)' /\ Heads(out)' = {}
  BY <1>1, EmptyHeads DEF Grows, Heads
<1>4. Ordered'
  <2>1. Grows(buffer)' /\ Heads(buffer)' = Heads(buffer) /\ Used' = Used /\ Asked' = Asked
        /\ Issued' = Issued
    BY <1>1 DEF Inv, Ordered, Grows, Heads, Used, Asked, Issued
  <2> QED
    BY <1>3, <2>1 DEF Inv, Ordered, Below
<1>5. Clean' => Undisturbed'
  <2>1. SUFFICES ASSUME Clean' PROVE Undisturbed'
    OBVIOUS
  <2>2. Undisturbed
    BY <1>1, <2>1, NothingEnded DEF Inv
  <2>3. CASE waiting = None
    BY <1>1, <1>3, <2>2, <2>3 DEF Undisturbed
  <2>4. CASE waiting # None
    <3>1. waiting \in 1..MaxRequests /\ buffer \in Seq(Part) /\ in \in Seq(Part)
      BY <2>4 DEF Inv, TypeOK, Parts, Part
    <3>2. buffer \in {<<>>, SubSeq(Packet(waiting), 1, 1), Packet(waiting)}
      BY <2>2, <2>4, <3>1, Beginning DEF Undisturbed
    <3>3. buffer' \o in' = buffer
      BY <1>1, <3>1
    <3> QED
      BY <1>1, <1>3, <2>2, <2>4, <3>2, <3>3 DEF Undisturbed
  <2> QED
    BY <2>3, <2>4
<1> QED
  BY <1>1, <1>2, <1>4, <1>5, NothingEnded DEF Inv

\* The device is back, for the host to find.
LEMMA PlugStep == ASSUME Inv, Plug PROVE Inv'
<1>1. UNCHANGED <<handle, waiting, buffer, results, out, in, serving, unplugs>> /\ plugged' = TRUE
  BY DEF Plug, host, wire
<1>2. TypeOK' /\ Waiting'
  BY <1>1 DEF Inv, TypeOK, Waiting, Parts
<1>3. Ordered'
  BY <1>1 DEF Inv, Ordered, Used, Asked, Issued, Grows, Below, Heads
<1>4. Clean' => Undisturbed'
  BY <1>1, NothingEnded DEF Inv, Undisturbed, Heads
<1> QED
  BY <1>1, <1>2, <1>3, <1>4, NothingEnded DEF Inv

\* Nothing is under way at first.
LEMMA InitInv == ASSUME Init PROVE Inv
<1>1. TypeOK /\ Waiting
  BY EmptyHeads DEF Init, TypeOK, Waiting, Parts, Part
<1>2. Ordered
  <2>1. Used = {} /\ Asked = {} /\ Issued = 0
    BY DEF Init, Used, Asked, Issued
  <2> QED
    BY <2>1, EmptyHeads DEF Init, Ordered, Below
<1>3. AnswersAdvance /\ OwnAnswer
  BY DEF Init, AnswersAdvance, Answered, OwnAnswer
<1>4. Undisturbed
  BY EmptyHeads DEF Init, Undisturbed
<1> QED
  BY <1>1, <1>2, <1>3, <1>4 DEF Inv

\* No step of the host, the device or the user breaks the invariant.
LEMMA NextInv == ASSUME Inv, [Next]_vars PROVE Inv'
<1>1. CASE Next
  BY <1>1, ScanStep, SendStep, ReadStep, TimeoutStep, DevicePollStep, DeviceRespondsStep,
     DeviceFailsStep, UnplugStep, PlugStep DEF Next, Receive
<1>2. CASE UNCHANGED vars
  <2>1. UNCHANGED <<handle, waiting, buffer, results, out, in, serving, plugged, unplugs>>
    BY <1>2 DEF vars, host, wire, device
  <2>2. TypeOK' /\ Waiting'
    BY <2>1 DEF Inv, TypeOK, Waiting, Parts
  <2>3. Ordered'
    BY <2>1 DEF Inv, Ordered, Used, Asked, Issued, Grows, Below, Heads
  <2>4. Clean' => Undisturbed'
    BY <2>1, NothingEnded DEF Inv, Undisturbed, Heads
  <2> QED
    BY <2>1, <2>2, <2>3, <2>4, NothingEnded DEF Inv
<1> QED
  BY <1>1, <1>2

\* The invariant holds in every reachable state.
LEMMA InvHolds == Spec => []Inv
<1>1. Inv /\ [Next]_vars => Inv'
  BY NextInv
<1>2. Init => Inv
  BY InitInv
<1> QED
  BY <1>1, <1>2, PTL DEF Spec

---------------------------------------------------------------------------
(* Theorems *)

\* The fields of host, device and wire keep their types, and the host's buffer is empty when
\* netw_send has returned.
THEOREM TypeCorrect == Spec => []TypeOK
<1>1. Inv => TypeOK
  BY DEF Inv
<1> QED
  BY InvHolds, <1>1, PTL

\* However packets are cut, lost or late, a response answers one request at most, and responses
\* answer in the order in which their requests were sent, none before its own (io_m5.c:161).
THEOREM ResponsesAdvance == Spec => []AnswersAdvance
<1>1. Inv => AnswersAdvance
  BY DEF Inv
<1> QED
  BY InvHolds, <1>1, PTL

\* A request gets its own response, and none that was never received, unless one before it timed
\* out or was unplugged: cut packets and a web server that fails are not enough (io_m5.c:150).
THEOREM ResponsesAreOwn == Spec => []OwnAnswer
<1>1. Inv => OwnAnswer
  BY DEF Inv
<1> QED
  BY InvHolds, <1>1, PTL

=============================================================================
