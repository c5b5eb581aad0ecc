-------------------------- MODULE RequestService --------------------------
(***************************************************************************)
(* What linq-network promises the application about the requests it sends  *)
(* to one device: the requests that were accepted are answered one at a    *)
(* time, in the order in which they were accepted, each exactly once.      *)
(*                                                                         *)
(* The promise says nothing of routers, ids, retries or timers: the module *)
(* ZmtpDevice has those, and implements this one.                          *)
(***************************************************************************)
EXTENDS Integers, Sequences

CONSTANT Outcomes   \* the ways a request can be answered

VARIABLES
  issued,    \* how many requests have been accepted
  answered   \* the answers given so far: [req, outcome] in the order given

vars == <<issued, answered>>

Answer == [req : Nat \ {0}, outcome : Outcomes]

TypeOK ==
  /\ issued \in Nat
  /\ answered \in Seq(Answer)

Init ==
  /\ issued = 0
  /\ answered = <<>>

\* The answers a step adds, which are those of the oldest requests that have none.
AnswersOldest ==
  LET n == Len(answered)
  IN  /\ answered' \in Seq(Answer)
      /\ n <= Len(answered') /\ Len(answered') <= issued'
      /\ \A i \in 1..n : answered'[i] = answered[i]
      /\ \A i \in (n + 1)..Len(answered') : answered'[i].req = i

\* A step accepts any number of requests and answers any number of those
\* that wait: a handler of the code may do several of each before it returns,
\* because a callback may issue new requests.
Next ==
  /\ issued' \in Nat
  /\ issued' >= issued
  /\ AnswersOldest

Safety == Init /\ [][Next]_vars

\* No accepted request waits for ever.
Answered(n) == (issued >= n) ~> (Len(answered) >= n)
===========================================================================
