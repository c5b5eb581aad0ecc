--------------------------- MODULE SocketsProofs ---------------------------
(***************************************************************************)
(* Proofs about SocketMap and Sockets.                                     *)
(*                                                                         *)
(* First, the hash map stays consistent and is a map, for any keys, hash   *)
(* values and number of slots.  Consistent speaks of what Find returns,    *)
(* which changes for a key with any slot on its way.  Good says the same   *)
(* one entry at a time: no slot on the way to an entry is empty (Leads).   *)
(* That a search comes to an end needs that its steps visit every slot,    *)
(* which the triangular numbers do in a table of 2^k slots (ProbeOnto).    *)
(* kh_resize is a loop that keeps Carries: the entries in the new table,   *)
(* in the old one and in hand are together those of the map, and those in  *)
(* the new table can be found.  It is a recursive function, so that it     *)
(* needs an induction: over a set of numbers, from its least element.      *)
(*                                                                         *)
(* Then the connections: their maps stay consistent, opening one leaves    *)
(* the others, handles, the nodes of connections, and that the open        *)
(* sockets are the ones that are polled.  AddedTo and DeletedFrom say what *)
(* socket_map_add and socket_map_remove do; Steps lists the steps of the   *)
(* library by that.  An open socket is lost where the application closes   *)
(* the slot of a handle that has gone bad, or replaces the entry of an     *)
(* endpoint in use, so that OpenIsPolled is proved for applications that   *)
(* do neither, and for those that create too few sockets for a handle to   *)
(* go bad.                                                                 *)
(***************************************************************************)
EXTENDS Sockets, FiniteSetTheorems, TLAPS

---------------------------------------------------------------------------
(* Induction over the natural numbers, with a set in the place of the predicate *)

\* A set of natural numbers has a least element.
LEMMA LeastElement ==
  ASSUME NEW S \in SUBSET Nat, S # {}
  PROVE  \E x \in S : \A y \in S : x <= y
<1>1. IsWellFoundedOn(OpToRel(<, Nat), Nat)
  BY NatLessThanWellFounded
<1>2. PICK x \in S : \A y \in S : ~ (<<y, x>> \in OpToRel(<, Nat))
  BY <1>1, WFMin
<1>3. \A y \in S : ~ (y < x)
  BY <1>2 DEF OpToRel
<1> QED
  BY <1>3

\* A set that holds 0 and with each number the next holds them all.
LEMMA NatSetInduction ==
  ASSUME NEW S, 0 \in S, \A n \in Nat : n \in S => n + 1 \in S
  PROVE  Nat \subseteq S
<1> SUFFICES ASSUME Nat \ S # {} PROVE FALSE
  OBVIOUS
<1>1. PICK x \in Nat \ S : \A y \in Nat \ S : x <= y
  BY LeastElement
<1>2. x # 0 /\ x - 1 \in Nat
  BY <1>1
<1>3. x - 1 \in S
  BY <1>1, <1>2
<1>4. (x - 1) + 1 = x
  BY <1>1
<1> QED
  BY <1>1, <1>2, <1>3, <1>4

---------------------------------------------------------------------------
(* The numbers of slots *)

\* 1, 2, 4, ...: the least set that holds 1 and with each number its double
Pow2 == {n \in Nat : \A S \in SUBSET Nat : 1 \in S /\ (\A m \in S : 2 * m \in S) => n \in S}

\* 1 is a power of two, and so is the double of one.
LEMMA Pow2Closed == 1 \in Pow2 /\ \A n \in Pow2 : 2 * n \in Pow2
<1>1. 1 \in Pow2
  BY DEF Pow2
<1>2. ASSUME NEW n \in Pow2 PROVE 2 * n \in Pow2
  <2>1. n \in Nat /\ 2 * n \in Nat
    BY <1>2 DEF Pow2
  <2> SUFFICES ASSUME NEW S \in SUBSET Nat, 1 \in S, \A m \in S : 2 * m \in S
               PROVE  2 * n \in S
    BY <2>1 DEF Pow2
  <2>2. n \in S
    BY <1>2 DEF Pow2
  <2> QED
    BY <2>2
<1> QED
  BY <1>1, <1>2

\* Induction over the powers of two
LEMMA Pow2Induction ==
  ASSUME NEW S, 1 \in S, \A m \in Pow2 : m \in S => 2 * m \in S
  PROVE  Pow2 \subseteq S
<1> DEFINE T == {n \in Pow2 : n \in S}
<1>1. T \in SUBSET Nat
  BY DEF Pow2
<1>2. 1 \in T /\ \A m \in T : 2 * m \in T
  BY Pow2Closed
<1>3. ASSUME NEW n \in Pow2 PROVE n \in T
  <2> HIDE DEF T
  <2> QED
    BY <1>1, <1>2, <1>3 DEF Pow2
<1> QED
  BY <1>3

\* A power of two that divides a product with an odd factor divides the other factor.
LEMMA OddFactor ==
  \A p \in Pow2 : \A o, e, q \in Nat :
    o % 2 = 1 /\ o * e = p * q => \E f \in Nat : e = p * f
<1> SUFFICES ASSUME NEW p \in Pow2, NEW o \in Nat, o % 2 = 1, NEW e \in Nat, NEW q \in Nat,
                    o * e = p * q
             PROVE  \E f \in Nat : e = p * f
  OBVIOUS
<1> DEFINE S == {n \in Nat : \A x, y \in Nat : o * x = n * y => \E f \in Nat : x = n * f}
<1>1. 1 \in S
  <2> SUFFICES ASSUME NEW x \in Nat, NEW y \in Nat PROVE x = 1 * x
    OBVIOUS
  <2> QED
    OBVIOUS
<1>2. ASSUME NEW n \in Pow2, n \in S PROVE 2 * n \in S
  <2>1. n \in Nat /\ 2 * n \in Nat /\ n # 0
    <3>1. 1 \in {k \in Nat : k # 0} /\ \A m \in {k \in Nat : k # 0} : 2 * m \in {k \in Nat : k # 0}
      OBVIOUS
    <3> QED
      BY <3>1 DEF Pow2
  <2> SUFFICES ASSUME NEW x \in Nat, NEW y \in Nat, o * x = (2 * n) * y
               PROVE  \E f \in Nat : x = (2 * n) * f
    BY <2>1
  <2>2. o * x = n * (2 * y) /\ 2 * y \in Nat
    BY <2>1
  <2>3. PICK f \in Nat : x = n * f
    BY <2>2, <1>2
  <2>4. o * f = 2 * y
    <3>1. n * (o * f) = n * (2 * y)
      <4>1. n * (o * f) = o * (n * f)
        BY <2>1, <2>3
      <4> QED
        BY <4>1, <2>2, <2>3
    <3>2. \A u, v \in Nat : n * u = n * v => u = v
      BY <2>1
    <3> QED
      BY <3>1, <3>2
  <2>5. PICK c \in Nat : o = 2 * c + 1
    <3>1. o = 2 * (o \div 2) + 1 /\ o \div 2 \in Nat
      OBVIOUS
    <3> QED
      BY <3>1
  <2>6. f = 2 * (y - c * f)
    <3>1. o * f = 2 * (c * f) + f /\ c * f \in Nat
      BY <2>5
    <3> QED
      BY <3>1, <2>4
  <2>7. y - c * f \in Nat
    <3>1. c * f \in Nat
      OBVIOUS
    <3> QED
      BY <3>1, <2>6
  <2>8. x = (2 * n) * (y - c * f)
    <3> DEFINE g == y - c * f
    <3>1. x = n * (2 * g)
      BY <2>3, <2>6
    <3> HIDE DEF g
    <3>2. g \in Nat
      BY <2>7 DEF g
    <3>3. x = (2 * n) * g
      BY <3>1, <3>2, <2>1
    <3> QED
      BY <3>3 DEF g
  <2> QED
    BY <2>7, <2>8
<1>3. p \in S
  <2> HIDE DEF S
  <2> QED
    BY <1>1, <1>2, Pow2Induction
<1> QED
  BY <1>3

\* Two positive numbers of which one is odd have no power of two above both as a divisor
\* of their product.
LEMMA NoSmallFactors ==
  ASSUME NEW m \in Pow2, m \in Nat, NEW d \in Nat, NEW s \in Nat, NEW k \in Nat,
         d % 2 = 1, d * s = m * k, s > 0, s < m
  PROVE  FALSE
<1>1. PICK f \in Nat : s = m * f
  BY OddFactor
<1>2. f = 0 \/ m * f >= m
  OBVIOUS
<1>3. f = 0 => m * f = 0
  OBVIOUS
<1> QED
  BY <1>1, <1>2, <1>3

---------------------------------------------------------------------------
(* The probe sequence *)

\* Where a search for a key of hash value h looks in its step s
ProbeAt(h, n, s) == (h + (s * (s + 1)) \div 2) % n

\* s and s + 1 are not both odd.
LEMMA Triangular ==
  ASSUME NEW s \in Nat
  PROVE  /\ (s * (s + 1)) \div 2 \in Nat
         /\ 2 * ((s * (s + 1)) \div 2) = s * (s + 1)
<1>1. \E k \in Nat : s * (s + 1) = 2 * k
  <2>1. s = 2 * (s \div 2) \/ s = 2 * (s \div 2) + 1
    OBVIOUS
  <2>2. PICK c \in Nat : s = 2 * c \/ s = 2 * c + 1
    BY <2>1
  <2>3. CASE s = 2 * c
    <3>1. s * (s + 1) = 2 * (c * (s + 1)) /\ c * (s + 1) \in Nat
      BY <2>3
    <3> QED
      BY <3>1
  <2>4. CASE s = 2 * c + 1
    <3>1. s + 1 = 2 * (c + 1)
      BY <2>4
    <3>2. s * (s + 1) = 2 * (s * (c + 1)) /\ s * (c + 1) \in Nat
      BY <3>1
    <3> QED
      BY <3>2
  <2> QED
    BY <2>2, <2>3, <2>4
<1>2. PICK k \in Nat : s * (s + 1) = 2 * k
  BY <1>1
<1>3. (2 * k) \div 2 = k
  OBVIOUS
<1> QED
  BY <1>2, <1>3

\* Powers of two are positive numbers.
LEMMA Pow2Positive == \A n \in Pow2 : n \in Nat /\ n > 0
<1>1. 1 \in {k \in Nat : k > 0} /\ \A m \in {k \in Nat : k > 0} : 2 * m \in {k \in Nat : k > 0}
  OBVIOUS
<1> QED
  BY <1>1 DEF Pow2

\* Numbers with the same remainder differ by a multiple.
LEMMA SameRemainder ==
  ASSUME NEW n \in Nat, n > 0, NEW x \in Nat, NEW y \in Nat, x <= y, x % n = y % n
  PROVE  \E k \in Nat : y - x = n * k
<1>1. x = n * (x \div n) + (x % n) /\ x \div n \in Nat
  OBVIOUS
<1>2. y = n * (y \div n) + (y % n) /\ y \div n \in Nat
  OBVIOUS
<1> DEFINE a == x \div n
           b == y \div n
<1>3. PICK a1 \in Nat : x = n * a1 + (x % n)
  BY <1>1
<1>4. PICK b1 \in Nat : y = n * b1 + (x % n)
  BY <1>2
<1>5. y - x = n * (b1 - a1)
  BY <1>3, <1>4
<1>6. b1 - a1 >= 0
  <2> SUFFICES ASSUME b1 - a1 <= -1 PROVE FALSE
    OBVIOUS
  <2>1. n * (b1 - a1) < 0
    OBVIOUS
  <2> QED
    BY <2>1, <1>5
<1>7. b1 - a1 \in Nat
  BY <1>6
<1> QED
  BY <1>5, <1>7

\* The first n steps of a search look at n different slots (khash.h, "quadratic probing").
LEMMA ProbeInjective ==
  ASSUME NEW n \in Pow2, NEW h \in Nat, NEW a \in 0..(n - 1), NEW b \in 0..(n - 1), a < b
  PROVE  ProbeAt(h, n, a) # ProbeAt(h, n, b)
<1> SUFFICES ASSUME ProbeAt(h, n, a) = ProbeAt(h, n, b) PROVE FALSE
  OBVIOUS
<1>0. n \in Nat /\ n > 0 /\ a \in Nat /\ b \in Nat /\ 2 * n \in Pow2 /\ 2 * n \in Nat
  BY Pow2Positive, Pow2Closed
<1> DEFINE Ta == (a * (a + 1)) \div 2
           Tb == (b * (b + 1)) \div 2
<1>1. Ta \in Nat /\ 2 * Ta = a * (a + 1) /\ Tb \in Nat /\ 2 * Tb = b * (b + 1)
  BY <1>0, Triangular
<1>2. (h + Ta) % n = (h + Tb) % n
  BY DEF ProbeAt
<1> HIDE DEF Ta, Tb
<1>3. b * (b + 1) - a * (a + 1) = (b - a) * (a + b + 1) /\ (b - a) * (a + b + 1) >= 0
  BY <1>0
<1>4. Ta <= Tb
  BY <1>1, <1>3
<1>5. PICK k \in Nat : (h + Tb) - (h + Ta) = n * k
  <2>1. h + Ta \in Nat /\ h + Tb \in Nat /\ h + Ta <= h + Tb
    BY <1>1, <1>4
  <2> HIDE DEF ProbeAt
  <2> QED
    BY <2>1, <1>2, <1>0, SameRemainder
<1>6. (b - a) * (a + b + 1) = (2 * n) * k
  <2>1. 2 * Tb - 2 * Ta = 2 * (n * k)
    BY <1>5, <1>1
  <2>2. 2 * (n * k) = (2 * n) * k
    BY <1>0
  <2> QED
    BY <2>1, <2>2, <1>1, <1>3
<1> DEFINE d == b - a
           s == a + b + 1
<1>7. d \in Nat /\ s \in Nat /\ d > 0 /\ s > 0 /\ d < 2 * n /\ s < 2 * n /\ (d % 2 = 1 \/ s % 2 = 1)
  BY <1>0
<1>8. d * s = (2 * n) * k /\ s * d = (2 * n) * k
  <2>1. d * s = s * d
    BY <1>7
  <2> QED
    BY <2>1, <1>6
<1> DEFINE m == 2 * n
<1>9. m \in Pow2 /\ m \in Nat /\ d * s = m * k /\ s * d = m * k /\ d < m /\ s < m
  BY <1>0, <1>7, <1>8
<1> HIDE DEF d, s, m
<1>10. CASE d % 2 = 1
  BY <1>10, <1>7, <1>9, NoSmallFactors
<1>11. CASE s % 2 = 1
  BY <1>11, <1>7, <1>9, NoSmallFactors
<1> QED
  BY <1>7, <1>10, <1>11

\* A search looks at every slot.
LEMMA ProbeOnto ==
  ASSUME NEW n \in Pow2, NEW h \in Nat, NEW i \in 0..(n - 1)
  PROVE  \E s \in 0..(n - 1) : ProbeAt(h, n, s) = i
<1>0. n \in Nat /\ n > 0
  BY Pow2Positive
<1> DEFINE S == 0..(n - 1)
           f == [s \in S |-> ProbeAt(h, n, s)]
<1>1. \A s \in S : ProbeAt(h, n, s) \in S
  <2> SUFFICES ASSUME NEW s \in S PROVE ProbeAt(h, n, s) \in S
    OBVIOUS
  <2>1. (s * (s + 1)) \div 2 \in Nat
    BY <1>0, Triangular
  <2>2. h + (s * (s + 1)) \div 2 \in Nat
    BY <2>1
  <2>3. \A x \in Nat : x % n \in S
    BY <1>0
  <2> QED
    BY <2>2, <2>3 DEF ProbeAt
<1>2. \A a, b \in S : ProbeAt(h, n, a) = ProbeAt(h, n, b) => a = b
  <2> SUFFICES ASSUME NEW a \in S, NEW b \in S, ProbeAt(h, n, a) = ProbeAt(h, n, b), a # b
               PROVE  FALSE
    OBVIOUS
  <2>1. a < b \/ b < a
    BY <1>0
  <2> QED
    BY <2>1, ProbeInjective
<1>3. f \in Injection(S, S)
  BY <1>1, <1>2 DEF Injection, IsInjective
<1>4. IsFiniteSet(S)
  BY <1>0, FS_Interval
<1>5. f \in Surjection(S, S)
  BY <1>3, <1>4, FS_Injection
<1> QED
  BY <1>5 DEF Surjection

\* The slots a search looks at are slots of the table.
LEMMA ProbeInRange ==
  \A n \in Nat, h \in Nat, s \in Nat : n > 0 => ProbeAt(h, n, s) \in 0..(n - 1)
<1> SUFFICES ASSUME NEW n \in Nat, n > 0, NEW h \in Nat, NEW s \in Nat
             PROVE  ProbeAt(h, n, s) \in 0..(n - 1)
  OBVIOUS
<1>1. h + (s * (s + 1)) \div 2 \in Nat
  BY Triangular
<1>2. \A x \in Nat : x % n \in 0..(n - 1)
  OBVIOUS
<1> QED
  BY <1>1, <1>2 DEF ProbeAt

\* Min and Max of FiniteSetsExt
LEMMA MinIsLeast ==
  ASSUME NEW S \in SUBSET Nat, S # {}
  PROVE  Min(S) \in S /\ \A y \in S : Min(S) <= y
BY LeastElement DEF Min

\* The greatest element of a set that has a bound
LEMMA MaxIsGreatest ==
  ASSUME NEW S \in SUBSET Nat, S # {}, NEW b \in Nat, \A y \in S : y <= b
  PROVE  Max(S) \in S /\ \A y \in S : y <= Max(S)
<1> DEFINE T == {x \in Nat : b - x \in S}
<1>1. \A y \in S : b - y \in T
  OBVIOUS
<1>2. PICK x \in T : \A y \in T : x <= y
  BY <1>1, LeastElement
<1>3. b - x \in S
  OBVIOUS
<1>4. ASSUME NEW y \in S PROVE y <= b - x
  <2>1. x <= b - y
    BY <1>1, <1>2
  <2> QED
    BY <2>1
<1> QED
  BY <1>3, <1>4 DEF Max

---------------------------------------------------------------------------
(* Tables *)

\* The numbers of slots a map may have
Sizes == {0} \cup {n \in Pow2 : n >= 4}

Flags == {"empty", "live", "deleted"}

\* What an array of slots may hold, for keys in K and values in V
SlotSet(K, V) == [flag : Flags, key : K \cup {"none"}, val : V \cup {<<>>}]

LiveIn(f) == {i \in DOMAIN f : f[i].flag = "live"}
UsedIn(f) == {i \in DOMAIN f : f[i].flag # "empty"}

\* A search for a key of hash value h comes to slot i before any empty slot.
Leads(h, f, n, i) ==
  \E s \in 0..(n - 1) :
    /\ ProbeAt(h, n, s) = i
    /\ \A r \in 0..(s - 1) : f[ProbeAt(h, n, r)].flag # "empty"

\* What khash keeps true of its arrays, in a form that survives the steps of kh_resize:
\* unlike the results of Find it looks at one entry at a time.
Searchable(hash, f, n) ==
  /\ \A i, j \in LiveIn(f) : f[i].key = f[j].key => i = j
  /\ \A i \in LiveIn(f) : Leads(hash[f[i].key], f, n, i)

Good(t, K, V, n) ==
  /\ n \in Sizes
  /\ t \in [hash : [K -> Nat], slots : [0..(n - 1) -> SlotSet(K, V)], size : Nat, occupied : Nat]
  /\ t.size = Cardinality(LiveIn(t.slots))
  /\ t.occupied = Cardinality(UsedIn(t.slots))
  /\ t.occupied <= UpperBound(n)
  /\ \A i \in LiveIn(t.slots) : t.slots[i].key \in K /\ t.slots[i].val \in V
  /\ Searchable(t.hash, t.slots, n)

GoodMap(t, K, V) == \E n \in Sizes : Good(t, K, V, n)

Entries(t) == {<<t.slots[i].key, t.slots[i].val>> : i \in Live(t)}

\* A table has no slot, or a power of two, at least 4.
LEMMA SizesAreNat == \A n \in Sizes : n \in Nat /\ (n > 0 => n \in Pow2 /\ n >= 4)
BY Pow2Positive DEF Sizes

\* The slots of a map, and those of its entries
LEMMA GoodBuckets ==
  ASSUME NEW K, NEW V, NEW n, NEW t, Good(t, K, V, n)
  PROVE  /\ n \in Nat /\ n \in Sizes /\ (n > 0 => n \in Pow2 /\ n >= 4)
         /\ DOMAIN t.slots = 0..(n - 1)
         /\ Buckets(t) = n
         /\ Live(t) = LiveIn(t.slots) /\ Live(t) \subseteq 0..(n - 1)
<1>1. n \in Nat /\ n \in Sizes /\ (n > 0 => n \in Pow2 /\ n >= 4)
  BY SizesAreNat DEF Good
<1>2. DOMAIN t.slots = 0..(n - 1)
  BY DEF Good
<1>3. Buckets(t) = n
  <2>1. Cardinality(0..(n - 1)) = IF 0 > n - 1 THEN 0 ELSE (n - 1) - 0 + 1
    BY <1>1, FS_Interval
  <2> QED
    BY <2>1, <1>1, <1>2 DEF Buckets
<1> QED
  BY <1>1, <1>2, <1>3 DEF Live, LiveIn

\* There is room: fewer than n slots are used.
LEMMA UpperBoundBelow == \A n \in Nat : n >= 4 => UpperBound(n) < n /\ UpperBound(n) \in Nat
BY DEF UpperBound

\* In twice as many slots there is room for more.
LEMMA UpperBoundOfDouble ==
  \A n \in Nat : n >= 4 => UpperBound(n) < UpperBound(2 * n) /\ n <= 2 * UpperBound(n)
BY DEF UpperBound

\* Where fewer slots are used than there are, one is empty.
LEMMA SomeEmpty ==
  ASSUME NEW n \in Nat, NEW f, DOMAIN f = 0..(n - 1), Cardinality(UsedIn(f)) < n
  PROVE  \E i \in 0..(n - 1) : f[i].flag = "empty"
<1> SUFFICES ASSUME \A i \in 0..(n - 1) : f[i].flag # "empty" PROVE FALSE
  OBVIOUS
<1>1. UsedIn(f) = 0..(n - 1)
  BY DEF UsedIn
<1>2. Cardinality(0..(n - 1)) = IF 0 > n - 1 THEN 0 ELSE (n - 1) - 0 + 1
  BY FS_Interval
<1> QED
  BY <1>1, <1>2

---------------------------------------------------------------------------
(* kh_get *)

\* A search for a key that is there finds its slot.
LEMMA FindsLive ==
  ASSUME NEW K, NEW V, NEW n, NEW t, Good(t, K, V, n), NEW i \in Live(t)
  PROVE  Find(t, t.slots[i].key) = i
<1> DEFINE key == t.slots[i].key
           at(s) == Probe(t, n, key, s)
<1>1. n \in Nat /\ n > 0 /\ Buckets(t) = n /\ DOMAIN t.slots = 0..(n - 1) /\ i \in LiveIn(t.slots)
  BY GoodBuckets
<1>2. t.hash[key] \in Nat
  BY <1>1 DEF Good
<1>3. PICK s \in 0..(n - 1) : /\ ProbeAt(t.hash[key], n, s) = i
                              /\ \A r \in 0..(s - 1) : t.slots[ProbeAt(t.hash[key], n, r)].flag # "empty"
  BY <1>1 DEF Good, Searchable, Leads
<1>4. \A r \in 0..(n - 1) : at(r) = ProbeAt(t.hash[key], n, r) /\ at(r) \in 0..(n - 1)
  BY <1>1, <1>2, ProbeInRange DEF Probe, ProbeAt
<1>5. \A q : q \in Stops(t, key) <=>
               /\ q \in 0..(n - 1)
               /\ \/ t.slots[at(q)].flag = "empty"
                  \/ t.slots[at(q)].flag = "live" /\ t.slots[at(q)].key = key
  BY <1>1 DEF Stops
<1>6. s \in Stops(t, key) /\ at(s) = i
  <2>1. at(s) = i
    BY <1>3, <1>4
  <2>2. t.slots[i].flag = "live"
    BY <1>1 DEF LiveIn
  <2> QED
    BY <2>1, <2>2, <1>5
<1>7. ASSUME NEW r \in Stops(t, key) PROVE r >= s
  <2>1. r \in 0..(n - 1)
    BY <1>5
  <2> SUFFICES ASSUME r < s PROVE FALSE
    BY <2>1
  <2>2. r \in 0..(s - 1)
    BY <2>1
  <2>3. at(r) = ProbeAt(t.hash[key], n, r) /\ at(r) \in 0..(n - 1)
    BY <2>1, <1>4
  <2>4. t.slots[at(r)].flag # "empty"
    BY <2>2, <2>3, <1>3
  <2>5. t.slots[at(r)].flag = "live" /\ t.slots[at(r)].key = key
    BY <2>4, <1>5
  <2>6. at(r) \in LiveIn(t.slots)
    BY <2>3, <2>5, <1>1 DEF LiveIn
  <2>7. at(r) = i
    BY <2>5, <2>6, <1>1 DEF Good, Searchable
  <2>8. r # s /\ n \in Pow2
    BY <2>1, <1>1, GoodBuckets
  <2> QED
    BY <2>1, <2>3, <2>7, <2>8, <1>2, <1>3, ProbeInjective
<1>8. Stops(t, key) \in SUBSET Nat
  BY <1>1 DEF Stops
<1>9. Min(Stops(t, key)) = s
  <2>1. Min(Stops(t, key)) \in Stops(t, key) /\ Min(Stops(t, key)) <= s
    BY <1>6, <1>8, MinIsLeast
  <2> QED
    BY <2>1, <1>6, <1>7, <1>8
<1>10. at(s) = i /\ t.slots[at(s)].flag = "live"
  BY <1>1, <1>3, <1>4 DEF LiveIn
<1> QED
  BY <1>1, <1>6, <1>9, <1>10 DEF Find

\* A search for one that is not there comes to kh_end.
LEMMA FindsNone ==
  ASSUME NEW K, NEW V, NEW n, NEW t, Good(t, K, V, n), NEW key \in K,
         \A i \in Live(t) : t.slots[i].key # key
  PROVE  Find(t, key) = n
<1> DEFINE at(s) == Probe(t, n, key, s)
           stop == Min(Stops(t, key))
<1>1. n \in Nat /\ Buckets(t) = n /\ DOMAIN t.slots = 0..(n - 1) /\ t.hash[key] \in Nat
  <2>1. t.hash[key] \in Nat
    BY DEF Good
  <2> QED
    BY <2>1, GoodBuckets
<1>2. ASSUME Stops(t, key) # {}, t.slots[at(stop)].flag = "live" PROVE FALSE
  <2>1. stop \in Stops(t, key)
    <3>1. Stops(t, key) \in SUBSET Nat
      BY <1>1 DEF Stops
    <3> QED
      BY <3>1, <1>2, MinIsLeast
  <2>2. stop \in 0..(n - 1) /\ t.slots[at(stop)].key = key
    BY <2>1, <1>1, <1>2 DEF Stops
  <2>3. at(stop) \in 0..(n - 1)
    <3> HIDE DEF stop
    <3>1. n > 0 /\ stop \in Nat
      BY <1>1, <2>2
    <3> QED
      BY <3>1, <1>1, ProbeInRange DEF Probe, ProbeAt
  <2> QED
    BY <2>2, <2>3, <1>1, <1>2 DEF Live
<1> QED
  BY <1>1, <1>2 DEF Find

---------------------------------------------------------------------------
(* kh_put, when there is room, and kh_del *)

\* f becomes g when an entry is written to slot x.
Written(f, g, n, x, key, val) ==
  /\ DOMAIN g = 0..(n - 1)
  /\ g[x].flag = "live" /\ g[x].key = key /\ g[x].val = val
  /\ \A i \in 0..(n - 1) : i # x => g[i] = f[i]

\* An entry is written to a slot that is not live, on the path of its key.
LEMMA WriteSearchable ==
  ASSUME NEW K, NEW V, NEW n \in Nat, NEW hash \in [K -> Nat],
         NEW f \in [0..(n - 1) -> SlotSet(K, V)], NEW key \in K, NEW val \in V,
         \A i \in LiveIn(f) : f[i].key \in K,
         Searchable(hash, f, n),
         NEW x \in 0..(n - 1), f[x].flag # "live",
         \A i \in LiveIn(f) : f[i].key # key,
         Leads(hash[key], f, n, x),
         NEW g, Written(f, g, n, x, key, val)
  PROVE  Searchable(hash, g, n)
<1> n > 0
  OBVIOUS
<1>0. \A h, r \in Nat : ProbeAt(h, n, r) \in 0..(n - 1)
  BY ProbeInRange
<1>2. /\ g[x].flag = "live" /\ g[x].key = key
      /\ \A i \in 0..(n - 1) : i # x => g[i] = f[i]
  BY DEF Written
<1>3. DOMAIN g = 0..(n - 1) /\ DOMAIN f = 0..(n - 1)
  BY DEF Written
<1>4. LiveIn(g) = LiveIn(f) \cup {x}
  BY <1>2, <1>3 DEF LiveIn
<1>5. ASSUME NEW i \in LiveIn(g), NEW j \in LiveIn(g), g[i].key = g[j].key PROVE i = j
  BY <1>2, <1>3, <1>4, <1>5 DEF LiveIn, Searchable
<1>6. \A i \in 0..(n - 1) : g[i].flag = "empty" => f[i].flag = "empty"
  BY <1>2, <1>3
<1>7. ASSUME NEW i \in LiveIn(g) PROVE Leads(hash[g[i].key], g, n, i)
  <2>1. CASE i = x
    <3>1. g[i].key = key /\ hash[key] \in Nat
      BY <1>2, <2>1
    <3>0. PICK s \in 0..(n - 1) : /\ ProbeAt(hash[key], n, s) = x
                                  /\ \A r \in 0..(s - 1) : f[ProbeAt(hash[key], n, r)].flag # "empty"
      BY DEF Leads
    <3>2. \A r \in 0..(s - 1) : ProbeAt(hash[key], n, r) \in 0..(n - 1)
      BY ONLY <3>1, <1>0 DEF ProbeAt
    <3>3. \A r \in 0..(s - 1) : g[ProbeAt(hash[key], n, r)].flag # "empty"
      BY <3>0, <3>2, <1>6
    <3> QED
      BY <3>0, <3>1, <3>3, <2>1 DEF Leads
  <2>2. CASE i # x
    <3>1. i \in LiveIn(f) /\ g[i].key = f[i].key /\ hash[f[i].key] \in Nat
      BY <2>2, <1>2, <1>3, <1>4 DEF LiveIn
    <3>2. PICK q \in 0..(n - 1) :
            /\ ProbeAt(hash[f[i].key], n, q) = i
            /\ \A r \in 0..(q - 1) : f[ProbeAt(hash[f[i].key], n, r)].flag # "empty"
      BY <3>1 DEF Searchable, Leads
    <3>3. \A r \in 0..(q - 1) : ProbeAt(hash[f[i].key], n, r) \in 0..(n - 1)
      BY ONLY <3>1, <1>0 DEF ProbeAt
    <3>4. \A r \in 0..(q - 1) : g[ProbeAt(hash[f[i].key], n, r)].flag # "empty"
      BY <3>2, <3>3, <1>6
    <3> QED
      BY <3>1, <3>2, <3>4 DEF Leads
  <2> QED
    BY <2>1, <2>2
<1> QED
  BY <1>5, <1>7 DEF Searchable

\* Where kh_put writes a key: the slot that has it, else one that is not live on its path
LEMMA SiteOfKey ==
  ASSUME NEW K, NEW V, NEW n, n # 0, NEW t, Good(t, K, V, n), NEW key \in K,
         t.occupied < UpperBound(n)
  PROVE  /\ Site(t, key) \in 0..(n - 1)
         /\ Site(t, key) \in Live(t) => t.slots[Site(t, key)].key = key
         /\ Site(t, key) \notin Live(t) => \A i \in Live(t) : t.slots[i].key # key
         /\ Leads(t.hash[key], t.slots, n, Site(t, key))
<1> DEFINE at(s) == Probe(t, n, key, s)
           stop == Min(Stops(t, key))
           passed == {s \in 0..(stop - 1) : t.slots[at(s)].flag = "deleted"}
<1>0. t.hash[key] \in Nat /\ t.slots \in [0..(n - 1) -> SlotSet(K, V)]
  BY DEF Good
<1>1. n \in Nat /\ n \in Pow2 /\ n >= 4 /\ Buckets(t) = n /\ DOMAIN t.slots = 0..(n - 1)
  BY GoodBuckets
<1>2. \A s \in 0..(n - 1) : at(s) = ProbeAt(t.hash[key], n, s) /\ at(s) \in 0..(n - 1)
  BY <1>0, <1>1, ProbeInRange DEF Probe, ProbeAt
<1>3. PICK e \in 0..(n - 1) : t.slots[e].flag = "empty"
  <2>1. Cardinality(UsedIn(t.slots)) < n
    BY <1>1, UpperBoundBelow DEF Good
  <2> QED
    BY <2>1, <1>1, SomeEmpty
<1>4. PICK q \in 0..(n - 1) : at(q) = e
  <2>1. \E q \in 0..(n - 1) : ProbeAt(t.hash[key], n, q) = e
    BY <1>0, <1>1, ProbeOnto
  <2> QED
    BY <2>1, <1>2
<1>5. stop \in Stops(t, key) /\ \A r \in Stops(t, key) : stop <= r
  <2>1. q \in Stops(t, key) /\ Stops(t, key) \in SUBSET Nat
    BY <1>1, <1>3, <1>4 DEF Stops
  <2> QED
    BY <2>1, MinIsLeast
<1>6. /\ stop \in 0..(n - 1)
      /\ \/ t.slots[at(stop)].flag = "empty"
         \/ t.slots[at(stop)].flag = "live" /\ t.slots[at(stop)].key = key
  BY <1>5, <1>1 DEF Stops
<1>7. ASSUME NEW r \in 0..(stop - 1)
      PROVE  /\ r \in 0..(n - 1) /\ t.slots[at(r)].flag # "empty"
             /\ ~(t.slots[at(r)].flag = "live" /\ t.slots[at(r)].key = key)
  <2>1. r \in 0..(n - 1) /\ r \notin Stops(t, key)
    BY <1>5, <1>6, <1>1
  <2> QED
    BY <2>1, <1>1 DEF Stops
<1>8. ASSUME t.slots[at(stop)].flag = "empty", NEW i \in Live(t), t.slots[i].key = key PROVE FALSE
  <2>1. i \in LiveIn(t.slots) /\ i \in 0..(n - 1) /\ t.slots[i].flag = "live"
    BY GoodBuckets DEF LiveIn
  <2>2. PICK s \in 0..(n - 1) : /\ ProbeAt(t.hash[key], n, s) = i
                                /\ \A r \in 0..(s - 1) : t.slots[ProbeAt(t.hash[key], n, r)].flag # "empty"
    BY <2>1, <1>8 DEF Good, Searchable, Leads
  <2>3. at(s) = i
    BY <2>2, <1>2
  <2>4. s \in Stops(t, key)
    BY <2>1, <2>3, <1>8, <1>1 DEF Stops
  <2>5. stop <= s
    BY <2>4, <1>5
  <2>6. CASE stop = s
    BY <2>6, <2>3, <2>1, <1>8
  <2>7. CASE stop # s
    <3> HIDE DEF stop
    <3>1. stop \in 0..(s - 1)
      BY <2>5, <2>7, <1>6
    <3> QED
      BY <3>1, <2>2, <1>2, <1>6, <1>8
  <2> QED
    BY <2>6, <2>7
<1>9. CASE t.slots[at(stop)].flag = "empty" /\ passed # {}
  <2> DEFINE m == Max(passed)
  <2>1. m \in passed
    <3>1. passed \in SUBSET Nat /\ \A y \in passed : y <= stop
      BY <1>6
    <3>2. stop \in Nat
      BY <1>6
    <3> HIDE DEF passed
    <3> QED
      BY <3>1, <3>2, <1>9, MaxIsGreatest
  <2>2. m \in 0..(stop - 1) /\ t.slots[at(m)].flag = "deleted"
    BY <2>1
  <2>3. Site(t, key) = at(m)
    BY <1>9, <1>1 DEF Site
  <2> HIDE DEF m
  <2>4. m \in 0..(n - 1) /\ at(m) \in 0..(n - 1) /\ at(m) \notin Live(t)
    BY <2>2, <1>2, <1>6, <1>7, <1>1 DEF Live
  <2>5. \A r \in 0..(m - 1) : r \in 0..(stop - 1)
    BY <2>2, <1>6
  <2>6. \A r \in 0..(m - 1) : t.slots[ProbeAt(t.hash[key], n, r)].flag # "empty"
    BY <2>5, <1>7, <1>2
  <2> HIDE DEF at, stop, passed
  <2> QED
    BY <2>3, <2>4, <2>6, <1>2, <1>8, <1>9 DEF Leads
<1>10. CASE ~(t.slots[at(stop)].flag = "empty" /\ passed # {})
  <2>1. Site(t, key) = at(stop)
    BY <1>10, <1>1 DEF Site
  <2>2. \A r \in 0..(stop - 1) : t.slots[ProbeAt(t.hash[key], n, r)].flag # "empty"
    BY <1>7, <1>2
  <2>3. at(stop) \in Live(t) <=> t.slots[at(stop)].flag = "live"
    BY <1>1, <1>2, <1>6 DEF Live
  <2> HIDE DEF at, stop, passed
  <2> QED
    BY <2>1, <2>2, <2>3, <1>2, <1>6, <1>8 DEF Leads
<1> QED
  BY <1>9, <1>10

\* The second part of kh_put, which Add does after MakeRoom
Put(u, key, val) ==
  LET x == Site(u, key)
  IN  [u EXCEPT !.slots[x] = Slot("live", key, val),
                !.size     = @ + (IF u.slots[x].flag = "live" THEN 0 ELSE 1),
                !.occupied = @ + (IF u.slots[x].flag = "empty" THEN 1 ELSE 0)]

\* kh_put makes room and writes.
LEMMA AddIsPut == \A t, key, val : Add(t, key, val) = Put(MakeRoom(t), key, val)
BY DEF Add, Put

\* The subsets of the slots are finite.
LEMMA FiniteSlots ==
  ASSUME NEW n \in Nat, NEW S \in SUBSET (0..(n - 1))
  PROVE  IsFiniteSet(S) /\ Cardinality(S) \in Nat /\ Cardinality(S) <= n
<1>1. IsFiniteSet(0..(n - 1)) /\ Cardinality(0..(n - 1)) = IF 0 > n - 1 THEN 0 ELSE (n - 1) - 0 + 1
  BY FS_Interval
<1>2. IsFiniteSet(S) /\ Cardinality(S) <= Cardinality(0..(n - 1))
  BY <1>1, FS_Subset
<1> QED
  BY <1>1, <1>2, FS_CardinalityType

\* What keeps keys in their slots and makes no slot empty keeps them searchable.
LEMMA KeepsSearchable ==
  ASSUME NEW n \in Nat, NEW hash, NEW f, DOMAIN f = 0..(n - 1), Searchable(hash, f, n),
         NEW g, DOMAIN g = 0..(n - 1), LiveIn(g) \subseteq LiveIn(f),
         \A i \in LiveIn(g) : g[i].key = f[i].key /\ hash[f[i].key] \in Nat,
         \A i \in 0..(n - 1) : g[i].flag = "empty" => f[i].flag = "empty"
  PROVE  Searchable(hash, g, n)
<1>1. ASSUME NEW i \in LiveIn(g) PROVE Leads(hash[g[i].key], g, n, i)
  <2>1. i \in LiveIn(f) /\ g[i].key = f[i].key /\ hash[f[i].key] \in Nat /\ n > 0
    BY DEF LiveIn
  <2>2. PICK q \in 0..(n - 1) :
          /\ ProbeAt(hash[f[i].key], n, q) = i
          /\ \A r \in 0..(q - 1) : f[ProbeAt(hash[f[i].key], n, r)].flag # "empty"
    BY <2>1 DEF Searchable, Leads
  <2>3. \A r \in 0..(q - 1) : ProbeAt(hash[f[i].key], n, r) \in 0..(n - 1)
    BY ONLY <2>1, ProbeInRange DEF ProbeAt
  <2>4. \A r \in 0..(q - 1) : g[ProbeAt(hash[f[i].key], n, r)].flag # "empty"
    BY <2>2, <2>3
  <2> QED
    BY <2>1, <2>2, <2>4 DEF Leads
<1>2. \A i, j \in LiveIn(g) : g[i].key = g[j].key => i = j
  BY DEF Searchable
<1> QED
  BY <1>1, <1>2 DEF Searchable

\* u is t with val for key in slot x.
PutAt(t, u, x, K, V, n, key, val) ==
  /\ Good(u, K, V, n)
  /\ u.hash = t.hash
  /\ u.occupied <= t.occupied + 1
  /\ x \in 0..(n - 1)
  /\ x \in Live(t) => t.slots[x].key = key
  /\ x \notin Live(t) => \A i \in Live(t) : t.slots[i].key # key
  /\ Live(u) = Live(t) \cup {x}
  /\ u.slots[x] = Slot("live", key, val)
  /\ \A i \in 0..(n - 1) : i # x => u.slots[i] = t.slots[i]

\* kh_put, when there is room: the key has its slot, and the others keep theirs.
LEMMA PutGood ==
  ASSUME NEW K, NEW V, NEW n, n # 0, NEW t, Good(t, K, V, n), t.occupied < UpperBound(n),
         NEW key \in K, NEW val \in V
  PROVE  PutAt(t, Put(t, key, val), Site(t, key), K, V, n, key, val)
<1> DEFINE x == Site(t, key)
           u == Put(t, key, val)
<1> DEFINE g == [t.slots EXCEPT ![x] = Slot("live", key, val)]
<1>1. /\ x \in 0..(n - 1)
      /\ x \in Live(t) => t.slots[x].key = key
      /\ x \notin Live(t) => \A i \in Live(t) : t.slots[i].key # key
      /\ Leads(t.hash[key], t.slots, n, x)
  BY SiteOfKey
<1>0. u = [t EXCEPT !.slots[x] = Slot("live", key, val),
                    !.size     = @ + (IF t.slots[x].flag = "live" THEN 0 ELSE 1),
                    !.occupied = @ + (IF t.slots[x].flag = "empty" THEN 1 ELSE 0)]
  BY DEF Put
<1> HIDE DEF x, u
<1>2. n \in Nat /\ DOMAIN t.slots = 0..(n - 1) /\ Live(t) = LiveIn(t.slots) /\ n \in Sizes /\ n >= 4
  BY GoodBuckets
<1>3. /\ t.hash \in [K -> Nat] /\ t.slots \in [0..(n - 1) -> SlotSet(K, V)]
      /\ t.size = Cardinality(LiveIn(t.slots)) /\ t.occupied = Cardinality(UsedIn(t.slots))
      /\ t.size \in Nat /\ t.occupied \in Nat
      /\ \A i \in LiveIn(t.slots) : t.slots[i].key \in K /\ t.slots[i].val \in V
      /\ Searchable(t.hash, t.slots, n)
  BY DEF Good
<1>4. g \in [0..(n - 1) -> SlotSet(K, V)] /\ g[x] = Slot("live", key, val)
  BY <1>1, <1>3 DEF SlotSet, Slot, Flags
<1>5. \A i \in 0..(n - 1) : i # x => g[i] = t.slots[i]
  BY <1>3
<1>6. LiveIn(g) = LiveIn(t.slots) \cup {x} /\ UsedIn(g) = UsedIn(t.slots) \cup {x}
  BY <1>1, <1>2, <1>4, <1>5 DEF LiveIn, UsedIn, Slot
<1>7. Searchable(t.hash, g, n)
  <2>1. CASE x \in Live(t)
    <3>1. LiveIn(g) = LiveIn(t.slots)
      BY <2>1, <1>2, <1>6
    <3>2. \A i \in LiveIn(g) : g[i].key = t.slots[i].key /\ t.hash[t.slots[i].key] \in Nat
      BY <3>1, <2>1, <1>1, <1>2, <1>3, <1>4, <1>5 DEF Slot, LiveIn
    <3>3. \A i \in 0..(n - 1) : g[i].flag = "empty" => t.slots[i].flag = "empty"
      BY <1>4, <1>5 DEF Slot
    <3>4. DOMAIN g = 0..(n - 1)
      BY <1>4
    <3> HIDE DEF g
    <3> QED
      BY <3>1, <3>2, <3>3, <3>4, <1>2, <1>3, KeepsSearchable
  <2>2. CASE x \notin Live(t)
    <3>2. t.slots[x].flag # "live"
      BY <2>2, <1>1, <1>2 DEF LiveIn
    <3>3. \A i \in LiveIn(t.slots) : t.slots[i].key # key
      BY <2>2, <1>1, <1>2
    <3>4. \A i \in LiveIn(t.slots) : t.slots[i].key \in K
      BY <1>3
    <3>5. /\ n \in Nat /\ t.hash \in [K -> Nat] /\ t.slots \in [0..(n - 1) -> SlotSet(K, V)]
          /\ Searchable(t.hash, t.slots, n) /\ x \in 0..(n - 1) /\ Leads(t.hash[key], t.slots, n, x)
      BY <1>1, <1>2, <1>3
    <3>6. key \in K /\ val \in V
      OBVIOUS
    <3>7. Written(t.slots, g, n, x, key, val)
      BY <1>1, <1>4, <1>5 DEF Written, Slot
    <3> HIDE DEF g
    <3> QED
      BY ONLY <3>2, <3>3, <3>4, <3>5, <3>6, <3>7, WriteSearchable
  <2> QED
    BY <2>1, <2>2
<1>8. /\ u.hash = t.hash /\ u.slots = g
      /\ u.size = t.size + (IF t.slots[x].flag = "live" THEN 0 ELSE 1)
      /\ u.occupied = t.occupied + (IF t.slots[x].flag = "empty" THEN 1 ELSE 0)
      /\ u \in [hash : [K -> Nat], slots : [0..(n - 1) -> SlotSet(K, V)], size : Nat, occupied : Nat]
  <2>1. t \in [hash : [K -> Nat], slots : [0..(n - 1) -> SlotSet(K, V)], size : Nat, occupied : Nat]
    BY DEF Good
  <2> DEFINE a == t.size + (IF t.slots[x].flag = "live" THEN 0 ELSE 1)
             b == t.occupied + (IF t.slots[x].flag = "empty" THEN 1 ELSE 0)
  <2>2. u = [hash |-> t.hash, slots |-> g, size |-> a, occupied |-> b]
    BY <2>1, <1>0
  <2>3. a \in Nat /\ b \in Nat
    BY <1>3
  <2> HIDE DEF g, a, b
  <2>4. u \in [hash : [K -> Nat], slots : [0..(n - 1) -> SlotSet(K, V)], size : Nat, occupied : Nat]
    BY <2>2, <2>3, <1>3, <1>4
  <2>5. u.hash = t.hash /\ u.slots = g /\ u.size = a /\ u.occupied = b
    BY <2>2
  <2> QED
    BY <2>4, <2>5 DEF a, b
<1>9. u.size = Cardinality(LiveIn(g)) /\ u.occupied = Cardinality(UsedIn(g))
  <2>1. LiveIn(t.slots) \in SUBSET (0..(n - 1)) /\ UsedIn(t.slots) \in SUBSET (0..(n - 1))
    BY <1>2 DEF LiveIn, UsedIn
  <2>2. IsFiniteSet(LiveIn(t.slots)) /\ IsFiniteSet(UsedIn(t.slots))
    BY <2>1, <1>2, FiniteSlots
  <2>3. x \in LiveIn(t.slots) <=> t.slots[x].flag = "live"
    BY <1>1, <1>2 DEF LiveIn
  <2>4. x \in UsedIn(t.slots) <=> t.slots[x].flag # "empty"
    BY <1>1, <1>2 DEF UsedIn
  <2>5. Cardinality(LiveIn(t.slots) \cup {x}) =
          IF x \in LiveIn(t.slots) THEN Cardinality(LiveIn(t.slots)) ELSE Cardinality(LiveIn(t.slots)) + 1
    BY <2>2, FS_AddElement
  <2>6. Cardinality(UsedIn(t.slots) \cup {x}) =
          IF x \in UsedIn(t.slots) THEN Cardinality(UsedIn(t.slots)) ELSE Cardinality(UsedIn(t.slots)) + 1
    BY <2>2, FS_AddElement
  <2> HIDE DEF g
  <2>7. u.size = Cardinality(LiveIn(g))
    BY <2>3, <2>5, <1>3, <1>6, <1>8
  <2>8. u.occupied = Cardinality(UsedIn(g))
    BY <2>4, <2>6, <1>3, <1>6, <1>8
  <2> QED
    BY <2>7, <2>8
<1>10. u.occupied <= UpperBound(n) /\ u.occupied <= t.occupied + 1
  BY <1>2, <1>3, <1>8, UpperBoundBelow
<1>11. \A i \in LiveIn(g) : g[i].key \in K /\ g[i].val \in V
  BY <1>1, <1>3, <1>4, <1>5, <1>6, <1>2 DEF LiveIn, Slot
<1>12. Good(u, K, V, n)
  BY <1>2, <1>7, <1>8, <1>9, <1>10, <1>11 DEF Good
<1>13. Live(u) = LiveIn(g)
  BY <1>8 DEF Live, LiveIn
<1>14. PutAt(t, u, x, K, V, n, key, val)
  BY <1>1, <1>2, <1>4, <1>5, <1>6, <1>8, <1>10, <1>12, <1>13 DEF PutAt
<1> QED
  BY <1>14 DEF x, u

\* kh_del: an entry goes, and the others keep their slots.
LEMMA DelGood ==
  ASSUME NEW K, NEW V, NEW n, NEW t, Good(t, K, V, n), NEW x, NEW u, u = Del(t, x)
  PROVE  /\ Good(u, K, V, n)
         /\ u.hash = t.hash /\ u.occupied = t.occupied
         /\ Live(u) = Live(t) \ {x}
         /\ \A i \in Live(u) : u.slots[i] = t.slots[i]
<1> DEFINE g == [t.slots EXCEPT ![x].flag = "deleted"]
<1>1. CASE x \notin Live(t)
  BY <1>1 DEF Del
<1>2. CASE x \in Live(t)
  <2>1. /\ n \in Nat /\ DOMAIN t.slots = 0..(n - 1) /\ Live(t) = LiveIn(t.slots) /\ n \in Sizes
        /\ x \in 0..(n - 1)
    BY <1>2, GoodBuckets
  <2>2. /\ t.hash \in [K -> Nat] /\ t.slots \in [0..(n - 1) -> SlotSet(K, V)]
        /\ t.size = Cardinality(LiveIn(t.slots)) /\ t.occupied = Cardinality(UsedIn(t.slots))
        /\ t.size \in Nat /\ t.occupied \in Nat
        /\ \A i \in LiveIn(t.slots) : t.slots[i].key \in K /\ t.slots[i].val \in V
        /\ Searchable(t.hash, t.slots, n)
    BY DEF Good
  <2>3. /\ g \in [0..(n - 1) -> SlotSet(K, V)] /\ g[x].flag = "deleted" /\ t.slots[x].flag = "live"
        /\ \A i \in 0..(n - 1) : i # x => g[i] = t.slots[i]
    <3>1. t.slots[x] \in SlotSet(K, V) /\ t.slots[x].flag = "live"
      BY <1>2, <2>1, <2>2 DEF LiveIn
    <3>2. [t.slots[x] EXCEPT !.flag = "deleted"] \in SlotSet(K, V)
      BY <3>1 DEF SlotSet, Flags
    <3> QED
      BY <3>1, <3>2, <2>1, <2>2 DEF SlotSet
  <2>4. LiveIn(g) = LiveIn(t.slots) \ {x} /\ UsedIn(g) = UsedIn(t.slots) /\ DOMAIN g = 0..(n - 1)
    BY <2>1, <2>3 DEF LiveIn, UsedIn
  <2>5. /\ u.hash = t.hash /\ u.slots = g /\ u.size = t.size - 1 /\ u.occupied = t.occupied
        /\ t.size - 1 \in Nat =>
             u \in [hash : [K -> Nat], slots : [0..(n - 1) -> SlotSet(K, V)], size : Nat, occupied : Nat]
    <3>1. t \in [hash : [K -> Nat], slots : [0..(n - 1) -> SlotSet(K, V)], size : Nat, occupied : Nat]
      BY DEF Good
    <3>2. u = [t EXCEPT !.slots = g, !.size = @ - 1]
      BY <1>2, <3>1 DEF Del
    <3> HIDE DEF g
    <3> QED
      BY <3>1, <3>2, <2>3
  <2>6. u.size = Cardinality(LiveIn(g)) /\ t.size - 1 \in Nat
    <3>1. LiveIn(t.slots) \in SUBSET (0..(n - 1)) /\ LiveIn(g) \in SUBSET (0..(n - 1))
      BY <2>1, <2>4 DEF LiveIn
    <3>2. IsFiniteSet(LiveIn(t.slots)) /\ Cardinality(LiveIn(g)) \in Nat
      BY <3>1, <2>1, FiniteSlots
    <3>3. Cardinality(LiveIn(t.slots) \ {x}) = Cardinality(LiveIn(t.slots)) - 1
      <4>1. x \in LiveIn(t.slots)
        BY <1>2, <2>1
      <4>2. Cardinality(LiveIn(t.slots) \ {x}) =
              IF x \in LiveIn(t.slots) THEN Cardinality(LiveIn(t.slots)) - 1 ELSE Cardinality(LiveIn(t.slots))
        BY <3>2, FS_RemoveElement
      <4> QED
        BY <4>1, <4>2
    <3> QED
      BY <3>2, <3>3, <2>2, <2>4, <2>5
  <2>7. Searchable(t.hash, g, n)
    <3>1. LiveIn(g) \subseteq LiveIn(t.slots)
      BY <2>4
    <3>2. \A i \in LiveIn(g) : g[i].key = t.slots[i].key /\ t.hash[t.slots[i].key] \in Nat
      BY <2>1, <2>2, <2>3, <2>4 DEF LiveIn
    <3>3. \A i \in 0..(n - 1) : g[i].flag = "empty" => t.slots[i].flag = "empty"
      BY <2>3
    <3> HIDE DEF g
    <3> QED
      BY <3>1, <3>2, <3>3, <2>1, <2>2, <2>4, KeepsSearchable
  <2>8. \A i \in LiveIn(g) : g[i] = t.slots[i] /\ g[i].key \in K /\ g[i].val \in V
    BY <2>1, <2>2, <2>3, <2>4 DEF LiveIn
  <2>9. t.occupied <= UpperBound(n)
    BY DEF Good
  <2> HIDE DEF g
  <2>10. Good(u, K, V, n)
    BY <2>1, <2>2, <2>4, <2>5, <2>6, <2>7, <2>8, <2>9 DEF Good
  <2>11. Live(u) = LiveIn(g)
    BY <2>5 DEF Live, LiveIn
  <2> QED
    BY <2>1, <2>4, <2>5, <2>8, <2>10, <2>11
<1> QED
  BY <1>1, <1>2

\* kh_init
LEMMA EmptyGood ==
  ASSUME NEW K, NEW V, NEW hash \in [K -> Nat]
  PROVE  Good(EmptyMap(hash), K, V, 0) /\ Live(EmptyMap(hash)) = {} /\ EmptyMap(hash).hash = hash
<1> DEFINE t == EmptyMap(hash)
<1>1. t.slots = <<>> /\ t.hash = hash /\ t.size = 0 /\ t.occupied = 0
  BY DEF EmptyMap
<1>2. 0..(0 - 1) = {} /\ DOMAIN <<>> = {}
  OBVIOUS
<1>3. t.slots \in [0..(0 - 1) -> SlotSet(K, V)]
  BY <1>1, <1>2
<1>4. LiveIn(t.slots) = {} /\ UsedIn(t.slots) = {} /\ Live(t) = {}
  BY <1>1, <1>2 DEF LiveIn, UsedIn, Live
<1>5. t \in [hash : [K -> Nat], slots : [0..(0 - 1) -> SlotSet(K, V)], size : Nat, occupied : Nat]
  BY <1>1, <1>3 DEF EmptyMap
<1>6. UpperBound(0) = 0 /\ 0 \in Sizes
  BY DEF UpperBound, Sizes
<1>7. Cardinality({}) = 0
  BY FS_EmptySet
<1>8. Searchable(t.hash, t.slots, 0)
  BY <1>4 DEF Searchable
<1>9. t.size = Cardinality(LiveIn(t.slots)) /\ t.occupied = Cardinality(UsedIn(t.slots))
  BY <1>1, <1>4, <1>7
<1>10. t.occupied <= UpperBound(0)
  BY <1>1, <1>6
<1> HIDE DEF t
<1>11. Good(t, K, V, 0)
  BY <1>4, <1>5, <1>6, <1>8, <1>9, <1>10 DEF Good
<1> QED
  BY <1>1, <1>4, <1>11 DEF t

---------------------------------------------------------------------------
(* kh_resize *)

\* f holds what kh_resize has after each of its first k moves.
Chain(t, n, f, k) == f = [j \in 0..k |-> IF j = 0 THEN Moving(t, n) ELSE Place(f[j - 1], n)]

\* There is one for every number of moves.
LEMMA ChainExists ==
  ASSUME NEW t, NEW n, NEW k \in Nat
  PROVE  \E f : Chain(t, n, f, k)
<1> DEFINE S == {j \in Nat : \E f : Chain(t, n, f, j)}
<1>1. 0 \in S
  <2> DEFINE f == [j \in 0..0 |-> Moving(t, n)]
  <2>1. f = [j \in 0..0 |-> IF j = 0 THEN Moving(t, n) ELSE Place(f[j - 1], n)]
    OBVIOUS
  <2>2. Chain(t, n, f, 0)
    BY <2>1 DEF Chain
  <2> QED
    BY <2>2
<1>2. ASSUME NEW j \in Nat, j \in S PROVE j + 1 \in S
  <2>1. PICK f : Chain(t, n, f, j)
    BY <1>2
  <2> DEFINE g == [i \in 0..(j + 1) |-> IF i = j + 1 THEN Place(f[j], n) ELSE f[i]]
  <2>2. \A i \in 0..j : f[i] = IF i = 0 THEN Moving(t, n) ELSE Place(f[i - 1], n)
    BY <2>1 DEF Chain
  <2>3. ASSUME NEW i \in 0..(j + 1)
        PROVE  g[i] = IF i = 0 THEN Moving(t, n) ELSE Place(g[i - 1], n)
    BY <2>2
  <2>4. g = [i \in 0..(j + 1) |-> g[i]]
    OBVIOUS
  <2> HIDE DEF g
  <2>5. g = [i \in 0..(j + 1) |-> IF i = 0 THEN Moving(t, n) ELSE Place(g[i - 1], n)]
    BY <2>3, <2>4
  <2>6. Chain(t, n, g, j + 1)
    BY <2>5 DEF Chain
  <2> QED
    BY <2>6
<1>3. Nat \subseteq S
  <2> HIDE DEF S
  <2> QED
    BY <1>1, <1>2, NatSetInduction
<1> QED
  BY <1>3

\* The recursive function of Rehash is what it says.
LEMMA RehashIsChain ==
  ASSUME NEW t, NEW n, t.size \in Nat
  PROVE  \E f : /\ Chain(t, n, f, t.size)
                /\ Rehash(t, n) = [t EXCEPT !.slots = f[t.size].new, !.occupied = t.size]
<1> DEFINE moved[k \in 0..t.size] == IF k = 0 THEN Moving(t, n) ELSE Place(moved[k - 1], n)
<1>1. moved = CHOOSE f : Chain(t, n, f, t.size)
  BY DEF Chain
<1>2. Chain(t, n, moved, t.size)
  <2> HIDE DEF moved
  <2> QED
    BY <1>1, ChainExists
<1>3. Rehash(t, n) = [t EXCEPT !.slots = moved[t.size].new, !.occupied = t.size]
  BY DEF Rehash
<1> QED
  BY <1>2, <1>3

\* The entries that are not in their new slots: in the old ones, or in the hand (at -1)
Waiting(m) == Unmoved(m) \cup (IF m.hand = <<>> THEN {} ELSE {-1})
Item(m, i) == IF i = -1 THEN m.hand[1] ELSE m.new[i]
Carried(m) == LiveIn(m.new) \cup Waiting(m)

\* What kh_resize works on, from b slots to n
Moves(hash, K, V, b, n) ==
  [hash : {hash}, old : [0..(b - 1) -> Flags], new : [0..(n - 1) -> SlotSet(K, V)],
   hand : {<<>>} \cup {<<e>> : e \in SlotSet(K, V)}]

\* What the loop of kh_resize keeps true: from b slots to n, after k moves
Carries(t, K, V, b, n, m, k) ==
  /\ m \in Moves(t.hash, K, V, b, n)
  /\ \A i \in 0..(n - 1) : m.new[i].flag # "deleted"
  /\ \A i \in Unmoved(m) : m.new[i].flag = "empty"
  /\ \A i \in Carried(m) : Item(m, i).key \in K /\ Item(m, i).val \in V
  /\ \A i, j \in Carried(m) : Item(m, i).key = Item(m, j).key => i = j
  /\ {<<Item(m, i).key, Item(m, i).val>> : i \in Carried(m)} = Entries(t)
  /\ Searchable(t.hash, m.new, n)
  /\ Cardinality(LiveIn(m.new)) = k
  /\ Cardinality(Waiting(m)) = t.size - k

\* What kh_resize makes of the flag of a slot
LEMMA EmptiedSlot ==
  ASSUME NEW K, NEW V, NEW e \in SlotSet(K, V)
  PROVE  /\ [e EXCEPT !.flag = "empty"] \in SlotSet(K, V)
         /\ [e EXCEPT !.flag = "empty"].flag = "empty"
         /\ [e EXCEPT !.flag = "empty"].key = e.key
         /\ [e EXCEPT !.flag = "empty"].val = e.val
BY DEF SlotSet, Flags

\* The first move starts from the entries where they are.
LEMMA MovingCarries ==
  ASSUME NEW K, NEW V, NEW b, NEW t, Good(t, K, V, b), NEW n \in Nat, b <= n
  PROVE  Carries(t, K, V, b, n, Moving(t, n), 0)
<1> DEFINE m == Moving(t, n)
<1>1. /\ b \in Nat /\ DOMAIN t.slots = 0..(b - 1) /\ Live(t) = LiveIn(t.slots)
      /\ Live(t) \subseteq 0..(b - 1)
  BY GoodBuckets
<1>2. /\ t.hash \in [K -> Nat] /\ t.slots \in [0..(b - 1) -> SlotSet(K, V)]
      /\ t.size = Cardinality(LiveIn(t.slots)) /\ t.size \in Nat
      /\ \A i \in LiveIn(t.slots) : t.slots[i].key \in K /\ t.slots[i].val \in V
      /\ \A i, j \in LiveIn(t.slots) : t.slots[i].key = t.slots[j].key => i = j
  BY DEF Good, Searchable
<1>3. /\ m = [hash |-> m.hash, old |-> m.old, new |-> m.new, hand |-> m.hand]
      /\ m.hash = t.hash /\ m.hand = <<>>
      /\ m.old = [i \in 0..(b - 1) |-> t.slots[i].flag]
      /\ m.new = [i \in 0..(n - 1) |-> IF i \in 0..(b - 1) THEN [t.slots[i] EXCEPT !.flag = "empty"]
                                       ELSE Unwritten]
  BY <1>1 DEF Moving
<1>4. m.old \in [0..(b - 1) -> Flags]
  BY <1>2, <1>3 DEF SlotSet
<1>5. \A i \in 0..(b - 1) : /\ [t.slots[i] EXCEPT !.flag = "empty"] \in SlotSet(K, V)
                            /\ [t.slots[i] EXCEPT !.flag = "empty"].flag = "empty"
                            /\ [t.slots[i] EXCEPT !.flag = "empty"].key = t.slots[i].key
                            /\ [t.slots[i] EXCEPT !.flag = "empty"].val = t.slots[i].val
  <2>1. \A i \in 0..(b - 1) : t.slots[i] \in SlotSet(K, V)
    BY <1>2
  <2> QED
    BY ONLY <2>1, EmptiedSlot
<1>6. Unwritten \in SlotSet(K, V) /\ Unwritten.flag = "empty"
  BY DEF Unwritten, Slot, SlotSet, Flags
<1>7. m.new \in [0..(n - 1) -> SlotSet(K, V)] /\ \A i \in 0..(n - 1) : m.new[i].flag = "empty"
  BY <1>3, <1>5, <1>6
<1> HIDE DEF m
<1>8. LiveIn(m.new) = {}
  BY <1>7 DEF LiveIn
<1>9. Unmoved(m) = Live(t) /\ Waiting(m) = Live(t) /\ Carried(m) = Live(t)
  <2>1. Unmoved(m) = Live(t)
    BY <1>1, <1>3 DEF Unmoved, LiveIn
  <2> QED
    BY <2>1, <1>3, <1>8 DEF Waiting, Carried
<1>10. \A i \in Live(t) : i \in 0..(b - 1) /\ i \in 0..(n - 1) /\ i # -1
  BY <1>1
<1>11. ASSUME NEW i \in Live(t)
       PROVE  Item(m, i).key = t.slots[i].key /\ Item(m, i).val = t.slots[i].val
  <2>1. Item(m, i) = [t.slots[i] EXCEPT !.flag = "empty"]
    BY <1>3, <1>10 DEF Item
  <2> QED
    BY <2>1, <1>5, <1>10
<1>12. {<<Item(m, i).key, Item(m, i).val>> : i \in Carried(m)} = Entries(t)
  BY <1>9, <1>11 DEF Entries
<1>13. Searchable(t.hash, m.new, n)
  BY <1>8 DEF Searchable
<1>14. Cardinality({}) = 0
  BY FS_EmptySet
<1>15. \A i \in Carried(m) : Item(m, i).key \in K /\ Item(m, i).val \in V
  BY <1>1, <1>2, <1>9, <1>11
<1>16. \A i, j \in Carried(m) : Item(m, i).key = Item(m, j).key => i = j
  BY <1>1, <1>2, <1>9, <1>11
<1>17. Cardinality(LiveIn(m.new)) = 0 /\ Cardinality(Waiting(m)) = t.size - 0
  BY <1>1, <1>2, <1>8, <1>9, <1>14
<1>18. /\ \A i \in 0..(n - 1) : m.new[i].flag # "deleted"
       /\ \A i \in Unmoved(m) : m.new[i].flag = "empty"
  BY <1>7, <1>9, <1>10
<1>19. m \in Moves(t.hash, K, V, b, n)
  BY <1>3, <1>4, <1>7 DEF Moves
<1>20. Carries(t, K, V, b, n, m, 0)
  BY <1>12, <1>13, <1>15, <1>16, <1>17, <1>18, <1>19 DEF Carries
<1> QED
  BY <1>20 DEF m

\* The entry that is moved, and where it goes
From(m) == IF m.hand = <<>> THEN Min(Unmoved(m)) ELSE -1
To(m, n) ==
  Probe(m, n, Item(m, From(m)).key,
        Min({s \in 0..(n - 1) : m.new[Probe(m, n, Item(m, From(m)).key, s)].flag = "empty"}))

Moved(m, w, from, to, e) ==
  /\ from \in Waiting(m)
  /\ w = [m EXCEPT !.old  = [i \in DOMAIN m.old |-> IF i \in {from, to} THEN "deleted" ELSE m.old[i]],
                   !.new  = [m.new EXCEPT ![to] = Slot("live", e.key, e.val)],
                   !.hand = IF to \in Unmoved(m) \ {from} THEN <<m.new[to]>> ELSE <<>>]

\* A move, by the parts of what kh_resize works on
LEMMA PlaceIs ==
  ASSUME NEW m, NEW n, Unmoved(m) \subseteq Nat, Waiting(m) # {}
  PROVE  Moved(m, Place(m, n), From(m), To(m, n), Item(m, From(m)))
<1> DEFINE from == From(m)
           to == To(m, n)
           e == Item(m, from)
           w == Place(m, n)
<1>1. from \in Waiting(m)
  <2>1. CASE m.hand = <<>>
    <3>1. Waiting(m) = Unmoved(m) /\ From(m) = Min(Unmoved(m))
      BY <2>1 DEF Waiting, From
    <3> QED
      BY <3>1, MinIsLeast
  <2>2. CASE m.hand # <<>>
    BY <2>2 DEF Waiting, From
  <2> QED
    BY <2>1, <2>2
<1>2. m.hand = <<>> => from # -1
  <2>1. m.hand = <<>> => from \in Unmoved(m)
    BY <1>1 DEF Waiting
  <2> QED
    BY <2>1
<1>3. (IF m.hand = <<>> THEN m.new[from] ELSE m.hand[1]) = e
  BY <1>2 DEF Item, From
<1>4. w = [m EXCEPT !.old = [i \in DOMAIN @ |-> IF i \in {from, to} THEN "deleted" ELSE @[i]],
                    !.new[to] = Slot("live", e.key, e.val),
                    !.hand = IF to \in Unmoved(m) \ {from} THEN <<m.new[to]>> ELSE <<>>]
  BY <1>3 DEF Place, From, To
<1> HIDE DEF from, to, e, w
<1>5. Moved(m, w, from, to, e)
  BY <1>1, <1>4 DEF Moved
<1> QED
  BY <1>5 DEF from, to, e, w

\* What a move does to each of them
LEMMA MovedParts ==
  ASSUME NEW m, NEW n, NEW hash, NEW K, NEW V, NEW b, m \in Moves(hash, K, V, b, n),
         NEW from, NEW to, NEW e, NEW w, Moved(m, w, from, to, e), to \in 0..(n - 1),
         e.key \in K, e.val \in V
  PROVE  /\ w \in Moves(hash, K, V, b, n)
         /\ Unmoved(w) = Unmoved(m) \ {from, to}
         /\ Written(m.new, w.new, n, to, e.key, e.val)
         /\ to \in Unmoved(m) \ {from} => w.hand = <<m.new[to]>>
         /\ to \notin Unmoved(m) \ {from} => w.hand = <<>>
<1> DEFINE old  == [i \in DOMAIN m.old |-> IF i \in {from, to} THEN "deleted" ELSE m.old[i]]
           new  == [m.new EXCEPT ![to] = Slot("live", e.key, e.val)]
           hand == IF to \in Unmoved(m) \ {from} THEN <<m.new[to]>> ELSE <<>>
<1>1. w = [m EXCEPT !.old = old, !.new = new, !.hand = hand]
  BY DEF Moved
<1>2. old \in [0..(b - 1) -> Flags] /\ DOMAIN m.old = 0..(b - 1)
  BY DEF Flags, Moves
<1>3. new \in [0..(n - 1) -> SlotSet(K, V)]
  <2>1. Slot("live", e.key, e.val) \in SlotSet(K, V)
    BY DEF Slot, SlotSet, Flags
  <2> QED
    BY <2>1 DEF Moves
<1>4. hand \in {<<>>} \cup {<<s>> : s \in SlotSet(K, V)}
  <2>1. m.new[to] \in SlotSet(K, V)
    BY DEF Moves
  <2> QED
    BY <2>1
<1> HIDE DEF old, new, hand
<1>5. w.old = old /\ w.new = new /\ w.hand = hand
  BY <1>1 DEF Moves
<1>6. w \in Moves(hash, K, V, b, n)
  BY <1>1, <1>2, <1>3, <1>4 DEF Moves
<1>7. Written(m.new, w.new, n, to, e.key, e.val)
  <2>1. m.new \in [0..(n - 1) -> SlotSet(K, V)]
    BY DEF Moves
  <2>2. /\ DOMAIN new = 0..(n - 1) /\ new[to] = Slot("live", e.key, e.val)
        /\ \A i \in 0..(n - 1) : i # to => new[i] = m.new[i]
    BY <2>1 DEF new
  <2> QED
    BY <2>2, <1>5 DEF Written, Slot
<1>8. Unmoved(w) = Unmoved(m) \ {from, to}
  BY <1>2, <1>5 DEF old, Unmoved
<1> QED
  BY <1>5, <1>6, <1>7, <1>8 DEF hand

\* The first empty slot on the way of a key, which there is
LEMMA FirstEmpty ==
  ASSUME NEW n \in Pow2, NEW h \in Nat, NEW f, DOMAIN f = 0..(n - 1), Cardinality(UsedIn(f)) < n,
         NEW s, s = Min({q \in 0..(n - 1) : f[ProbeAt(h, n, q)].flag = "empty"})
  PROVE  /\ ProbeAt(h, n, s) \in 0..(n - 1)
         /\ f[ProbeAt(h, n, s)].flag = "empty"
         /\ Leads(h, f, n, ProbeAt(h, n, s))
<1> DEFINE S == {q \in 0..(n - 1) : f[ProbeAt(h, n, q)].flag = "empty"}
<1>1. n \in Nat /\ n > 0
  BY Pow2Positive
<1>2. PICK i \in 0..(n - 1) : f[i].flag = "empty"
  BY <1>1, SomeEmpty
<1>3. PICK q \in 0..(n - 1) : ProbeAt(h, n, q) = i
  BY ProbeOnto
<1>4. q \in S /\ S \in SUBSET Nat
  BY <1>1, <1>2, <1>3
<1>5. s \in S /\ \A r \in S : s <= r
  <2> HIDE DEF S
  <2>1. s = Min(S)
    BY DEF S
  <2>2. S \in SUBSET Nat /\ S # {}
    BY <1>4
  <2>3. Min(S) \in S /\ \A r \in S : Min(S) <= r
    BY <2>2, MinIsLeast
  <2> QED
    BY <2>1, <2>3
<1>6. s \in 0..(n - 1) /\ f[ProbeAt(h, n, s)].flag = "empty"
  BY <1>5
<1>7. \A r \in 0..(s - 1) : f[ProbeAt(h, n, r)].flag # "empty"
  <2> SUFFICES ASSUME NEW r \in 0..(s - 1), f[ProbeAt(h, n, r)].flag = "empty" PROVE FALSE
    OBVIOUS
  <2>1. r \in S
    BY <1>6, <1>1
  <2>2. s <= r
    BY <2>1, <1>5
  <2> QED
    BY <2>2, <1>6, <1>1
<1>8. ProbeAt(h, n, s) \in 0..(n - 1)
  <2>1. s \in Nat
    BY <1>1, <1>6
  <2> QED
    BY <2>1, <1>1, ProbeInRange
<1> QED
  BY <1>6, <1>7, <1>8 DEF Leads

\* A move of kh_resize: the entry in hand, or the next one, is placed in its new slot.
LEMMA PlaceCarries ==
  ASSUME NEW K, NEW V, NEW t, t.hash \in [K -> Nat], t.size \in Nat,
         NEW b \in Nat, NEW n \in Pow2, b <= n, t.size < n,
         NEW k \in Nat, k < t.size, NEW m, Carries(t, K, V, b, n, m, k),
         NEW w, w = Place(m, n)
  PROVE  Carries(t, K, V, b, n, w, k + 1)
<1> DEFINE from == From(m)
           to   == To(m, n)
           e    == Item(m, from)
<1>1. n \in Nat /\ n > 0
  BY Pow2Positive
<1>2. /\ m \in Moves(t.hash, K, V, b, n)
      /\ m.hash = t.hash
      /\ m.old \in [0..(b - 1) -> Flags] /\ DOMAIN m.old = 0..(b - 1)
      /\ m.new \in [0..(n - 1) -> SlotSet(K, V)] /\ DOMAIN m.new = 0..(n - 1)
  BY DEF Carries, Moves
<1>3. /\ \A i \in 0..(n - 1) : m.new[i].flag # "deleted"
      /\ \A i \in Unmoved(m) : m.new[i].flag = "empty"
      /\ \A i \in Carried(m) : Item(m, i).key \in K /\ Item(m, i).val \in V
      /\ \A i, j \in Carried(m) : Item(m, i).key = Item(m, j).key => i = j
      /\ {<<Item(m, i).key, Item(m, i).val>> : i \in Carried(m)} = Entries(t)
      /\ Searchable(t.hash, m.new, n)
      /\ Cardinality(LiveIn(m.new)) = k
      /\ Cardinality(Waiting(m)) = t.size - k
  BY DEF Carries
<1>4. Unmoved(m) \subseteq 0..(b - 1) /\ Unmoved(m) \subseteq 0..(n - 1) /\ Unmoved(m) \subseteq Nat
  BY <1>1, <1>2 DEF Unmoved
<1>5. Waiting(m) # {}
  <2> SUFFICES ASSUME Waiting(m) = {} PROVE FALSE
    OBVIOUS
  <2>1. Cardinality({}) = 0
    BY FS_EmptySet
  <2>2. t.size - k = 0
    BY <2>1, <1>3
  <2> QED
    BY <2>2
<1>6. Moved(m, w, from, to, e) /\ from \in Waiting(m)
  BY <1>4, <1>5, PlaceIs DEF Moved
<1> HIDE DEF from, e
<1>7. from \in Carried(m) /\ e.key \in K /\ e.val \in V
  BY <1>3, <1>6 DEF Carried, e
<1>8. /\ to \in 0..(n - 1) /\ m.new[to].flag = "empty"
      /\ Leads(t.hash[e.key], m.new, n, to)
  <2>1. UsedIn(m.new) = LiveIn(m.new)
    BY <1>2, <1>3 DEF UsedIn, LiveIn, SlotSet, Flags
  <2>2. Cardinality(UsedIn(m.new)) < n
    BY <2>1, <1>1, <1>3
  <2> DEFINE h == t.hash[e.key]
             s == Min({q \in 0..(n - 1) : m.new[ProbeAt(h, n, q)].flag = "empty"})
  <2>3. to = ProbeAt(h, n, s)
    BY <1>2 DEF To, Probe, ProbeAt, from, e
  <2>4. h \in Nat
    BY <1>7
  <2> HIDE DEF h, to
  <2>5. s = Min({q \in 0..(n - 1) : m.new[ProbeAt(h, n, q)].flag = "empty"})
    OBVIOUS
  <2> HIDE DEF s
  <2>6. /\ ProbeAt(h, n, s) \in 0..(n - 1)
        /\ m.new[ProbeAt(h, n, s)].flag = "empty"
        /\ Leads(h, m.new, n, ProbeAt(h, n, s))
    BY ONLY <2>2, <2>4, <2>5, <1>2, FirstEmpty
  <2> QED
    BY <2>3, <2>6 DEF h
<1> HIDE DEF to
<1>9. /\ w \in Moves(t.hash, K, V, b, n)
      /\ Unmoved(w) = Unmoved(m) \ {from, to}
      /\ Written(m.new, w.new, n, to, e.key, e.val)
      /\ to \in Unmoved(m) \ {from} => w.hand = <<m.new[to]>>
      /\ to \notin Unmoved(m) \ {from} => w.hand = <<>>
  BY ONLY <1>2, <1>6, <1>7, <1>8, MovedParts
<1>10. /\ w.new[to].flag = "live" /\ w.new[to].key = e.key /\ w.new[to].val = e.val
       /\ \A i \in 0..(n - 1) : i # to => w.new[i] = m.new[i]
       /\ DOMAIN w.new = 0..(n - 1)
  BY <1>9 DEF Written
<1>11. LiveIn(w.new) = LiveIn(m.new) \cup {to} /\ to \notin LiveIn(m.new)
  BY <1>2, <1>8, <1>10 DEF LiveIn
<1>13. /\ m.hand = <<>> => from \in Unmoved(m)
       /\ m.hand # <<>> => from = -1
       /\ -1 \notin Unmoved(m) /\ -1 \notin LiveIn(m.new) /\ to # -1
  <2>1. m.hand # <<>> => from = -1
    BY DEF from, From
  <2>2. m.hand = <<>> => from \in Unmoved(m)
    BY <1>6 DEF Waiting
  <2>3. -1 \notin Unmoved(m) /\ -1 \notin LiveIn(m.new) /\ to # -1
    BY <1>1, <1>2, <1>4, <1>8 DEF LiveIn
  <2> QED
    BY <2>1, <2>2, <2>3
<1> DEFINE evicts == to \in Unmoved(m) \ {from}
<1>14. w.hand = <<>> <=> ~evicts
  <2>1. <<m.new[to]>> # <<>>
    OBVIOUS
  <2> QED
    BY <2>1, <1>9
<1>15. Waiting(w) = IF evicts THEN ((Waiting(m) \ {from}) \ {to}) \cup {-1} ELSE Waiting(m) \ {from}
  BY <1>9, <1>13, <1>14 DEF Waiting
<1>16. Cardinality(Waiting(w)) = t.size - (k + 1)
  <2>1. IsFiniteSet(Waiting(m))
    <3>1. IsFiniteSet(Unmoved(m))
      BY <1>4, <1>1, FiniteSlots
    <3>2. IsFiniteSet(Unmoved(m) \cup {-1})
      BY <3>1, FS_AddElement
    <3> QED
      BY <3>1, <3>2 DEF Waiting
  <2> DEFINE A == Waiting(m) \ {from}
  <2>2. IsFiniteSet(A) /\ Cardinality(A) = t.size - (k + 1)
    <3>1. Cardinality(Waiting(m) \ {from}) =
            IF from \in Waiting(m) THEN Cardinality(Waiting(m)) - 1 ELSE Cardinality(Waiting(m))
      BY <2>1, FS_RemoveElement
    <3>2. IsFiniteSet(A)
      BY <2>1, FS_RemoveElement
    <3> QED
      BY <3>1, <3>2, <1>3, <1>6
  <2> DEFINE B == A \ {to}
  <2>3. IsFiniteSet(B) /\ Cardinality(B) = IF to \in A THEN Cardinality(A) - 1 ELSE Cardinality(A)
    BY <2>2, FS_RemoveElement
  <2>4. Cardinality(B \cup {-1}) = IF -1 \in B THEN Cardinality(B) ELSE Cardinality(B) + 1
    BY <2>3, FS_AddElement
  <2>5. -1 \notin B /\ (evicts => to \in A)
    BY <1>13 DEF Waiting
  <2>6. Waiting(w) = IF evicts THEN B \cup {-1} ELSE A
    BY <1>15
  <2> HIDE DEF A, B, evicts
  <2>7. CASE evicts
    BY <2>7, <2>2, <2>3, <2>4, <2>5, <2>6
  <2>8. CASE ~evicts
    BY <2>8, <2>2, <2>6
  <2> QED
    BY <2>7, <2>8
<1>17. Cardinality(LiveIn(w.new)) = k + 1
  <2>1. LiveIn(m.new) \in SUBSET (0..(n - 1))
    BY <1>2 DEF LiveIn
  <2>2. IsFiniteSet(LiveIn(m.new))
    BY <2>1, <1>1, FiniteSlots
  <2>3. Cardinality(LiveIn(m.new) \cup {to}) =
          IF to \in LiveIn(m.new) THEN Cardinality(LiveIn(m.new)) ELSE Cardinality(LiveIn(m.new)) + 1
    BY <2>2, FS_AddElement
  <2> QED
    BY <2>3, <1>3, <1>11
<1> DEFINE back == [i \in Carried(w) |-> IF i = to THEN from ELSE IF i = -1 THEN to ELSE i]
<1>18. Carried(w) = (Carried(m) \ {from, to}) \cup {to} \cup (IF evicts THEN {-1} ELSE {})
  <2>1. Carried(m) \ {from, to} = (LiveIn(m.new) \ {from, to}) \cup ((Waiting(m) \ {from}) \ {to})
    BY DEF Carried
  <2>2. from \notin LiveIn(m.new)
    <3>1. from \in Unmoved(m) \/ from = -1
      BY <1>13
    <3>2. \A i \in LiveIn(m.new) : m.new[i].flag = "live"
      BY DEF LiveIn
    <3> QED
      BY <3>1, <3>2, <1>3, <1>13
  <2>3. CASE evicts
    BY <2>1, <2>2, <2>3, <1>11, <1>15 DEF Carried
  <2>4. CASE ~evicts
    BY <2>1, <2>2, <2>4, <1>11, <1>15 DEF Carried
  <2> QED
    BY <2>3, <2>4
<1>19. ASSUME NEW i \in Carried(w)
       PROVE  back[i] \in Carried(m) /\ Item(w, i).key = Item(m, back[i]).key
                                     /\ Item(w, i).val = Item(m, back[i]).val
  <2>1. CASE i = to
    <3>1. Item(w, i) = w.new[to] /\ back[i] = from
      BY <2>1, <1>13 DEF Item
    <3> QED
      BY <3>1, <1>7, <1>10 DEF e
  <2>2. CASE i # to /\ i = -1
    <3>1. evicts
      <4>1. -1 \in Carried(m) => m.hand # <<>>
        BY <1>13 DEF Carried, Waiting
      <4> QED
        BY <4>1, <2>2, <1>13, <1>18
    <3>2. w.hand = <<m.new[to]>>
      BY <3>1, <1>9
    <3>3. Item(w, i) = m.new[to]
      BY <3>2, <2>2 DEF Item
    <3>4. Item(m, to) = m.new[to] /\ to \in Carried(m) /\ back[i] = to
      BY <3>1, <2>2, <1>13 DEF Item, Carried, Waiting
    <3> QED
      BY <3>3, <3>4
  <2>3. CASE i # to /\ i # -1
    <3>1. i \in Carried(m) /\ back[i] = i
      BY <2>3, <1>18
    <3>2. i \in 0..(n - 1)
      BY <3>1, <2>3, <1>2, <1>4 DEF Carried, Waiting, LiveIn
    <3>3. Item(w, i) = Item(m, i)
      BY <3>2, <2>3, <1>10 DEF Item
    <3> QED
      BY <3>1, <3>3
  <2> QED
    BY <2>1, <2>2, <2>3
<1>20. \A i, j \in Carried(w) : back[i] = back[j] => i = j
  <2>1. \A i \in Carried(w) : i # to /\ i # -1 => i # from /\ i # to
    BY <1>18
  <2>2. -1 \in Carried(w) => evicts
    <3>1. -1 \in Carried(m) => m.hand # <<>>
      BY <1>13 DEF Carried, Waiting
    <3> QED
      BY <3>1, <1>13, <1>18
  <2> QED
    BY <2>1, <2>2, <1>13
<1>21. \A j \in Carried(m) : \E i \in Carried(w) : back[i] = j
  <2> SUFFICES ASSUME NEW j \in Carried(m) PROVE \E i \in Carried(w) : back[i] = j
    OBVIOUS
  <2>1. CASE j = from
    <3>1. to \in Carried(w) /\ back[to] = j
      BY <2>1, <1>18
    <3> QED
      BY <3>1
  <2>2. CASE j # from /\ j = to
    <3>1. evicts
      BY <2>2, <1>11, <1>13 DEF Carried, Waiting
    <3>2. -1 \in Carried(w) /\ back[-1] = j
      BY <3>1, <2>2, <1>13, <1>18
    <3> QED
      BY <3>2
  <2>3. CASE j # from /\ j # to
    <3>1. j \in Carried(w)
      BY <2>3, <1>18
    <3>2. j # -1
      BY <2>3, <1>13 DEF Carried, Waiting
    <3>3. back[j] = j
      BY <3>1, <3>2, <2>3
    <3> QED
      BY <3>1, <3>3
  <2> QED
    BY <2>1, <2>2, <2>3
<1> HIDE DEF back
<1>22. /\ \A i \in Carried(w) : Item(w, i).key \in K /\ Item(w, i).val \in V
       /\ \A i, j \in Carried(w) : Item(w, i).key = Item(w, j).key => i = j
  BY <1>3, <1>19, <1>20
<1>23. {<<Item(w, i).key, Item(w, i).val>> : i \in Carried(w)} = Entries(t)
  <2>1. {<<Item(w, i).key, Item(w, i).val>> : i \in Carried(w)}
          = {<<Item(m, i).key, Item(m, i).val>> : i \in Carried(m)}
    BY <1>19, <1>21
  <2> QED
    BY <2>1, <1>3
<1>24. Searchable(t.hash, w.new, n)
  <2>1. ASSUME NEW i \in LiveIn(m.new) PROVE m.new[i].key \in K /\ m.new[i].key # e.key
    <3>1. i \in Carried(m) /\ i # -1 /\ m.new[i].flag = "live"
      BY <1>13 DEF Carried, LiveIn
    <3>2. Item(m, i) = m.new[i]
      BY <3>1 DEF Item
    <3>3. i # from
      <4>1. from \in Unmoved(m) \/ from = -1
        BY <1>13
      <4> QED
        BY <4>1, <3>1, <1>3
    <3> QED
      BY <3>1, <3>2, <3>3, <1>3, <1>7 DEF e
  <2>2. m.new[to].flag # "live"
    BY <1>8
  <2>3. Searchable(t.hash, m.new, n) /\ t.hash \in [K -> Nat]
    BY <1>3
  <2>4. Written(m.new, w.new, n, to, e.key, e.val)
    BY <1>9
  <2> QED
    BY ONLY <2>1, <2>2, <2>3, <2>4, <1>1, <1>2, <1>7, <1>8, WriteSearchable
<1>25. /\ \A i \in 0..(n - 1) : w.new[i].flag # "deleted"
       /\ \A i \in Unmoved(w) : w.new[i].flag = "empty"
  BY <1>3, <1>4, <1>9, <1>10
<1> QED
  BY <1>9, <1>16, <1>17, <1>22, <1>23, <1>24, <1>25 DEF Carries

\* kh_resize, to as many slots or more: it moves the entries and loses none.
LEMMA RehashGood ==
  ASSUME NEW K, NEW V, NEW b, NEW t, Good(t, K, V, b),
         NEW n \in Pow2, n >= 4, b <= n, t.size < UpperBound(n)
  PROVE  /\ Good(Rehash(t, n), K, V, n)
         /\ Rehash(t, n).hash = t.hash
         /\ Rehash(t, n).size = t.size
         /\ Rehash(t, n).occupied = t.size
         /\ Entries(Rehash(t, n)) = Entries(t)
<1>1. /\ n \in Nat /\ n \in Sizes /\ b \in Nat
      /\ t.hash \in [K -> Nat] /\ t.size \in Nat
      /\ t \in [hash : [K -> Nat], slots : [0..(b - 1) -> SlotSet(K, V)], size : Nat, occupied : Nat]
  BY Pow2Positive, GoodBuckets DEF Good, Sizes
<1>2. t.size < n
  BY <1>1, UpperBoundBelow
<1>3. PICK f : /\ Chain(t, n, f, t.size)
               /\ Rehash(t, n) = [t EXCEPT !.slots = f[t.size].new, !.occupied = t.size]
  BY <1>1, RehashIsChain
<1> DEFINE S == {k \in Nat : k <= t.size => Carries(t, K, V, b, n, f[k], k)}
<1>4. 0 \in S
  <2>1. f[0] = Moving(t, n)
    BY <1>1, <1>3 DEF Chain
  <2>2. Carries(t, K, V, b, n, Moving(t, n), 0)
    BY <1>1, MovingCarries
  <2> QED
    BY <2>1, <2>2
<1>5. ASSUME NEW k \in Nat, k \in S PROVE k + 1 \in S
  <2> SUFFICES ASSUME k + 1 <= t.size PROVE Carries(t, K, V, b, n, f[k + 1], k + 1)
    OBVIOUS
  <2>1. f[k + 1] = Place(f[k], n)
    <3>1. \A j \in 0..t.size : f[j] = IF j = 0 THEN Moving(t, n) ELSE Place(f[j - 1], n)
      BY <1>3 DEF Chain
    <3>2. k + 1 \in 0..t.size /\ k + 1 # 0 /\ (k + 1) - 1 = k
      BY <1>1
    <3> QED
      BY <3>1, <3>2
  <2>2. k < t.size /\ Carries(t, K, V, b, n, f[k], k)
    BY <1>1, <1>5
  <2> HIDE DEF S
  <2> QED
    BY <2>1, <2>2, <1>1, <1>2, PlaceCarries
<1>6. t.size \in S
  <2> HIDE DEF S
  <2>1. Nat \subseteq S
    BY <1>4, <1>5, NatSetInduction
  <2> QED
    BY <2>1, <1>1
<1> DEFINE m == f[t.size]
           u == Rehash(t, n)
<1>7. Carries(t, K, V, b, n, m, t.size)
  BY <1>6, <1>1
<1>8. /\ u.hash = t.hash /\ u.slots = m.new /\ u.size = t.size /\ u.occupied = t.size
      /\ m.new \in [0..(n - 1) -> SlotSet(K, V)] =>
           u \in [hash : [K -> Nat], slots : [0..(n - 1) -> SlotSet(K, V)], size : Nat, occupied : Nat]
  <2> DEFINE g == f[t.size].new
  <2>1. u = [t EXCEPT !.slots = g, !.occupied = t.size]
    BY <1>3
  <2> HIDE DEF g, u
  <2>2. /\ u.hash = t.hash /\ u.slots = g /\ u.size = t.size /\ u.occupied = t.size
        /\ g \in [0..(n - 1) -> SlotSet(K, V)] =>
             u \in [hash : [K -> Nat], slots : [0..(n - 1) -> SlotSet(K, V)], size : Nat, occupied : Nat]
    BY <2>1, <1>1
  <2> QED
    BY <2>2 DEF g
<1> HIDE DEF m, u
<1>9. m.new \in [0..(n - 1) -> SlotSet(K, V)]
  BY <1>7 DEF Carries, Moves
<1>10. /\ \A i \in 0..(n - 1) : m.new[i].flag # "deleted"
       /\ \A i \in Carried(m) : Item(m, i).key \in K /\ Item(m, i).val \in V
       /\ {<<Item(m, i).key, Item(m, i).val>> : i \in Carried(m)} = Entries(t)
       /\ Searchable(t.hash, m.new, n)
       /\ Cardinality(LiveIn(m.new)) = t.size
       /\ Cardinality(Waiting(m)) = t.size - t.size
  BY <1>7 DEF Carries
<1>11. Waiting(m) = {}
  <2>1. Cardinality(Waiting(m)) = 0
    BY <1>10, <1>1
  <2>2. IsFiniteSet(Waiting(m))
    <3>1. Unmoved(m) \in SUBSET (0..(b - 1))
      BY <1>7 DEF Carries, Moves, Unmoved
    <3>2. IsFiniteSet(Unmoved(m))
      BY <3>1, <1>1, FiniteSlots
    <3>3. IsFiniteSet(Unmoved(m) \cup {-1})
      BY <3>2, FS_AddElement
    <3> QED
      BY <3>2, <3>3 DEF Waiting
  <2> QED
    BY <2>1, <2>2, FS_EmptySet
<1>12. Carried(m) = LiveIn(m.new) /\ LiveIn(m.new) = LiveIn(u.slots) /\ Live(u) = LiveIn(m.new)
  BY <1>8, <1>11 DEF Carried, Live, LiveIn
<1>13. \A i \in LiveIn(m.new) : Item(m, i) = m.new[i]
  BY <1>1, <1>9 DEF LiveIn, Item
<1>14. UsedIn(m.new) = LiveIn(m.new)
  BY <1>9, <1>10 DEF UsedIn, LiveIn, SlotSet, Flags
<1>15. Entries(u) = Entries(t)
  <2>1. {<<m.new[i].key, m.new[i].val>> : i \in LiveIn(m.new)} = Entries(t)
    BY <1>10, <1>12, <1>13
  <2> QED
    BY <2>1, <1>8, <1>12 DEF Entries
<1>16. \A i \in LiveIn(m.new) : m.new[i].key \in K /\ m.new[i].val \in V
  BY <1>10, <1>12, <1>13
<1>17. t.size <= UpperBound(n)
  BY <1>1, UpperBoundBelow
<1>18. Good(u, K, V, n)
  BY <1>1, <1>8, <1>9, <1>10, <1>14, <1>16, <1>17 DEF Good
<1> QED
  BY <1>8, <1>15, <1>18 DEF u

---------------------------------------------------------------------------
(* socket_map_add and socket_map_remove *)

\* The entries are no more than the slots used, and those no more than the bound.
LEMMA GoodCounts ==
  ASSUME NEW K, NEW V, NEW n, NEW t, Good(t, K, V, n)
  PROVE  t.size \in Nat /\ t.occupied \in Nat /\ t.size <= t.occupied /\ t.occupied <= UpperBound(n)
<1>1. n \in Nat /\ DOMAIN t.slots = 0..(n - 1)
  BY GoodBuckets
<1>2. /\ t.size \in Nat /\ t.occupied \in Nat /\ t.occupied <= UpperBound(n)
      /\ t.size = Cardinality(LiveIn(t.slots)) /\ t.occupied = Cardinality(UsedIn(t.slots))
  BY DEF Good
<1>3. UsedIn(t.slots) \in SUBSET (0..(n - 1)) /\ LiveIn(t.slots) \in SUBSET UsedIn(t.slots)
  BY <1>1 DEF UsedIn, LiveIn
<1>4. IsFiniteSet(UsedIn(t.slots))
  BY <1>1, <1>3, FiniteSlots
<1>5. Cardinality(LiveIn(t.slots)) <= Cardinality(UsedIn(t.slots))
  BY <1>3, <1>4, FS_Subset
<1> QED
  BY <1>2, <1>5

\* u is t with room for one more entry: t itself unless that is full.
Roomy(t, u, K, V, n, p) ==
  /\ Good(u, K, V, p) /\ p # 0
  /\ u.hash = t.hash
  /\ u.occupied < UpperBound(p) /\ u.occupied <= t.occupied
  /\ Entries(u) = Entries(t)
  /\ t.occupied < UpperBound(n) => u = t /\ p = n

\* The first part of kh_put
LEMMA MakeRoomGood ==
  ASSUME NEW K, NEW V, NEW n, NEW t, Good(t, K, V, n)
  PROVE  \E p \in Sizes : Roomy(t, MakeRoom(t), K, V, n, p)
<1>1. /\ n \in Nat /\ n \in Sizes /\ (n > 0 => n \in Pow2 /\ n >= 4) /\ Buckets(t) = n
      /\ t.size \in Nat /\ t.occupied \in Nat /\ t.size <= t.occupied /\ t.occupied <= UpperBound(n)
  BY GoodBuckets, GoodCounts
<1>2. UpperBound(0) = 0 /\ UpperBound(4) = 3
  BY DEF UpperBound
<1>3. CASE t.occupied < UpperBound(n)
  <2>1. MakeRoom(t) = t
    BY <1>1, <1>3 DEF MakeRoom
  <2>2. n # 0
    BY <1>1, <1>2, <1>3
  <2> QED
    BY <2>1, <2>2, <1>1, <1>3 DEF Roomy
<1>4. ASSUME ~(t.occupied < UpperBound(n)),
             NEW p \in Pow2, p >= 4, n <= p, t.size < UpperBound(p), MakeRoom(t) = Resize(t, p)
      PROVE  \E q \in Sizes : Roomy(t, MakeRoom(t), K, V, n, q)
  <2>1. p \in Sizes /\ p # 0 /\ p \in Nat
    BY <1>4, Pow2Positive DEF Sizes
  <2>2. MakeRoom(t) = Rehash(t, p)
    <3>1. UpperBound(p) \in Nat
      BY <2>1, <1>4, UpperBoundBelow
    <3> QED
      BY <3>1, <1>1, <1>4 DEF Resize
  <2>3. /\ Good(Rehash(t, p), K, V, p)
        /\ Rehash(t, p).hash = t.hash
        /\ Rehash(t, p).occupied = t.size
        /\ Entries(Rehash(t, p)) = Entries(t)
    BY <1>1, <1>4, RehashGood
  <2>4. Roomy(t, MakeRoom(t), K, V, n, p)
    BY <2>1, <2>2, <2>3, <1>1, <1>4 DEF Roomy
  <2> QED
    BY <2>1, <2>4
<1>5. CASE ~(t.occupied < UpperBound(n)) /\ n > 2 * t.size
  <2>1. n > 0 /\ n \in Pow2 /\ n >= 4
    BY <1>1, <1>5
  <2>2. MakeRoom(t) = Resize(t, n)
    BY <1>1, <1>5 DEF MakeRoom
  <2>3. n <= 2 * UpperBound(n) /\ UpperBound(n) \in Nat
    BY <1>1, <2>1, UpperBoundOfDouble, UpperBoundBelow
  <2>4. t.size < UpperBound(n)
    BY <2>3, <1>1, <1>5
  <2> QED
    BY <2>1, <2>2, <2>4, <1>1, <1>4, <1>5
<1>6. CASE ~(t.occupied < UpperBound(n)) /\ ~(n > 2 * t.size) /\ n = 0
  <2>1. MakeRoom(t) = Resize(t, 4)
    BY <1>1, <1>6 DEF MakeRoom
  <2>2. 4 \in Pow2
    <3>1. 2 * 1 \in Pow2
      BY Pow2Closed
    <3>2. 2 * (2 * 1) \in Pow2
      BY <3>1, Pow2Closed
    <3> QED
      BY <3>2
  <2>3. t.size < UpperBound(4)
    BY <1>1, <1>2, <1>6
  <2> QED
    BY <2>1, <2>2, <2>3, <1>1, <1>4, <1>6
<1>7. CASE ~(t.occupied < UpperBound(n)) /\ ~(n > 2 * t.size) /\ n # 0
  <2>1. MakeRoom(t) = Resize(t, 2 * n)
    BY <1>1, <1>7 DEF MakeRoom
  <2>0. n > 0 /\ n \in Pow2 /\ n >= 4
    BY <1>1, <1>7
  <2>2. 2 * n \in Pow2 /\ 2 * n >= 4 /\ n <= 2 * n
    BY <1>1, <2>0, Pow2Closed
  <2>3. UpperBound(n) < UpperBound(2 * n) /\ UpperBound(n) \in Nat
    BY <1>1, <1>7, UpperBoundOfDouble, UpperBoundBelow
  <2>4. UpperBound(2 * n) \in Nat
    BY <1>1, <2>2, UpperBoundBelow
  <2>5. t.size < UpperBound(2 * n)
    BY <2>3, <2>4, <1>1
  <2> QED
    BY <2>1, <2>2, <2>5, <1>4, <1>7
<1> QED
  BY <1>3, <1>5, <1>6, <1>7

\* u is t in which the value for key is val: in the slot that Find gives.
Added(t, u, K, V, n, p, key, val) ==
  /\ Good(u, K, V, p)
  /\ u.hash = t.hash /\ u.occupied <= t.occupied + 1
  /\ Find(u, key) \in Live(u) /\ Find(u, key) # Buckets(u) /\ Find(u, key) \in Nat
  /\ u.slots[Find(u, key)] = Slot("live", key, val)
  /\ Entries(u) = {en \in Entries(t) : en[1] # key} \cup {<<key, val>>}
  /\ t.occupied < UpperBound(n) =>
       \A i \in Live(t) : i # Find(u, key) => i \in Live(u) /\ u.slots[i] = t.slots[i]

\* kh_put: the entry of the key is in its slot, and the other entries are kept.
LEMMA AddGood ==
  ASSUME NEW K, NEW V, NEW n, NEW t, Good(t, K, V, n), NEW key \in K, NEW val \in V
  PROVE  \E p \in Sizes : Added(t, Add(t, key, val), K, V, n, p, key, val)
<1> DEFINE m == MakeRoom(t)
<1>1. PICK p \in Sizes : Roomy(t, m, K, V, n, p)
  BY MakeRoomGood
<1> HIDE DEF m
<1> DEFINE x == Site(m, key)
           u == Put(m, key, val)
<1>2. /\ Good(m, K, V, p) /\ p # 0 /\ m.hash = t.hash /\ m.occupied < UpperBound(p)
      /\ m.occupied <= t.occupied /\ Entries(m) = Entries(t)
      /\ t.occupied < UpperBound(n) => m = t /\ p = n
  BY <1>1 DEF Roomy
<1>3. /\ Good(u, K, V, p)
      /\ u.hash = m.hash
      /\ u.occupied <= m.occupied + 1
      /\ x \in 0..(p - 1)
      /\ x \in Live(m) => m.slots[x].key = key
      /\ x \notin Live(m) => \A i \in Live(m) : m.slots[i].key # key
      /\ Live(u) = Live(m) \cup {x}
      /\ u.slots[x] = Slot("live", key, val)
      /\ \A i \in 0..(p - 1) : i # x => u.slots[i] = m.slots[i]
  <2>1. PutAt(m, u, x, K, V, p, key, val)
    BY <1>2, PutGood
  <2> HIDE DEF u, x
  <2> QED
    BY <2>1 DEF PutAt
<1>4. u = Add(t, key, val)
  BY AddIsPut DEF m
<1> HIDE DEF x, u
<1>5. p \in Nat /\ Buckets(u) = p /\ Live(m) \subseteq 0..(p - 1) /\ Live(m) = LiveIn(m.slots)
  BY <1>2, <1>3, GoodBuckets
<1>6. x \in Live(u) /\ u.slots[x].key = key
  BY <1>3 DEF Slot
<1>7. Find(u, key) = x
  BY <1>3, <1>6, FindsLive
<1>8. \A i \in Live(m) : m.slots[i].key = key <=> i = x
  <2>1. \A i, j \in Live(m) : m.slots[i].key = m.slots[j].key => i = j
    BY <1>2, <1>5 DEF Good, Searchable
  <2> QED
    BY <2>1, <1>3
<1>9. Entries(u) = {en \in Entries(m) : en[1] # key} \cup {<<key, val>>}
  <2>1. ASSUME NEW en \in Entries(u) PROVE en \in {f \in Entries(m) : f[1] # key} \cup {<<key, val>>}
    <3>1. PICK i \in Live(u) : en = <<u.slots[i].key, u.slots[i].val>>
      BY <2>1 DEF Entries
    <3>2. CASE i = x
      BY <3>1, <3>2, <1>3 DEF Slot
    <3>3. CASE i # x
      <4>1. i \in Live(m) /\ i \in 0..(p - 1)
        BY <3>3, <1>3, <1>5
      <4>2. en = <<m.slots[i].key, m.slots[i].val>> /\ m.slots[i].key # key
        BY <4>1, <3>1, <3>3, <1>3, <1>8
      <4> QED
        BY <4>1, <4>2 DEF Entries
    <3> QED
      BY <3>2, <3>3
  <2>2. ASSUME NEW en \in Entries(m), en[1] # key PROVE en \in Entries(u)
    <3>1. PICK i \in Live(m) : en = <<m.slots[i].key, m.slots[i].val>>
      BY <2>2 DEF Entries
    <3>2. i # x /\ i \in 0..(p - 1) /\ i \in Live(u)
      BY <3>1, <2>2, <1>3, <1>5, <1>8
    <3> QED
      BY <3>1, <3>2, <1>3 DEF Entries
  <2>3. <<key, val>> \in Entries(u)
    BY <1>3, <1>6 DEF Entries, Slot
  <2> QED
    BY <2>1, <2>2, <2>3
<1>10. u.occupied <= t.occupied + 1
  <2>1. u.occupied \in Nat /\ m.occupied \in Nat /\ t.occupied \in Nat
    BY <1>2, <1>3, GoodCounts
  <2> QED
    BY <2>1, <1>2, <1>3
<1>11. Added(t, u, K, V, n, p, key, val)
  BY <1>2, <1>3, <1>5, <1>6, <1>7, <1>9, <1>10 DEF Added
<1> QED
  BY <1>4, <1>11

---------------------------------------------------------------------------
(* What users of the map may rely on, whatever the number of its slots *)

\* A map kept by these operations is consistent.
LEMMA GoodIsConsistent ==
  ASSUME NEW K, NEW V, NEW t, GoodMap(t, K, V)
  PROVE  Consistent(t)
<1>1. PICK n \in Sizes : Good(t, K, V, n)
  BY DEF GoodMap
<1>2. /\ n \in Nat /\ (n > 0 => n >= 4) /\ DOMAIN t.slots = 0..(n - 1) /\ Buckets(t) = n
      /\ Live(t) = LiveIn(t.slots)
  BY <1>1, GoodBuckets
<1>3. /\ t.size = Cardinality(Live(t)) /\ t.occupied = Cardinality(UsedIn(t.slots))
      /\ t.occupied <= UpperBound(n)
  BY <1>1, <1>2 DEF Good
<1>4. \A i \in Live(t) : Find(t, t.slots[i].key) = i
  BY <1>1, FindsLive
<1>5. ASSUME DOMAIN t.slots # {} PROVE \E i \in DOMAIN t.slots : t.slots[i].flag = "empty"
  <2>1. n >= 4
    BY <1>2, <1>5
  <2>2. Cardinality(UsedIn(t.slots)) < n
    <3>1. UpperBound(n) < n /\ UpperBound(n) \in Nat /\ t.occupied \in Nat
      BY <2>1, <1>1, <1>2, UpperBoundBelow, GoodCounts
    <3> QED
      BY <3>1, <1>2, <1>3
  <2> QED
    BY <2>2, <1>2, SomeEmpty
<1> QED
  BY <1>2, <1>3, <1>4, <1>5 DEF Consistent, UsedIn

\* The keys are different, and the lookup of one gives the value of its entry.
LEMMA GoodEntries ==
  ASSUME NEW K, NEW V, NEW t, GoodMap(t, K, V)
  PROVE  /\ \A i \in Live(t) : t.slots[i].key \in K /\ t.slots[i].val \in V
         /\ \A i, j \in Live(t) : t.slots[i].key = t.slots[j].key => i = j
         /\ \A key \in K : \A v : v \in Lookup(t, key) <=> <<key, v>> \in Entries(t)
         /\ t.occupied \in Nat
         /\ Buckets(t) = 0 \/ UpperBound(Buckets(t)) >= 3
         /\ Buckets(t) = 0 => Live(t) = {}
<1>1. PICK n \in Sizes : Good(t, K, V, n)
  BY DEF GoodMap
<1>2. /\ n \in Nat /\ (n > 0 => n >= 4) /\ DOMAIN t.slots = 0..(n - 1) /\ Buckets(t) = n
      /\ Live(t) = LiveIn(t.slots) /\ Live(t) \subseteq 0..(n - 1)
  BY <1>1, GoodBuckets
<1>3. /\ \A i \in Live(t) : t.slots[i].key \in K /\ t.slots[i].val \in V
      /\ \A i, j \in Live(t) : t.slots[i].key = t.slots[j].key => i = j
      /\ t.occupied \in Nat
  BY <1>1, <1>2 DEF Good, Searchable
<1>4. \A i \in Live(t) : Find(t, t.slots[i].key) = i
  BY <1>1, FindsLive
<1>5. ASSUME NEW key \in K, NEW v PROVE v \in Lookup(t, key) <=> <<key, v>> \in Entries(t)
  <2>1. CASE \E i \in Live(t) : t.slots[i].key = key
    <3>1. PICK i \in Live(t) : t.slots[i].key = key
      BY <2>1
    <3>2. Find(t, key) = i
      BY <3>1, <1>4
    <3>3. v \in Lookup(t, key) <=> v = t.slots[i].val
      BY <3>1, <3>2 DEF Lookup
    <3>4. <<key, v>> \in Entries(t) <=> v = t.slots[i].val
      BY <3>1, <1>3 DEF Entries
    <3> QED
      BY <3>3, <3>4
  <2>2. CASE \A i \in Live(t) : t.slots[i].key # key
    <3>1. Find(t, key) = n
      BY <2>2, <1>1, FindsNone
    <3>2. n \notin Live(t)
      BY <1>2
    <3>3. v \notin Lookup(t, key)
      BY <3>1, <3>2 DEF Lookup
    <3>4. <<key, v>> \notin Entries(t)
      BY <2>2 DEF Entries
    <3> QED
      BY <3>3, <3>4
  <2> QED
    BY <2>1, <2>2
<1>6. n = 0 \/ UpperBound(n) >= 3
  BY <1>2 DEF UpperBound
<1>7. n = 0 => Live(t) = {}
  BY <1>2
<1> QED
  BY <1>2, <1>3, <1>5, <1>6, <1>7

\* u is t after socket_map_add.
AddedTo(t, u, K, V, key, val) ==
  /\ GoodMap(u, K, V)
  /\ u.hash = t.hash /\ u.occupied <= t.occupied + 1
  /\ KeyOf(u, key) \in Nat /\ KeyOf(u, key) \in Live(u) /\ ValueAt(u, KeyOf(u, key)) = val
  /\ Entries(u) = {en \in Entries(t) : en[1] # key} \cup {<<key, val>>}
  /\ ~(t.occupied >= UpperBound(Buckets(t))) =>
       \A i \in Live(t) : i # KeyOf(u, key) => i \in Live(u) /\ ValueAt(u, i) = ValueAt(t, i)

\* socket_map_add, on a map of any size that socket_map_add and socket_map_remove have built,
\* stores the value for the key and loses no other entry, also where kh_resize moves them
\* (kh_put); unless the map was full the other entries keep their slots, which are the
\* handles of the application.
THEOREM AddMap ==
  ASSUME NEW K, NEW V, NEW t, GoodMap(t, K, V), NEW key \in K, NEW val \in V
  PROVE  AddedTo(t, Add(t, key, val), K, V, key, val)
<1>1. PICK n \in Sizes : Good(t, K, V, n)
  BY DEF GoodMap
<1> DEFINE u == Add(t, key, val)
<1>2. PICK p \in Sizes : Added(t, u, K, V, n, p, key, val)
  BY <1>1, AddGood
<1> HIDE DEF u
<1>3. GoodMap(u, K, V)
  BY <1>2 DEF GoodMap, Added
<1>4. KeyOf(u, key) = Find(u, key)
  BY <1>2 DEF KeyOf, Added
<1>5. Buckets(t) = n
  BY <1>1, GoodBuckets
<1>6. ValueAt(u, Find(u, key)) = val
  BY <1>2 DEF Added, ValueAt, Slot
<1>7. t.occupied < UpperBound(n) \/ t.occupied >= UpperBound(n)
  <2>1. t.occupied \in Nat /\ UpperBound(n) \in Int
    BY <1>1, GoodCounts, SizesAreNat DEF UpperBound
  <2> QED
    BY <2>1
<1>8. AddedTo(t, u, K, V, key, val)
  BY <1>2, <1>3, <1>4, <1>5, <1>6, <1>7 DEF Added, AddedTo, ValueAt
<1> QED
  BY <1>8 DEF u

\* u is t after socket_map_remove.
DeletedFrom(t, u, K, V, x) ==
  /\ GoodMap(u, K, V)
  /\ u.hash = t.hash /\ u.occupied = t.occupied
  /\ Live(u) = Live(t) \ {x}
  /\ \A i \in Live(u) : u.slots[i] = t.slots[i]
  /\ Entries(u) \subseteq Entries(t)

\* socket_map_remove takes the entry of the slot away and leaves the others in theirs, where
\* they are still found (kh_del).
THEOREM DelMap ==
  ASSUME NEW K, NEW V, NEW t, GoodMap(t, K, V), NEW x
  PROVE  DeletedFrom(t, Del(t, x), K, V, x)
<1>1. PICK n \in Sizes : Good(t, K, V, n)
  BY DEF GoodMap
<1> DEFINE u == Del(t, x)
<1>2. /\ Good(u, K, V, n)
      /\ u.hash = t.hash /\ u.occupied = t.occupied
      /\ Live(u) = Live(t) \ {x}
      /\ \A i \in Live(u) : u.slots[i] = t.slots[i]
  BY <1>1, DelGood
<1> HIDE DEF u
<1>3. GoodMap(u, K, V)
  BY <1>2 DEF GoodMap
<1>4. Entries(u) \subseteq Entries(t)
  BY <1>2 DEF Entries
<1>5. DeletedFrom(t, u, K, V, x)
  BY <1>2, <1>3, <1>4 DEF DeletedFrom
<1> QED
  BY <1>5 DEF u

\* kh_init
LEMMA EmptyMapGood ==
  ASSUME NEW K, NEW V, NEW hash \in [K -> Nat]
  PROVE  /\ GoodMap(EmptyMap(hash), K, V) /\ EmptyMap(hash).hash = hash
         /\ Entries(EmptyMap(hash)) = {} /\ Live(EmptyMap(hash)) = {}
         /\ EmptyMap(hash).occupied = 0
<1>1. Good(EmptyMap(hash), K, V, 0) /\ Live(EmptyMap(hash)) = {} /\ EmptyMap(hash).hash = hash
  BY EmptyGood
<1>2. 0 \in Sizes
  BY DEF Sizes
<1>3. Entries(EmptyMap(hash)) = {}
  BY <1>1 DEF Entries
<1>4. EmptyMap(hash).occupied = 0
  BY DEF EmptyMap
<1> QED
  BY <1>1, <1>2, <1>3, <1>4 DEF GoodMap

\* The hash function of the keys
LEMMA GoodHash ==
  ASSUME NEW K, NEW V, NEW t, GoodMap(t, K, V)
  PROVE  t.hash \in [K -> Nat]
BY DEF GoodMap, Good

---------------------------------------------------------------------------
(* The connections *)

\* What khash promises of the two maps of zmtp_s, whatever the application does
MapsGood == GoodMap(routers, Endpoints, Pointers) /\ GoodMap(dealers, Endpoints, Pointers)

\* A slot is the handle of one socket at most.
HeldOnce == \A h, g \in held : h.kind = g.kind /\ h.slot = g.slot => h = g

Inv == TypeOK /\ MapsGood /\ HeldOnce

---------------------------------------------------------------------------
(* Facts about the data *)

\* The socket that is created is one of the pointers.
LEMMA FreshPointer ==
  ASSUME MaxSockets \in Nat, created \in 0..MaxSockets, created < MaxSockets
  PROVE  Socket(created + 1) \in Pointers /\ created + 1 \in 0..MaxSockets
BY DEF Pointers

\* What the maps hold are sockets.
LEMMA PolledPointers ==
  ASSUME MapsGood
  PROVE  PollSet \subseteq Pointers
<1>1. \A i \in Live(routers) : routers.slots[i].val \in Pointers
  BY GoodEntries DEF MapsGood
<1>2. \A i \in Live(dealers) : dealers.slots[i].val \in Pointers
  BY GoodEntries DEF MapsGood
<1> QED
  BY <1>1, <1>2 DEF PollSet

\* remove_if is given the address of a slot, which no node and no device has for a socket.
LEMMA NothingRemoved ==
  ASSUME NEW f, \A x \in DOMAIN f : f[x].sock \in Pointers, NEW kind, NEW i
  PROVE  DOMAIN Remaining(f, SlotAddress(kind, i)) = DOMAIN f
         /\ \A x \in DOMAIN f : Remaining(f, SlotAddress(kind, i))[x] = f[x]
<1>1. \A x \in DOMAIN f : f[x].sock # SlotAddress(kind, i)
  <2>1. \A n : Socket(n) # SlotAddress(kind, i)
    BY DEF Socket, SlotAddress
  <2> QED
    BY <2>1 DEF Pointers
<1> QED
  BY <1>1 DEF Remaining, RemoveIf, Only

---------------------------------------------------------------------------
(* The invariant *)

\* The maps start empty, and nothing is held.
LEMMA InitInv == Init => Inv
<1> SUFFICES ASSUME Init PROVE Inv
  OBVIOUS
<1>0. HashValues \subseteq Nat /\ MaxSockets \in Nat
  BY SocketsAssumption
<1>1. PICK hash \in [Endpoints -> HashValues] : routers = EmptyMap(hash) /\ dealers = EmptyMap(hash)
  BY DEF Init
<1>2. hash \in [Endpoints -> Nat]
  BY <1>0
<1>3. MapsGood
  BY <1>1, <1>2, EmptyMapGood DEF MapsGood
<1>4. TypeOK
  BY <1>0 DEF Init, TypeOK
<1>5. HeldOnce
  BY DEF Init, HeldOnce
<1> QED
  BY <1>3, <1>4, <1>5 DEF Inv

\* netw_listen and netw_connect give a handle to the application.
LEMMA HoldKeeps ==
  ASSUME TypeOK, HeldOnce, NEW kind \in Kinds, NEW slot \in Nat, NEW sock \in Pointers,
         Hold(kind, slot, sock)
  PROVE  held' \subseteq [kind : Kinds, slot : Nat, sock : Pointers] /\ HeldOnce'
BY DEF TypeOK, HeldOnce, Hold, Held

\* zmtp_listen adds to the map of routers.
LEMMA ListenInv ==
  ASSUME Inv, NEW ep \in Endpoints, Listen(ep)
  PROVE  Inv'
<1> DEFINE sock == Socket(created + 1)
           added == Add(routers, ep, sock)
<1>1. created \in 0..MaxSockets /\ created < MaxSockets /\ created' = created + 1 /\ MaxSockets \in Nat
  BY SocketsAssumption DEF Inv, TypeOK, Listen, Creates
<1>2. sock \in Pointers /\ created' \in 0..MaxSockets
  BY <1>1, FreshPointer
<1>3. /\ routers' = added /\ dealers' = dealers /\ nodes' = nodes /\ devices' = devices /\ lib' = lib
      /\ zmq' = With(zmq, sock, <<"router", ep>>)
      /\ Hold("router", KeyOf(added, ep), sock)
  BY DEF Listen
<1>4. AddedTo(routers, added, Endpoints, Pointers, ep, sock)
  BY <1>2, AddMap DEF Inv, MapsGood
<1> HIDE DEF added, sock
<1>5. MapsGood'
  BY <1>3, <1>4 DEF Inv, MapsGood, AddedTo
<1>6. held' \subseteq [kind : Kinds, slot : Nat, sock : Pointers] /\ HeldOnce'
  <2>1. KeyOf(added, ep) \in Nat /\ "router" \in Kinds
    BY <1>4 DEF AddedTo, Kinds
  <2> QED
    BY <2>1, <1>2, <1>3, HoldKeeps DEF Inv
<1>7. DOMAIN zmq' \subseteq Pointers /\ \A s \in DOMAIN zmq' : zmq'[s] \in Kinds \X Endpoints
  BY <1>2, <1>3 DEF Inv, TypeOK, With, Kinds
<1>8. TypeOK'
  BY <1>2, <1>3, <1>6, <1>7 DEF Inv, TypeOK
<1> QED
  BY <1>5, <1>6, <1>8 DEF Inv

\* zmtp_connect adds to the map of dealers, and a node of the same socket.
LEMMA ConnectInv ==
  ASSUME Inv, NEW ep \in Endpoints, Connect(ep)
  PROVE  Inv'
<1> DEFINE sock == Socket(created + 1)
           added == Add(dealers, ep, sock)
<1>1. created \in 0..MaxSockets /\ created < MaxSockets /\ created' = created + 1 /\ MaxSockets \in Nat
  BY SocketsAssumption DEF Inv, TypeOK, Connect, Creates
<1>2. sock \in Pointers /\ created' \in 0..MaxSockets
  BY <1>1, FreshPointer
<1>3. /\ dealers' = added /\ routers' = routers /\ devices' = devices /\ lib' = lib
      /\ zmq' = With(zmq, sock, <<"dealer", ep>>)
      /\ nodes' = With(nodes, ep, [sock |-> sock, router |-> FALSE])
      /\ Hold("dealer", KeyOf(added, ep), sock)
  BY DEF Connect
<1>4. AddedTo(dealers, added, Endpoints, Pointers, ep, sock)
  BY <1>2, AddMap DEF Inv, MapsGood
<1> HIDE DEF added, sock
<1>5. MapsGood'
  BY <1>3, <1>4 DEF Inv, MapsGood, AddedTo
<1>6. held' \subseteq [kind : Kinds, slot : Nat, sock : Pointers] /\ HeldOnce'
  <2>1. KeyOf(added, ep) \in Nat /\ "dealer" \in Kinds
    BY <1>4 DEF AddedTo, Kinds
  <2> QED
    BY <2>1, <1>2, <1>3, HoldKeeps DEF Inv
<1>7. DOMAIN zmq' \subseteq Pointers /\ \A s \in DOMAIN zmq' : zmq'[s] \in Kinds \X Endpoints
  BY <1>2, <1>3 DEF Inv, TypeOK, With, Kinds
<1>8. /\ DOMAIN nodes' \subseteq Endpoints \cup Peers
      /\ \A k \in DOMAIN nodes' : nodes'[k] \in [sock : Pointers, router : BOOLEAN]
  BY <1>2, <1>3 DEF Inv, TypeOK, With
<1>9. TypeOK'
  BY <1>2, <1>3, <1>6, <1>7, <1>8 DEF Inv, TypeOK
<1> QED
  BY <1>5, <1>6, <1>9 DEF Inv

\* netw_close removes a slot, and neither nodes nor devices.
LEMMA CloseInv ==
  ASSUME Inv, NEW h \in held, Close(h)
  PROVE  Inv'
<1>1. held' = held \ {h} /\ created' = created /\ lib' = lib
  BY DEF Close, CloseRouter, CloseDealer
<1>2. held' \subseteq [kind : Kinds, slot : Nat, sock : Pointers] /\ HeldOnce'
  BY <1>1 DEF Inv, TypeOK, HeldOnce
<1>3. MapsGood'
  <2>1. CASE CloseRouter(h)
    <3>1. DeletedFrom(routers, Del(routers, h.slot), Endpoints, Pointers, h.slot)
      BY DelMap DEF Inv, MapsGood
    <3> QED
      BY <2>1, <3>1 DEF Inv, MapsGood, CloseRouter, DeletedFrom
  <2>2. CASE CloseDealer(h)
    <3>1. DeletedFrom(dealers, Del(dealers, h.slot), Endpoints, Pointers, h.slot)
      BY DelMap DEF Inv, MapsGood
    <3> QED
      BY <2>2, <3>1 DEF Inv, MapsGood, CloseDealer, DeletedFrom
  <2> QED
    BY <2>1, <2>2 DEF Close
<1>4. /\ \E s : devices' = Remaining(devices, s)
      /\ nodes' = nodes \/ \E s : nodes' = Remaining(nodes, s)
      /\ \E S : zmq' = Only(zmq, DOMAIN zmq \ S)
  BY DEF Close, CloseRouter, CloseDealer
<1>5. TypeOK'
  BY <1>1, <1>2, <1>4 DEF Inv, TypeOK, Remaining, Only
<1> QED
  BY <1>2, <1>3, <1>5 DEF Inv

\* netw_destroy leaves empty maps.
LEMMA DestroyInv == Inv /\ Destroy => Inv'
<1> SUFFICES ASSUME Inv, Destroy PROVE Inv'
  OBVIOUS
<1>1. routers.hash \in [Endpoints -> Nat] /\ dealers.hash \in [Endpoints -> Nat]
  BY GoodHash DEF Inv, MapsGood
<1>2. MapsGood'
  BY <1>1, EmptyMapGood DEF Destroy, MapsGood
<1>3. /\ held' = {} /\ nodes' = <<>> /\ devices' = <<>> /\ created' = created
      /\ lib' \in Ends /\ zmq' = Only(zmq, LeftOpen)
  BY DEF Destroy, Ends
<1>4. LeftOpen \subseteq DOMAIN zmq
  BY DEF LeftOpen
<1>5. TypeOK'
  BY <1>3, <1>4 DEF Inv, TypeOK, Only
<1>6. HeldOnce'
  BY <1>3 DEF HeldOnce
<1> QED
  BY <1>2, <1>5, <1>6 DEF Inv

\* Each step keeps the invariant.
LEMMA StepInv == Inv /\ [Next]_vars => Inv'
<1> SUFFICES ASSUME Inv, [Next]_vars PROVE Inv'
  OBVIOUS
<1>1. ASSUME NEW ep \in Endpoints, Listen(ep) PROVE Inv'
  BY <1>1, ListenInv
<1>2. ASSUME NEW ep \in Endpoints, Connect(ep) PROVE Inv'
  BY <1>2, ConnectInv
<1>3. ASSUME NEW h \in held, Close(h) PROVE Inv'
  BY <1>3, CloseInv
<1>4. ASSUME NEW sid \in DOMAIN devices, RemoveDevice(sid) PROVE Inv'
  BY <1>4 DEF RemoveDevice, Only, Inv, TypeOK, MapsGood, HeldOnce
<1>5. CASE Destroy
  BY <1>5, DestroyInv
<1>6. CASE PollAsserts
  BY <1>6 DEF PollAsserts, Ends, Inv, TypeOK, MapsGood, HeldOnce
<1>7. ASSUME NEW s \in PollSet, NEW peer \in Peers, Hello(s, peer) PROVE Inv'
  <2>1. s \in Pointers
    BY PolledPointers DEF Inv
  <2>2. /\ DOMAIN nodes' \subseteq Endpoints \cup Peers
        /\ \A k \in DOMAIN nodes' : nodes'[k] \in [sock : Pointers, router : BOOLEAN]
    BY <2>1, <1>7 DEF Hello, Inv, TypeOK, With
  <2> QED
    BY <2>2, <1>7 DEF Hello, Inv, TypeOK, MapsGood, HeldOnce
<1>8. ASSUME NEW s \in PollSet, NEW sid \in Serials, NEW broadcast \in BOOLEAN,
             Heartbeat(s, sid, broadcast)
      PROVE  Inv'
  <2>1. s \in Pointers
    BY PolledPointers DEF Inv
  <2>2. /\ DOMAIN devices' \subseteq Serials
        /\ \A d \in DOMAIN devices' : devices'[d] \in [sock : Pointers]
    BY <2>1, <1>8 DEF Heartbeat, Inv, TypeOK, With
  <2>3. lib' \in Ends \cup {"running"}
    BY <1>8 DEF Heartbeat, Inv, TypeOK, Ends
  <2> QED
    BY <2>2, <2>3, <1>8 DEF Heartbeat, Inv, TypeOK, MapsGood, HeldOnce
<1>9. CASE UNCHANGED vars
  BY <1>9 DEF vars, Inv, TypeOK, MapsGood, HeldOnce
<1> QED
  BY <1>1, <1>2, <1>3, <1>4, <1>5, <1>6, <1>7, <1>8, <1>9 DEF Next

\* The invariant holds at all times.
LEMMA Invariant == Spec => []Inv
<1>1. Init => Inv
  BY InitInv
<1>2. Inv /\ [Next]_vars => Inv'
  BY StepInv
<1> QED
  BY <1>1, <1>2, PTL DEF Spec

\* The variables that are not maps keep their types: a handle is a number, and what a node
\* or a device has for a socket is a pointer to one.
THEOREM TypeCorrect == Spec => []TypeOK
<1>1. Inv => TypeOK
  BY DEF Inv
<1> QED
  BY <1>1, Invariant, PTL

\* The maps of zmtp_s stay consistent over every sequence of netw_listen, netw_connect,
\* netw_close and netw_destroy, with any number of endpoints and any hash values: kh_get
\* finds each entry at its slot, the counters are right, and no search is endless.
THEOREM MapsStayConsistent == Spec => []MapsConsistent
<1>1. Inv => MapsConsistent
  BY GoodIsConsistent DEF Inv, MapsGood, MapsConsistent
<1> QED
  BY <1>1, Invariant, PTL

---------------------------------------------------------------------------
(* What netw_listen and netw_connect do to other endpoints *)

\* The lookup of another key gives what it gave before.
LEMMA LookupKept ==
  ASSUME NEW K, NEW V, NEW t, GoodMap(t, K, V), NEW key \in K, NEW val,
         NEW u, AddedTo(t, u, K, V, key, val), NEW ep \in K, ep # key
  PROVE  Lookup(u, ep) = Lookup(t, ep)
<1>1. GoodMap(u, K, V) /\ Entries(u) = {en \in Entries(t) : en[1] # key} \cup {<<key, val>>}
  BY DEF AddedTo
<1>2. \A v : <<ep, v>> \in Entries(u) <=> <<ep, v>> \in Entries(t)
  BY <1>1
<1>3. \A v : v \in Lookup(t, ep) <=> <<ep, v>> \in Entries(t)
  BY GoodEntries
<1>4. \A v : v \in Lookup(u, ep) <=> <<ep, v>> \in Entries(u)
  BY <1>1, GoodEntries
<1> QED
  BY <1>2, <1>3, <1>4

\* What netw_listen and netw_connect do to the maps, the zmq context and the handles
ListenDoes(ep, sock) ==
  /\ Listen(ep)
  /\ AddedTo(routers, routers', Endpoints, Pointers, ep, sock) /\ dealers' = dealers
  /\ zmq' = With(zmq, sock, <<"router", ep>>)
  /\ Hold("router", KeyOf(routers', ep), sock)

ConnectDoes(ep, sock) ==
  /\ Connect(ep)
  /\ AddedTo(dealers, dealers', Endpoints, Pointers, ep, sock) /\ routers' = routers
  /\ zmq' = With(zmq, sock, <<"dealer", ep>>)
  /\ Hold("dealer", KeyOf(dealers', ep), sock)

\* The step creates a socket.
Creation(ep, sock) ==
  /\ sock = Socket(created') /\ created' = created + 1 /\ created' # created
  /\ ListenDoes(ep, sock) \/ ConnectDoes(ep, sock)

\* The steps, by what they do to the maps
LEMMA Steps ==
  ASSUME Inv, [Next]_vars
  PROVE  \/ \E ep \in Endpoints, sock \in Pointers : Creation(ep, sock)
         \/ \E h \in held : Close(h) /\ created' = created
         \/ Destroy /\ created' = created /\ held' = {}
         \/ UNCHANGED <<routers, dealers, zmq, held, created>>
<1>1. ASSUME NEW ep \in Endpoints, Listen(ep) \/ Connect(ep)
      PROVE  \E sock \in Pointers : Creation(ep, sock)
  <2>1. created \in 0..MaxSockets /\ created < MaxSockets /\ created' = created + 1 /\ MaxSockets \in Nat
    BY <1>1, SocketsAssumption DEF Inv, TypeOK, Listen, Connect, Creates
  <2> DEFINE sock == Socket(created + 1)
  <2>2. sock \in Pointers /\ sock = Socket(created') /\ created' # created
    BY <2>1, FreshPointer
  <2>3. AddedTo(routers, Add(routers, ep, sock), Endpoints, Pointers, ep, sock)
    BY <2>2, AddMap DEF Inv, MapsGood
  <2>4. AddedTo(dealers, Add(dealers, ep, sock), Endpoints, Pointers, ep, sock)
    BY <2>2, AddMap DEF Inv, MapsGood
  <2>5. Listen(ep) => ListenDoes(ep, sock)
    BY <2>3 DEF Listen, ListenDoes
  <2>6. Connect(ep) => ConnectDoes(ep, sock)
    BY <2>4 DEF Connect, ConnectDoes
  <2> HIDE DEF sock
  <2>7. Creation(ep, sock)
    BY <1>1, <2>1, <2>2, <2>5, <2>6 DEF Creation
  <2> QED
    BY <2>2, <2>7
<1>2. ASSUME NEW h \in held, Close(h) PROVE created' = created
  BY <1>2 DEF Close, CloseRouter, CloseDealer
<1>3. Destroy => created' = created /\ held' = {}
  BY DEF Destroy
<1>4. ASSUME \/ \E sid \in DOMAIN devices : RemoveDevice(sid)
             \/ PollAsserts
             \/ \E s \in PollSet, peer \in Peers : Hello(s, peer)
             \/ \E s \in PollSet, sid \in Serials, broadcast \in BOOLEAN : Heartbeat(s, sid, broadcast)
             \/ UNCHANGED vars
      PROVE  UNCHANGED <<routers, dealers, zmq, held, created>>
  BY <1>4 DEF RemoveDevice, PollAsserts, Hello, Heartbeat, vars
<1> QED
  BY <1>1, <1>2, <1>3, <1>4 DEF Next

\* OthersKept for one step
LEMMA OthersKeptStep ==
  ASSUME Inv, [Next]_vars, NEW kind \in Kinds, NEW ep \in Endpoints, created' # created
  PROVE  zmq'[Socket(created')] = <<kind, ep>> \/ Lookup(Map(kind)', ep) = Lookup(Map(kind), ep)
<1> USE DEF Map
<1>1. PICK key \in Endpoints, sock \in Pointers : Creation(key, sock)
  BY Steps
<1>2. \A x, y : With(zmq, x, y)[x] = y
  BY DEF With
<1>3. CASE ListenDoes(key, sock)
  <2>1. ep # key => Lookup(routers', ep) = Lookup(routers, ep)
    BY <1>3, LookupKept DEF Inv, MapsGood, ListenDoes
  <2>2. zmq'[Socket(created')] = <<"router", key>>
    BY <1>1, <1>2, <1>3 DEF Creation, ListenDoes
  <2> QED
    BY <2>1, <2>2, <1>3 DEF Kinds, ListenDoes
<1>4. CASE ConnectDoes(key, sock)
  <2>1. ep # key => Lookup(dealers', ep) = Lookup(dealers, ep)
    BY <1>4, LookupKept DEF Inv, MapsGood, ConnectDoes
  <2>2. zmq'[Socket(created')] = <<"dealer", key>>
    BY <1>1, <1>2, <1>4 DEF Creation, ConnectDoes
  <2> QED
    BY <2>1, <2>2, <1>4 DEF Kinds, ConnectDoes
<1> QED
  BY <1>1, <1>3, <1>4 DEF Creation

\* netw_listen and netw_connect leave the sockets of the other endpoints to be found as
\* before, also when kh_resize moves the entries.
THEOREM OthersStayKept == Spec => OthersKept
<1>1. Inv /\ [Next]_vars =>
        [\A kind \in Kinds, ep \in Endpoints :
           created' # created /\ lib' = "running" =>
             \/ zmq'[Socket(created')] = <<kind, ep>>
             \/ Lookup(Map(kind)', ep) = Lookup(Map(kind), ep)]_vars
  BY OthersKeptStep
<1> QED
  BY <1>1, Invariant, PTL DEF Spec, OthersKept

---------------------------------------------------------------------------
(* What happens to handles *)

\* The handle that is returned is good, and one that goes bad does so in a listen or
\* connect, on a map that is full.
LEMMA HandlesStep ==
  ASSUME Inv, [Next]_vars
  PROVE  /\ \A h \in held' \ held : Names(h)'
         /\ \A h \in held \cap held' :
              Names(h) /\ ~Names(h)' => created' # created /\ Full(Map(h.kind))
<1> USE DEF Map
<1>0. \A h \in held : h.kind \in Kinds /\ h.slot \in Nat
  BY DEF Inv, TypeOK
<1>1. ASSUME NEW key \in Endpoints, NEW sock \in Pointers, Creation(key, sock), ListenDoes(key, sock)
      PROVE  /\ \A h \in held' \ held : Names(h)'
             /\ \A h \in held \cap held' : Names(h) /\ ~Names(h)' => Full(Map(h.kind))
  <2>1. /\ KeyOf(routers', key) \in Live(routers') /\ ValueAt(routers', KeyOf(routers', key)) = sock
        /\ ~Full(routers) => \A i \in Live(routers) : i # KeyOf(routers', key) =>
                               i \in Live(routers') /\ ValueAt(routers', i) = ValueAt(routers, i)
    BY <1>1 DEF ListenDoes, AddedTo, Full
  <2>2. held' = {h \in held : h.kind # "router" \/ h.slot # KeyOf(routers', key)}
                \cup {Held("router", KeyOf(routers', key), sock)}
    BY <1>1 DEF ListenDoes, Hold
  <2>3. ASSUME NEW h \in held' \ held PROVE Names(h)'
    BY <2>1, <2>2 DEF Held, Names
  <2>4. ASSUME NEW h \in held \cap held', Names(h), ~Names(h)' PROVE Full(Map(h.kind))
    <3>1. CASE h.kind = "router"
      <4>1. CASE h.slot = KeyOf(routers', key)
        <5>1. h = Held("router", KeyOf(routers', key), sock)
          BY <2>2, <3>1, <4>1
        <5>2. Names(h)'
          BY <5>1, <2>1 DEF Held, Names
        <5> QED
          BY <5>2, <2>4
      <4>2. CASE h.slot # KeyOf(routers', key)
        BY <2>1, <2>4, <3>1, <4>2 DEF Names
      <4> QED
        BY <4>1, <4>2
    <3>2. CASE h.kind # "router"
      <4>1. dealers' = dealers
        BY <1>1 DEF ListenDoes
      <4> QED
        BY <4>1, <3>2, <2>4 DEF Names
    <3> QED
      BY <3>1, <3>2
  <2> QED
    BY <2>3, <2>4
<1>2. ASSUME NEW key \in Endpoints, NEW sock \in Pointers, Creation(key, sock), ConnectDoes(key, sock)
      PROVE  /\ \A h \in held' \ held : Names(h)'
             /\ \A h \in held \cap held' : Names(h) /\ ~Names(h)' => Full(Map(h.kind))
  <2>1. /\ KeyOf(dealers', key) \in Live(dealers') /\ ValueAt(dealers', KeyOf(dealers', key)) = sock
        /\ ~Full(dealers) => \A i \in Live(dealers) : i # KeyOf(dealers', key) =>
                               i \in Live(dealers') /\ ValueAt(dealers', i) = ValueAt(dealers, i)
    BY <1>2 DEF ConnectDoes, AddedTo, Full
  <2>2. held' = {h \in held : h.kind # "dealer" \/ h.slot # KeyOf(dealers', key)}
                \cup {Held("dealer", KeyOf(dealers', key), sock)}
    BY <1>2 DEF ConnectDoes, Hold
  <2>3. ASSUME NEW h \in held' \ held PROVE Names(h)'
    BY <2>1, <2>2 DEF Held, Names
  <2>4. ASSUME NEW h \in held \cap held', Names(h), ~Names(h)' PROVE Full(Map(h.kind))
    <3>1. CASE h.kind = "dealer"
      <4>1. CASE h.slot = KeyOf(dealers', key)
        <5>1. h = Held("dealer", KeyOf(dealers', key), sock)
          BY <2>2, <3>1, <4>1
        <5>2. Names(h)'
          BY <5>1, <2>1 DEF Held, Names
        <5> QED
          BY <5>2, <2>4
      <4>2. CASE h.slot # KeyOf(dealers', key)
        BY <2>1, <2>4, <3>1, <4>2 DEF Names
      <4> QED
        BY <4>1, <4>2
    <3>2. CASE h.kind # "dealer"
      <4>1. routers' = routers /\ h.kind = "router"
        BY <1>0, <1>2, <3>2 DEF ConnectDoes, Kinds
      <4> QED
        BY <4>1, <2>4 DEF Names
    <3> QED
      BY <3>1, <3>2
  <2> QED
    BY <2>3, <2>4
<1>3. ASSUME NEW g \in held, Close(g)
      PROVE  held' \subseteq held /\ \A h \in held \cap held' : Names(h) => Names(h)'
  <2>1. held' = held \ {g}
    BY <1>3 DEF Close, CloseRouter, CloseDealer
  <2>2. ASSUME NEW h \in held \cap held', Names(h) PROVE Names(h)'
    <3>1. g.kind # h.kind \/ g.slot # h.slot
      BY <2>1 DEF Inv, HeldOnce
    <3>2. CASE g.kind = "router" /\ CloseRouter(g)
      <4>1. DeletedFrom(routers, Del(routers, g.slot), Endpoints, Pointers, g.slot)
        BY DelMap DEF Inv, MapsGood
      <4>2. routers' = Del(routers, g.slot) /\ dealers' = dealers
        BY <3>2 DEF CloseRouter
      <4> QED
        BY <4>1, <4>2, <2>2, <3>1, <3>2 DEF DeletedFrom, Names, ValueAt
    <3>3. CASE g.kind = "dealer" /\ CloseDealer(g)
      <4>1. DeletedFrom(dealers, Del(dealers, g.slot), Endpoints, Pointers, g.slot)
        BY DelMap DEF Inv, MapsGood
      <4>2. dealers' = Del(dealers, g.slot) /\ routers' = routers
        BY <3>3 DEF CloseDealer
      <4>3. h.kind \in Kinds
        BY <1>0
      <4> QED
        BY <4>1, <4>2, <4>3, <2>2, <3>1, <3>3 DEF DeletedFrom, Names, ValueAt, Kinds
    <3> QED
      BY <1>3, <3>2, <3>3 DEF Close
  <2> QED
    BY <2>1, <2>2
<1>4. UNCHANGED <<routers, dealers, zmq, held, created>> =>
        held' = held /\ \A h \in held : Names(h) => Names(h)'
  BY DEF Names
<1>5. \A ep, sock : Creation(ep, sock) =>
        created' # created /\ (ListenDoes(ep, sock) \/ ConnectDoes(ep, sock))
  BY DEF Creation
<1> HIDE DEF Map
<1>6. CASE \E ep \in Endpoints, sock \in Pointers : Creation(ep, sock)
  BY <1>1, <1>2, <1>5, <1>6
<1>7. CASE \E h \in held : Close(h)
  BY <1>3, <1>7
<1> QED
  BY <1>4, <1>6, <1>7, Steps

\* "A socket handle used to represent a specific connection"
\* (docs/source/api/api_c/api_c_linq_network_socket.rst): netw_listen and netw_connect return
\* a handle of their socket, and it goes bad only in one of them, on a map that is full, or at
\* the end; never because another connection is closed.
THEOREM HandlesStayGood == Spec => HandlesHold
<1>1. Inv /\ [Next]_vars =>
        [/\ \A h \in held' \ held : Names(h)'
         /\ \A h \in held \cap held' :
              Names(h) /\ ~Names(h)' => created' # created /\ Full(Map(h.kind))]_vars
  BY HandlesStep
<1> QED
  BY <1>1, Invariant, PTL DEF Spec, HandlesHold

---------------------------------------------------------------------------
(* The nodes of connections *)

\* ConnectionHasNode, by the entries of the map instead of their slots
NodeOfEntry ==
  \A en \in Entries(dealers) : en[1] \in DOMAIN nodes /\ nodes[en[1]].sock = en[2]

\* Both forms say the same.
LEMMA EntriesBySlot ==
  ASSUME NEW t
  PROVE  /\ \A i \in Live(t) : <<t.slots[i].key, t.slots[i].val>> \in Entries(t)
         /\ \A en \in Entries(t) :
              \E i \in Live(t) : en = <<t.slots[i].key, t.slots[i].val>>
BY DEF Entries

\* The entries are pairs of a key and a value.
LEMMA EntryKeys ==
  ASSUME NEW K, NEW V, NEW t, GoodMap(t, K, V), NEW en \in Entries(t)
  PROVE  en[1] \in K /\ en[2] \in V
<1>1. PICK i \in Live(t) : en = <<t.slots[i].key, t.slots[i].val>>
  BY EntriesBySlot
<1>2. t.slots[i].key \in K /\ t.slots[i].val \in V
  BY GoodEntries
<1> QED
  BY <1>1, <1>2

\* NodeOfEntry is kept by each step.
LEMMA NodeStep ==
  ASSUME Inv, NodeOfEntry, [Next]_vars
  PROVE  NodeOfEntry'
<1> USE DEF NodeOfEntry
<1>1. ASSUME NEW key \in Endpoints, NEW sock \in Pointers, Connect(key), ConnectDoes(key, sock),
             sock = Socket(created + 1)
      PROVE  NodeOfEntry'
  <2>1. Entries(dealers') = {en \in Entries(dealers) : en[1] # key} \cup {<<key, sock>>}
    BY <1>1 DEF ConnectDoes, AddedTo
  <2>2. nodes' = With(nodes, key, [sock |-> sock, router |-> FALSE])
    BY <1>1 DEF Connect
  <2>3. ASSUME NEW en \in Entries(dealers') PROVE en[1] \in DOMAIN nodes' /\ nodes'[en[1]].sock = en[2]
    <3>1. CASE en = <<key, sock>>
      BY <3>1, <2>2 DEF With
    <3>2. CASE en \in Entries(dealers) /\ en[1] # key
      BY <3>2, <2>2 DEF With
    <3> QED
      BY <3>1, <3>2, <2>1
  <2> QED
    BY <2>3
<1>2. ASSUME NEW ep \in Endpoints, Listen(ep) PROVE NodeOfEntry'
  BY <1>2 DEF Listen
<1>3. ASSUME NEW h \in held, CloseDealer(h) PROVE NodeOfEntry'
  <2>1. DeletedFrom(dealers, Del(dealers, h.slot), Endpoints, Pointers, h.slot)
    BY DelMap DEF Inv, MapsGood
  <2>2. Entries(dealers') \subseteq Entries(dealers)
    BY <2>1, <1>3 DEF CloseDealer, DeletedFrom
  <2>3. \A x \in DOMAIN nodes : nodes[x].sock \in Pointers
    BY DEF Inv, TypeOK
  <2>4. /\ DOMAIN nodes' = DOMAIN nodes
        /\ \A x \in DOMAIN nodes : nodes'[x] = nodes[x]
    BY <2>3, <1>3, NothingRemoved DEF CloseDealer
  <2> QED
    BY <2>2, <2>4
<1>4. ASSUME NEW h \in held, CloseRouter(h) PROVE NodeOfEntry'
  BY <1>4 DEF CloseRouter
<1>5. CASE Destroy
  <2>1. dealers.hash \in [Endpoints -> Nat]
    BY GoodHash DEF Inv, MapsGood
  <2>2. Entries(dealers') = {}
    BY <1>5, <2>1, EmptyMapGood DEF Destroy
  <2> QED
    BY <2>2
<1>6. ASSUME NEW s \in PollSet, NEW peer \in Peers, Hello(s, peer) PROVE NodeOfEntry'
  <2>1. \A en \in Entries(dealers) : en[1] \in Endpoints
    BY EntryKeys DEF Inv, MapsGood
  <2>2. peer \notin Endpoints
    BY SocketsAssumption
  <2>3. dealers' = dealers
    BY <1>6 DEF Hello
  <2>4. /\ DOMAIN nodes \subseteq DOMAIN nodes'
        /\ \A k \in DOMAIN nodes : k # peer => nodes'[k] = nodes[k]
    BY <1>6 DEF Hello, With
  <2> QED
    BY <2>1, <2>2, <2>3, <2>4
<1>7. ASSUME \/ \E sid \in DOMAIN devices : RemoveDevice(sid)
             \/ PollAsserts
             \/ \E s \in PollSet, sid \in Serials, broadcast \in BOOLEAN : Heartbeat(s, sid, broadcast)
             \/ UNCHANGED vars
      PROVE  NodeOfEntry'
  BY <1>7 DEF RemoveDevice, PollAsserts, Heartbeat, vars
<1>8. ASSUME NEW ep \in Endpoints, Connect(ep) PROVE NodeOfEntry'
  <2> DEFINE sock == Socket(created + 1)
  <2>1. created \in 0..MaxSockets /\ created < MaxSockets /\ MaxSockets \in Nat
    BY <1>8, SocketsAssumption DEF Inv, TypeOK, Connect, Creates
  <2>2. sock \in Pointers
    BY <2>1, FreshPointer
  <2>3. AddedTo(dealers, Add(dealers, ep, sock), Endpoints, Pointers, ep, sock)
    BY <2>2, AddMap DEF Inv, MapsGood
  <2>4. ConnectDoes(ep, sock)
    BY <1>8, <2>3 DEF Connect, ConnectDoes
  <2> HIDE DEF NodeOfEntry
  <2> QED
    BY <1>1, <1>8, <2>2, <2>4
<1> HIDE DEF NodeOfEntry
<1> QED
  BY <1>2, <1>3, <1>4, <1>5, <1>6, <1>7, <1>8 DEF Next, Close

\* Each connection to another instance has a node of its socket, also after it was connected
\* anew: heartbeats and alerts are passed on to it.
THEOREM ConnectionsHaveNodes == Spec => []ConnectionHasNode
<1>1. Init => NodeOfEntry
  <2> SUFFICES ASSUME Init PROVE NodeOfEntry
    OBVIOUS
  <2>1. PICK hash \in [Endpoints -> HashValues] : dealers = EmptyMap(hash)
    BY DEF Init
  <2>2. hash \in [Endpoints -> Nat]
    BY SocketsAssumption
  <2>3. Entries(dealers) = {}
    BY <2>1, <2>2, EmptyMapGood
  <2> QED
    BY <2>3 DEF NodeOfEntry
<1>2. Inv /\ NodeOfEntry /\ [Next]_vars => NodeOfEntry'
  BY NodeStep
<1>3. NodeOfEntry => ConnectionHasNode
  <2> SUFFICES ASSUME NodeOfEntry, NEW i \in Live(dealers)
               PROVE  /\ dealers.slots[i].key \in DOMAIN nodes
                      /\ nodes[dealers.slots[i].key].sock = dealers.slots[i].val
    BY DEF ConnectionHasNode
  <2> DEFINE en == <<dealers.slots[i].key, dealers.slots[i].val>>
  <2>1. en \in Entries(dealers)
    BY EntriesBySlot
  <2>2. en[1] = dealers.slots[i].key /\ en[2] = dealers.slots[i].val
    OBVIOUS
  <2> HIDE DEF en
  <2> QED
    BY <2>1, <2>2 DEF NodeOfEntry
<1> QED
  BY <1>1, <1>2, <1>3, Invariant, PTL DEF Spec

---------------------------------------------------------------------------
(* The sockets that are open *)

Values(t) == {en[2] : en \in Entries(t)}

\* zmtp_poll polls the values of both maps.
LEMMA PollSetIsValues == PollSet = Values(routers) \cup Values(dealers)
<1>1. \A t : {t.slots[i].val : i \in Live(t)} = Values(t)
  <2> SUFFICES ASSUME NEW t PROVE {t.slots[i].val : i \in Live(t)} = Values(t)
    OBVIOUS
  <2>1. ASSUME NEW i \in Live(t) PROVE t.slots[i].val \in Values(t)
    <3>1. <<t.slots[i].key, t.slots[i].val>> \in Entries(t)
      BY EntriesBySlot
    <3>2. <<t.slots[i].key, t.slots[i].val>>[2] = t.slots[i].val
      OBVIOUS
    <3> QED
      BY <3>1, <3>2 DEF Values
  <2>2. ASSUME NEW en \in Entries(t) PROVE \E i \in Live(t) : en[2] = t.slots[i].val
    BY EntriesBySlot
  <2> QED
    BY <2>1, <2>2 DEF Values
<1> QED
  BY <1>1 DEF PollSet

\* A map to which a new key is added
LEMMA AddValues ==
  ASSUME NEW K, NEW V, NEW t, NEW u, NEW key, NEW val, AddedTo(t, u, K, V, key, val),
         \A en \in Entries(t) : en[1] # key
  PROVE  Entries(u) = Entries(t) \cup {<<key, val>>} /\ Values(u) = Values(t) \cup {val}
<1>1. Entries(u) = Entries(t) \cup {<<key, val>>}
  BY DEF AddedTo
<1>2. <<key, val>>[2] = val
  OBVIOUS
<1> QED
  BY <1>1, <1>2 DEF Values

\* A map from which the entry of a slot is removed, when no other has its value
LEMMA DelValues ==
  ASSUME NEW K, NEW V, NEW t, NEW u, NEW x \in Live(t), DeletedFrom(t, u, K, V, x),
         \A i, j \in Live(t) : t.slots[i].val = t.slots[j].val => i = j
  PROVE  Values(u) = Values(t) \ {ValueAt(t, x)}
<1>1. Live(u) = Live(t) \ {x} /\ \A i \in Live(u) : u.slots[i] = t.slots[i]
  BY DEF DeletedFrom
<1>2. ASSUME NEW v \in Values(u) PROVE v \in Values(t) /\ v # ValueAt(t, x)
  <2>1. PICK en \in Entries(u) : v = en[2]
    BY <1>2 DEF Values
  <2>2. PICK i \in Live(u) : en = <<u.slots[i].key, u.slots[i].val>>
    BY EntriesBySlot
  <2>3. i \in Live(t) /\ i # x /\ en = <<t.slots[i].key, t.slots[i].val>>
    BY <2>2, <1>1
  <2>4. en \in Entries(t) /\ v = t.slots[i].val
    BY <2>1, <2>3, EntriesBySlot
  <2> QED
    BY <2>1, <2>3, <2>4 DEF Values, ValueAt
<1>3. ASSUME NEW v \in Values(t), v # ValueAt(t, x) PROVE v \in Values(u)
  <2>1. PICK en \in Entries(t) : v = en[2]
    BY <1>3 DEF Values
  <2>2. PICK i \in Live(t) : en = <<t.slots[i].key, t.slots[i].val>>
    BY EntriesBySlot
  <2>3. i # x
    BY <2>1, <2>2, <1>3 DEF ValueAt
  <2>4. i \in Live(u) /\ en = <<u.slots[i].key, u.slots[i].val>>
    BY <2>2, <2>3, <1>1
  <2>5. en \in Entries(u)
    BY <2>4, EntriesBySlot
  <2> QED
    BY <2>1, <2>5 DEF Values
<1> QED
  BY <1>2, <1>3

\* Each entry is for an open socket of its endpoint.
OfEndpoint(t, kind) ==
  \A en \in Entries(t) : en[2] \in DOMAIN zmq /\ zmq[en[2]] = <<kind, en[1]>>

Named == \A h \in held : Names(h)

\* While the library runs and every handle is good
PolledInv ==
  lib = "running" =>
    /\ DOMAIN zmq = Values(routers) \cup Values(dealers)
    /\ DOMAIN zmq \subseteq {Socket(n) : n \in 1..created}
    /\ OfEndpoint(routers, "router") /\ OfEndpoint(dealers, "dealer")
    /\ Named

\* The values of a map are different when they are sockets of their endpoints.
LEMMA DifferentValues ==
  ASSUME NEW V, NEW t, GoodMap(t, Endpoints, V), NEW kind, OfEndpoint(t, kind)
  PROVE  \A i, j \in Live(t) : t.slots[i].val = t.slots[j].val => i = j
<1> SUFFICES ASSUME NEW i \in Live(t), NEW j \in Live(t), t.slots[i].val = t.slots[j].val
             PROVE  i = j
  OBVIOUS
<1>1. \A x \in Live(t) : zmq[t.slots[x].val] = <<kind, t.slots[x].key>>
  <2> SUFFICES ASSUME NEW x \in Live(t) PROVE zmq[t.slots[x].val] = <<kind, t.slots[x].key>>
    OBVIOUS
  <2> DEFINE en == <<t.slots[x].key, t.slots[x].val>>
  <2>1. en \in Entries(t)
    BY EntriesBySlot
  <2>2. en[1] = t.slots[x].key /\ en[2] = t.slots[x].val
    OBVIOUS
  <2> HIDE DEF en
  <2> QED
    BY <2>1, <2>2 DEF OfEndpoint
<1>2. <<kind, t.slots[i].key>> = <<kind, t.slots[j].key>>
  BY <1>1
<1>3. t.slots[i].key = t.slots[j].key
  BY <1>2
<1> QED
  BY <1>3, GoodEntries

\* No socket is in both maps.
LEMMA Disjoint ==
  ASSUME NEW t, NEW u, OfEndpoint(t, "router"), OfEndpoint(u, "dealer")
  PROVE  Values(t) \cap Values(u) = {}
<1> SUFFICES ASSUME NEW v \in Values(t), v \in Values(u) PROVE FALSE
  OBVIOUS
<1>1. \E k : zmq[v] = <<"router", k>>
  BY DEF Values, OfEndpoint
<1>2. \E k : zmq[v] = <<"dealer", k>>
  BY DEF Values, OfEndpoint
<1> QED
  BY <1>1, <1>2

\* The library does not start again.
LEMMA StillRunning ==
  ASSUME [Next]_vars, lib' = "running"
  PROVE  lib = "running"
BY DEF Next, vars, Close, CloseRouter, CloseDealer, RemoveDevice, Destroy, PollAsserts,
       Hello, Heartbeat, Polls, Listen, Connect, Creates

\* Handles that were good are good after the step.
Stay == \A h \in held \cap held' : Names(h) => Names(h)'

\* With Stay the handles that are held are good.
LEMMA NamedStep ==
  ASSUME Inv, [Next]_vars, Named, Stay
  PROVE  Named'
BY HandlesStep DEF Named, Stay

\* netw_listen on an endpoint that is not in use
LEMMA PolledListen ==
  ASSUME Inv, PolledInv, ~Again, lib = "running", [Next]_vars, Stay,
         NEW key \in Endpoints, NEW sock \in Pointers, Creation(key, sock), ListenDoes(key, sock)
  PROVE  PolledInv'
<1>1. /\ DOMAIN zmq = Values(routers) \cup Values(dealers)
      /\ DOMAIN zmq \subseteq {Socket(n) : n \in 1..created}
      /\ OfEndpoint(routers, "router") /\ OfEndpoint(dealers, "dealer")
      /\ Named
  BY DEF PolledInv
<1>2. created \in Nat /\ MaxSockets \in Nat /\ created' = created + 1 /\ sock = Socket(created')
  BY SocketsAssumption DEF Inv, TypeOK, Creation
<1>3. sock \notin DOMAIN zmq
  <2>1. \A n \in 1..created : Socket(n) # Socket(created + 1)
    BY <1>2 DEF Socket
  <2> QED
    BY <2>1, <1>1, <1>2
<1>4. \A en \in Entries(routers) : en[1] # key
  <2>1. \A s \in DOMAIN zmq : zmq[s] # <<"router", key>>
    BY DEF ListenDoes, Listen
  <2> QED
    BY <2>1, <1>1 DEF OfEndpoint
<1>5. /\ AddedTo(routers, routers', Endpoints, Pointers, key, sock) /\ dealers' = dealers
      /\ zmq' = With(zmq, sock, <<"router", key>>)
  BY DEF ListenDoes
<1>6. /\ Entries(routers') = Entries(routers) \cup {<<key, sock>>}
      /\ Values(routers') = Values(routers) \cup {sock}
  BY <1>4, <1>5, AddValues
<1>7. /\ DOMAIN zmq' = DOMAIN zmq \cup {sock} /\ zmq'[sock] = <<"router", key>>
      /\ \A en \in Entries(routers) : en[2] \in DOMAIN zmq' /\ zmq'[en[2]] = <<"router", en[1]>>
      /\ \A en \in Entries(dealers) : en[2] \in DOMAIN zmq' /\ zmq'[en[2]] = <<"dealer", en[1]>>
  BY <1>1, <1>3, <1>5 DEF With, OfEndpoint
<1>8. OfEndpoint(routers, "router")' /\ OfEndpoint(dealers, "dealer")'
  <2>1. ASSUME NEW en \in Entries(routers')
        PROVE  en[2] \in DOMAIN zmq' /\ zmq'[en[2]] = <<"router", en[1]>>
    <3>1. CASE en = <<key, sock>>
      BY <3>1, <1>7
    <3>2. CASE en \in Entries(routers)
      BY <3>2, <1>7
    <3> QED
      BY <3>1, <3>2, <1>6
  <2> QED
    BY <2>1, <1>5, <1>7 DEF OfEndpoint
<1>9. DOMAIN zmq' \subseteq {Socket(n) : n \in 1..created'}
  <2>1. DOMAIN zmq \subseteq {Socket(n) : n \in 1..created'}
    BY <1>1, <1>2
  <2>2. sock \in {Socket(n) : n \in 1..created'}
    BY <1>2
  <2> QED
    BY <2>1, <2>2, <1>7
<1>10. DOMAIN zmq' = Values(routers') \cup Values(dealers')
  BY <1>1, <1>5, <1>6, <1>7
<1>11. Named'
  BY <1>1, NamedStep
<1> QED
  BY <1>8, <1>9, <1>10, <1>11 DEF PolledInv

\* netw_connect on an endpoint that is not in use
LEMMA PolledConnect ==
  ASSUME Inv, PolledInv, ~Again, lib = "running", [Next]_vars, Stay,
         NEW key \in Endpoints, NEW sock \in Pointers, Creation(key, sock), ConnectDoes(key, sock)
  PROVE  PolledInv'
<1>1. /\ DOMAIN zmq = Values(routers) \cup Values(dealers)
      /\ DOMAIN zmq \subseteq {Socket(n) : n \in 1..created}
      /\ OfEndpoint(routers, "router") /\ OfEndpoint(dealers, "dealer")
      /\ Named
  BY DEF PolledInv
<1>2. created \in Nat /\ MaxSockets \in Nat /\ created' = created + 1 /\ sock = Socket(created')
  BY SocketsAssumption DEF Inv, TypeOK, Creation
<1>3. sock \notin DOMAIN zmq
  <2>1. \A n \in 1..created : Socket(n) # Socket(created + 1)
    BY <1>2 DEF Socket
  <2> QED
    BY <2>1, <1>1, <1>2
<1>4. ASSUME NEW en \in Entries(dealers) PROVE en[1] # key
  <2>1. Lookup(dealers, key) = {}
    BY DEF ConnectDoes, Connect
  <2>2. \A v : <<key, v>> \notin Entries(dealers)
    BY <2>1, GoodEntries DEF Inv, MapsGood
  <2>3. PICK i \in Live(dealers) : en = <<dealers.slots[i].key, dealers.slots[i].val>>
    BY EntriesBySlot
  <2> QED
    BY <2>2, <2>3
<1>5. /\ AddedTo(dealers, dealers', Endpoints, Pointers, key, sock) /\ routers' = routers
      /\ zmq' = With(zmq, sock, <<"dealer", key>>)
  BY DEF ConnectDoes
<1>6. /\ Entries(dealers') = Entries(dealers) \cup {<<key, sock>>}
      /\ Values(dealers') = Values(dealers) \cup {sock}
  BY <1>4, <1>5, AddValues
<1>7. /\ DOMAIN zmq' = DOMAIN zmq \cup {sock} /\ zmq'[sock] = <<"dealer", key>>
      /\ \A en \in Entries(routers) : en[2] \in DOMAIN zmq' /\ zmq'[en[2]] = <<"router", en[1]>>
      /\ \A en \in Entries(dealers) : en[2] \in DOMAIN zmq' /\ zmq'[en[2]] = <<"dealer", en[1]>>
  BY <1>1, <1>3, <1>5 DEF With, OfEndpoint
<1>8. OfEndpoint(routers, "router")' /\ OfEndpoint(dealers, "dealer")'
  <2>1. ASSUME NEW en \in Entries(dealers')
        PROVE  en[2] \in DOMAIN zmq' /\ zmq'[en[2]] = <<"dealer", en[1]>>
    <3>1. CASE en = <<key, sock>>
      BY <3>1, <1>7
    <3>2. CASE en \in Entries(dealers)
      BY <3>2, <1>7
    <3> QED
      BY <3>1, <3>2, <1>6
  <2> QED
    BY <2>1, <1>5, <1>7 DEF OfEndpoint
<1>9. DOMAIN zmq' \subseteq {Socket(n) : n \in 1..created'}
  <2>1. DOMAIN zmq \subseteq {Socket(n) : n \in 1..created'}
    BY <1>1, <1>2
  <2>2. sock \in {Socket(n) : n \in 1..created'}
    BY <1>2
  <2> QED
    BY <2>1, <2>2, <1>7
<1>10. DOMAIN zmq' = Values(routers') \cup Values(dealers')
  BY <1>1, <1>5, <1>6, <1>7
<1>11. Named'
  BY <1>1, NamedStep
<1> QED
  BY <1>8, <1>9, <1>10, <1>11 DEF PolledInv

\* zmtp_close_router and zmtp_close_dealer close the socket of the handle.
LEMMA PolledClose ==
  ASSUME Inv, PolledInv, lib = "running", [Next]_vars, Stay, NEW h \in held, Close(h)
  PROVE  PolledInv'
<1>1. /\ DOMAIN zmq = Values(routers) \cup Values(dealers)
      /\ DOMAIN zmq \subseteq {Socket(n) : n \in 1..created}
      /\ OfEndpoint(routers, "router") /\ OfEndpoint(dealers, "dealer")
      /\ Named
  BY DEF PolledInv
<1>2. Named' /\ created' = created
  BY <1>1, NamedStep DEF Close, CloseRouter, CloseDealer
<1>3. Names(h)
  BY <1>1 DEF Named
<1>4. Values(routers) \cap Values(dealers) = {}
  BY <1>1, Disjoint
<1> DEFINE Closed(t, u, kind, slot) ==
      /\ Entries(u) \subseteq Entries(t) /\ Values(u) = Values(t) \ {ValueAt(t, slot)}
      /\ ValueAt(t, slot) \in Values(t)
<1>5. ASSUME NEW t, GoodMap(t, Endpoints, Pointers), NEW kind, OfEndpoint(t, kind),
             NEW slot \in Live(t)
      PROVE  Closed(t, Del(t, slot), kind, slot)
  <2>1. DeletedFrom(t, Del(t, slot), Endpoints, Pointers, slot)
    BY <1>5, DelMap
  <2>2. \A i, j \in Live(t) : t.slots[i].val = t.slots[j].val => i = j
    BY <1>5, DifferentValues
  <2>3. Values(Del(t, slot)) = Values(t) \ {ValueAt(t, slot)}
    BY <2>1, <2>2, DelValues
  <2>4. ValueAt(t, slot) \in Values(t)
    <3>1. <<t.slots[slot].key, t.slots[slot].val>> \in Entries(t)
      BY EntriesBySlot
    <3>2. <<t.slots[slot].key, t.slots[slot].val>>[2] = t.slots[slot].val
      OBVIOUS
    <3> QED
      BY <3>1, <3>2 DEF Values, ValueAt
  <2> QED
    BY <2>1, <2>3, <2>4 DEF DeletedFrom
<1>6. \A t : \A en \in Entries(t) : en[2] \in Values(t)
  BY DEF Values
<1>7. CASE h.kind = "router" /\ CloseRouter(h)
  <2>1. h.slot \in Live(routers)
    BY <1>3, <1>7 DEF Names, Map
  <2>2. Closed(routers, Del(routers, h.slot), "router", h.slot)
    BY <2>1, <1>1, <1>5 DEF Inv, MapsGood
  <2>3. /\ routers' = Del(routers, h.slot) /\ dealers' = dealers
        /\ zmq' = Only(zmq, DOMAIN zmq \ {ValueAt(routers, h.slot)})
    BY <1>7 DEF CloseRouter
  <2>4. /\ Entries(routers') \subseteq Entries(routers)
        /\ Values(routers') = Values(routers) \ {ValueAt(routers, h.slot)}
        /\ ValueAt(routers, h.slot) \in Values(routers)
    BY <2>2, <2>3
  <2>5. /\ DOMAIN zmq' = DOMAIN zmq \ {ValueAt(routers, h.slot)}
        /\ \A s \in DOMAIN zmq' : zmq'[s] = zmq[s]
    BY <2>3 DEF Only
  <2>6. DOMAIN zmq' = Values(routers') \cup Values(dealers')
    BY <2>3, <2>4, <2>5, <1>1, <1>4
  <2>7. /\ \A en \in Entries(routers') : en \in Entries(routers) /\ en[2] \in DOMAIN zmq'
        /\ \A en \in Entries(dealers') : en \in Entries(dealers) /\ en[2] \in DOMAIN zmq'
    BY <2>3, <2>4, <2>6, <1>6
  <2>8. OfEndpoint(routers, "router")' /\ OfEndpoint(dealers, "dealer")'
    BY <2>5, <2>7, <1>1 DEF OfEndpoint
  <2> QED
    BY <2>5, <2>6, <2>8, <1>1, <1>2 DEF PolledInv
<1>8. CASE h.kind = "dealer" /\ CloseDealer(h)
  <2>1. h.slot \in Live(dealers)
    BY <1>3, <1>8 DEF Names, Map
  <2>2. Closed(dealers, Del(dealers, h.slot), "dealer", h.slot)
    BY <2>1, <1>1, <1>5 DEF Inv, MapsGood
  <2>3. /\ dealers' = Del(dealers, h.slot) /\ routers' = routers
        /\ zmq' = Only(zmq, DOMAIN zmq \ {ValueAt(dealers, h.slot)})
    BY <1>8 DEF CloseDealer
  <2>4. /\ Entries(dealers') \subseteq Entries(dealers)
        /\ Values(dealers') = Values(dealers) \ {ValueAt(dealers, h.slot)}
        /\ ValueAt(dealers, h.slot) \in Values(dealers)
    BY <2>2, <2>3
  <2>5. /\ DOMAIN zmq' = DOMAIN zmq \ {ValueAt(dealers, h.slot)}
        /\ \A s \in DOMAIN zmq' : zmq'[s] = zmq[s]
    BY <2>3 DEF Only
  <2>6. DOMAIN zmq' = Values(routers') \cup Values(dealers')
    BY <2>3, <2>4, <2>5, <1>1, <1>4
  <2>7. /\ \A en \in Entries(routers') : en \in Entries(routers) /\ en[2] \in DOMAIN zmq'
        /\ \A en \in Entries(dealers') : en \in Entries(dealers) /\ en[2] \in DOMAIN zmq'
    BY <2>3, <2>4, <2>6, <1>6
  <2>8. OfEndpoint(routers, "router")' /\ OfEndpoint(dealers, "dealer")'
    BY <2>5, <2>7, <1>1 DEF OfEndpoint
  <2> QED
    BY <2>5, <2>6, <2>8, <1>1, <1>2 DEF PolledInv
<1> QED
  BY <1>7, <1>8 DEF Close

\* Each step that leaves the handles good keeps the sockets polled.
LEMMA PolledStep ==
  ASSUME Inv, PolledInv, ~Again, [Next]_vars, Stay
  PROVE  PolledInv'
<1> SUFFICES ASSUME lib' = "running" PROVE PolledInv'
  BY DEF PolledInv
<1>1. lib = "running"
  BY StillRunning
<1>2. CASE \E ep \in Endpoints, sock \in Pointers : Creation(ep, sock)
  BY <1>1, <1>2, PolledListen, PolledConnect DEF Creation
<1>3. CASE \E h \in held : Close(h)
  BY <1>1, <1>3, PolledClose
<1>4. CASE Destroy
  BY <1>4 DEF Destroy
<1>5. CASE UNCHANGED <<routers, dealers, zmq, held, created>>
  <2>1. Named'
    BY <1>1, NamedStep DEF PolledInv
  <2> QED
    BY <2>1, <1>1, <1>5 DEF PolledInv, OfEndpoint
<1> QED
  BY <1>2, <1>3, <1>4, <1>5, Steps

---------------------------------------------------------------------------
(* OpenIsPolled *)

\* Nothing is open at first.
LEMMA PolledInit == Init => PolledInv
<1> SUFFICES ASSUME Init PROVE PolledInv
  OBVIOUS
<1>1. PICK hash \in [Endpoints -> HashValues] : routers = EmptyMap(hash) /\ dealers = EmptyMap(hash)
  BY DEF Init
<1>2. hash \in [Endpoints -> Nat]
  BY SocketsAssumption
<1>3. Entries(routers) = {} /\ Entries(dealers) = {}
  BY <1>1, <1>2, EmptyMapGood
<1>4. Values(routers) = {} /\ Values(dealers) = {}
  BY <1>3 DEF Values
<1>5. zmq = <<>> /\ held = {}
  BY DEF Init
<1>6. DOMAIN zmq = {}
  BY <1>5
<1> QED
  BY <1>3, <1>4, <1>5, <1>6 DEF PolledInv, OfEndpoint, Named

\* OpenIsPolled follows.
LEMMA PolledImplies == PolledInv => OpenIsPolled
BY PollSetIsValues DEF PolledInv, OpenIsPolled

\* An application that never uses an endpoint twice, and whose handles stay good: the open
\* sockets are the ones that are polled, and the ones netw_destroy closes.
THEOREM OpenSocketsPolled ==
  ASSUME ~Again
  PROVE  Spec /\ [][Stay]_vars => []OpenIsPolled
<1>1. Inv /\ PolledInv /\ [Next]_vars /\ [Stay]_vars => PolledInv'
  <2> SUFFICES ASSUME Inv, PolledInv, [Next]_vars, [Stay]_vars PROVE PolledInv'
    OBVIOUS
  <2>1. Stay
    BY DEF vars, Stay, Names, Map
  <2> QED
    BY <2>1, PolledStep
<1> QED
  BY <1>1, PolledInit, PolledImplies, Invariant, PTL DEF Spec

\* The entries of the maps, deleted ones included, are no more than the sockets created.
CountInv == routers.occupied + dealers.occupied <= created

\* Each socket that is created uses one more slot at most.
LEMMA CountStep ==
  ASSUME Inv, CountInv, [Next]_vars
  PROVE  CountInv'
<1>1. /\ routers.occupied \in Nat /\ dealers.occupied \in Nat
      /\ routers'.occupied \in Nat /\ dealers'.occupied \in Nat
  <2>1. Inv'
    BY StepInv
  <2> QED
    BY <2>1, GoodEntries DEF Inv, MapsGood
<1>2. created \in Nat
  BY SocketsAssumption DEF Inv, TypeOK
<1>3. ASSUME NEW ep \in Endpoints, NEW sock \in Pointers, Creation(ep, sock) PROVE CountInv'
  BY <1>1, <1>2, <1>3 DEF Creation, ListenDoes, ConnectDoes, AddedTo, CountInv
<1>4. ASSUME NEW h \in held, Close(h) PROVE CountInv'
  <2>1. DeletedFrom(routers, Del(routers, h.slot), Endpoints, Pointers, h.slot)
    BY DelMap DEF Inv, MapsGood
  <2>2. DeletedFrom(dealers, Del(dealers, h.slot), Endpoints, Pointers, h.slot)
    BY DelMap DEF Inv, MapsGood
  <2>3. CASE CloseRouter(h)
    BY <2>1, <2>3 DEF CloseRouter, CountInv, DeletedFrom
  <2>4. CASE CloseDealer(h)
    BY <2>2, <2>4 DEF CloseDealer, CountInv, DeletedFrom
  <2> QED
    BY <1>4, <2>3, <2>4 DEF Close
<1>5. CASE Destroy
  <2>1. routers.hash \in [Endpoints -> Nat] /\ dealers.hash \in [Endpoints -> Nat]
    BY GoodHash DEF Inv, MapsGood
  <2>2. routers'.occupied = 0 /\ dealers'.occupied = 0
    BY <1>5, <2>1, EmptyMapGood DEF Destroy
  <2> QED
    BY <1>2, <1>5, <2>2 DEF CountInv, Destroy
<1>6. CASE UNCHANGED <<routers, dealers, zmq, held, created>>
  BY <1>6 DEF CountInv
<1> QED
  BY <1>3, <1>4, <1>5, <1>6, Steps

\* With three sockets no map that has entries is full.
LEMMA StayStep ==
  ASSUME Inv, PolledInv, CountInv, [Next]_vars, MaxSockets <= 3
  PROVE  Stay
<1> SUFFICES ASSUME NEW h \in held \cap held', Names(h), ~Names(h)' PROVE FALSE
  BY DEF Stay
<1>1. created' # created /\ Full(Map(h.kind))
  BY HandlesStep
<1>2. created \in Nat /\ created < MaxSockets /\ MaxSockets \in Nat
  <2>1. \E ep \in Endpoints : Listen(ep) \/ Connect(ep)
    <3>1. \E ep \in Endpoints, sock \in Pointers : Creation(ep, sock)
      BY <1>1, Steps DEF Destroy
    <3> QED
      BY <3>1 DEF Creation, ListenDoes, ConnectDoes
  <2> QED
    BY <2>1, SocketsAssumption DEF Listen, Connect, Creates, Inv, TypeOK
<1>3. GoodMap(Map(h.kind), Endpoints, Pointers) /\ Map(h.kind).occupied <= created
  <2>1. routers.occupied \in Nat /\ dealers.occupied \in Nat
    BY GoodEntries DEF Inv, MapsGood
  <2> QED
    BY <2>1, <1>2 DEF Inv, MapsGood, CountInv, Map
<1>4. Live(Map(h.kind)) # {}
  BY DEF Names
<1>5. UpperBound(Buckets(Map(h.kind))) >= 3 /\ Map(h.kind).occupied \in Nat
  BY <1>3, <1>4, GoodEntries
<1>6. Map(h.kind).occupied >= UpperBound(Buckets(Map(h.kind)))
  BY <1>1 DEF Full
<1>7. \A x \in Nat : x < 3 => ~(x >= UpperBound(Buckets(Map(h.kind))))
  <2>1. UpperBound(Buckets(Map(h.kind))) \in Int
    <3>1. PICK n \in Sizes : Good(Map(h.kind), Endpoints, Pointers, n)
      BY <1>3 DEF GoodMap
    <3>2. Buckets(Map(h.kind)) \in Nat
      BY <3>1, GoodBuckets
    <3> QED
      BY <3>2 DEF UpperBound
  <2> QED
    BY <2>1, <1>5
<1> QED
  BY <1>2, <1>3, <1>5, <1>6, <1>7

\* An application that creates up to three sockets, and none twice on an endpoint in use:
\* nothing more is needed, for its handles stay good.
THEOREM FewSocketsPolled ==
  ASSUME ~Again, MaxSockets <= 3
  PROVE  Spec => []OpenIsPolled
<1>1. Init => CountInv
  <2> SUFFICES ASSUME Init PROVE CountInv
    OBVIOUS
  <2>1. PICK hash \in [Endpoints -> HashValues] : routers = EmptyMap(hash) /\ dealers = EmptyMap(hash)
    BY DEF Init
  <2>2. hash \in [Endpoints -> Nat]
    BY SocketsAssumption
  <2>3. routers.occupied = 0 /\ dealers.occupied = 0
    BY <2>1, <2>2, EmptyMapGood
  <2> QED
    BY <2>3 DEF Init, CountInv
<1>2. Inv /\ PolledInv /\ CountInv /\ [Next]_vars => PolledInv' /\ CountInv'
  BY PolledStep, CountStep, StayStep
<1> QED
  BY <1>1, <1>2, PolledInit, PolledImplies, Invariant, PTL DEF Spec

=============================================================================
