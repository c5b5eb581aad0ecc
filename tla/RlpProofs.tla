----------------------------- MODULE RlpProofs -----------------------------
(***************************************************************************)
(* Proofs that what rlp_print writes rlp_parse reads, for trees of any     *)
(* depth and strings of any bytes.                                         *)
(*                                                                         *)
(* Every recursive function here counts to a number, and what it computes  *)
(* is proved by induction on that number, with a set of numbers in the     *)
(* place of a predicate (NumbersUpTo).                                     *)
(***************************************************************************)
EXTENDS Rlp, SequenceTheorems, WellFoundedInduction, TLAPS

---------------------------------------------------------------------------
(* Induction *)

\* A set that holds 0, and with each number below n the next, holds the numbers up to n.
LEMMA NumbersUpTo ==
  ASSUME NEW n \in Nat, NEW S, 0 \in S, \A k \in 0..n : k \in S /\ k < n => k + 1 \in S
  PROVE  0..n \subseteq S
<1> SUFFICES ASSUME NEW y \in (0..n) \ S PROVE FALSE
  OBVIOUS
<1>1. PICK x \in (0..n) \ S : \A z \in (0..n) \ S : ~(z < x)
  <2>1. IsWellFoundedOn(OpToRel(<, Nat), Nat)
    BY NatLessThanWellFounded
  <2> DEFINE T == (0..n) \ S
  <2>2. T \subseteq Nat /\ T # {}
    OBVIOUS
  <2> HIDE DEF T
  <2>3. PICK x \in T : \A z \in T : ~(<<z, x>> \in OpToRel(<, Nat))
    BY <2>1, <2>2, WFMin
  <2>4. \A z \in T : ~(z < x)
    BY <2>2, <2>3 DEF OpToRel
  <2> QED
    BY <2>3, <2>4 DEF T
<1>2. x # 0 /\ x - 1 \in 0..n /\ x - 1 < x /\ x - 1 < n
  BY <1>1
<1>3. x - 1 \in S
  BY <1>1, <1>2
<1>4. (x - 1) + 1 = x
  BY <1>1
<1> QED
  BY <1>1, <1>2, <1>3, <1>4

---------------------------------------------------------------------------
(* Numbers *)

\* Bytes are numbers.
LEMMA ByteNat == \A x \in Byte : x \in Nat /\ x >= 0 /\ x <= 255
BY DEF Byte

\* The recursive function in Value exists.
LEMMA ValueLoop ==
  ASSUME NEW b \in Seq(Byte)
  PROVE  \E v : /\ v = [k \in 0..Len(b) |-> IF k = 0 THEN 0 ELSE 256 * v[k - 1] + b[k]]
                /\ Value(b) = v[Len(b)]
<1> DEFINE Step(k, x) == 256 * x + b[k]
           P(m, f) == f = [k \in 0..m |-> IF k = 0 THEN 0 ELSE Step(k, f[k - 1])]
           S == {m \in Nat : \E f : P(m, f)}
<1> HIDE DEF Step
<1>1. 0 \in S
  <2>1. P(0, [k \in 0..0 |-> 0])
    OBVIOUS
  <2> QED
    BY <2>1
<1>2. ASSUME NEW m \in Nat, m \in S PROVE m + 1 \in S
  <2>1. PICK f : P(m, f)
    BY <1>2
  <2> DEFINE g == [k \in 0..(m + 1) |-> IF k = m + 1 THEN Step(m + 1, f[m]) ELSE f[k]]
  <2>2. ASSUME NEW k \in 0..(m + 1) PROVE g[k] = IF k = 0 THEN 0 ELSE Step(k, g[k - 1])
    <3>1. \A j \in 0..m : f[j] = IF j = 0 THEN 0 ELSE Step(j, f[j - 1])
      BY <2>1
    <3> HIDE DEF P
    <3>2. CASE k = m + 1
      <4>1. g[k] = Step(k, f[m]) /\ g[k - 1] = f[m] /\ k # 0
        BY <3>2
      <4> QED
        BY <4>1
    <3>3. CASE k \in 1..m
      <4>1. g[k] = f[k] /\ g[k - 1] = f[k - 1] /\ k # 0 /\ k \in 0..m
        BY <3>3
      <4> QED
        BY <3>1, <4>1
    <3>4. CASE k = 0
      <4>1. g[k] = f[0] /\ 0 \in 0..m
        BY <3>4
      <4> QED
        BY <3>1, <3>4, <4>1
    <3> QED
      BY <3>2, <3>3, <3>4
  <2>3. P(m + 1, g)
    <3>1. g = [k \in 0..(m + 1) |-> g[k]]
      OBVIOUS
    <3> HIDE DEF g, P, S
    <3>2. [k \in 0..(m + 1) |-> g[k]] = [k \in 0..(m + 1) |-> IF k = 0 THEN 0 ELSE Step(k, g[k - 1])]
      BY <2>2
    <3> QED
      BY <3>1, <3>2, Zenon DEF P
  <2> HIDE DEF g, P
  <2> QED
    BY <2>3
<1>3. Len(b) \in Nat
  OBVIOUS
<1>4. Len(b) \in S
  <2> HIDE DEF S
  <2>1. \A k \in 0..Len(b) : k \in S /\ k < Len(b) => k + 1 \in S
    BY <1>2
  <2>2. 0..Len(b) \subseteq S
    BY <1>1, <1>3, <2>1, NumbersUpTo
  <2> QED
    BY <1>3, <2>2
<1> DEFINE v == CHOOSE f : P(Len(b), f)
<1>5. P(Len(b), v)
  BY <1>4
<1>6. Value(b) = v[Len(b)]
  BY DEF Value, Step
<1> QED
  BY <1>5, <1>6 DEF Step

\* What up to four bytes stand for
LEMMA ValueOf ==
  ASSUME NEW b \in Seq(Byte)
  PROVE  /\ Len(b) = 0 => Value(b) = 0
         /\ Len(b) = 1 => Value(b) = b[1]
         /\ Len(b) = 2 => Value(b) = 256 * b[1] + b[2]
         /\ Len(b) = 3 => Value(b) = 256 * (256 * b[1] + b[2]) + b[3]
         /\ Len(b) = 4 => Value(b) = 256 * (256 * (256 * b[1] + b[2]) + b[3]) + b[4]
<1>1. PICK v : /\ v = [k \in 0..Len(b) |-> IF k = 0 THEN 0 ELSE 256 * v[k - 1] + b[k]]
               /\ Value(b) = v[Len(b)]
  BY ValueLoop
<1>2. v[0] = 0 /\ \A k \in 1..Len(b) : v[k] = 256 * v[k - 1] + b[k]
  <2>1. \A k \in 0..Len(b) : v[k] = IF k = 0 THEN 0 ELSE 256 * v[k - 1] + b[k]
    BY <1>1, Zenon
  <2>2. Len(b) \in Nat
    OBVIOUS
  <2>3. 0 \in 0..Len(b) /\ \A k \in 1..Len(b) : k \in 0..Len(b) /\ k # 0
    BY <2>2
  <2> QED
    BY <2>1, <2>3, Zenon
<1>3. \A k \in 1..Len(b) : b[k] \in Byte
  OBVIOUS
<1>4. Len(b) >= 1 => v[1] = b[1]
  <2> SUFFICES ASSUME Len(b) >= 1 PROVE v[1] = b[1]
    OBVIOUS
  <2>1. Len(b) \in Nat
    OBVIOUS
  <2>2. 1 \in 1..Len(b) /\ 1 - 1 = 0
    BY <2>1
  <2>3. v[1] = 256 * v[0] + b[1]
    BY <1>2, <2>2
  <2>4. b[1] \in Byte
    BY <1>3, <2>2
  <2>5. b[1] \in Nat
    BY <2>4, ByteNat
  <2> QED
    BY <1>2, <2>3, <2>5
<1>5. Len(b) >= 2 => v[2] = 256 * b[1] + b[2]
  BY <1>2, <1>4
<1>6. Len(b) >= 3 => v[3] = 256 * (256 * b[1] + b[2]) + b[3]
  BY <1>2, <1>5
<1>7. Len(b) >= 4 => v[4] = 256 * (256 * (256 * b[1] + b[2]) + b[3]) + b[4]
  BY <1>2, <1>6
<1>8. Value(b) = v[Len(b)]
  BY <1>1
<1> QED
  BY <1>2, <1>4, <1>5, <1>6, <1>7, <1>8

\* The bytes of a number
LEMMA BigEndianBytes ==
  ASSUME NEW n \in Nat
  PROVE  /\ BigEndian(n) \in Seq(Byte)
         /\ Len(BigEndian(n)) = SzSz(n)
         /\ SzSz(n) \in 1..4
<1> DEFINE e == BigEndian(n)
<1>1. SzSz(n) \in 1..4
  BY DEF SzSz
<1>2. ASSUME NEW k \in 1..SzSz(n) PROVE (n \div Weight[SzSz(n) + 1 - k]) % 256 \in Byte
  <2>1. SzSz(n) + 1 - k \in 1..4
    BY <1>1
  <2>2. \A j \in 1..4 : Weight[j] \in Nat /\ Weight[j] > 0
    BY DEF Weight
  <2>3. \A w \in Nat : w > 0 => n \div w \in Nat
    OBVIOUS
  <2>4. \A m \in Nat : m % 256 \in 0..255
    OBVIOUS
  <2> QED
    BY <2>1, <2>2, <2>3, <2>4 DEF Byte
<1>3. e \in [1..SzSz(n) -> Byte]
  BY <1>2 DEF BigEndian
<1>4. e \in Seq(Byte) /\ Len(e) = SzSz(n)
  BY <1>1, <1>3
<1> QED
  BY <1>1, <1>4

\* Taking a number apart digit by digit, and back
LEMMA Digits ==
  ASSUME NEW n \in Nat
  PROVE  /\ n \div 256 \in Nat /\ n % 256 \in Nat
         /\ 256 * (n \div 256) + (n % 256) = n
         /\ n \div (256 * 256) = (n \div 256) \div 256
         /\ n \div (256 * 256 * 256) = ((n \div 256) \div 256) \div 256
<1>1. n \div 256 \in Nat /\ n % 256 \in Nat /\ 256 * (n \div 256) + (n % 256) = n
  BY SMT
<1>2. n \div (256 * 256) = (n \div 256) \div 256
  BY SMT
<1>3. n \div (256 * 256 * 256) = ((n \div 256) \div 256) \div 256
  BY SMT
<1> QED
  BY <1>1, <1>2, <1>3

\* A number that fits in four bytes is read back from them.
LEMMA NumberReadBack ==
  ASSUME NEW n \in Nat, Uint32(n)
  PROVE  Value(BigEndian(n)) = n
<1> DEFINE e == BigEndian(n)
           n1 == n \div 256
           n2 == n1 \div 256
           n3 == n2 \div 256
<1>1. e \in Seq(Byte) /\ Len(e) = SzSz(n) /\ SzSz(n) \in 1..4
  BY BigEndianBytes
<1>2. \A k \in 1..SzSz(n) : e[k] = (n \div Weight[SzSz(n) + 1 - k]) % 256
  BY DEF BigEndian
<1>3. /\ n \div Weight[1] = n /\ n \div Weight[2] = n1
      /\ n \div Weight[3] = n2 /\ n \div Weight[4] = n3
  BY Digits DEF Weight
<1>4. /\ n1 \in Nat /\ n2 \in Nat /\ n3 \in Nat
      /\ 256 * n1 + (n % 256) = n /\ 256 * n2 + (n1 % 256) = n1 /\ 256 * n3 + (n2 % 256) = n2
      /\ n3 % 256 = n3
  <2>1. n1 \in Nat /\ 256 * n1 + (n % 256) = n
    BY Digits
  <2>2. n2 \in Nat /\ 256 * n2 + (n1 % 256) = n1
    BY <2>1, Digits
  <2>3. n3 \in Nat /\ 256 * n3 + (n2 % 256) = n2
    BY <2>2, Digits
  <2>4. n3 \in 0..255
    BY <1>3 DEF Uint32, Byte
  <2> QED
    BY <2>1, <2>2, <2>3, <2>4
<1>5. /\ SzSz(n) = 1 => n1 = 0
      /\ SzSz(n) = 2 => n2 = 0
      /\ SzSz(n) = 3 => n3 = 0
  BY <1>4 DEF SzSz, Weight
<1> HIDE DEF e, n1, n2, n3
<1>6. CASE SzSz(n) = 1
  <2>1. e[1] = n % 256
    BY <1>2, <1>3, <1>6
  <2>2. Value(e) = e[1]
    BY <1>1, <1>6, ValueOf
  <2> QED
    BY <1>4, <1>5, <1>6, <2>1, <2>2 DEF e
<1>7. CASE SzSz(n) = 2
  <2>1. e[1] = n1 % 256 /\ e[2] = n % 256
    BY <1>2, <1>3, <1>7
  <2>2. Value(e) = 256 * e[1] + e[2]
    BY <1>1, <1>7, ValueOf
  <2> QED
    BY <1>4, <1>5, <1>7, <2>1, <2>2 DEF e
<1>8. CASE SzSz(n) = 3
  <2>1. e[1] = n2 % 256 /\ e[2] = n1 % 256 /\ e[3] = n % 256
    BY <1>2, <1>3, <1>8
  <2>2. Value(e) = 256 * (256 * e[1] + e[2]) + e[3]
    BY <1>1, <1>8, ValueOf
  <2> QED
    BY <1>4, <1>5, <1>8, <2>1, <2>2 DEF e
<1>9. CASE SzSz(n) = 4
  <2>1. e[1] = n3 % 256 /\ e[2] = n2 % 256 /\ e[3] = n1 % 256 /\ e[4] = n % 256
    BY <1>2, <1>3, <1>9
  <2>2. Value(e) = 256 * (256 * (256 * e[1] + e[2]) + e[3]) + e[4]
    BY <1>1, <1>9, ValueOf
  <2> QED
    BY <1>4, <2>1, <2>2 DEF e
<1> QED
  BY <1>1, <1>6, <1>7, <1>8, <1>9 DEF e

---------------------------------------------------------------------------
(* Recursive functions: each is what its definition says. *)

\* The root of a tree whose children are in T
Over(T) == {Item(s) : s \in Seq(Byte)} \cup [b : {<<>>}, child : Seq(T)]

\* The trees that rlp_item_u8_arr and rlp_push can build, as Nodes[d] counts their depth
Trees[d \in 0..MaxDepth] == IF d = 0 THEN {} ELSE Over(Trees[d - 1])

\* What Nodes is recursively
LEMMA NodesDef ==
  \A d \in 0..MaxDepth : Nodes[d] = IF d = 0 THEN {} ELSE [b : Seq(Byte), child : Seq(Nodes[d - 1])]
<1> DEFINE Start == {}
           Turn(d, x) == [b : Seq(Byte), child : Seq(x)]
           Loop(m, f) == f = [d \in 0..m |-> IF d = 0 THEN Start ELSE Turn(d, f[d - 1])]
           S == {m \in Nat : \E f : Loop(m, f)}
<1> HIDE DEF Start, Turn
<1>1. 0 \in S
  <2>1. Loop(0, [d \in 0..0 |-> Start])
    OBVIOUS
  <2> QED
    BY <2>1
<1>2. ASSUME NEW m \in Nat, m \in S PROVE m + 1 \in S
  <2>1. PICK f : Loop(m, f)
    BY <1>2
  <2> DEFINE g == [d \in 0..(m + 1) |-> IF d = m + 1 THEN Turn(d, f[m]) ELSE f[d]]
  <2>2. \A d \in 0..m : f[d] = IF d = 0 THEN Start ELSE Turn(d, f[d - 1])
    BY <2>1
  <2>3. \A d \in 0..(m + 1) : g[d] = IF d = m + 1 THEN Turn(d, f[m]) ELSE f[d]
    OBVIOUS
  <2>4. g = [d \in 0..(m + 1) |-> g[d]]
    OBVIOUS
  <2> HIDE DEF g, Loop, S
  <2>5. ASSUME NEW d \in 0..(m + 1) PROVE g[d] = IF d = 0 THEN Start ELSE Turn(d, g[d - 1])
    <3>1. d = m + 1 => d # 0 /\ d - 1 = m /\ d - 1 \in 0..(m + 1) /\ m # m + 1
      OBVIOUS
    <3>2. d # m + 1 => d \in 0..m /\ (d # 0 => d - 1 \in 0..(m + 1) /\ d - 1 # m + 1)
      OBVIOUS
    <3> QED
      BY <2>2, <2>3, <3>1, <3>2
  <2>6. [d \in 0..(m + 1) |-> g[d]] = [d \in 0..(m + 1) |-> IF d = 0 THEN Start ELSE Turn(d, g[d - 1])]
    BY <2>5
  <2>7. \E h : Loop(m + 1, h)
    <3>1. Loop(m + 1, g)
      BY <2>4, <2>6, Zenon DEF Loop
    <3> QED
      BY <3>1, Zenon
  <2> QED
    BY <2>7 DEF S
<1> HIDE DEF Loop
<1>3. MaxDepth \in Nat
  BY RlpAssumption
<1>4. MaxDepth \in S
  <2> HIDE DEF S
  <2>1. 0..MaxDepth \subseteq S
    BY <1>1, <1>2, <1>3, NumbersUpTo
  <2> QED
    BY <1>3, <2>1
<1>5. Loop(MaxDepth, Nodes)
  <2>1. Nodes = CHOOSE f : Loop(MaxDepth, f)
    BY Zenon DEF Nodes, Loop, Turn, Start
  <2> QED
    BY <1>4, <2>1
<1> QED
  BY <1>5 DEF Loop, Turn, Start

\* What Trees is recursively
LEMMA TreesDef ==
  \A d \in 0..MaxDepth : Trees[d] = IF d = 0 THEN {} ELSE Over(Trees[d - 1])
<1> DEFINE Start == {}
           Turn(d, x) == Over(x)
           Loop(m, f) == f = [d \in 0..m |-> IF d = 0 THEN Start ELSE Turn(d, f[d - 1])]
           S == {m \in Nat : \E f : Loop(m, f)}
<1> HIDE DEF Start, Turn
<1>1. 0 \in S
  <2>1. Loop(0, [d \in 0..0 |-> Start])
    OBVIOUS
  <2> QED
    BY <2>1
<1>2. ASSUME NEW m \in Nat, m \in S PROVE m + 1 \in S
  <2>1. PICK f : Loop(m, f)
    BY <1>2
  <2> DEFINE g == [d \in 0..(m + 1) |-> IF d = m + 1 THEN Turn(d, f[m]) ELSE f[d]]
  <2>2. \A d \in 0..m : f[d] = IF d = 0 THEN Start ELSE Turn(d, f[d - 1])
    BY <2>1
  <2>3. \A d \in 0..(m + 1) : g[d] = IF d = m + 1 THEN Turn(d, f[m]) ELSE f[d]
    OBVIOUS
  <2>4. g = [d \in 0..(m + 1) |-> g[d]]
    OBVIOUS
  <2> HIDE DEF g, Loop, S
  <2>5. ASSUME NEW d \in 0..(m + 1) PROVE g[d] = IF d = 0 THEN Start ELSE Turn(d, g[d - 1])
    <3>1. d = m + 1 => d # 0 /\ d - 1 = m /\ d - 1 \in 0..(m + 1) /\ m # m + 1
      OBVIOUS
    <3>2. d # m + 1 => d \in 0..m /\ (d # 0 => d - 1 \in 0..(m + 1) /\ d - 1 # m + 1)
      OBVIOUS
    <3> QED
      BY <2>2, <2>3, <3>1, <3>2
  <2>6. [d \in 0..(m + 1) |-> g[d]] = [d \in 0..(m + 1) |-> IF d = 0 THEN Start ELSE Turn(d, g[d - 1])]
    BY <2>5
  <2>7. \E h : Loop(m + 1, h)
    <3>1. Loop(m + 1, g)
      BY <2>4, <2>6, Zenon DEF Loop
    <3> QED
      BY <3>1, Zenon
  <2> QED
    BY <2>7 DEF S
<1> HIDE DEF Loop
<1>3. MaxDepth \in Nat
  BY RlpAssumption
<1>4. MaxDepth \in S
  <2> HIDE DEF S
  <2>1. 0..MaxDepth \subseteq S
    BY <1>1, <1>2, <1>3, NumbersUpTo
  <2> QED
    BY <1>3, <2>1
<1>5. Loop(MaxDepth, Trees)
  <2>1. Trees = CHOOSE f : Loop(MaxDepth, f)
    BY Zenon DEF Trees, Loop, Turn, Start
  <2> QED
    BY <1>4, <2>1
<1> QED
  BY <1>5 DEF Loop, Turn, Start

\* The loop of rlp_print_walk
LEMMA SiblingsDef ==
  ASSUME NEW nodes, Len(nodes) \in Nat, NEW inner
  PROVE  \A k \in 0..Len(nodes) : Siblings(nodes, inner)[k] =
           IF k = 0 THEN [sz |-> 0, out |-> <<>>]
           ELSE LET before == Siblings(nodes, inner)[k - 1]
                    node == Written(nodes[k], inner)
                IN  [sz |-> before.sz + node.sz, out |-> node.out \o before.out]
<1> DEFINE Start == [sz |-> 0, out |-> <<>>]
           Turn(k, x) == LET before == x
                             node == Written(nodes[k], inner)
                         IN  [sz |-> before.sz + node.sz, out |-> node.out \o before.out]
           Loop(m, f) == f = [k \in 0..m |-> IF k = 0 THEN Start ELSE Turn(k, f[k - 1])]
           S == {m \in Nat : \E f : Loop(m, f)}
<1> HIDE DEF Start, Turn
<1>1. 0 \in S
  <2>1. Loop(0, [k \in 0..0 |-> Start])
    OBVIOUS
  <2> QED
    BY <2>1
<1>2. ASSUME NEW m \in Nat, m \in S PROVE m + 1 \in S
  <2>1. PICK f : Loop(m, f)
    BY <1>2
  <2> DEFINE g == [k \in 0..(m + 1) |-> IF k = m + 1 THEN Turn(k, f[m]) ELSE f[k]]
  <2>2. \A k \in 0..m : f[k] = IF k = 0 THEN Start ELSE Turn(k, f[k - 1])
    BY <2>1
  <2>3. \A k \in 0..(m + 1) : g[k] = IF k = m + 1 THEN Turn(k, f[m]) ELSE f[k]
    OBVIOUS
  <2>4. g = [k \in 0..(m + 1) |-> g[k]]
    OBVIOUS
  <2> HIDE DEF g, Loop, S
  <2>5. ASSUME NEW k \in 0..(m + 1) PROVE g[k] = IF k = 0 THEN Start ELSE Turn(k, g[k - 1])
    <3>1. k = m + 1 => k # 0 /\ k - 1 = m /\ k - 1 \in 0..(m + 1) /\ m # m + 1
      OBVIOUS
    <3>2. k # m + 1 => k \in 0..m /\ (k # 0 => k - 1 \in 0..(m + 1) /\ k - 1 # m + 1)
      OBVIOUS
    <3> QED
      BY <2>2, <2>3, <3>1, <3>2
  <2>6. [k \in 0..(m + 1) |-> g[k]] = [k \in 0..(m + 1) |-> IF k = 0 THEN Start ELSE Turn(k, g[k - 1])]
    BY <2>5
  <2>7. \E h : Loop(m + 1, h)
    <3>1. Loop(m + 1, g)
      BY <2>4, <2>6, Zenon DEF Loop
    <3> QED
      BY <3>1, Zenon
  <2> QED
    BY <2>7 DEF S
<1> HIDE DEF Loop
<1>3. Len(nodes) \in Nat
  OBVIOUS
<1>4. Len(nodes) \in S
  <2> HIDE DEF S
  <2>1. 0..Len(nodes) \subseteq S
    BY <1>1, <1>2, <1>3, NumbersUpTo
  <2> QED
    BY <1>3, <2>1
<1>5. Loop(Len(nodes), Siblings(nodes, inner))
  <2>1. Siblings(nodes, inner) = CHOOSE f : Loop(Len(nodes), f)
    BY Zenon DEF Siblings, Loop, Turn, Start
  <2> QED
    BY <1>4, <2>1
<1> QED
  BY <1>5 DEF Loop, Turn, Start

\* What PrintWalk is recursively
LEMMA PrintWalkDef ==
  \A d \in 0..MaxDepth : PrintWalk[d] =
    IF d = 0 THEN <<>>
    ELSE [nodes \in Seq(Nodes[d]) |-> WithPrefix(Siblings(nodes, PrintWalk[d - 1])[Len(nodes)])]
<1> DEFINE Start == <<>>
           Turn(d, x) == [nodes \in Seq(Nodes[d]) |-> WithPrefix(Siblings(nodes, x)[Len(nodes)])]
           Loop(m, f) == f = [d \in 0..m |-> IF d = 0 THEN Start ELSE Turn(d, f[d - 1])]
           S == {m \in Nat : \E f : Loop(m, f)}
<1> HIDE DEF Start, Turn
<1>1. 0 \in S
  <2>1. Loop(0, [d \in 0..0 |-> Start])
    OBVIOUS
  <2> QED
    BY <2>1
<1>2. ASSUME NEW m \in Nat, m \in S PROVE m + 1 \in S
  <2>1. PICK f : Loop(m, f)
    BY <1>2
  <2> DEFINE g == [d \in 0..(m + 1) |-> IF d = m + 1 THEN Turn(d, f[m]) ELSE f[d]]
  <2>2. \A d \in 0..m : f[d] = IF d = 0 THEN Start ELSE Turn(d, f[d - 1])
    BY <2>1
  <2>3. \A d \in 0..(m + 1) : g[d] = IF d = m + 1 THEN Turn(d, f[m]) ELSE f[d]
    OBVIOUS
  <2>4. g = [d \in 0..(m + 1) |-> g[d]]
    OBVIOUS
  <2> HIDE DEF g, Loop, S
  <2>5. ASSUME NEW d \in 0..(m + 1) PROVE g[d] = IF d = 0 THEN Start ELSE Turn(d, g[d - 1])
    <3>1. d = m + 1 => d # 0 /\ d - 1 = m /\ d - 1 \in 0..(m + 1) /\ m # m + 1
      OBVIOUS
    <3>2. d # m + 1 => d \in 0..m /\ (d # 0 => d - 1 \in 0..(m + 1) /\ d - 1 # m + 1)
      OBVIOUS
    <3> QED
      BY <2>2, <2>3, <3>1, <3>2
  <2>6. [d \in 0..(m + 1) |-> g[d]] = [d \in 0..(m + 1) |-> IF d = 0 THEN Start ELSE Turn(d, g[d - 1])]
    BY <2>5
  <2>7. \E h : Loop(m + 1, h)
    <3>1. Loop(m + 1, g)
      BY <2>4, <2>6, Zenon DEF Loop
    <3> QED
      BY <3>1, Zenon
  <2> QED
    BY <2>7 DEF S
<1> HIDE DEF Loop
<1>3. MaxDepth \in Nat
  BY RlpAssumption
<1>4. MaxDepth \in S
  <2> HIDE DEF S
  <2>1. 0..MaxDepth \subseteq S
    BY <1>1, <1>2, <1>3, NumbersUpTo
  <2> QED
    BY <1>3, <2>1
<1>5. Loop(MaxDepth, PrintWalk)
  <2>1. PrintWalk = CHOOSE f : Loop(MaxDepth, f)
    BY Zenon DEF PrintWalk, Loop, Turn, Start
  <2> QED
    BY <1>4, <2>1
<1> QED
  BY <1>5 DEF Loop, Turn, Start

\* What ParseWalk is recursively
LEMMA ParseWalkDef ==
  \A n \in 0..MaxArray : ParseWalk[n] =
    IF n = 0 THEN [b \in {<<>>} |-> <<>>]
    ELSE [b \in Seq(Byte) |->
            IF b = <<>> THEN <<>>
            ELSE LET rest == SubSeq(b, ReadSize(b) + 1, Len(b))
                 IN  ParseWalk[n - 1][rest] \o <<First(b, ParseWalk[n - 1])>>]
<1> DEFINE Start == [b \in {<<>>} |-> <<>>]
           Turn(n, x) == [b \in Seq(Byte) |->
                           IF b = <<>> THEN <<>>
                           ELSE LET rest == SubSeq(b, ReadSize(b) + 1, Len(b))
                                IN  x[rest] \o <<First(b, x)>>]
           Loop(m, f) == f = [n \in 0..m |-> IF n = 0 THEN Start ELSE Turn(n, f[n - 1])]
           S == {m \in Nat : \E f : Loop(m, f)}
<1> HIDE DEF Start, Turn
<1>1. 0 \in S
  <2>1. Loop(0, [n \in 0..0 |-> Start])
    OBVIOUS
  <2> QED
    BY <2>1
<1>2. ASSUME NEW m \in Nat, m \in S PROVE m + 1 \in S
  <2>1. PICK f : Loop(m, f)
    BY <1>2
  <2> DEFINE g == [n \in 0..(m + 1) |-> IF n = m + 1 THEN Turn(n, f[m]) ELSE f[n]]
  <2>2. \A n \in 0..m : f[n] = IF n = 0 THEN Start ELSE Turn(n, f[n - 1])
    BY <2>1
  <2>3. \A n \in 0..(m + 1) : g[n] = IF n = m + 1 THEN Turn(n, f[m]) ELSE f[n]
    OBVIOUS
  <2>4. g = [n \in 0..(m + 1) |-> g[n]]
    OBVIOUS
  <2> HIDE DEF g, Loop, S
  <2>5. ASSUME NEW n \in 0..(m + 1) PROVE g[n] = IF n = 0 THEN Start ELSE Turn(n, g[n - 1])
    <3>1. n = m + 1 => n # 0 /\ n - 1 = m /\ n - 1 \in 0..(m + 1) /\ m # m + 1
      OBVIOUS
    <3>2. n # m + 1 => n \in 0..m /\ (n # 0 => n - 1 \in 0..(m + 1) /\ n - 1 # m + 1)
      OBVIOUS
    <3> QED
      BY <2>2, <2>3, <3>1, <3>2
  <2>6. [n \in 0..(m + 1) |-> g[n]] = [n \in 0..(m + 1) |-> IF n = 0 THEN Start ELSE Turn(n, g[n - 1])]
    BY <2>5
  <2>7. \E h : Loop(m + 1, h)
    <3>1. Loop(m + 1, g)
      BY <2>4, <2>6, Zenon DEF Loop
    <3> QED
      BY <3>1, Zenon
  <2> QED
    BY <2>7 DEF S
<1> HIDE DEF Loop
<1>3. MaxArray \in Nat
  BY RlpAssumption DEF Uint32
<1>4. MaxArray \in S
  <2> HIDE DEF S
  <2>1. 0..MaxArray \subseteq S
    BY <1>1, <1>2, <1>3, NumbersUpTo
  <2> QED
    BY <1>3, <2>1
<1>5. Loop(MaxArray, ParseWalk)
  <2>1. ParseWalk = CHOOSE f : Loop(MaxArray, f)
    BY Zenon DEF ParseWalk, Loop, Turn, Start
  <2> QED
    BY <1>4, <2>1
<1> QED
  BY <1>5 DEF Loop, Turn, Start

---------------------------------------------------------------------------
(* Buffers *)

\* Bytes one after the other
LEMMA Concat ==
  ASSUME NEW S, NEW s \in Seq(S), NEW t \in Seq(S)
  PROVE  /\ s \o t \in Seq(S)
         /\ Len(s) \in Nat /\ Len(t) \in Nat
         /\ Len(s \o t) = Len(s) + Len(t)
         /\ \A k \in 1..Len(s) : (s \o t)[k] = s[k]
         /\ \A k \in 1..Len(t) : (s \o t)[Len(s) + k] = t[k]
OBVIOUS

\* What is in the middle is cut out again.
LEMMA Middle ==
  ASSUME NEW S, NEW s \in Seq(S), NEW t \in Seq(S), NEW u \in Seq(S)
  PROVE  SubSeq((s \o t) \o u, Len(s) + 1, Len(s) + Len(t)) = t
<1> DEFINE st == s \o t
           c == st \o u
           m == SubSeq(c, Len(s) + 1, Len(s) + Len(t))
<1>1. /\ st \in Seq(S) /\ Len(s) \in Nat /\ Len(t) \in Nat /\ Len(st) = Len(s) + Len(t)
      /\ \A k \in 1..Len(t) : st[Len(s) + k] = t[k]
  BY Concat
<1> HIDE DEF st
<1>2. /\ c \in Seq(S) /\ Len(u) \in Nat /\ Len(c) = Len(st) + Len(u)
      /\ \A k \in 1..Len(st) : c[k] = st[k]
  <2>1. st \in Seq(S)
    BY <1>1
  <2> QED
    BY <2>1, Concat
<1> HIDE DEF c
<1>3. m \in Seq(S) /\ Len(m) = Len(t) /\ \A k \in 1..Len(t) : m[k] = c[Len(s) + k]
  <2> DEFINE from == Len(s) + 1
             to == Len(s) + Len(t)
  <2>1. from \in Int /\ to \in Int
    BY <1>1
  <2>2. \A k \in from..to : c[k] \in S
    BY <1>1, <1>2
  <2>3. /\ to - from + 1 = Len(t) /\ (from <= to \/ Len(t) = 0)
        /\ \A k \in 1..Len(t) : from + k - 1 = Len(s) + k
    BY <1>1
  <2> HIDE DEF from, to
  <2>4. /\ SubSeq(c, from, to) \in Seq(S)
        /\ Len(SubSeq(c, from, to)) = IF from <= to THEN to - from + 1 ELSE 0
        /\ \A k \in 1..(to - from + 1) : SubSeq(c, from, to)[k] = c[from + k - 1]
    BY <2>1, <2>2, SubSeqProperties
  <2> QED
    BY <2>1, <2>3, <2>4 DEF from, to
<1> HIDE DEF m
<1>4. ASSUME NEW k \in 1..Len(t) PROVE m[k] = t[k]
  <2>1. Len(s) + k \in 1..Len(st)
    BY <1>1
  <2> QED
    BY <1>1, <1>2, <1>3, <2>1
<1>5. m = t
  BY <1>3, <1>4, SeqEqual
<1> QED
  BY <1>5 DEF m, c, st

\* ... and what is at an end.
LEMMA Ends ==
  ASSUME NEW S, NEW s \in Seq(S), NEW t \in Seq(S)
  PROVE  /\ SubSeq(s \o t, 1, Len(s)) = s
         /\ SubSeq(s \o t, Len(s) + 1, Len(s \o t)) = t
<1> DEFINE none == <<>>
           c == s \o t
<1>1. none \in Seq(S) /\ Len(none) = 0 /\ none \o s = s /\ Len(s) \in Nat /\ 0 + 1 = 1 /\ 0 + Len(s) = Len(s)
  OBVIOUS
<1>2. c \in Seq(S) /\ c \o none = c /\ Len(c) = Len(s) + Len(t)
  <2>1. c \in Seq(S) /\ Len(c) = Len(s) + Len(t)
    BY Concat
  <2> HIDE DEF c
  <2> QED
    BY <2>1
<1> HIDE DEF none
<1>3. SubSeq((none \o s) \o t, Len(none) + 1, Len(none) + Len(s)) = s
  BY <1>1, Middle
<1>4. SubSeq((s \o t) \o none, Len(s) + 1, Len(s) + Len(t)) = t
  BY <1>1, Middle
<1> QED
  BY <1>1, <1>2, <1>3, <1>4

\* The cases of rlp_read_sz
LEMMA ReadSzCases ==
  ASSUME NEW b, b[1] \in Byte
  PROVE  /\ b[1] < 128 \/ b[1] = 192 => ReadSz(b) = [header |-> 0, size |-> 1]
         /\ b[1] >= 128 /\ b[1] <= 183 => ReadSz(b) = [header |-> 1, size |-> b[1] - 128]
         /\ b[1] >= 184 /\ b[1] <= 191 =>
              ReadSz(b) = [header |-> 1 + b[1] - 183, size |-> Value(SubSeq(b, 2, 1 + b[1] - 183))]
         /\ b[1] >= 193 /\ b[1] <= 247 => ReadSz(b) = [header |-> 1, size |-> b[1] - 192]
         /\ b[1] >= 248 =>
              ReadSz(b) = [header |-> 1 + b[1] - 247, size |-> Value(SubSeq(b, 2, 1 + b[1] - 247))]
<1> b[1] \in Nat
  BY ByteNat
<1> QED
  BY DEF ReadSz

---------------------------------------------------------------------------
(* Sizes *)

\* A buffer of one byte
LEMMA OneByte ==
  ASSUME NEW x \in Byte
  PROVE  <<x>> \in Seq(Byte) /\ Len(<<x>>) = 1 /\ <<x>>[1] = x
OBVIOUS

\* The bytes of a prefix
LEMMA PrefixBytes ==
  ASSUME NEW n \in Nat, NEW short \in 128..192, NEW long \in 183..247,
         NEW p, p = Prefix(n, short, long)
  PROVE  /\ p \in Seq(Byte) /\ Len(p) >= 1 /\ Len(p) \in Nat
         /\ n <= 55 => p = <<short + n>>
         /\ n > 55 => p = <<long + SzSz(n)>> \o BigEndian(n)
<1> DEFINE e == BigEndian(n)
           z == SzSz(n)
<1>1. e \in Seq(Byte) /\ Len(e) = z /\ z \in 1..4
  BY BigEndianBytes
<1>2. CASE n <= 55
  <2>1. p = <<short + n>> /\ ~(n > 55)
    BY <1>2 DEF Prefix
  <2>2. short + n \in Byte
    BY <1>2 DEF Byte
  <2>3. p \in Seq(Byte) /\ Len(p) = 1
    BY <2>1, <2>2, OneByte
  <2> QED
    BY <2>1, <2>3
<1>3. CASE n > 55
  <2> DEFINE h == <<long + z>>
  <2>1. p = h \o e /\ ~(n <= 55)
    BY <1>1, <1>3 DEF Prefix
  <2> HIDE DEF e, z
  <2>2. long + z \in Byte
    BY <1>1 DEF Byte
  <2>3. h \in Seq(Byte) /\ Len(h) = 1
    BY <2>2, OneByte
  <2> HIDE DEF h
  <2>4. h \o e \in Seq(Byte) /\ Len(h \o e) = Len(h) + Len(e) /\ Len(e) \in Nat
    BY <1>1, <2>3, Concat
  <2>5. p \in Seq(Byte) /\ Len(p) >= 1 /\ Len(p) \in Nat
    BY <2>1, <2>3, <2>4
  <2> QED
    BY <2>1, <2>5 DEF h, e, z
<1> QED
  BY <1>2, <1>3

\* rlp_read_sz of a size from 56 on
LEMMA LongSz ==
  ASSUME NEW b, NEW z \in 1..4, NEW long, long = 183 \/ long = 247, b[1] = long + z
  PROVE  ReadSz(b) = [header |-> 1 + z, size |-> Value(SubSeq(b, 2, 1 + z))]
<1>1. b[1] \in Byte
  BY DEF Byte
<1>2. CASE long = 183
  <2>1. b[1] >= 184 /\ b[1] <= 191 /\ 1 + b[1] - 183 = 1 + z
    BY <1>2
  <2> QED
    BY <1>1, <2>1, ReadSzCases
<1>3. CASE long = 247
  <2>1. b[1] >= 248 /\ 1 + b[1] - 247 = 1 + z
    BY <1>3
  <2> QED
    BY <1>1, <2>1, ReadSzCases
<1> QED
  BY <1>2, <1>3

\* What is at the head of a buffer after the size n was written there
HeadOf(n, t, short, long) ==
  LET p == Prefix(n, short, long)
      b == p \o t
  IN  /\ p \in Seq(Byte) /\ Len(p) >= 1 /\ Len(p) \in Nat
      /\ b \in Seq(Byte)
      /\ n <= 55 => Len(p) = 1 /\ b[1] = short + n
      /\ n > 55 => \E z \in 1..4 : /\ Len(p) = 1 + z /\ b[1] = long + z
                                   /\ Value(SubSeq(b, 2, 1 + z)) = n

\* rlp_write_sz writes that.
LEMMA PrefixParts ==
  ASSUME NEW n \in Nat, Uint32(n), NEW t \in Seq(Byte),
         NEW short \in 128..192, NEW long \in 183..247
  PROVE  HeadOf(n, t, short, long)
<1> DEFINE p == Prefix(n, short, long)
           b == p \o t
<1>1. /\ p \in Seq(Byte) /\ Len(p) >= 1 /\ Len(p) \in Nat
      /\ n <= 55 => p = <<short + n>>
      /\ n > 55 => p = <<long + SzSz(n)>> \o BigEndian(n)
  BY PrefixBytes
<1> HIDE DEF p
<1>2. b \in Seq(Byte) /\ b[1] = p[1]
  <2>1. 1 \in 1..Len(p)
    BY <1>1
  <2>2. b \in Seq(Byte) /\ \A k \in 1..Len(p) : b[k] = p[k]
    BY <1>1, Concat
  <2> QED
    BY <2>1, <2>2
<1>0. b = p \o t
  OBVIOUS
<1> HIDE DEF b
<1>3. n <= 55 => Len(p) = 1 /\ b[1] = short + n
  <2>1. ASSUME NEW x PROVE Len(<<x>>) = 1 /\ <<x>>[1] = x
    OBVIOUS
  <2> QED
    BY <1>1, <1>2, <2>1
<1>4. ASSUME n > 55
      PROVE  \E z \in 1..4 : Len(p) = 1 + z /\ b[1] = long + z /\ Value(SubSeq(b, 2, 1 + z)) = n
  <2>1. PICK e, z, h : e = BigEndian(n) /\ z = SzSz(n) /\ h = <<long + z>>
    OBVIOUS
  <2>2. e \in Seq(Byte) /\ Len(e) = z /\ z \in 1..4 /\ Value(e) = n
    BY <2>1, BigEndianBytes, NumberReadBack
  <2>3. h \in Seq(Byte) /\ Len(h) = 1 /\ h[1] = long + z
    <3>1. long + z \in Byte
      BY <2>2 DEF Byte
    <3> QED
      BY <2>1, <3>1, OneByte
  <2>4. p = h \o e
    <3>1. p = <<long + SzSz(n)>> \o BigEndian(n)
      BY <1>1, <1>4, Zenon
    <3> QED
      BY <2>1, <3>1, Zenon
  <2>5. /\ Len(h \o e) = Len(h) + Len(e) /\ \A k \in 1..Len(h) : (h \o e)[k] = h[k]
        /\ SubSeq((h \o e) \o t, Len(h) + 1, Len(h) + Len(e)) = e
    BY <2>2, <2>3, Concat, Middle
  <2>6. Len(p) = 1 + z /\ b[1] = long + z
    BY <1>2, <2>2, <2>3, <2>4, <2>5
  <2>7. Len(h) + 1 = 2 /\ Len(h) + Len(e) = 1 + z
    BY <2>2, <2>3
  <2>8. SubSeq(b, 2, 1 + z) = e
    BY <1>0, <2>4, <2>5, <2>7
  <2> QED
    BY <2>2, <2>6, <2>8
<1> QED
  BY <1>1, <1>2, <1>3, <1>4 DEF p, b, HeadOf

\* rlp_read_sz finds what rlp_write_sz wrote before a string ...
LEMMA StringSize ==
  ASSUME NEW n \in Nat, Uint32(n), NEW t \in Seq(Byte)
  PROVE  LET p == Prefix(n, 128, 183)
             b == p \o t
         IN  /\ p \in Seq(Byte) /\ Len(p) >= 1 /\ Len(p) \in Nat
             /\ b \in Seq(Byte)
             /\ ReadSz(b) = [header |-> Len(p), size |-> n]
             /\ b[1] >= 128 /\ b[1] < 192
<1>1. PICK short, long : short = 128 /\ long = 183
  OBVIOUS
<1> DEFINE p == Prefix(n, short, long)
           b == p \o t
<1>2. /\ p \in Seq(Byte) /\ Len(p) >= 1 /\ Len(p) \in Nat
      /\ b \in Seq(Byte)
      /\ n <= 55 => Len(p) = 1 /\ b[1] = short + n
      /\ n > 55 => \E z \in 1..4 : /\ Len(p) = 1 + z /\ b[1] = long + z
                                   /\ Value(SubSeq(b, 2, 1 + z)) = n
  <2>1. short \in 128..192 /\ long \in 183..247
    BY <1>1
  <2>2. HeadOf(n, t, short, long)
    BY <2>1, PrefixParts
  <2> QED
    BY <2>2 DEF HeadOf
<1> HIDE DEF b, p
<1>3. CASE n <= 55
  <2>1. b[1] = 128 + n
    BY <1>1, <1>2, <1>3
  <2>2. b[1] \in Byte /\ b[1] >= 128 /\ b[1] <= 183 /\ b[1] - 128 = n
    BY <1>3, <2>1 DEF Byte
  <2>3. ReadSz(b) = [header |-> 1, size |-> b[1] - 128]
    BY <2>2, ReadSzCases
  <2>4. ReadSz(b) = [header |-> Len(p), size |-> n]
    BY <1>2, <1>3, <2>2, <2>3
  <2>5. b[1] >= 128 /\ b[1] < 192
    BY <1>3, <2>1
  <2> QED
    BY <1>1, <1>2, <2>4, <2>5 DEF b, p
<1>4. CASE n > 55
  <2>1. PICK z \in 1..4 : Len(p) = 1 + z /\ b[1] = long + z /\ Value(SubSeq(b, 2, 1 + z)) = n
    BY <1>2, <1>4
  <2>2. ReadSz(b) = [header |-> 1 + z, size |-> Value(SubSeq(b, 2, 1 + z))]
    BY <1>1, <2>1, LongSz
  <2>3. b[1] >= 128 /\ b[1] < 192
    BY <1>1, <2>1
  <2>4. ReadSz(b) = [header |-> Len(p), size |-> n]
    BY <2>1, <2>2
  <2> QED
    BY <1>1, <1>2, <2>3, <2>4 DEF b, p
<1> QED
  BY <1>3, <1>4

\* ... and before what is in a list.
LEMMA ListSize ==
  ASSUME NEW n \in Nat, Uint32(n), n > 0, NEW t \in Seq(Byte)
  PROVE  LET p == Prefix(n, 192, 247)
             b == p \o t
         IN  /\ p \in Seq(Byte) /\ Len(p) >= 1 /\ Len(p) \in Nat
             /\ b \in Seq(Byte)
             /\ ReadSz(b) = [header |-> Len(p), size |-> n]
             /\ b[1] > 192
<1>1. PICK short, long : short = 192 /\ long = 247
  OBVIOUS
<1> DEFINE p == Prefix(n, short, long)
           b == p \o t
<1>2. /\ p \in Seq(Byte) /\ Len(p) >= 1 /\ Len(p) \in Nat
      /\ b \in Seq(Byte)
      /\ n <= 55 => Len(p) = 1 /\ b[1] = short + n
      /\ n > 55 => \E z \in 1..4 : /\ Len(p) = 1 + z /\ b[1] = long + z
                                   /\ Value(SubSeq(b, 2, 1 + z)) = n
  <2>1. short \in 128..192 /\ long \in 183..247
    BY <1>1
  <2>2. HeadOf(n, t, short, long)
    BY <2>1, PrefixParts
  <2> QED
    BY <2>2 DEF HeadOf
<1> HIDE DEF b, p
<1>3. CASE n <= 55
  <2>1. b[1] = 192 + n
    BY <1>1, <1>2, <1>3
  <2>2. b[1] \in Byte /\ b[1] >= 193 /\ b[1] <= 247 /\ b[1] - 192 = n
    BY <1>3, <2>1 DEF Byte
  <2>3. ReadSz(b) = [header |-> 1, size |-> b[1] - 192]
    BY <2>2, ReadSzCases
  <2>4. ReadSz(b) = [header |-> Len(p), size |-> n]
    BY <1>2, <1>3, <2>2, <2>3
  <2>5. b[1] > 192
    BY <1>3, <2>1
  <2> QED
    BY <1>1, <1>2, <2>4, <2>5 DEF b, p
<1>4. CASE n > 55
  <2>1. PICK z \in 1..4 : Len(p) = 1 + z /\ b[1] = long + z /\ Value(SubSeq(b, 2, 1 + z)) = n
    BY <1>2, <1>4
  <2>2. ReadSz(b) = [header |-> 1 + z, size |-> Value(SubSeq(b, 2, 1 + z))]
    BY <1>1, <2>1, LongSz
  <2>3. b[1] > 192
    BY <1>1, <2>1
  <2>4. ReadSz(b) = [header |-> Len(p), size |-> n]
    BY <2>1, <2>2
  <2> QED
    BY <1>1, <1>2, <2>3, <2>4 DEF b, p
<1> QED
  BY <1>3, <1>4

---------------------------------------------------------------------------
(* Strings *)

\* What the item of a string s is, whatever bytes t follow it
ItemOf(s, t) ==
  LET e == Item(s).b
      b == e \o t
  IN  /\ e \in Seq(Byte) /\ Len(e) \in Nat /\ Len(e) >= 1
      /\ b \in Seq(Byte) /\ b[1] \in Nat /\ b[1] < 192
      /\ ReadSize(b) = Len(e)
      /\ Inside(b) = s

\* rlp_item_u8_arr builds that.
LEMMA ItemParts ==
  ASSUME NEW s \in Seq(Byte), Uint32(Len(s)), NEW t \in Seq(Byte)
  PROVE  ItemOf(s, t)
<1> DEFINE e == Item(s).b
           b == e \o t
<1>1. Len(s) \in Nat /\ Len(t) \in Nat
  OBVIOUS
<1>2. CASE Len(s) = 1 /\ s[1] < 128
  <2>1. e = s
    BY <1>2 DEF Item
  <2> HIDE DEF e
  <2>2. b \in Seq(Byte) /\ \A k \in 1..Len(e) : b[k] = e[k]
    BY <2>1, Concat
  <2>3. SubSeq(b, 1, Len(e)) = e
    BY <2>1, Ends
  <2> HIDE DEF b
  <2>4. 1 \in 1..Len(s) /\ s[1] \in Byte
    <3>1. 1 \in 1..Len(s)
      BY <1>2
    <3> QED
      BY <3>1
  <2>5. b[1] \in Byte /\ b[1] < 128 /\ b[1] \in Nat
    <3>1. b[1] \in Byte /\ b[1] < 128
      BY <1>2, <2>1, <2>2, <2>4
    <3> QED
      BY <3>1, ByteNat
  <2>6. ReadSz(b) = [header |-> 0, size |-> 1]
    BY <2>5, ReadSzCases
  <2>7. ReadSize(b) = Len(e)
    BY <1>2, <2>1, <2>6 DEF ReadSize
  <2>8. Inside(b) = s
    <3>1. Inside(b) = SubSeq(b, 0 + 1, Len(e))
      BY <2>6, <2>7 DEF Inside
    <3> QED
      BY <2>1, <2>3, <3>1
  <2> QED
    BY <1>2, <2>1, <2>2, <2>5, <2>7, <2>8 DEF ItemOf, e, b
<1>3. CASE ~(Len(s) = 1 /\ s[1] < 128)
  <2> DEFINE p == Prefix(Len(s), 128, 183)
  <2>1. e = p \o s
    BY <1>3 DEF Item
  <2> DEFINE u == s \o t
  <2>2. u \in Seq(Byte) /\ Len(u) \in Nat
    BY Concat
  <2> HIDE DEF p, e, u
  <2>3. /\ p \in Seq(Byte) /\ Len(p) >= 1 /\ Len(p) \in Nat
        /\ p \o u \in Seq(Byte)
        /\ ReadSz(p \o u) = [header |-> Len(p), size |-> Len(s)]
        /\ (p \o u)[1] >= 128 /\ (p \o u)[1] < 192
    BY <1>1, <2>2, StringSize DEF p
  <2>4. b = p \o u
    <3>1. p \in Seq(Byte)
      BY <2>3
    <3>2. (p \o s) \o t = p \o (s \o t)
      BY <3>1, ConcatAssociative
    <3> QED
      BY <2>1, <3>2 DEF u
  <2>5. e \in Seq(Byte) /\ Len(e) = Len(p) + Len(s)
    BY <2>1, <2>3, Concat
  <2>6. SubSeq(b, Len(p) + 1, Len(p) + Len(s)) = s
    BY <2>1, <2>3, Middle
  <2> HIDE DEF b
  <2>7. ReadSz(b) = [header |-> Len(p), size |-> Len(s)]
    BY <2>3, <2>4
  <2>8. ReadSize(b) = Len(e) /\ Inside(b) = s
    BY <2>5, <2>6, <2>7 DEF ReadSize, Inside
  <2>9. b \in Seq(Byte) /\ b[1] < 192 /\ b[1] \in Nat
    <3>1. b \in Seq(Byte) /\ b[1] < 192 /\ 1 \in 1..Len(b)
      <4>1. Len(p \o u) = Len(p) + Len(u)
        BY <2>2, <2>3, Concat
      <4> QED
        BY <2>3, <2>4, <4>1
    <3>2. b[1] \in Byte
      BY <3>1
    <3> QED
      BY <3>1, <3>2, ByteNat
  <2>10. Len(e) \in Nat /\ Len(e) >= 1
    BY <1>1, <2>3, <2>5
  <2> QED
    BY <2>5, <2>8, <2>9, <2>10 DEF ItemOf, e, b
<1> QED
  BY <1>2, <1>3

\* What is shorter than something with a length of four bytes has one, too.
LEMMA Uint32Less ==
  ASSUME NEW n, Uint32(n), NEW k \in Nat, k <= n
  PROVE  Uint32(k)
<1> DEFINE w == Weight[4]
<1>1. w \in Nat /\ w > 0
  BY DEF Weight
<1>2. n \in Nat /\ n \div w \in 0..255
  BY DEF Uint32, Byte
<1> HIDE DEF w
<1>3. k \div w \in Nat /\ k \div w <= n \div w
  BY <1>1, <1>2
<1>4. k \div w \in 0..255
  BY <1>2, <1>3
<1> QED
  BY <1>4 DEF Uint32, Byte, w

\* An item of any length
LEMMA ItemBytes ==
  ASSUME NEW s \in Seq(Byte)
  PROVE  /\ Item(s).b \in Seq(Byte) /\ Len(Item(s).b) \in Nat
         /\ Len(Item(s).b) >= 1 /\ Len(Item(s).b) >= Len(s)
         /\ ~IsList(Item(s))
<1>1. Len(s) \in Nat
  OBVIOUS
<1> DEFINE e == Item(s).b
<1>2. e \in Seq(Byte) /\ Len(e) \in Nat /\ Len(e) >= 1 /\ Len(e) >= Len(s)
  <2>1. CASE Len(s) = 1 /\ s[1] < 128
    <3>1. e = s
      BY <2>1 DEF Item
    <3>2. 1 \in Nat /\ 1 >= 1
      OBVIOUS
    <3> HIDE DEF e
    <3> QED
      BY <2>1, <3>1, <3>2, Zenon
  <2>2. CASE ~(Len(s) = 1 /\ s[1] < 128)
    <3> DEFINE p == Prefix(Len(s), 128, 183)
    <3>1. e = p \o s
      BY <2>2 DEF Item
    <3>2. p \in Seq(Byte) /\ Len(p) >= 1 /\ Len(p) \in Nat
      <4>1. PICK short, long : short = 128 /\ long = 183
        OBVIOUS
      <4>2. short \in 128..192 /\ long \in 183..247 /\ p = Prefix(Len(s), short, long)
        BY <4>1
      <4> HIDE DEF p
      <4> QED
        BY <1>1, <4>2, PrefixBytes
    <3> HIDE DEF p, e
    <3>3. e \in Seq(Byte) /\ Len(e) = Len(p) + Len(s)
      BY <3>1, <3>2, Concat
    <3> QED
      BY <1>1, <3>2, <3>3
  <2> QED
    BY <2>1, <2>2
<1>3. ~IsList(Item(s))
  <2> HIDE DEF e
  <2>1. e # <<>>
    BY <1>2
  <2> QED
    BY <2>1 DEF IsList, e
<1> QED
  BY <1>2, <1>3

\* rlp_as_mem returns the bytes of an item.
LEMMA ItemMem ==
  ASSUME NEW s \in Seq(Byte), Uint32(Len(s))
  PROVE  Mem(Item(s)) = s
<1> DEFINE e == Item(s).b
           none == <<>>
<1>1. none \in Seq(Byte) /\ \A x \in Seq(Byte) : x \o none = x
  OBVIOUS
<1> HIDE DEF none
<1>2. ItemOf(s, none)
  BY <1>1, ItemParts
<1>3. e \in Seq(Byte) /\ Inside(e \o none) = s
  BY <1>2 DEF ItemOf
<1> QED
  BY <1>1, <1>3 DEF Mem

---------------------------------------------------------------------------
(* Trees *)

\* Nodes of the struct are more than the trees that are built.
LEMMA TreesAreNodes == \A d \in 0..MaxDepth : Trees[d] \subseteq Nodes[d]
<1> DEFINE S == {d \in 0..MaxDepth : Trees[d] \subseteq Nodes[d]}
<1>0. MaxDepth \in Nat
  BY RlpAssumption
<1>1. 0 \in S
  <2>1. 0 \in 0..MaxDepth
    BY <1>0
  <2>2. Trees[0] = {}
    BY <2>1, TreesDef
  <2> QED
    BY <2>1, <2>2
<1>2. ASSUME NEW d \in 0..MaxDepth, d \in S, d < MaxDepth PROVE d + 1 \in S
  <2>1. d + 1 \in 0..MaxDepth /\ d + 1 # 0 /\ (d + 1) - 1 = d
    BY <1>0, <1>2
  <2>2. Trees[d + 1] = Over(Trees[d])
    BY <2>1, TreesDef
  <2>3. Nodes[d + 1] = [b : Seq(Byte), child : Seq(Nodes[d])]
    BY <2>1, NodesDef
  <2>4. Trees[d] \subseteq Nodes[d]
    BY <1>2
  <2>5. Seq(Trees[d]) \subseteq Seq(Nodes[d])
    BY <2>4, SeqMonotonic
  <2>6. \A T : <<>> \in Seq(T)
    OBVIOUS
  <2>7. ASSUME NEW x \in Over(Trees[d]) PROVE x \in [b : Seq(Byte), child : Seq(Nodes[d])]
    <3>1. CASE \E s \in Seq(Byte) : x = Item(s)
      <4>1. PICK s \in Seq(Byte) : x = Item(s)
        BY <3>1
      <4>2. Item(s).b \in Seq(Byte)
        BY ItemBytes
      <4>3. Item(s) = [b |-> Item(s).b, child |-> <<>>]
        BY DEF Item
      <4>4. ASSUME NEW y \in Seq(Byte)
            PROVE  [b |-> y, child |-> <<>>] \in [b : Seq(Byte), child : Seq(Nodes[d])]
        BY <2>6
      <4> QED
        BY <4>1, <4>2, <4>3, <4>4, Zenon
    <3>2. CASE x \in [b : {<<>>}, child : Seq(Trees[d])]
      <4>1. <<>> \in Seq(Byte)
        BY <2>6
      <4> QED
        BY <2>5, <3>2, <4>1
    <3> QED
      BY <3>1, <3>2 DEF Over
  <2> QED
    BY <2>1, <2>2, <2>3, <2>7
<1>3. 0..MaxDepth \subseteq S
  <2> HIDE DEF S
  <2> QED
    BY <1>0, <1>1, <1>2, NumbersUpTo
<1> QED
  BY <1>3

---------------------------------------------------------------------------
(* Printing *)

\* As many bytes are written as are counted.
Exact(w) == w.out \in Seq(Byte) /\ Len(w.out) \in Nat /\ w.sz = Len(w.out)

\* What is below a node in T
Counted(T, inner) == \A x \in T : Exact(Written(x, inner)) /\ Written(x, inner).sz >= 1

\* What rlp_print_walk returns and what it has written are two things.
LEMMA Fields == \A x, y : [sz |-> x, out |-> y].sz = x /\ [sz |-> x, out |-> y].out = y
OBVIOUS

\* The loop of rlp_print_walk keeps the count.
LEMMA SiblingsExact ==
  ASSUME NEW T, NEW inner, Counted(T, inner), NEW c \in Seq(T)
  PROVE  \A k \in 0..Len(c) : /\ Exact(Siblings(c, inner)[k])
                              /\ Siblings(c, inner)[k].sz >= k
<1> DEFINE W(k) == Siblings(c, inner)[k]
           S == {k \in 0..Len(c) : Exact(W(k)) /\ W(k).sz >= k}
<1>0. Len(c) \in Nat
  OBVIOUS
<1>1. \A k \in 0..Len(c) : W(k) = IF k = 0 THEN [sz |-> 0, out |-> <<>>]
          ELSE [sz |-> W(k - 1).sz + Written(c[k], inner).sz,
                out |-> Written(c[k], inner).out \o W(k - 1).out]
  BY <1>0, SiblingsDef
<1> HIDE DEF W
<1>2. 0 \in S
  <2>1. 0 \in 0..Len(c)
    BY <1>0
  <2>2. W(0) = [sz |-> 0, out |-> <<>>]
    BY <1>1, <2>1
  <2>3. Exact(W(0)) /\ W(0).sz >= 0
    <3>1. PICK none : none = <<>>
      OBVIOUS
    <3>2. none \in Seq(Byte) /\ Len(none) = 0
      BY <3>1
    <3>3. W(0).sz = 0 /\ W(0).out = none
      BY <2>2, <3>1, Fields, Zenon
    <3>4. 0 \in Nat /\ 0 >= 0
      OBVIOUS
    <3>5. W(0).sz >= 0
      BY <3>3, <3>4
    <3> QED
      BY <3>2, <3>3, <3>4, <3>5, Zenon DEF Exact
  <2> QED
    BY <2>1, <2>3
<1>3. ASSUME NEW j \in 0..Len(c), j \in S, j < Len(c) PROVE j + 1 \in S
  <2> DEFINE k == j + 1
             w == Written(c[k], inner)
  <2>1. k \in 0..Len(c) /\ k # 0 /\ k - 1 = j /\ k \in 1..Len(c)
    BY <1>0, <1>3
  <2>2. Exact(W(j)) /\ W(j).sz >= j
    BY <1>3
  <2>3. c[k] \in T
    BY <2>1
  <2>4. Exact(w) /\ w.sz >= 1
    BY <2>3 DEF Counted
  <2>5. W(k) = [sz |-> W(j).sz + w.sz, out |-> w.out \o W(j).out]
    BY <1>1, <2>1
  <2> HIDE DEF w
  <2>6. W(k).sz = W(j).sz + w.sz /\ W(k).out = w.out \o W(j).out
    BY <2>5, Fields, Zenon
  <2>7. /\ w.out \o W(j).out \in Seq(Byte)
        /\ Len(w.out \o W(j).out) = Len(w.out) + Len(W(j).out)
    BY <2>2, <2>4, Concat DEF Exact
  <2>8. Exact(W(k)) /\ W(k).sz >= k
    <3>1. PICK x, y, l, m : x = W(j) /\ y = w /\ l = Len(x.out) /\ m = Len(y.out)
      OBVIOUS
    <3>2. /\ x.sz = l /\ l \in Nat /\ y.sz = m /\ m \in Nat
          /\ l >= j /\ m >= 1
      BY <2>2, <2>4, <3>1 DEF Exact
    <3>3. l + m \in Nat /\ m + l = l + m /\ l + m >= j + 1
      BY <3>2
    <3>4. W(k).sz = l + m /\ Len(W(k).out) = m + l /\ W(k).out \in Seq(Byte)
      BY <2>6, <2>7, <3>1, <3>2
    <3> QED
      BY <3>3, <3>4 DEF Exact
  <2> QED
    BY <2>1, <2>8
<1>4. 0..Len(c) \subseteq S
  <2> HIDE DEF S
  <2> QED
    BY <1>0, <1>2, <1>3, NumbersUpTo
<1> QED
  BY <1>4 DEF W

\* The header of a list is counted, too.
LEMMA WithPrefixExact ==
  ASSUME NEW body, Exact(body)
  PROVE  /\ Exact(WithPrefix(body))
         /\ WithPrefix(body).out = Prefix(body.sz, 192, 247) \o body.out
         /\ WithPrefix(body).sz >= body.sz + 1
<1> DEFINE p == Prefix(body.sz, 192, 247)
           w == WithPrefix(body)
<1>1. PICK n, o : n = body.sz /\ o = body.out
  OBVIOUS
<1>2. n \in Nat /\ o \in Seq(Byte) /\ n = Len(o)
  BY <1>1, Zenon DEF Exact
<1>3. p \in Seq(Byte) /\ Len(p) >= 1 /\ Len(p) \in Nat
  <2>1. PICK short, long : short = 192 /\ long = 247
    OBVIOUS
  <2>2. short \in 128..192 /\ long \in 183..247 /\ p = Prefix(n, short, long)
    BY <1>1, <2>1
  <2> HIDE DEF p
  <2> QED
    BY <1>2, <2>2, PrefixBytes
<1>4. w = [sz |-> n + Len(p), out |-> p \o o]
  BY <1>1 DEF WithPrefix
<1> HIDE DEF p, w
<1>5. w.sz = n + Len(p) /\ w.out = p \o o
  BY <1>4, Fields, Zenon
<1>6. p \o o \in Seq(Byte) /\ Len(p \o o) = Len(p) + Len(o)
  BY <1>2, <1>3, Concat
<1>7. n + Len(p) = Len(p) + Len(o) /\ Len(p) + Len(o) \in Nat /\ n + Len(p) >= n + 1
  BY <1>2, <1>3
<1>8. w.out \in Seq(Byte) /\ Len(w.out) \in Nat /\ w.sz = Len(w.out) /\ w.sz >= n + 1
  BY <1>5, <1>6, <1>7, Zenon
<1> QED
  BY <1>1, <1>5, <1>8, Zenon DEF Exact, w, p

\* What is written for an item ...
LEMMA WrittenItem ==
  ASSUME NEW s \in Seq(Byte), NEW inner
  PROVE  /\ Written(Item(s), inner).out = Item(s).b
         /\ Exact(Written(Item(s), inner)) /\ Written(Item(s), inner).sz >= 1
<1> DEFINE x == Item(s)
           w == Written(x, inner)
<1>1. x.b \in Seq(Byte) /\ Len(x.b) \in Nat /\ Len(x.b) >= 1 /\ ~IsList(x)
  BY ItemBytes
<1> HIDE DEF x
<1>2. w = [sz |-> Len(x.b), out |-> x.b]
  BY <1>1 DEF Written
<1> HIDE DEF w
<1>3. w.sz = Len(x.b) /\ w.out = x.b
  BY <1>2, Fields, Zenon
<1> QED
  BY <1>1, <1>3, Zenon DEF Exact, x, w

\* ... for an empty list
LEMMA WrittenEmpty ==
  ASSUME NEW x, IsList(x), x.child = <<>>, NEW inner
  PROVE  /\ Written(x, inner).out = <<192>>
         /\ Exact(Written(x, inner)) /\ Written(x, inner).sz >= 1
<1> DEFINE w == Written(x, inner)
<1>1. w = [sz |-> 1, out |-> <<192>>]
  BY DEF Written
<1> HIDE DEF w
<1>2. w.sz = 1 /\ w.out = <<192>>
  BY <1>1, Fields, Zenon
<1>3. <<192>> \in Seq(Byte) /\ Len(<<192>>) = 1 /\ 1 \in Nat /\ 1 >= 1
  <2>1. 192 \in Byte
    BY DEF Byte
  <2>2. PICK y \in Byte : y = 192
    BY <2>1
  <2> QED
    BY <2>2, OneByte
<1> QED
  BY <1>2, <1>3, Zenon DEF Exact, w

\* ... and for a list of what is one level down
LEMMA WrittenList ==
  ASSUME NEW d \in 0..MaxDepth, d > 0, NEW x, IsList(x), x.child # <<>>, x.child \in Seq(Trees[d])
  PROVE  Written(x, PrintWalk[d]) =
           WithPrefix(Siblings(x.child, PrintWalk[d - 1])[Len(x.child)])
<1>1. Written(x, PrintWalk[d]) = PrintWalk[d][x.child]
  BY DEF Written
<1>2. x.child \in Seq(Nodes[d])
  <2>1. Trees[d] \subseteq Nodes[d]
    BY TreesAreNodes
  <2> QED
    BY <2>1, SeqMonotonic
<1>3. PrintWalk[d] = [nodes \in Seq(Nodes[d]) |->
        WithPrefix(Siblings(nodes, PrintWalk[d - 1])[Len(nodes)])]
  BY PrintWalkDef
<1> QED
  BY <1>1, <1>2, <1>3

\* Lists have something in them only when there is a level below.
LEMMA OverCases ==
  ASSUME NEW d \in 0..MaxDepth, NEW x \in Over(Trees[d])
  PROVE  \/ \E s \in Seq(Byte) : x = Item(s)
         \/ IsList(x) /\ x = List
         \/ /\ IsList(x) /\ x = [List EXCEPT !.child = x.child] /\ x.child # <<>>
            /\ d > 0 /\ x.child \in Seq(Trees[d])
            /\ d - 1 \in 0..MaxDepth /\ Trees[d] = Over(Trees[d - 1])
<1> SUFFICES ASSUME x \in [b : {<<>>}, child : Seq(Trees[d])]
             PROVE  \/ IsList(x) /\ x = List
                    \/ /\ IsList(x) /\ x = [List EXCEPT !.child = x.child] /\ x.child # <<>>
                       /\ d > 0 /\ x.child \in Seq(Trees[d])
                       /\ d - 1 \in 0..MaxDepth /\ Trees[d] = Over(Trees[d - 1])
  BY DEF Over
<1>1. IsList(x) /\ x = [b |-> <<>>, child |-> x.child] /\ x.child \in Seq(Trees[d])
  BY DEF IsList
<1>2. x = [List EXCEPT !.child = x.child]
  BY <1>1 DEF List
<1>3. CASE x.child = <<>>
  BY <1>1, <1>3, Zenon DEF List
<1>4. CASE x.child # <<>>
  <2>1. d # 0
    <3>1. SUFFICES ASSUME d = 0 PROVE FALSE
      OBVIOUS
    <3>2. Trees[0] = {}
      <4>1. 0 \in 0..MaxDepth
        BY <3>1
      <4> QED
        BY <4>1, TreesDef
    <3>3. x.child \in Seq({})
      BY <1>1, <3>1, <3>2
    <3>4. \A c \in Seq({}) : c = <<>>
      OBVIOUS
    <3> QED
      BY <1>4, <3>3, <3>4
  <2>2. d > 0 /\ d - 1 \in 0..MaxDepth
    <3>1. MaxDepth \in Nat
      BY RlpAssumption
    <3> QED
      BY <2>1, <3>1
  <2>3. Trees[d] = Over(Trees[d - 1])
    BY <2>1, TreesDef
  <2> QED
    BY <1>1, <1>2, <1>4, <2>2, <2>3
<1> QED
  BY <1>3, <1>4

\* rlp_print_walk counts the bytes it writes for the trees of every depth.
LEMMA PrintExact == \A d \in 0..MaxDepth : Counted(Over(Trees[d]), PrintWalk[d])
<1> DEFINE S == {d \in 0..MaxDepth : Counted(Over(Trees[d]), PrintWalk[d])}
<1>0. MaxDepth \in Nat
  BY RlpAssumption
<1>1. ASSUME NEW d \in 0..MaxDepth, d > 0 => d - 1 \in S PROVE d \in S
  <2> SUFFICES ASSUME NEW x \in Over(Trees[d])
               PROVE  Exact(Written(x, PrintWalk[d])) /\ Written(x, PrintWalk[d]).sz >= 1
    BY DEF Counted
  <2>1. CASE \E s \in Seq(Byte) : x = Item(s)
    BY <2>1, WrittenItem
  <2>2. CASE IsList(x) /\ x = List
    <3>1. x.child = <<>>
      BY <2>2 DEF List
    <3> QED
      BY <2>2, <3>1, WrittenEmpty
  <2>3. CASE /\ IsList(x) /\ x.child # <<>> /\ d > 0 /\ x.child \in Seq(Trees[d])
             /\ d - 1 \in 0..MaxDepth /\ Trees[d] = Over(Trees[d - 1])
    <3> DEFINE body == Siblings(x.child, PrintWalk[d - 1])[Len(x.child)]
               w == Written(x, PrintWalk[d])
    <3>1. Counted(Trees[d], PrintWalk[d - 1])
      BY <1>1, <2>3
    <3>2. Exact(body) /\ body.sz >= Len(x.child)
      <4>1. Len(x.child) \in Nat /\ Len(x.child) \in 0..Len(x.child)
        BY <2>3
      <4> QED
        BY <2>3, <3>1, <4>1, SiblingsExact
    <3>3. w = WithPrefix(body)
      BY <2>3, WrittenList
    <3> HIDE DEF body, w
    <3>4. Exact(w) /\ w.sz >= body.sz + 1
      BY <3>2, <3>3, WithPrefixExact
    <3>5. w.sz >= 1
      <4>1. PICK n, m : n = body.sz /\ m = w.sz
        OBVIOUS
      <4>2. n \in Nat /\ m \in Nat
        BY <3>2, <3>4, <4>1, Zenon DEF Exact
      <4>3. m >= n + 1
        BY <3>4, <4>1, Zenon
      <4>4. m >= 1
        BY <4>2, <4>3
      <4> QED
        BY <4>1, <4>4
    <3> QED
      BY <3>4, <3>5 DEF w
  <2> QED
    BY <2>1, <2>2, <2>3, OverCases
<1>2. 0 \in S
  <2>1. 0 \in 0..MaxDepth /\ ~(0 > 0)
    BY <1>0
  <2> HIDE DEF S
  <2> QED
    BY <1>1, <2>1
<1>3. ASSUME NEW d \in 0..MaxDepth, d \in S, d < MaxDepth PROVE d + 1 \in S
  <2>1. d + 1 \in 0..MaxDepth /\ (d + 1) - 1 = d
    BY <1>0, <1>3
  <2> HIDE DEF S
  <2> QED
    BY <1>1, <1>3, <2>1
<1>4. 0..MaxDepth \subseteq S
  <2> HIDE DEF S
  <2> QED
    BY <1>0, <1>2, <1>3, NumbersUpTo
<1> QED
  BY <1>4

---------------------------------------------------------------------------
(* Parsing *)

\* What is needed of rlp_parse_walk to read back a list x whose bytes are w
ChildrenRead(x, d, w, walk) ==
  LET o == Siblings(x.child, PrintWalk[d - 1])[Len(x.child)].out
  IN  x.child # <<>> /\ d > 0 /\ x.child \in Seq(Trees[d]) /\ Len(o) < Len(w) => walk[o] = x.child

\* A printed node at the head of a buffer is found there, with its end.
HeadRead(x, w, t, walk) ==
  LET b == w \o t
  IN  /\ b \in Seq(Byte)
      /\ ReadSize(b) = Len(w)
      /\ First(b, walk) = x
      /\ IsList(x) => b[1] \in Byte /\ b[1] >= 192 /\ ReadSz(b).size \in Nat /\ ReadSz(b).size >= 1

\* An item at the head of a buffer is read ...
LEMMA ItemRead ==
  ASSUME NEW s \in Seq(Byte), NEW w, w = Item(s).b, Uint32(Len(w)), NEW t \in Seq(Byte), NEW walk
  PROVE  HeadRead(Item(s), w, t, walk)
<1>1. Len(s) \in Nat /\ Len(s) <= Len(w) /\ ~IsList(Item(s))
  BY ItemBytes
<1>2. Uint32(Len(s))
  BY <1>1, Uint32Less
<1>3. ItemOf(s, t)
  BY <1>2, ItemParts
<1> DEFINE b == w \o t
<1>4. b \in Seq(Byte) /\ b[1] < 192 /\ ReadSize(b) = Len(w) /\ Inside(b) = s
  BY <1>3 DEF ItemOf
<1> HIDE DEF b
<1>5. First(b, walk) = Item(s)
  BY <1>4, Zenon DEF First
<1> QED
  BY <1>1, <1>4, <1>5 DEF HeadRead, b

\* ... and an empty list ...
LEMMA EmptyRead ==
  ASSUME NEW t \in Seq(Byte), NEW walk
  PROVE  HeadRead(List, <<192>>, t, walk)
<1> DEFINE w == <<192>>
           b == w \o t
<1>1. w \in Seq(Byte) /\ Len(w) = 1 /\ w[1] = 192 /\ 192 \in Byte
  <2>1. 192 \in Byte
    BY DEF Byte
  <2>2. PICK y \in Byte : y = 192
    BY <2>1
  <2> QED
    BY <2>2, OneByte
<1> HIDE DEF w
<1>2. b \in Seq(Byte) /\ b[1] = 192
  <2>1. b \in Seq(Byte) /\ \A k \in 1..Len(w) : b[k] = w[k]
    BY <1>1, Concat
  <2>2. 1 \in 1..Len(w)
    BY <1>1
  <2> QED
    BY <1>1, <2>1, <2>2
<1> HIDE DEF b
<1>3. ReadSz(b) = [header |-> 0, size |-> 1]
  BY <1>1, <1>2, ReadSzCases
<1>4. ReadSize(b) = Len(w) /\ ReadSz(b).size = 1
  BY <1>1, <1>3 DEF ReadSize
<1>5. First(b, walk) = List
  BY <1>2 DEF First
<1>6. b[1] \in Byte /\ b[1] >= 192 /\ 1 \in Nat /\ 1 >= 1
  BY <1>1, <1>2
<1> QED
  BY <1>2, <1>4, <1>5, <1>6 DEF HeadRead, b, w

\* ... and another list, when what is in it is read.
LEMMA ListRead ==
  ASSUME NEW body, Exact(body), body.sz >= 1,
         NEW w, w = WithPrefix(body).out, Uint32(Len(w)),
         NEW t \in Seq(Byte), NEW walk, NEW x, x = [List EXCEPT !.child = walk[body.out]]
  PROVE  HeadRead(x, w, t, walk) /\ Len(body.out) < Len(w)
<1> DEFINE p == Prefix(body.sz, 192, 247)
           o == body.out
           n == body.sz
           u == o \o t
           b == w \o t
<1>1. o \in Seq(Byte) /\ Len(o) = n /\ n \in Nat /\ n >= 1 /\ n > 0
  <2>1. o \in Seq(Byte) /\ Len(o) = n /\ n \in Nat
    BY Zenon DEF Exact
  <2> HIDE DEF n
  <2>2. n >= 1
    BY DEF n
  <2> QED
    BY <2>1, <2>2
<1>2. w = p \o o
  BY WithPrefixExact
<1> HIDE DEF o, n
<1>3. u \in Seq(Byte) /\ Len(u) \in Nat
  BY <1>1, Concat
<1> HIDE DEF u
<1>4. p \in Seq(Byte) /\ Len(p) \in Nat /\ Len(p) >= 1
  <2>1. PICK short, long : short = 192 /\ long = 247
    OBVIOUS
  <2>2. short \in 128..192 /\ long \in 183..247 /\ p = Prefix(n, short, long)
    BY <2>1 DEF n
  <2> HIDE DEF p
  <2> QED
    BY <1>1, <2>2, PrefixBytes
<1>5. Len(w) = Len(p) + n /\ n <= Len(w) /\ n < Len(w) /\ w \in Seq(Byte)
  <2>1. p \in Seq(Byte)
    BY <1>4
  <2> HIDE DEF p
  <2>2. Len(p \o o) = Len(p) + Len(o) /\ p \o o \in Seq(Byte)
    BY <1>1, <2>1, Concat
  <2>3. Len(w) = Len(p) + n /\ w \in Seq(Byte)
    BY <1>1, <1>2, <2>2, Zenon
  <2>4. n <= Len(p) + n /\ n < Len(p) + n
    BY <1>1, <1>4
  <2> QED
    BY <2>3, <2>4, Zenon
<1>6. Uint32(n)
  BY <1>1, <1>5, Uint32Less
<1>7. b = p \o u
  <2>1. p \in Seq(Byte) /\ o \in Seq(Byte)
    BY <1>1, <1>4
  <2> HIDE DEF p, b
  <2>2. (p \o o) \o t = p \o (o \o t)
    <3>1. \A q, r, v \in Seq(Byte) : (q \o r) \o v = q \o (r \o v)
      BY ConcatAssociative
    <3> QED
      BY <2>1, <3>1
  <2> QED
    BY <1>2, <2>2, Zenon DEF u, b
<1>8. /\ p \o u \in Seq(Byte)
      /\ ReadSz(p \o u) = [header |-> Len(p), size |-> n]
      /\ (p \o u)[1] > 192
  BY <1>1, <1>3, <1>6, ListSize DEF n
<1>9. SubSeq(b, Len(p) + 1, Len(p) + Len(o)) = o
  <2>1. p \in Seq(Byte)
    BY <1>4
  <2> HIDE DEF p
  <2>2. SubSeq((p \o o) \o t, Len(p) + 1, Len(p) + Len(o)) = o
    BY <1>1, <2>1, Middle
  <2> QED
    BY <1>2, <2>2, Zenon
<1> HIDE DEF b, p
<1>10. b \in Seq(Byte) /\ ReadSz(b) = [header |-> Len(p), size |-> n] /\ b[1] > 192
  BY <1>7, <1>8
<1>11. ReadSize(b) = Len(w) /\ Inside(b) = o /\ ReadSz(b).size = n
  <2>1. ReadSz(b).header = Len(p) /\ ReadSz(b).size = n
    BY <1>10
  <2>2. ReadSize(b) = Len(p) + n
    BY <2>1, Zenon DEF ReadSize
  <2>3. Inside(b) = SubSeq(b, Len(p) + 1, Len(p) + Len(o))
    BY <1>1, <2>1, <2>2, Zenon DEF Inside
  <2> QED
    BY <1>5, <1>9, <2>1, <2>2, <2>3, Zenon
<1>12. b[1] \in Byte /\ b[1] \in Nat
  <2>1. Len(b) = Len(w) + Len(t)
    BY <1>5, Concat DEF b
  <2>2. 1 \in 1..Len(b)
    BY <1>1, <1>4, <1>5, <2>1
  <2>3. b[1] \in Byte
    BY <1>10, <2>2
  <2> QED
    BY <2>3, ByteNat
<1>13. First(b, walk) = x
  <2>1. ~(b[1] < 192) /\ b[1] # 192
    BY <1>10, <1>12
  <2> QED
    BY <1>11, <2>1, Zenon DEF First, o
<1>14. b[1] >= 192
  BY <1>10, <1>12
<1>15. HeadRead(x, w, t, walk)
  BY <1>1, <1>10, <1>11, <1>12, <1>13, <1>14, Zenon DEF HeadRead, b
<1> QED
  BY <1>1, <1>5, <1>15, Zenon DEF o

\* A node at the head of a buffer is read when what is below it is.
LEMMA NodeRead ==
  ASSUME NEW d \in 0..MaxDepth, NEW x \in Over(Trees[d]),
         NEW w, w = Written(x, PrintWalk[d]).out, Uint32(Len(w)),
         NEW t \in Seq(Byte), NEW walk,
         ChildrenRead(x, d, w, walk)
  PROVE  HeadRead(x, w, t, walk)
<1>1. CASE \E s \in Seq(Byte) : x = Item(s)
  <2>1. PICK s \in Seq(Byte) : x = Item(s)
    BY <1>1
  <2>2. w = Item(s).b
    BY <2>1, WrittenItem
  <2>3. HeadRead(Item(s), w, t, walk)
    BY <2>2, ItemRead
  <2> QED
    BY <2>1, <2>3
<1>2. CASE IsList(x) /\ x = List
  <2>1. x.child = <<>>
    BY <1>2 DEF List
  <2>2. w = <<192>>
    BY <1>2, <2>1, WrittenEmpty
  <2>3. HeadRead(List, <<192>>, t, walk)
    BY EmptyRead
  <2> QED
    BY <1>2, <2>2, <2>3
<1>3. CASE /\ IsList(x) /\ x = [List EXCEPT !.child = x.child] /\ x.child # <<>>
           /\ d > 0 /\ x.child \in Seq(Trees[d])
           /\ d - 1 \in 0..MaxDepth /\ Trees[d] = Over(Trees[d - 1])
  <2> DEFINE body == Siblings(x.child, PrintWalk[d - 1])[Len(x.child)]
  <2>1. Len(x.child) \in Nat /\ Len(x.child) \in 0..Len(x.child) /\ Len(x.child) >= 1
    BY <1>3
  <2>2. Exact(body) /\ body.sz >= Len(x.child)
    <3>1. Counted(Trees[d], PrintWalk[d - 1])
      BY <1>3, PrintExact
    <3> QED
      BY <1>3, <2>1, <3>1, SiblingsExact
  <2>3. w = WithPrefix(body).out
    BY <1>3, WrittenList
  <2>4. body.sz >= 1
    <3>1. PICK n, m : n = body.sz /\ m = Len(x.child)
      OBVIOUS
    <3>2. n \in Nat /\ m \in Nat /\ n >= m /\ m >= 1
      BY <2>1, <2>2, <3>1, Zenon DEF Exact
    <3>3. n >= 1
      BY <3>2
    <3> QED
      BY <3>1, <3>3
  <2> HIDE DEF body
  <2>5. Len(body.out) < Len(w)
    BY <2>2, <2>3, <2>4, ListRead
  <2>6. walk[body.out] = x.child
    BY <1>3, <2>5, Zenon DEF ChildrenRead, body
  <2>7. x = [List EXCEPT !.child = walk[body.out]]
    BY <1>3, <2>6
  <2> QED
    BY <2>2, <2>3, <2>4, <2>7, ListRead
<1> QED
  BY <1>1, <1>2, <1>3, OverCases

\* rlp_parse_walk of up to n bytes reads back the first k of the children c that it was given
\* by rlp_print_walk.
WalkRead(n, d, c, k) ==
  LET o == Siblings(c, PrintWalk[d])[k].out
  IN  Len(o) <= n => ParseWalk[n][o] = SubSeq(c, 1, k)

\* ... at every depth
LevelsRead(n) ==
  \A d \in 0..MaxDepth : d < MaxDepth =>
    \A c \in Seq(Trees[d + 1]) : \A k \in 0..Len(c) : WalkRead(n, d, c, k)

\* What the loop of rlp_print_walk adds to what it wrote
LEMMA SiblingsStep ==
  ASSUME NEW d \in 0..MaxDepth, d < MaxDepth, NEW c \in Seq(Trees[d + 1])
  PROVE  /\ Siblings(c, PrintWalk[d])[0].out = <<>>
         /\ \A k \in 1..Len(c) :
              /\ c[k] \in Over(Trees[d]) /\ k - 1 \in 0..Len(c)
              /\ Exact(Written(c[k], PrintWalk[d])) /\ Written(c[k], PrintWalk[d]).sz >= 1
              /\ Siblings(c, PrintWalk[d])[k].out =
                   Written(c[k], PrintWalk[d]).out \o Siblings(c, PrintWalk[d])[k - 1].out
         /\ \A k \in 0..Len(c) : Exact(Siblings(c, PrintWalk[d])[k]) /\ Siblings(c, PrintWalk[d])[k].sz >= k
<1> DEFINE inner == PrintWalk[d]
           W(k) == Siblings(c, inner)[k]
<1>0. Len(c) \in Nat /\ MaxDepth \in Nat
  BY RlpAssumption
<1>1. \A k \in 0..Len(c) : W(k) = IF k = 0 THEN [sz |-> 0, out |-> <<>>]
          ELSE [sz |-> W(k - 1).sz + Written(c[k], inner).sz,
                out |-> Written(c[k], inner).out \o W(k - 1).out]
  <2> HIDE DEF inner
  <2> QED
    BY <1>0, SiblingsDef
<1>2. Trees[d + 1] = Over(Trees[d])
  <2>1. d + 1 \in 0..MaxDepth /\ d + 1 # 0 /\ (d + 1) - 1 = d
    BY <1>0
  <2> QED
    BY <2>1, TreesDef
<1>3. Counted(Over(Trees[d]), inner)
  BY PrintExact
<1>4. \A k \in 0..Len(c) : Exact(W(k)) /\ W(k).sz >= k
  BY <1>2, <1>3, SiblingsExact
<1> HIDE DEF W, inner
<1>5. W(0).out = <<>>
  <2>1. 0 \in 0..Len(c)
    BY <1>0
  <2>2. W(0) = [sz |-> 0, out |-> <<>>]
    BY <1>1, <2>1
  <2> QED
    BY <2>2, Fields, Zenon
<1>6. ASSUME NEW k \in 1..Len(c)
      PROVE  /\ c[k] \in Over(Trees[d]) /\ k - 1 \in 0..Len(c)
             /\ Exact(Written(c[k], inner)) /\ Written(c[k], inner).sz >= 1
             /\ W(k).out = Written(c[k], inner).out \o W(k - 1).out
  <2>1. k \in 0..Len(c) /\ k # 0 /\ k - 1 \in 0..Len(c)
    BY <1>0
  <2>2. c[k] \in Over(Trees[d])
    BY <1>2
  <2>3. Exact(Written(c[k], inner)) /\ Written(c[k], inner).sz >= 1
    BY <1>3, <2>2 DEF Counted
  <2>4. W(k) = [sz |-> W(k - 1).sz + Written(c[k], inner).sz,
                out |-> Written(c[k], inner).out \o W(k - 1).out]
    BY <1>1, <2>1
  <2>5. W(k).out = Written(c[k], inner).out \o W(k - 1).out
    BY <2>4, Fields, Zenon
  <2> QED
    BY <2>1, <2>2, <2>3, <2>5
<1> QED
  BY <1>4, <1>5, <1>6 DEF W, inner

\* Nothing is read of no bytes.
LEMMA WalkStart == LevelsRead(0)
<1> SUFFICES ASSUME NEW d \in 0..MaxDepth, d < MaxDepth, NEW c \in Seq(Trees[d + 1]),
                    NEW k \in 0..Len(c), Len(Siblings(c, PrintWalk[d])[k].out) <= 0
             PROVE  ParseWalk[0][Siblings(c, PrintWalk[d])[k].out] = SubSeq(c, 1, k)
  BY DEF LevelsRead, WalkRead
<1> DEFINE W == Siblings(c, PrintWalk[d])[k]
<1>1. Exact(W) /\ W.sz >= k
  BY SiblingsStep
<1>2. k = 0
  <2>1. PICK n : n = W.sz
    OBVIOUS
  <2>2. n \in Nat /\ n = Len(W.out)
    BY <1>1, <2>1, Zenon DEF Exact
  <2>3. n <= 0
    BY <2>2
  <2>4. n >= k
    BY <1>1, <2>1, Zenon
  <2>5. k \in Nat
    OBVIOUS
  <2> QED
    BY <2>2, <2>3, <2>4, <2>5
<1>3. W.out = <<>>
  BY <1>2, SiblingsStep
<1>4. ParseWalk[0][<<>>] = <<>>
  <2>1. 0 \in 0..MaxArray
    BY RlpAssumption DEF Uint32
  <2>2. ParseWalk[0] = [b \in {<<>>} |-> <<>>]
    BY <2>1, ParseWalkDef
  <2> QED
    BY <2>2
<1>5. SubSeq(c, 1, 0) = <<>>
  OBVIOUS
<1> QED
  BY <1>2, <1>3, <1>4, <1>5

\* One element more
LEMMA SubSeqNext ==
  ASSUME NEW S, NEW c \in Seq(S), NEW k \in 1..Len(c)
  PROVE  SubSeq(c, 1, k - 1) \o <<c[k]>> = SubSeq(c, 1, k)
<1>1. Len(c) \in Nat /\ 1 \in 1..(Len(c) + 1) /\ k \in 1..Len(c)
  OBVIOUS
<1>2. SubSeq(c, 1, k) = IF 1 <= k THEN SubSeq(c, 1, k - 1) \o <<c[k]>> ELSE <<>>
  BY <1>1, SubSeqRecursiveSecond
<1> QED
  BY <1>2

\* A pass of the loop of rlp_parse_walk
LEMMA ParseStep ==
  ASSUME NEW n \in 0..MaxArray, n < MaxArray,
         NEW w \in Seq(Byte), NEW r \in Seq(Byte), NEW x, HeadRead(x, w, r, ParseWalk[n]),
         Len(w \o r) >= 1
  PROVE  ParseWalk[n + 1][w \o r] = ParseWalk[n][r] \o <<x>>
<1> DEFINE b == w \o r
<1>1. /\ b \in Seq(Byte) /\ ReadSize(b) = Len(w) /\ First(b, ParseWalk[n]) = x
  BY DEF HeadRead
<1>2. SubSeq(b, Len(w) + 1, Len(b)) = r
  BY Ends
<1>3. b # <<>>
  <2> HIDE DEF b
  <2>1. Len(b) >= 1
    BY DEF b
  <2> QED
    BY <2>1
<1>4. ParseWalk[n + 1] =
        [v \in Seq(Byte) |->
          IF v = <<>> THEN <<>>
          ELSE ParseWalk[n][SubSeq(v, ReadSize(v) + 1, Len(v))] \o <<First(v, ParseWalk[n])>>]
  <2>1. n + 1 \in 0..MaxArray /\ n + 1 # 0 /\ (n + 1) - 1 = n
    <3>1. MaxArray \in Nat
      BY RlpAssumption DEF Uint32
    <3> QED
      BY <3>1
  <2> QED
    BY <2>1, ParseWalkDef
<1> HIDE DEF b
<1>5. ParseWalk[n + 1][b] =
        ParseWalk[n][SubSeq(b, ReadSize(b) + 1, Len(b))] \o <<First(b, ParseWalk[n])>>
  BY <1>1, <1>3, <1>4, Zenon
<1> QED
  BY <1>1, <1>2, <1>5, Zenon DEF b

\* A longer buffer is read when the shorter ones are.
LEMMA WalkNext ==
  ASSUME NEW n \in 0..MaxArray, n < MaxArray, LevelsRead(n)
  PROVE  LevelsRead(n + 1)
<1> SUFFICES ASSUME NEW d \in 0..MaxDepth, d < MaxDepth, NEW c \in Seq(Trees[d + 1]),
                    NEW k \in 0..Len(c), Len(Siblings(c, PrintWalk[d])[k].out) <= n + 1
             PROVE  ParseWalk[n + 1][Siblings(c, PrintWalk[d])[k].out] = SubSeq(c, 1, k)
  BY DEF LevelsRead, WalkRead
<1> DEFINE o == Siblings(c, PrintWalk[d])[k].out
<1>0. MaxArray \in Nat /\ Uint32(MaxArray) /\ MaxDepth \in Nat
  BY RlpAssumption DEF Uint32
<1>1. o \in Seq(Byte) /\ Len(o) \in Nat /\ Len(o) >= k
  <2>1. PICK W : W = Siblings(c, PrintWalk[d])[k]
    OBVIOUS
  <2>2. Exact(W) /\ W.sz >= k
    BY <2>1, SiblingsStep
  <2>3. W.out \in Seq(Byte) /\ Len(W.out) \in Nat /\ W.sz = Len(W.out)
    BY <2>2, Zenon DEF Exact
  <2>4. Len(W.out) >= k
    BY <2>2, <2>3, Zenon
  <2> QED
    BY <2>1, <2>3, <2>4, Zenon
<1>2. CASE k = 0
  <2>1. o = <<>> /\ SubSeq(c, 1, k) = <<>>
    <3>1. SubSeq(c, 1, 0) = <<>>
      OBVIOUS
    <3>2. Siblings(c, PrintWalk[d])[0].out = <<>>
      BY SiblingsStep
    <3> QED
      BY <1>2, <3>1, <3>2
  <2>2. ParseWalk[n + 1][<<>>] = <<>>
    <3>1. n + 1 \in 0..MaxArray /\ n + 1 # 0
      BY <1>0
    <3>2. <<>> \in Seq(Byte)
      OBVIOUS
    <3>3. ParseWalk[n + 1] =
            [v \in Seq(Byte) |->
              IF v = <<>> THEN <<>>
              ELSE ParseWalk[(n + 1) - 1][SubSeq(v, ReadSize(v) + 1, Len(v))]
                     \o <<First(v, ParseWalk[(n + 1) - 1])>>]
      BY <3>1, ParseWalkDef
    <3> QED
      BY <3>2, <3>3
  <2> QED
    BY <2>1, <2>2
<1>3. CASE k \in 1..Len(c)
  <2> DEFINE x == c[k]
             w == Written(x, PrintWalk[d]).out
             r == Siblings(c, PrintWalk[d])[k - 1].out
  <2>1. /\ x \in Over(Trees[d]) /\ k - 1 \in 0..Len(c) /\ o = w \o r
        /\ w \in Seq(Byte) /\ Len(w) \in Nat /\ Len(w) >= 1
        /\ r \in Seq(Byte) /\ Len(r) \in Nat
    <3>1. /\ x \in Over(Trees[d]) /\ k - 1 \in 0..Len(c) /\ o = w \o r
          /\ Exact(Written(x, PrintWalk[d])) /\ Written(x, PrintWalk[d]).sz >= 1
      BY <1>3, SiblingsStep
    <3>2. Exact(Siblings(c, PrintWalk[d])[k - 1])
      BY <3>1, SiblingsStep
    <3> QED
      BY <3>1, <3>2, Zenon DEF Exact
  <2>2. Len(o) = Len(w) + Len(r) /\ Len(w) <= n + 1 /\ Len(r) <= n
    <3> HIDE DEF o, w, r
    <3>1. Len(o) = Len(w) + Len(r)
      BY <2>1, Concat
    <3>2. Len(o) <= n + 1
      BY DEF o
    <3> QED
      BY <2>1, <3>1, <3>2
  <2>3. HeadRead(x, w, r, ParseWalk[n])
    <3>1. Uint32(Len(w))
      <4>1. Len(w) <= MaxArray
        <5> HIDE DEF w
        <5> QED
          BY <1>0, <2>1, <2>2
      <4> HIDE DEF w
      <4> QED
        BY <1>0, <2>1, <4>1, Uint32Less
    <3>2. ChildrenRead(x, d, w, ParseWalk[n])
      <4> SUFFICES ASSUME x.child # <<>>, d > 0, x.child \in Seq(Trees[d]),
                          Len(Siblings(x.child, PrintWalk[d - 1])[Len(x.child)].out) < Len(w)
                   PROVE  ParseWalk[n][Siblings(x.child, PrintWalk[d - 1])[Len(x.child)].out] = x.child
        BY Zenon DEF ChildrenRead
      <4> DEFINE cc == x.child
                 u == Siblings(cc, PrintWalk[d - 1])[Len(cc)].out
      <4>1. d - 1 \in 0..MaxDepth /\ d - 1 < MaxDepth /\ (d - 1) + 1 = d
        BY <1>0
      <4>2. cc \in Seq(Trees[d]) /\ Len(cc) \in 0..Len(cc)
        OBVIOUS
      <4>3. WalkRead(n, d - 1, cc, Len(cc))
        BY <4>1, <4>2 DEF LevelsRead
      <4>4. Len(u) <= n
        <5>1. Exact(Siblings(cc, PrintWalk[d - 1])[Len(cc)])
          BY <4>1, <4>2, SiblingsStep
        <5>2. Len(u) \in Nat
          BY <5>1, Zenon DEF Exact
        <5>3. Len(u) < Len(w)
          OBVIOUS
        <5> HIDE DEF u, w
        <5> QED
          BY <2>1, <2>2, <5>2, <5>3
      <4>5. ParseWalk[n][u] = SubSeq(cc, 1, Len(cc))
        BY <4>3, <4>4, Zenon DEF WalkRead
      <4>6. SubSeq(cc, 1, Len(cc)) = cc
        BY <4>2, SubSeqFull
      <4> QED
        BY <4>5, <4>6
    <3> HIDE DEF x
    <3>3. x \in Over(Trees[d]) /\ w = Written(x, PrintWalk[d]).out /\ r \in Seq(Byte)
      BY <2>1
    <3> HIDE DEF w, r
    <3> QED
      BY <3>1, <3>2, <3>3, NodeRead
  <2>4. ParseWalk[n + 1][o] = ParseWalk[n][r] \o <<x>>
    <3>1. Len(w \o r) >= 1
      <4> HIDE DEF w, r, o
      <4> QED
        BY <2>1, <2>2
    <3> HIDE DEF w, r, x
    <3>2. ParseWalk[n + 1][w \o r] = ParseWalk[n][r] \o <<x>>
      BY <2>1, <2>3, <3>1, ParseStep
    <3> QED
      BY <2>1, <3>2
  <2>5. ParseWalk[n][r] = SubSeq(c, 1, k - 1)
    <3>1. WalkRead(n, d, c, k - 1)
      BY <2>1 DEF LevelsRead
    <3> QED
      BY <2>2, <3>1, Zenon DEF WalkRead
  <2>6. SubSeq(c, 1, k - 1) \o <<x>> = SubSeq(c, 1, k)
    BY <1>3, SubSeqNext
  <2> QED
    BY <2>4, <2>5, <2>6
<1> QED
  BY <1>2, <1>3

\* Buffers of every length are read.
LEMMA AllRead == \A n \in 0..MaxArray : LevelsRead(n)
<1> DEFINE S == {n \in 0..MaxArray : LevelsRead(n)}
<1>0. MaxArray \in Nat
  BY RlpAssumption DEF Uint32
<1>1. 0 \in S
  BY <1>0, WalkStart
<1>2. ASSUME NEW n \in 0..MaxArray, n \in S, n < MaxArray PROVE n + 1 \in S
  <2>1. LevelsRead(n + 1)
    BY <1>2, WalkNext
  <2>2. n + 1 \in 0..MaxArray
    BY <1>0, <1>2
  <2> QED
    BY <2>1, <2>2
<1>3. 0..MaxArray \subseteq S
  <2> HIDE DEF S
  <2> QED
    BY <1>0, <1>1, <1>2, NumbersUpTo
<1> QED
  BY <1>3

\* What is printed of a tree, when it fits in the array of rlp_copy
LEMMA PrintedRead ==
  ASSUME NEW x \in Over(Trees[MaxDepth]), Printed(x).sz <= MaxArray
  PROVE  LET o == Printed(x).out
         IN  /\ o \in Seq(Byte) /\ Len(o) \in Nat /\ Len(o) >= 1
             /\ Printed(x).sz = Len(o) /\ ReadSize(o) = Len(o)
             /\ Parse(o) = x
             /\ IsList(x) => /\ o[1] \in Byte /\ o[1] >= 192
                             /\ ReadSz(o).size \in Nat /\ ReadSz(o).size >= 1
<1> DEFINE d == MaxDepth
           o == Printed(x).out
           none == <<>>
           walk == ParseWalk[MaxArray]
<1>0. MaxArray \in Nat /\ Uint32(MaxArray) /\ MaxDepth \in Nat /\ d \in 0..MaxDepth
  BY RlpAssumption DEF Uint32
<1>1. Printed(x) = Written(x, PrintWalk[d])
  BY DEF Printed
<1>2. o \in Seq(Byte) /\ Len(o) \in Nat /\ Printed(x).sz = Len(o) /\ Printed(x).sz >= 1
  <2>1. Counted(Over(Trees[d]), PrintWalk[d])
    BY <1>0, PrintExact
  <2>2. Exact(Printed(x)) /\ Printed(x).sz >= 1
    BY <1>1, <2>1 DEF Counted
  <2> QED
    BY <2>2, Zenon DEF Exact
<1>3. Len(o) >= 1 /\ Len(o) <= MaxArray
  BY <1>2, Zenon
<1>4. Uint32(Len(o))
  <2> HIDE DEF o
  <2> QED
    BY <1>0, <1>2, <1>3, Uint32Less
<1>5. ChildrenRead(x, d, o, walk)
  <2> DEFINE cc == x.child
             u == Siblings(cc, PrintWalk[d - 1])[Len(cc)].out
  <2> SUFFICES ASSUME cc \in Seq(Trees[d]), Len(u) < Len(o), d > 0
               PROVE  walk[u] = cc
    BY Zenon DEF ChildrenRead
  <2>1. d - 1 \in 0..MaxDepth /\ d - 1 < MaxDepth /\ (d - 1) + 1 = d
    BY <1>0
  <2>2. Len(cc) \in 0..Len(cc)
    OBVIOUS
  <2>3. WalkRead(MaxArray, d - 1, cc, Len(cc))
    <3>1. LevelsRead(MaxArray)
      BY <1>0, AllRead
    <3> QED
      BY <2>1, <2>2, <3>1 DEF LevelsRead
  <2>4. Len(u) <= MaxArray
    <3>1. Exact(Siblings(cc, PrintWalk[d - 1])[Len(cc)])
      BY <2>1, <2>2, SiblingsStep
    <3>2. Len(u) \in Nat
      BY <3>1, Zenon DEF Exact
    <3> HIDE DEF u, o
    <3> QED
      BY <1>0, <1>2, <1>3, <3>2
  <2>5. walk[u] = SubSeq(cc, 1, Len(cc))
    BY <2>3, <2>4, Zenon DEF WalkRead
  <2>6. SubSeq(cc, 1, Len(cc)) = cc
    BY SubSeqFull
  <2> QED
    BY <2>5, <2>6
<1>6. none \in Seq(Byte) /\ o \o none = o
  <2>1. \A v \in Seq(Byte) : v \o <<>> = v
    OBVIOUS
  <2> QED
    BY <1>2, <2>1
<1>7. HeadRead(x, o, none, walk)
  <2>1. o = Written(x, PrintWalk[d]).out
    BY <1>1
  <2> HIDE DEF o, none, walk
  <2> QED
    BY <1>0, <1>4, <1>5, <1>6, <2>1, NodeRead
<1>8. /\ ReadSize(o) = Len(o) /\ First(o, walk) = x
      /\ IsList(x) => /\ o[1] \in Byte /\ o[1] >= 192
                      /\ ReadSz(o).size \in Nat /\ ReadSz(o).size >= 1
  <2> HIDE DEF o, none, walk
  <2> QED
    BY <1>6, <1>7 DEF HeadRead
<1>9. Parse(o) = x
  BY <1>8, Zenon DEF Parse
<1> QED
  BY <1>2, <1>3, <1>8, <1>9

\* Whatever is built of strings and lists, of any lengths and up to any depth, rlp_parse reads
\* back from what rlp_print wrote of it.
THEOREM RoundTrip ==
  \A x \in Over(Trees[MaxDepth]) : Printed(x).sz <= MaxArray => Parse(Printed(x).out) = x
BY PrintedRead

---------------------------------------------------------------------------
(* The life of a tree *)

\* What the root is after p was pushed: an item alone, or a list with the newest child first
Built(r, p) ==
  \/ Len(p) = 1 /\ p[1].kind # "list" /\ r = Node(p[1])
  \/ r = [b |-> <<>>, child |-> [k \in 1..Len(p) |-> Node(p[Len(p) + 1 - k])]]

\* The inductive invariant: the root is what was pushed, and the buffer and the copy are of
\* the root as it is, for nothing is pushed after it was printed.
IInv ==
  /\ pushed \in Seq(Sources)
  /\ Built(root, pushed)
  /\ bytes # None => bytes = Printed(root).out /\ Printed(root).sz <= MaxArray
  /\ copy # None => bytes # None /\ copy = Parse(bytes)

\* A source is one of the three kinds.
LEMMA SourceCases ==
  ASSUME NEW x \in Sources
  PROVE  \/ x.kind = "string" /\ x.s \in Seq(Byte) /\ Uint32(Len(x.s)) /\ Node(x) = Item(x.s)
         \/ /\ x.kind = "number" /\ x.n \in Nat /\ Uint32(x.n)
            /\ BigEndian(x.n) \in Seq(Byte) /\ Uint32(Len(BigEndian(x.n)))
            /\ Node(x) = Item(BigEndian(x.n))
         \/ /\ x.kind = "list" /\ x.l \in Seq(Seq(Byte))
            /\ \A k \in 1..Len(x.l) : x.l[k] \in Seq(Byte) /\ Uint32(Len(x.l[k]))
            /\ Node(x) = [b |-> <<>>, child |-> [k \in 1..Len(x.l) |-> Item(x.l[Len(x.l) + 1 - k])]]
<1>1. CASE x \in [kind : {"string"}, s : Strings]
  <2>1. x.kind = "string" /\ x.s \in Strings
    BY <1>1
  <2>2. Node(x) = Item(x.s)
    BY <2>1, Zenon DEF Node
  <2> QED
    BY <2>1, <2>2, RlpAssumption
<1>2. CASE x \in [kind : {"number"}, n : Numbers]
  <2>1. x.kind = "number" /\ x.n \in Numbers
    BY <1>2
  <2>2. Node(x) = Item(BigEndian(x.n))
    <3>1. "string" # "number"
      OBVIOUS
    <3> QED
      BY <2>1, <3>1 DEF Node
  <2>3. Uint32(x.n)
    BY <2>1, RlpAssumption
  <2>4. x.n \in Nat
    BY <2>3, Zenon DEF Uint32
  <2>5. BigEndian(x.n) \in Seq(Byte) /\ Len(BigEndian(x.n)) \in 1..4
    BY <2>4, BigEndianBytes
  <2>6. Uint32(Len(BigEndian(x.n)))
    <3>1. PICK m : m = Len(BigEndian(x.n))
      OBVIOUS
    <3>2. m \in Nat /\ m \div Weight[4] \in 0..255
      <4>1. m \in 1..4
        BY <2>5, <3>1
      <4>2. \A w \in Nat : w > 4 => m \div w = 0
        BY <4>1
      <4>3. Weight[4] \in Nat /\ Weight[4] > 4
        BY DEF Weight
      <4> QED
        BY <4>1, <4>2, <4>3
    <3> QED
      BY <3>1, <3>2 DEF Uint32, Byte
  <2> QED
    BY <2>1, <2>2, <2>3, <2>4, <2>5, <2>6
<1>3. CASE x \in [kind : {"list"}, l : Lists]
  <2>1. x.kind = "list" /\ x.l \in Lists
    BY <1>3
  <2>2. x.l \in Seq(Seq(Byte)) /\ \A k \in 1..Len(x.l) : Uint32(Len(x.l[k]))
    BY <2>1, RlpAssumption
  <2>3. \A k \in 1..Len(x.l) : x.l[k] \in Seq(Byte)
    BY <2>2
  <2>4. Node(x) = [List EXCEPT !.child = [k \in 1..Len(x.l) |-> Item(x.l[Len(x.l) + 1 - k])]]
    <3>1. "string" # "list" /\ "number" # "list"
      OBVIOUS
    <3> QED
      BY <2>1, <3>1 DEF Node
  <2>5. ASSUME NEW c PROVE [List EXCEPT !.child = c] = [b |-> <<>>, child |-> c]
    BY DEF List
  <2>6. Node(x) = [b |-> <<>>, child |-> [k \in 1..Len(x.l) |-> Item(x.l[Len(x.l) + 1 - k])]]
    BY <2>4, <2>5, Zenon
  <2> QED
    BY <2>1, <2>2, <2>3, <2>6
<1> QED
  BY <1>1, <1>2, <1>3 DEF Sources

\* What is pushed is a tree one level less deep than a root.
LEMMA NodeTree ==
  ASSUME NEW x \in Sources
  PROVE  /\ Node(x) \in Trees[MaxDepth]
         /\ x.kind # "list" => Node(x) \in Over(Trees[MaxDepth])
<1> DEFINE d == MaxDepth
<1>1. /\ d \in 0..MaxDepth /\ d # 0 /\ d - 1 \in 0..MaxDepth /\ d - 1 # 0
      /\ (d - 1) - 1 \in 0..MaxDepth
  BY RlpAssumption
<1>2. Trees[d] = Over(Trees[d - 1]) /\ Trees[d - 1] = Over(Trees[(d - 1) - 1])
  BY <1>1, TreesDef
<1>3. \A T : \A s \in Seq(Byte) : Item(s) \in Over(T)
  BY DEF Over
<1>4. CASE x.kind = "list"
  <2> DEFINE l == x.l
             c == [k \in 1..Len(l) |-> Item(l[Len(l) + 1 - k])]
  <2>1. /\ \A k \in 1..Len(l) : l[k] \in Seq(Byte)
        /\ l \in Seq(Seq(Byte)) /\ Node(x) = [b |-> <<>>, child |-> c]
    <3>1. x.kind # "string" /\ x.kind # "number"
      BY <1>4
    <3> QED
      BY <3>1, SourceCases
  <2>2. Len(l) \in Nat
    BY <2>1
  <2>3. ASSUME NEW k \in 1..Len(l) PROVE c[k] \in Trees[d - 1]
    <3>1. Len(l) + 1 - k \in 1..Len(l)
      BY <2>2
    <3>2. l[Len(l) + 1 - k] \in Seq(Byte)
      BY <2>1, <3>1
    <3> QED
      BY <1>2, <1>3, <3>2
  <2>4. c \in Seq(Trees[d - 1])
    <3> HIDE DEF l
    <3>1. c = [k \in 1..Len(l) |-> c[k]]
      OBVIOUS
    <3> HIDE DEF c
    <3> QED
      BY <2>2, <2>3, <3>1, IsASeq
  <2>5. [b |-> <<>>, child |-> c] \in Over(Trees[d - 1])
    <3> HIDE DEF c
    <3> QED
      BY <2>4, Zenon DEF Over
  <2> QED
    BY <1>2, <1>4, <2>1, <2>5
<1>5. CASE x.kind # "list"
  <2>1. \E s \in Seq(Byte) : Node(x) = Item(s)
    BY <1>5, SourceCases
  <2> QED
    BY <1>2, <1>3, <2>1
<1> QED
  BY <1>4, <1>5

\* The root is one of the trees that the lemmas above are about.
LEMMA RootTree ==
  ASSUME NEW r, NEW p \in Seq(Sources), Built(r, p)
  PROVE  r \in Over(Trees[MaxDepth])
<1>1. CASE Len(p) = 1 /\ p[1].kind # "list" /\ r = Node(p[1])
  <2>1. p[1] \in Sources
    <3>1. 1 \in 1..Len(p)
      BY <1>1
    <3> QED
      BY <3>1
  <2> QED
    BY <1>1, <2>1, NodeTree
<1>2. CASE r = [b |-> <<>>, child |-> [k \in 1..Len(p) |-> Node(p[Len(p) + 1 - k])]]
  <2> DEFINE c == [k \in 1..Len(p) |-> Node(p[Len(p) + 1 - k])]
  <2>1. Len(p) \in Nat
    OBVIOUS
  <2>2. ASSUME NEW k \in 1..Len(p) PROVE c[k] \in Trees[MaxDepth]
    <3>1. Len(p) + 1 - k \in 1..Len(p)
      BY <2>1
    <3>2. p[Len(p) + 1 - k] \in Sources
      BY <3>1
    <3> QED
      BY <3>2, NodeTree
  <2>3. c = [k \in 1..Len(p) |-> c[k]]
    OBVIOUS
  <2>4. r = [b |-> <<>>, child |-> c]
    BY <1>2
  <2> HIDE DEF c
  <2>5. c \in Seq(Trees[MaxDepth])
    BY <2>1, <2>2, <2>3, IsASeq
  <2> QED
    BY <2>4, <2>5, Zenon DEF Over
<1> QED
  BY <1>1, <1>2 DEF Built

\* A node holds what it was made of.
LEMMA SameNode ==
  ASSUME NEW x \in Sources
  PROVE  /\ Same(Node(x), x)
         /\ x.kind = "number" => Mem(Node(x)) = BigEndian(x.n)
         /\ x.kind # "list" <=> ~IsList(Node(x))
<1>1. CASE /\ x.kind = "string" /\ x.s \in Seq(Byte) /\ Uint32(Len(x.s)) /\ Node(x) = Item(x.s)
  <2>1. Mem(Node(x)) = x.s /\ ~IsList(Node(x))
    BY <1>1, ItemMem, ItemBytes
  <2> QED
    BY <1>1, <2>1 DEF Same
<1>2. CASE /\ x.kind = "number" /\ BigEndian(x.n) \in Seq(Byte) /\ Uint32(Len(BigEndian(x.n)))
           /\ Node(x) = Item(BigEndian(x.n))
  <2>1. Mem(Node(x)) = BigEndian(x.n) /\ ~IsList(Node(x))
    BY <1>2, ItemMem, ItemBytes
  <2> QED
    BY <1>2, <2>1 DEF Same
<1>3. CASE /\ x.kind = "list" /\ x.l \in Seq(Seq(Byte))
           /\ \A k \in 1..Len(x.l) : x.l[k] \in Seq(Byte) /\ Uint32(Len(x.l[k]))
           /\ Node(x) = [b |-> <<>>, child |-> [k \in 1..Len(x.l) |-> Item(x.l[Len(x.l) + 1 - k])]]
  <2> DEFINE l == x.l
             c == [k \in 1..Len(l) |-> Item(l[Len(l) + 1 - k])]
             r == Node(x)
  <2>1. Len(l) \in Nat
    BY <1>3
  <2>2. r.b = <<>> /\ r.child = c
    BY <1>3
  <2>3. Len(c) = Len(l) /\ DOMAIN c = 1..Len(l)
    <3> HIDE DEF l
    <3> QED
      BY <2>1
  <2>4. ASSUME NEW k \in 1..Len(l) PROVE Mem(At(r, k - 1)) = l[k]
    <3>1. Len(c) - (k - 1) \in 1..Len(l) /\ Len(l) + 1 - (Len(c) - (k - 1)) = k
      <4> HIDE DEF c, l
      <4> QED
        BY <2>1, <2>3
    <3>2. At(r, k - 1) = c[Len(c) - (k - 1)]
      BY <2>2, Zenon DEF At
    <3>3. c[Len(c) - (k - 1)] = Item(l[k])
      BY <3>1
    <3>4. Mem(Item(l[k])) = l[k]
      BY <1>3, ItemMem
    <3> QED
      BY <3>2, <3>3, <3>4, Zenon
  <2> HIDE DEF c, r
  <2>5. IsList(r) /\ Len(r.child) = Len(x.l)
    BY <2>2, <2>3 DEF IsList
  <2>6. Same(r, x)
    <3>1. x.kind # "string" /\ x.kind # "number"
      BY <1>3
    <3> QED
      BY <1>3, <2>4, <2>5, <3>1 DEF Same
  <2> QED
    BY <1>3, <2>5, <2>6 DEF r
<1> QED
  BY <1>1, <1>2, <1>3, SourceCases

\* rlp_push keeps the order of what was pushed, also when it makes a list of an item.
LEMMA PushBuilt ==
  ASSUME NEW r, NEW p \in Seq(Sources), Built(r, p), NEW x \in Sources
  PROVE  Append(p, x) \in Seq(Sources) /\ Built(Push(r, Node(x)), Append(p, x))
<1> DEFINE q == Append(p, x)
           Made == {Node(y) : y \in Sources}
           older == IF IsList(r) THEN r.child ELSE <<r>>
           new == [k \in 1..Len(q) |-> Node(q[Len(q) + 1 - k])]
<1>1. /\ Len(p) \in Nat /\ q \in Seq(Sources) /\ Len(q) = Len(p) + 1
      /\ \A k \in 1..Len(p) : q[k] = p[k] /\ p[k] \in Sources
      /\ q[Len(q)] = x
  OBVIOUS
<1> HIDE DEF q
<1>2. older \in Seq(Made) /\ Len(older) = Len(p) /\ \A k \in 1..Len(p) : older[k] = Node(p[Len(p) + 1 - k])
  <2>1. CASE Len(p) = 1 /\ p[1].kind # "list" /\ r = Node(p[1])
    <3>1. p[1] \in Sources
      <4>1. 1 \in 1..Len(p)
        BY <2>1
      <4> QED
        BY <1>1, <4>1
    <3>2. ~IsList(r)
      BY <2>1, <3>1, SameNode
    <3>3. older = <<r>> /\ r \in Made
      BY <2>1, <3>1, <3>2
    <3> HIDE DEF older, Made
    <3>4. older \in Seq(Made) /\ Len(older) = 1 /\ older[1] = r
      BY <3>3
    <3>5. \A k \in 1..Len(p) : k = 1 /\ Len(p) + 1 - k = 1
      BY <2>1
    <3> QED
      BY <2>1, <3>4, <3>5
  <2>2. CASE r = [b |-> <<>>, child |-> [k \in 1..Len(p) |-> Node(p[Len(p) + 1 - k])]]
    <3> DEFINE c == [k \in 1..Len(p) |-> Node(p[Len(p) + 1 - k])]
    <3>1. r.b = <<>> /\ r.child = c
      BY <2>2
    <3>2. older = c
      BY <3>1 DEF IsList
    <3>3. ASSUME NEW k \in 1..Len(p) PROVE c[k] \in Made
      <4>1. Len(p) + 1 - k \in 1..Len(p)
        BY <1>1
      <4>2. p[Len(p) + 1 - k] \in Sources
        BY <1>1, <4>1
      <4> QED
        BY <4>2
    <3>4. c = [k \in 1..Len(p) |-> c[k]] /\ \A k \in 1..Len(p) : c[k] = Node(p[Len(p) + 1 - k])
      OBVIOUS
    <3> HIDE DEF c, Made, older
    <3>5. c \in Seq(Made)
      BY <1>1, <3>3, <3>4, IsASeq
    <3>6. Len(c) = Len(p)
      <4>1. DOMAIN c = 1..Len(p)
        BY <3>4
      <4> QED
        BY <1>1, <3>5, <4>1, LenProperties
    <3> QED
      BY <3>2, <3>4, <3>5, <3>6
  <2> QED
    BY <2>1, <2>2 DEF Built
<1>3. Node(x) \in Made
  OBVIOUS
<1>4. \A k \in 1..Len(q) : q[Len(q) + 1 - k] \in Sources
  BY <1>1
<1> HIDE DEF older
<1>5. <<Node(x)>> \o older = new
  <2> DEFINE z == <<Node(x)>>
  <2>1. z \in Seq(Made) /\ Len(z) = 1 /\ z[1] = Node(x)
    <3> HIDE DEF Made
    <3> QED
      BY <1>3
  <2>2. new = [k \in 1..Len(q) |-> new[k]] /\ \A k \in 1..Len(q) : new[k] = Node(q[Len(q) + 1 - k])
    OBVIOUS
  <2>3. \A k \in 1..Len(q) : new[k] \in Made
    BY <1>4, <2>2
  <2> HIDE DEF z, new, Made
  <2>4. new \in Seq(Made) /\ Len(new) = Len(q)
    <3>1. new \in Seq(Made)
      BY <1>1, <2>2, <2>3, IsASeq
    <3>2. DOMAIN new = 1..Len(q)
      BY <2>2
    <3> QED
      BY <1>1, <3>1, <3>2, LenProperties
  <2>5. /\ z \o older \in Seq(Made) /\ Len(z \o older) = 1 + Len(p)
        /\ \A k \in 1..Len(z) : (z \o older)[k] = z[k]
        /\ \A k \in 1..Len(older) : (z \o older)[Len(z) + k] = older[k]
    <3>1. z \in Seq(Made) /\ older \in Seq(Made)
      BY <1>2, <2>1
    <3>2. /\ z \o older \in Seq(Made) /\ Len(z \o older) = Len(z) + Len(older)
          /\ \A k \in 1..Len(z) : (z \o older)[k] = z[k]
          /\ \A k \in 1..Len(older) : (z \o older)[Len(z) + k] = older[k]
      BY <3>1, Concat
    <3> QED
      BY <1>2, <2>1, <3>2
  <2>6. ASSUME NEW k \in 1..Len(new) PROVE (z \o older)[k] = new[k]
    <3>0. k \in 1..Len(q) /\ new[k] = Node(q[Len(q) + 1 - k])
      BY <2>2, <2>4
    <3>1. CASE k = 1
      <4>1. Len(q) + 1 - k = Len(q) /\ k \in 1..Len(z)
        BY <1>1, <2>1, <3>1
      <4> QED
        BY <1>1, <2>1, <2>5, <3>0, <3>1, <4>1
    <3>2. CASE k # 1
      <4> DEFINE j == k - 1
      <4>1. j \in 1..Len(p) /\ k = Len(z) + j /\ Len(q) + 1 - k = Len(p) + 1 - j /\ Len(p) + 1 - j \in 1..Len(p)
        BY <1>1, <2>1, <3>0, <3>2
      <4> HIDE DEF j
      <4>2. (z \o older)[k] = older[j]
        BY <1>2, <2>5, <4>1
      <4>3. q[Len(p) + 1 - j] = p[Len(p) + 1 - j]
        BY <1>1, <4>1
      <4> QED
        BY <1>2, <3>0, <4>1, <4>2, <4>3
    <3> QED
      BY <3>1, <3>2
  <2>7. Len(z \o older) = Len(new)
    BY <1>1, <2>4, <2>5
  <2> QED
    BY <2>4, <2>5, <2>6, <2>7, SeqEqual DEF z
<1>6. Push(r, Node(x)) = [b |-> <<>>, child |-> new]
  <2>1. Push(r, Node(x)) = [List EXCEPT !.child = <<Node(x)>> \o older]
    BY DEF Push, older
  <2>2. ASSUME NEW c PROVE [List EXCEPT !.child = c] = [b |-> <<>>, child |-> c]
    BY DEF List
  <2> QED
    BY <1>5, <2>1, <2>2, Zenon
<1> QED
  BY <1>1, <1>6, Zenon DEF Built, q

\* It holds at first ...
LEMMA InitInv == Init => IInv
<1> SUFFICES ASSUME Init PROVE IInv
  OBVIOUS
<1>1. bytes = None /\ copy = None
  BY DEF Init
<1>2. CASE pushed = <<>> /\ root = List
  <2> DEFINE c == [k \in 1..Len(pushed) |-> Node(pushed[Len(pushed) + 1 - k])]
  <2>1. pushed \in Seq(Sources) /\ Len(pushed) = 0
    BY <1>2
  <2>2. c = <<>>
    BY <2>1
  <2>3. root = [b |-> <<>>, child |-> c]
    BY <1>2, <2>2 DEF List
  <2> QED
    BY <1>1, <2>1, <2>3, Zenon DEF IInv, Built
<1>3. CASE \E x \in Sources : x.kind # "list" /\ pushed = <<x>> /\ root = Node(x)
  <2>1. PICK x \in Sources : x.kind # "list" /\ pushed = <<x>> /\ root = Node(x)
    BY <1>3
  <2>2. pushed \in Seq(Sources) /\ Len(pushed) = 1 /\ pushed[1] = x
    BY <2>1
  <2> QED
    BY <1>1, <2>1, <2>2 DEF IInv, Built
<1> QED
  BY <1>2, <1>3 DEF Init

\* ... and every step keeps it.
LEMMA StepInv == IInv /\ [Next]_vars => IInv'
<1> SUFFICES ASSUME IInv, [Next]_vars PROVE IInv'
  OBVIOUS
<1> USE DEF IInv
<1>1. CASE PushSource
  <2>1. PICK x \in Sources : pushed' = Append(pushed, x) /\ root' = Push(root, Node(x))
    BY <1>1 DEF PushSource
  <2>2. bytes' = None /\ bytes = None /\ copy' = copy /\ copy = None
    BY <1>1 DEF PushSource
  <2>3. pushed' \in Seq(Sources) /\ Built(root', pushed')
    BY <2>1, PushBuilt
  <2> QED
    BY <2>2, <2>3
<1>2. CASE CopyPrints
  BY <1>2 DEF CopyPrints
<1>3. CASE CopyParses
  BY <1>3 DEF CopyParses
<1>4. CASE UNCHANGED vars
  BY <1>4 DEF vars
<1> QED
  BY <1>1, <1>2, <1>3, <1>4 DEF Next

\* The root is what was pushed, and what is printed and parsed is the root.
THEOREM TreeInvariant == Spec => []IInv
<1>1. Init => IInv
  BY InitInv
<1>2. IInv /\ [Next]_vars => IInv'
  BY StepInv
<1> QED
  BY <1>1, <1>2, PTL DEF Spec

\* What the copy is
LEMMA CopyIsRoot ==
  ASSUME IInv
  PROVE  /\ root \in Over(Trees[MaxDepth])
         /\ copy # None => copy = root
         /\ bytes # None => Printed(root).sz <= MaxArray /\ bytes = Printed(root).out
<1>1. root \in Over(Trees[MaxDepth])
  BY RootTree DEF IInv
<1>2. ASSUME copy # None PROVE copy = root
  <2>1. bytes = Printed(root).out /\ Printed(root).sz <= MaxArray /\ copy = Parse(bytes)
    BY <1>2 DEF IInv
  <2> QED
    BY <1>1, <2>1, RoundTrip
<1> QED
  BY <1>1, <1>2 DEF IInv

\* The children of a list that was built by pushing
LEMMA ListBuilt ==
  ASSUME NEW r, NEW p \in Seq(Sources), Built(r, p), ~(Len(p) = 1 /\ ~IsList(r))
  PROVE  /\ IsList(r) /\ Len(r.child) = Len(p)
         /\ \A k \in 1..Len(p) : At(r, k - 1) = Node(p[k]) /\ p[k] \in Sources
<1> DEFINE c == [j \in 1..Len(p) |-> Node(p[Len(p) + 1 - j])]
<1>1. Len(p) \in Nat
  OBVIOUS
<1>2. r.b = <<>> /\ r.child = c
  <2>1. ~(Len(p) = 1 /\ p[1].kind # "list" /\ r = Node(p[1]))
    <3> SUFFICES ASSUME Len(p) = 1, p[1].kind # "list", r = Node(p[1]) PROVE FALSE
      OBVIOUS
    <3>1. 1 \in 1..Len(p)
      OBVIOUS
    <3>2. p[1] \in Sources
      BY <3>1
    <3> QED
      BY <3>2, SameNode
  <2>2. r = [b |-> <<>>, child |-> c]
    BY <2>1, Zenon DEF Built
  <2> HIDE DEF c
  <2> QED
    BY <2>2
<1>3. \A j \in 1..Len(p) : c[j] = Node(p[Len(p) + 1 - j])
  OBVIOUS
<1>4. DOMAIN c = 1..Len(p)
  OBVIOUS
<1>5. Len(c) = Len(p)
  BY <1>1
<1> HIDE DEF c
<1>6. ASSUME NEW k \in 1..Len(p) PROVE At(r, k - 1) = Node(p[k]) /\ p[k] \in Sources
  <2>1. Len(c) - (k - 1) \in 1..Len(p) /\ Len(p) + 1 - (Len(c) - (k - 1)) = k
    BY <1>1, <1>5
  <2>2. At(r, k - 1) = c[Len(c) - (k - 1)]
    BY <1>2, Zenon DEF At
  <2>3. c[Len(c) - (k - 1)] = Node(p[k])
    BY <1>3, <2>1
  <2>4. p[k] \in Sources
    OBVIOUS
  <2> QED
    BY <2>2, <2>3, <2>4, Zenon
<1> QED
  BY <1>2, <1>5, <1>6, Zenon DEF IsList

---------------------------------------------------------------------------
(* The invariants *)

\* What was pushed is read back from a root ...
LEMMA ReadsBackHolds == IInv => ReadsBack
<1> SUFFICES ASSUME IInv, copy # None
             PROVE  IF Len(pushed) = 1 /\ ~IsList(root) THEN Same(copy, pushed[1])
                    ELSE /\ IsList(copy) /\ Len(copy.child) = Len(pushed)
                         /\ \A k \in 1..Len(pushed) : Same(At(copy, k - 1), pushed[k])
  BY DEF ReadsBack
<1>1. copy = root /\ pushed \in Seq(Sources) /\ Built(root, pushed)
  BY CopyIsRoot DEF IInv
<1>2. CASE Len(pushed) = 1 /\ ~IsList(root)
  <2>1. root = Node(pushed[1])
    BY <1>1, <1>2 DEF Built, IsList
  <2>2. pushed[1] \in Sources
    <3>1. 1 \in 1..Len(pushed)
      BY <1>2
    <3> QED
      BY <1>1, <3>1
  <2> QED
    BY <1>1, <1>2, <2>1, <2>2, SameNode
<1>3. CASE ~(Len(pushed) = 1 /\ ~IsList(root))
  <2>1. /\ IsList(root) /\ Len(root.child) = Len(pushed)
        /\ \A k \in 1..Len(pushed) : At(root, k - 1) = Node(pushed[k]) /\ pushed[k] \in Sources
    BY <1>1, <1>3, ListBuilt
  <2>2. \A k \in 1..Len(pushed) : Same(At(root, k - 1), pushed[k])
    BY <2>1, SameNode
  <2> QED
    BY <1>1, <1>3, <2>1, <2>2, Zenon
<1> QED
  BY <1>2, <1>3

\* Of a list that has arrived the length is found, and of a part of it none that is too short.
LEMMA LengthFound ==
  ASSUME NEW b, b[1] \in Byte, b[1] >= 192, ReadSz(b).size \in Nat, ReadSz(b).size >= 1
  PROVE  /\ WireReadSz(b, ReadSize(b)) = ReadSize(b)
         /\ \A l : WireReadSz(b, l) \in {None, ReadSize(b)}
<1>1. b[1] \in Nat
  BY ByteNat
<1>2. \A l : WireReadSz(b, l) \in {None, ReadSize(b)}
  BY DEF WireReadSz
<1>3. CASE b[1] <= 247
  <2>1. ~(b[1] \in 184..191 \/ b[1] > 247)
    BY <1>1, <1>3
  <2> QED
    BY <1>2, <2>1, Zenon DEF WireReadSz
<1>4. CASE b[1] > 247
  <2>1. b[1] >= 248
    BY <1>1, <1>4
  <2>2. ReadSz(b) = [header |-> 1 + b[1] - 247, size |-> Value(SubSeq(b, 2, 1 + b[1] - 247))]
    BY <2>1, ReadSzCases
  <2>3. ReadSz(b).header = 1 + b[1] - 247
    BY <2>2
  <2>4. ReadSize(b) = 1 + b[1] - 247 + ReadSz(b).size
    BY <2>3, Zenon DEF ReadSize
  <2>5. ~(ReadSize(b) <= b[1] - 247 + 1)
    <3>1. PICK n : n = ReadSz(b).size
      OBVIOUS
    <3>2. n \in Nat /\ n >= 1 /\ ReadSize(b) = 1 + b[1] - 247 + n
      BY <2>4, <3>1
    <3> QED
      BY <1>1, <3>2
  <2> QED
    BY <1>2, <1>4, <2>5, Zenon DEF WireReadSz
<1> QED
  BY <1>1, <1>3, <1>4

\* ... its end is found in the bytes ...
LEMMA EndFoundHolds == IInv => EndFound
<1> SUFFICES ASSUME IInv, bytes # None, IsList(root)
             PROVE  /\ Printed(root).sz = Len(bytes)
                    /\ ReadSize(bytes) = Len(bytes)
                    /\ WireReadSz(bytes, Len(bytes)) = Len(bytes)
                    /\ \A l \in (1..5 \cup {Len(bytes) - 1}) \cap 1..(Len(bytes) - 1) :
                         WireReadSz(bytes, l) = None \/ WireReadSz(bytes, l) > l
  BY DEF EndFound
<1>1. root \in Over(Trees[MaxDepth]) /\ Printed(root).sz <= MaxArray /\ bytes = Printed(root).out
  BY CopyIsRoot
<1>2. /\ Len(bytes) \in Nat /\ Printed(root).sz = Len(bytes) /\ ReadSize(bytes) = Len(bytes)
      /\ bytes[1] \in Byte /\ bytes[1] >= 192
      /\ ReadSz(bytes).size \in Nat /\ ReadSz(bytes).size >= 1
  BY <1>1, PrintedRead
<1>3. /\ WireReadSz(bytes, Len(bytes)) = Len(bytes)
      /\ \A l : WireReadSz(bytes, l) \in {None, Len(bytes)}
  BY <1>2, LengthFound
<1>4. ASSUME NEW l \in 1..(Len(bytes) - 1)
      PROVE  WireReadSz(bytes, l) = None \/ WireReadSz(bytes, l) > l
  <2>1. Len(bytes) > l
    BY <1>2
  <2> QED
    BY <1>3, <2>1
<1> QED
  BY <1>2, <1>3, <1>4

\* ... and its numbers are read back.
LEMMA NumbersReadBackHolds == IInv => NumbersReadBack
<1> SUFFICES ASSUME IInv, copy # None, IsList(copy),
                    NEW k \in 1..Len(pushed), NEW szof \in {1, 2, 4}, pushed[k].kind = "number"
             PROVE  ReadInt(At(copy, k - 1), szof) =
                      IF SzSz(pushed[k].n) <= szof THEN pushed[k].n ELSE 0
  BY DEF NumbersReadBack
<1>1. copy = root /\ pushed \in Seq(Sources) /\ Built(root, pushed)
  BY CopyIsRoot DEF IInv
<1> DEFINE x == pushed[k]
<1>2. At(copy, k - 1) = Node(x) /\ x \in Sources
  BY <1>1, ListBuilt
<1>3. x.n \in Nat /\ Uint32(x.n)
  <2>1. x.kind # "string" /\ x.kind # "list"
    OBVIOUS
  <2> QED
    BY <1>2, <2>1, SourceCases
<1>4. Mem(Node(x)) = BigEndian(x.n)
  BY <1>2, SameNode
<1>5. Len(BigEndian(x.n)) = SzSz(x.n) /\ Value(BigEndian(x.n)) = x.n
  BY <1>3, BigEndianBytes, NumberReadBack
<1> HIDE DEF x
<1>6. ReadInt(Node(x), szof) = IF SzSz(x.n) <= szof THEN x.n ELSE 0
  BY <1>4, <1>5, Zenon DEF ReadInt
<1> QED
  BY <1>2, <1>6, Zenon DEF x

\* A copy holds what was pushed to the original: every string byte for byte, every number and
\* every list of strings, at its place, whatever their lengths.
THEOREM CopyReadsBack == Spec => []ReadsBack
BY TreeInvariant, ReadsBackHolds, PTL

\* The count of rlp_print, the length at the head of the bytes, and the length that the USB wire
\* takes from the first of them are all the number of bytes, and no part is taken for the whole.
THEOREM CopyEndFound == Spec => []EndFound
BY TreeInvariant, EndFoundHolds, PTL

\* Each number, of any width, is read back by the readers that are wide enough.
THEOREM CopyNumbersReadBack == Spec => []NumbersReadBack
BY TreeInvariant, NumbersReadBackHolds, PTL
===========================================================================
