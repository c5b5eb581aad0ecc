------------------------------- MODULE Rlp -------------------------------
(***************************************************************************)
(* The encoding of what goes over USB (src/common/rlp.c), and the length   *)
(* that the USB wire reads from it (src/usb/common/wire.c): a tree of byte *)
(* strings is built by pushing, printed, and parsed again.                 *)
(*                                                                         *)
(* A node is the C struct: b holds the encoded item, nothing for a list;   *)
(* child has the newest child first.  Positions in a buffer start at 0.    *)
(***************************************************************************)
EXTENDS Integers, Sequences

CONSTANTS
  Strings,    \* byte strings an application pushes
  Numbers,    \* numbers it pushes
  Lists,      \* sequences of strings that it pushes as a list
  MaxPush,    \* bound on the children of the root
  MaxDepth,   \* bound on the lists within each other, the root not counted
  MaxArray,   \* RLP_CONFIG_MAX_ARRAY: what rlp_copy has room for
  None

Byte == 0..255

\* What the bytes of a number count, from the last
Weight == <<1, 256, 256 * 256, 256 * 256 * 256>>

\* Lengths (rlp_item_u8_arr takes a uint32_t), and the numbers of rlp_push_u8, u16 and u32
Uint32(n) == n \in Nat /\ n \div Weight[4] \in Byte

ASSUME RlpAssumption ==
  /\ Strings \subseteq Seq(Byte) /\ Lists \subseteq Seq(Seq(Byte))
  /\ \A s \in Strings : Uint32(Len(s))
  /\ \A l \in Lists : \A k \in 1..Len(l) : Uint32(Len(l[k]))
  /\ \A n \in Numbers : Uint32(n)
  /\ MaxPush \in Nat
  /\ MaxDepth \in Nat /\ MaxDepth >= 2
  /\ Uint32(MaxArray)

VARIABLES
  pushed,     \* history: what was pushed to the root, oldest first
  root,       \* the tree
  bytes,      \* what rlp_print wrote, or None
  copy        \* what rlp_parse made of it, or None

vars == <<pushed, root, bytes, copy>>

---------------------------------------------------------------------------
(* Numbers *)

\* rlp_szsz: how many bytes a number has without its leading zeros
SzSz(n) ==
  IF n < Weight[2] THEN 1 ELSE IF n < Weight[3] THEN 2 ELSE IF n < Weight[4] THEN 3 ELSE 4

\* rlp_write_big_endian: no leading zeros, at least one byte
BigEndian(n) == [k \in 1..SzSz(n) |-> (n \div Weight[SzSz(n) + 1 - k]) % 256]

\* rlp_read_big_endian
Value(b) ==
  LET v[k \in 0..Len(b)] == IF k = 0 THEN 0 ELSE 256 * v[k - 1] + b[k]
  IN  v[Len(b)]

---------------------------------------------------------------------------
(* Sizes *)

\* Wrong: 56 bytes still have a prefix of one byte.
PrefixLonger(size, short, long) ==
  IF size <= 56 THEN <<short + size>>
  ELSE <<long + Len(BigEndian(size))>> \o BigEndian(size)

\* rlp_write_sz, and the same choice in rlp_item_u8_arr
Prefix(size, short, long) ==
  IF size <= 55 THEN <<short + size>>
  ELSE <<long + Len(BigEndian(size))>> \o BigEndian(size)

\* rlp_read_sz: the size of the string or list at the head of b, and how many bytes tell it
ReadSz(b) ==
  LET first == b[1]
      Long(base) == [header |-> 1 + first - base,
                     size |-> Value(SubSeq(b, 2, 1 + first - base))]
  IN  IF first < 128 \/ first = 192 THEN [header |-> 0, size |-> 1]
      ELSE IF first <= 183 THEN [header |-> 1, size |-> first - 128]
      ELSE IF first <= 191 THEN Long(183)
      ELSE IF first <= 247 THEN [header |-> 1, size |-> first - 192]
      ELSE Long(247)

\* rlp_read_size
ReadSize(b) == ReadSz(b).header + ReadSz(b).size

\* Wrong: the bytes that tell a long size are not counted.
WireReadSzHeaderless(b, l) ==
  LET szofsz == IF b[1] > 247 THEN b[1] - 247 ELSE b[1] - 183
      long == b[1] \in 184..191 \/ b[1] > 247
  IN  IF long /\ l <= szofsz + 1 THEN None ELSE IF long THEN ReadSz(b).size ELSE ReadSize(b)

\* wire_read_sz of the l bytes received: None while the size is not there.
WireReadSz(b, l) ==
  LET szofsz == IF b[1] > 247 THEN b[1] - 247 ELSE b[1] - 183
      long == b[1] \in 184..191 \/ b[1] > 247
  IN  IF long /\ l <= szofsz + 1 THEN None ELSE ReadSize(b)

---------------------------------------------------------------------------
(* Trees *)

IsList(r) == r.b = <<>>

List == [b |-> <<>>, child |-> <<>>]

\* struct rlp, with up to d lists within each other
Nodes[d \in 0..MaxDepth] ==
  IF d = 0 THEN {} ELSE [b : Seq(Byte), child : Seq(Nodes[d - 1])]

\* rlp_item_u8_arr
Item(s) ==
  [b |-> IF Len(s) = 1 /\ s[1] < 128 THEN s ELSE Prefix(Len(s), 128, 183) \o s,
   child |-> <<>>]

\* rlp_push makes a list of a parent that is none.
Push(parent, node) ==
  [List EXCEPT !.child = <<node>> \o (IF IsList(parent) THEN parent.child ELSE <<parent>>)]

\* rlp_at counts from the oldest child.
At(r, where) == r.child[Len(r.child) - where]

\* The string that is at the head of b
Inside(b) == SubSeq(b, ReadSz(b).header + 1, ReadSize(b))

\* rlp_as_mem
Mem(r) == Inside(r.b)

\* Wrong: a string of as many bytes as the number has is too long.
ReadIntStrict(r, szof) == IF Len(Mem(r)) < szof THEN Value(Mem(r)) ELSE 0

\* rlp_as_u8, rlp_as_u16, rlp_as_u32: 0 when the string is longer
ReadInt(r, szof) == IF Len(Mem(r)) <= szof THEN Value(Mem(r)) ELSE 0

---------------------------------------------------------------------------
(* Printing and parsing *)

\* What is written for a node: the size that is counted, and the bytes.  inner is
\* rlp_print_walk for the nodes one level down.
Written(node, inner) ==
  IF ~IsList(node) THEN [sz |-> Len(node.b), out |-> node.b]
  ELSE IF node.child = <<>> THEN [sz |-> 1, out |-> <<192>>]
  ELSE inner[node.child]

\* The loop of rlp_print_walk, after its first k nodes.  The buffer is filled from its end.
Siblings(nodes, inner) ==
  LET w[k \in 0..Len(nodes)] ==
        IF k = 0 THEN [sz |-> 0, out |-> <<>>]
        ELSE LET before == w[k - 1]
                 node == Written(nodes[k], inner)
             IN  [sz |-> before.sz + node.sz, out |-> node.out \o before.out]
  IN  w

WithPrefix(body) ==
  LET prefix == Prefix(body.sz, 192, 247)
  IN  [sz |-> body.sz + Len(prefix), out |-> prefix \o body.out]

\* rlp_print_walk
PrintWalk[d \in 0..MaxDepth] ==
  IF d = 0 THEN <<>>
  ELSE [nodes \in Seq(Nodes[d]) |-> WithPrefix(Siblings(nodes, PrintWalk[d - 1])[Len(nodes)])]

\* rlp_print
Printed(r) == Written(r, PrintWalk[MaxDepth])

\* The node at the head of b, for rlp_parse and in the loop of rlp_parse_walk.  walk is
\* rlp_parse_walk for fewer bytes.
First(b, walk) ==
  IF b[1] < 192 THEN Item(Inside(b))
  ELSE IF b[1] = 192 THEN List
  ELSE [List EXCEPT !.child = walk[Inside(b)]]

\* rlp_parse_walk of up to n bytes: the children, where each is pushed before the older ones.
ParseWalk[n \in 0..MaxArray] ==
  IF n = 0 THEN [b \in {<<>>} |-> <<>>]
  ELSE [b \in Seq(Byte) |->
          IF b = <<>> THEN <<>>
          ELSE LET rest == SubSeq(b, ReadSize(b) + 1, Len(b))
               IN  ParseWalk[n - 1][rest] \o <<First(b, ParseWalk[n - 1])>>]

\* rlp_parse
Parse(b) == First(b, ParseWalk[MaxArray])

---------------------------------------------------------------------------
(* The life of a tree *)

\* What is pushed: a string, a number, or a list of strings.
Sources ==
  [kind : {"string"}, s : Strings] \cup [kind : {"number"}, n : Numbers] \cup [kind : {"list"}, l : Lists]

Node(x) ==
  CASE x.kind = "string" -> Item(x.s)
    [] x.kind = "number" -> Item(BigEndian(x.n))
    [] x.kind = "list" -> [List EXCEPT !.child = [k \in 1..Len(x.l) |-> Item(x.l[Len(x.l) + 1 - k])]]

\* A root is rlp_list() or an item.
Init ==
  /\ \/ pushed = <<>> /\ root = List
     \/ \E x \in Sources : x.kind # "list" /\ pushed = <<x>> /\ root = Node(x)
  /\ bytes = None /\ copy = None

\* The caller keeps what rlp_push returns, as test/rlp/main.c does: the root, or, when the
\* root was an item, the list that the item was put into.
PushSource ==
  /\ bytes = None /\ Len(pushed) < MaxPush
  /\ \E x \in Sources : pushed' = Append(pushed, x) /\ root' = Push(root, Node(x))
  /\ UNCHANGED <<bytes, copy>>

\* rlp_copy prints, if there is room for it ...
CopyPrints ==
  /\ bytes = None /\ Printed(root).sz <= MaxArray
  /\ bytes' = Printed(root).out
  /\ UNCHANGED <<pushed, root, copy>>

\* ... and parses.
CopyParses ==
  /\ bytes # None /\ copy = None
  /\ copy' = Parse(bytes)
  /\ UNCHANGED <<pushed, root, bytes>>

Next == PushSource \/ CopyPrints \/ CopyParses

Spec == Init /\ [][Next]_vars

---------------------------------------------------------------------------
(* Properties *)

\* What was pushed is read back from the copy, at its place and byte for byte, whatever
\* lengths its strings and lists have (rlp.c, the boundaries at 55 and 255 bytes).
Same(r, x) ==
  CASE x.kind = "string" -> ~IsList(r) /\ Mem(r) = x.s
    [] x.kind = "number" -> ~IsList(r)
    [] x.kind = "list" ->
         IsList(r) /\ Len(r.child) = Len(x.l) /\ \A k \in 1..Len(x.l) : Mem(At(r, k - 1)) = x.l[k]

ReadsBack ==
  copy # None =>
    IF Len(pushed) = 1 /\ ~IsList(root) THEN Same(copy, pushed[1])
    ELSE /\ IsList(copy) /\ Len(copy.child) = Len(pushed)
         /\ \A k \in 1..Len(pushed) : Same(At(copy, k - 1), pushed[k])

\* Three counts of the bytes agree: what rlp_print announces it fills, neither more nor less
\* (rlp.c:623-626); the length at the head of a list finds its end; and no list of which only
\* a few bytes have arrived, or all but one, is taken for complete (wire.c:333, rlp.c:94).
EndFound ==
  bytes # None /\ IsList(root) =>
    /\ Printed(root).sz = Len(bytes)
    /\ ReadSize(bytes) = Len(bytes)
    /\ WireReadSz(bytes, Len(bytes)) = Len(bytes)
    /\ \A l \in (1..5 \cup {Len(bytes) - 1}) \cap 1..(Len(bytes) - 1) :
         WireReadSz(bytes, l) = None \/ WireReadSz(bytes, l) > l

\* A number is read back by the readers that are wide enough for it, and as 0, not cut off,
\* by the others, although the bytes keep nothing of the width it was pushed with (rlp.c:497).
NumbersReadBack ==
  copy # None /\ IsList(copy) =>
    \A k \in 1..Len(pushed), szof \in {1, 2, 4} :
      pushed[k].kind = "number" =>
        ReadInt(At(copy, k - 1), szof) = IF SzSz(pushed[k].n) <= szof THEN pushed[k].n ELSE 0
===========================================================================
