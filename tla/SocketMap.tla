---------------------------- MODULE SocketMap ----------------------------
(***************************************************************************)
(* The hash map in which linq-network keeps its sockets: the string map of *)
(* klib (src/common/klib/khash.h) in the wrapper of containers.h.  The     *)
(* position of an entry matters because zmtp_listen and zmtp_connect give  *)
(* it away as the handle of the socket.                                    *)
(*                                                                         *)
(* A map is a record: the hash function of its keys, the slots, the number *)
(* of live entries, and the number of slots that are not empty.  Slots are *)
(* numbered from 0; a position equal to their number is khash's kh_end.    *)
(* A deleted slot keeps its key and value, as the arrays of khash do.      *)
(***************************************************************************)
EXTENDS Integers, FiniteSets, FiniteSetsExt

Slot(flag, key, val) == [flag |-> flag, key |-> key, val |-> val]

\* What krealloc leaves in a slot that was never written; nothing reads it.
Unwritten == Slot("empty", "none", <<>>)

\* kh_init
EmptyMap(hash) == [hash |-> hash, slots |-> <<>>, size |-> 0, occupied |-> 0]

Buckets(t) == Cardinality(DOMAIN t.slots)

\* upper_bound, n * __ac_HASH_UPPER + 0.5
UpperBound(n) == (77 * n + 50) \div 100

Live(t) == {i \in DOMAIN t.slots : t.slots[i].flag = "live"}

\* The slot visited in the given step of a search for key among n slots
Probe(t, n, key, step) == (t.hash[key] + (step * (step + 1)) \div 2) % n

\* The steps at which a search for key stops: an empty slot, or the key's
Stops(t, key) ==
  {s \in 0..(Buckets(t) - 1) :
     LET slot == t.slots[Probe(t, Buckets(t), key, s)]
     IN  \/ slot.flag = "empty"
         \/ slot.flag = "live" /\ slot.key = key}

\* kh_get
Find(t, key) ==
  LET at(s) == Probe(t, Buckets(t), key, s)
  IN  IF Stops(t, key) # {} /\ t.slots[at(Min(Stops(t, key)))].flag = "live"
      THEN at(Min(Stops(t, key))) ELSE Buckets(t)

---------------------------------------------------------------------------
(* kh_resize: the entries move to the slots of a table of n, in the same arrays. *)
(* An entry that is placed on one that has not moved yet kicks that one out, and *)
(* the entry in hand is placed next; otherwise the next in the order of slots is. *)

Moving(t, n) ==
  [hash |-> t.hash,
   old  |-> [i \in DOMAIN t.slots |-> t.slots[i].flag],
   new  |-> [i \in 0..(n - 1) |-> IF i \in DOMAIN t.slots
                                  THEN [t.slots[i] EXCEPT !.flag = "empty"] ELSE Unwritten],
   hand |-> <<>>]

Unmoved(m) == {i \in DOMAIN m.old : m.old[i] = "live"}

\* Wrong: the entry that is kicked out swaps its key but not its value.
PlaceKeysOnly(m, n) ==
  LET from == IF m.hand = <<>> THEN Min(Unmoved(m)) ELSE -1
      e    == IF m.hand = <<>> THEN m.new[from] ELSE m.hand[1]
      at(s) == Probe(m, n, e.key, s)
      to   == at(Min({s \in 0..(n - 1) : m.new[at(s)].flag = "empty"}))
  IN  [m EXCEPT !.old = [i \in DOMAIN @ |-> IF i \in {from, to} THEN "deleted" ELSE @[i]],
                !.new[to] = Slot("live", e.key, e.val),
                !.hand = IF to \in Unmoved(m) \ {from} THEN <<[m.new[to] EXCEPT !.val = e.val]>> ELSE <<>>]

Place(m, n) ==
  LET from == IF m.hand = <<>> THEN Min(Unmoved(m)) ELSE -1
      e    == IF m.hand = <<>> THEN m.new[from] ELSE m.hand[1]
      at(s) == Probe(m, n, e.key, s)
      to   == at(Min({s \in 0..(n - 1) : m.new[at(s)].flag = "empty"}))
  IN  [m EXCEPT !.old = [i \in DOMAIN @ |-> IF i \in {from, to} THEN "deleted" ELSE @[i]],
                !.new[to] = Slot("live", e.key, e.val),
                !.hand = IF to \in Unmoved(m) \ {from} THEN <<m.new[to]>> ELSE <<>>]

Rehash(t, n) ==
  LET moved[k \in 0..t.size] == IF k = 0 THEN Moving(t, n) ELSE Place(moved[k - 1], n)
  IN  [t EXCEPT !.slots = moved[t.size].new, !.occupied = t.size]

\* kh_resize does nothing when the entries would not fit
Resize(t, n) == IF t.size >= UpperBound(n) THEN t ELSE Rehash(t, n)

\* Wrong: the entries are moved while there is still room.
MakeRoomEarly(t) ==
  LET n == Buckets(t)
  IN  IF t.occupied + 1 < UpperBound(n) THEN t
      ELSE Resize(t, IF n = 0 THEN 4 ELSE 2 * n)

\* The first part of kh_put. When few slots are live the deleted ones are cleared;
\* otherwise the number of slots doubles (kroundup32(n + 1), at least 4).
MakeRoom(t) ==
  LET n == Buckets(t)
  IN  IF t.occupied < UpperBound(n) THEN t
      ELSE IF n > 2 * t.size THEN Resize(t, n)
      ELSE Resize(t, IF n = 0 THEN 4 ELSE 2 * n)

\* The second part of kh_put: the key's slot, else the last deleted slot on the way
\* to the empty one, else that one. (An empty slot there is, see Consistent.)
Site(t, key) ==
  LET at(s)  == Probe(t, Buckets(t), key, s)
      stop   == Min(Stops(t, key))
      passed == {s \in 0..(stop - 1) : t.slots[at(s)].flag = "deleted"}
  IN  IF t.slots[at(stop)].flag = "empty" /\ passed # {} THEN at(Max(passed)) ELSE at(stop)

\* socket_map_add: kh_put, and the value is stored whether or not the key was there
Add(t, key, val) ==
  LET u == MakeRoom(t)
      x == Site(u, key)
  IN  [u EXCEPT !.slots[x] = Slot("live", key, val),
                !.size     = @ + (IF u.slots[x].flag = "live" THEN 0 ELSE 1),
                !.occupied = @ + (IF u.slots[x].flag = "empty" THEN 1 ELSE 0)]

\* socket_map_key: 0 when the key is not there
KeyOf(t, key) == IF Find(t, key) = Buckets(t) THEN 0 ELSE Find(t, key)

\* socket_map_resolve, dereferenced: whatever the slot holds, live or not
ValueAt(t, x) == t.slots[x].val

\* Wrong: the slot becomes empty, so that searches stop at it.
DelEmpty(t, x) ==
  IF x \in Live(t) THEN [t EXCEPT !.slots[x].flag = "empty", !.size = @ - 1,
                                  !.occupied = @ - 1] ELSE t

\* kh_del
Del(t, x) ==
  IF x \in Live(t) THEN [t EXCEPT !.slots[x].flag = "deleted", !.size = @ - 1] ELSE t

---------------------------------------------------------------------------
(* What keeps the map working *)

\* The counters are right, each live key is found where it is, and searches end.
Consistent(t) ==
  /\ t.size = Cardinality(Live(t))
  /\ t.occupied = Cardinality({i \in DOMAIN t.slots : t.slots[i].flag # "empty"})
  /\ t.occupied <= UpperBound(Buckets(t))
  /\ \A i \in Live(t) : Find(t, t.slots[i].key) = i
  /\ DOMAIN t.slots # {} => \E i \in DOMAIN t.slots : t.slots[i].flag = "empty"

\* The value stored for key, in a set that is empty when there is none
Lookup(t, key) == {t.slots[i].val : i \in {Find(t, key)} \cap Live(t)}
===========================================================================
