------------------------------ MODULE OrderMap ------------------------------
(***************************************************************************)
(* The Robin Hood hash table from order reference to pool index            *)
(* (src/orderbook/order_map.cpp).  The hash is any function from keys to   *)
(* slots, chosen once, so the checks cover every pattern of collisions.    *)
(***************************************************************************)
EXTENDS Integers, FiniteSetsExt

CONSTANTS
  Keys,      \* order references; 0, the key of an empty entry, is not one
  Values,    \* pool indices
  Capacity,  \* slots in the table, a power of two in the code
  MaxKeys    \* the most references present at once: the pool's capacity

\* The pool runs out of orders before the table runs out of slots.
ASSUME RoomAssumption == MaxKeys < Capacity

VARIABLES
  hash,      \* hash_slot, as a function
  table,     \* table_
  size       \* size_

vars == <<hash, table, size>>

Nil == -1         \* kMapEmpty
EmptyKey == 0
Slots == 0 .. Capacity - 1
EmptyEntry == [key |-> EmptyKey, value |-> 0, probe_dist |-> 0]

EntryAt(t, slot) == t[slot % Capacity]

Init ==
  /\ hash \in [Keys -> Slots]
  /\ table = [s \in Slots |-> EmptyEntry]
  /\ size = 0

(***************************************************************************)
(* Lookup.                                                                 *)
(***************************************************************************)

\* The probes of find and erase stop at the first of: an empty entry, one
\* closer to its home than the probe is, or the key itself.
StopsAt(t, id, dist) ==
  LET e == EntryAt(t, hash[id] + dist)
  IN  e.key = EmptyKey \/ dist > e.probe_dist \/ e.key = id

\* How far a probe for id goes.
ProbeLength(t, id) == Min({d \in 0 .. Capacity : StopsAt(t, id, d)})

Present(t, id) ==
  LET dist == ProbeLength(t, id)
      e == EntryAt(t, hash[id] + dist)
  IN  e.key = id /\ dist <= e.probe_dist

find(t, id) ==
  IF Present(t, id) THEN EntryAt(t, hash[id] + ProbeLength(t, id)).value ELSE Nil

(***************************************************************************)
(* insert: carry an entry along the probe sequence, swapping it with any   *)
(* entry that is closer to its home.                                       *)
(***************************************************************************)

\* A bug the properties must catch: no swap, as in plain linear probing.
RECURSIVE CarryNoSwap(_, _, _, _)
CarryNoSwap(t, slot, carried, id) ==
  LET e == EntryAt(t, slot)
  IN  IF e.key = EmptyKey
        THEN [t EXCEPT ![slot % Capacity] = carried]
      ELSE IF e.key = id
        THEN [t EXCEPT ![slot % Capacity].value = carried.value]
      ELSE CarryNoSwap(t, slot + 1,
                       [carried EXCEPT !.probe_dist = @ + 1], id)

RECURSIVE Carry(_, _, _, _)
Carry(t, slot, carried, id) ==
  LET e == EntryAt(t, slot)
      swap == e.probe_dist < carried.probe_dist
      onward == IF swap THEN e ELSE carried
  IN  IF e.key = EmptyKey
        THEN [t EXCEPT ![slot % Capacity] = carried]
      ELSE IF e.key = id
        THEN [t EXCEPT ![slot % Capacity].value = carried.value]
      ELSE Carry(IF swap THEN [t EXCEPT ![slot % Capacity] = carried] ELSE t,
                 slot + 1, [onward EXCEPT !.probe_dist = @ + 1], id)

Occupied(t) == {s \in Slots : t[s].key # EmptyKey}

insert(id, pool_idx) ==
  /\ Present(table, id) \/ size < MaxKeys
  /\ table' = Carry(table, hash[id],
                    [key |-> id, value |-> pool_idx, probe_dist |-> 0], id)
  /\ size' = IF Cardinality(Occupied(table')) > Cardinality(Occupied(table))
               THEN size + 1
               ELSE size
  /\ UNCHANGED hash

(***************************************************************************)
(* erase: shift the entries that follow back by one slot, up to the first  *)
(* that is empty or at home.                                               *)
(***************************************************************************)
RunLength(t, pos) ==
  Min({n \in 1 .. Capacity : LET e == EntryAt(t, pos + n)
                             IN  e.key = EmptyKey \/ e.probe_dist = 0})

ShiftedBack(t, pos) ==
  LET n == RunLength(t, pos)
  IN  [s \in Slots |->
        LET d == (s - pos) % Capacity
        IN  IF d < n - 1
              THEN LET e == EntryAt(t, s + 1)
                   IN  [e EXCEPT !.probe_dist = @ - 1]
            ELSE IF d = n - 1 THEN EmptyEntry
            ELSE t[s]]

erase(id) ==
  \/ /\ ~Present(table, id)
     /\ UNCHANGED vars
  \/ /\ Present(table, id)
     /\ table' = ShiftedBack(table, (hash[id] + ProbeLength(table, id)) % Capacity)
     /\ size' = size - 1
     /\ UNCHANGED hash

reset ==
  /\ table' = [s \in Slots |-> EmptyEntry]
  /\ size' = 0
  /\ UNCHANGED hash

Next ==
  \/ \E id \in Keys, pool_idx \in Values : insert(id, pool_idx)
  \/ \E id \in Keys : erase(id)
  \/ reset

Spec == Init /\ [][Next]_vars

-----------------------------------------------------------------------------
(***************************************************************************)
(* Properties.                                                             *)
(***************************************************************************)

Dict == INSTANCE Dictionary WITH dict <- [k \in Keys |-> find(table, k)]

\* find, insert, erase and reset together behave as a dictionary: displacing
\* entries and shifting them back never loses, revives or mixes up a key.
ImplementsDictionary == Dict!DictSpec
=============================================================================
