----------------------------- MODULE Level2Book -----------------------------
(***************************************************************************)
(* One symbol's order book (src/orderbook/level2_book.cpp) with the order  *)
(* pool (order_pool.cpp) and the reference map of its shard.  The map is   *)
(* taken as a dictionary here; OrderMap.tla models its hash table.         *)
(*                                                                         *)
(* Each side is an array of price levels, best first, of which the first   *)
(* "count" are in use; slots past count keep whatever was last written     *)
(* there.  A level heads a doubly linked list of pool indices.  An order   *)
(* remembers the array index its level had when the order was linked; the  *)
(* array is shifted by insert_level and remove_level without touching it.  *)
(* Quantities and counts are unsigned words that wrap at WordMod.          *)
(***************************************************************************)
EXTENDS Integers, Sequences, FiniteSetsExt, SequencesExt

CONSTANTS
  Side,       \* the sides in use, of "Buy" and "Sell"
  Refs,       \* order reference numbers
  Prices,     \* prices that occur in messages
  Shares,     \* share counts that occur in messages
  PoolSize,   \* MAX_ORDERS_PER_SHARD
  MaxLevels,  \* MAX_PRICE_LEVELS
  WordMod,    \* 2^32
  MaxMsgs     \* bound: the number of messages handled

ASSUME SideAssumption == Side \subseteq {"Buy", "Sell"} /\ Side # {}
ASSUME PoolSizeAssumption == PoolSize \in Nat \ {0}
ASSUME MaxLevelsAssumption == MaxLevels \in Nat \ {0}
ASSUME WordModAssumption == WordMod \in Nat \ {0}
ASSUME MaxMsgsAssumption == MaxMsgs \in Nat
ASSUME PricesAssumption == Prices \subseteq Int
ASSUME SharesAssumption == Shares \subseteq 0 .. WordMod - 1

VARIABLES
  sides,     \* per side, the level array and its count
  orders,    \* OrderPool::pool_
  freelist,  \* OrderPool::freelist_ up to freelist_top_
  map,       \* OrderMap: reference -> pool index, or Nil
  msgs,      \* the number of messages handled so far
  lossless,  \* history: a lossless feed could have carried them all
  fresh      \* history: every order's level_idx has been right throughout

bookVars == <<sides, orders, freelist, map>>
vars == <<bookVars, msgs, lossless, fresh>>

PoolIdx == 0 .. PoolSize - 1
LevelIdx == 0 .. MaxLevels - 1
Nil == -1    \* kInvalidIdx and kMapEmpty

Add(a, b) == (a + b) % WordMod

\* A bug the properties must catch: a difference that does not wrap.
SubSigned(a, b) == a - b

Sub(a, b) == (a - b) % WordMod

EmptyLevel ==
  [price |-> 0, total_qty |-> 0, order_count |-> 0, head |-> Nil, tail |-> Nil]

EmptySide == [count |-> 0, lv |-> [i \in LevelIdx |-> EmptyLevel]]

\* Every index stays within its array and every number within its word,
\* stale level indices and quantities taken below zero included
\* (level2_book.cpp:100-142, 183-207).
TypeOK ==
  /\ \A s \in Side :
       /\ sides[s].count \in 0 .. MaxLevels
       /\ sides[s].lv \in [LevelIdx ->
            [price : Prices \cup {0}, total_qty : 0 .. WordMod - 1,
             order_count : 0 .. WordMod - 1,
             head : PoolIdx \cup {Nil}, tail : PoolIdx \cup {Nil}]]
  /\ orders \in [PoolIdx ->
       [id : Refs \cup {0}, price : Prices \cup {0}, qty : 0 .. WordMod - 1,
        prev : PoolIdx \cup {Nil}, next : PoolIdx \cup {Nil},
        level_idx : LevelIdx, side : Side]]
  /\ freelist \in Seq(PoolIdx) /\ Len(freelist) <= PoolSize
  /\ map \in [Refs -> PoolIdx \cup {Nil}]
  /\ msgs \in 0 .. MaxMsgs
  /\ lossless \in BOOLEAN /\ fresh \in BOOLEAN

\* The stack that makes slot 0 come out first.
FullFreelist == [i \in 1 .. PoolSize |-> PoolSize - i]

Init ==
  /\ sides = [s \in Side |-> EmptySide]
  /\ orders = [i \in PoolIdx |->
                 [id |-> 0, price |-> 0, qty |-> 0, prev |-> 0, next |-> 0,
                  level_idx |-> 0, side |-> CHOOSE s \in Side : TRUE]]
  /\ freelist = FullFreelist
  /\ map = [r \in Refs |-> Nil]
  /\ msgs = 0
  /\ lossless = TRUE /\ fresh = TRUE

(***************************************************************************)
(* The level array of one side.                                            *)
(***************************************************************************)
Better(side, p, q) == IF side = "Buy" THEN p > q ELSE p < q

\* The index of the level with this price, or count.
find_level(L, price) ==
  Min({i \in 0 .. L.count - 1 : L.lv[i].price = price} \cup {L.count})

NoRoom(L, price) == find_level(L, price) = L.count /\ L.count >= MaxLevels

\* A bug the properties must catch: asks are sorted like bids.
InsertPosBidsOnly(L, price, side) ==
  Min({i \in 0 .. L.count - 1 : ~Better("Buy", L.lv[i].price, price)}
      \cup {L.count})

\* Where a new price belongs: before the first level it is not worse than.
InsertPos(L, price, side) ==
  Min({i \in 0 .. L.count - 1 : ~Better(side, L.lv[i].price, price)}
      \cup {L.count})

\* Shift the levels from the insertion point one slot right, and initialise
\* the level that opens up.
insert_level(L, price, side) ==
  LET pos == InsertPos(L, price, side)
  IN  [count |-> L.count + 1,
       lv |-> [i \in LevelIdx |->
                 IF i = pos THEN [EmptyLevel EXCEPT !.price = price]
                 ELSE IF pos < i /\ i <= L.count THEN L.lv[i - 1]
                 ELSE L.lv[i]]]

\* Shift the levels after idx one slot left, and clear the last one.  The
\* index may lie past the end: then only the last level is cleared.
remove_level(L, idx) ==
  [count |-> L.count - 1,
   lv |-> [i \in LevelIdx |->
             IF i = L.count - 1 THEN EmptyLevel
             ELSE IF idx <= i /\ i < L.count - 1 THEN L.lv[i + 1]
             ELSE L.lv[i]]]

\* The side with a level for this price, made if there is none.
WithLevel(L, price, side) ==
  IF find_level(L, price) = L.count THEN insert_level(L, price, side) ELSE L

(***************************************************************************)
(* The list of orders of one level: what linking and unlinking the order   *)
(* in slot idx do to the pool (…Orders) and to the level array (…Side).    *)
(***************************************************************************)
LinkOrders(L, O, idx) ==
  LET tail == L.lv[O[idx].level_idx].tail
      A == [O EXCEPT ![idx].prev = tail, ![idx].next = Nil]
  IN  IF tail = Nil THEN A ELSE [A EXCEPT ![tail].next = idx]

LinkSide(L, O, idx) ==
  [L EXCEPT !.lv[O[idx].level_idx] =
     [@ EXCEPT !.head = IF L.lv[O[idx].level_idx].tail = Nil THEN idx ELSE @,
               !.tail = idx,
               !.total_qty = Add(@, O[idx].qty),
               !.order_count = Add(@, 1)]]

UnlinkOrders(O, idx) ==
  LET o == O[idx]
      A == IF o.prev = Nil THEN O ELSE [O EXCEPT ![o.prev].next = o.next]
  IN  IF o.next = Nil THEN A ELSE [A EXCEPT ![o.next].prev = o.prev]

UnlinkSide(L, O, idx) ==
  LET o == O[idx]
  IN  [L EXCEPT !.lv[o.level_idx] =
         [@ EXCEPT !.head = IF o.prev = Nil THEN o.next ELSE @,
                   !.tail = IF o.next = Nil THEN o.prev ELSE @,
                   !.total_qty = Sub(@, o.qty),
                   !.order_count = Sub(@, 1)]]

\* Unlink, and drop the level when its count says it is empty.
DetachSide(L, O, idx) ==
  LET k == O[idx].level_idx
      U == UnlinkSide(L, O, idx)
  IN  IF U.lv[k].order_count = 0 THEN remove_level(U, k) ELSE U

(***************************************************************************)
(* OrderPool.                                                              *)
(***************************************************************************)
NextFree == Last(freelist)
Popped == Front(freelist)
free(f, idx) == Append(f, idx)

(***************************************************************************)
(* The message handlers.                                                   *)
(***************************************************************************)

\* Fill slot idx with a new order for a side that has a level for its price.
NewOrder(O, W, idx, ref, side, price, shares) ==
  [O EXCEPT ![idx] = [id |-> ref, price |-> price, qty |-> shares, prev |-> Nil,
                      next |-> Nil, level_idx |-> find_level(W, price),
                      side |-> side]]

\* 'A' / 'F'.
on_add_order(ref, side, price, shares) ==
  \/ /\ freelist = <<>>
     /\ UNCHANGED bookVars
  \/ /\ freelist # <<>>
     /\ NoRoom(sides[side], price)
     /\ orders' = [orders EXCEPT ![NextFree].prev = Nil, ![NextFree].next = Nil]
     /\ UNCHANGED <<sides, freelist, map>>
  \/ /\ freelist # <<>>
     /\ ~NoRoom(sides[side], price)
     /\ LET W == WithLevel(sides[side], price, side)
            O == NewOrder(orders, W, NextFree, ref, side, price, shares)
        IN  /\ sides' = [sides EXCEPT ![side] = LinkSide(W, O, NextFree)]
            /\ orders' = LinkOrders(W, O, NextFree)
     /\ freelist' = Popped
     /\ map' = [map EXCEPT ![ref] = NextFree]

\* A bug the properties must catch: the level's aggregate is not reduced.
reduce_qty_order_only(ref, by_qty) ==
  LET idx == map[ref]
      side == orders[idx].side
      O == [orders EXCEPT ![idx].qty = Sub(@, by_qty)]
  IN  \/ /\ idx = Nil
         /\ UNCHANGED bookVars
      \/ /\ idx # Nil
         /\ O[idx].qty # 0
         /\ orders' = O
         /\ UNCHANGED <<sides, freelist, map>>
      \/ /\ idx # Nil
         /\ O[idx].qty = 0
         /\ sides' = [sides EXCEPT ![side] = DetachSide(@, O, idx)]
         /\ orders' = UnlinkOrders(O, idx)
         /\ map' = [map EXCEPT ![ref] = Nil]
         /\ freelist' = free(freelist, idx)

\* 'E', 'C' and 'X' all come down to reduce_qty.
reduce_qty(ref, by_qty) ==
  LET idx == map[ref]
      side == orders[idx].side
      k == orders[idx].level_idx
      L == [sides[side] EXCEPT !.lv[k].total_qty = Sub(@, by_qty)]
      O == [orders EXCEPT ![idx].qty = Sub(@, by_qty)]
  IN  \/ /\ idx = Nil
         /\ UNCHANGED bookVars
      \/ /\ idx # Nil
         /\ O[idx].qty # 0
         /\ sides' = [sides EXCEPT ![side] = L]
         /\ orders' = O
         /\ UNCHANGED <<freelist, map>>
      \/ /\ idx # Nil
         /\ O[idx].qty = 0
         /\ sides' = [sides EXCEPT ![side] = DetachSide(L, O, idx)]
         /\ orders' = UnlinkOrders(O, idx)
         /\ map' = [map EXCEPT ![ref] = Nil]
         /\ freelist' = free(freelist, idx)

\* A bug the properties must catch: the reference is not erased.
on_order_delete_no_erase(ref) ==
  LET idx == map[ref]
      side == orders[idx].side
  IN  \/ /\ idx = Nil
         /\ UNCHANGED bookVars
      \/ /\ idx # Nil
         /\ sides' = [sides EXCEPT ![side] = DetachSide(@, orders, idx)]
         /\ orders' = UnlinkOrders(orders, idx)
         /\ freelist' = free(freelist, idx)
         /\ UNCHANGED map

\* 'D'.
on_order_delete(ref) ==
  LET idx == map[ref]
      side == orders[idx].side
  IN  \/ /\ idx = Nil
         /\ UNCHANGED bookVars
      \/ /\ idx # Nil
         /\ sides' = [sides EXCEPT ![side] = DetachSide(@, orders, idx)]
         /\ orders' = UnlinkOrders(orders, idx)
         /\ map' = [map EXCEPT ![ref] = Nil]
         /\ freelist' = free(freelist, idx)

\* 'U', case A: the order keeps its place in the list.
ReplaceInPlace(orig_ref, new_ref, shares) ==
  LET idx == map[orig_ref]
      o == orders[idx]
  IN  /\ sides' = [sides EXCEPT ![o.side].lv[o.level_idx].total_qty =
                     Add(Sub(@, o.qty), shares)]
      /\ orders' = [orders EXCEPT ![idx].qty = shares, ![idx].id = new_ref]
      /\ map' = [map EXCEPT ![orig_ref] = Nil, ![new_ref] = idx]
      /\ UNCHANGED freelist

\* A bug the properties must catch: a full side loses the slot, too.
ReplaceAtTailLeaks(orig_ref, new_ref, price, shares) ==
  LET idx == map[orig_ref]
      side == orders[idx].side
      L == DetachSide(sides[side], orders, idx)
      A == UnlinkOrders(orders, idx)
      W == WithLevel(L, price, side)
      O == NewOrder(A, W, idx, new_ref, side, price, shares)
  IN  \/ /\ NoRoom(L, price)
         /\ sides' = [sides EXCEPT ![side] = L]
         /\ orders' = [A EXCEPT ![idx].prev = Nil, ![idx].next = Nil]
         /\ map' = [map EXCEPT ![orig_ref] = Nil]
         /\ UNCHANGED freelist
      \/ /\ ~NoRoom(L, price)
         /\ sides' = [sides EXCEPT ![side] = LinkSide(W, O, idx)]
         /\ orders' = LinkOrders(W, O, idx)
         /\ map' = [map EXCEPT ![orig_ref] = Nil, ![new_ref] = idx]
         /\ UNCHANGED freelist

\* 'U', case B: unlink and free the old order, then link a new one, which
\* gets the slot just freed.  A full side loses the order.
ReplaceAtTail(orig_ref, new_ref, price, shares) ==
  LET idx == map[orig_ref]
      side == orders[idx].side
      L == DetachSide(sides[side], orders, idx)
      A == UnlinkOrders(orders, idx)
      W == WithLevel(L, price, side)
      O == NewOrder(A, W, idx, new_ref, side, price, shares)
  IN  \/ /\ NoRoom(L, price)
         /\ sides' = [sides EXCEPT ![side] = L]
         /\ orders' = [A EXCEPT ![idx].prev = Nil, ![idx].next = Nil]
         /\ map' = [map EXCEPT ![orig_ref] = Nil]
         /\ freelist' = free(freelist, idx)
      \/ /\ ~NoRoom(L, price)
         /\ sides' = [sides EXCEPT ![side] = LinkSide(W, O, idx)]
         /\ orders' = LinkOrders(W, O, idx)
         /\ map' = [map EXCEPT ![orig_ref] = Nil, ![new_ref] = idx]
         /\ UNCHANGED freelist

\* A bug the properties must catch: more shares at the same price keep the
\* order's place.
on_order_replace_keeps_place(orig_ref, new_ref, price, shares) ==
  LET idx == map[orig_ref]
  IN  \/ /\ idx = Nil
         /\ UNCHANGED bookVars
      \/ /\ idx # Nil
         /\ price = orders[idx].price
         /\ ReplaceInPlace(orig_ref, new_ref, shares)
      \/ /\ idx # Nil
         /\ price # orders[idx].price
         /\ ReplaceAtTail(orig_ref, new_ref, price, shares)

on_order_replace(orig_ref, new_ref, price, shares) ==
  LET idx == map[orig_ref]
      inPlace == price = orders[idx].price /\ shares <= orders[idx].qty
  IN  \/ /\ idx = Nil
         /\ UNCHANGED bookVars
      \/ /\ idx # Nil
         /\ inPlace
         /\ ReplaceInPlace(orig_ref, new_ref, shares)
      \/ /\ idx # Nil
         /\ ~inPlace
         /\ ReplaceAtTail(orig_ref, new_ref, price, shares)

\* InternalSessionReset: clear, OrderPool::reset and OrderMap::reset.  The
\* orders themselves are left as they are.
clear ==
  /\ sides' = [s \in Side |-> EmptySide]
  /\ freelist' = FullFreelist
  /\ map' = [r \in Refs |-> Nil]
  /\ UNCHANGED orders

Live(ref) == map[ref] # Nil

Used(side) == 0 .. sides[side].count - 1

\* An order's level_idx is the index of the level with its price
\* (order_pool.hpp: "index into bid_levels_ or ask_levels_ array").
FreshIndices ==
  \A r \in Refs : Live(r) =>
    LET o == orders[map[r]]
    IN  /\ o.level_idx \in Used(o.side)
        /\ sides[o.side].lv[o.level_idx].price = o.price

(***************************************************************************)
(* Any message may come.  A lossless feed carries fresh references,        *)
(* positive share counts, and never takes more shares off an order than it *)
(* has.  A session reset starts the history afresh.                        *)
(***************************************************************************)
Note(fromLosslessFeed) ==
  /\ msgs' = msgs + 1
  /\ lossless' = (lossless /\ fromLosslessFeed)
  /\ fresh' = (fresh /\ FreshIndices')

Handle ==
  \/ \E ref \in Refs, side \in Side, price \in Prices, shares \in Shares :
       /\ on_add_order(ref, side, price, shares)
       /\ Note(shares > 0 /\ ~Live(ref))
  \/ \E ref \in Refs, by_qty \in Shares :
       /\ reduce_qty(ref, by_qty)
       /\ Note(by_qty > 0 /\ (Live(ref) => by_qty <= orders[map[ref]].qty))
  \/ \E ref \in Refs : on_order_delete(ref) /\ Note(TRUE)
  \/ \E orig_ref, new_ref \in Refs, price \in Prices, shares \in Shares :
       /\ on_order_replace(orig_ref, new_ref, price, shares)
       /\ Note(shares > 0 /\ ~Live(new_ref))
  \/ clear /\ msgs' = msgs + 1 /\ lossless' = TRUE /\ fresh' = TRUE

Next == msgs < MaxMsgs /\ Handle

Spec == Init /\ [][Next]_vars

-----------------------------------------------------------------------------
(***************************************************************************)
(* Properties.                                                             *)
(***************************************************************************)

\* The levels in use are sorted best first, no price twice, and their number
\* stays within the array (price_level.hpp: "kept sorted best-first at all
\* times"), even when remove_level is handed an index that has gone stale.
LevelsSorted ==
  \A side \in Side :
    /\ sides[side].count \in 0 .. MaxLevels
    /\ \A i, j \in Used(side) :
         i < j => Better(side, sides[side].lv[i].price, sides[side].lv[j].price)

Free == {freelist[i] : i \in 1 .. Len(freelist)}

\* The pool never hands out a slot that an order still has: the free stack
\* has no slot twice and none that the map points to, and no two references
\* share a slot, whatever the messages.
PoolConsistent ==
  /\ \A i, j \in 1 .. Len(freelist) : freelist[i] = freelist[j] => i = j
  /\ \A r \in Refs : Live(r) => map[r] \notin Free
  /\ \A q, r \in Refs : Live(q) /\ map[q] = map[r] => q = r

\* On a lossless feed no slot leaks: each one is free or mapped, stale indices
\* or not.
NoLeak ==
  lossless => PoolIdx = Free \cup {map[r] : r \in {q \in Refs : Live(q)}}

\* levels[0] of each side.
get_bbo ==
  [s \in Side |->
    LET best == IF sides[s].count = 0 THEN EmptyLevel ELSE sides[s].lv[0]
    IN  [price |-> best.price, qty |-> best.total_qty]]

OrdersAt(side, price) ==
  {i \in {map[r] : r \in {q \in Refs : Live(q)}} :
     orders[i].side = side /\ orders[i].price = price}

\* The BBO is that of the live orders: the best price with an order, and the
\* sum of the quantities of its orders.
BboOfLiveOrders ==
  \A side \in Side :
    LET live == {p \in Prices : OrdersAt(side, p) # {}}
        b == get_bbo[side]
    IN  IF live = {}
          THEN b = [price |-> 0, qty |-> 0]
          ELSE /\ b.price \in live
               /\ \A p \in live \ {b.price} : Better(side, b.price, p)
               /\ b.qty = MapThenSumSet(LAMBDA i : orders[i].qty,
                                        OrdersAt(side, b.price))

\* As long as the feed is lossless and every level_idx is right, the published
\* best bid and offer are those of the live orders (level2_book.cpp:246-264).
BboCorrect == lossless /\ fresh => BboOfLiveOrders

\* On a lossless feed the published best bid and offer are those of the live
\* orders, whatever order the prices come and go in.
BboOnLosslessFeed == lossless => BboOfLiveOrders

(***************************************************************************)
(* The book as a PriceTimeBook: the list of a level, from its head along   *)
(* next_idx, is the queue of its price.                                    *)
(***************************************************************************)
ListFrom(head, n) ==
  LET walk[i \in 1 .. n] == IF i = 1 THEN head ELSE orders[walk[i - 1]].next
  IN  [i \in 1 .. n |->
         [ref |-> orders[walk[i]].id, qty |-> orders[walk[i]].qty]]

Queues ==
  [side \in Side |->
    [price \in Prices |->
      LET k == find_level(sides[side], price)
      IN  IF k = sides[side].count
            THEN <<>>
            ELSE ListFrom(sides[side].lv[k].head, sides[side].lv[k].order_count)]]

Abstract == INSTANCE PriceTimeBook WITH queue <- Queues, bbo <- get_bbo

\* While the feed is lossless and every level_idx stays right, the linked lists,
\* aggregates and BBO take the steps of a book with price-time priority.
Sound == lossless /\ fresh

ImplementsPriceTimeBook ==
  /\ Abstract!BookInit
  /\ [][Sound /\ Sound' => [Abstract!BookNext]_<<Queues, get_bbo>>]_vars
=============================================================================
