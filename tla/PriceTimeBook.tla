--------------------------- MODULE PriceTimeBook ---------------------------
(***************************************************************************)
(* What a Level 2 book promises: at each price of each side a queue of     *)
(* orders in time priority, and the best bid and offer that follow from    *)
(* them.  An order is turned away only when the book is full.              *)
(***************************************************************************)
EXTENDS Integers, Sequences, FiniteSetsExt, SequencesExt

CONSTANTS
  Side, Refs, Prices, Shares,
  PoolSize,   \* the most orders the book can hold
  MaxLevels   \* the most prices a side can hold

VARIABLES
  queue,  \* [side -> [price -> sequence of orders]], oldest first
  bbo     \* [side -> [price, qty]] of the best level, zeros when empty

bookVars == <<queue, bbo>>

EmptyQueue == [s \in Side |-> [p \in Prices |-> <<>>]]

LivePrices(q, side) == {p \in Prices : q[side][p] # <<>>}
Quantity(entries) == FoldLeft(LAMBDA n, e : n + e.qty, 0, entries)

BestPrice(q, side) ==
  IF side = "Buy" THEN Max(LivePrices(q, side)) ELSE Min(LivePrices(q, side))

BestOf(q) ==
  [side \in Side |->
    IF LivePrices(q, side) = {}
      THEN [price |-> 0, qty |-> 0]
      ELSE [price |-> BestPrice(q, side),
            qty |-> Quantity(q[side][BestPrice(q, side)])]]

\* Where a live reference stands: side, price and position in its queue.
Places(q, ref) ==
  {<<s, p, i>> \in Side \X Prices \X (1 .. PoolSize) :
     i <= Len(q[s][p]) /\ q[s][p][i].ref = ref}

LiveOrders(q) ==
  {<<s, p, i>> \in Side \X Prices \X (1 .. PoolSize) : i <= Len(q[s][p])}

HasRoom(q, side, price) ==
  price \in LivePrices(q, side) \/ Cardinality(LivePrices(q, side)) < MaxLevels

Appended(q, side, price, ref, shares) ==
  [q EXCEPT ![side][price] = Append(@, [ref |-> ref, qty |-> shares])]

Removed(q, at) == [q EXCEPT ![at[1]][at[2]] = RemoveAt(@, at[3])]

BookInit == queue = EmptyQueue /\ bbo = BestOf(EmptyQueue)

(***************************************************************************)
(* What each message does to the queues q.                                 *)
(***************************************************************************)
Entered(q, ref, side, price, shares) ==
  IF /\ Places(q, ref) = {}
     /\ Cardinality(LiveOrders(q)) < PoolSize
     /\ HasRoom(q, side, price)
    THEN Appended(q, side, price, ref, shares)
    ELSE q

\* An execution or a cancel takes shares off an order where it stands.
Reduced(q, at, by_qty) ==
  IF q[at[1]][at[2]][at[3]].qty = by_qty
    THEN Removed(q, at)
    ELSE [q EXCEPT ![at[1]][at[2]][at[3]].qty = @ - by_qty]

\* A replace that does not raise the quantity at the same price keeps its
\* place; any other goes to the back of its queue, or is lost if there is no
\* room for its price.
Replaced(q, at, new_ref, price, shares) ==
  LET rest == Removed(q, at)
  IN  IF price = at[2] /\ shares <= q[at[1]][at[2]][at[3]].qty
        THEN [q EXCEPT ![at[1]][at[2]][at[3]] = [ref |-> new_ref, qty |-> shares]]
      ELSE IF HasRoom(rest, at[1], price)
        THEN Appended(rest, at[1], price, new_ref, shares)
      ELSE rest

Successors(q) ==
  {EmptyQueue}
  \cup {Entered(q, ref, side, price, shares) :
          ref \in Refs, side \in Side, price \in Prices, shares \in Shares}
  \cup {Removed(q, at) : at \in LiveOrders(q)}
  \cup UNION {{Reduced(q, at, by_qty) :
                 by_qty \in 1 .. q[at[1]][at[2]][at[3]].qty} :
                at \in LiveOrders(q)}
  \cup {Replaced(q, at, ref, price, shares) :
          at \in LiveOrders(q), ref \in {r \in Refs : Places(q, r) = {}},
          price \in Prices, shares \in Shares}

BookNext == queue' \in Successors(queue) /\ bbo' = BestOf(queue')

BookSpec == BookInit /\ [][BookNext]_bookVars
=============================================================================
