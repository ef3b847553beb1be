---------------------------- MODULE BoundedFifo ----------------------------
(***************************************************************************)
(* What a SpscQueue promises its two threads: a first-in first-out queue   *)
(* of at most Capacity items whose two operations take effect at one       *)
(* instant, never block, and answer "full" or "empty" only when the queue  *)
(* really is full or empty at that instant.                                *)
(***************************************************************************)
EXTENDS Naturals, Sequences

CONSTANTS
  Items,     \* the values that can be queued
  Capacity   \* the number of items the queue holds

VARIABLES
  queue,     \* the items pushed and not yet popped, oldest first
  push_ret,  \* the last answer of try_push, "ok" or "full"
  pop_ret    \* the last answer of try_pop: <<item>>, or <<>> for "empty"

fifoVars == <<queue, push_ret, pop_ret>>

FifoInit ==
  /\ queue = <<>>
  /\ push_ret = "ok"
  /\ pop_ret = <<>>

Push(x) ==
  /\ Len(queue) < Capacity
  /\ queue' = Append(queue, x)
  /\ push_ret' = "ok"
  /\ UNCHANGED pop_ret

PushFull ==
  /\ Len(queue) = Capacity
  /\ push_ret' = "full"
  /\ UNCHANGED <<queue, pop_ret>>

Pop ==
  /\ queue # <<>>
  /\ pop_ret' = <<Head(queue)>>
  /\ queue' = Tail(queue)
  /\ UNCHANGED push_ret

PopEmpty ==
  /\ queue = <<>>
  /\ pop_ret' = <<>>
  /\ UNCHANGED <<queue, push_ret>>

FifoNext ==
  \/ \E x \in Items : Push(x)
  \/ PushFull
  \/ Pop
  \/ PopEmpty

FifoSpec == FifoInit /\ [][FifoNext]_fifoVars
=============================================================================
