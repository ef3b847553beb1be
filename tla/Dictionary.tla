----------------------------- MODULE Dictionary -----------------------------
(***************************************************************************)
(* What OrderMap promises: a dictionary from order references to pool      *)
(* indices that also knows how many references it holds.                   *)
(***************************************************************************)
EXTENDS Integers, FiniteSets

CONSTANTS
  Keys, Values,
  Nil          \* the answer for a reference that is not there

VARIABLES
  dict,        \* [Keys -> Values \cup {Nil}]
  size

dictVars == <<dict, size>>

Held(d) == {k \in Keys : d[k] # Nil}

Empty == [k \in Keys |-> Nil]

DictInit == dict = Empty /\ size = 0

Put(k, v) == dict' = [dict EXCEPT ![k] = v]

Remove(k) == dict' = [dict EXCEPT ![k] = Nil]

Wipe == dict' = Empty

DictNext ==
  /\ \/ \E k \in Keys : Remove(k) \/ \E v \in Values : Put(k, v)
     \/ Wipe
  /\ size' = Cardinality(Held(dict'))

DictSpec == DictInit /\ [][DictNext]_dictVars
=============================================================================
