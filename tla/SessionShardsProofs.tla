------------------------ MODULE SessionShardsProofs ------------------------
(***************************************************************************)
(* BooksOneSession and GapOnlyAfterReset for every number of shards,       *)
(* locate codes, sessions and packets, and queues of any depth.            *)
(*                                                                         *)
(* The first is not inductive: what keeps two sessions apart in a book     *)
(* is where the sentinels stand among the messages that are still in the   *)
(* shard's queue, and, before the sentinel of a new session is pushed,     *)
(* that the parser has not yet routed anything of that session.            *)
(***************************************************************************)
EXTENDS SessionShards, TLAPS

\* The messages that can leave a mark of their session on a book.
Carries(m) == m.type \in {"action", "add", "other"}

\* A sentinel stands among positions i to j of q.
Sentinel(q, i, j) == \E k \in i .. j : q[k].type = "reset"

\* The sessions in C are one, and a sentinel stands between any two marks of
\* different sessions, those in C coming before the whole of q.
Separated(q, C) ==
  /\ \A a, b \in C : a = b
  /\ \A c \in C, j \in 1 .. Len(q) :
       Carries(q[j]) /\ q[j].sess # c => Sentinel(q, 1, j - 1)
  /\ \A i, j \in 1 .. Len(q) :
       i < j /\ Carries(q[i]) /\ Carries(q[j]) /\ q[i].sess # q[j].sess
         => Sentinel(q, i + 1, j - 1)

\* Whatever is not of session x has a sentinel behind it.
ClosedFor(q, C, x) ==
  /\ \A c \in C : c # x => Sentinel(q, 1, Len(q))
  /\ \A i \in 1 .. Len(q) :
       Carries(q[i]) /\ q[i].sess # x => Sentinel(q, i + 1, Len(q))

\* The sessions a book shows.
Marks(s, i) == {t.sess : t \in books[s][i]} \cup ({status[s][i]} \ {0})

\* The sentinel of the exchange's session has not yet been pushed to s.
Awaits(s) ==
  \/ ppc = "event" /\ session # xsess
  \/ ppc = "broadcast" /\ s \in left

Types ==
  /\ queue \in [Shards -> Seq(Messages)]
  /\ active \in [Shards -> SUBSET Slabs]
  /\ books \in [Shards -> [Slabs -> SUBSET Tags]]
  /\ status \in [Shards -> [Slabs -> SessionIds]]
  /\ xsess \in SessionIds
  /\ left \subseteq Shards

\* The parser routes only messages of the session it has switched to.
ParserInv == ppc # "event" => session = xsess

\* The orders in q are those of shard s.
OwnOrders(q, s) ==
  \A j \in 1 .. Len(q) :
    q[j].type \in {"add", "other"} => shard_for_locate(q[j].loc) = s

\* What clear_all_books finds inactive shows no session, and a book holds only
\* the orders of its locate code.
BookInv(s, i) ==
  /\ i \notin active[s] => Marks(s, i) = {}
  /\ \A t \in books[s][i] : t.loc = i * NumShards + s

Apart(s, i) ==
  s \notin missed =>
    /\ Separated(queue[s], Marks(s, i))
    /\ ~ Awaits(s) => ClosedFor(queue[s], Marks(s, i), xsess)

ShardInv ==
  /\ Types /\ ParserInv
  /\ \A s \in Shards : OwnOrders(queue[s], s)
  /\ \A s \in Shards, i \in Slabs : BookInv(s, i) /\ Apart(s, i)

-----------------------------------------------------------------------------
(* Queues. *)

LEMMA SentinelAppend ==
  ASSUME NEW q \in Seq(Messages), NEW m \in Messages,
         NEW i \in Nat \ {0}, NEW j \in Int, j <= Len(q),
         NEW n \in Int, j <= n, Sentinel(q, i, j)
  PROVE  Sentinel(Append(q, m), i, n)
<1>1. PICK k \in i .. j : q[k].type = "reset"
  BY DEF Sentinel
<1>2. k \in 1 .. Len(q) /\ k \in i .. n
  OBVIOUS
<1>3. Append(q, m)[k] = q[k]
  BY <1>2
<1> QED
  BY <1>1, <1>2, <1>3 DEF Sentinel

LEMMA AppendAt ==
  ASSUME NEW q \in Seq(Messages), NEW m \in Messages
  PROVE  /\ Len(Append(q, m)) = Len(q) + 1 /\ Len(q) \in Nat
         /\ Append(q, m)[Len(q) + 1] = m
         /\ \A i \in 1 .. Len(q) : Append(q, m)[i] = q[i]
OBVIOUS

\* A message keeps apart what was, if it carries the session the queue is
\* closed for, or none.
LEMMA AppendSeparated ==
  ASSUME NEW q \in Seq(Messages), NEW C, NEW m \in Messages, Separated(q, C),
         Carries(m) => ClosedFor(q, C, m.sess)
  PROVE  Separated(Append(q, m), C)
<1> DEFINE p == Append(q, m)
<1>1. /\ Len(p) = Len(q) + 1 /\ Len(q) \in Nat
      /\ p[Len(q) + 1] = m
      /\ \A i \in 1 .. Len(q) : p[i] = q[i]
  BY AppendAt
<1>2. ASSUME NEW i \in Nat \ {0}, NEW j \in Int, j <= Len(q), NEW n \in Int, j <= n,
             Sentinel(q, i, j)
      PROVE  Sentinel(p, i, n)
  BY <1>2, SentinelAppend
<1> HIDE DEF p
<1>3. \A a, b \in C : a = b
  BY DEF Separated
<1>4. ASSUME NEW c \in C, NEW j \in 1 .. Len(p), Carries(p[j]), p[j].sess # c
      PROVE  Sentinel(p, 1, j - 1)
  <2>1. CASE j = Len(q) + 1
    <3>1. Sentinel(q, 1, Len(q))
      BY <1>1, <1>4, <2>1 DEF ClosedFor
    <3> QED
      BY <1>1, <1>2, <2>1, <3>1
  <2>2. CASE j # Len(q) + 1
    <3>1. j \in 1 .. Len(q) /\ p[j] = q[j]
      BY <1>1, <2>2
    <3>2. Sentinel(q, 1, j - 1)
      BY <1>4, <3>1 DEF Separated
    <3> QED
      BY <1>1, <1>2, <3>1, <3>2
  <2> QED
    BY <2>1, <2>2
<1>5. ASSUME NEW i \in 1 .. Len(p), NEW j \in 1 .. Len(p), i < j,
             Carries(p[i]), Carries(p[j]), p[i].sess # p[j].sess
      PROVE  Sentinel(p, i + 1, j - 1)
  <2>0. i \in 1 .. Len(q) /\ p[i] = q[i]
    BY <1>1, <1>5
  <2>1. CASE j = Len(q) + 1
    <3>1. Sentinel(q, i + 1, Len(q))
      BY <1>1, <1>5, <2>0, <2>1 DEF ClosedFor
    <3> QED
      BY <1>1, <1>2, <2>0, <2>1, <3>1
  <2>2. CASE j # Len(q) + 1
    <3>1. j \in 1 .. Len(q) /\ p[j] = q[j]
      BY <1>1, <2>2
    <3>2. Sentinel(q, i + 1, j - 1)
      BY <1>5, <2>0, <3>1 DEF Separated
    <3> QED
      BY <1>1, <1>2, <2>0, <3>1, <3>2
  <2> QED
    BY <2>1, <2>2
<1>6. Separated(p, C)
  BY <1>3, <1>4, <1>5 DEF Separated
<1> QED
  BY <1>6 DEF p

LEMMA AppendClosed ==
  ASSUME NEW q \in Seq(Messages), NEW C, NEW m \in Messages, NEW x,
         ClosedFor(q, C, x), Carries(m) => m.sess = x
  PROVE  ClosedFor(Append(q, m), C, x)
<1> DEFINE p == Append(q, m)
<1>1. /\ Len(p) = Len(q) + 1 /\ Len(q) \in Nat
      /\ p[Len(q) + 1] = m
      /\ \A i \in 1 .. Len(q) : p[i] = q[i]
  BY AppendAt
<1>2. ASSUME NEW i \in Nat \ {0}, Sentinel(q, i, Len(q))
      PROVE  Sentinel(p, i, Len(p))
  BY <1>1, <1>2, SentinelAppend
<1> HIDE DEF p
<1>3. ASSUME NEW c \in C, c # x PROVE Sentinel(p, 1, Len(p))
  BY <1>2, <1>3 DEF ClosedFor
<1>4. ASSUME NEW i \in 1 .. Len(p), Carries(p[i]), p[i].sess # x
      PROVE  Sentinel(p, i + 1, Len(p))
  <2>1. i \in 1 .. Len(q) /\ p[i] = q[i]
    BY <1>1, <1>4
  <2>2. Sentinel(q, i + 1, Len(q))
    BY <1>4, <2>1 DEF ClosedFor
  <2> QED
    BY <1>2, <2>1, <2>2
<1>5. ClosedFor(p, C, x)
  BY <1>3, <1>4 DEF ClosedFor
<1> QED
  BY <1>5 DEF p

\* A sentinel closes the queue for whatever session comes next.
LEMMA AppendReset ==
  ASSUME NEW q \in Seq(Messages), NEW C, NEW m \in Messages, m.type = "reset", NEW x
  PROVE  ClosedFor(Append(q, m), C, x)
<1> DEFINE p == Append(q, m)
<1>1. Len(p) = Len(q) + 1 /\ Len(q) \in Nat /\ p[Len(q) + 1] = m
  BY AppendAt
<1> HIDE DEF p
<1>2. ~ Carries(m)
  BY DEF Carries
<1>3. ASSUME NEW i \in 1 .. Len(p), Carries(p[i]) PROVE i + 1 \in 1 .. Len(p)
  BY <1>1, <1>2, <1>3
<1>4. \A i \in 1 .. Len(p) : Sentinel(p, i, Len(p))
  BY <1>1 DEF Sentinel
<1>5. ClosedFor(p, C, x)
  BY <1>1, <1>3, <1>4 DEF ClosedFor
<1> QED
  BY <1>5 DEF p

LEMMA TailAt ==
  ASSUME NEW q \in Seq(Messages), q # <<>>
  PROVE  /\ Len(q) \in Nat \ {0} /\ Len(Tail(q)) = Len(q) - 1
         /\ Head(q) = q[1]
         /\ \A i \in 1 .. Len(q) - 1 : Tail(q)[i] = q[i + 1]
OBVIOUS

LEMMA SentinelTail ==
  ASSUME NEW q \in Seq(Messages), q # <<>>,
         NEW i \in Nat \ {0}, NEW j \in Int, j <= Len(q),
         i > 1 \/ Head(q).type # "reset", Sentinel(q, i, j)
  PROVE  /\ i > 1 => Sentinel(Tail(q), i - 1, j - 1)
         /\ i = 1 => Sentinel(Tail(q), 1, j - 1)
<1>1. PICK k \in i .. j : q[k].type = "reset"
  BY DEF Sentinel
<1>2. k > 1
  BY <1>1, TailAt
<1>3. k - 1 \in 1 .. Len(q) - 1 /\ Tail(q)[k - 1] = q[k]
  BY <1>2, TailAt
<1>4. k - 1 \in i - 1 .. j - 1 /\ (i = 1 => k - 1 \in 1 .. j - 1)
  BY <1>2
<1> QED
  BY <1>1, <1>3, <1>4, SMTT(30) DEF Sentinel

\* A shard that handles a message other than a sentinel shows at most the
\* session of that message more than before.
LEMMA TailSeparated ==
  ASSUME NEW q \in Seq(Messages), q # <<>>, Head(q).type # "reset",
         NEW C, NEW D, Separated(q, C),
         \A d \in D : d \in C \/ (Carries(Head(q)) /\ d = Head(q).sess)
  PROVE  Separated(Tail(q), D)
<1> DEFINE p == Tail(q)
<1>1. /\ Len(q) \in Nat \ {0} /\ Len(p) = Len(q) - 1
      /\ Head(q) = q[1]
      /\ \A i \in 1 .. Len(p) : p[i] = q[i + 1]
  BY TailAt
<1>2. ASSUME NEW i \in Nat \ {0}, NEW j \in Int, j <= Len(q), Sentinel(q, i, j)
      PROVE  /\ i > 1 => Sentinel(p, i - 1, j - 1)
             /\ i = 1 => Sentinel(p, 1, j - 1)
  BY <1>2, SentinelTail
<1> HIDE DEF p
<1>3. ~ Sentinel(q, 1, 0)
  BY DEF Sentinel
<1>4. \A c \in C : Carries(q[1]) => q[1].sess = c
  <2>1. 1 \in 1 .. Len(q) /\ 1 - 1 = 0
    BY <1>1
  <2> QED
    BY <1>3, <2>1 DEF Separated
<1>5. \A a, b \in D : a = b
  BY <1>1, <1>4 DEF Separated
<1>6. ASSUME NEW d \in D, NEW j \in 1 .. Len(p), Carries(p[j]), p[j].sess # d
      PROVE  Sentinel(p, 1, j - 1)
  <2>1. j + 1 \in 1 .. Len(q) /\ p[j] = q[j + 1] /\ (j + 1) - 1 = j
    BY <1>1
  <2>2. CASE d \in C
    <3>1. Sentinel(q, 1, j)
      BY <1>6, <2>1, <2>2 DEF Separated
    <3> QED
      BY <1>1, <1>2, <2>1, <3>1
  <2>3. CASE Carries(q[1]) /\ d = q[1].sess
    <3>1. 1 \in 1 .. Len(q) /\ 1 < j + 1 /\ 1 + 1 = 2
      BY <1>1
    <3>2. Sentinel(q, 2, j)
      BY <1>6, <2>1, <2>3, <3>1 DEF Separated
    <3>3. Sentinel(p, 2 - 1, j - 1)
      BY <1>1, <1>2, <2>1, <3>2
    <3> QED
      BY <3>3
  <2> QED
    BY <1>1, <2>2, <2>3
<1>7. ASSUME NEW i \in 1 .. Len(p), NEW j \in 1 .. Len(p), i < j,
             Carries(p[i]), Carries(p[j]), p[i].sess # p[j].sess
      PROVE  Sentinel(p, i + 1, j - 1)
  <2>1. /\ i + 1 \in 1 .. Len(q) /\ j + 1 \in 1 .. Len(q) /\ i + 1 < j + 1
        /\ p[i] = q[i + 1] /\ p[j] = q[j + 1]
    BY <1>1, <1>7
  <2>2. Sentinel(q, (i + 1) + 1, (j + 1) - 1)
    BY <1>7, <2>1 DEF Separated
  <2>3. Sentinel(p, ((i + 1) + 1) - 1, ((j + 1) - 1) - 1)
    BY <1>2, <2>1, <2>2
  <2>4. ((i + 1) + 1) - 1 = i + 1 /\ ((j + 1) - 1) - 1 = j - 1
    OBVIOUS
  <2> QED
    BY <2>3, <2>4
<1>8. Separated(p, D)
  BY <1>5, <1>6, <1>7 DEF Separated
<1> QED
  BY <1>8 DEF p

LEMMA TailClosed ==
  ASSUME NEW q \in Seq(Messages), q # <<>>, Head(q).type # "reset",
         NEW C, NEW D, NEW x, ClosedFor(q, C, x),
         \A d \in D : d \in C \/ (Carries(Head(q)) /\ d = Head(q).sess)
  PROVE  ClosedFor(Tail(q), D, x)
<1> DEFINE p == Tail(q)
<1>1. /\ Len(q) \in Nat \ {0} /\ Len(p) = Len(q) - 1
      /\ Head(q) = q[1]
      /\ \A i \in 1 .. Len(p) : p[i] = q[i + 1]
  BY TailAt
<1>2. ASSUME NEW i \in Nat \ {0}, Sentinel(q, i, Len(q))
      PROVE  /\ i > 1 => Sentinel(p, i - 1, Len(p))
             /\ i = 1 => Sentinel(p, 1, Len(p))
  BY <1>1, <1>2, SentinelTail
<1> HIDE DEF p
<1>3. ASSUME NEW d \in D, d # x PROVE Sentinel(p, 1, Len(p))
  <2>1. CASE d \in C
    BY <1>2, <1>3, <2>1 DEF ClosedFor
  <2>2. CASE Carries(q[1]) /\ d = q[1].sess
    <3>1. 1 \in 1 .. Len(q) /\ 1 + 1 = 2 /\ 2 - 1 = 1
      BY <1>1
    <3>2. Sentinel(q, 2, Len(q))
      BY <1>3, <2>2, <3>1 DEF ClosedFor
    <3> QED
      BY <1>2, <3>1, <3>2
  <2> QED
    BY <1>1, <2>1, <2>2
<1>4. ASSUME NEW i \in 1 .. Len(p), Carries(p[i]), p[i].sess # x
      PROVE  Sentinel(p, i + 1, Len(p))
  <2>1. i + 1 \in 1 .. Len(q) /\ p[i] = q[i + 1] /\ ((i + 1) + 1) - 1 = i + 1
    BY <1>1
  <2>2. Sentinel(q, (i + 1) + 1, Len(q))
    BY <1>4, <2>1 DEF ClosedFor
  <2>3. Sentinel(p, ((i + 1) + 1) - 1, Len(p))
    BY <1>2, <2>1, <2>2
  <2> QED
    BY <2>1, <2>3
<1>5. ClosedFor(p, D, x)
  BY <1>3, <1>4 DEF ClosedFor
<1> QED
  BY <1>5 DEF p

\* A shard that handles a sentinel shows no session at all.
LEMMA TailReset ==
  ASSUME NEW q \in Seq(Messages), q # <<>>, NEW C
  PROVE  /\ Separated(q, C) => Separated(Tail(q), {})
         /\ \A x : ClosedFor(q, C, x) => ClosedFor(Tail(q), {}, x)
<1> DEFINE p == Tail(q)
<1>1. /\ Len(q) \in Nat \ {0} /\ Len(p) = Len(q) - 1
      /\ \A i \in 1 .. Len(p) : p[i] = q[i + 1]
  BY TailAt
<1>2. ASSUME NEW i \in 1 .. Len(p), NEW j \in Int, j <= Len(q),
             Sentinel(q, (i + 1) + 1, j)
      PROVE  Sentinel(p, i + 1, j - 1)
  <2>1. Sentinel(p, ((i + 1) + 1) - 1, j - 1)
    BY <1>1, <1>2, SentinelTail
  <2> QED
    BY <2>1
<1> HIDE DEF p
<1>3. ASSUME Separated(q, C), NEW i \in 1 .. Len(p), NEW j \in 1 .. Len(p), i < j,
             Carries(p[i]), Carries(p[j]), p[i].sess # p[j].sess
      PROVE  Sentinel(p, i + 1, j - 1)
  <2>1. /\ i + 1 \in 1 .. Len(q) /\ j + 1 \in 1 .. Len(q) /\ i + 1 < j + 1
        /\ p[i] = q[i + 1] /\ p[j] = q[j + 1] /\ (j + 1) - 1 = j
    BY <1>1, <1>3
  <2>2. Sentinel(q, (i + 1) + 1, j)
    BY <1>3, <2>1 DEF Separated
  <2> QED
    BY <1>2, <2>1, <2>2
<1>4. ASSUME NEW x, ClosedFor(q, C, x), NEW i \in 1 .. Len(p), Carries(p[i]),
             p[i].sess # x
      PROVE  Sentinel(p, i + 1, Len(p))
  <2>1. i + 1 \in 1 .. Len(q) /\ p[i] = q[i + 1] /\ Len(q) - 1 = Len(p)
    BY <1>1
  <2>2. Sentinel(q, (i + 1) + 1, Len(q))
    BY <1>4, <2>1 DEF ClosedFor
  <2> QED
    BY <1>1, <1>2, <2>1, <2>2
<1>5. (Separated(q, C) => Separated(p, {})) /\ \A x : ClosedFor(q, C, x) => ClosedFor(p, {}, x)
  BY <1>3, <1>4 DEF Separated, ClosedFor
<1> QED
  BY <1>5 DEF p

LEMMA PushedKeeps ==
  ASSUME NEW q \in Seq(Messages), NEW m \in Messages, NEW s,
         OwnOrders(q, s), m.type \in {"add", "other"} => shard_for_locate(m.loc) = s
  PROVE  Pushed(q, m) \in Seq(Messages) /\ OwnOrders(Pushed(q, m), s)
<1>1. Append(q, m) \in Seq(Messages)
  OBVIOUS
<1>2. OwnOrders(Append(q, m), s)
  <2> SUFFICES ASSUME NEW j \in 1 .. Len(Append(q, m)),
                      Append(q, m)[j].type \in {"add", "other"}
               PROVE  shard_for_locate(Append(q, m)[j].loc) = s
    BY DEF OwnOrders
  <2>1. CASE j = Len(q) + 1
    BY <2>1, AppendAt
  <2>2. CASE j # Len(q) + 1
    <3>1. j \in 1 .. Len(q) /\ Append(q, m)[j] = q[j]
      BY <2>2, AppendAt
    <3> QED
      BY <3>1 DEF OwnOrders
  <2> QED
    BY <2>1, <2>2
<1> QED
  BY <1>1, <1>2 DEF Pushed

LEMMA PushedApart ==
  ASSUME NEW q \in Seq(Messages), NEW m \in Messages, NEW C, NEW x,
         Separated(q, C), ClosedFor(q, C, x), Carries(m) => m.sess = x
  PROVE  Separated(Pushed(q, m), C) /\ ClosedFor(Pushed(q, m), C, x)
<1>1. Separated(Append(q, m), C)
  <2>1. Carries(m) => ClosedFor(q, C, m.sess)
    OBVIOUS
  <2> QED
    BY <2>1, AppendSeparated
<1>2. ClosedFor(Append(q, m), C, x)
  BY AppendClosed
<1> QED
  BY <1>1, <1>2 DEF Pushed

-----------------------------------------------------------------------------
(* The parser. *)

LEMMA InitShard == Init => ShardInv
<1> SUFFICES ASSUME Init PROVE ShardInv
  OBVIOUS
<1>1. <<>> \in Seq(Messages) /\ 0 \in SessionIds
  BY SessionBounds DEF SessionIds
<1>2. Types
  BY <1>1 DEF Init, Types
<1>3. ParserInv
  BY DEF Init, ParserInv
<1>4. \A s \in Shards, i \in Slabs :
        queue[s] = <<>> /\ books[s][i] = {} /\ status[s][i] = 0
  BY DEF Init
<1>5. \A s \in Shards, i \in Slabs : Marks(s, i) = {}
  BY <1>4 DEF Marks
<1>6. \A s \in Shards : OwnOrders(queue[s], s)
  BY <1>4 DEF Init, OwnOrders
<1>7. Separated(<<>>, {}) /\ ClosedFor(<<>>, {}, xsess)
  BY DEF Separated, ClosedFor
<1>8. \A s \in Shards, i \in Slabs : BookInv(s, i) /\ Apart(s, i)
  BY <1>4, <1>5, <1>7, Zenon DEF BookInv, Apart
<1> QED
  BY <1>2, <1>3, <1>6, <1>8 DEF ShardInv

\* When the sentinels of the session have been pushed, pushing messages of that
\* session, or of none, to some of the queues keeps the invariant.
LEMMA RoutingKeeps ==
  ASSUME ShardInv, NEW m \in Messages, Carries(m) => m.sess = xsess,
         \A s \in Shards : ~ Awaits(s) /\ ~ Awaits(s)',
         queue' \in [Shards -> Seq(Messages)],
         \A s \in Shards :
           \/ queue'[s] = queue[s]
           \/ /\ queue'[s] = Pushed(queue[s], m)
              /\ m.type \in {"add", "other"} => shard_for_locate(m.loc) = s,
         UNCHANGED <<xsess, left, missed, shardVars>>, ParserInv'
  PROVE  ShardInv'
<1>1. Types'
  BY DEF ShardInv, Types, shardVars
<1>2. ASSUME NEW s \in Shards PROVE OwnOrders(queue'[s], s)
  BY PushedKeeps DEF ShardInv, Types
<1>3. ASSUME NEW s \in Shards, NEW i \in Slabs PROVE Marks(s, i)' = Marks(s, i)
  BY DEF Marks, shardVars
<1>4. ASSUME NEW s \in Shards, NEW i \in Slabs PROVE BookInv(s, i)'
  <2>1. BookInv(s, i)
    BY DEF ShardInv
  <2> QED
    BY <1>3, <2>1 DEF BookInv, shardVars
<1>5. ASSUME NEW s \in Shards, NEW i \in Slabs PROVE Apart(s, i)'
  <2> SUFFICES ASSUME s \notin missed
               PROVE  /\ Separated(queue'[s], Marks(s, i))
                      /\ ClosedFor(queue'[s], Marks(s, i), xsess)
    BY <1>3 DEF Apart
  <2>1. Separated(queue[s], Marks(s, i)) /\ ClosedFor(queue[s], Marks(s, i), xsess)
    BY DEF ShardInv, Apart
  <2>2. queue[s] \in Seq(Messages)
    BY DEF ShardInv, Types
  <2> QED
    BY <2>1, <2>2, PushedApart
<1> QED
  BY <1>1, <1>2, <1>4, <1>5 DEF ShardInv

LEMMA ShardOf ==
  ASSUME NEW loc \in Locates
  PROVE  /\ shard_for_locate(loc) \in Shards /\ SlabIndex(loc) \in Slabs
         /\ loc = SlabIndex(loc) * NumShards + shard_for_locate(loc)
<1>1. loc \in Nat /\ NumShards \in Nat \ {0}
  BY ShardsAssumption
<1>2. loc % NumShards \in 0 .. NumShards - 1
  BY <1>1
<1>3. loc \div NumShards \in Nat /\ loc = NumShards * (loc \div NumShards) + (loc % NumShards)
  BY <1>1
<1>4. NumShards * (loc \div NumShards) = (loc \div NumShards) * NumShards
  BY <1>1, <1>3
<1>5. SlabIndex(loc) \in Slabs
  BY DEF Slabs
<1> QED
  BY <1>2, <1>3, <1>4, <1>5 DEF shard_for_locate, SlabIndex, Shards

LEMMA ParseMessageKeeps ==
  ASSUME ShardInv, NEW m \in Messages, m.type \notin {"reset", "event"},
         m.loc \in Locates, Carries(m) => m.sess = xsess, ParseMessage(m)
  PROVE  ShardInv'
<1>1. ppc = "ready" /\ UNCHANGED <<ppc, session, xsess, left, missed, shardVars>>
  BY DEF ParseMessage, NextPacket
<1>2. ParserInv'
  BY <1>1 DEF ShardInv, ParserInv
<1>3. \A s \in Shards : ~ Awaits(s) /\ ~ Awaits(s)'
  BY <1>1 DEF Awaits
<1>4. ASSUME NEW s \in Shards PROVE queue[s] \in Seq(Messages) /\ OwnOrders(queue[s], s)
  BY DEF ShardInv, Types
<1>5. CASE m.type \in {"directory", "action"}
  <2>1. queue' = [s \in Shards |-> Pushed(queue[s], m)]
    BY <1>5 DEF ParseMessage, route, broadcast
  <2>2. \A s \in Shards : Pushed(queue[s], m) \in Seq(Messages)
    BY <1>4, <1>5, PushedKeeps
  <2> QED
    BY <1>1, <1>2, <1>3, <1>5, <2>1, <2>2, RoutingKeeps
<1>6. CASE m.type \notin {"directory", "action"}
  <2> DEFINE t == shard_for_locate(m.loc)
  <2>1. t \in Shards
    BY ShardOf
  <2>2. queue' = [queue EXCEPT ![t] = Pushed(@, m)]
    BY <1>6 DEF ParseMessage, route
  <2> HIDE DEF t
  <2>3. Pushed(queue[t], m) \in Seq(Messages)
    BY <1>4, <2>1, PushedKeeps DEF t
  <2>4. queue' \in [Shards -> Seq(Messages)]
    BY <2>1, <2>2, <2>3 DEF ShardInv, Types
  <2>5. \A s \in Shards : queue'[s] = queue[s] \/ (queue'[s] = Pushed(queue[s], m) /\ s = t)
    BY <2>1, <2>2 DEF ShardInv, Types
  <2> QED
    BY <1>1, <1>2, <1>3, <2>4, <2>5, RoutingKeeps DEF t
<1> QED
  BY <1>5, <1>6

\* A step of the parser that pushes nothing, and after which s awaits the
\* sentinel or did not before.
LEMMA QuietKeeps ==
  ASSUME ShardInv, UNCHANGED <<queue, missed, shardVars>>, ParserInv', xsess' \in SessionIds,
         left' \subseteq Shards,
         \A s \in Shards : Awaits(s)' \/ (~ Awaits(s) /\ xsess' = xsess)
  PROVE  ShardInv'
<1>1. Types'
  BY DEF ShardInv, Types, shardVars
<1>2. ASSUME NEW s \in Shards, NEW i \in Slabs PROVE Marks(s, i)' = Marks(s, i)
  BY DEF Marks, shardVars
<1>3. ASSUME NEW s \in Shards, NEW i \in Slabs PROVE BookInv(s, i)'
  <2>1. BookInv(s, i)
    BY DEF ShardInv
  <2> QED
    BY <1>2, <2>1 DEF BookInv, shardVars
<1>4. ASSUME NEW s \in Shards, NEW i \in Slabs PROVE Apart(s, i)'
  <2>1. Apart(s, i)
    BY DEF ShardInv
  <2>2. CASE Awaits(s)'
    BY <1>2, <2>1, <2>2 DEF Apart
  <2>3. CASE ~ Awaits(s) /\ xsess' = xsess
    BY <1>2, <2>1, <2>3 DEF Apart
  <2> QED
    BY <2>2, <2>3
<1>5. \A s \in Shards : OwnOrders(queue'[s], s)
  BY DEF ShardInv
<1> QED
  BY <1>1, <1>3, <1>4, <1>5 DEF ShardInv

LEMMA ParseKeeps == ShardInv /\ Parse => ShardInv'
<1> SUFFICES ASSUME ShardInv, Parse PROVE ShardInv'
  OBVIOUS
<1>0. xsess \in SessionIds /\ left \subseteq Shards
  BY DEF ShardInv, Types
<1>1. ASSUME NEW loc \in Locates, ParseDirectory(loc) PROVE ShardInv'
  <2> DEFINE m == [type |-> "directory", loc |-> loc]
  <2>1. m \in Messages /\ m.type = "directory" /\ m.loc \in Locates
    BY DEF Messages
  <2>2. ParseMessage(m)
    BY <1>1 DEF ParseDirectory
  <2> HIDE DEF m
  <2> QED
    BY <2>1, <2>2, ParseMessageKeeps DEF Carries
<1>2. ASSUME NEW loc \in Locates, NEW t \in {"action", "add", "other"},
             ParseMessage([type |-> t, loc |-> loc, sess |-> xsess])
      PROVE  ShardInv'
  <2>1. PICK m \in Messages : m = [type |-> t, loc |-> loc, sess |-> xsess]
    BY <1>0, Zenon DEF Messages
  <2>2. m.type = t /\ m.loc = loc /\ m.sess = xsess /\ ParseMessage(m)
    BY <1>2, <2>1
  <2> QED
    BY <2>2, ParseMessageKeeps
<1>3. ASSUME NEW n \in SessionIds, NEW code \in Codes, ParseEvent(n, code) PROVE ShardInv'
  <2>1. /\ ppc = "ready" /\ ppc' = "event" /\ xsess' = n
        /\ UNCHANGED <<session, left, missed, queue, shardVars>>
    BY <1>3 DEF ParseEvent, NextPacket, sessionVars
  <2>2. session = xsess
    BY <2>1 DEF ShardInv, ParserInv
  <2>3. ParserInv'
    BY <2>1 DEF ParserInv
  <2>4. \A s \in Shards : Awaits(s)' \/ (~ Awaits(s) /\ xsess' = xsess)
    BY <2>1, <2>2 DEF Awaits
  <2> QED
    BY <1>0, <2>1, <2>3, <2>4, QuietKeeps
<1>4. xsess < MaxSessions => xsess + 1 \in SessionIds
  BY <1>0, SessionBounds DEF SessionIds
<1> QED
  BY <1>0, <1>1, <1>2, <1>3, <1>4, Zenon DEF Parse, ParseAction, ParseOrder

LEMMA BroadcastKeeps ==
  ASSUME ShardInv, BroadcastReset
  PROVE  ShardInv'
<1>1. PICK s \in left :
        /\ queue' = [queue EXCEPT ![s] = Pushed(@, [type |-> "reset"])]
        /\ missed' = IF Len(queue[s]) < QueueDepth THEN missed ELSE missed \cup {s}
        /\ left' = left \ {s}
        /\ ppc' = IF left = {s} THEN "unknown" ELSE "broadcast"
  BY Zenon DEF BroadcastReset
<1>2. ppc = "broadcast" /\ UNCHANGED <<xsess, session, shardVars>>
  BY DEF BroadcastReset, exchangeVars, sessionVars
<1>3. s \in Shards /\ queue[s] \in Seq(Messages) /\ OwnOrders(queue[s], s)
  BY DEF ShardInv, Types
<1>4. PICK m \in Messages : m = [type |-> "reset"]
  BY Zenon DEF Messages
<1>5. m.type = "reset" /\ ~ Carries(m) /\ queue' = [queue EXCEPT ![s] = Pushed(@, m)]
  BY <1>1, <1>4 DEF Carries
<1>6. Pushed(queue[s], m) \in Seq(Messages) /\ OwnOrders(Pushed(queue[s], m), s)
  BY <1>3, <1>5, PushedKeeps
<1>7. /\ queue' \in [Shards -> Seq(Messages)] /\ queue'[s] = Pushed(queue[s], m)
      /\ \A t \in Shards \ {s} : queue'[t] = queue[t]
  BY <1>3, <1>5, <1>6 DEF ShardInv, Types
<1>8. Types' /\ ParserInv'
  BY <1>1, <1>2, <1>7 DEF ShardInv, Types, ParserInv, shardVars
<1>9. \A t \in Shards : OwnOrders(queue'[t], t)
  BY <1>6, <1>7 DEF ShardInv
<1>10. ASSUME NEW t \in Shards, NEW i \in Slabs PROVE Marks(t, i)' = Marks(t, i)
  BY <1>2 DEF Marks, shardVars
<1>11. ASSUME NEW t \in Shards, NEW i \in Slabs PROVE BookInv(t, i)'
  <2>1. BookInv(t, i)
    BY DEF ShardInv
  <2> QED
    BY <1>2, <1>10, <2>1 DEF BookInv, shardVars
<1>12. ASSUME NEW i \in Slabs PROVE Apart(s, i)'
  <2> SUFFICES ASSUME s \notin missed'
               PROVE  /\ Separated(queue'[s], Marks(s, i))
                      /\ ClosedFor(queue'[s], Marks(s, i), xsess)
    BY <1>2, <1>10, <1>3 DEF Apart
  <2>1. s \notin missed /\ queue'[s] = Append(queue[s], m)
    BY <1>1, <1>7, Zenon DEF Pushed
  <2>2. Separated(queue[s], Marks(s, i))
    BY <1>3, <2>1 DEF ShardInv, Apart
  <2> QED
    BY <1>3, <1>5, <2>1, <2>2, AppendSeparated, AppendReset, Zenon
<1>13. ASSUME NEW t \in Shards \ {s}, NEW i \in Slabs PROVE Apart(t, i)'
  <2>1. Apart(t, i) /\ queue'[t] = queue[t] /\ (t \notin missed' => t \notin missed)
    BY <1>1, <1>7 DEF ShardInv
  <2>2. ~ Awaits(t)' => ~ Awaits(t)
    BY <1>1, <1>2 DEF Awaits
  <2> QED
    BY <1>2, <1>10, <2>1, <2>2 DEF Apart
<1> QED
  BY <1>8, <1>9, <1>11, <1>12, <1>13 DEF ShardInv

LEMMA HandleEventKeeps == ShardInv /\ HandleEvent => ShardInv'
<1> SUFFICES ASSUME ShardInv, HandleEvent PROVE ShardInv'
  OBVIOUS
<1>0. xsess \in SessionIds /\ left \subseteq Shards /\ ParserInv
  BY DEF ShardInv, Types
<1>1. CASE reset_session
  <2>1. /\ ppc' = "broadcast" /\ session' = xsess /\ left' = Shards
        /\ UNCHANGED <<xsess, missed, queue, shardVars>>
    BY <1>1 DEF reset_session, exchangeVars
  <2>2. ParserInv' /\ \A s \in Shards : Awaits(s)'
    BY <2>1 DEF ParserInv, Awaits
  <2> QED
    BY <1>0, <2>1, <2>2, QuietKeeps
<1>2. CASE BroadcastReset
  BY <1>2, BroadcastKeeps
<1>3. CASE StoreUnknown
  <2>1. /\ ppc = "unknown" /\ ppc' = "event"
        /\ UNCHANGED <<xsess, session, left, missed, queue, shardVars>>
    BY <1>3 DEF StoreUnknown, exchangeVars
  <2>2. ParserInv' /\ \A s \in Shards : ~ Awaits(s)
    BY <1>0, <2>1 DEF ParserInv, Awaits
  <2> QED
    BY <1>0, <2>1, <2>2, QuietKeeps
<1>4. CASE on_system_event
  <2>1. /\ ppc = "event" /\ session = xsess /\ ppc' = "ready"
        /\ UNCHANGED <<xsess, session, left, missed, shardVars>>
    BY <1>4 DEF on_system_event, exchangeVars
  <2>2. PICK m \in Messages : m = [type |-> "event"]
    BY Zenon DEF Messages
  <2>3. m.type = "event" /\ ~ Carries(m) /\ queue' = [s \in Shards |-> Pushed(queue[s], m)]
    BY <1>4, <2>2 DEF Carries, on_system_event, broadcast
  <2>4. \A s \in Shards : Pushed(queue[s], m) \in Seq(Messages)
    BY <2>3, PushedKeeps, Zenon DEF ShardInv, Types
  <2>5. ParserInv' /\ \A s \in Shards : ~ Awaits(s) /\ ~ Awaits(s)'
    BY <2>1 DEF ParserInv, Awaits
  <2> QED
    BY <2>1, <2>3, <2>4, <2>5, RoutingKeeps
<1> QED
  BY <1>1, <1>2, <1>3, <1>4 DEF HandleEvent

-----------------------------------------------------------------------------
(* The shard workers. *)

\* What a shard's step may do: change its own books only, and have each show
\* no session, or that of the message besides those it shows already.
BookTypes ==
  /\ active \in [Shards -> SUBSET Slabs]
  /\ books \in [Shards -> [Slabs -> SUBSET Tags]]
  /\ status \in [Shards -> [Slabs -> SessionIds]]

OthersKept(s) ==
  \A t \in Shards \ {s} :
    active'[t] = active[t] /\ books'[t] = books[t] /\ status'[t] = status[t]

ShowsAtMost(m, C, D) ==
  \/ D = {}
  \/ m.type # "reset" /\ \A d \in D : d \in C \/ (Carries(m) /\ d = m.sess)

LEMMA ShownApart ==
  ASSUME NEW q \in Seq(Messages), q # <<>>, NEW C, NEW D, ShowsAtMost(Head(q), C, D)
  PROVE  /\ Separated(q, C) => Separated(Tail(q), D)
         /\ \A x : ClosedFor(q, C, x) => ClosedFor(Tail(q), D, x)
<1>1. CASE D = {}
  BY <1>1, TailReset
<1>2. CASE D # {}
  <2>1. /\ Head(q).type # "reset"
        /\ \A d \in D : d \in C \/ (Carries(Head(q)) /\ d = Head(q).sess)
    BY <1>2 DEF ShowsAtMost
  <2> QED
    BY <2>1, TailSeparated, TailClosed
<1> QED
  BY <1>1, <1>2

LEMMA OwnTail ==
  ASSUME NEW q \in Seq(Messages), q # <<>>, NEW s, OwnOrders(q, s)
  PROVE  OwnOrders(Tail(q), s)
<1>1. ASSUME NEW j \in 1 .. Len(Tail(q))
      PROVE  j + 1 \in 1 .. Len(q) /\ Tail(q)[j] = q[j + 1]
  BY TailAt
<1> QED
  BY <1>1 DEF OwnOrders

LEMMA TakeKeeps ==
  ASSUME ShardInv, NEW s \in Shards, NEW types, Take(s, types), BookTypes', OthersKept(s),
         \A i \in Slabs :
           BookInv(s, i)' /\ ShowsAtMost(Head(queue[s]), Marks(s, i), Marks(s, i)')
  PROVE  ShardInv'
<1>1. /\ queue[s] \in Seq(Messages) /\ queue[s] # <<>>
      /\ queue' = [queue EXCEPT ![s] = Tail(@)]
      /\ UNCHANGED <<xsess, session, ppc, left, missed>>
  BY DEF Take, ShardInv, Types, exchangeVars, sessionVars, parserVars
<1>2. Tail(queue[s]) \in Seq(Messages)
  BY <1>1
<1>3. /\ queue' \in [Shards -> Seq(Messages)] /\ queue'[s] = Tail(queue[s])
      /\ \A t \in Shards \ {s} : queue'[t] = queue[t]
  BY <1>1, <1>2 DEF ShardInv, Types
<1>4. Types' /\ ParserInv'
  BY <1>1, <1>3 DEF ShardInv, Types, BookTypes, ParserInv
<1>5. \A t \in Shards : OwnOrders(queue'[t], t)
  <2>1. OwnOrders(Tail(queue[s]), s)
    BY <1>1, OwnTail DEF ShardInv
  <2> QED
    BY <1>3, <2>1, Zenon DEF ShardInv
<1>6. \A t \in Shards : Awaits(t)' <=> Awaits(t)
  BY <1>1 DEF Awaits
<1>7. ASSUME NEW t \in Shards \ {s}, NEW i \in Slabs PROVE BookInv(t, i)' /\ Apart(t, i)'
  <2>1. BookInv(t, i) /\ Apart(t, i)
    BY DEF ShardInv
  <2>2. active'[t] = active[t] /\ books'[t] = books[t] /\ status'[t] = status[t]
    BY DEF OthersKept
  <2>3. Marks(t, i)' = Marks(t, i)
    BY <2>2 DEF Marks
  <2> QED
    BY <1>1, <1>3, <1>6, <2>1, <2>2, <2>3, SMTT(30) DEF BookInv, Apart
<1>8. ASSUME NEW i \in Slabs PROVE Apart(s, i)'
  <2>1. Apart(s, i)
    BY DEF ShardInv
  <2>2. /\ Separated(queue[s], Marks(s, i)) => Separated(Tail(queue[s]), Marks(s, i)')
        /\ ClosedFor(queue[s], Marks(s, i), xsess)
             => ClosedFor(Tail(queue[s]), Marks(s, i)', xsess)
    BY <1>1, ShownApart, Zenon
  <2> QED
    BY <1>1, <1>3, <1>6, <2>1, <2>2 DEF Apart
<1> QED
  BY <1>4, <1>5, <1>7, <1>8, SMTT(30) DEF ShardInv

LEMMA DispatchResetKeeps ==
  ASSUME ShardInv, NEW s \in Shards, DispatchReset(s)
  PROVE  ShardInv'
<1>1. Take(s, {"reset"}) /\ clear_all_books(s)
  BY DEF DispatchReset
<1>2. 0 \in SessionIds
  BY SessionBounds DEF SessionIds
<1>3. /\ active' \in [Shards -> SUBSET Slabs]
      /\ books' \in [Shards -> [Slabs -> SUBSET Tags]]
      /\ status' \in [Shards -> [Slabs -> SessionIds]]
      /\ \A t \in Shards \ {s} :
           active'[t] = active[t] /\ books'[t] = books[t] /\ status'[t] = status[t]
  BY <1>1, <1>2 DEF clear_all_books, ShardInv, Types
<1>4. ASSUME NEW i \in Slabs PROVE BookInv(s, i)' /\ Marks(s, i)' = {}
  <2>1. BookInv(s, i)
    BY DEF ShardInv
  <2>2. CASE i \in active[s]
    <3>1. books'[s][i] = {} /\ status'[s][i] = 0
      BY <1>1, <2>2 DEF clear_all_books, ShardInv, Types
    <3> QED
      BY <3>1 DEF BookInv, Marks
  <2>3. CASE i \notin active[s]
    <3>1. books'[s][i] = books[s][i] /\ status'[s][i] = status[s][i]
      BY <1>1, <2>3 DEF clear_all_books, ShardInv, Types
    <3> QED
      BY <2>1, <2>3, <3>1, SMTT(30) DEF BookInv, Marks
  <2> QED
    BY <2>2, <2>3
<1>5. BookTypes' /\ OthersKept(s)
  BY <1>3 DEF BookTypes, OthersKept
<1>6. \A i \in Slabs : ShowsAtMost(Head(queue[s]), Marks(s, i), Marks(s, i)')
  BY <1>4 DEF ShowsAtMost
<1> QED
  BY <1>1, <1>4, <1>5, <1>6, TakeKeeps

LEMMA DispatchQuietKeeps ==
  ASSUME ShardInv, NEW s \in Shards, DispatchEvent(s) \/ DispatchDirectory(s)
  PROVE  ShardInv'
<1>1. Take(s, {"event", "directory"}) /\ UNCHANGED <<books, status>>
  BY DEF DispatchEvent, DispatchDirectory, Take, shardVars
<1>2. queue[s] \in Seq(Messages) /\ queue[s] # <<>> /\ Head(queue[s]) \in Messages
  BY <1>1 DEF Take, ShardInv, Types
<1>3. Head(queue[s]).type = "directory" => Head(queue[s]).loc \in Locates
  BY <1>2, SMTT(30) DEF Messages
<1>4. /\ active' \in [Shards -> SUBSET Slabs] /\ active[s] \subseteq active'[s]
      /\ \A t \in Shards \ {s} : active'[t] = active[t]
  <2>1. CASE DispatchEvent(s)
    BY <2>1 DEF DispatchEvent, shardVars, ShardInv, Types
  <2>2. CASE DispatchDirectory(s)
    <3>1. SlabIndex(Head(queue[s]).loc) \in Slabs
      BY <1>3, <2>2, ShardOf, SMTT(30) DEF DispatchDirectory, Take
    <3> QED
      BY <2>2, <3>1, SMTT(30) DEF DispatchDirectory, ShardInv, Types
  <2> QED
    BY <2>1, <2>2
<1>5. ASSUME NEW i \in Slabs PROVE BookInv(s, i)' /\ Marks(s, i)' = Marks(s, i)
  <2>1. BookInv(s, i)
    BY DEF ShardInv
  <2>2. Marks(s, i)' = Marks(s, i)
    BY <1>1 DEF Marks
  <2> QED
    BY <1>1, <1>4, <2>1, <2>2, SMTT(30) DEF BookInv
<1>6. Head(queue[s]).type # "reset"
  BY <1>1 DEF Take
<1>7. books \in [Shards -> [Slabs -> SUBSET Tags]] /\ status \in [Shards -> [Slabs -> SessionIds]]
  BY DEF ShardInv, Types
<1>8. BookTypes' /\ OthersKept(s)
  BY <1>1, <1>4, <1>7, SMTT(30) DEF BookTypes, OthersKept
<1>9. \A i \in Slabs : ShowsAtMost(Head(queue[s]), Marks(s, i), Marks(s, i)')
  BY <1>5, <1>6 DEF ShowsAtMost
<1> QED
  BY <1>1, <1>5, <1>8, <1>9, TakeKeeps

LEMMA DispatchActionKeeps ==
  ASSUME ShardInv, NEW s \in Shards, DispatchAction(s)
  PROVE  ShardInv'
<1> DEFINE m == Head(queue[s])
           k == SlabIndex(m.loc)
<1>1. Take(s, {"action"}) /\ UNCHANGED <<active, books>>
  BY DEF DispatchAction
<1>2. m \in Messages /\ m.type = "action"
  BY <1>1 DEF Take, ShardInv, Types
<1>3. m.loc \in Locates /\ m.sess \in SessionIds /\ Carries(m)
  BY <1>2 DEF Messages, Carries
<1>4. k \in Slabs
  BY <1>3, ShardOf
<1>5. status' = [status EXCEPT ![s][k] = IF k \in active[s] THEN m.sess ELSE @]
  BY DEF DispatchAction
<1> HIDE DEF m, k
<1>6. /\ status' \in [Shards -> [Slabs -> SessionIds]]
      /\ \A t \in Shards \ {s} : status'[t] = status[t]
      /\ \A i \in Slabs : \/ status'[s][i] = status[s][i]
                          \/ i \in active[s] /\ status'[s][i] = m.sess
  BY <1>3, <1>4, <1>5 DEF ShardInv, Types
<1>7. ASSUME NEW i \in Slabs
      PROVE  /\ BookInv(s, i)'
             /\ \A d \in Marks(s, i)' : d \in Marks(s, i) \/ d = m.sess
  <2>1. BookInv(s, i)
    BY DEF ShardInv
  <2>2. CASE status'[s][i] = status[s][i]
    BY <1>1, <2>1, <2>2 DEF BookInv, Marks
  <2>3. CASE i \in active[s] /\ status'[s][i] = m.sess
    BY <1>1, <2>1, <2>3 DEF BookInv, Marks
  <2> QED
    BY <1>6, <2>2, <2>3, SMTT(30)
<1>8. active \in [Shards -> SUBSET Slabs] /\ books \in [Shards -> [Slabs -> SUBSET Tags]]
  BY DEF ShardInv, Types
<1>9. BookTypes' /\ OthersKept(s)
  BY <1>1, <1>6, <1>8 DEF BookTypes, OthersKept
<1>10. \A i \in Slabs : ShowsAtMost(Head(queue[s]), Marks(s, i), Marks(s, i)')
  BY <1>2, <1>3, <1>7 DEF ShowsAtMost, m
<1> QED
  BY <1>1, <1>7, <1>9, <1>10, TakeKeeps

LEMMA DispatchOrderKeeps ==
  ASSUME ShardInv, NEW s \in Shards, DispatchOrder(s)
  PROVE  ShardInv'
<1> DEFINE m == Head(queue[s])
           k == SlabIndex(m.loc)
           tag == [loc |-> m.loc, sess |-> m.sess]
<1>1. Take(s, {"add", "other"}) /\ UNCHANGED status
  BY SMTT(30) DEF DispatchOrder
<1>2. queue[s] \in Seq(Messages) /\ queue[s] # <<>> /\ m.type \in {"add", "other"}
  BY <1>1 DEF Take, ShardInv, Types
<1>3. m \in Messages
  BY <1>2
<1>4. m.loc \in Locates /\ m.sess \in SessionIds /\ Carries(m)
  BY <1>2, <1>3 DEF Messages, Carries
<1>5. k \in Slabs /\ m.loc = k * NumShards + s
  <2>1. 1 \in 1 .. Len(queue[s]) /\ queue[s][1] = m
    BY <1>2
  <2>2. shard_for_locate(m.loc) = s
    BY <1>2, <2>1 DEF ShardInv, OwnOrders
  <2> QED
    BY <1>4, <2>2, ShardOf
<1>6. tag \in Tags /\ tag.loc = m.loc /\ tag.sess = m.sess
  BY <1>4 DEF Tags
<1>7. \/ UNCHANGED <<active, books>>
      \/ /\ active' = [active EXCEPT ![s] = @ \cup {k}]
         /\ \/ books' = [books EXCEPT ![s][k] = @ \cup {tag}]
            \/ books' = [books EXCEPT ![s][k] = @]
  BY SMTT(30) DEF DispatchOrder
<1>8. active \in [Shards -> SUBSET Slabs] /\ books \in [Shards -> [Slabs -> SUBSET Tags]]
      /\ status \in [Shards -> [Slabs -> SessionIds]]
  BY DEF ShardInv, Types
<1> HIDE DEF m, k, tag
<1>9. /\ active' \in [Shards -> SUBSET Slabs] /\ active[s] \subseteq active'[s]
      /\ \A t \in Shards \ {s} : active'[t] = active[t]
  BY <1>5, <1>7, <1>8, SMTT(30)
<1>10. /\ books' \in [Shards -> [Slabs -> SUBSET Tags]]
       /\ \A t \in Shards \ {s} : books'[t] = books[t]
  <2>1. books[s][k] \in SUBSET Tags /\ books[s][k] \cup {tag} \in SUBSET Tags
    BY <1>5, <1>6, <1>8
  <2>2. CASE books' = [books EXCEPT ![s][k] = @ \cup {tag}]
    BY <1>5, <1>8, <2>1, <2>2
  <2>3. CASE books' = [books EXCEPT ![s][k] = @] \/ books' = books
    BY <1>5, <1>8, <2>1, <2>3
  <2> QED
    BY <1>7, <2>2, <2>3
<1>11. ASSUME NEW i \in Slabs
       PROVE  \/ books'[s][i] = books[s][i]
              \/ i = k /\ k \in active'[s] /\ books'[s][i] = books[s][i] \cup {tag}
  BY <1>5, <1>7, <1>8
<1>12. ASSUME NEW i \in Slabs
       PROVE  /\ BookInv(s, i)'
              /\ \A d \in Marks(s, i)' : d \in Marks(s, i) \/ d = m.sess
  <2>1. BookInv(s, i)
    BY DEF ShardInv
  <2>2. CASE books'[s][i] = books[s][i]
    BY <1>1, <1>9, <2>1, <2>2, SMTT(30) DEF BookInv, Marks
  <2>3. CASE i = k /\ k \in active'[s] /\ books'[s][i] = books[s][i] \cup {tag}
    BY <1>1, <1>5, <1>6, <2>1, <2>3, SMTT(30) DEF BookInv, Marks
  <2> QED
    BY <1>11, <2>2, <2>3, SMTT(30)
<1>13. BookTypes' /\ OthersKept(s)
  BY <1>1, <1>8, <1>9, <1>10 DEF BookTypes, OthersKept
<1>14. \A i \in Slabs : ShowsAtMost(Head(queue[s]), Marks(s, i), Marks(s, i)')
  BY <1>2, <1>4, <1>12, SMTT(30) DEF ShowsAtMost, m
<1> QED
  BY <1>1, <1>12, <1>13, <1>14, TakeKeeps

LEMMA NextShard == ShardInv /\ [Next]_vars => ShardInv'
<1> SUFFICES ASSUME ShardInv, [Next]_vars PROVE ShardInv'
  OBVIOUS
<1>1. CASE Parse
  BY <1>1, ParseKeeps
<1>2. CASE HandleEvent
  BY <1>2, HandleEventKeeps
<1>3. ASSUME NEW s \in Shards, dispatch(s) PROVE ShardInv'
  BY <1>3, DispatchResetKeeps, DispatchQuietKeeps, DispatchActionKeeps, DispatchOrderKeeps
     DEF dispatch
<1>4. CASE UNCHANGED vars
  <2>1. UNCHANGED <<xsess, session, ppc, left, missed, queue, shardVars>>
    BY <1>4 DEF vars, exchangeVars, sessionVars, parserVars
  <2>2. ParserInv' /\ \A s \in Shards : Awaits(s)' <=> Awaits(s)
    BY <2>1 DEF ShardInv, ParserInv, Awaits
  <2>3. xsess' \in SessionIds /\ left' \subseteq Shards
    BY <2>1 DEF ShardInv, Types
  <2> QED
    BY <2>1, <2>2, <2>3, QuietKeeps
<1> QED
  BY <1>1, <1>2, <1>3, <1>4 DEF Next

\* For any number of shards, locate codes and sessions and queues of any depth,
\* no book takes in another's orders, and none of a shard whose queue dropped
\* no sentinel mixes two sessions, however far the shards lag
\* (session_manager.cpp:102-122, shard_worker.cpp:57-75).
THEOREM SessionsStayApart == Spec => []BooksOneSession
<1>1. ShardInv => BooksOneSession
  BY Zenon DEF ShardInv, BookInv, Apart, Separated, Marks, BooksOneSession
<1> QED
  BY <1>1, InitShard, NextShard, PTL DEF Spec

-----------------------------------------------------------------------------
(* The tracker. *)

\* While the parser knows the exchange's session the tracker is at its last
\* packet, or at 0 after the one that announced it.
TrackerInv ==
  /\ num \in Nat /\ tseq \in Nat
  /\ session = xsess => tseq = num \/ (tseq = 0 /\ num = 1)
  /\ session # xsess => num = 1
  /\ GapOnlyAfterReset

GapInv == ShardInv /\ TrackerInv

\* The next packet of the session shows a gap only if it is the second.
LEMMA NextPacketKeeps ==
  ASSUME TrackerInv, NEW n \in SessionIds,
         session = xsess, NextPacket(n, IF n = xsess THEN num + 1 ELSE 1),
         UNCHANGED session
  PROVE  TrackerInv'
<1>1. CASE n = xsess
  BY <1>1 DEF TrackerInv, NextPacket, GapOnlyAfterReset
<1>2. CASE n # xsess
  BY <1>2 DEF TrackerInv, NextPacket, GapOnlyAfterReset
<1> QED
  BY <1>1, <1>2

LEMMA NextTracker == GapInv /\ [Next]_vars => TrackerInv'
<1> SUFFICES ASSUME GapInv, [Next]_vars PROVE TrackerInv'
  OBVIOUS
<1>0. TrackerInv /\ xsess \in SessionIds /\ (ppc # "event" => session = xsess)
  BY DEF GapInv, ShardInv, Types, ParserInv
<1>1. ASSUME NEW m, ParseMessage(m) PROVE TrackerInv'
  <2>1. ppc = "ready" /\ NextPacket(xsess, num + 1) /\ UNCHANGED session
    BY <1>1 DEF ParseMessage, NextPacket
  <2> QED
    BY <1>0, <2>1, NextPacketKeeps
<1>2. ASSUME NEW n \in SessionIds, NEW code, ParseEvent(n, code) PROVE TrackerInv'
  <2>1. ppc = "ready" /\ UNCHANGED session
    BY <1>2 DEF ParseEvent, NextPacket, sessionVars
  <2> QED
    BY <1>0, <1>2, <2>1, NextPacketKeeps DEF ParseEvent
<1>3. xsess < MaxSessions => xsess + 1 \in SessionIds
  BY <1>0, SessionBounds DEF SessionIds
<1>4. CASE Parse
  BY <1>0, <1>1, <1>2, <1>3, <1>4, Zenon
     DEF Parse, ParseDirectory, ParseAction, ParseOrder
<1>5. CASE reset_session
  BY <1>0, <1>5 DEF reset_session, TrackerInv, GapOnlyAfterReset, exchangeVars
<1>6. CASE UNCHANGED <<xsess, num, tseq, gaps, session>>
  BY <1>0, <1>6 DEF TrackerInv, GapOnlyAfterReset
<1>7. CASE BroadcastReset \/ StoreUnknown \/ on_system_event
  BY <1>6, <1>7 DEF BroadcastReset, StoreUnknown, on_system_event, exchangeVars, sessionVars
<1>8. ASSUME NEW s \in Shards, dispatch(s) PROVE TrackerInv'
  <2>1. \E types : Take(s, types)
    BY <1>8, Zenon DEF dispatch, DispatchReset, DispatchEvent, DispatchDirectory,
                DispatchAction, DispatchOrder
  <2> QED
    BY <1>6, <2>1 DEF Take, exchangeVars, sessionVars, parserVars
<1>9. CASE UNCHANGED vars
  BY <1>6, <1>9 DEF vars, exchangeVars, sessionVars, parserVars
<1> QED
  BY <1>4, <1>5, <1>7, <1>8, <1>9 DEF Next, HandleEvent

\* On a feed of any length that loses nothing, the only gap the tracker ever
\* reports is the false one that the second packet of a session shows
\* (parser_thread.cpp:61, session_manager.cpp:113).
THEOREM OnlyFalseGap == Spec => []GapOnlyAfterReset
<1>1. Init => GapInv
  <2>1. Init => TrackerInv
    BY DEF Init, TrackerInv, GapOnlyAfterReset
  <2> QED
    BY <2>1, InitShard DEF GapInv
<1>2. GapInv /\ [Next]_vars => GapInv'
  BY NextShard, NextTracker DEF GapInv
<1>3. GapInv => GapOnlyAfterReset
  BY DEF GapInv, TrackerInv
<1> QED
  BY <1>1, <1>2, <1>3, PTL DEF Spec
=============================================================================
