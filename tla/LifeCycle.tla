----------------------------- MODULE LifeCycle -----------------------------
(***************************************************************************)
(* The life of the process (src/app/main.cpp) and of its FeedHandler       *)
(* (src/app/feed_handler.cpp): construction, init with its failures, run,  *)
(* which starts and stops the worker threads, and the destructor.          *)
(*                                                                         *)
(* A signal may interrupt the main thread between any two steps.  Its      *)
(* handler runs stop on that thread, inside whatever main was doing, and   *)
(* main goes on when the handler returns.  A second signal that nests in   *)
(* the handler on the main thread finds running_ false or leaves it false  *)
(* for the outer one, so it adds no behaviour; one that arrives while the  *)
(* main thread has it blocked is taken by a worker thread.                 *)
(***************************************************************************)
EXTENDS Integers, Sequences, SequencesExt

CONSTANTS
  NumShards,   \* NUM_SHARDS
  MaxSignals   \* bound: the number of signals taken

ASSUME NumShardsAssumption == NumShards \in Nat \ {0}
ASSUME MaxSignalsAssumption == MaxSignals \in Nat

Shards == [s \in 1 .. NumShards |-> <<"shard", s>>]
One(name) == <<name, 0>>

\* start_workers: consumers first, then producers.
StartOrder ==
  <<One("metrics"), One("recovery"), One("persist")>> \o Shards
    \o <<One("parser"), One("merger"), One("secondary"), One("receiver")>>

\* A bug the properties must catch: consumers stopped first.
StopOrderAsStarted == StartOrder

\* stop_workers: producers first, then consumers.
StopOrder ==
  <<One("receiver"), One("secondary"), One("merger"), One("parser"),
    One("persist")>> \o Shards \o <<One("recovery"), One("metrics")>>

\* init_workers.
BuildOrder ==
  <<One("metrics"), One("receiver"), One("secondary"), One("merger"),
    One("persist"), One("parser")>> \o Shards \o <<One("recovery")>>

\* The members of FeedHandler are destroyed from the last declared up.
DestroyOrder ==
  <<One("recovery")>> \o Reverse(Shards)
    \o <<One("parser"), One("merger"), One("secondary"), One("receiver"),
         One("persist"), One("metrics")>>

Worker == {StartOrder[k] : k \in DOMAIN StartOrder}
Receivers == {One("receiver"), One("secondary")}

VARIABLES
  cfg,       \* whether multicast_group_secondary is set
  pc, k,     \* where the main thread is, and the worker it is at
  hpc, hk,   \* the same for the signal handler that interrupts it
  running,   \* FeedHandler::running_
  built,     \* the workers whose unique_ptr is set
  wrun,      \* each worker's running_
  live,      \* the threads that run
  joinable,  \* the workers whose thread_ is joinable
  sockets,   \* the receivers whose fd_ is open
  mem,       \* the allocations held: packet rings and shard memory
  signals,   \* the number of signals taken so far
  marks      \* history: what went wrong on the way, for the properties

objects == <<built, wrun, live, joinable, sockets, mem>>
vars == <<cfg, pc, k, hpc, hk, running, objects, signals, marks>>

Over == pc \in {"exit", "aborted"}

Init ==
  /\ cfg \in BOOLEAN
  /\ pc = "construct" /\ k = 0
  /\ hpc = "none" /\ hk = 0
  /\ running = FALSE
  /\ built = {} /\ wrun = [w \in Worker |-> FALSE]
  /\ live = {} /\ joinable = {} /\ sockets = {} /\ mem = {}
  /\ signals = 0 /\ marks = {}

(***************************************************************************)
(* Steps of the main thread.  It is suspended while the handler runs.      *)
(***************************************************************************)
At(point) == pc = point /\ hpc = "none"
GoTo(point) == pc' = point
Begin(point) == pc' = point /\ k' = 1
Handlers == <<hpc, hk, signals>>

\* FeedHandler(config) throws nothing after load_config; a bad file ends it
\* before there is a handler.
construct ==
  /\ At("construct")
  /\ GoTo("allocate") \/ GoTo("exit")
  /\ UNCHANGED <<cfg, k, Handlers, running, objects, marks>>

\* init up to allocate_memory: the placeholder address ends the process, and
\* the first allocation that fails ends init, with some of the shards' memory
\* allocated or none.
allocate_memory ==
  /\ At("allocate")
  /\ LET wanted == <<"ring">> \o (IF cfg THEN <<"secondary_ring">> ELSE <<>>)
                     \o <<"shards">>
     IN  \/ GoTo("exit") /\ UNCHANGED mem
         \/ \E n \in 0 .. Len(wanted) :
              /\ mem' = {wanted[i] : i \in 1 .. n}
              /\ GoTo("destroy") \/ (n = Len(wanted) /\ GoTo("build"))
  /\ UNCHANGED <<cfg, k, Handlers, running, built, wrun, live, joinable,
                 sockets, marks>>

\* init_workers, which may throw part of the way; then the warm start of the
\* tracker.
init_workers ==
  /\ At("build")
  /\ \E n \in 0 .. Len(BuildOrder) :
       /\ built' = {BuildOrder[i] : i \in 1 .. n}
                     \ (IF cfg THEN {} ELSE {One("secondary")})
       /\ GoTo("destroy") \/ (n = Len(BuildOrder) /\ GoTo("open"))
  /\ UNCHANGED <<cfg, k, Handlers, running, wrun, live, joinable, sockets, mem,
                 marks>>

\* SocketReceiver::open and join_multicast: whether both worked, and the
\* descriptor.  Options that cannot be set are only logged, a bind that fails
\* closes it, and a join that fails leaves it open.
OpenResults(w) ==
  {[ok |-> TRUE, fd |-> {w}], [ok |-> FALSE, fd |-> {}], [ok |-> FALSE, fd |-> {w}]}

\* The sockets of init.  Without the primary there is no start; a secondary that
\* fails is destroyed at once, and its descriptor with it.
open ==
  /\ At("open")
  /\ \E primary \in OpenResults(One("receiver")),
        secondary \in OpenResults(One("secondary")) :
       \/ /\ ~primary.ok
          /\ GoTo("destroy")
          /\ sockets' = primary.fd
          /\ UNCHANGED built
       \/ /\ primary.ok
          /\ GoTo("run")
          /\ built' = IF secondary.ok THEN built ELSE built \ {One("secondary")}
          /\ sockets' = (primary.fd \cup secondary.fd) \cap built'
  /\ UNCHANGED <<cfg, k, Handlers, running, wrun, live, joinable, mem, marks>>

\* run stores running_ and enters start_workers.
run ==
  /\ At("run")
  /\ running' = TRUE
  /\ Begin("start")
  /\ UNCHANGED <<cfg, Handlers, objects, marks>>

(***************************************************************************)
(* start of one worker: running_, then the thread, then thread_.           *)
(***************************************************************************)
Starting == StartOrder[k]

NextStart ==
  IF k = Len(StartOrder)
    THEN pc' = "loop" /\ k' = 0
    ELSE pc' = "start" /\ k' = k + 1

start ==
  /\ At("start")
  /\ IF Starting \in built
       THEN /\ wrun' = [wrun EXCEPT ![Starting] = TRUE]
            /\ pc' = "create" /\ UNCHANGED k
       ELSE /\ NextStart
            /\ UNCHANGED wrun
  /\ UNCHANGED <<cfg, Handlers, running, built, live, joinable, sockets, mem,
                 marks>>

\* std::thread throws when there is no thread to be had: the exception leaves
\* run, and unwinding destroys the handler.
create ==
  /\ At("create")
  /\ \/ /\ live' = live \cup {Starting}
        /\ pc' = "assign" /\ UNCHANGED <<k, marks>>
     \/ /\ marks' = marks \cup {"no_thread"}
        /\ pc' = "destroy" /\ k' = 0
        /\ UNCHANGED live
  /\ UNCHANGED <<cfg, Handlers, running, built, wrun, joinable, sockets, mem>>

assign ==
  /\ At("assign")
  /\ joinable' = joinable \cup {Starting}
  /\ NextStart
  /\ UNCHANGED <<cfg, Handlers, running, built, wrun, live, sockets, mem, marks>>

\* The loop of a worker's run sees its running_ false and returns.
ThreadExits(w) ==
  /\ ~Over
  /\ w \in live
  /\ ~wrun[w]
  /\ live' = live \ {w}
  /\ UNCHANGED <<cfg, pc, k, Handlers, running, built, wrun, joinable, sockets,
                 mem, marks>>

\* The recovery thread's login to the retransmit server is refused, or not
\* answered in time: it calls exit, and the handler is not destroyed.
login_fails ==
  /\ ~Over
  /\ One("recovery") \in live
  /\ GoTo("exit")
  /\ marks' = marks \cup {"login"}
  /\ UNCHANGED <<cfg, k, Handlers, running, objects>>

\* A bug the properties must catch: running_ is a plain bool, and is read once
\* before the loop.
loopHoisted ==
  /\ At("loop")
  /\ UNCHANGED vars

\* run sleeps until running_ is false.
loop ==
  /\ At("loop")
  /\ IF running THEN UNCHANGED <<pc, k>> ELSE Begin("tell")
  /\ UNCHANGED <<cfg, Handlers, running, objects, marks>>

(***************************************************************************)
(* stop of one worker.  PersistentSequence::stop returns at once when its  *)
(* running_ is already false; the others store false and join whatever     *)
(* thread_ holds, and a receiver then closes its socket.                   *)
(***************************************************************************)
NothingToStop(w) == w \notin built \/ (w = One("persist") /\ ~wrun[w])

Tell(w) == wrun' = [wrun EXCEPT ![w] = FALSE]

\* A bug the properties must catch: a stop that does not join.
JoinNever(w) ==
  /\ sockets' = sockets \ {w}
  /\ UNCHANGED joinable

Join(w) ==
  /\ w \in joinable => w \notin live
  /\ joinable' = joinable \ {w}
  /\ sockets' = sockets \ {w}

\* stop_workers on the main thread, from run or from the destructor's stop.
tell ==
  /\ At("tell")
  /\ IF k > Len(StopOrder)
       THEN pc' = "destroy" /\ k' = 0 /\ UNCHANGED wrun
       ELSE IF NothingToStop(StopOrder[k])
              THEN k' = k + 1 /\ UNCHANGED <<pc, wrun>>
              ELSE Tell(StopOrder[k]) /\ pc' = "join" /\ UNCHANGED k
  /\ UNCHANGED <<cfg, Handlers, running, built, live, joinable, sockets, mem,
                 marks>>

join ==
  /\ At("join")
  /\ Join(StopOrder[k])
  /\ pc' = "tell" /\ k' = k + 1
  /\ UNCHANGED <<cfg, Handlers, running, built, wrun, live, mem, marks>>

(***************************************************************************)
(* The destructor: stop, free the memory, destroy the members.             *)
(***************************************************************************)

\* A bug the properties must catch: the destructor does not call stop.
destroyUnstopped ==
  /\ At("destroy")
  /\ pc' = "free"
  /\ UNCHANGED <<cfg, k, Handlers, running, objects, marks>>

destroy ==
  /\ At("destroy")
  /\ running' = FALSE
  /\ IF running THEN Begin("tell") ELSE pc' = "free" /\ UNCHANGED k
  /\ UNCHANGED <<cfg, Handlers, objects, marks>>

\* A bug the properties must catch: the secondary ring is not freed.
freePrimaryOnly ==
  /\ At("free")
  /\ mem' = mem \ {"ring", "shards"}
  /\ Begin("dtor")
  /\ UNCHANGED <<cfg, Handlers, running, built, wrun, live, joinable, sockets,
                 marks>>

free ==
  /\ At("free")
  /\ mem' = {}
  /\ Begin("dtor")
  /\ UNCHANGED <<cfg, Handlers, running, built, wrun, live, joinable, sockets,
                 marks>>

\* thread_ goes with its worker; if it is still joinable, the process ends in
\* std::terminate.
Destroy(w) ==
  /\ built' = built \ {w}
  /\ IF w \in joinable'
       THEN pc' = "aborted" /\ UNCHANGED k
       ELSE pc' = "dtor" /\ k' = k + 1

\* The destructor of a worker calls stop and then destroys thread_.
dtor ==
  /\ At("dtor")
  /\ IF k > Len(DestroyOrder)
       THEN pc' = "gone" /\ k' = 0 /\ UNCHANGED <<built, wrun, joinable>>
       ELSE LET w == DestroyOrder[k]
            IN  \/ /\ NothingToStop(w)
                   /\ UNCHANGED <<wrun, joinable>>
                   /\ Destroy(w)
                \/ /\ ~NothingToStop(w)
                   /\ Tell(w)
                   /\ pc' = "dtor_join"
                   /\ UNCHANGED <<k, built, joinable>>
  /\ UNCHANGED <<cfg, Handlers, running, live, sockets, mem, marks>>

dtor_join ==
  /\ At("dtor_join")
  /\ Join(DestroyOrder[k])
  /\ Destroy(DestroyOrder[k])
  /\ UNCHANGED <<cfg, Handlers, running, wrun, live, mem, marks>>

\* main returns.  g_handler still points to the handler that was destroyed.
return ==
  /\ At("gone")
  /\ GoTo("exit")
  /\ UNCHANGED <<cfg, k, Handlers, running, objects, marks>>

(***************************************************************************)
(* The signal handler.                                                     *)
(***************************************************************************)
signal_handler ==
  /\ ~Over /\ hpc = "none"
  /\ signals < MaxSignals
  /\ signals' = signals + 1
  /\ hpc' = "entered"
  /\ UNCHANGED <<cfg, pc, k, hk, running, objects, marks>>

\* What stop interrupts when it finds running_ true.
Interrupts ==
  (IF pc \in {"start", "create", "assign"} THEN {"interrupted"} ELSE {})
    \cup (IF pc \in {"create", "assign"} /\ Starting = One("persist")
            THEN {"persist"} ELSE {})

\* FeedHandler::stop: only the first call that finds running_ true stops the
\* workers.  There is no handler yet while it is constructed; once it is gone
\* running_ is whatever is left in its place on the stack.
stop ==
  /\ ~Over /\ hpc = "entered"
  /\ \/ /\ pc # "gone"
        /\ running' = FALSE
        /\ IF running
             THEN hpc' = "tell" /\ hk' = 1 /\ marks' = marks \cup Interrupts
             ELSE hpc' = "none" /\ UNCHANGED <<hk, marks>>
        /\ UNCHANGED pc
     \/ /\ pc = "gone"
        /\ hpc' = "none"
        /\ marks' = marks \cup {"late"}
        /\ pc' \in {"gone", "aborted"}
        /\ UNCHANGED <<running, hk>>
  /\ UNCHANGED <<cfg, k, objects, signals>>

stop_tell ==
  /\ ~Over /\ hpc = "tell"
  /\ IF hk > Len(StopOrder)
       THEN hpc' = "none" /\ hk' = 0 /\ UNCHANGED wrun
       ELSE IF NothingToStop(StopOrder[hk])
              THEN hk' = hk + 1 /\ UNCHANGED <<hpc, wrun>>
              ELSE Tell(StopOrder[hk]) /\ hpc' = "join" /\ UNCHANGED hk
  /\ UNCHANGED <<cfg, pc, k, signals, running, built, live, joinable, sockets,
                 mem, marks>>

stop_join ==
  /\ ~Over /\ hpc = "join"
  /\ Join(StopOrder[hk])
  /\ hpc' = "tell" /\ hk' = hk + 1
  /\ UNCHANGED <<cfg, pc, k, signals, running, built, wrun, live, mem, marks>>

\* A signal that the main thread has blocked is handled on a worker's thread.
\* If its stop comes first, stop_workers goes on to join the thread it runs on
\* and throws.
signal_on_worker ==
  /\ ~Over /\ hpc # "none"
  /\ live # {}
  /\ signals < MaxSignals
  /\ signals' = signals + 1
  /\ running' = FALSE
  /\ IF running
       THEN pc' = "aborted" /\ marks' = marks \cup {"worker"}
       ELSE UNCHANGED <<pc, marks>>
  /\ UNCHANGED <<cfg, k, hpc, hk, objects>>

Main ==
  \/ construct \/ allocate_memory \/ init_workers \/ open \/ run
  \/ start \/ create \/ assign \/ loop \/ tell \/ join
  \/ destroy \/ free \/ dtor \/ dtor_join \/ return

Handler == stop \/ stop_tell \/ stop_join

Finished == Over /\ UNCHANGED vars

Next ==
  \/ Main
  \/ \E w \in Worker : ThreadExits(w)
  \/ login_fails
  \/ signal_handler \/ signal_on_worker
  \/ Handler
  \/ Finished

\* The main thread and its handler are scheduled, and every run loop comes back
\* to its test of running_.  No signal need ever arrive.
Fairness ==
  /\ WF_vars(Main) /\ WF_vars(Handler)
  /\ \A w \in Worker : WF_vars(ThreadExits(w))

Spec == Init /\ [][Next]_vars /\ Fairness

-----------------------------------------------------------------------------
(***************************************************************************)
(* Properties.                                                             *)
(***************************************************************************)

\* The threads that hold pointers into the rings and the shards' memory.
UsesMemory ==
  Worker \ {One("metrics"), One("persist"), One("recovery")}

\* No thread outlives the worker whose run it is in, and the packet rings and
\* the shards' memory are freed only when no thread runs that uses them.  The
\* exception to the second is a signal during start_workers followed by a thread
\* that cannot be created: the handler has cleared running_, and the
\* destructor's stop leaves the threads started since alone
\* (feed_handler.cpp:121-136).
FreedUnused ==
  /\ ~Over => live \subseteq built
  /\ (pc \in {"dtor", "dtor_join", "gone"} /\ live \cap UsesMemory # {})
       => {"interrupted", "no_thread"} \subseteq marks

\* What passes from thread to thread: packets, slots, messages and sequence
\* numbers, gaps, and everyone's counters.
Flow ==
  {<<One("receiver"), One("merger")>>, <<One("secondary"), One("merger")>>,
   <<One("merger"), One("parser")>>, <<One("parser"), One("persist")>>,
   <<One("parser"), One("recovery")>>, <<One("recovery"), One("metrics")>>}
  \cup {<<One("parser"), Shards[s]>> : s \in DOMAIN Shards}
  \cup {<<Shards[s], One("metrics")>> : s \in DOMAIN Shards}

\* While a producer's thread runs, its consumers have been started and have not
\* been told to stop (feed_handler.cpp:399, 413: "producers first, then
\* consumers"), a failure to create a thread included.  Only a signal in the
\* middle of start_workers leaves producers running into stopped consumers.
ProducersFirst ==
  \A f \in Flow :
    (f[1] \in live /\ ~wrun[f[2]]) => "interrupted" \in marks

\* The process does not end in std::terminate, whatever fails and whenever a
\* signal comes, but for three windows: inside PersistentSequence::start, whose
\* stop then never joins; a second signal before the first handler has
\* cleared running_; and a signal after the handler is destroyed.
NoTerminate ==
  pc = "aborted" => marks \cap {"persist", "worker", "late"} # {}

\* A process that exits has joined every thread, closed every socket and freed
\* every ring and pool, from whichever step of init or run it left, unless a
\* login that failed ended it.
CleanExit ==
  (pc = "exit" /\ "login" \notin marks) =>
    live = {} /\ joinable = {} /\ sockets = {} /\ mem = {}

\* A signal taken once run has set running_ ends the process: every join
\* returns and main leaves run (main.cpp:39: "blocks until signal"), the
\* interrupted start_workers included.  One taken during init is forgotten.
SignalEnds ==
  (hpc = "entered"
     /\ pc \notin {"construct", "allocate", "build", "open", "run"}) ~> Over
=============================================================================
