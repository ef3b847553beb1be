---------------------------- MODULE BookSnapshot ----------------------------
(***************************************************************************)
(* The end-of-day archive: the callbacks that save the books of each shard *)
(* on the parser thread while the shard workers still change them, the     *)
(* files and the two pointer files, crashes, and a load after a restart    *)
(* (src/recovery/book_snapshot.cpp, src/session/session_manager.cpp,       *)
(* src/orderbook/level2_book.cpp, src/app/feed_handler.cpp).               *)
(*                                                                         *)
(* A book is the number of its levels, which decides whether it fits the   *)
(* buffer.  Paths are numbered in the order in which save_eod makes them:  *)
(* the time stamp in them makes each a new one.  All shards' archives      *)
(* share a directory and so the pointer files.  Neither is synced: a crash *)
(* of the machine may cut a file short between two records, or undo what   *)
(* was renamed, until the system has written it back.                      *)
(***************************************************************************)
EXTENDS Integers, Sequences

CONSTANTS
  NumShards,   \* NUM_SHARDS, the callbacks registered
  NumBooks,    \* BOOKS_PER_SHARD
  Buffer,      \* the levels that fit a buffer of 4096 bytes, 63 in the code
  MaxLevels,   \* the levels of the two sides of a book
  MaxUpdates,  \* bound: the levels inserted and removed
  MaxEvents,   \* bound: the events that close a session
  MaxFaults    \* bound: the crashes and failed writes

ASSUME ArchiveBounds ==
  /\ {NumShards, NumBooks, Buffer, MaxLevels} \subseteq Nat \ {0}
  /\ {MaxUpdates, MaxEvents, MaxFaults} \subseteq Nat

Shards == 1 .. NumShards
Books == 1 .. NumBooks
Paths == 1 .. MaxEvents * NumShards
Pointers == {"latest", "latest_eod"}

VARIABLES
  books,     \* per shard and book: bid_count_ + ask_count_
  updates,   \* the levels inserted and removed so far
  events,    \* the events that closed a session so far
  pc,        \* where the thread is that saves or loads
  shard,     \* the shard whose callback runs
  path,      \* the last path made
  cap,       \* the levels that fit buf
  grown,     \* buf was made larger for this book
  recs,      \* the records written to <path>.tmp
  files,     \* per path: the records of the file, if there is one
  ptr,       \* per pointer file: the path it names, 0 if it names none
  unsynced,  \* the paths of the files that are not yet on the disk
  durable,   \* per pointer file: what it may name after a crash of the machine
  loaded,    \* what the last load came upon: a path, and how many records
  faults,    \* the crashes and failed writes so far
  doubtful,  \* the paths of files that a failed write or a crash may have cut
             \* (history)
  strayed    \* a pointer file was not written, or was lost (history)

workerVars == <<books, updates>>
locals == <<cap, grown, recs>>     \* of write_snapshot
saveVars == <<shard, path, locals>>
diskVars == <<files, ptr, unsynced, durable>>
historyVars == <<doubtful, strayed>>
vars == <<workerVars, events, pc, saveVars, diskVars, loaded, faults, historyVars>>

Levels == 0 .. MaxLevels
NoFile == [there |-> FALSE, recs |-> <<>>]
Cut(f, n) == [f EXCEPT !.recs = SubSeq(@, 1, IF n < Len(@) THEN n ELSE Len(@))]
Nothing == [path |-> 0, recs |-> 0]

\* A record is a book, or nothing at all (length 0); levels is what the book had
\* when it was written or left out.
Records == [kept : BOOLEAN, levels : Levels]

TypeOK ==
  /\ books \in [Shards -> [Books -> Levels]]
  /\ updates \in 0 .. MaxUpdates /\ events \in 0 .. MaxEvents
  /\ pc \in {"running", "open", "serialize", "rename", "down"}
            \cup Pointers
  /\ shard \in Shards /\ path \in Paths \cup {0}
  /\ cap \in Nat /\ grown \in BOOLEAN
  /\ recs \in Seq(Records) /\ Len(recs) <= NumBooks
  /\ files \in [Paths -> [there : BOOLEAN, recs : Seq(Records)]]
  /\ ptr \in [Pointers -> Paths \cup {0}]
  /\ unsynced \subseteq Paths /\ doubtful \subseteq Paths
  /\ durable \in [Pointers -> SUBSET (Paths \cup {0})]
  /\ loaded \in [path : Paths \cup {0}, recs : 0 .. NumBooks]
  /\ faults \in 0 .. MaxFaults /\ strayed \in BOOLEAN

NoBooks == [s \in Shards |-> [b \in Books |-> 0]]

\* The model starts late in a session, with books empty or full of levels.
Init ==
  /\ \E n \in [Books -> {0, MaxLevels}] :
       books = [s \in Shards |-> n]
  /\ updates = 0 /\ events = 0
  /\ pc = "running" /\ shard = 1 /\ path = 0
  /\ cap = Buffer /\ grown = FALSE /\ recs = <<>>
  /\ files = [p \in Paths |-> NoFile]
  /\ ptr = [k \in Pointers |-> 0]
  /\ unsynced = {} /\ durable = [k \in Pointers |-> {0}]
  /\ loaded = Nothing /\ faults = 0 /\ doubtful = {} /\ strayed = FALSE

DropLocals == cap' = Buffer /\ grown' = FALSE /\ recs' = <<>>
Up == pc # "down"
Fault == faults < MaxFaults /\ faults' = faults + 1

-----------------------------------------------------------------------------
(* The shard workers. *)

\* insert_level and remove_level, at any time.
ChangeLevels(s, b, d) ==
  /\ Up /\ updates < MaxUpdates
  /\ books[s][b] + d \in Levels
  /\ books' = [books EXCEPT ![s][b] = @ + d]
  /\ updates' = updates + 1
  /\ UNCHANGED <<events, pc, saveVars, diskVars, loaded, faults, historyVars>>

-----------------------------------------------------------------------------
(* The parser thread: on_eod_archival, and in it save_eod for each shard. *)

\* An event that closes the session.
on_eod_archival ==
  /\ pc = "running" /\ events < MaxEvents
  /\ events' = events + 1
  /\ pc' = "open" /\ shard' = 1
  /\ UNCHANGED <<workerVars, path, locals, diskVars, loaded, faults, historyVars>>

\* save_eod returns, and the next callback is called.
NextCallback ==
  IF shard < NumShards
  THEN pc' = "open" /\ shard' = shard + 1
  ELSE pc' = "running" /\ UNCHANGED shard

\* save_eod makes a path, and write_snapshot opens its temporary file.
make_path ==
  /\ pc = "open"
  /\ path' = path + 1
  /\ \/ pc' = "serialize" /\ UNCHANGED <<shard, faults>>
     \/ Fault /\ NextCallback
  /\ UNCHANGED <<workerVars, events, locals, diskVars, loaded, historyVars>>

\* What write_snapshot writes for a book; after the last book it renames.
Written(rec) ==
  /\ recs' = Append(recs, rec)
  /\ grown' = FALSE
  /\ pc' = IF Len(recs) + 1 = NumBooks THEN "rename" ELSE "serialize"

\* A bug the properties must catch: a book that does not fit is left out at once.
serialize_snapshot_once ==
  /\ pc = "serialize"
  /\ LET n == books[shard][Len(recs) + 1]
     IN  Written([kept |-> n <= cap, levels |-> n])
  /\ UNCHANGED <<workerVars, events, shard, path, cap, diskVars, loaded, faults,
                 historyVars>>

\* A book that fits the buffer is written.  One that does not is tried again
\* with a buffer of twice the size, and then left out.
serialize_snapshot ==
  /\ pc = "serialize"
  /\ LET n == books[shard][Len(recs) + 1]
     IN  \/ /\ n <= cap \/ grown
            /\ Written([kept |-> n <= cap, levels |-> n])
            /\ UNCHANGED cap
         \/ /\ n > cap /\ ~grown
            /\ cap' = 2 * cap /\ grown' = TRUE
            /\ UNCHANGED <<pc, recs>>
  /\ UNCHANGED <<workerVars, events, shard, path, diskVars, loaded, faults,
                 historyVars>>

Saved == [there |-> TRUE, recs |-> recs]

\* A bug the properties must catch: the result of write_snapshot is not looked at.
write_snapshot_unchecked ==
  /\ pc = "rename"
  /\ \/ /\ files' = [files EXCEPT ![path] = Saved]
        /\ UNCHANGED faults
     \/ Fault /\ UNCHANGED files
  /\ unsynced' = unsynced \cup {path}
  /\ pc' = "latest" /\ DropLocals
  /\ UNCHANGED <<workerVars, events, shard, path, ptr, durable, loaded, historyVars>>

\* The file is closed and renamed.  Only a failed rename is noticed: a file
\* that was cut by a full disk is renamed all the same.
write_snapshot ==
  /\ pc = "rename"
  /\ \/ /\ files' = [files EXCEPT ![path] = Saved]
        /\ unsynced' = unsynced \cup {path}
        /\ pc' = "latest"
        /\ UNCHANGED <<shard, faults, doubtful>>
     \/ /\ Fault
        /\ \E n \in 0 .. NumBooks : files' = [files EXCEPT ![path] = Cut(Saved, n)]
        /\ unsynced' = unsynced \cup {path}
        /\ doubtful' = doubtful \cup {path}
        /\ pc' = "latest"
        /\ UNCHANGED shard
     \/ /\ Fault /\ NextCallback
        /\ UNCHANGED <<files, unsynced, doubtful>>
  /\ DropLocals
  /\ UNCHANGED <<workerVars, events, path, ptr, durable, loaded, strayed>>

AfterPointer(k) ==
  IF k = "latest" THEN pc' = "latest_eod" /\ UNCHANGED shard ELSE NextCallback

\* A bug the properties must catch: save_eod writes the two the other way round.
write_ptr_file_swapped(k) ==
  LET other == CHOOSE j \in Pointers \ {k} : TRUE
  IN  /\ pc = k
      /\ ptr' = [ptr EXCEPT ![other] = path]
      /\ durable' = [durable EXCEPT ![other] = @ \cup {path, 0}]
      /\ AfterPointer(k)
      /\ UNCHANGED <<workerVars, events, path, locals, files, unsynced, loaded,
                     faults, historyVars>>

\* A pointer file is replaced.  When it cannot be, or is cut by a full disk,
\* save_eod goes on.
write_ptr_file(k) ==
  /\ pc = k
  /\ \/ /\ ptr' = [ptr EXCEPT ![k] = path]
        /\ durable' = [durable EXCEPT ![k] = @ \cup {path, 0}]
        /\ UNCHANGED <<faults, strayed>>
     \/ /\ Fault /\ strayed' = TRUE
        /\ \/ UNCHANGED <<ptr, durable>>
           \/ /\ ptr' = [ptr EXCEPT ![k] = 0]
              /\ durable' = [durable EXCEPT ![k] = @ \cup {0}]
  /\ AfterPointer(k)
  /\ UNCHANGED <<workerVars, events, path, locals, files, unsynced, loaded,
                 doubtful>>

-----------------------------------------------------------------------------
(* The disk, crashes, and the next start. *)

\* The system writes everything back.
WriteBack ==
  /\ unsynced # {} \/ \E k \in Pointers : durable[k] # {ptr[k]}
  /\ unsynced' = {} /\ durable' = [k \in Pointers |-> {ptr[k]}]
  /\ UNCHANGED <<workerVars, events, pc, saveVars, files, ptr, loaded, faults,
                 historyVars>>

\* The process dies, and its books and what it was doing with it.
Dies ==
  /\ Up /\ Fault
  /\ pc' = "down" /\ shard' = 1 /\ DropLocals
  /\ books' = NoBooks
  /\ UNCHANGED <<updates, events, path, loaded>>

Crash == Dies /\ UNCHANGED <<diskVars, historyVars>>

\* The machine stops: of what was not written back, any file may be cut or gone.
PowerLoss ==
  /\ Dies
  /\ \E left \in [unsynced -> {-1} \cup 0 .. NumBooks] :
       files' = [p \in Paths |->
                   CASE p \notin unsynced -> files[p]
                     [] p \in unsynced /\ left[p] = -1 -> NoFile
                     [] OTHER -> Cut(files[p], left[p])]
  /\ ptr' \in [Pointers -> Paths \cup {0}]
  /\ \A k \in Pointers : ptr'[k] \in durable[k]
  /\ unsynced' = {} /\ durable' = [k \in Pointers |-> {ptr'[k]}]
  /\ doubtful' = doubtful \cup unsynced
  /\ strayed' = (strayed \/ ptr' # ptr)

\* The file a pointer file names.
read_ptr_file(k) == IF ptr[k] = 0 THEN NoFile ELSE files[ptr[k]]

\* A record of length 0 leaves the book as it is.
restore_snapshot(old, rec) == IF rec.kept THEN rec.levels ELSE old

\* What becomes of a shard's books; a record that was cut off has length 0 too.
read_snapshot(old, rs) ==
  [b \in Books |-> IF b <= Len(rs) THEN restore_snapshot(old[b], rs[b]) ELSE old[b]]

\* load, load_eod at the next start, as the header describes them (nothing in
\* the program calls them yet): each shard's archive reads the same pointer
\* file, before the workers run.  Without a file there is nothing to load.
load(k) ==
  /\ pc = "down"
  /\ LET rs == read_ptr_file(k).recs
     IN  /\ books' = [s \in Shards |-> read_snapshot(books[s], rs)]
         /\ loaded' = [path |-> ptr[k], recs |-> Len(rs)]
  /\ pc' = "running"
  /\ UNCHANGED <<updates, events, saveVars, diskVars, faults, historyVars>>

-----------------------------------------------------------------------------
Save ==
  \/ make_path \/ serialize_snapshot \/ write_snapshot
  \/ \E k \in Pointers : write_ptr_file(k)

Next ==
  \/ \E s \in Shards, b \in Books, d \in {1, -1} : ChangeLevels(s, b, d)
  \/ on_eod_archival \/ Save
  \/ WriteBack \/ Crash \/ PowerLoss
  \/ \E k \in Pointers : load(k)

Spec == Init /\ [][Next]_vars

-----------------------------------------------------------------------------
(* Properties. *)

\* What load comes upon by a pointer file is a whole snapshot, one record to a
\* book, whenever the process was killed: a path is named only after its file
\* was renamed, and renamed only after its last book.  Only a full disk, or a
\* crash of the machine before the file was written back, may leave it short
\* (book_snapshot.cpp:131-165, 226-238).
LoadFindsWhole ==
  loaded.path # 0 => loaded.recs = NumBooks \/ loaded.path \in doubtful

\* latest.ptr is never behind latest_eod.ptr: save_eod writes it first, and each
\* shard's callback after the other, so whatever the moment of a crash, load
\* finds a snapshot at least as new as load_eod does, unless a pointer file
\* could not be written (book_snapshot.cpp:226-238).
EodBehindLatest == strayed \/ ptr["latest_eod"] <= ptr["latest"]

\* A book is left out of a snapshot only when it has more levels than a buffer
\* of twice the first size holds (book_snapshot.cpp:145-155).
OmittedOnlyIfDeep ==
  \A p \in Paths, b \in Books :
    b <= Len(files[p].recs) /\ ~files[p].recs[b].kept =>
      files[p].recs[b].levels > 2 * Buffer
=============================================================================
