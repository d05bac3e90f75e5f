---------------------------- MODULE QueueMetadata ----------------------------
(***************************************************************************)
(* QueueMetadataCache of app/queue_metadata.cpp: one worker looks up the   *)
(* kind and size of the files in the Queue page, so that the UI thread     *)
(* never waits for a disk.                                                 *)
(*                                                                         *)
(* Each locked region of mutex_ is one action, except that the worker      *)
(* keeps the mutex from testing the predicate of its wait until it blocks. *)
(* The metadata of a path is the number of times it changed; a file that   *)
(* goes missing or cannot be read is one such change.                      *)
(***************************************************************************)
EXTENDS Naturals, Sequences, FiniteSets

CONSTANTS
  Paths,       \* paths that can be in the queue
  MaxEntries,  \* bound: rows added
  MaxChanges   \* bound: changes of each file

ASSUME QueueMetadataAssumption == MaxEntries \in Nat /\ MaxChanges \in Nat

None == 0

VARIABLES
  disk,      \* metadata of each path now
  entries,   \* entries_: the Entry of each path, or None
  objects,   \* the Entry objects, by number; born is a history
  queue,     \* pending_
  started,   \* worker_.joinable()
  stopped,   \* stopped_
  worker,    \* step of the worker thread
  taken,     \* the Entry it took
  value,     \* what the reader returned
  ui         \* step of the UI thread

thread == <<started, worker, taken, value>>
vars == <<disk, entries, objects, queue, thread, stopped, ui>>

Pending == 0  \* QueueFileKind::Pending
Entry == [path : Paths, value : 0 .. MaxChanges + 1, pending : BOOLEAN, born : 1 .. MaxChanges + 1]

TypeOK ==
  /\ disk \in [Paths -> 1 .. MaxChanges + 1]
  /\ entries \in [Paths -> 0 .. Len(objects)]
  /\ objects \in Seq(Entry)
  /\ queue \in Seq(DOMAIN objects)
  /\ started \in BOOLEAN /\ stopped \in BOOLEAN
  /\ worker \in {"none", "test", "sleep", "wait", "read", "store", "notify", "ended"}
  /\ taken \in 0 .. Len(objects) /\ value \in 0 .. MaxChanges + 1
  /\ ui \in {"idle", "wake", "join", "closed"}

Init ==
  /\ disk = [p \in Paths |-> 1]
  /\ entries = [p \in Paths |-> None]
  /\ objects = <<>> /\ queue = <<>>
  /\ started = FALSE /\ stopped = FALSE
  /\ worker = "none" /\ taken = None /\ value = Pending
  /\ ui = "idle"

\* mutex_ can be taken: the worker is not about to sleep.
MutexFree == worker # "sleep"

-----------------------------------------------------------------------------
(* UI thread *)

\* The places in the queue whose rows stay, and such places in their order.
Kept(gone) == {i \in DOMAIN queue : objects[queue[i]].path \notin gone}
InOrder(places) ==
  {order \in [1 .. Cardinality(places) -> places] :
     /\ \A i, j \in DOMAIN order : i < j => order[i] < order[j]
     /\ places \subseteq {order[i] : i \in DOMAIN order}}

\* synchronize, called when a row is added and when rows are removed.
AddRow(p) ==
  /\ ui = "idle" /\ MutexFree
  /\ entries[p] = None /\ Len(objects) < MaxEntries
  /\ objects' = Append(objects, [path |-> p, value |-> Pending, pending |-> FALSE,
                                 born |-> disk[p]])
  /\ entries' = [entries EXCEPT ![p] = Len(objects) + 1]
  /\ UNCHANGED <<disk, queue, thread, stopped, ui>>

RemoveRows(gone) ==
  /\ ui = "idle" /\ MutexFree
  /\ \A p \in gone : entries[p] # None
  /\ entries' = [p \in Paths |-> IF p \in gone THEN None ELSE entries[p]]
  /\ \E order \in InOrder(Kept(gone)) : queue' = [i \in DOMAIN order |-> queue[order[i]]]
  /\ UNCHANGED <<disk, objects, thread, stopped, ui>>

\* A waiting worker goes on to test its predicate again.
Woken == IF worker = "wait" THEN "test" ELSE worker

\* get schedules a read of an entry that is Pending or two seconds old.
Get(p) ==
  /\ ui = "idle" /\ MutexFree /\ entries[p] # None
  /\ ~objects[entries[p]].pending
  /\ queue' = Append(queue, entries[p])
  /\ objects' = [objects EXCEPT ![entries[p]].pending = TRUE]
  /\ started' = TRUE
  /\ worker' = IF started THEN Woken ELSE "test"
  /\ UNCHANGED <<disk, entries, taken, value, stopped, ui>>

\* Faulty variant: the flag is stored without the mutex.
StopUnlocked ==
  /\ ui = "idle"
  /\ stopped' = TRUE /\ queue' = <<>> /\ ui' = "wake"
  /\ UNCHANGED <<disk, entries, objects, thread>>

\* stop
Stop ==
  /\ ui = "idle" /\ MutexFree
  /\ stopped' = TRUE /\ queue' = <<>> /\ ui' = "wake"
  /\ UNCHANGED <<disk, entries, objects, thread>>

NotifyAll ==
  /\ ui = "wake"
  /\ worker' = Woken /\ ui' = "join"
  /\ UNCHANGED <<disk, entries, objects, queue, started, taken, value, stopped>>

Join ==
  /\ ui = "join" /\ (started => worker = "ended")
  /\ ui' = "closed"
  /\ UNCHANGED <<disk, entries, objects, queue, thread, stopped>>

-----------------------------------------------------------------------------
(* Worker thread: run *)

\* The predicate of ready_.wait is false.
FindNothing ==
  /\ worker = "test" /\ ~stopped /\ queue = <<>>
  /\ worker' = "sleep"
  /\ UNCHANGED <<disk, entries, objects, queue, started, taken, value, stopped, ui>>

Sleep ==
  /\ worker = "sleep"
  /\ worker' = "wait"
  /\ UNCHANGED <<disk, entries, objects, queue, started, taken, value, stopped, ui>>

FindStop ==
  /\ worker = "test" /\ stopped
  /\ worker' = "ended"
  /\ UNCHANGED <<disk, entries, objects, queue, started, taken, value, stopped, ui>>

Take ==
  /\ worker = "test" /\ ~stopped /\ queue # <<>>
  /\ taken' = Head(queue) /\ queue' = Tail(queue)
  /\ worker' = "read"
  /\ UNCHANGED <<disk, entries, objects, started, value, stopped, ui>>

\* read_queue_file_metadata
Read ==
  /\ worker = "read"
  /\ value' = disk[objects[taken].path] /\ worker' = "store"
  /\ UNCHANGED <<disk, entries, objects, queue, started, taken, stopped, ui>>

\* Faulty variant: an entry for the same path is as good.
MayStoreByPath == ~stopped /\ entries[objects[taken].path] # None

\* current->second == entry
MayStore == ~stopped /\ entries[objects[taken].path] = taken

\* Faulty variant: the entry stays marked as pending.
StoreValueOnly ==
  /\ worker = "store"
  /\ taken' = None /\ value' = Pending
  /\ IF MayStore
     THEN /\ worker' = "notify"
          /\ objects' = [objects EXCEPT ![taken].value = value]
     ELSE worker' = "test" /\ UNCHANGED objects
  /\ UNCHANGED <<disk, entries, queue, started, stopped, ui>>

Store ==
  /\ worker = "store"
  /\ taken' = None /\ value' = Pending
  /\ IF MayStore
     THEN LET current == entries[objects[taken].path] IN
          /\ worker' = "notify"
          /\ objects' = [objects EXCEPT ![current].value = value, ![current].pending = FALSE]
     ELSE worker' = "test" /\ UNCHANGED objects
  /\ UNCHANGED <<disk, entries, queue, started, stopped, ui>>

\* notify_ asks for a repaint, and invalidates the folder size (FolderSize).
Notify ==
  /\ worker = "notify"
  /\ worker' = "test"
  /\ UNCHANGED <<disk, entries, objects, queue, started, taken, value, stopped, ui>>

\* Another program replaces the file.
Change(p) ==
  /\ disk[p] <= MaxChanges
  /\ disk' = [disk EXCEPT ![p] = @ + 1]
  /\ UNCHANGED <<entries, objects, queue, thread, stopped, ui>>

-----------------------------------------------------------------------------
Worker == FindNothing \/ Sleep \/ FindStop \/ Take \/ Read \/ Store \/ Notify
Closing == NotifyAll \/ Join

User ==
  \/ \E p \in Paths : AddRow(p) \/ Get(p)
  \/ \E gone \in SUBSET Paths : RemoveRows(gone)
  \/ Stop

Next == Worker \/ Closing \/ User \/ \E p \in Paths : Change(p)

Spec == Init /\ [][Next]_vars

\* The worker is scheduled and the queries of the file system return; the window
\* is under no obligation until it calls stop.
FairSpec == Spec /\ WF_vars(Worker) /\ WF_vars(Closing)

-----------------------------------------------------------------------------
(* Properties *)

\* "current lifetime results": what a row shows was read after the row was added,
\* also when it was removed and added again while the worker was reading.
ValueIsOfThisRow ==
  \A p \in Paths : entries[p] # None =>
    LET entry == objects[entries[p]]
    IN entry.path = p /\ (entry.value # Pending => entry.value >= entry.born)

\* A row that asked for its metadata gets it, unless it is removed or the window
\* closes.
RowsLearnTheirMetadata ==
  \A p \in Paths :
    entries[p] # None /\ objects[entries[p]].pending ~>
      entries[p] = None \/ ~objects[entries[p]].pending \/ stopped

\* When stop joins the worker, the worker is on its way to test the flag and
\* is not blocked: the flag is set under the mutex that the worker keeps from its
\* test until it blocks, so that the notification cannot fall between the two.
NoWorkerSleepsThroughStop ==
  ui = "join" => stopped /\ worker \notin {"sleep", "wait"}

\* "Cancel pending reads and join the sole worker": stop returns, whatever the
\* worker is doing when it is called.
StopReturns == ui = "wake" ~> ui = "closed"
=============================================================================
