------------------------------ MODULE FolderSize ------------------------------
(***************************************************************************)
(* Sizes of the folders in the Queue page: FolderSizeCache of              *)
(* app/folder_size_cache.hpp, the worker of                                *)
(* app/main_window_folder_size.cpp and the UI thread that paints the rows, *)
(* changes the queue and closes the window.                                *)
(*                                                                         *)
(* Each locked region of folder_size_mutex_ is one action, except that the *)
(* worker keeps the mutex from testing the predicate of its wait until it  *)
(* blocks; spurious wakeups, which only test it again, are left out.  The  *)
(* metadata worker (module QueueMetadata) appears here by its notification *)
(* only: it invalidates a row whose kind changed and asks for a repaint.   *)
(***************************************************************************)
EXTENDS Integers, Sequences, FiniteSets, Functions

CONSTANTS
  Paths,       \* folders that can be in the queue
  MaxDrops     \* bound: how often rows are removed or invalidated, together

ASSUME FolderSizeAssumption == IsFiniteSet(Paths) /\ Paths # {} /\ MaxDrops \in Nat

None == 0  \* no task
Tasks == 1 .. Cardinality(Paths) + MaxDrops

VARIABLES
  rows,        \* state_.queued_paths
  life,        \* how often each row was removed or invalidated (history)
  entries,     \* FolderSizeCache::entries_: the task of each path
  queue,       \* FolderSizeCache::pending_
  tasks,       \* the FolderSizeTask objects, by number; life is a history
  stop,        \* folder_size_stop_
  worker,      \* step of the worker thread
  scanning,    \* the task it took
  size,        \* what calculate_folder_size returned
  ui,          \* step of the UI thread
  todo, row,   \* rows still to paint, and the row whose scan is enqueued
  shown,       \* text of each row on the screen
  repaint,     \* repaint_queued_
  posted,      \* WM_APP + 1 is in the message queue
  invalid,     \* the window has an update region
  metadata     \* a kind change the metadata worker has to report, or "idle"

cache == <<entries, queue, tasks>>
thread == <<worker, scanning, size>>
screen == <<todo, row, shown>>
paint == <<repaint, posted, invalid>>
vars == <<rows, life, cache, stop, thread, ui, screen, paint, metadata>>

Lives == 0 .. MaxDrops
NoSize == -1    \* std::nullopt
Waiting == -2   \* the text "..."
Failed == -3    \* the text "--"
Blank == -4     \* the row is not on the screen

TypeOK ==
  /\ rows \subseteq Paths /\ life \in [Paths -> Lives]
  /\ entries \in [Paths -> Tasks \cup {None}]
  /\ queue \in Seq(Tasks) /\ DOMAIN tasks \subseteq Tasks
  /\ \A t \in DOMAIN tasks :
       tasks[t] \in [path : Paths, cancelled : BOOLEAN,
                     state : {"pending", "ready", "failed"}, bytes : Lives]
  /\ {stop, repaint, posted, invalid} \subseteq BOOLEAN
  /\ worker \in {"none", "loop", "test", "sleep", "wait", "scan", "publish", "repaint", "ended"}
  /\ scanning \in Tasks \cup {None} /\ size \in Lives \cup {NoSize}
  /\ ui \in {"idle", "paint", "enqueue", "start", "notify", "wake", "join", "closed"}
  /\ todo \subseteq Paths /\ row \in Paths
  /\ shown \in [Paths -> Lives \cup {Waiting, Failed, Blank}]
  /\ metadata \in Paths \cup {"idle", "repaint"}

Init ==
  /\ rows = {} /\ life = [p \in Paths |-> 0]
  /\ entries = [p \in Paths |-> None] /\ queue = <<>> /\ tasks = <<>>
  /\ stop = FALSE /\ worker = "none" /\ scanning = None /\ size = NoSize
  /\ ui = "idle" /\ todo = {} /\ row = CHOOSE p \in Paths : TRUE
  /\ shown = [p \in Paths |-> Blank]
  /\ repaint = FALSE /\ posted = FALSE /\ invalid = FALSE
  /\ metadata = "idle"

\* folder_size_mutex_ can be taken: the worker is not about to sleep.
MutexFree == worker # "sleep"

-----------------------------------------------------------------------------
(* FolderSizeCache *)

Cancelled(t) == tasks[t].cancelled

\* Some places of the queue, in their order.
InOrder(places) ==
  {order \in [1 .. Cardinality(places) -> places] :
     /\ \A i, j \in DOMAIN order : i < j => order[i] < order[j]
     /\ places \subseteq {order[i] : i \in DOMAIN order}}

\* invalidate(p) and retain(rows): cancel and forget the tasks of some paths.
Drop(gone) ==
  /\ tasks' = [t \in DOMAIN tasks |->
                 [tasks[t] EXCEPT !.cancelled = @ \/ \E p \in gone : entries[p] = t]]
  /\ entries' = [p \in Paths |-> IF p \in gone THEN None ELSE entries[p]]
  /\ \E order \in InOrder({i \in DOMAIN queue : ~tasks'[queue[i]].cancelled}) :
       queue' = [i \in DOMAIN order |-> queue[order[i]]]

\* Faulty variant: any result for the path is taken.
MayCompleteByPath(t) == entries[tasks[t].path] # None

\* complete(task, bytes) takes the result of a current task only.
MayComplete(t) == ~Cancelled(t) /\ entries[tasks[t].path] = t

\* The cache entry that a result is stored in.
Slot(t) == entries[tasks[t].path]

-----------------------------------------------------------------------------
(* Repaints. *)

\* request_repaint
RequestRepaint ==
  /\ repaint' = TRUE
  /\ posted' = (posted \/ ~repaint)
  /\ UNCHANGED invalid

\* Faulty variant: the flag stays set after its message is handled.
HandleRepaintKeepingFlag ==
  /\ ui = "idle" /\ posted
  /\ posted' = FALSE /\ invalid' = TRUE
  /\ UNCHANGED <<rows, life, cache, stop, thread, ui, screen, repaint, metadata>>

\* WM_APP + 1: the flag is cleared and the window invalidated.
HandleRepaint ==
  /\ ui = "idle" /\ posted
  /\ posted' = FALSE /\ repaint' = FALSE
  /\ invalid' = TRUE
  /\ UNCHANGED <<rows, life, cache, stop, thread, ui, screen, metadata>>

-----------------------------------------------------------------------------
(* UI thread: painting. *)

\* WM_PAINT
StartPaint ==
  /\ ui = "idle" /\ invalid
  /\ invalid' = FALSE
  /\ todo' = rows /\ ui' = "paint"
  /\ shown' = [p \in Paths |-> IF p \in rows THEN shown[p] ELSE Blank]
  /\ UNCHANGED <<rows, life, cache, stop, thread, row, repaint, posted, metadata>>

\* queue_entry_size_text for a row with the kind Directory.
PaintRow(p) ==
  /\ ui = "paint" /\ p \in todo
  /\ MutexFree
  /\ todo' = todo \ {p}
  /\ \/ /\ entries[p] # None
        /\ LET task == tasks[entries[p]]
           IN shown' = [shown EXCEPT ![p] =
                CASE task.state = "ready"   -> task.bytes
                  [] task.state = "failed"  -> Failed
                  [] task.state = "pending" -> Waiting]
        /\ UNCHANGED <<ui, row>>
     \/ /\ entries[p] = None
        /\ shown' = [shown EXCEPT ![p] = Waiting]
        /\ ui' = "enqueue" /\ row' = p
  /\ UNCHANGED <<rows, life, cache, stop, thread, paint, metadata>>

\* The locked region of enqueue_folder_size_if_needed.
Enqueue ==
  /\ ui = "enqueue" /\ MutexFree
  /\ IF entries[row] # None
     THEN ui' = "paint" /\ UNCHANGED cache
     ELSE /\ tasks' = Append(tasks, [path |-> row, cancelled |-> FALSE,
                                     state |-> "pending", bytes |-> 0])
          /\ entries' = [entries EXCEPT ![row] = Len(tasks) + 1]
          /\ queue' = Append(queue, Len(tasks) + 1)
          /\ ui' = "start"
  /\ UNCHANGED <<rows, life, stop, thread, screen, paint, metadata>>

\* start_folder_size_worker
StartWorker ==
  /\ ui = "start" /\ MutexFree
  /\ ui' = "notify"
  /\ IF worker = "none"
     THEN worker' = "loop" /\ stop' = FALSE
     ELSE UNCHANGED <<worker, stop>>
  /\ UNCHANGED <<rows, life, cache, scanning, size, screen, paint, metadata>>

\* A waiting worker goes on to test its predicate again.
Woken == IF worker = "wait" THEN "test" ELSE worker

\* folder_size_cv_.notify_one()
NotifyOne ==
  /\ ui = "notify"
  /\ worker' = Woken /\ ui' = "paint"
  /\ UNCHANGED <<rows, life, cache, stop, scanning, size, screen, paint, metadata>>

EndPaint ==
  /\ ui = "paint" /\ todo = {}
  /\ ui' = "idle"
  /\ UNCHANGED <<rows, life, cache, stop, thread, screen, paint, metadata>>

-----------------------------------------------------------------------------
(* UI thread: the queue and the end. *)

\* Bound: the removals and invalidations so far and the one to come.
Drops == FoldFunctionOnSet(+, IF metadata \in Paths THEN 1 ELSE 0, life, Paths)

\* add_paths_to_queue
AddRow(p) ==
  /\ ui = "idle" /\ p \notin rows
  /\ rows' = rows \cup {p} /\ RequestRepaint
  /\ UNCHANGED <<life, cache, stop, thread, ui, screen, metadata>>

\* clear_queue and remove_selected_queue_items
RemoveRows(gone) ==
  /\ ui = "idle" /\ gone # {} /\ MutexFree
  /\ Drops + Cardinality(gone) <= MaxDrops
  /\ rows' = rows \ gone /\ Drop(gone) /\ RequestRepaint
  /\ life' = [p \in Paths |-> IF p \in gone THEN life[p] + 1 ELSE life[p]]
  /\ UNCHANGED <<stop, thread, ui, screen, metadata>>

\* handle_destroy calls stop_folder_size_worker, which stores the flag without
\* taking the mutex.
Close ==
  /\ ui = "idle"
  /\ ui' = "wake" /\ stop' = TRUE
  /\ UNCHANGED <<rows, life, cache, thread, screen, paint, metadata>>

\* folder_size_cv_.notify_all()
NotifyAll ==
  /\ ui = "wake"
  /\ worker' = Woken /\ ui' = "join"
  /\ UNCHANGED <<rows, life, cache, stop, scanning, size, screen, paint, metadata>>

\* folder_size_worker_.join()
Join ==
  /\ ui = "join" /\ worker \in {"none", "ended"}
  /\ ui' = "closed"
  /\ UNCHANGED <<rows, life, cache, stop, thread, screen, paint, metadata>>

-----------------------------------------------------------------------------
(* Worker thread. *)

Work(from, to) == worker = from /\ worker' = to

WorkerLoop ==
  /\ Work("loop", IF stop THEN "ended" ELSE "test")
  /\ UNCHANGED <<rows, life, cache, stop, scanning, size, ui, screen, paint, metadata>>

\* The predicate of folder_size_cv_.wait is false: the worker is about to block.
FindNothing ==
  /\ Work("test", "sleep")
  /\ ~stop /\ queue = <<>>
  /\ UNCHANGED <<rows, life, cache, stop, scanning, size, ui, screen, paint, metadata>>

\* It blocks and releases the mutex.
Sleep ==
  /\ Work("sleep", "wait")
  /\ UNCHANGED <<rows, life, cache, stop, scanning, size, ui, screen, paint, metadata>>

FindStop ==
  /\ Work("test", "ended") /\ stop
  /\ UNCHANGED <<rows, life, cache, stop, scanning, size, ui, screen, paint, metadata>>

\* take_next
TakeNext ==
  /\ Work("test", "scan") /\ ~stop /\ queue # <<>>
  /\ scanning' = Head(queue) /\ queue' = Tail(queue)
  /\ UNCHANGED <<rows, life, entries, tasks, stop, size, ui, screen, paint, metadata>>

\* calculate_folder_size: the size of the folder as it now is, or nothing
\* because it is cancelled, too large, too slow or unreadable.
Scan ==
  /\ Work("scan", "publish")
  /\ size' \in {life[tasks[scanning].path], NoSize}
  /\ UNCHANGED <<rows, life, cache, stop, scanning, ui, screen, paint, metadata>>

\* The locked region in which the result is stored, and `continue`.
Publish ==
  /\ worker = "publish"
  /\ scanning' = None /\ size' = NoSize
  /\ IF stop \/ ~MayComplete(scanning)
     THEN worker' = "loop" /\ UNCHANGED tasks
     ELSE /\ worker' = "repaint"
          /\ tasks' = [tasks EXCEPT
               ![Slot(scanning)].state = IF size = NoSize THEN "failed" ELSE "ready",
               ![Slot(scanning)].bytes = IF size = NoSize THEN 0 ELSE size]
  /\ UNCHANGED <<rows, life, entries, queue, stop, ui, screen, paint, metadata>>

WorkerRepaints ==
  /\ Work("repaint", "loop")
  /\ RequestRepaint
  /\ UNCHANGED <<rows, life, cache, stop, scanning, size, ui, screen, metadata>>

-----------------------------------------------------------------------------
(* Metadata worker: the notification of the MainWindow constructor. *)

KindChanges(p) ==
  /\ metadata = "idle" /\ p \in rows /\ Drops < MaxDrops
  /\ metadata' = p
  /\ UNCHANGED <<rows, life, cache, stop, thread, ui, screen, paint>>

Invalidate(p) ==
  /\ metadata = p /\ MutexFree
  /\ metadata' = "repaint"
  /\ Drop({p})
  /\ life' = [life EXCEPT ![p] = @ + 1]
  /\ UNCHANGED <<rows, stop, thread, ui, screen, paint>>

MetadataRepaints ==
  /\ metadata = "repaint"
  /\ metadata' = "idle" /\ RequestRepaint
  /\ UNCHANGED <<rows, life, cache, stop, thread, ui, screen>>

-----------------------------------------------------------------------------
Messages == HandleRepaint \/ StartPaint \/ EndPaint
Painting == (\E p \in Paths : PaintRow(p)) \/ Enqueue \/ StartWorker \/ NotifyOne
Closing == NotifyAll \/ Join
Ui == Messages \/ Painting \/ Closing

Worker ==
  \/ WorkerLoop \/ FindNothing \/ Sleep \/ FindStop
  \/ TakeNext \/ Scan \/ Publish \/ WorkerRepaints

Metadata == (\E p \in Paths : Invalidate(p)) \/ MetadataRepaints

User ==
  \/ \E p \in Paths : AddRow(p) \/ KindChanges(p)
  \/ \E gone \in SUBSET rows : RemoveRows(gone)
  \/ Close

Next == Ui \/ Worker \/ Metadata \/ User

Spec == Init /\ [][Next]_vars

\* Threads are scheduled, messages are delivered and scans end
\* (kMaxFolderSizeDuration); nothing else has to happen.
FairSpec == Spec /\ WF_vars(Ui) /\ WF_vars(Worker) /\ WF_vars(Metadata)

-----------------------------------------------------------------------------
\* A size that is painted was measured in the current lifetime of the row: not
\* before it was removed and added again, nor before it became another kind.
PaintedSizeIsCurrent ==
  [][\A p \in Paths : shown'[p] # shown[p] /\ shown'[p] \in Nat => shown'[p] = life[p]]_vars

\* A row on the screen that shows "..." waits for a scan of its own task, or the
\* window is going to be painted again: the flag that coalesces repaint requests
\* never swallows the one that a result or an invalidation needs.  Nor does a
\* row that left the queue stay on the screen.
RepaintIsComing == posted \/ invalid \/ worker = "repaint" \/ metadata = "repaint"
NoRepaintIsLost ==
  \A p \in Paths :
    /\ shown[p] = Waiting =>
         \/ entries[p] # None /\ tasks[entries[p]].state = "pending"
         \/ RepaintIsComing
         \/ p \in todo \/ (ui = "enqueue" /\ row = p)
    /\ p \notin rows => shown[p] = Blank \/ posted \/ invalid

\* A row that shows "..." gets its size, or "--", or leaves the queue, unless the
\* window closes: no wakeup and no repaint of a result is lost.
RowsResolve ==
  \A p \in Paths :
    shown[p] = Waiting ~> shown[p] # Waiting \/ ui \in {"wake", "join", "closed"}

\* main_window_folder_size.cpp: "Requests cooperative stop and joins the thread."
CloseReturns == ui = "wake" ~> ui = "closed"
=============================================================================
