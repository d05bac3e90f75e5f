------------------------- MODULE QueueMetadataProofs -------------------------
(***************************************************************************)
(* What is proved of QueueMetadata, for any paths and any number of rows   *)
(* and changes: its type invariant, that no row shows metadata from before *)
(* it was added, and that an entry which waits for its metadata is in the  *)
(* queue or with the worker, which the liveness property relies on.  And   *)
(* that the worker never sleeps through stop and then ends in four steps.  *)
(***************************************************************************)
EXTENDS QueueMetadata, SequenceTheorems, FiniteSetTheorems, TLAPS

\* A row has the entry that was made for it.
EntryIsOfItsPath == \A p \in Paths : entries[p] # None => objects[entries[p]].path = p

\* What an entry holds, and what the worker has read for the one that it took,
\* is at least as new as the entry.
IsNew(e) ==
  /\ objects[e].born <= disk[objects[e].path]
  /\ objects[e].value # Pending => objects[e].value >= objects[e].born
EntriesAreNew == \A e \in DOMAIN objects : IsNew(e)
ReadIsNew ==
  /\ worker \in {"read", "store"} => taken \in DOMAIN objects
  /\ worker = "store" => value >= objects[taken].born

\* An entry that a row waits for is in the queue or with the worker.
Queued(e) == \E i \in DOMAIN queue : queue[i] = e
WithWorker(e) == worker \in {"read", "store"} /\ taken = e
PendingIsScheduled ==
  \A p \in Paths :
    entries[p] # None /\ objects[entries[p]].pending /\ ~stopped
      => Queued(entries[p]) \/ WithWorker(entries[p])

StartedFirst == worker # "none" => started

Inv ==
  /\ TypeOK /\ EntryIsOfItsPath /\ EntriesAreNew /\ ReadIsNew
  /\ PendingIsScheduled /\ StartedFirst

-----------------------------------------------------------------------------
(* The queue *)

\* The places that stay are finitely many.
LEMMA KeptIsFinite ==
  ASSUME TypeOK, NEW gone
  PROVE  IsFiniteSet(Kept(gone)) /\ Cardinality(Kept(gone)) \in Nat
<1>1. DOMAIN queue = 1 .. Len(queue) /\ Len(queue) \in Nat
  BY LenProperties DEF TypeOK
<1>2. IsFiniteSet(1 .. Len(queue)) /\ Kept(gone) \in SUBSET (1 .. Len(queue))
  BY <1>1, FS_Interval DEF Kept
<1>3. QED
  BY <1>2, FS_Subset, FS_CardinalityType

\* Every place in what stays comes from a place of the queue.
LEMMA KeptQueue ==
  ASSUME TypeOK, NEW gone, NEW order \in InOrder(Kept(gone)),
         queue' = [i \in DOMAIN order |-> queue[order[i]]]
  PROVE  /\ queue' \in Seq(DOMAIN objects)
         /\ \A i \in DOMAIN queue :
              objects[queue[i]].path \notin gone => \E k \in DOMAIN queue' : queue'[k] = queue[i]
<1> DEFINE n == Cardinality(Kept(gone))
<1>1. n \in Nat /\ order \in [1 .. n -> Kept(gone)] /\ DOMAIN order = 1 .. n
  BY KeptIsFinite DEF InOrder
<1>2. \A i \in 1 .. n : order[i] \in DOMAIN queue
  BY <1>1 DEF Kept
<1>3. \A i \in DOMAIN queue : queue[i] \in DOMAIN objects
  BY ElementOfSeq, LenProperties DEF TypeOK
<1>4. queue' \in [1 .. n -> DOMAIN objects]
  BY <1>1, <1>2, <1>3
<1>5. queue' \in Seq(DOMAIN objects)
  BY <1>1, <1>4, IsASeq
<1>6. ASSUME NEW i \in DOMAIN queue, objects[queue[i]].path \notin gone
      PROVE  \E k \in DOMAIN queue' : queue'[k] = queue[i]
  <2>1. i \in Kept(gone)
    BY <1>6 DEF Kept
  <2>2. PICK k \in DOMAIN order : order[k] = i
    BY <2>1 DEF InOrder
  <2>3. QED
    BY <1>1, <2>2
<1>7. QED
  BY <1>5, <1>6

-----------------------------------------------------------------------------
(* Inv is inductive *)

LEMMA InitInv == Init => Inv
<1> SUFFICES ASSUME Init PROVE Inv
  OBVIOUS
<1>1. disk \in [Paths -> 1 .. MaxChanges + 1]
  BY QueueMetadataAssumption DEF Init
<1>2. objects \in Seq(Entry) /\ queue \in Seq(DOMAIN objects) /\ Len(objects) = 0 /\ DOMAIN objects = {}
  BY EmptySeq DEF Init
<1>3. entries \in [Paths -> 0 .. 0] /\ taken = 0 /\ value = 0
  BY DEF Init, None, Pending
<1>4. TypeOK
  <2>1. entries \in [Paths -> 0 .. Len(objects)] /\ taken \in 0 .. Len(objects)
    BY <1>2, <1>3
  <2>2. value \in 0 .. MaxChanges + 1
    BY <1>3, QueueMetadataAssumption
  <2>3. QED
    BY <1>1, <1>2, <2>1, <2>2 DEF Init, TypeOK
<1>5. QED
  BY <1>2, <1>3, <1>4 DEF Init, Inv, EntryIsOfItsPath, EntriesAreNew, ReadIsNew, PendingIsScheduled,
    StartedFirst, None

LEMMA AddRowKeepsInv ==
  ASSUME Inv, NEW p \in Paths, AddRow(p) PROVE Inv'
<1> DEFINE new == [path |-> p, value |-> Pending, pending |-> FALSE, born |-> disk[p]]
           n == Len(objects)
<1>1. /\ entries[p] = None /\ objects' = Append(objects, new)
      /\ entries' = [entries EXCEPT ![p] = n + 1]
      /\ UNCHANGED <<disk, queue, started, worker, taken, value, stopped, ui>>
  BY DEF AddRow, thread
<1>2. new \in Entry
  BY QueueMetadataAssumption DEF Inv, TypeOK, Entry, Pending
<1>3. /\ n \in Nat /\ DOMAIN objects = 1 .. n
      /\ objects' \in Seq(Entry) /\ Len(objects') = n + 1 /\ DOMAIN objects' = 1 .. n + 1
      /\ \A e \in 1 .. n : objects'[e] = objects[e]
      /\ objects'[n + 1] = new
  <2>1. objects \in Seq(Entry)
    BY DEF Inv, TypeOK
  <2>2. /\ objects' \in Seq(Entry) /\ Len(objects') = n + 1
        /\ \A e \in 1 .. n : objects'[e] = objects[e]
        /\ objects'[n + 1] = new
    BY <1>1, <1>2, <2>1, AppendProperties
  <2>3. QED
    BY <2>1, <2>2, LenProperties
<1>4. entries' \in [Paths -> 0 .. n + 1]
  BY <1>1, <1>3 DEF Inv, TypeOK
<1>5. queue' \in Seq(DOMAIN objects')
  BY <1>1, <1>3, SeqMonotonic DEF Inv, TypeOK
<1>6. TypeOK'
  BY <1>1, <1>3, <1>4, <1>5 DEF Inv, TypeOK
<1>7. ASSUME NEW q \in Paths, entries'[q] # None
      PROVE  \/ q = p /\ entries'[q] = n + 1
             \/ q # p /\ entries'[q] = entries[q] /\ entries[q] \in 1 .. n
  BY <1>1, <1>3, <1>7 DEF Inv, TypeOK, None
<1>8. EntryIsOfItsPath'
  BY <1>3, <1>7 DEF Inv, EntryIsOfItsPath
<1>9. EntriesAreNew'
  <2>1. ASSUME NEW e \in 1 .. n PROVE IsNew(e)'
    BY <1>1, <1>3 DEF Inv, EntriesAreNew, IsNew
  <2>2. disk[p] \in Nat
    BY QueueMetadataAssumption DEF Inv, TypeOK
  <2>3. /\ objects'[n + 1].born <= disk'[objects'[n + 1].path]
        /\ objects'[n + 1].value = Pending
    BY <1>1, <1>3, <2>2
  <2>4. \A e \in 1 .. n + 1 : e \in 1 .. n \/ e = n + 1
    BY <1>3
  <2>5. QED
    BY <1>3, <2>1, <2>3, <2>4 DEF EntriesAreNew, IsNew
<1>10. ReadIsNew'
  BY <1>1, <1>3 DEF Inv, ReadIsNew
<1>11. PendingIsScheduled'
  BY <1>1, <1>3, <1>7 DEF Inv, PendingIsScheduled, Queued, WithWorker
<1>12. StartedFirst'
  BY <1>1 DEF Inv, StartedFirst
<1>13. QED
  BY <1>6, <1>8, <1>9, <1>10, <1>11, <1>12 DEF Inv

LEMMA RemoveRowsKeepsInv ==
  ASSUME Inv, NEW gone \in SUBSET Paths, RemoveRows(gone) PROVE Inv'
<1>1. /\ entries' = [p \in Paths |-> IF p \in gone THEN None ELSE entries[p]]
      /\ UNCHANGED <<disk, objects, started, worker, taken, value, stopped, ui>>
  BY DEF RemoveRows, thread
<1>2. PICK order \in InOrder(Kept(gone)) : queue' = [i \in DOMAIN order |-> queue[order[i]]]
  BY DEF RemoveRows
<1>3. /\ queue' \in Seq(DOMAIN objects)
      /\ \A i \in DOMAIN queue :
           objects[queue[i]].path \notin gone => \E k \in DOMAIN queue' : queue'[k] = queue[i]
  BY <1>2, KeptQueue DEF Inv
<1>4. \A p \in Paths : entries'[p] # None => p \notin gone /\ entries'[p] = entries[p]
  BY <1>1
<1>5. TypeOK'
  <2>1. entries' \in [Paths -> 0 .. Len(objects)]
    BY <1>1, LenProperties DEF Inv, TypeOK, None
  <2>2. QED
    BY <1>1, <1>3, <2>1 DEF Inv, TypeOK
<1>6. EntryIsOfItsPath'
  BY <1>1, <1>4 DEF Inv, EntryIsOfItsPath
<1>7. EntriesAreNew' /\ ReadIsNew'
  BY <1>1 DEF Inv, EntriesAreNew, IsNew, ReadIsNew
<1>8. PendingIsScheduled'
  <2>1. SUFFICES ASSUME NEW p \in Paths, entries'[p] # None, objects[entries[p]].pending, ~stopped
                 PROVE  Queued(entries[p])' \/ WithWorker(entries[p])
    BY <1>1, <1>4 DEF PendingIsScheduled, WithWorker, Queued
  <2>2. objects[entries[p]].path \notin gone
    BY <1>4, <2>1 DEF Inv, EntryIsOfItsPath
  <2>3. Queued(entries[p]) => Queued(entries[p])'
    BY <1>1, <1>3, <1>4, <2>1, <2>2 DEF Queued
  <2>4. QED
    BY <1>4, <2>1, <2>3 DEF Inv, PendingIsScheduled
<1>9. StartedFirst'
  BY <1>1 DEF Inv, StartedFirst
<1>10. QED
  BY <1>5, <1>6, <1>7, <1>8, <1>9 DEF Inv

\* The entry that is asked for is queued, and it alone is marked as pending.
LEMMA GetKeepsInv ==
  ASSUME Inv, NEW p \in Paths, Get(p) PROVE Inv'
<1> DEFINE e == entries[p]
<1>1. /\ e # None /\ queue' = Append(queue, e)
      /\ objects' = [objects EXCEPT ![e].pending = TRUE]
      /\ started' = TRUE /\ worker' = IF started THEN Woken ELSE "test"
      /\ UNCHANGED <<disk, entries, taken, value, stopped, ui>>
  BY DEF Get
<1>2. e \in DOMAIN objects /\ DOMAIN objects = 1 .. Len(objects) /\ Len(objects) \in Nat
  BY <1>1, LenProperties DEF Inv, TypeOK, None
<1>3. /\ objects' \in Seq(Entry) /\ DOMAIN objects' = DOMAIN objects
      /\ Len(objects') = Len(objects)
      /\ \A a \in DOMAIN objects :
           /\ objects'[a].path = objects[a].path /\ objects'[a].value = objects[a].value
           /\ objects'[a].born = objects[a].born
           /\ a # e => objects'[a] = objects[a]
  <2>0. objects \in [1 .. Len(objects) -> Entry]
    BY LenProperties DEF Inv, TypeOK
  <2>01. [objects[e] EXCEPT !.pending = TRUE] \in Entry
    BY <1>2, <2>0 DEF Entry
  <2>1. objects' \in [1 .. Len(objects) -> Entry]
    BY <1>1, <1>2, <2>0, <2>01
  <2>2. objects' \in Seq(Entry) /\ Len(objects') = Len(objects)
    BY <1>2, <2>1, IsASeq
  <2>3. /\ objects'[e] = [objects[e] EXCEPT !.pending = TRUE] /\ objects[e] \in Entry
        /\ \A a \in DOMAIN objects : a # e => objects'[a] = objects[a]
    BY <1>1, <1>2, <2>0
  <2>4. /\ objects'[e].path = objects[e].path /\ objects'[e].value = objects[e].value
        /\ objects'[e].born = objects[e].born
    BY <2>3 DEF Entry
  <2>5. QED
    BY <1>2, <2>2, <2>3, <2>4, LenProperties
<1>4. /\ queue' \in Seq(DOMAIN objects) /\ Len(queue') = Len(queue) + 1 /\ Len(queue) \in Nat
      /\ \A i \in DOMAIN queue : i \in DOMAIN queue' /\ queue'[i] = queue[i]
      /\ Len(queue') \in DOMAIN queue' /\ queue'[Len(queue')] = e
  <2>1. queue \in Seq(DOMAIN objects)
    BY DEF Inv, TypeOK
  <2>2. /\ queue' \in Seq(DOMAIN objects) /\ Len(queue') = Len(queue) + 1
        /\ \A i \in 1 .. Len(queue) : queue'[i] = queue[i]
        /\ queue'[Len(queue) + 1] = e
    BY <1>1, <1>2, <2>1, AppendProperties
  <2>3. DOMAIN queue = 1 .. Len(queue) /\ DOMAIN queue' = 1 .. Len(queue') /\ Len(queue) \in Nat
    BY <2>1, <2>2, LenProperties
  <2>4. QED
    BY <2>2, <2>3
<1>5. worker' \in {"test", worker} /\ (worker' # worker => worker' = "test")
  BY <1>1 DEF Woken
<1>6. worker' \in {"read", "store"} => worker' = worker
  BY <1>5
<1>7. TypeOK'
  BY <1>1, <1>3, <1>4, <1>5 DEF Inv, TypeOK
<1>8. EntryIsOfItsPath'
  BY <1>1, <1>2, <1>3, LenProperties DEF Inv, TypeOK, EntryIsOfItsPath, None
<1>9. EntriesAreNew' /\ ReadIsNew'
  BY <1>1, <1>3, <1>6 DEF Inv, EntriesAreNew, IsNew, ReadIsNew
<1>10. PendingIsScheduled'
  <2>1. SUFFICES ASSUME NEW q \in Paths, entries[q] # None, objects'[entries[q]].pending, ~stopped
                 PROVE  Queued(entries[q])' \/ WithWorker(entries[q])'
    BY <1>1 DEF PendingIsScheduled
  <2>2. CASE entries[q] = e
    BY <1>1, <1>4, <2>2 DEF Queued
  <2>3. CASE entries[q] # e
    <3>1. entries[q] \in DOMAIN objects
      BY <1>2, <2>1 DEF Inv, TypeOK, None
    <3>2. Queued(entries[q]) \/ WithWorker(entries[q])
      <4>1. objects'[entries[q]] = objects[entries[q]]
        BY <1>3, <2>3, <3>1
      <4>2. objects[entries[q]].pending
        BY <2>1, <4>1
      <4>3. QED
        BY <2>1, <4>2 DEF Inv, PendingIsScheduled
    <3>3. Queued(entries[q]) => Queued(entries[q])'
      BY <1>1, <1>4 DEF Queued
    <3>4. WithWorker(entries[q]) => WithWorker(entries[q])'
      BY <1>1 DEF WithWorker, Woken, Inv, StartedFirst
    <3>5. QED
      BY <3>2, <3>3, <3>4
  <2>4. QED
    BY <2>2, <2>3
<1>11. StartedFirst'
  BY <1>1 DEF StartedFirst
<1>12. QED
  BY <1>7, <1>8, <1>9, <1>10, <1>11 DEF Inv

\* The worker takes the entry that waits longest.
LEMMA TakeKeepsInv == ASSUME Inv, Take PROVE Inv'
<1>1. /\ worker = "test" /\ ~stopped /\ queue # << >>
      /\ taken' = Head(queue) /\ queue' = Tail(queue) /\ worker' = "read"
      /\ UNCHANGED <<disk, entries, objects, started, value, stopped, ui>>
  BY DEF Take
<1>2. queue \in Seq(DOMAIN objects) /\ DOMAIN objects = 1 .. Len(objects) /\ Len(objects) \in Nat
  BY LenProperties DEF Inv, TypeOK
<1>3. /\ Head(queue) \in DOMAIN objects /\ Tail(queue) \in Seq(DOMAIN objects)
      /\ Len(Tail(queue)) = Len(queue) - 1
      /\ \A i \in 1 .. Len(Tail(queue)) : Tail(queue)[i] = queue[i + 1]
  BY <1>1, <1>2, HeadTailProperties
<1>4. \A i \in DOMAIN queue :
        queue[i] = Head(queue) \/ \E k \in DOMAIN Tail(queue) : Tail(queue)[k] = queue[i]
  <2>1. SUFFICES ASSUME NEW i \in DOMAIN queue, i # 1
                 PROVE  \E k \in DOMAIN Tail(queue) : Tail(queue)[k] = queue[i]
    BY <1>1, <1>2
  <2>2. /\ Len(queue) \in Nat /\ DOMAIN queue = 1 .. Len(queue)
        /\ DOMAIN Tail(queue) = 1 .. Len(Tail(queue))
    BY <1>2, <1>3, LenProperties
  <2>3. i - 1 \in DOMAIN Tail(queue) /\ i = (i - 1) + 1
    BY <1>3, <2>1, <2>2
  <2>4. QED
    BY <1>3, <2>2, <2>3
<1>5. TypeOK'
  BY <1>1, <1>2, <1>3 DEF Inv, TypeOK
<1>6. EntryIsOfItsPath' /\ EntriesAreNew' /\ StartedFirst'
  BY <1>1 DEF Inv, EntryIsOfItsPath, EntriesAreNew, IsNew, StartedFirst
<1>7. ReadIsNew'
  BY <1>1, <1>3 DEF ReadIsNew
<1>8. PendingIsScheduled'
  BY <1>1, <1>4 DEF Inv, PendingIsScheduled, Queued, WithWorker
<1>9. QED
  BY <1>5, <1>6, <1>7, <1>8 DEF Inv

LEMMA ReadKeepsInv == ASSUME Inv, Read PROVE Inv'
<1>1. /\ worker = "read" /\ value' = disk[objects[taken].path] /\ worker' = "store"
      /\ UNCHANGED <<disk, entries, objects, queue, started, taken, stopped, ui>>
  BY DEF Read
<1>2. taken \in DOMAIN objects /\ objects[taken] \in Entry
  BY <1>1, ElementOfSeq, LenProperties DEF Inv, ReadIsNew, TypeOK
<1>3. value' \in 0 .. MaxChanges + 1 /\ value' >= objects[taken].born
  <2>1. disk[objects[taken].path] \in 1 .. MaxChanges + 1 /\ objects[taken].born \in 1 .. MaxChanges + 1
    BY <1>2 DEF Inv, TypeOK, Entry
  <2>2. objects[taken].born <= disk[objects[taken].path]
    BY <1>2 DEF Inv, EntriesAreNew, IsNew
  <2>3. QED
    BY <1>1, <2>1, <2>2, QueueMetadataAssumption
<1>4. TypeOK'
  BY <1>1, <1>3 DEF Inv, TypeOK
<1>5. ReadIsNew'
  BY <1>1, <1>2, <1>3 DEF ReadIsNew
<1>6. EntryIsOfItsPath' /\ EntriesAreNew' /\ StartedFirst' /\ PendingIsScheduled'
  BY <1>1 DEF Inv, EntryIsOfItsPath, EntriesAreNew, IsNew, StartedFirst, PendingIsScheduled, Queued, WithWorker
<1>7. QED
  BY <1>4, <1>5, <1>6 DEF Inv

\* A result is stored only in the entry it was read for.
LEMMA StoreKeepsInv == ASSUME Inv, Store PROVE Inv'
<1>1. /\ worker = "store" /\ taken' = None /\ value' = Pending
      /\ UNCHANGED <<disk, entries, queue, started, stopped, ui>>
  BY DEF Store
<1>2. /\ taken \in DOMAIN objects /\ objects[taken] \in Entry
      /\ DOMAIN objects = 1 .. Len(objects) /\ Len(objects) \in Nat
  BY <1>1, ElementOfSeq, LenProperties DEF Inv, ReadIsNew, TypeOK
<1>3. 0 \in 0 .. Len(objects) /\ 0 \in 0 .. MaxChanges + 1
  BY <1>2, QueueMetadataAssumption
<1>4. CASE ~MayStore
  <2>1. worker' = "test" /\ UNCHANGED objects
    BY <1>4 DEF Store
  <2>2. TypeOK'
    BY <1>1, <1>3, <2>1 DEF Inv, TypeOK, None, Pending
  <2>3. EntryIsOfItsPath' /\ EntriesAreNew' /\ StartedFirst' /\ ReadIsNew'
    BY <1>1, <2>1 DEF Inv, EntryIsOfItsPath, EntriesAreNew, IsNew, StartedFirst, ReadIsNew
  <2>4. PendingIsScheduled'
    <3>1. SUFFICES ASSUME NEW p \in Paths, entries[p] # None, objects[entries[p]].pending, ~stopped
                   PROVE  Queued(entries[p])
      BY <1>1, <2>1 DEF PendingIsScheduled, Queued
    <3>2. entries[p] # taken
      BY <1>4, <3>1 DEF MayStore, Inv, EntryIsOfItsPath
    <3>3. QED
      BY <3>1, <3>2 DEF Inv, PendingIsScheduled, WithWorker
  <2>5. QED
    BY <2>2, <2>3, <2>4 DEF Inv
<1>5. CASE MayStore
  <2> DEFINE new == [objects[taken] EXCEPT !.value = value, !.pending = FALSE]
  <2>1. /\ worker' = "notify" /\ entries[objects[taken].path] = taken
        /\ objects' = [objects EXCEPT ![taken].value = value, ![taken].pending = FALSE]
    BY <1>5 DEF Store, MayStore
  <2>2. /\ new \in Entry /\ new.path = objects[taken].path /\ new.born = objects[taken].born
        /\ new.value = value /\ ~new.pending
    <3>1. value \in 0 .. MaxChanges + 1
      BY DEF Inv, TypeOK
    <3>2. QED
      BY <1>2, <3>1 DEF Entry
  <2>3. objects \in [1 .. Len(objects) -> Entry]
    BY LenProperties DEF Inv, TypeOK
  <2>4. objects' = [objects EXCEPT ![taken] = new]
    BY <1>2, <2>1, <2>3
  <2> HIDE DEF new
  <2>5. /\ objects' \in [1 .. Len(objects) -> Entry] /\ objects'[taken] = new
        /\ \A e \in DOMAIN objects : e # taken => objects'[e] = objects[e]
    BY <1>2, <2>2, <2>3, <2>4
  <2>6. objects' \in Seq(Entry) /\ Len(objects') = Len(objects) /\ DOMAIN objects' = DOMAIN objects
    BY <1>2, <2>5, IsASeq, LenProperties
  <2>7. TypeOK'
    BY <1>1, <1>3, <2>1, <2>6 DEF Inv, TypeOK, None, Pending
  <2>8. \A e \in DOMAIN objects : objects'[e].path = objects[e].path
    BY <2>2, <2>5
  <2>9. EntryIsOfItsPath'
    BY <1>1, <1>2, <2>8 DEF Inv, TypeOK, EntryIsOfItsPath, None
  <2>10. EntriesAreNew'
    <3>1. ASSUME NEW e \in DOMAIN objects
          PROVE  /\ objects'[e].born <= disk'[objects'[e].path]
                 /\ objects'[e].value # Pending => objects'[e].value >= objects'[e].born
      <4>1. CASE e = taken
        BY <1>1, <1>2, <2>2, <2>5, <4>1 DEF Inv, EntriesAreNew, IsNew, ReadIsNew
      <4>2. CASE e # taken
        BY <1>1, <2>5, <4>2 DEF Inv, EntriesAreNew, IsNew
      <4>3. QED
        BY <4>1, <4>2
    <3>2. QED
      BY <2>6, <3>1 DEF EntriesAreNew, IsNew
  <2>11. PendingIsScheduled'
    <3>1. SUFFICES ASSUME NEW p \in Paths, entries[p] # None, objects'[entries[p]].pending, ~stopped
                   PROVE  Queued(entries[p])
      BY <1>1 DEF PendingIsScheduled, Queued
    <3>2. entries[p] # taken /\ entries[p] \in DOMAIN objects
      BY <1>2, <2>2, <2>5, <3>1 DEF Inv, TypeOK, None
    <3>3. objects'[entries[p]] = objects[entries[p]]
      BY <2>5, <3>2
    <3>4. objects[entries[p]].pending
      BY <3>1, <3>3
    <3>5. QED
      BY <3>1, <3>2, <3>4 DEF Inv, PendingIsScheduled, WithWorker
  <2>12. StartedFirst' /\ ReadIsNew'
    BY <1>1, <2>1 DEF Inv, StartedFirst, ReadIsNew
  <2>13. QED
    BY <2>7, <2>9, <2>10, <2>11, <2>12 DEF Inv
<1>6. QED
  BY <1>4, <1>5

\* The steps that change neither the queue nor an entry.
LEMMA OthersKeepInv ==
  ASSUME Inv, FindNothing \/ Sleep \/ FindStop \/ Notify \/ NotifyAll \/ Join \/ UNCHANGED vars
  PROVE  Inv'
<1>1. /\ UNCHANGED <<disk, entries, objects, queue, taken, value, stopped, started>>
      /\ worker' \in {"read", "store", "none"} <=> worker \in {"read", "store", "none"}
      /\ worker' \in {"read", "store", "none"} => worker' = worker
  BY DEF FindNothing, Sleep, FindStop, Notify, NotifyAll, Join, vars, thread, Woken
<1>2. /\ worker' \in {"none", "test", "sleep", "wait", "read", "store", "notify", "ended"}
      /\ ui' \in {"idle", "wake", "join", "closed"}
  BY DEF Inv, TypeOK, FindNothing, Sleep, FindStop, Notify, NotifyAll, Join, vars, thread, Woken
<1>3. TypeOK'
  BY <1>1, <1>2 DEF Inv, TypeOK
<1>4. EntryIsOfItsPath' /\ EntriesAreNew' /\ StartedFirst' /\ ReadIsNew'
  BY <1>1 DEF Inv, EntryIsOfItsPath, EntriesAreNew, IsNew, StartedFirst, ReadIsNew
<1>5. PendingIsScheduled'
  BY <1>1 DEF Inv, PendingIsScheduled, Queued, WithWorker
<1>6. QED
  BY <1>3, <1>4, <1>5 DEF Inv

LEMMA StopKeepsInv == ASSUME Inv, Stop PROVE Inv'
<1>1. /\ stopped' = TRUE /\ queue' = << >> /\ ui' = "wake"
      /\ UNCHANGED <<disk, entries, objects, started, worker, taken, value>>
  BY DEF Stop, thread
<1>2. << >> \in Seq(DOMAIN objects)
  BY EmptySeq
<1>3. TypeOK'
  BY <1>1, <1>2 DEF Inv, TypeOK
<1>4. EntryIsOfItsPath' /\ EntriesAreNew' /\ StartedFirst' /\ ReadIsNew' /\ PendingIsScheduled'
  BY <1>1 DEF Inv, EntryIsOfItsPath, EntriesAreNew, IsNew, StartedFirst, ReadIsNew, PendingIsScheduled
<1>5. QED
  BY <1>3, <1>4 DEF Inv

\* A file only gets newer.
LEMMA ChangeKeepsInv == ASSUME Inv, NEW p \in Paths, Change(p) PROVE Inv'
<1>1. /\ disk[p] <= MaxChanges /\ disk' = [disk EXCEPT ![p] = @ + 1]
      /\ UNCHANGED <<entries, objects, queue, started, worker, taken, value, stopped, ui>>
  BY DEF Change, thread
<1>2. disk' \in [Paths -> 1 .. MaxChanges + 1] /\ \A q \in Paths : disk[q] <= disk'[q]
  BY <1>1, QueueMetadataAssumption DEF Inv, TypeOK
<1>3. TypeOK'
  BY <1>1, <1>2 DEF Inv, TypeOK
<1>4. EntriesAreNew'
  <2>1. ASSUME NEW e \in DOMAIN objects PROVE objects[e].born <= disk'[objects[e].path]
    <3>1. objects[e] \in Entry
      BY ElementOfSeq, LenProperties DEF Inv, TypeOK
    <3>2. /\ disk[objects[e].path] \in Nat /\ disk'[objects[e].path] \in Nat
          /\ disk[objects[e].path] <= disk'[objects[e].path] /\ objects[e].born \in Nat
      <4>1. objects[e].path \in Paths /\ objects[e].born \in 1 .. MaxChanges + 1
        BY <3>1 DEF Entry
      <4>2. disk \in [Paths -> 1 .. MaxChanges + 1]
        BY DEF Inv, TypeOK
      <4>3. \A n \in 1 .. MaxChanges + 1 : n \in Nat
        BY QueueMetadataAssumption
      <4>4. QED
        BY <1>2, <4>1, <4>2, <4>3
    <3>3. objects[e].born <= disk[objects[e].path]
      BY DEF Inv, EntriesAreNew, IsNew
    <3>4. QED
      BY <3>2, <3>3
  <2>2. QED
    BY <1>1, <2>1 DEF Inv, EntriesAreNew, IsNew
<1>5. EntryIsOfItsPath' /\ StartedFirst' /\ ReadIsNew' /\ PendingIsScheduled'
  BY <1>1 DEF Inv, EntryIsOfItsPath, StartedFirst, ReadIsNew, PendingIsScheduled, Queued, WithWorker
<1>6. QED
  BY <1>3, <1>4, <1>5 DEF Inv

-----------------------------------------------------------------------------
(* The theorems *)

LEMMA InvKept == Inv /\ [Next]_vars => Inv'
<1> SUFFICES ASSUME Inv, [Next]_vars PROVE Inv'
  OBVIOUS
<1>1. CASE Take
  BY <1>1, TakeKeepsInv
<1>2. CASE Read
  BY <1>2, ReadKeepsInv
<1>3. CASE Store
  BY <1>3, StoreKeepsInv
<1>4. ASSUME NEW p \in Paths, AddRow(p) PROVE Inv'
  BY <1>4, AddRowKeepsInv
<1>5. ASSUME NEW p \in Paths, Get(p) PROVE Inv'
  BY <1>5, GetKeepsInv
<1>6. ASSUME NEW gone \in SUBSET Paths, RemoveRows(gone) PROVE Inv'
  BY <1>6, RemoveRowsKeepsInv
<1>7. CASE Stop
  BY <1>7, StopKeepsInv
<1>8. ASSUME NEW p \in Paths, Change(p) PROVE Inv'
  BY <1>8, ChangeKeepsInv
<1>9. CASE FindNothing \/ Sleep \/ FindStop \/ Notify \/ NotifyAll \/ Join \/ UNCHANGED vars
  BY <1>9, OthersKeepInv
<1>10. QED
  BY <1>1, <1>2, <1>3, <1>4, <1>5, <1>6, <1>7, <1>8, <1>9 DEF Next, Worker, Closing, User

LEMMA InvAlways == Spec => []Inv
BY InitInv, InvKept, PTL DEF Spec

\* Every variable keeps its type, and the queue and the worker hold entries only.
THEOREM TypeCorrect == Spec => []TypeOK
<1>1. Inv => TypeOK
  BY DEF Inv
<1>2. QED
  BY <1>1, InvAlways, PTL

\* What a row shows was read after the row was added, also when the path was
\* removed and added again while the worker was reading.
THEOREM ValuesAreOfThisRow == Spec => []ValueIsOfThisRow
<1>1. Inv => ValueIsOfThisRow
  <2> SUFFICES ASSUME Inv, NEW p \in Paths, entries[p] # None
               PROVE  LET entry == objects[entries[p]]
                      IN  entry.path = p /\ (entry.value # Pending => entry.value >= entry.born)
    BY DEF ValueIsOfThisRow
  <2>1. entries[p] \in DOMAIN objects
    BY LenProperties DEF Inv, TypeOK, None
  <2>2. QED
    BY <2>1 DEF Inv, EntryIsOfItsPath, EntriesAreNew, IsNew
<1>2. QED
  BY <1>1, InvAlways, PTL

\* No request is lost: a row that waits for its metadata has its entry in the
\* queue or with the worker, whatever rows come and go, until the window closes.
THEOREM NoRequestIsLost == Spec => []PendingIsScheduled
<1>1. Inv => PendingIsScheduled
  BY DEF Inv
<1>2. QED
  BY <1>1, InvAlways, PTL

-----------------------------------------------------------------------------
(* Stopping the worker *)

\* The flag is set as long as stop is under way, the worker does not find its
\* predicate false then, and it is not blocked once it has been notified.
StopIsSeen ==
  /\ ui # "idle" => stopped /\ worker # "sleep"
  /\ ui \in {"join", "closed"} => worker # "wait"
  /\ started <=> worker # "none"

LEMMA StopIsSeenStep == Inv /\ StopIsSeen /\ [Next]_vars => StopIsSeen'
<1> SUFFICES ASSUME Inv, StopIsSeen, [Next]_vars PROVE StopIsSeen'
  OBVIOUS
<1> USE DEF StopIsSeen
<1>1. CASE Worker
  BY <1>1 DEF Worker, FindNothing, Sleep, FindStop, Take, Read, Store, Notify
<1>2. CASE Closing
  BY <1>2 DEF Closing, NotifyAll, Join, Woken, thread
<1>3. ASSUME NEW p \in Paths, AddRow(p) \/ Get(p) \/ Change(p) PROVE StopIsSeen'
  BY <1>3 DEF AddRow, Get, Change, Woken, MutexFree, thread
<1>4. ASSUME NEW gone \in SUBSET Paths, RemoveRows(gone) PROVE StopIsSeen'
  BY <1>4 DEF RemoveRows, thread
<1>5. CASE Stop
  BY <1>5 DEF Stop, MutexFree, thread
<1>6. CASE UNCHANGED vars
  BY <1>6 DEF vars, thread
<1> QED
  BY <1>1, <1>2, <1>3, <1>4, <1>5, <1>6 DEF Next, User

LEMMA StopIsSeenAlways == Spec => [](Inv /\ StopIsSeen)
<1>1. Init => StopIsSeen
  BY DEF Init, StopIsSeen
<1> QED
  BY <1>1, InitInv, InvKept, StopIsSeenStep, PTL DEF Spec

\* QueueMetadataCache::stop: the notification is never lost, at whatever step
\* of the worker stop is called.
THEOREM StopIsNotMissed == Spec => []NoWorkerSleepsThroughStop
<1>1. StopIsSeen => NoWorkerSleepsThroughStop
  BY DEF StopIsSeen, NoWorkerSleepsThroughStop
<1> QED
  BY <1>1, StopIsSeenAlways, PTL

\* The steps of the worker before it ends, once it is notified.
StepsToEnd == [read |-> 4, store |-> 3, notify |-> 2, test |-> 1, ended |-> 0, none |-> 0]

\* Joined, the worker ends after at most four of its own steps, and until it has
\* ended it can take one: it waits for nobody.
THEOREM JoinIsShort ==
  Spec => /\ [](ui = "join" => worker \in DOMAIN StepsToEnd)
          /\ [][ui = "join" /\ Worker => StepsToEnd[worker'] < StepsToEnd[worker]]_vars
<1>1. Inv /\ StopIsSeen => (ui = "join" => worker \in DOMAIN StepsToEnd)
  BY DEF Inv, TypeOK, StopIsSeen, StepsToEnd
<1>2. ASSUME Inv, StopIsSeen, ui = "join", Worker PROVE StepsToEnd[worker'] < StepsToEnd[worker]
  <2>1. /\ StepsToEnd["read"] = 4 /\ StepsToEnd["store"] = 3 /\ StepsToEnd["notify"] = 2
        /\ StepsToEnd["test"] = 1 /\ StepsToEnd["ended"] = 0
    BY DEF StepsToEnd
  <2>2. stopped /\ worker \notin {"sleep", "wait"}
    BY <1>2 DEF StopIsSeen
  <2>3. \/ worker = "test" /\ worker' = "ended"
        \/ worker = "read" /\ worker' = "store"
        \/ worker = "store" /\ worker' \in {"notify", "test"}
        \/ worker = "notify" /\ worker' = "test"
    BY <1>2, <2>2 DEF Worker, FindNothing, Sleep, FindStop, Take, Read, Store, Notify
  <2> QED
    BY <2>1, <2>3
<1> QED
  BY <1>1, <1>2, StopIsSeenAlways, PTL DEF Spec
=============================================================================
