-------------------------- MODULE PublicationProofs --------------------------
(***************************************************************************)
(* What is proved of Publication for any number of transactions, targets   *)
(* and suffixes: its type invariant, its safety invariants, the no-        *)
(* overwrite action property and the implementation of AtomicOutput.  The  *)
(* safety invariants are not inductive alone; Inv adds what each stage of  *)
(* a transaction knows about its staging directory and its outcome.        *)
(***************************************************************************)
EXTENDS Publication, TLAPS

\* A running transaction names a directory nobody else names, the others none.
Ownership ==
  \A t \in Txs :
    /\ pc[t] \in Running => dir[t] \in Dirs
    /\ pc[t] \notin Running => dir[t] = NoDir
    /\ \A u \in Txs \ {t} : dir[t] # NoDir => dir[u] # dir[t]

\* The payload of a running transaction at each stage.
PayloadByStage ==
  \A t \in Txs :
    /\ Pinned(t) => dir[t] \in dirs
    /\ pc[t] \in {"reserving", "reserved", "renamed"} => payload[dir[t]] = Absent
    /\ pc[t] = "writing" => payload[dir[t]] = Partial(t)
    /\ pc[t] = "closed" => payload[dir[t]] = Complete(t)
    /\ pc[t] = "unwinding" =>
         payload[dir[t]] \in {Absent, Partial(t), Complete(t)}

\* The outcome of a transaction at each stage.
OutcomeByStage ==
  \A t \in Txs :
    /\ pc[t] \in {"idle", "reserving", "reserved", "writing", "closed"} =>
         outcome[t] = "pending"
    /\ pc[t] \in {"renamed", "done"} => outcome[t] = "published"
    /\ pc[t] \in {"unwinding", "failed"} => outcome[t] = "abandoned"

Inv ==
  /\ TypeOK
  /\ Ownership
  /\ PayloadByStage
  /\ OutcomeByStage
  /\ FinalNeverPartial
  /\ NothingLeftBehind

-----------------------------------------------------------------------------
\* A file that somebody has written is not the value that stands for none.
LEMMA FilesAreFiles ==
  /\ UserFile \in Files /\ UserFile.whole /\ UserFile # Absent
  /\ \A t \in Txs : /\ Complete(t) \in Files /\ Partial(t) \in Files
                   /\ Complete(t).whole
                   /\ Complete(t) # Absent /\ Partial(t) # Absent
<1>1. /\ UserFile \in Files /\ UserFile.whole
      /\ \A t \in Txs : Complete(t) \in Files /\ Partial(t) \in Files /\ Complete(t).whole
  BY DEF Complete, Partial, UserFile, Files
<1>2. Absent \notin Files
  BY PublicationAssumption
<1>3. QED
  BY <1>1, <1>2

\* Inv holds in every initial state.
LEMMA InvInit == Init => Inv
<1> SUFFICES ASSUME Init PROVE Inv
  OBVIOUS
<1>1. TypeOK
  BY FilesAreFiles DEF Init, TypeOK, Outcomes, Stages, Running
<1>2. Ownership
  BY DEF Init, Ownership, Running
<1>3. PayloadByStage
  BY DEF Init, PayloadByStage, Pinned, Running
<1>4. OutcomeByStage
  BY DEF Init, OutcomeByStage
<1>5. FinalNeverPartial
  BY DEF Init, FinalNeverPartial, UserFile
<1>6. NothingLeftBehind
  BY DEF Init, NothingLeftBehind
<1>7. QED
  BY <1>1, <1>2, <1>3, <1>4, <1>5, <1>6 DEF Inv

\* Every step keeps every variable in its type.
LEMMA TypeStep == TypeOK /\ Ownership /\ [Next]_vars => TypeOK'
<1> SUFFICES ASSUME TypeOK, Ownership, [Next]_vars PROVE TypeOK'
  OBVIOUS
<1> USE DEF TypeOK, Stages, Running, Outcomes, Go, Abandon, fs
<1>1. ASSUME NEW t \in Txs, MakeStagingDirectory(t) PROVE TypeOK'
  BY <1>1 DEF MakeStagingDirectory, Dirs, Requests
<1>2. ASSUME NEW t \in Txs, PinStagingDirectory(t) PROVE TypeOK'
  BY <1>2 DEF PinStagingDirectory
<1>3. ASSUME NEW t \in Txs, PinFails(t) PROVE TypeOK'
  BY <1>3 DEF PinFails
<1>4. ASSUME NEW t \in Txs, ReserveFails(t) PROVE TypeOK'
  BY <1>4 DEF ReserveFails
<1>5. ASSUME NEW t \in Txs, OpenPayload(t) PROVE TypeOK'
  BY <1>5, FilesAreFiles DEF OpenPayload
<1>6. ASSUME NEW t \in Txs, FinishPayload(t) PROVE TypeOK'
  BY <1>6, FilesAreFiles DEF FinishPayload
<1>7. ASSUME NEW t \in Txs, Throws(t) PROVE TypeOK'
  BY <1>7 DEF Throws
<1>8. ASSUME NEW t \in Txs, Rename(t) PROVE TypeOK'
  <2>1. dir[t] \in Dirs
    BY <1>8 DEF Rename, Ownership
  <2>2. payload[dir[t]] \in Files \cup {Absent}
    BY <2>1
  <2>3. /\ final' \in [Targets -> Files \cup {Absent}]
        /\ payload' \in [Dirs -> Files \cup {Absent}]
    BY <1>8, <2>2 DEF Rename
  <2>4. QED
    BY <1>8, <2>3 DEF Rename
<1>9. ASSUME NEW t \in Txs, RenameRefused(t) PROVE TypeOK'
  BY <1>9 DEF RenameRefused
<1>10. ASSUME NEW t \in Txs, CleanupAfterCommit(t) PROVE TypeOK'
  <2>1. dir[t] \in Dirs
    BY <1>10 DEF CleanupAfterCommit, Ownership
  <2>2. QED
    BY <1>10, <2>1 DEF CleanupAfterCommit, RemoveStaging
<1>11. ASSUME NEW t \in Txs, CleanupOnUnwind(t) PROVE TypeOK'
  <2>1. dir[t] \in Dirs
    BY <1>11 DEF CleanupOnUnwind, Ownership
  <2>2. QED
    BY <1>11, <2>1 DEF CleanupOnUnwind, RemoveStaging
<1>12. ASSUME NEW t \in Txs, Kill(t) PROVE TypeOK'
  BY <1>12 DEF Kill
<1>13. ASSUME NEW g \in Targets, UserCreates(g) PROVE TypeOK'
  BY <1>13, FilesAreFiles DEF UserCreates
<1>14. ASSUME NEW g \in Targets, UserDeletes(g) PROVE TypeOK'
  BY <1>14 DEF UserDeletes
<1>15. ASSUME NEW d \in Dirs, UserRemovesStaging(d) PROVE TypeOK'
  BY <1>15 DEF UserRemovesStaging
<1>16. CASE UNCHANGED vars
  BY <1>16 DEF vars
<1>17. QED
  BY <1>1, <1>2, <1>3, <1>4, <1>5, <1>6, <1>7, <1>8, <1>9, <1>10, <1>11,
     <1>12, <1>13, <1>14, <1>15, <1>16 DEF Next, Step, Environment

\* Reservations stay apart.
LEMMA OwnershipStep == Inv /\ [Next]_vars => Ownership'
<1> SUFFICES ASSUME Inv, [Next]_vars PROVE Ownership'
  OBVIOUS
<1> USE DEF Inv, TypeOK, Go, Abandon, fs, Running, Ownership, Stages, Pinned
<1>1. ASSUME NEW t \in Txs, MakeStagingDirectory(t) PROVE Ownership'
  <2>1. PICK s \in Suffixes :
          /\ \A u \in Txs : dir[u] # <<request[t].target, s>>
          /\ dir' = [dir EXCEPT ![t] = <<request[t].target, s>>]
    BY <1>1 DEF MakeStagingDirectory
  <2>2. <<request[t].target, s>> \in Dirs
    BY DEF Dirs, Requests
  <2>3. QED
    BY <1>1, <2>1, <2>2 DEF MakeStagingDirectory
<1>2. ASSUME NEW t \in Txs, PinStagingDirectory(t) PROVE Ownership'
  BY <1>2, PublicationAssumption DEF PinStagingDirectory
<1>3. ASSUME NEW t \in Txs, PinFails(t) PROVE Ownership'
  BY <1>3, PublicationAssumption DEF PinFails
<1>4. ASSUME NEW t \in Txs, ReserveFails(t) PROVE Ownership'
  BY <1>4, PublicationAssumption DEF ReserveFails
<1>5. ASSUME NEW t \in Txs, OpenPayload(t) PROVE Ownership'
  BY <1>5, PublicationAssumption DEF OpenPayload
<1>6. ASSUME NEW t \in Txs, FinishPayload(t) PROVE Ownership'
  BY <1>6, PublicationAssumption DEF FinishPayload
<1>7. ASSUME NEW t \in Txs, Throws(t) PROVE Ownership'
  BY <1>7, PublicationAssumption DEF Throws
<1>8. ASSUME NEW t \in Txs, Rename(t) PROVE Ownership'
  BY <1>8, PublicationAssumption DEF Rename
<1>9. ASSUME NEW t \in Txs, RenameRefused(t) PROVE Ownership'
  BY <1>9, PublicationAssumption DEF RenameRefused
<1>10. ASSUME NEW t \in Txs, CleanupAfterCommit(t) PROVE Ownership'
  BY <1>10, PublicationAssumption DEF CleanupAfterCommit, RemoveStaging
<1>11. ASSUME NEW t \in Txs, CleanupOnUnwind(t) PROVE Ownership'
  BY <1>11, PublicationAssumption DEF CleanupOnUnwind, RemoveStaging
<1>12. ASSUME NEW t \in Txs, Kill(t) PROVE Ownership'
  BY <1>12, PublicationAssumption DEF Kill
<1>13. ASSUME NEW g \in Targets, UserCreates(g) PROVE Ownership'
  BY <1>13, PublicationAssumption DEF UserCreates
<1>14. ASSUME NEW g \in Targets, UserDeletes(g) PROVE Ownership'
  BY <1>14, PublicationAssumption DEF UserDeletes
<1>15. ASSUME NEW d \in Dirs, UserRemovesStaging(d) PROVE Ownership'
  BY <1>15, PublicationAssumption DEF UserRemovesStaging
<1>16. CASE UNCHANGED vars
  BY <1>16 DEF vars
<1>17. QED
  BY <1>1, <1>2, <1>3, <1>4, <1>5, <1>6, <1>7, <1>8, <1>9, <1>10, <1>11,
     <1>12, <1>13, <1>14, <1>15, <1>16 DEF Next, Step, Environment

\* Nobody but its owner touches a payload, and a pinned directory stays.
LEMMA PayloadStep == Inv /\ [Next]_vars => PayloadByStage'
<1> SUFFICES ASSUME Inv, [Next]_vars PROVE PayloadByStage'
  OBVIOUS
<1> USE DEF Inv, TypeOK, Go, Abandon, fs, Running, Ownership, PayloadByStage, Stages, Pinned
<1>1. ASSUME NEW t \in Txs, MakeStagingDirectory(t) PROVE PayloadByStage'
  <2>1. PICK s \in Suffixes :
          LET d == <<request[t].target, s>> IN
          /\ \A u \in Txs : dir[u] # d
          /\ dirs' = dirs \cup {d}
          /\ payload' = [payload EXCEPT ![d] = Absent]
          /\ dir' = [dir EXCEPT ![t] = d]
    BY <1>1 DEF MakeStagingDirectory
  <2>2. <<request[t].target, s>> \in Dirs
    BY DEF Dirs, Requests
  <2>3. ASSUME NEW u \in Txs, u # t, pc[u] \in Running
        PROVE  /\ dir'[u] = dir[u] /\ pc'[u] = pc[u]
               /\ payload'[dir[u]] = payload[dir[u]]
               /\ dir[u] \in dirs => dir[u] \in dirs'
    <3>1. dir[u] \in Dirs /\ dir[u] # <<request[t].target, s>>
      BY <2>1, <2>3
    <3>2. QED
      BY <1>1, <2>1, <2>3, <3>1 DEF MakeStagingDirectory
  <2>4. ASSUME NEW u \in Txs, u # t, pc[u] \notin Running
        PROVE  pc'[u] \notin Running
    BY <1>1, <2>4 DEF MakeStagingDirectory
  <2>5. pc'[t] = "reserving" /\ payload'[dir'[t]] = Absent
    BY <1>1, <2>1, <2>2 DEF MakeStagingDirectory
  <2>6. QED
    BY <2>3, <2>4, <2>5
<1>2. ASSUME NEW t \in Txs, PinStagingDirectory(t) PROVE PayloadByStage'
  BY <1>2, FilesAreFiles DEF PinStagingDirectory
<1>3. ASSUME NEW t \in Txs, PinFails(t) PROVE PayloadByStage'
  <2>1. dir[t] \in Dirs
    BY <1>3 DEF PinFails
  <2>2. ASSUME NEW u \in Txs, u # t, pc[u] \in Running
        PROVE  /\ dir'[u] = dir[u] /\ pc'[u] = pc[u]
               /\ payload'[dir[u]] = payload[dir[u]]
               /\ dir[u] \in dirs => dir[u] \in dirs'
    <3>1. dir[u] \in Dirs /\ dir[u] # dir[t]
      BY <2>1, <2>2, PublicationAssumption
    <3>2. QED
      BY <1>3, <2>1, <2>2, <3>1 DEF PinFails
  <2>3. ASSUME NEW u \in Txs, u # t, pc[u] \notin Running
        PROVE  pc'[u] \notin Running
    BY <1>3, <2>3 DEF PinFails
  <2>4. Pinned(t)' => dir'[t] \in dirs'
    BY <1>3, <2>1 DEF PinFails
  <2>5. /\ pc'[t] \in {"reserving", "reserved", "renamed"} => payload'[dir'[t]] = Absent
        /\ pc'[t] = "writing" => payload'[dir'[t]] = Partial(t)
        /\ pc'[t] = "closed" => payload'[dir'[t]] = Complete(t)
        /\ pc'[t] = "unwinding" => payload'[dir'[t]] \in {Absent, Partial(t), Complete(t)}
    BY <1>3, <2>1 DEF PinFails
  <2>6. QED
    BY <2>2, <2>3, <2>4, <2>5
<1>4. ASSUME NEW t \in Txs, ReserveFails(t) PROVE PayloadByStage'
  BY <1>4, FilesAreFiles DEF ReserveFails
<1>5. ASSUME NEW t \in Txs, OpenPayload(t) PROVE PayloadByStage'
  <2>1. dir[t] \in Dirs
    BY <1>5 DEF OpenPayload
  <2>2. ASSUME NEW u \in Txs, u # t, pc[u] \in Running
        PROVE  /\ dir'[u] = dir[u] /\ pc'[u] = pc[u]
               /\ payload'[dir[u]] = payload[dir[u]]
               /\ dir[u] \in dirs => dir[u] \in dirs'
    <3>1. dir[u] \in Dirs /\ dir[u] # dir[t]
      BY <2>1, <2>2, PublicationAssumption
    <3>2. QED
      BY <1>5, <2>1, <2>2, <3>1 DEF OpenPayload
  <2>3. ASSUME NEW u \in Txs, u # t, pc[u] \notin Running
        PROVE  pc'[u] \notin Running
    BY <1>5, <2>3 DEF OpenPayload
  <2>4. Pinned(t)' => dir'[t] \in dirs'
    BY <1>5, <2>1 DEF OpenPayload
  <2>5. /\ pc'[t] \in {"reserving", "reserved", "renamed"} => payload'[dir'[t]] = Absent
        /\ pc'[t] = "writing" => payload'[dir'[t]] = Partial(t)
        /\ pc'[t] = "closed" => payload'[dir'[t]] = Complete(t)
        /\ pc'[t] = "unwinding" => payload'[dir'[t]] \in {Absent, Partial(t), Complete(t)}
    BY <1>5, <2>1 DEF OpenPayload
  <2>6. QED
    BY <2>2, <2>3, <2>4, <2>5
<1>6. ASSUME NEW t \in Txs, FinishPayload(t) PROVE PayloadByStage'
  <2>1. dir[t] \in Dirs
    BY <1>6 DEF FinishPayload
  <2>2. ASSUME NEW u \in Txs, u # t, pc[u] \in Running
        PROVE  /\ dir'[u] = dir[u] /\ pc'[u] = pc[u]
               /\ payload'[dir[u]] = payload[dir[u]]
               /\ dir[u] \in dirs => dir[u] \in dirs'
    <3>1. dir[u] \in Dirs /\ dir[u] # dir[t]
      BY <2>1, <2>2, PublicationAssumption
    <3>2. QED
      BY <1>6, <2>1, <2>2, <3>1 DEF FinishPayload
  <2>3. ASSUME NEW u \in Txs, u # t, pc[u] \notin Running
        PROVE  pc'[u] \notin Running
    BY <1>6, <2>3 DEF FinishPayload
  <2>4. Pinned(t)' => dir'[t] \in dirs'
    BY <1>6, <2>1 DEF FinishPayload
  <2>5. /\ pc'[t] \in {"reserving", "reserved", "renamed"} => payload'[dir'[t]] = Absent
        /\ pc'[t] = "writing" => payload'[dir'[t]] = Partial(t)
        /\ pc'[t] = "closed" => payload'[dir'[t]] = Complete(t)
        /\ pc'[t] = "unwinding" => payload'[dir'[t]] \in {Absent, Partial(t), Complete(t)}
    BY <1>6, <2>1 DEF FinishPayload
  <2>6. QED
    BY <2>2, <2>3, <2>4, <2>5
<1>7. ASSUME NEW t \in Txs, Throws(t) PROVE PayloadByStage'
  BY <1>7, FilesAreFiles DEF Throws
<1>8. ASSUME NEW t \in Txs, Rename(t) PROVE PayloadByStage'
  <2>1. dir[t] \in Dirs
    BY <1>8 DEF Rename
  <2>2. ASSUME NEW u \in Txs, u # t, pc[u] \in Running
        PROVE  /\ dir'[u] = dir[u] /\ pc'[u] = pc[u]
               /\ payload'[dir[u]] = payload[dir[u]]
               /\ dir[u] \in dirs => dir[u] \in dirs'
    <3>1. dir[u] \in Dirs /\ dir[u] # dir[t]
      BY <2>1, <2>2, PublicationAssumption
    <3>2. QED
      BY <1>8, <2>1, <2>2, <3>1 DEF Rename
  <2>3. ASSUME NEW u \in Txs, u # t, pc[u] \notin Running
        PROVE  pc'[u] \notin Running
    BY <1>8, <2>3 DEF Rename
  <2>4. Pinned(t)' => dir'[t] \in dirs'
    BY <1>8, <2>1 DEF Rename
  <2>5. /\ pc'[t] \in {"reserving", "reserved", "renamed"} => payload'[dir'[t]] = Absent
        /\ pc'[t] = "writing" => payload'[dir'[t]] = Partial(t)
        /\ pc'[t] = "closed" => payload'[dir'[t]] = Complete(t)
        /\ pc'[t] = "unwinding" => payload'[dir'[t]] \in {Absent, Partial(t), Complete(t)}
    BY <1>8, <2>1 DEF Rename
  <2>6. QED
    BY <2>2, <2>3, <2>4, <2>5
<1>9. ASSUME NEW t \in Txs, RenameRefused(t) PROVE PayloadByStage'
  BY <1>9, FilesAreFiles DEF RenameRefused
<1>10. ASSUME NEW t \in Txs, CleanupAfterCommit(t) PROVE PayloadByStage'
  <2>1. dir[t] \in Dirs
    BY <1>10 DEF CleanupAfterCommit, RemoveStaging
  <2>2. ASSUME NEW u \in Txs, u # t, pc[u] \in Running
        PROVE  /\ dir'[u] = dir[u] /\ pc'[u] = pc[u]
               /\ payload'[dir[u]] = payload[dir[u]]
               /\ dir[u] \in dirs => dir[u] \in dirs'
    <3>1. dir[u] \in Dirs /\ dir[u] # dir[t]
      BY <2>1, <2>2, PublicationAssumption
    <3>2. QED
      BY <1>10, <2>1, <2>2, <3>1 DEF CleanupAfterCommit, RemoveStaging
  <2>3. ASSUME NEW u \in Txs, u # t, pc[u] \notin Running
        PROVE  pc'[u] \notin Running
    BY <1>10, <2>3 DEF CleanupAfterCommit, RemoveStaging
  <2>4. Pinned(t)' => dir'[t] \in dirs'
    BY <1>10, <2>1 DEF CleanupAfterCommit, RemoveStaging
  <2>5. /\ pc'[t] \in {"reserving", "reserved", "renamed"} => payload'[dir'[t]] = Absent
        /\ pc'[t] = "writing" => payload'[dir'[t]] = Partial(t)
        /\ pc'[t] = "closed" => payload'[dir'[t]] = Complete(t)
        /\ pc'[t] = "unwinding" => payload'[dir'[t]] \in {Absent, Partial(t), Complete(t)}
    BY <1>10, <2>1 DEF CleanupAfterCommit, RemoveStaging
  <2>6. QED
    BY <2>2, <2>3, <2>4, <2>5
<1>11. ASSUME NEW t \in Txs, CleanupOnUnwind(t) PROVE PayloadByStage'
  <2>1. dir[t] \in Dirs
    BY <1>11 DEF CleanupOnUnwind, RemoveStaging
  <2>2. ASSUME NEW u \in Txs, u # t, pc[u] \in Running
        PROVE  /\ dir'[u] = dir[u] /\ pc'[u] = pc[u]
               /\ payload'[dir[u]] = payload[dir[u]]
               /\ dir[u] \in dirs => dir[u] \in dirs'
    <3>1. dir[u] \in Dirs /\ dir[u] # dir[t]
      BY <2>1, <2>2, PublicationAssumption
    <3>2. QED
      BY <1>11, <2>1, <2>2, <3>1 DEF CleanupOnUnwind, RemoveStaging
  <2>3. ASSUME NEW u \in Txs, u # t, pc[u] \notin Running
        PROVE  pc'[u] \notin Running
    BY <1>11, <2>3 DEF CleanupOnUnwind, RemoveStaging
  <2>4. Pinned(t)' => dir'[t] \in dirs'
    BY <1>11, <2>1 DEF CleanupOnUnwind, RemoveStaging
  <2>5. /\ pc'[t] \in {"reserving", "reserved", "renamed"} => payload'[dir'[t]] = Absent
        /\ pc'[t] = "writing" => payload'[dir'[t]] = Partial(t)
        /\ pc'[t] = "closed" => payload'[dir'[t]] = Complete(t)
        /\ pc'[t] = "unwinding" => payload'[dir'[t]] \in {Absent, Partial(t), Complete(t)}
    BY <1>11, <2>1 DEF CleanupOnUnwind, RemoveStaging
  <2>6. QED
    BY <2>2, <2>3, <2>4, <2>5
<1>12. ASSUME NEW t \in Txs, Kill(t) PROVE PayloadByStage'
  BY <1>12, FilesAreFiles DEF Kill
<1>13. ASSUME NEW g \in Targets, UserCreates(g) PROVE PayloadByStage'
  BY <1>13, FilesAreFiles DEF UserCreates
<1>14. ASSUME NEW g \in Targets, UserDeletes(g) PROVE PayloadByStage'
  BY <1>14, FilesAreFiles DEF UserDeletes
<1>15. ASSUME NEW d \in Dirs, UserRemovesStaging(d) PROVE PayloadByStage'
  BY <1>15, FilesAreFiles DEF UserRemovesStaging
<1>16. CASE UNCHANGED vars
  BY <1>16 DEF vars
<1>17. QED
  BY <1>1, <1>2, <1>3, <1>4, <1>5, <1>6, <1>7, <1>8, <1>9, <1>10, <1>11,
     <1>12, <1>13, <1>14, <1>15, <1>16 DEF Next, Step, Environment

\* The outcome is decided where the code decides it.
LEMMA OutcomeStep == Inv /\ [Next]_vars => OutcomeByStage'
<1> SUFFICES ASSUME Inv, [Next]_vars PROVE OutcomeByStage'
  OBVIOUS
<1> USE DEF Inv, TypeOK, Go, Abandon, fs, Running, OutcomeByStage, Stages
<1>1. ASSUME NEW t \in Txs, MakeStagingDirectory(t) PROVE OutcomeByStage'
  BY <1>1 DEF MakeStagingDirectory
<1>2. ASSUME NEW t \in Txs, PinStagingDirectory(t) PROVE OutcomeByStage'
  BY <1>2 DEF PinStagingDirectory
<1>3. ASSUME NEW t \in Txs, PinFails(t) PROVE OutcomeByStage'
  BY <1>3 DEF PinFails
<1>4. ASSUME NEW t \in Txs, ReserveFails(t) PROVE OutcomeByStage'
  BY <1>4 DEF ReserveFails
<1>5. ASSUME NEW t \in Txs, OpenPayload(t) PROVE OutcomeByStage'
  BY <1>5 DEF OpenPayload
<1>6. ASSUME NEW t \in Txs, FinishPayload(t) PROVE OutcomeByStage'
  BY <1>6 DEF FinishPayload
<1>7. ASSUME NEW t \in Txs, Throws(t) PROVE OutcomeByStage'
  BY <1>7 DEF Throws
<1>8. ASSUME NEW t \in Txs, Rename(t) PROVE OutcomeByStage'
  BY <1>8 DEF Rename
<1>9. ASSUME NEW t \in Txs, RenameRefused(t) PROVE OutcomeByStage'
  BY <1>9 DEF RenameRefused
<1>10. ASSUME NEW t \in Txs, CleanupAfterCommit(t) PROVE OutcomeByStage'
  BY <1>10 DEF CleanupAfterCommit, RemoveStaging
<1>11. ASSUME NEW t \in Txs, CleanupOnUnwind(t) PROVE OutcomeByStage'
  BY <1>11 DEF CleanupOnUnwind, RemoveStaging
<1>12. ASSUME NEW t \in Txs, Kill(t) PROVE OutcomeByStage'
  BY <1>12 DEF Kill
<1>13. ASSUME NEW g \in Targets, UserCreates(g) PROVE OutcomeByStage'
  BY <1>13 DEF UserCreates
<1>14. ASSUME NEW g \in Targets, UserDeletes(g) PROVE OutcomeByStage'
  BY <1>14 DEF UserDeletes
<1>15. ASSUME NEW d \in Dirs, UserRemovesStaging(d) PROVE OutcomeByStage'
  BY <1>15 DEF UserRemovesStaging
<1>16. CASE UNCHANGED vars
  BY <1>16 DEF vars
<1>17. QED
  BY <1>1, <1>2, <1>3, <1>4, <1>5, <1>6, <1>7, <1>8, <1>9, <1>10, <1>11,
     <1>12, <1>13, <1>14, <1>15, <1>16 DEF Next, Step, Environment

\* Only a complete payload is renamed.
LEMMA FinalStep == Inv /\ [Next]_vars => FinalNeverPartial'
<1> SUFFICES ASSUME Inv, [Next]_vars PROVE FinalNeverPartial'
  OBVIOUS
<1> USE DEF Inv, TypeOK, Go, Abandon, fs, Running, Ownership, PayloadByStage, FinalNeverPartial
<1>1. ASSUME NEW t \in Txs, MakeStagingDirectory(t) PROVE FinalNeverPartial'
  BY <1>1, FilesAreFiles DEF MakeStagingDirectory
<1>2. ASSUME NEW t \in Txs, PinStagingDirectory(t) PROVE FinalNeverPartial'
  BY <1>2, FilesAreFiles DEF PinStagingDirectory
<1>3. ASSUME NEW t \in Txs, PinFails(t) PROVE FinalNeverPartial'
  BY <1>3, FilesAreFiles DEF PinFails
<1>4. ASSUME NEW t \in Txs, ReserveFails(t) PROVE FinalNeverPartial'
  BY <1>4, FilesAreFiles DEF ReserveFails
<1>5. ASSUME NEW t \in Txs, OpenPayload(t) PROVE FinalNeverPartial'
  BY <1>5, FilesAreFiles DEF OpenPayload
<1>6. ASSUME NEW t \in Txs, FinishPayload(t) PROVE FinalNeverPartial'
  BY <1>6, FilesAreFiles DEF FinishPayload
<1>7. ASSUME NEW t \in Txs, Throws(t) PROVE FinalNeverPartial'
  BY <1>7, FilesAreFiles DEF Throws
<1>8. ASSUME NEW t \in Txs, Rename(t) PROVE FinalNeverPartial'
  BY <1>8, FilesAreFiles DEF Rename
<1>9. ASSUME NEW t \in Txs, RenameRefused(t) PROVE FinalNeverPartial'
  BY <1>9, FilesAreFiles DEF RenameRefused
<1>10. ASSUME NEW t \in Txs, CleanupAfterCommit(t) PROVE FinalNeverPartial'
  BY <1>10, FilesAreFiles DEF CleanupAfterCommit, RemoveStaging
<1>11. ASSUME NEW t \in Txs, CleanupOnUnwind(t) PROVE FinalNeverPartial'
  BY <1>11, FilesAreFiles DEF CleanupOnUnwind, RemoveStaging
<1>12. ASSUME NEW t \in Txs, Kill(t) PROVE FinalNeverPartial'
  BY <1>12, FilesAreFiles DEF Kill
<1>13. ASSUME NEW g \in Targets, UserCreates(g) PROVE FinalNeverPartial'
  BY <1>13, FilesAreFiles DEF UserCreates
<1>14. ASSUME NEW g \in Targets, UserDeletes(g) PROVE FinalNeverPartial'
  BY <1>14, FilesAreFiles DEF UserDeletes
<1>15. ASSUME NEW d \in Dirs, UserRemovesStaging(d) PROVE FinalNeverPartial'
  BY <1>15, FilesAreFiles DEF UserRemovesStaging
<1>16. CASE UNCHANGED vars
  BY <1>16 DEF vars
<1>17. QED
  BY <1>1, <1>2, <1>3, <1>4, <1>5, <1>6, <1>7, <1>8, <1>9, <1>10, <1>11,
     <1>12, <1>13, <1>14, <1>15, <1>16 DEF Next, Step, Environment

\* A directory changes hands only to the leaks.
LEMMA LeftBehindStep == Inv /\ [Next]_vars => NothingLeftBehind'
<1> SUFFICES ASSUME Inv, [Next]_vars PROVE NothingLeftBehind'
  OBVIOUS
<1> USE DEF Inv, TypeOK, Go, Abandon, fs, Running, Ownership, PayloadByStage, NothingLeftBehind, Pinned, Stages
<1>1. ASSUME NEW t \in Txs, MakeStagingDirectory(t) PROVE NothingLeftBehind'
  BY <1>1 DEF MakeStagingDirectory
<1>2. ASSUME NEW t \in Txs, PinStagingDirectory(t) PROVE NothingLeftBehind'
  BY <1>2 DEF PinStagingDirectory
<1>3. ASSUME NEW t \in Txs, PinFails(t) PROVE NothingLeftBehind'
  BY <1>3 DEF PinFails
<1>4. ASSUME NEW t \in Txs, ReserveFails(t) PROVE NothingLeftBehind'
  BY <1>4 DEF ReserveFails
<1>5. ASSUME NEW t \in Txs, OpenPayload(t) PROVE NothingLeftBehind'
  BY <1>5 DEF OpenPayload
<1>6. ASSUME NEW t \in Txs, FinishPayload(t) PROVE NothingLeftBehind'
  BY <1>6 DEF FinishPayload
<1>7. ASSUME NEW t \in Txs, Throws(t) PROVE NothingLeftBehind'
  BY <1>7 DEF Throws
<1>8. ASSUME NEW t \in Txs, Rename(t) PROVE NothingLeftBehind'
  BY <1>8 DEF Rename
<1>9. ASSUME NEW t \in Txs, RenameRefused(t) PROVE NothingLeftBehind'
  BY <1>9 DEF RenameRefused
<1>10. ASSUME NEW t \in Txs, CleanupAfterCommit(t) PROVE NothingLeftBehind'
  BY <1>10 DEF CleanupAfterCommit, RemoveStaging
<1>11. ASSUME NEW t \in Txs, CleanupOnUnwind(t) PROVE NothingLeftBehind'
  BY <1>11 DEF CleanupOnUnwind, RemoveStaging
<1>12. ASSUME NEW t \in Txs, Kill(t) PROVE NothingLeftBehind'
  BY <1>12 DEF Kill
<1>13. ASSUME NEW g \in Targets, UserCreates(g) PROVE NothingLeftBehind'
  BY <1>13 DEF UserCreates
<1>14. ASSUME NEW g \in Targets, UserDeletes(g) PROVE NothingLeftBehind'
  BY <1>14 DEF UserDeletes
<1>15. ASSUME NEW d \in Dirs, UserRemovesStaging(d) PROVE NothingLeftBehind'
  BY <1>15 DEF UserRemovesStaging
<1>16. CASE UNCHANGED vars
  BY <1>16 DEF vars
<1>17. QED
  BY <1>1, <1>2, <1>3, <1>4, <1>5, <1>6, <1>7, <1>8, <1>9, <1>10, <1>11,
     <1>12, <1>13, <1>14, <1>15, <1>16 DEF Next, Step, Environment

-----------------------------------------------------------------------------
\* Inv is inductive.
THEOREM InvAlways == Spec => []Inv
<1>1. Init => Inv
  BY InvInit
<1>2. Inv /\ [Next]_vars => Inv'
  <2> SUFFICES ASSUME Inv, [Next]_vars PROVE Inv'
    OBVIOUS
  <2>1. TypeOK'
    BY TypeStep DEF Inv
  <2>2. QED
    BY <2>1, OwnershipStep, PayloadStep, OutcomeStep, FinalStep, LeftBehindStep DEF Inv
<1>3. QED
  BY <1>1, <1>2, PTL DEF Spec

\* Every variable of a publication keeps its type.
THEOREM TypeCorrect == Spec => []TypeOK
BY InvAlways, PTL DEF Inv

\* No reader ever finds a partial file at a final path.
THEOREM NeverPartial == Spec => []FinalNeverPartial
BY InvAlways, PTL DEF Inv

\* A pinned staging directory belongs to one transaction and holds its payload.
THEOREM StagingIsPrivate == Spec => []StagingPrivate
<1>1. Inv => StagingPrivate
  <2> SUFFICES ASSUME Inv, NEW t \in Txs, Pinned(t)
               PROVE  /\ dir[t] \in dirs
                      /\ payload[dir[t]] \in {Absent, Partial(t), Complete(t)}
                      /\ \A u \in Txs \ {t} : dir[u] # dir[t]
    BY DEF StagingPrivate
  <2>1. dir[t] \in dirs
    BY DEF Inv, PayloadByStage
  <2>2. payload[dir[t]] \in {Absent, Partial(t), Complete(t)}
    BY DEF Inv, PayloadByStage, Pinned, Running
  <2>3. dir[t] \in Dirs /\ dir[t] # NoDir
    BY PublicationAssumption DEF Inv, Ownership, Pinned
  <2>4. \A u \in Txs \ {t} : dir[u] # dir[t]
    BY <2>3 DEF Inv, Ownership
  <2>5. QED
    BY <2>1, <2>2, <2>4
<1>2. QED
  BY <1>1, InvAlways, PTL

\* Success means published and failure means not published.
THEOREM ReportsAreTrue == Spec => []ReportMatchesDisk
<1>1. Inv => ReportMatchesDisk
  BY DEF Inv, OutcomeByStage, ReportMatchesDisk
<1>2. QED
  BY <1>1, InvAlways, PTL

\* A staging directory on disk has an owner or an excuse.
THEOREM NothingIsForgotten == Spec => []NothingLeftBehind
BY InvAlways, PTL DEF Inv

-----------------------------------------------------------------------------
\* Every step of a publication is a step of AtomicOutput or changes nothing
\* that AtomicOutput knows of.
LEMMA StepImplements == Inv /\ [Next]_vars => [Output!Next]_(Output!vars)
<1> SUFFICES ASSUME Inv, [Next]_vars PROVE [Output!Next]_(Output!vars)
  OBVIOUS
<1> USE DEF Output!Next, Output!vars, Inv, TypeOK, Go, fs
<1>1. ASSUME NEW t \in Txs,
             MakeStagingDirectory(t) \/ PinStagingDirectory(t) \/ OpenPayload(t)
               \/ FinishPayload(t) \/ CleanupAfterCommit(t) \/ CleanupOnUnwind(t)
      PROVE  UNCHANGED Output!vars
  BY <1>1 DEF MakeStagingDirectory, PinStagingDirectory, OpenPayload,
     FinishPayload, CleanupAfterCommit, CleanupOnUnwind, RemoveStaging
<1>2. ASSUME NEW t \in Txs,
             PinFails(t) \/ ReserveFails(t) \/ Throws(t) \/ RenameRefused(t)
      PROVE  Output!Abandon(t)
  BY <1>2 DEF PinFails, ReserveFails, Throws, RenameRefused, Abandon,
     OutcomeByStage, Output!Abandon
<1>3. ASSUME NEW t \in Txs, Rename(t) PROVE Output!Publish(t)
  <2>1. outcome[t] = "pending" /\ payload[dir[t]] = Complete(t)
    BY <1>3 DEF Rename, OutcomeByStage, PayloadByStage
  <2>2. QED
    BY <1>3, <2>1 DEF Rename, RenameAllowed, Output!Publish, Output!Complete, Complete
<1>4. ASSUME NEW t \in Txs, Kill(t) PROVE Output!Abandon(t) \/ UNCHANGED Output!vars
  BY <1>4 DEF Kill, Output!Abandon
<1>5. ASSUME NEW g \in Targets, UserCreates(g) PROVE Output!UserCreates(g)
  BY <1>5 DEF UserCreates, Output!UserCreates, UserFile, Output!UserFile
<1>6. ASSUME NEW g \in Targets, UserDeletes(g) PROVE Output!UserDeletes(g)
  BY <1>6 DEF UserDeletes, Output!UserDeletes
<1>7. ASSUME NEW d \in Dirs, UserRemovesStaging(d) PROVE UNCHANGED Output!vars
  BY <1>7 DEF UserRemovesStaging
<1>8. CASE UNCHANGED vars
  BY <1>8 DEF vars
<1>9. QED
  BY <1>1, <1>2, <1>3, <1>4, <1>5, <1>6, <1>7, <1>8 DEF Next, Step, Environment

\* For its callers a publication is atomic.
THEOREM PublicationIsAtomic == Spec => ImplementsAtomicOutput
<1>1. Init => Output!Init
  BY DEF Init, Output!Init, UserFile, Output!UserFile, Requests, Output!Requests
<1>2. QED
  BY <1>1, StepImplements, InvAlways, PTL
     DEF Spec, ImplementsAtomicOutput, Output!Spec

\* A file is replaced only on request.
THEOREM NoOverwriteHolds == Spec => NoOverwriteKeepsExisting
<1> DEFINE Kept == \A g \in Targets :
       final[g] # Absent /\ final'[g] \notin {final[g], Absent} =>
         \E t \in Txs : /\ request[t] = [target |-> g, overwrite |-> TRUE]
                        /\ outcome[t] = "pending" /\ outcome'[t] = "published"
<1>1. Inv /\ [Next]_vars => [Kept]_vars
  <2> SUFFICES ASSUME Inv, [Output!Next]_(Output!vars) PROVE Kept
    BY StepImplements
  <2> USE DEF Inv, TypeOK
  <2>1. ASSUME NEW t \in Txs, Output!Publish(t) PROVE Kept
    <3> SUFFICES ASSUME NEW g \in Targets, final[g] # Absent, final'[g] # final[g]
                 PROVE  /\ request[t] = [target |-> g, overwrite |-> TRUE]
                        /\ outcome[t] = "pending" /\ outcome'[t] = "published"
      OBVIOUS
    <3>1. request[t].target = g /\ request[t].overwrite
      BY <2>1 DEF Output!Publish
    <3>2. request[t] \in [target : Targets, overwrite : BOOLEAN]
      BY DEF Requests
    <3>3. QED
      BY <2>1, <3>1, <3>2 DEF Output!Publish
  <2>2. ASSUME NEW t \in Txs, Output!Abandon(t) PROVE Kept
    BY <2>2 DEF Output!Abandon
  <2>3. ASSUME NEW g \in Targets, Output!UserCreates(g) \/ Output!UserDeletes(g)
        PROVE  Kept
    BY <2>3 DEF Output!UserCreates, Output!UserDeletes
  <2>4. CASE UNCHANGED Output!vars
    BY <2>4 DEF Output!vars
  <2>5. QED
    BY <2>1, <2>2, <2>3, <2>4 DEF Output!Next
<1>2. QED
  BY <1>1, InvAlways, PTL DEF Spec, NoOverwriteKeepsExisting
=============================================================================
