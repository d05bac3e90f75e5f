--------------------------- MODULE ExtractionProofs ---------------------------
(***************************************************************************)
(* What is proved of Extraction for any number of jobs and files: its type *)
(* invariant, its four safety invariants and that it implements            *)
(* AtomicOutput with one request for each file of each job.                *)
(*                                                                         *)
(* None of the safety invariants is inductive alone.  Inv adds what each   *)
(* step of a job knows: which files it has published, that the files       *)
(* before its position are sound, who wrote the files it has published and *)
(* when it was cancelled.                                                  *)
(***************************************************************************)
EXTENDS Extraction, FiniteSetTheorems, TLAPS

\* The first files of an order.
Prefix(order, n) == {order[k] : k \in 1 .. n}

\* After the quarantine has been decoded, and after it has been inspected.
Decoded == {"inspect", "preflight", "folders", "files", "publish", "cleanup"}
Approved == Decoded \ {"inspect"}

\* A job has published the files before its position in its last loop.
PublishedAt(j) ==
  /\ pc[j] \in {"start", "inspect", "preflight", "folders"} => published[j] = {}
  /\ pc[j] = "extract" =>
       published[j] = IF Staged(j) THEN {} ELSE Prefix(Archive, pos[j] - 1)
  /\ pc[j] = "commit" =>
       ~Staged(j) /\ pos[j] <= Last /\ published[j] = Prefix(Archive, pos[j] - 1)
  /\ pc[j] \in {"files", "publish"} => published[j] = Prefix(Sorted, pos[j] - 1)
  /\ pc[j] \in {"cleanup", "done"} => published[j] = Files
  /\ pc[j] \in Decoded => Staged(j)
  /\ pc[j] = "publish" => pos[j] <= Last
  /\ published[j] # {} => FirstFile(j) \in published[j]
PublishedByStage == \A j \in Jobs : PublishedAt(j)

\* What was decoded is sound, and what was approved is not infected.
SoundAt(j) ==
  /\ pc[j] = "extract" => \A k \in 1 .. pos[j] - 1 : Archive[k] # flaw
  /\ pc[j] = "commit" => \A k \in 1 .. pos[j] : Archive[k] # flaw
  /\ pc[j] \in Decoded => flaw \notin Files
  /\ pc[j] \in Approved /\ Inspected(j) => flaw # "infected"
SoundByStage == \A j \in Jobs : SoundAt(j)

\* A published file is where it was put, or a job that may overwrite was there.
FinalByAuthor ==
  \A j \in Jobs : \A f \in published[j] :
    /\ final[f] # Absent
    /\ \/ final[f].by = <<j, f>>
       \/ \E k \in Jobs \ {j} : mode[k].overwrite /\ final[f].by = <<k, f>>

\* Of two jobs that have published the same file one may overwrite.
PublishedOnce ==
  \A j, k \in Jobs : \A f \in published[j] \cap published[k] :
    j # k => mode[j].overwrite \/ mode[k].overwrite

\* Nothing is published after a request but the file whose checkpoint was passed.
LateAt(j) ==
  /\ late[j] \in {0, 1}
  /\ late[j] = 1 =>
       cancel[j] /\ pc[j] \in {"extract", "files", "cleanup", "unwinding", "done", "failed"}
LateByStage == \A j \in Jobs : LateAt(j)

Inv ==
  /\ TypeOK
  /\ PublishedByStage
  /\ SoundByStage
  /\ OnlySoundFilesAppear
  /\ FinalByAuthor
  /\ PublishedOnce
  /\ LateByStage

-----------------------------------------------------------------------------
(* The files of the archive, in its two orders *)

LEMMA Orders ==
  /\ Last \in Nat /\ Last > 0
  /\ Sorted \in [1 .. Last -> Files] /\ Archive \in [1 .. Last -> Files]
  /\ Files = {Sorted[k] : k \in 1 .. Last} /\ Files = {Archive[k] : k \in 1 .. Last}
<1>1. Sorted \in Seq(Files) /\ Archive \in Seq(Files) /\ Len(Archive) = Len(Sorted)
  BY ExtractionAssumption
<1>2. DOMAIN Sorted = 1 .. Last /\ DOMAIN Archive = 1 .. Last /\ Last \in Nat
  BY <1>1 DEF Last
<1>3. Sorted \in [1 .. Last -> Files] /\ Archive \in [1 .. Last -> Files]
  BY <1>1 DEF Last
<1>4. Last > 0 /\ Files = {Archive[k] : k \in 1 .. Last}
  BY <1>2, ExtractionAssumption
<1>5. Files = {Sorted[k] : k \in 1 .. Last}
  BY <1>2 DEF Files
<1>6. QED
  BY <1>2, <1>3, <1>4, <1>5

LEMMA LastPositive == Last \in Nat /\ Last > 0
  BY Orders

\* As many positions as files: no file is archived twice.
LEMMA ArchiveOnce == \A k, l \in 1 .. Last : Archive[k] = Archive[l] => k = l
<1>1. IsFiniteSet(1 .. Last) /\ Cardinality(1 .. Last) = Last
  BY Orders, FS_Interval
<1>2. Sorted \in Bijection(1 .. Last, Files)
  <2>1. Sorted \in Injection(1 .. Last, Files)
    BY Orders, ExtractionAssumption DEF Injection, IsInjective
  <2>2. Sorted \in Surjection(1 .. Last, Files)
    BY Orders DEF Surjection
  <2>3. QED
    BY <2>1, <2>2 DEF Bijection
<1>3. Cardinality(Files) = Last
  BY <1>2, Orders, FS_CountingElements DEF ExistsBijection
<1>4. Archive \in Surjection(1 .. Last, Files)
  BY Orders DEF Surjection
<1>5. Archive \in Injection(1 .. Last, Files)
  BY <1>1, <1>3, <1>4, FS_SurjSameCardinalityImpliesInj
<1>6. QED
  BY <1>5 DEF Injection, IsInjective

\* What one more publication of a loop adds.
LEMMA PrefixGrows ==
  ASSUME NEW order \in {Sorted, Archive}, NEW n \in 1 .. Last
  PROVE  /\ Prefix(order, n) = Prefix(order, n - 1) \cup {order[n]}
         /\ order[n] \in Files /\ order[n] \notin Prefix(order, n - 1)
         /\ order[1] \in Prefix(order, n)
<1>1. /\ order \in [1 .. Last -> Files] /\ Last \in Nat
      /\ \A k, l \in 1 .. Last : order[k] = order[l] => k = l
  BY Orders, ArchiveOnce, ExtractionAssumption
<1>2. QED
  BY <1>1 DEF Prefix

LEMMA PrefixEnds ==
  ASSUME NEW order \in {Sorted, Archive}
  PROVE  Prefix(order, 0) = {} /\ Prefix(order, Last) = Files
<1>1. Prefix(order, 0) = {}
  BY DEF Prefix
<1>2. CASE order = Sorted
  BY <1>1, <1>2, Orders DEF Prefix
<1>3. CASE order = Archive
  BY <1>1, <1>3, Orders DEF Prefix
<1>4. QED
  BY <1>2, <1>3

-----------------------------------------------------------------------------
(* Types *)

LEMMA TypeOKInit == Init => TypeOK
  BY LastPositive DEF Init, TypeOK, Steps

\* What Publish does to the files and to the history of the job.
LEMMA PublishTypes ==
  ASSUME TypeOK, NEW j \in Jobs, NEW f \in Files, Publish(j, f),
         cancel[j] => late[j] < Last
  PROVE  /\ final' \in [Files -> {Absent} \cup [by : (Jobs \X Files) \cup {User}, whole : {TRUE}]]
         /\ published' \in [Jobs -> SUBSET Files]
         /\ late' \in [Jobs -> 0 .. Last]
<1>1. [by |-> <<j, f>>, whole |-> TRUE] \in [by : (Jobs \X Files) \cup {User}, whole : {TRUE}]
  OBVIOUS
<1>2. final' \in [Files -> {Absent} \cup [by : (Jobs \X Files) \cup {User}, whole : {TRUE}]]
  BY <1>1 DEF TypeOK, Publish
<1>3. published' \in [Jobs -> SUBSET Files]
  BY DEF TypeOK, Publish
<1>4. late' \in [Jobs -> 0 .. Last]
  BY LastPositive DEF TypeOK, Publish
<1>5. QED
  BY <1>2, <1>3, <1>4

LEMMA GoTypes ==
  ASSUME TypeOK, NEW j \in Jobs, NEW from, NEW to \in Steps, Go(j, from, to)
  PROVE  pc' \in [Jobs -> Steps] /\ pos' \in [Jobs -> 1 .. Last + 1]
  BY LastPositive DEF TypeOK, Go

LEMMA AdvanceTypes ==
  ASSUME TypeOK, NEW j \in Jobs, pos[j] <= Last, Advance(j)
  PROVE  pc' \in [Jobs -> Steps] /\ pos' \in [Jobs -> 1 .. Last + 1]
  BY LastPositive DEF TypeOK, Advance

LEMMA TypeOKStep ==
  ASSUME TypeOK, LateByStage, PublishedByStage, [Next]_vars
  PROVE  TypeOK'
<1> USE DEF archive
<1>1. ASSUME NEW j \in Jobs, Start(j) PROVE TypeOK'
  <2>1. pc' \in [Jobs -> Steps] /\ pos' \in [Jobs -> 1 .. Last + 1]
    BY <1>1, GoTypes DEF Start, Steps
  <2>2. QED
    BY <1>1, <2>1 DEF Start, TypeOK
<1>2. ASSUME NEW j \in Jobs, DecodeIntoQuarantine(j) PROVE TypeOK'
  <2>1. pc' \in [Jobs -> Steps] /\ pos' \in [Jobs -> 1 .. Last + 1]
    BY <1>2, AdvanceTypes DEF DecodeIntoQuarantine, Decodes
  <2>2. QED
    BY <1>2, <2>1 DEF DecodeIntoQuarantine, TypeOK
<1>3. ASSUME NEW j \in Jobs, DecodeBesideTarget(j) PROVE TypeOK'
  BY <1>3 DEF DecodeBesideTarget, TypeOK, Steps
<1>3a. ASSUME NEW j \in Jobs, CommitDecoded(j) PROVE TypeOK'
  <2>1. pc[j] = "commit" /\ pos[j] \in 1 .. Last /\ late[j] = 0
    BY <1>3a, LastPositive DEF CommitDecoded, TypeOK, PublishedByStage, PublishedAt, LateByStage, LateAt
  <2>2. Archive[pos[j]] \in Files /\ Publish(j, Archive[pos[j]])
    BY <1>3a, <2>1, Orders DEF CommitDecoded
  <2>3. pc' \in [Jobs -> Steps] /\ pos' \in [Jobs -> 1 .. Last + 1]
    BY <1>3a, <2>1, LastPositive DEF CommitDecoded, TypeOK, Steps
  <2>4. cancel[j] => late[j] < Last
    BY <2>1, LastPositive
  <2>5. QED
    BY <1>3a, <2>2, <2>3, <2>4, PublishTypes DEF CommitDecoded, TypeOK
<1>4. ASSUME NEW j \in Jobs,
             ExtractedDirectly(j) \/ Extracted(j) \/ Inspect(j) \/ PreflightDone(j)
               \/ MakeFolders(j) \/ AllPublished(j) \/ CheckpointThrows(j) \/ StepThrows(j)
      PROVE  TypeOK'
  <2>1. \E to \in Steps : \E from : Go(j, from, to)
    BY <1>4 DEF ExtractedDirectly, Extracted, Inspect, PreflightDone, MakeFolders,
       AllPublished, CheckpointThrows, StepThrows, Steps
  <2>2. pc' \in [Jobs -> Steps] /\ pos' \in [Jobs -> 1 .. Last + 1]
    BY <2>1, GoTypes
  <2>3. UNCHANGED <<final, mode, flaw, cancel, tree, published, late>>
    BY <1>4 DEF ExtractedDirectly, Extracted, Inspect, PreflightDone, MakeFolders,
       AllPublished, CheckpointThrows, StepThrows
  <2>4. QED
    BY <2>2, <2>3 DEF TypeOK
<1>5. ASSUME NEW j \in Jobs, Preflight(j) PROVE TypeOK'
  <2>1. pc' \in [Jobs -> Steps] /\ pos' \in [Jobs -> 1 .. Last + 1]
    BY <1>5, AdvanceTypes DEF Preflight
  <2>2. QED
    BY <1>5, <2>1 DEF Preflight, TypeOK
<1>6. ASSUME NEW j \in Jobs, FileCheckpoint(j) PROVE TypeOK'
  BY <1>6 DEF FileCheckpoint, TypeOK, Steps
<1>7. ASSUME NEW j \in Jobs, PublishFile(j) PROVE TypeOK'
  <2>1. pc[j] = "publish" /\ pos[j] \in 1 .. Last /\ late[j] = 0
    BY <1>7, LastPositive DEF PublishFile, TypeOK, PublishedByStage, PublishedAt, LateByStage, LateAt
  <2>2. Sorted[pos[j]] \in Files /\ Publish(j, Sorted[pos[j]])
    BY <1>7, <2>1, Orders DEF PublishFile
  <2>3. pc' \in [Jobs -> Steps] /\ pos' \in [Jobs -> 1 .. Last + 1]
    BY <1>7, <2>1, LastPositive DEF PublishFile, TypeOK, Steps
  <2>4. cancel[j] => late[j] < Last
    BY <2>1, LastPositive
  <2>5. QED
    BY <1>7, <2>2, <2>3, <2>4, PublishTypes DEF PublishFile, TypeOK
<1>8. ASSUME NEW j \in Jobs, Cleanup(j) PROVE TypeOK'
  <2>1. pc' \in [Jobs -> Steps] /\ pos' \in [Jobs -> 1 .. Last + 1]
    BY <1>8, GoTypes DEF Cleanup, Steps
  <2>2. QED
    BY <1>8, <2>1 DEF Cleanup, TypeOK
<1>9. ASSUME NEW j \in Jobs, RequestCancel(j) PROVE TypeOK'
  BY <1>9 DEF RequestCancel, TypeOK
<1>10. ASSUME NEW f \in Files, UserCreates(f) PROVE TypeOK'
  BY <1>10 DEF UserCreates, TypeOK, UserFile
<1>11. CASE UNCHANGED vars
  BY <1>11 DEF vars, TypeOK
<1>12. QED
  BY <1>1, <1>2, <1>3, <1>4, <1>5, <1>6, <1>7, <1>8, <1>9, <1>10, <1>11, <1>3a DEF Next, Step

-----------------------------------------------------------------------------
(* What each step leaves to the others *)

LEMMA OptionsKept == ASSUME [Next]_vars PROVE mode' = mode /\ flaw' = flaw
<1> USE DEF archive
<1>1. ASSUME NEW j \in Jobs, Step(j) \/ RequestCancel(j) PROVE mode' = mode /\ flaw' = flaw
  BY <1>1 DEF Step, Start, DecodeIntoQuarantine, DecodeBesideTarget, CommitDecoded,
     ExtractedDirectly, Extracted, Inspect, Preflight, PreflightDone, MakeFolders, FileCheckpoint, PublishFile,
     AllPublished, CheckpointThrows, StepThrows, Cleanup, RequestCancel
<1>2. ASSUME NEW f \in Files, UserCreates(f) PROVE mode' = mode /\ flaw' = flaw
  BY <1>2 DEF UserCreates
<1>3. QED
  BY <1>1, <1>2 DEF Next, vars

\* A job changes no variable of another job.
Own(j) == <<pc[j], pos[j], cancel[j], tree[j], published[j], late[j]>>

LEMMA OthersKept ==
  ASSUME TypeOK, NEW j \in Jobs, NEW i \in Jobs \ {j}, Step(i) \/ RequestCancel(i)
  PROVE  UNCHANGED Own(j)
<1> USE DEF Own, TypeOK
<1>1. ASSUME Start(i) \/ Extracted(i) \/ ExtractedDirectly(i) \/ Inspect(i) \/ PreflightDone(i)
               \/ MakeFolders(i) \/ AllPublished(i) \/ CheckpointThrows(i) \/ StepThrows(i)
               \/ Cleanup(i)
      PROVE  UNCHANGED Own(j)
  BY <1>1 DEF Start, Extracted, ExtractedDirectly, Inspect, PreflightDone, MakeFolders,
     AllPublished, CheckpointThrows, StepThrows, Cleanup, Go
<1>2. ASSUME DecodeIntoQuarantine(i) \/ DecodeBesideTarget(i) \/ CommitDecoded(i)
      PROVE  UNCHANGED Own(j)
  BY <1>2 DEF DecodeIntoQuarantine, DecodeBesideTarget, CommitDecoded, Advance, Publish
<1>3. ASSUME Preflight(i) \/ FileCheckpoint(i) \/ PublishFile(i) \/ RequestCancel(i)
      PROVE  UNCHANGED Own(j)
  BY <1>3 DEF Preflight, FileCheckpoint, PublishFile, RequestCancel, Advance, Publish
<1>4. QED
  BY <1>1, <1>2, <1>3 DEF Step

\* A step moves a job within its loop, to another step, or publishes one file.
LEMMA PublishedAtInit == ASSUME Init, NEW j \in Jobs PROVE PublishedAt(j)
  BY DEF Init, PublishedAt, Decoded

LEMMA PublishedAtStep ==
  ASSUME TypeOK, PublishedByStage, [Next]_vars
  PROVE  PublishedByStage'
<1> SUFFICES ASSUME NEW j \in Jobs PROVE PublishedAt(j)'
  BY DEF PublishedByStage
<1>0. PublishedAt(j) /\ (Staged(j)' <=> Staged(j)) /\ FirstFile(j)' = FirstFile(j)
  BY OptionsKept DEF PublishedByStage, Staged, FirstFile
<1>1. ASSUME UNCHANGED <<pc[j], pos[j], published[j]>> PROVE PublishedAt(j)'
  BY <1>0, <1>1 DEF PublishedAt
<1>2. ASSUME NEW i \in Jobs \ {j}, Step(i) \/ RequestCancel(i) PROVE PublishedAt(j)'
  BY <1>1, <1>2, OthersKept DEF Own
<1>3. CASE Start(j)
  <2>1. pc'[j] = "extract" /\ pos'[j] = 1 /\ published'[j] = {} /\ published[j] = {}
    BY <1>0, <1>3 DEF Start, Go, PublishedAt, TypeOK
  <2>2. QED
    BY <1>0, <2>1, PrefixEnds DEF PublishedAt, Decoded
<1>4. CASE DecodeIntoQuarantine(j)
  <2>1. pc'[j] = "extract" /\ pc[j] = "extract" /\ Staged(j) /\ published'[j] = published[j]
    BY <1>4 DEF DecodeIntoQuarantine, Decodes, Advance
  <2>2. QED
    BY <1>0, <2>1 DEF PublishedAt, Decoded
<1>5. CASE DecodeBesideTarget(j)
  <2>1. /\ pc[j] = "extract" /\ pc'[j] = "commit" /\ ~Staged(j) /\ pos[j] <= Last
        /\ UNCHANGED <<pos, published>>
    BY <1>5 DEF DecodeBesideTarget, Decodes, TypeOK
  <2>2. QED
    BY <1>0, <2>1 DEF PublishedAt, Decoded
<1>5a. CASE CommitDecoded(j)
  <2>1. pc[j] = "commit" /\ pc'[j] = "extract"
    BY <1>5a DEF CommitDecoded, TypeOK
  <2>2. ~Staged(j) /\ pos[j] \in 1 .. Last /\ published[j] = Prefix(Archive, pos[j] - 1)
    BY <1>0, <2>1, LastPositive DEF PublishedAt, TypeOK
  <2>3. pos'[j] = pos[j] + 1 /\ published'[j] = published[j] \cup {Archive[pos[j]]}
    BY <1>5a DEF CommitDecoded, Publish, TypeOK
  <2>4. published'[j] = Prefix(Archive, pos[j]) /\ Archive[1] \in published'[j]
    BY <2>2, <2>3, PrefixGrows
  <2>5. pos'[j] - 1 = pos[j]
    BY <2>2, <2>3
  <2>6. QED
    BY <1>0, <2>1, <2>2, <2>4, <2>5 DEF PublishedAt, Decoded, FirstFile
<1>6. CASE ExtractedDirectly(j)
  <2>1. /\ pc[j] = "extract" /\ pc'[j] = "done" /\ published'[j] = published[j] /\ ~Staged(j)
        /\ pos[j] = Last + 1
    BY <1>6, LastPositive DEF ExtractedDirectly, Go, TypeOK
  <2>2. published[j] = Prefix(Archive, Last)
    BY <1>0, <2>1, LastPositive DEF PublishedAt
  <2>3. QED
    BY <1>0, <2>1, <2>2, PrefixEnds DEF PublishedAt, Decoded
<1>7. CASE Extracted(j) \/ Inspect(j) \/ PreflightDone(j)
  BY <1>0, <1>7 DEF Extracted, Inspect, PreflightDone, Go, PublishedAt, TypeOK, Decoded
<1>8. CASE Preflight(j)
  BY <1>0, <1>8 DEF Preflight, Advance, PublishedAt, Decoded
<1>9. CASE MakeFolders(j)
  <2>1. /\ pc[j] = "folders" /\ pc'[j] = "files" /\ pos'[j] = 1
        /\ published'[j] = published[j]
    BY <1>9 DEF MakeFolders, Go, TypeOK
  <2>2. QED
    BY <1>0, <2>1, PrefixEnds DEF PublishedAt, Decoded
<1>10. CASE FileCheckpoint(j)
  BY <1>0, <1>10 DEF FileCheckpoint, PublishedAt, TypeOK, Decoded
<1>11. CASE PublishFile(j)
  <2>1. /\ pc[j] = "publish" /\ pc'[j] = "files"
        /\ pos[j] \in 1 .. Last /\ pos'[j] = pos[j] + 1
        /\ published'[j] = published[j] \cup {Sorted[pos[j]]}
    BY <1>0, <1>11 DEF PublishFile, Publish, TypeOK, PublishedAt
  <2>2. published[j] = Prefix(Sorted, pos[j] - 1) /\ Staged(j)
    BY <1>0, <2>1 DEF PublishedAt, Decoded
  <2>3. published'[j] = Prefix(Sorted, pos[j]) /\ Sorted[1] \in published'[j]
    BY <2>1, <2>2, PrefixGrows
  <2>4. pos'[j] - 1 = pos[j]
    BY <2>1
  <2>5. QED
    BY <1>0, <2>1, <2>2, <2>3, <2>4 DEF PublishedAt, Decoded, FirstFile
<1>12. CASE AllPublished(j)
  <2>1. /\ pc[j] = "files" /\ pc'[j] = "cleanup" /\ published'[j] = published[j]
        /\ pos[j] = Last + 1
    BY <1>12, LastPositive DEF AllPublished, Go, TypeOK
  <2>2. published[j] = Prefix(Sorted, Last) /\ Staged(j)
    BY <1>0, <2>1, LastPositive DEF PublishedAt, Decoded
  <2>3. QED
    BY <1>0, <2>1, <2>2, PrefixEnds DEF PublishedAt, Decoded
<1>13. CASE CheckpointThrows(j) \/ StepThrows(j) \/ Cleanup(j)
  <2>1. published'[j] = published[j]
    BY <1>13 DEF CheckpointThrows, StepThrows, Cleanup
  <2>2. CASE pc'[j] \in {"unwinding", "failed"}
    BY <1>0, <2>1, <2>2 DEF PublishedAt, Decoded
  <2>3. CASE pc[j] = "cleanup" /\ pc'[j] = "done"
    BY <1>0, <2>1, <2>3 DEF PublishedAt, Decoded
  <2>4. QED
    BY <1>13, <2>2, <2>3 DEF CheckpointThrows, StepThrows, Cleanup, Go, TypeOK
<1>14. CASE RequestCancel(j)
  BY <1>0, <1>1, <1>14 DEF RequestCancel
<1>15. ASSUME NEW f \in Files, UserCreates(f) PROVE PublishedAt(j)'
  BY <1>1, <1>15 DEF UserCreates
<1>16. CASE UNCHANGED vars
  BY <1>1, <1>16 DEF vars
<1>17. QED
  BY <1>2, <1>3, <1>4, <1>5, <1>6, <1>7, <1>8, <1>9, <1>10, <1>11, <1>12, <1>13, <1>14,
     <1>15, <1>16, <1>5a DEF Next, Step

-----------------------------------------------------------------------------
(* Only sound files *)

LEMMA SoundAtStep ==
  ASSUME TypeOK, SoundByStage, [Next]_vars
  PROVE  SoundByStage'
<1> SUFFICES ASSUME NEW j \in Jobs PROVE SoundAt(j)'
  BY DEF SoundByStage
<1>0. SoundAt(j) /\ flaw' = flaw /\ Inspected(j)' = Inspected(j)
  BY OptionsKept DEF SoundByStage, Inspected
<1>1. ASSUME UNCHANGED <<pc[j], pos[j]>> PROVE SoundAt(j)'
  BY <1>0, <1>1 DEF SoundAt
<1>2. ASSUME NEW i \in Jobs \ {j}, Step(i) \/ RequestCancel(i) PROVE SoundAt(j)'
  BY <1>1, <1>2, OthersKept DEF Own
<1>3. CASE Start(j)
  <2>1. pc'[j] = "extract" /\ pos'[j] = 1
    BY <1>3 DEF Start, Go, TypeOK
  <2>2. QED
    BY <1>0, <2>1 DEF SoundAt, Decoded, Approved
<1>4. CASE DecodeIntoQuarantine(j) \/ DecodeBesideTarget(j)
  <2>1. /\ pc[j] = "extract" /\ pos[j] \in 1 .. Last /\ Archive[pos[j]] # flaw
        /\ \/ pc'[j] = "extract" /\ pos'[j] = pos[j] + 1
           \/ pc'[j] = "commit" /\ pos'[j] = pos[j]
    BY <1>4 DEF DecodeIntoQuarantine, DecodeBesideTarget, Decodes, Advance, TypeOK
  <2>2. \A k \in 1 .. pos[j] : k \in 1 .. pos[j] - 1 \/ k = pos[j]
    BY <2>1
  <2>3. \A k \in 1 .. pos[j] : Archive[k] # flaw
    BY <1>0, <2>1, <2>2 DEF SoundAt
  <2>4. QED
    BY <1>0, <2>1, <2>3 DEF SoundAt, Decoded, Approved
<1>4a. CASE CommitDecoded(j)
  <2>1. pc[j] = "commit" /\ pc'[j] = "extract" /\ pos'[j] - 1 = pos[j]
    BY <1>4a DEF CommitDecoded, TypeOK
  <2>2. QED
    BY <1>0, <2>1 DEF SoundAt, Decoded, Approved
<1>5. CASE Extracted(j)
  <2>1. pc[j] = "extract" /\ pc'[j] = "inspect" /\ pos[j] = Last + 1
    BY <1>5, LastPositive DEF Extracted, Go, TypeOK
  <2>2. \A k \in 1 .. Last : Archive[k] # flaw
    BY <1>0, <2>1, LastPositive DEF SoundAt
  <2>3. flaw \notin Files
    BY <2>2, Orders
  <2>4. QED
    BY <1>0, <2>1, <2>3 DEF SoundAt, Approved
<1>6. CASE Inspect(j)
  <2>1. pc[j] = "inspect" /\ pc'[j] = "preflight" /\ (Inspected(j) => flaw # "infected")
    BY <1>6 DEF Inspect, Go, TypeOK
  <2>2. QED
    BY <1>0, <2>1 DEF SoundAt, Decoded
<1>7. CASE PreflightDone(j) \/ MakeFolders(j) \/ FileCheckpoint(j) \/ PublishFile(j) \/ AllPublished(j)
  <2>1. pc[j] \in Approved /\ pc'[j] \in Approved
    BY <1>7 DEF PreflightDone, MakeFolders, FileCheckpoint, PublishFile, AllPublished, Go, TypeOK,
       Approved, Decoded
  <2>2. QED
    BY <1>0, <2>1 DEF SoundAt, Approved, Decoded
<1>8. CASE Preflight(j)
  BY <1>0, <1>8 DEF Preflight, Advance, SoundAt, Approved, Decoded
<1>9. CASE ExtractedDirectly(j) \/ CheckpointThrows(j) \/ StepThrows(j) \/ Cleanup(j)
  <2>1. pc'[j] \in {"unwinding", "failed", "done"}
    BY <1>9 DEF ExtractedDirectly, CheckpointThrows, StepThrows, Cleanup, Go, TypeOK
  <2>2. QED
    BY <2>1 DEF SoundAt, Approved, Decoded
<1>10. CASE RequestCancel(j)
  BY <1>1, <1>10 DEF RequestCancel
<1>11. ASSUME NEW f \in Files, UserCreates(f) PROVE SoundAt(j)'
  BY <1>1, <1>11 DEF UserCreates
<1>12. CASE UNCHANGED vars
  BY <1>1, <1>12 DEF vars
<1>13. QED
  BY <1>2, <1>3, <1>4, <1>5, <1>6, <1>7, <1>8, <1>9, <1>10, <1>11, <1>12, <1>4a
     DEF Next, Step

\* Publications are the only steps that add to what a job has published, and
\* no job publishes a file twice.
FirstPublication(j, f) ==
  /\ Publish(j, f) /\ f \notin published[j]
  /\ \/ ~Staged(j) /\ f # flaw
     \/ pc[j] \in Approved /\ Staged(j)

LEMMA PublicationSteps ==
  ASSUME TypeOK, PublishedByStage, SoundByStage, [Next]_vars
  PROVE  \/ UNCHANGED <<final, published>>
         \/ \E j \in Jobs : \E f \in Files : FirstPublication(j, f)
         \/ \E f \in Files : UserCreates(f)
<1>1. ASSUME NEW j \in Jobs, CommitDecoded(j)
      PROVE  \E f \in Files : FirstPublication(j, f)
  <2>1. /\ Publish(j, Archive[pos[j]]) /\ ~Staged(j) /\ pc[j] = "commit"
        /\ pos[j] \in 1 .. Last
    BY <1>1, LastPositive DEF CommitDecoded, PublishedByStage, PublishedAt, TypeOK
  <2>2. published[j] = Prefix(Archive, pos[j] - 1) /\ Archive[pos[j]] # flaw
    BY <2>1 DEF PublishedByStage, PublishedAt, SoundByStage, SoundAt
  <2>3. QED
    BY <2>1, <2>2, PrefixGrows DEF FirstPublication
<1>2. ASSUME NEW j \in Jobs, PublishFile(j)
      PROVE  \E f \in Files : FirstPublication(j, f)
  <2>1. /\ Publish(j, Sorted[pos[j]]) /\ Staged(j) /\ pc[j] = "publish"
        /\ pos[j] \in 1 .. Last
    BY <1>2 DEF PublishFile, PublishedByStage, PublishedAt, TypeOK, Decoded
  <2>2. published[j] = Prefix(Sorted, pos[j] - 1)
    BY <2>1 DEF PublishedByStage, PublishedAt
  <2>3. QED
    BY <2>1, <2>2, PrefixGrows DEF FirstPublication, Approved, Decoded
<1>3. ASSUME NEW j \in Jobs,
             \/ Start(j) \/ Extracted(j) \/ ExtractedDirectly(j) \/ Inspect(j) \/ Preflight(j)
             \/ PreflightDone(j) \/ MakeFolders(j) \/ FileCheckpoint(j) \/ AllPublished(j)
             \/ CheckpointThrows(j) \/ StepThrows(j) \/ Cleanup(j) \/ RequestCancel(j)
             \/ DecodeIntoQuarantine(j) \/ DecodeBesideTarget(j)
      PROVE  UNCHANGED <<final, published>>
  BY <1>3 DEF Start, Extracted, ExtractedDirectly, Inspect, Preflight, PreflightDone, MakeFolders,
     FileCheckpoint, AllPublished, CheckpointThrows, StepThrows, Cleanup, RequestCancel,
     DecodeIntoQuarantine, DecodeBesideTarget
<1>4. CASE UNCHANGED vars
  BY <1>4 DEF vars
<1>5. QED
  BY <1>1, <1>2, <1>3, <1>4 DEF Next, Step

LEMMA OnlySoundStep ==
  ASSUME TypeOK, PublishedByStage, SoundByStage, OnlySoundFilesAppear, [Next]_vars
  PROVE  OnlySoundFilesAppear'
<1> USE DEF OnlySoundFilesAppear
<1>0. mode' = mode /\ flaw' = flaw
  BY OptionsKept
<1>1. ASSUME UNCHANGED published PROVE OnlySoundFilesAppear'
  BY <1>0, <1>1 DEF Staged, Inspected
<1>2. ASSUME NEW j \in Jobs, NEW f \in Files, FirstPublication(j, f)
      PROVE  OnlySoundFilesAppear'
  <2>1. published' = [published EXCEPT ![j] = @ \cup {f}] /\ published \in [Jobs -> SUBSET Files]
    BY <1>2 DEF FirstPublication, Publish, TypeOK
  <2>2. ~Staged(j) => ~Inspected(j)
    BY DEF Staged, Inspected
  <2>3. CASE ~Staged(j) /\ f # flaw
    BY <1>0, <2>1, <2>2, <2>3 DEF Staged, Inspected
  <2>4. CASE pc[j] \in Approved /\ Staged(j)
    <3>1. flaw \notin Files /\ (Inspected(j) => flaw # "infected")
      BY <2>4 DEF SoundByStage, SoundAt, Approved
    <3>2. Inspected(j) => flaw = "none"
      BY <3>1 DEF TypeOK
    <3>3. QED
      BY <1>0, <2>1, <3>1, <3>2 DEF Staged, Inspected
  <2>5. QED
    BY <1>2, <2>3, <2>4 DEF FirstPublication
<1>3. ASSUME NEW f \in Files, UserCreates(f) PROVE OnlySoundFilesAppear'
  BY <1>1, <1>3 DEF UserCreates
<1>4. QED
  BY <1>1, <1>2, <1>3, PublicationSteps

-----------------------------------------------------------------------------
(* Who wrote what is at a path *)

LEMMA FileThere == \A t \in (Jobs \X Files) \cup {User} : [by |-> t, whole |-> TRUE] # Absent
<1>1. TAKE t \in (Jobs \X Files) \cup {User}
<1>2. [by |-> t, whole |-> TRUE] \in [by : (Jobs \X Files) \cup {User}, whole : {TRUE}]
  OBVIOUS
<1>3. QED
  BY <1>2, ExtractionAssumption

LEMMA AuthorsStep ==
  ASSUME TypeOK, PublishedByStage, SoundByStage, FinalByAuthor, PublishedOnce, [Next]_vars
  PROVE  FinalByAuthor' /\ PublishedOnce'
<1> USE DEF FinalByAuthor, PublishedOnce
<1>0. mode' = mode
  BY OptionsKept
<1>1. ASSUME UNCHANGED <<final, published>> PROVE FinalByAuthor' /\ PublishedOnce'
  BY <1>0, <1>1
<1>2. ASSUME NEW j \in Jobs, NEW f \in Files, FirstPublication(j, f)
      PROVE  FinalByAuthor' /\ PublishedOnce'
  <2>1. /\ final' = [final EXCEPT ![f] = [by |-> <<j, f>>, whole |-> TRUE]]
        /\ published' = [published EXCEPT ![j] = @ \cup {f}]
        /\ mode[j].overwrite \/ final[f] = Absent
        /\ published \in [Jobs -> SUBSET Files] /\ f \in DOMAIN final
    BY <1>2 DEF FirstPublication, Publish, TypeOK
  <2>2. \A k \in Jobs : f \in published[k] => mode[j].overwrite
    BY <2>1
  <2>3. final'[f].by = <<j, f>> /\ final'[f] # Absent
    BY <2>1, FileThere
  <2>4. ASSUME NEW k \in Jobs, NEW g \in published'[k]
        PROVE  /\ final'[g] # Absent
               /\ \/ final'[g].by = <<k, g>>
                  \/ \E i \in Jobs \ {k} : mode'[i].overwrite /\ final'[g].by = <<i, g>>
    <3>1. CASE g = f /\ k = j
      BY <2>3, <3>1
    <3>2. CASE g = f /\ k # j
      <4>1. g \in published[k]
        BY <2>1, <2>4, <3>2
      <4>2. QED
        BY <1>0, <2>2, <2>3, <3>2, <4>1
    <3>3. CASE g # f
      <4>1. g \in published[k] /\ final'[g] = final[g]
        BY <2>1, <2>4, <3>3
      <4>2. QED
        BY <1>0, <4>1
    <3>4. QED
      BY <3>1, <3>2, <3>3
  <2>5. ASSUME NEW i \in Jobs, NEW k \in Jobs, i # k, NEW g \in published'[i] \cap published'[k]
        PROVE  mode'[i].overwrite \/ mode'[k].overwrite
    <3>1. CASE g \in published[i] \cap published[k]
      BY <1>0, <2>5, <3>1
    <3>2. CASE g \notin published[i]
      BY <1>0, <2>1, <2>2, <2>5, <3>2
    <3>3. CASE g \notin published[k]
      BY <1>0, <2>1, <2>2, <2>5, <3>3
    <3>4. QED
      BY <3>1, <3>2, <3>3
  <2>6. QED
    BY <2>4, <2>5
<1>3. ASSUME NEW f \in Files, UserCreates(f) PROVE FinalByAuthor' /\ PublishedOnce'
  <2>1. /\ final[f] = Absent /\ final' = [final EXCEPT ![f] = UserFile]
        /\ UNCHANGED published
    BY <1>3 DEF UserCreates
  <2>2. \A j \in Jobs : \A g \in published[j] : g # f
    BY <2>1
  <2>3. \A j \in Jobs : \A g \in published[j] : final'[g] = final[g]
    BY <2>1, <2>2 DEF TypeOK
  <2>4. QED
    BY <1>0, <2>1, <2>3
<1>4. QED
  BY <1>1, <1>2, <1>3, PublicationSteps

-----------------------------------------------------------------------------
(* Cancellation *)

LEMMA LateAtStep ==
  ASSUME TypeOK, LateByStage, [Next]_vars
  PROVE  LateByStage'
<1> SUFFICES ASSUME NEW j \in Jobs PROVE LateAt(j)'
  BY DEF LateByStage
<1>0. LateAt(j)
  BY DEF LateByStage
<1>1. ASSUME UNCHANGED <<pc[j], cancel[j], late[j]>> PROVE LateAt(j)'
  BY <1>0, <1>1 DEF LateAt
<1>2. ASSUME NEW i \in Jobs \ {j}, Step(i) \/ RequestCancel(i) PROVE LateAt(j)'
  BY <1>1, <1>2, OthersKept DEF Own
<1>3. CASE Start(j) \/ Inspect(j) \/ PreflightDone(j) \/ MakeFolders(j)
  <2>1. pc[j] \in {"start", "inspect", "preflight", "folders"} /\ late'[j] = late[j]
    BY <1>3 DEF Start, Inspect, PreflightDone, MakeFolders, Go
  <2>2. QED
    BY <1>0, <2>1 DEF LateAt
<1>3a. CASE Extracted(j) \/ DecodeBesideTarget(j)
  <2>1. ~cancel[j] /\ late'[j] = late[j]
    BY <1>3a DEF Extracted, DecodeBesideTarget, Decodes, Proceeds
  <2>2. QED
    BY <1>0, <2>1 DEF LateAt
<1>4. CASE DecodeIntoQuarantine(j)
  BY <1>1, <1>4 DEF DecodeIntoQuarantine, Advance
<1>5. CASE Preflight(j)
  BY <1>1, <1>5 DEF Preflight, Advance
<1>6. CASE FileCheckpoint(j)
  <2>1. ~cancel[j] /\ late'[j] = late[j]
    BY <1>6 DEF FileCheckpoint, Proceeds
  <2>2. QED
    BY <1>0, <2>1 DEF LateAt
<1>7. CASE PublishFile(j) \/ CommitDecoded(j)
  <2>1. /\ pc[j] \in {"publish", "commit"} /\ pc'[j] \in {"files", "extract"}
        /\ cancel' = cancel
        /\ late'[j] = IF cancel[j] THEN late[j] + 1 ELSE late[j]
    BY <1>7 DEF PublishFile, CommitDecoded, Publish, TypeOK
  <2>2. late[j] = 0
    BY <1>0, <2>1 DEF LateAt
  <2>3. QED
    BY <2>1, <2>2 DEF LateAt
<1>8. CASE ExtractedDirectly(j) \/ AllPublished(j) \/ CheckpointThrows(j) \/ StepThrows(j)
             \/ Cleanup(j)
  <2>1. /\ pc'[j] \in {"cleanup", "unwinding", "done", "failed"}
        /\ late' = late /\ cancel' = cancel
    BY <1>8 DEF ExtractedDirectly, AllPublished, CheckpointThrows, StepThrows, Cleanup, Go, TypeOK
  <2>2. QED
    BY <1>0, <2>1 DEF LateAt
<1>9. CASE RequestCancel(j)
  BY <1>0, <1>9 DEF RequestCancel, LateAt, TypeOK
<1>10. ASSUME NEW f \in Files, UserCreates(f) PROVE LateAt(j)'
  BY <1>1, <1>10 DEF UserCreates
<1>11. CASE UNCHANGED vars
  BY <1>1, <1>11 DEF vars
<1>12. QED
  BY <1>2, <1>3, <1>4, <1>5, <1>6, <1>7, <1>8, <1>9, <1>10, <1>11, <1>3a DEF Next, Step

-----------------------------------------------------------------------------
(* The theorems *)

LEMMA InvInit == Init => Inv
<1> SUFFICES ASSUME Init PROVE Inv
  OBVIOUS
<1>1. TypeOK
  BY TypeOKInit
<1>2. ASSUME NEW j \in Jobs PROVE PublishedAt(j) /\ SoundAt(j) /\ LateAt(j)
  <2>1. pc[j] = "start" /\ late[j] = 0
    BY DEF Init
  <2>2. SoundAt(j)
    BY <2>1 DEF SoundAt, Decoded, Approved
  <2>3. LateAt(j)
    BY <2>1 DEF LateAt
  <2>4. QED
    BY <2>2, <2>3, PublishedAtInit
<1>3. OnlySoundFilesAppear /\ FinalByAuthor /\ PublishedOnce
  BY DEF Init, OnlySoundFilesAppear, FinalByAuthor, PublishedOnce
<1>4. QED
  BY <1>1, <1>2, <1>3 DEF Inv, PublishedByStage, SoundByStage, LateByStage

LEMMA InvStep == Inv /\ [Next]_vars => Inv'
  BY TypeOKStep, PublishedAtStep, SoundAtStep, OnlySoundStep, AuthorsStep, LateAtStep
     DEF Inv

LEMMA InvAlways == Spec => []Inv
  BY InvInit, InvStep, PTL DEF Spec

\* Every variable stays in its domain: no job runs past its loops, and none
\* publishes more late files than there are.
THEOREM TypeCorrect == Spec => []TypeOK
  BY InvAlways, PTL DEF Inv

\* No file that fails a check of the adapter or the inspection is published,
\* whatever the modes, the number of jobs and the interleaving.
THEOREM OnlySoundFiles == Spec => []OnlySoundFilesAppear
  BY InvAlways, PTL DEF Inv

\* Of two jobs that may not overwrite and begin with the same file one publishes
\* nothing: the rename lets one of them have that file.
THEOREM OneOfTwoPublishes == Spec => []NoMixing
<1>1. Inv => NoMixing
  <2> SUFFICES ASSUME Inv, NEW j \in Jobs, NEW k \in Jobs, j # k,
                      FirstFile(j) = FirstFile(k), ~mode[j].overwrite, ~mode[k].overwrite,
                      published[j] # {}, published[k] # {}
               PROVE  FALSE
    BY DEF NoMixing
  <2>1. FirstFile(j) \in published[j] /\ FirstFile(k) \in published[k]
    BY DEF Inv, PublishedByStage, PublishedAt
  <2>2. QED
    BY <2>1 DEF Inv, PublishedOnce
<1>2. QED
  BY <1>1, InvAlways, PTL

\* A job that returns has put every file in place, and only a job that may
\* overwrite has replaced one since.
THEOREM DoneIsExtracted == Spec => []DoneMeansExtracted
<1>1. Inv => DoneMeansExtracted
  BY DEF Inv, PublishedByStage, PublishedAt, FinalByAuthor, DoneMeansExtracted
<1>2. QED
  BY <1>1, InvAlways, PTL

\* A job, staged or not, publishes at most one file after a request to cancel it.
THEOREM PromptCancel == Spec => []CancelIsPrompt
<1>1. Inv => CancelIsPrompt
  <2> SUFFICES ASSUME Inv, NEW j \in Jobs PROVE late[j] <= 1
    BY DEF CancelIsPrompt
  <2>1. late[j] = 0 \/ late[j] = 1
    BY DEF Inv, LateByStage, LateAt
  <2>2. QED
    BY <2>1
<1>2. QED
  BY <1>1, InvAlways, PTL

-----------------------------------------------------------------------------
(* Extraction implements AtomicOutput *)

LEMMA StepImplements == Inv /\ [Next]_vars => [Output!Next]_(Output!vars)
<1> SUFFICES ASSUME Inv, [Next]_vars PROVE [Output!Next]_(Output!vars)
  OBVIOUS
<1> DEFINE Request == [t \in Jobs \X Files |->
                         [target |-> t[2], overwrite |-> mode[t[1]].overwrite]]
           Outcome == [t \in Jobs \X Files |->
                         IF t[2] \in published[t[1]] THEN "published" ELSE "pending"]
<1>0. Request' = Request
  BY OptionsKept
<1>1. ASSUME UNCHANGED <<final, published>> PROVE UNCHANGED Output!vars
  BY <1>0, <1>1 DEF Output!vars
<1>2. ASSUME NEW j \in Jobs, NEW f \in Files, FirstPublication(j, f)
      PROVE  Output!Publish(<<j, f>>)
  <2>1. /\ final' = [final EXCEPT ![f] = [by |-> <<j, f>>, whole |-> TRUE]]
        /\ published' = [published EXCEPT ![j] = @ \cup {f}]
        /\ mode[j].overwrite \/ final[f] = Absent
        /\ published \in [Jobs -> SUBSET Files] /\ f \notin published[j]
    BY <1>2 DEF FirstPublication, Publish, Inv, TypeOK
  <2>2. /\ Request[<<j, f>>].target = f
        /\ Request[<<j, f>>].overwrite = mode[j].overwrite
        /\ Outcome[<<j, f>>] = "pending"
    BY <2>1
  <2>3. Outcome' = [Outcome EXCEPT ![<<j, f>>] = "published"]
    <3>1. ASSUME NEW t \in Jobs \X Files
          PROVE  Outcome'[t] = [Outcome EXCEPT ![<<j, f>>] = "published"][t]
      <4>1. PICK i \in Jobs, g \in Files : t = <<i, g>>
        OBVIOUS
      <4>2. CASE i = j
        BY <2>1, <4>1, <4>2
      <4>3. CASE i # j
        BY <2>1, <4>1, <4>3
      <4>4. QED
        BY <4>2, <4>3
    <3>2. /\ DOMAIN Outcome' = Jobs \X Files
          /\ DOMAIN [Outcome EXCEPT ![<<j, f>>] = "published"] = Jobs \X Files
      OBVIOUS
    <3>3. QED
      BY <3>1, <3>2
  <2> HIDE DEF Request, Outcome
  <2>4. QED
    BY <1>0, <2>1, <2>2, <2>3 DEF Output!Publish, Output!Complete, Request, Outcome
<1>3. ASSUME NEW f \in Files, UserCreates(f) PROVE Output!UserCreates(f)
  BY <1>0, <1>3 DEF UserCreates, Output!UserCreates, UserFile, Output!UserFile
<1>4. QED
  BY <1>1, <1>2, <1>3, PublicationSteps DEF Inv, Output!Next

\* Each file of each job is one atomic publication request.
THEOREM ExtractionIsAtomicPerFile == Spec => ExtractionIsPerFileAtomic
<1>1. Init => Output!Init
  BY DEF Init, Output!Init, Modes, Output!Requests
<1>2. QED
  BY <1>1, StepImplements, InvAlways, PTL DEF Spec, ExtractionIsPerFileAtomic, Output!Spec
=============================================================================
