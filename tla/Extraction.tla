----------------------------- MODULE Extraction -----------------------------
(***************************************************************************)
(* Extraction of one archive into a directory: extract_with_publication    *)
(* and DirectoryPublishTransaction of core/file_publish.cpp around an      *)
(* adapter such as extract_suzip.  Each file reaches its final path by one *)
(* atomic publication (Publication implements AtomicOutput); this module   *)
(* is about the loops over those publications: the private quarantine, the *)
(* checkpoints at which a job can be cancelled, the inspection of the      *)
(* decoded files and the passes of publish.                                *)
(*                                                                         *)
(* Several jobs extract the same archive into the same directory, and      *)
(* other programs create files there.  Nobody deletes files from the       *)
(* destination while the jobs run.                                         *)
(***************************************************************************)
EXTENDS Naturals, Sequences

CONSTANTS
  Jobs,     \* extractions, each a GUI worker or a CLI process
  Archive,  \* the files of the archive in the order the adapter decodes them
  Sorted,   \* the same files in the order of the quarantine inventory
  Absent,   \* content of a path at which there is no file
  User      \* the author of files that other programs write

Files == {Sorted[k] : k \in DOMAIN Sorted}
Last == Len(Sorted)

ASSUME ExtractionAssumption ==
  /\ Sorted \in Seq(Files) /\ Archive \in Seq(Files) /\ Len(Archive) = Len(Sorted)
  /\ Files = {Archive[k] : k \in DOMAIN Archive}
  /\ \A k, l \in DOMAIN Sorted : Sorted[k] = Sorted[l] => k = l
  /\ Last > 0
  /\ Absent \notin [by : (Jobs \X Files) \cup {User}, whole : {TRUE}]

VARIABLES
  final,      \* what a reader finds at each destination path
  mode,       \* options of each job
  flaw,       \* a file that fails the adapter's checks, or "infected": the
              \* inspection objects to the decoded files, or "none"
  pc, pos,    \* step of each job and its position in the current loop
  cancel,     \* operation_cancel_requested_
  tree,       \* "none", "present" or "left": the staging tree on disk
  published,  \* files each job has published (history)
  late        \* files each job published after the cancel request (history)

vars == <<final, mode, flaw, pc, pos, cancel, tree, published, late>>
archive == <<mode, flaw>>

\* Without validation and inspection the adapter writes to the destination.
Modes == [staging : {"direct", "validate", "inspect"}, overwrite : BOOLEAN]
Staged(j) == mode[j].staging # "direct"
Inspected(j) == mode[j].staging = "inspect"

\* The first file a job publishes.
FirstFile(j) == IF Staged(j) THEN Sorted[1] ELSE Archive[1]

Steps == {"start", "extract", "commit", "inspect", "preflight", "folders",
          "files", "publish", "cleanup", "unwinding", "done", "failed"}

TypeOK ==
  /\ final \in [Files -> {Absent} \cup [by : (Jobs \X Files) \cup {User}, whole : {TRUE}]]
  /\ mode \in [Jobs -> Modes]
  /\ flaw \in Files \cup {"infected", "none"}
  /\ pc \in [Jobs -> Steps] /\ pos \in [Jobs -> 1 .. Last + 1]
  /\ cancel \in [Jobs -> BOOLEAN]
  /\ tree \in [Jobs -> {"none", "present", "left"}]
  /\ published \in [Jobs -> SUBSET Files]
  /\ late \in [Jobs -> 0 .. Last]

UserFile == [by |-> User, whole |-> TRUE]

\* UserCreates provides the files that are there before a job starts.
Init ==
  /\ final = [f \in Files |-> Absent]
  /\ mode \in [Jobs -> Modes]
  /\ flaw \in Files \cup {"infected", "none"}
  /\ pc = [j \in Jobs |-> "start"] /\ pos = [j \in Jobs |-> 1]
  /\ cancel = [j \in Jobs |-> FALSE]
  /\ tree = [j \in Jobs |-> "none"]
  /\ published = [j \in Jobs |-> {}]
  /\ late = [j \in Jobs |-> 0]

Go(j, from, to) ==
  /\ pc[j] = from
  /\ pc' = [pc EXCEPT ![j] = to]
  /\ pos' = [pos EXCEPT ![j] = 1]

Advance(j) == pos' = [pos EXCEPT ![j] = @ + 1] /\ UNCHANGED pc

\* checkpoint() returns.
Proceeds(j) == ~cancel[j]

\* Faulty variant: the rename replaces whatever is at the target.
PublishAnyway(j, f) ==
  /\ final' = [final EXCEPT ![f] = [by |-> <<j, f>>, whole |-> TRUE]]
  /\ published' = [published EXCEPT ![j] = @ \cup {f}]
  /\ late' = [late EXCEPT ![j] = IF cancel[j] THEN @ + 1 ELSE @]

\* Faulty variant: an existing file is skipped, as many extractors do.
PublishSkippingExisting(j, f) ==
  IF mode[j].overwrite \/ final[f] = Absent
  THEN /\ final' = [final EXCEPT ![f] = [by |-> <<j, f>>, whole |-> TRUE]]
       /\ published' = [published EXCEPT ![j] = @ \cup {f}]
       /\ late' = [late EXCEPT ![j] = IF cancel[j] THEN @ + 1 ELSE @]
  ELSE UNCHANGED <<final, published, late>>

\* One publication, atomic by Publication!PublicationIsAtomic.
Publish(j, f) ==
  /\ mode[j].overwrite \/ final[f] = Absent
  /\ final' = [final EXCEPT ![f] = [by |-> <<j, f>>, whole |-> TRUE]]
  /\ published' = [published EXCEPT ![j] = @ \cup {f}]
  /\ late' = [late EXCEPT ![j] = IF cancel[j] THEN @ + 1 ELSE @]

-----------------------------------------------------------------------------
(* The adapter decodes the archive *)

\* Staged extraction first reserves its quarantine in the destination.
Start(j) ==
  /\ Proceeds(j)
  /\ Go(j, "start", "extract")
  /\ tree' = [tree EXCEPT ![j] = IF Staged(j) THEN "present" ELSE "none"]
  /\ UNCHANGED <<final, archive, cancel, published, late>>

\* A checkpoint, and the next file of the archive decodes.
Decodes(j) ==
  /\ pc[j] = "extract" /\ pos[j] <= Last /\ Proceeds(j)
  /\ Archive[pos[j]] # flaw

DecodeIntoQuarantine(j) ==
  /\ Staged(j) /\ Decodes(j)
  /\ Advance(j)
  /\ UNCHANGED <<final, archive, cancel, tree, published, late>>

\* Without a quarantine the file is looked for before it is decoded next to
\* its target ...
DecodeBesideTarget(j) ==
  /\ ~Staged(j) /\ Decodes(j)
  /\ mode[j].overwrite \/ final[Archive[pos[j]]] = Absent
  /\ pc' = [pc EXCEPT ![j] = "commit"]
  /\ UNCHANGED <<final, archive, pos, cancel, tree, published, late>>

\* ... and published with no checkpoint in between.
CommitDecoded(j) ==
  /\ pc[j] = "commit"
  /\ Publish(j, Archive[pos[j]])
  /\ pc' = [pc EXCEPT ![j] = "extract"]
  /\ pos' = [pos EXCEPT ![j] = @ + 1]
  /\ UNCHANGED <<archive, cancel, tree>>

\* Not every adapter has a checkpoint after its last file.
ExtractedDirectly(j) ==
  /\ pos[j] > Last /\ ~Staged(j)
  /\ Go(j, "extract", "done")
  /\ UNCHANGED <<final, archive, cancel, tree, published, late>>

Extracted(j) ==
  /\ pos[j] > Last /\ Staged(j) /\ Proceeds(j)
  /\ Go(j, "extract", "inspect")
  /\ UNCHANGED <<final, archive, cancel, tree, published, late>>

\* Faulty variant: the verdict is logged and otherwise ignored.
InspectIgnoringVerdict(j) ==
  /\ Go(j, "inspect", "preflight")
  /\ UNCHANGED <<final, archive, cancel, tree, published, late>>

Inspect(j) ==
  /\ Inspected(j) => flaw # "infected"
  /\ Go(j, "inspect", "preflight")
  /\ UNCHANGED <<final, archive, cancel, tree, published, late>>

-----------------------------------------------------------------------------
(* DirectoryPublishTransaction::publish *)

\* First pass: look at every target before anything is published.
Preflight(j) ==
  LET f == Sorted[pos[j]] IN
  /\ pc[j] = "preflight" /\ pos[j] <= Last /\ Proceeds(j)
  /\ mode[j].overwrite \/ final[f] = Absent
  /\ Advance(j)
  /\ UNCHANGED <<final, archive, cancel, tree, published, late>>

PreflightDone(j) ==
  /\ pos[j] > Last
  /\ Go(j, "preflight", "folders")
  /\ UNCHANGED <<final, archive, cancel, tree, published, late>>

\* Second pass: the directories, with a checkpoint before each.
MakeFolders(j) ==
  /\ Proceeds(j)
  /\ Go(j, "folders", "files")
  /\ UNCHANGED <<final, archive, cancel, tree, published, late>>

\* Faulty variant: publish checks for cancellation in its first passes only.
FileWithoutCheckpoint(j) ==
  /\ pc[j] = "files" /\ pos[j] <= Last
  /\ pc' = [pc EXCEPT ![j] = "publish"]
  /\ UNCHANGED <<final, archive, pos, cancel, tree, published, late>>

\* Third pass: a checkpoint, then one publication, for each file.
FileCheckpoint(j) ==
  /\ pc[j] = "files" /\ pos[j] <= Last /\ Proceeds(j)
  /\ pc' = [pc EXCEPT ![j] = "publish"]
  /\ UNCHANGED <<final, archive, pos, cancel, tree, published, late>>

PublishFile(j) ==
  /\ pc[j] = "publish"
  /\ Publish(j, Sorted[pos[j]])
  /\ pc' = [pc EXCEPT ![j] = "files"]
  /\ pos' = [pos EXCEPT ![j] = @ + 1]
  /\ UNCHANGED <<archive, cancel, tree>>

\* Faulty variant: the loop stops one file early.
AllButLastPublished(j) ==
  /\ pos[j] >= Last
  /\ Go(j, "files", "cleanup")
  /\ UNCHANGED <<final, archive, cancel, tree, published, late>>

AllPublished(j) ==
  /\ pos[j] > Last
  /\ Go(j, "files", "cleanup")
  /\ UNCHANGED <<final, archive, cancel, tree, published, late>>

-----------------------------------------------------------------------------
(* The ways to fail *)

\* A checkpoint throws.  There is none between the inspection and publish's
\* own, and none after the last file of the third pass; an adapter reports its
\* progress, which is a checkpoint, after its last file too.
CheckpointThrows(j) ==
  /\ cancel[j]
  /\ \/ pc[j] \in {"start", "extract", "folders"}
     \/ pc[j] \in {"preflight", "files"} /\ pos[j] <= Last
  /\ Go(j, pc[j], "unwinding")
  /\ UNCHANGED <<final, archive, cancel, tree, published, late>>

\* Decoding, inspecting, refusing an existing file, or any I/O error.
StepThrows(j) ==
  /\ pc[j] \in Steps \ {"cleanup", "unwinding", "done", "failed"}
  /\ Go(j, pc[j], "unwinding")
  /\ UNCHANGED <<final, archive, cancel, tree, published, late>>

\* cleanup_file_publish_target, whose errors are ignored, and the end.
Cleanup(j) ==
  /\ \/ Go(j, "cleanup", "done")
     \/ Go(j, "unwinding", "failed")
  /\ \E left \in {"none", "left"} :
       tree' = [tree EXCEPT ![j] = IF @ = "present" THEN left ELSE @]
  /\ UNCHANGED <<final, archive, cancel, published, late>>

RequestCancel(j) ==
  /\ ~cancel[j] /\ pc[j] \notin {"done", "failed"}
  /\ cancel' = [cancel EXCEPT ![j] = TRUE]
  /\ UNCHANGED <<final, archive, pc, pos, tree, published, late>>

UserCreates(f) ==
  /\ final[f] = Absent
  /\ final' = [final EXCEPT ![f] = UserFile]
  /\ UNCHANGED <<archive, pc, pos, cancel, tree, published, late>>

-----------------------------------------------------------------------------
Step(j) ==
  \/ Start(j)
  \/ DecodeIntoQuarantine(j) \/ DecodeBesideTarget(j) \/ CommitDecoded(j)
  \/ ExtractedDirectly(j) \/ Extracted(j) \/ Inspect(j)
  \/ Preflight(j) \/ PreflightDone(j) \/ MakeFolders(j)
  \/ FileCheckpoint(j) \/ PublishFile(j) \/ AllPublished(j)
  \/ CheckpointThrows(j) \/ StepThrows(j) \/ Cleanup(j)

Next ==
  \/ \E j \in Jobs : Step(j) \/ RequestCancel(j)
  \/ \E f \in Files : UserCreates(f)

Spec == Init /\ [][Next]_vars

-----------------------------------------------------------------------------
(* Properties *)

\* A file that fails the checks of the adapter never appears; with validation
\* or inspection one bad file, or the verdict on the whole, keeps every file of
\* the archive out of the destination.
OnlySoundFilesAppear ==
  \A j \in Jobs :
    /\ flaw \notin published[j]
    /\ Staged(j) /\ published[j] # {} => flaw \notin Files
    /\ Inspected(j) /\ published[j] # {} => flaw = "none"

\* Two jobs that may not overwrite and begin with the same file never leave a
\* mixture of their files, though neither holds a lock: the order of
\* publication decides at that file.  Two staged jobs begin with the same file,
\* and so do two direct ones; a staged and a direct job do not when the archive
\* begins with another file than its inventory, and then they may mix.
NoMixing ==
  \A j, k \in Jobs :
    /\ j # k /\ FirstFile(j) = FirstFile(k)
    /\ ~mode[j].overwrite /\ ~mode[k].overwrite
    => published[j] = {} \/ published[k] = {}

\* A job that returns has put every file of the archive in place, and only a
\* job that may overwrite has replaced one of them since.
DoneMeansExtracted ==
  \A j \in Jobs : pc[j] = "done" =>
    /\ published[j] = Files
    /\ \A f \in Files : \/ final[f].by = <<j, f>>
                       \/ \E k \in Jobs \ {j} : mode[k].overwrite /\ final[f].by = <<k, f>>

\* A cancel request is honoured at the next checkpoint: a job, staged or not,
\* publishes at most the one file that had passed its checkpoint.
CancelIsPrompt == \A j \in Jobs : late[j] <= 1

\* Each file of each job is one request to AtomicOutput: extraction is atomic
\* per file, and refuses to overwrite per file.
Output == INSTANCE AtomicOutput WITH
  Txs <- Jobs \X Files, Targets <- Files,
  request <- [t \in Jobs \X Files |->
                [target |-> t[2], overwrite |-> mode[t[1]].overwrite]],
  outcome <- [t \in Jobs \X Files |->
                IF t[2] \in published[t[1]] THEN "published" ELSE "pending"]
ExtractionIsPerFileAtomic == Output!Spec

=============================================================================
