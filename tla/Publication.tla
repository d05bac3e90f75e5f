---------------------------- MODULE Publication ----------------------------
(***************************************************************************)
(* Publication of one verified output file: core/file_publish.cpp, driven  *)
(* the way every archive adapter drives it.  A transaction makes a private *)
(* staging directory beside its target, pins it, lets the adapter write    *)
(* the payload there, moves the finished payload onto the target with one  *)
(* rename, and removes the staging directory.  Transactions of this and of *)
(* other SuperZip processes, and other programs, act on the same directory *)
(* at the same time; any step may fail, and a process may be killed.       *)
(***************************************************************************)
EXTENDS FiniteSets

CONSTANTS
  Txs,       \* transactions, each in a thread or process of its own
  Targets,   \* final paths
  Suffixes,  \* values of random_publication_suffix
  Absent,    \* content of a path at which there is no file
  User,      \* the author of files that other programs write
  NoDir      \* a transaction that holds no staging directory

\* The directory target.sztmp-suffix.
Dirs == Targets \X Suffixes

Complete(t) == [by |-> t, whole |-> TRUE]
Partial(t) == [by |-> t, whole |-> FALSE]
UserFile == [by |-> User, whole |-> TRUE]
Files == [by : Txs \cup {User}, whole : BOOLEAN]

ASSUME PublicationAssumption ==
  /\ Absent \notin Files
  /\ NoDir \notin Dirs
  /\ User \notin Txs

VARIABLES
  final,    \* what a reader finds at each final path
  request,  \* target and overwrite option each caller passes
  outcome,  \* whether the rename of a transaction happened (history)
  pc,       \* how far each transaction has come
  dir,      \* the staging directory of each transaction
  dirs,     \* staging directories that exist on disk
  payload,  \* payload.tmp of each staging directory
  leaks     \* directories left by a killed process or a failed removal (history)

fs == <<dirs, payload, leaks>>
vars == <<final, request, outcome, pc, dir, dirs, payload, leaks>>

Requests == [target : Targets, overwrite : BOOLEAN]
Outcomes == {"pending", "published", "abandoned"}

\* reserving: directory made, not yet pinned; unwinding: an exception is on
\* its way to the destructor; done and failed: what the caller was told.
Running == {"reserving", "reserved", "writing", "closed", "renamed", "unwinding"}
Stages == Running \cup {"idle", "done", "failed", "killed"}

\* The staging directory handle is open, without delete sharing.
Pinned(t) == pc[t] \in Running \ {"reserving"}

TypeOK ==
  /\ final \in [Targets -> Files \cup {Absent}]
  /\ request \in [Txs -> Requests]
  /\ outcome \in [Txs -> Outcomes]
  /\ pc \in [Txs -> Stages]
  /\ dir \in [Txs -> Dirs \cup {NoDir}]
  /\ dirs \in SUBSET Dirs
  /\ payload \in [Dirs -> Files \cup {Absent}]
  /\ leaks \in SUBSET Dirs

Init ==
  /\ final \in [Targets -> {Absent, UserFile}]
  /\ request \in [Txs -> Requests]
  /\ outcome = [t \in Txs |-> "pending"]
  /\ pc = [t \in Txs |-> "idle"]
  /\ dir = [t \in Txs |-> NoDir]
  /\ dirs = {}
  /\ payload = [d \in Dirs |-> Absent]
  /\ leaks = {}

Go(t, from, to) ==
  /\ pc[t] = from
  /\ pc' = [pc EXCEPT ![t] = to]

Abandon(t) == outcome' = [outcome EXCEPT ![t] = "abandoned"]

-----------------------------------------------------------------------------
(* Reservation *)

\* Faulty variant: a name that is taken counts as made.
MakeStagingDirectoryIgnoringExisting(t) ==
  /\ Go(t, "idle", "reserving")
  /\ \E s \in Suffixes : /\ dirs' = dirs \cup {<<request[t].target, s>>}
                        /\ dir' = [dir EXCEPT ![t] = <<request[t].target, s>>]
  /\ UNCHANGED <<final, request, outcome, payload, leaks>>

\* CreateDirectoryW succeeds only for a name nobody uses; a name that is
\* taken makes the loop draw another one.  128 random bits are not drawn a
\* second time within the moment between making a directory and pinning it.
MakeStagingDirectory(t) ==
  /\ Go(t, "idle", "reserving")
  /\ \E s \in Suffixes :
       LET d == <<request[t].target, s>> IN
       /\ d \notin dirs
       /\ \A u \in Txs : dir[u] # d
       /\ dirs' = dirs \cup {d}
       /\ payload' = [payload EXCEPT ![d] = Absent]
       /\ dir' = [dir EXCEPT ![t] = d]
  /\ UNCHANGED <<final, request, outcome, leaks>>

PinStagingDirectory(t) ==
  /\ dir[t] \in dirs
  /\ Go(t, "reserving", "reserved")
  /\ UNCHANGED <<final, request, outcome, dir, fs>>

\* open_pinned_directory failed: RemoveDirectoryW, whose result is ignored,
\* and rethrow.
PinFails(t) ==
  /\ Go(t, "reserving", "failed")
  /\ Abandon(t)
  /\ \/ dirs' = dirs \ {dir[t]} /\ UNCHANGED leaks
     \/ leaks' = leaks \cup ({dir[t]} \cap dirs) /\ UNCHANGED dirs
  /\ dir' = [dir EXCEPT ![t] = NoDir]
  /\ UNCHANGED <<final, request, payload>>

\* The parent chain cannot be made or pinned, or no free name was found:
\* nothing has been created.
ReserveFails(t) ==
  /\ Go(t, "idle", "failed")
  /\ Abandon(t)
  /\ UNCHANGED <<final, request, dir, fs>>

-----------------------------------------------------------------------------
(* The caller writes, closes and verifies the payload *)

OpenPayload(t) ==
  /\ Go(t, "reserved", "writing")
  /\ payload' = [payload EXCEPT ![dir[t]] = Partial(t)]
  /\ UNCHANGED <<final, request, outcome, dir, dirs, leaks>>

\* Faulty variant: the result of the last write or close is not looked at.
FinishPayloadIgnoringErrors(t) ==
  /\ Go(t, "writing", "closed")
  /\ \E p \in {Partial(t), Complete(t)} : payload' = [payload EXCEPT ![dir[t]] = p]
  /\ UNCHANGED <<final, request, outcome, dir, dirs, leaks>>

\* The last byte is written, the stream closed without an error and the
\* decoded bytes agree with the archive.
FinishPayload(t) ==
  /\ Go(t, "writing", "closed")
  /\ payload' = [payload EXCEPT ![dir[t]] = Complete(t)]
  /\ UNCHANGED <<final, request, outcome, dir, dirs, leaks>>

\* Faulty variant: a failing writer deletes the file at the final path.
ThrowsRemovingTarget(t) ==
  /\ pc[t] \in {"reserved", "writing", "closed"}
  /\ pc' = [pc EXCEPT ![t] = "unwinding"]
  /\ Abandon(t)
  /\ final' = [final EXCEPT ![request[t].target] = Absent]
  /\ UNCHANGED <<request, dir, fs>>

\* Writing, closing, verifying, cancelling or flushing throws.
Throws(t) ==
  /\ pc[t] \in {"reserved", "writing", "closed"}
  /\ pc' = [pc EXCEPT ![t] = "unwinding"]
  /\ Abandon(t)
  /\ UNCHANGED <<final, request, dir, fs>>

-----------------------------------------------------------------------------
(* Commit and cleanup *)

\* Faulty variant: ReplaceIfExists is always set.
RenameAlwaysAllowed(t) == TRUE

\* One rename, which the file system refuses if the target exists and
\* ReplaceIfExists is off.
RenameAllowed(t) == request[t].overwrite \/ final[request[t].target] = Absent

Rename(t) ==
  /\ RenameAllowed(t)
  /\ Go(t, "closed", "renamed")
  /\ final' = [final EXCEPT ![request[t].target] = payload[dir[t]]]
  /\ payload' = [payload EXCEPT ![dir[t]] = Absent]
  /\ outcome' = [outcome EXCEPT ![t] = "published"]
  /\ UNCHANGED <<request, dir, dirs, leaks>>

RenameRefused(t) ==
  /\ ~RenameAllowed(t)
  /\ Go(t, "closed", "unwinding")
  /\ Abandon(t)
  /\ UNCHANGED <<final, request, dir, fs>>

\* Release the pin and remove the private tree; errors are ignored, so the
\* tree may stay when another program holds a file in it.
RemoveStaging(t) ==
  /\ \/ /\ dirs' = dirs \ {dir[t]}
        /\ payload' = [payload EXCEPT ![dir[t]] = Absent]
        /\ UNCHANGED leaks
     \/ /\ leaks' = leaks \cup {dir[t]}
        /\ UNCHANGED <<dirs, payload>>
  /\ dir' = [dir EXCEPT ![t] = NoDir]
  /\ UNCHANGED <<final, request, outcome>>

\* Faulty variants: commit throws when the cleanup after its rename fails, and
\* the destructor leaves the staging tree of a failed transaction alone.
CleanupAfterCommitThrowing(t) ==
  /\ \/ Go(t, "renamed", "done")
     \/ Go(t, "renamed", "failed")
  /\ RemoveStaging(t)

CleanupOnUnwindForgetting(t) ==
  /\ Go(t, "unwinding", "failed")
  /\ dir' = [dir EXCEPT ![t] = NoDir]
  /\ UNCHANGED <<final, request, outcome, fs>>

CleanupAfterCommit(t) == Go(t, "renamed", "done") /\ RemoveStaging(t)

CleanupOnUnwind(t) == Go(t, "unwinding", "failed") /\ RemoveStaging(t)

-----------------------------------------------------------------------------
(* The world around a transaction *)

Kill(t) ==
  /\ pc[t] \in Running
  /\ pc' = [pc EXCEPT ![t] = "killed"]
  /\ outcome' = [outcome EXCEPT ![t] = IF @ = "pending" THEN "abandoned" ELSE @]
  /\ leaks' = leaks \cup ({dir[t]} \cap dirs)
  /\ dir' = [dir EXCEPT ![t] = NoDir]
  /\ UNCHANGED <<final, request, dirs, payload>>

UserCreates(g) ==
  /\ final[g] = Absent
  /\ final' = [final EXCEPT ![g] = UserFile]
  /\ UNCHANGED <<request, outcome, pc, dir, fs>>

UserDeletes(g) ==
  /\ final[g] # Absent
  /\ final' = [final EXCEPT ![g] = Absent]
  /\ UNCHANGED <<request, outcome, pc, dir, fs>>

\* Somebody tidies up a staging directory that nobody has pinned.
UserRemovesStaging(d) ==
  /\ d \in dirs
  /\ \A t \in Txs : Pinned(t) => dir[t] # d
  /\ dirs' = dirs \ {d}
  /\ payload' = [payload EXCEPT ![d] = Absent]
  /\ leaks' = leaks \ {d}
  /\ UNCHANGED <<final, request, outcome, pc, dir>>

-----------------------------------------------------------------------------
Step(t) ==
  \/ MakeStagingDirectory(t)
  \/ PinStagingDirectory(t)
  \/ PinFails(t)
  \/ ReserveFails(t)
  \/ OpenPayload(t)
  \/ FinishPayload(t)
  \/ Throws(t)
  \/ Rename(t)
  \/ RenameRefused(t)
  \/ CleanupAfterCommit(t)
  \/ CleanupOnUnwind(t)

Environment ==
  \/ \E t \in Txs : Kill(t)
  \/ \E g \in Targets : UserCreates(g) \/ UserDeletes(g)
  \/ \E d \in Dirs : UserRemovesStaging(d)

Next == (\E t \in Txs : Step(t)) \/ Environment

Spec == Init /\ [][Next]_vars

\* A thread that runs is scheduled again; nothing else is owed.
FairSpec == Spec /\ \A t \in Txs : WF_vars(Step(t))

-----------------------------------------------------------------------------
(* Properties *)

\* A reader of a final path never sees a file that is still being written or
\* whose writer died: only the rename of a finished payload touches it.
FinalNeverPartial == \A g \in Targets : final[g] # Absent => final[g].whole

\* A pinned staging directory exists, holds nothing but its owner's payload
\* and is nobody else's, also when others reserve for the same target, die
\* and leave their directories, or tidy up.
StagingPrivate ==
  \A t \in Txs : Pinned(t) =>
    /\ dir[t] \in dirs
    /\ payload[dir[t]] \in {Absent, Partial(t), Complete(t)}
    /\ \A u \in Txs \ {t} : dir[u] # dir[t]

\* What commit tells its caller is what happened on disk: a transaction that
\* returned has published, one that threw has not, even when the cleanup
\* that follows the rename goes wrong.
ReportMatchesDisk ==
  \A t \in Txs :
    /\ pc[t] = "done" => outcome[t] = "published"
    /\ pc[t] = "failed" => outcome[t] = "abandoned"

\* Every staging directory on disk belongs to a transaction under way or was
\* left by a killed process or a removal the system refused: no error path
\* of commit or of the destructor forgets one.
NothingLeftBehind ==
  \A d \in dirs \ leaks : \E t \in Txs : pc[t] \in Running /\ dir[t] = d

\* A file that is there is only ever replaced by a transaction that was
\* asked to overwrite, whatever appears between its checks and its rename.
NoOverwriteKeepsExisting ==
  [][\A g \in Targets :
       final[g] # Absent /\ final'[g] \notin {final[g], Absent} =>
         \E t \in Txs : /\ request[t] = [target |-> g, overwrite |-> TRUE]
                        /\ outcome[t] = "pending" /\ outcome'[t] = "published"]_vars

\* A staging directory does not stay: the transaction that made it ends.
StagingIsTransient ==
  \A d \in Dirs : d \in dirs ~> (d \notin dirs \/ d \in leaks)

\* Seen from outside, all of this is one atomic step per request.
Output == INSTANCE AtomicOutput
ImplementsAtomicOutput == Output!Spec

=============================================================================
