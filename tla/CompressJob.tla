----------------------------- MODULE CompressJob -----------------------------
(***************************************************************************)
(* Creation of one native archive: compress_suzip of core/archive.cpp with *)
(* build_manifest and lock_manifest_source of core/file_manifest.cpp and   *)
(* the batches of core/archive_encode_batch.cpp, while other programs      *)
(* write to the sources.                                                   *)
(*                                                                         *)
(* The stream of one file is EncodePipeline, and what a commit does on     *)
(* disk is Publication; here each is one step.  A source is named by its   *)
(* place in Sources, its content by the number of times it was written to. *)
(* Any write changes the identity that lock_manifest_source compares.      *)
(***************************************************************************)
EXTENDS Naturals, Sequences, FiniteSets, Functions, SequencesExt, FiniteSetsExt

CONSTANTS
  Sources,     \* files and directories in the order of the walk:
               \* [name : Nat, directory : BOOLEAN, size : Nat]
  BlockSize,   \* options.block_size
  BatchFiles,  \* kArchiveEncodeBatchFiles
  BatchBytes,  \* the smaller of chunk_size and kArchiveEncodeBatchBytes
  Damages,     \* {FALSE}, or BOOLEAN: a block may be encoded or stored wrongly
  MaxEdits     \* bound: writes to each source

Src == DOMAIN Sources
Total == Cardinality(Src)

ASSUME CompressJobAssumption ==
  /\ Sources \in Seq([name : Nat, directory : BOOLEAN, size : Nat]) /\ Sources # <<>>
  /\ {BlockSize, BatchFiles, BatchBytes, MaxEdits} \subseteq Nat
  /\ Damages \in {{FALSE}, BOOLEAN}

VARIABLES
  options,   \* force_cpu and verify_after_write
  disk,      \* content of each source
  seen,      \* identity that the manifest recorded for each source
  manifest,  \* manifest.entries: sources in the order of their names
  locks,     \* sources opened without write sharing
  pc,        \* step of compress_suzip
  batch,     \* the batch under way: source, content read, encoding
  payload,   \* bytes of the archive written so far, by source and content
  index,     \* index.entries
  published  \* the archive at the final path, or None

reading == <<disk, seen, manifest>>
writing == <<payload, index>>
vars == <<options, reading, locks, pc, batch, writing, published>>

None == <<>>
Options == [force_cpu : BOOLEAN, verify : BOOLEAN]
Contents == 0 .. MaxEdits

TypeOK ==
  /\ options \in Options
  /\ disk \in [Src -> Contents]
  /\ seen \in Seq(Contents)
  /\ manifest \in Seq(Src)
  /\ locks \subseteq Src
  /\ pc \in {"walk", "entries", "read", "write", "file", "closed", "commit", "done", "failed"}
  /\ batch \in Seq([source : Src, content : Contents, sound : BOOLEAN, first : Nat, length : Nat])
  /\ payload \in Seq([source : Src, content : Contents, byte : Nat, sound : BOOLEAN])
  /\ index \in Seq([source : Src, crc : Contents, first : Nat, offset : Nat, length : Nat])

Init ==
  /\ options \in Options
  /\ disk = [s \in Src |-> 0]
  /\ seen = <<>> /\ manifest = <<>> /\ locks = {}
  /\ pc = "walk" /\ batch = <<>>
  /\ payload = <<>> /\ index = <<>> /\ published = None

-----------------------------------------------------------------------------
(* The manifest *)

\* add_path: the identity is taken under a lock that ends with the call.
Walk ==
  /\ pc = "walk" /\ Len(seen) < Total
  /\ seen' = Append(seen, disk[Len(seen) + 1])
  /\ UNCHANGED <<options, disk, manifest, locks, pc, batch, writing, published>>

\* The sort of build_manifest; sources of the same name in any order.
SortManifest ==
  /\ pc = "walk" /\ Len(seen) = Total
  /\ manifest' \in {m \in [1 .. Total -> Src] :
       /\ IsInjective(m)
       /\ \A k \in 1 .. Total - 1 : Sources[m[k]].name <= Sources[m[k + 1]].name}
  /\ pc' = "entries"
  /\ UNCHANGED <<options, disk, seen, locks, batch, writing, published>>

-----------------------------------------------------------------------------
(* The entries *)

More == Len(index) < Total
Position(k) == manifest[Len(index) + k]
Current == Sources[Position(1)]

\* archive_encode_batch_count
Batchable(count) ==
  LET bytes == [k \in 1 .. count |-> Sources[Position(k)].size] IN
  /\ \A k \in 1 .. count : /\ ~Sources[Position(k)].directory
                          /\ bytes[k] \in 1 .. BlockSize
  /\ FoldFunctionOnSet(+, 0, bytes, 1 .. count) <= BatchBytes

BatchCount ==
  LET counts == {c \in 2 .. BatchFiles :
                   c <= Total - Len(index) /\ Batchable(c)}
  IN IF options.force_cpu \/ counts = {} THEN 0 ELSE Max(counts)

\* An index entry: its blocks start at `first` of its payload, which starts at
\* `offset` of the archive; the CRC is of the content that was read.
Entry(s, content, first, length) ==
  [source |-> s, crc |-> content, first |-> first,
   offset |-> Len(payload), length |-> length]

Bytes(s, content, sound, length) ==
  [k \in 1 .. length |-> [source |-> s, content |-> content, byte |-> k, sound |-> sound]]

AddDirectory ==
  /\ pc = "entries" /\ More /\ BatchCount = 0 /\ Current.directory
  /\ index' = Append(index, Entry(Position(1), 0, 0, 0))
  /\ UNCHANGED <<options, reading, locks, pc, batch, payload, published>>

\* Faulty variant: the handle is closed after the comparison.
CheckUnlocked(s) ==
  /\ disk[s] = seen[s]
  /\ UNCHANGED locks

\* lock_manifest_source
Lock(s) ==
  /\ disk[s] = seen[s]
  /\ locks' = locks \cup {s}

\* compress_manifest_file_entry
StartFile ==
  /\ pc = "entries" /\ More /\ BatchCount = 0 /\ ~Current.directory
  /\ Lock(Position(1))
  /\ pc' = "file"
  /\ UNCHANGED <<options, reading, batch, writing, published>>

\* Shown to write a valid entry by EncodePipeline.
WriteFile ==
  /\ pc = "file"
  /\ \E length \in 0 .. Current.size, damaged \in Damages :
       LET s == Position(1) IN
       /\ payload' = payload \o Bytes(s, disk[s], ~damaged, length)
       /\ index' = Append(index, Entry(s, disk[s], 0, length))
  /\ locks' = {} /\ pc' = "entries"
  /\ UNCHANGED <<options, reading, batch, published>>

StartBatch ==
  /\ pc = "entries" /\ More /\ BatchCount > 0
  /\ batch' = <<>> /\ pc' = "read"
  /\ UNCHANGED <<options, reading, locks, writing, published>>

\* read_batch_sources: each file is locked, read and stays locked.
ReadBatchSource ==
  /\ pc = "read" /\ Len(batch) < BatchCount
  /\ LET s == Position(Len(batch) + 1) IN
     /\ Lock(s)
     /\ batch' = Append(batch, [source |-> s, content |-> disk[s],
                                sound |-> TRUE, first |-> 0, length |-> 0])
  /\ UNCHANGED <<options, reading, pc, writing, published>>

\* encode_owned_block_batch: one payload for all, and one block for each file,
\* which starts where the one before it ends.
EncodeBatch ==
  /\ pc = "read" /\ Len(batch) = BatchCount
  /\ \E lengths \in [DOMAIN batch -> 0 .. BlockSize], damaged \in Damages,
        starts \in [DOMAIN batch -> 0 .. BatchFiles * BlockSize] :
       /\ \A k \in DOMAIN batch :
            /\ lengths[k] <= Sources[batch[k].source].size
            /\ starts[k] = IF k = 1 THEN 0 ELSE starts[k - 1] + lengths[k - 1]
       /\ batch' = [k \in DOMAIN batch |->
            [batch[k] EXCEPT !.sound = ~damaged, !.length = lengths[k], !.first = starts[k]]]
  /\ pc' = "write"
  /\ UNCHANGED <<options, reading, locks, writing, published>>

\* Faulty variant: the block keeps its offset in the payload of the batch.
WriteBatchUnshifted ==
  /\ pc = "write" /\ batch # <<>>
  /\ LET file == Head(batch) IN
     /\ payload' = payload \o Bytes(file.source, file.content, file.sound, file.length)
     /\ index' = Append(index, Entry(file.source, file.content, file.first, file.length))
  /\ batch' = Tail(batch)
  /\ UNCHANGED <<options, reading, locks, pc, published>>

\* write_batch_entry: the bytes of one file, and its block at offset zero.
WriteBatchEntry ==
  /\ pc = "write" /\ batch # <<>>
  /\ LET file == Head(batch) IN
     /\ payload' = payload \o Bytes(file.source, file.content, file.sound, file.length)
     /\ index' = Append(index, Entry(file.source, file.content, 0, file.length))
  /\ batch' = Tail(batch)
  /\ UNCHANGED <<options, reading, locks, pc, published>>

EndBatch ==
  /\ pc = "write" /\ batch = <<>>
  /\ locks' = {} /\ pc' = "entries"
  /\ UNCHANGED <<options, reading, batch, writing, published>>

-----------------------------------------------------------------------------
(* The end *)

\* write_archive_index, write_suzip_footer, flush and close.
Finalize ==
  /\ pc = "entries" /\ ~More
  /\ pc' = IF options.verify THEN "closed" ELSE "commit"
  /\ UNCHANGED <<options, reading, locks, batch, writing, published>>

Archive == [index |-> index, payload |-> payload]

\* verify_entry_streaming and the CRC check.
Decodes(archive, entry) ==
  /\ entry.first = 0
  /\ SubSeq(archive.payload, entry.offset + 1, entry.offset + entry.length) =
       Bytes(entry.source, entry.crc, TRUE, entry.length)

\* validate_archive_path_set
UniqueNames(archive) ==
  \A k, l \in DOMAIN archive.index :
    Sources[archive.index[k].source].name = Sources[archive.index[l].source].name => k = l

\* What verify_suzip and extract_suzip accept.
Readable(archive) ==
  /\ UniqueNames(archive)
  /\ \A k \in DOMAIN archive.index : Decodes(archive, archive.index[k])

\* Faulty variant: the archive is read back but its CRCs are not compared.
VerifyIndexOnly ==
  /\ pc = "closed"
  /\ UniqueNames(Archive)
  /\ pc' = "commit"
  /\ UNCHANGED <<options, reading, locks, batch, writing, published>>

Verify ==
  /\ pc = "closed"
  /\ Readable(Archive)
  /\ pc' = "commit"
  /\ UNCHANGED <<options, reading, locks, batch, writing, published>>

Commit ==
  /\ pc = "commit"
  /\ published' = Archive /\ pc' = "done"
  /\ UNCHANGED <<options, reading, locks, batch, writing>>

\* A source that changed or cannot be read, a full disk, a cancelled job, an
\* archive that fails its verification: the transaction is dropped.
Throw ==
  /\ pc \notin {"done", "failed"}
  /\ pc' = "failed" /\ locks' = {}
  /\ UNCHANGED <<options, reading, batch, writing, published>>

\* Another program writes to a file that is not locked.
Edit(s) ==
  /\ s \notin locks /\ ~Sources[s].directory /\ disk[s] < MaxEdits
  /\ disk' = [disk EXCEPT ![s] = @ + 1]
  /\ UNCHANGED <<options, seen, manifest, locks, pc, batch, writing, published>>

Compress ==
  \/ Walk \/ SortManifest
  \/ AddDirectory \/ StartFile \/ WriteFile
  \/ StartBatch \/ ReadBatchSource \/ EncodeBatch \/ WriteBatchEntry \/ EndBatch
  \/ Finalize \/ Verify \/ Commit \/ Throw

Next == Compress \/ \E s \in Src : Edit(s)

Spec == Init /\ [][Next]_vars

-----------------------------------------------------------------------------
(* Properties *)

\* Where an entry begins: at the end of the entry before it.
Start(archive, k) ==
  IF k = 1 THEN 0 ELSE archive.index[k - 1].offset + archive.index[k - 1].length

\* The entries describe the payload without gap or overlap, also where streamed
\* files, batches and directories alternate.
Dense(archive) ==
  /\ \A k \in DOMAIN archive.index :
       archive.index[k].first = 0 /\ archive.index[k].offset = Start(archive, k)
  /\ Start(archive, Len(archive.index) + 1) = Len(archive.payload)

\* Every source is in a published archive once, in the order of the names, with
\* the content it had when the walk came by, whoever wrote to it since and
\* whether it was streamed or batched; and its payload is dense.
PublishedMatchesManifest ==
  published # None =>
    /\ Len(published.index) = Total
    /\ \A k \in 1 .. Total : LET entry == published.index[k] IN
         /\ entry.source = manifest[k]
         /\ ~Sources[entry.source].directory => entry.crc = seen[entry.source]
    /\ Dense(published)

\* No file that is being archived changes between the comparison of its identity
\* and the last byte that is read from it.
LockedIsUnchanged == \A s \in locks : disk[s] = seen[s]

\* Extraction finds one entry of the name of source s, and what it decodes there
\* is what the walk saw in that source.
Restores(archive, s) ==
  \E k \in DOMAIN archive.index : LET entry == archive.index[k] IN
    /\ \A l \in DOMAIN archive.index :
         Sources[archive.index[l].source].name = Sources[s].name <=> l = k
    /\ ~Sources[s].directory =>
         SubSeq(archive.payload, entry.offset + entry.first + 1,
                entry.offset + entry.first + entry.length) = Bytes(s, seen[s], TRUE, entry.length)

\* --verify-after-write: a published archive restores every source that the walk
\* saw.  The verification reads the archive and never the sources again: that its
\* CRCs are those of the walk is the work of the locks, of the order in which
\* batches and streams write their entries, and of the offsets.
VerifiedRestoresSources ==
  published # None /\ options.verify => \A s \in Src : Restores(published, s)

\* compress_suzip: "Create a native SUZIP archive from validated filesystem
\* sources [...] Throws without replacing the destination on invalid inputs."
PublishedIsReadable == published # None => Readable(published)
=============================================================================
