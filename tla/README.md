# SuperZip in TLA+

SuperZip is a Windows archiver: a GUI and a command line over a native,
GPU-capable archive format (`.suzip`) and two dozen adapters for foreign
formats. This directory holds TLA+ models of the parts of `src/src/` in which
threads, processes, failures and other programs meet, the TLC runs that check
them on small instances, and TLAPS proofs of the properties that matter most for
every value of the constants.

Paths below are relative to `src/src/`.

## The system

| Component | State | Operations | What makes it correct |
|---|---|---|---|
| File publication (`core/file_publish.*`) | final paths, private staging directories, payload files, pins | reserve, write, commit, cleanup; directory publication; quarantine and inspection | no reader sees a partial file; no overwrite unless asked; nothing is left behind; the report agrees with the disk |
| Native archive, encoding (`core/archive.cpp`, `archive_blocks.cpp`) | queue of chunks, one thread per chunk, block table, running CRC | read, encode, write in order, unwind | the entry is what one thread would have written; bounded memory; no thread outlives the operation; it returns |
| Native archive, decoding (same files) | windows of blocks, one thread per window, output, running CRC | submit, flush, check | what is accepted is the source; an intact archive is never refused, whatever chunk size the reader uses |
| Native archive, creation (`core/archive.cpp`, `archive_encode_batch.cpp`, `file_manifest.cpp`, `archive_index.cpp`) | manifest, source locks, batches, payload, index | walk, sort, lock, stream or batch, verify, commit | the archive holds what the walk saw, densely, and readers accept it |
| Progress and cancellation (`core/progress.*`) | counters, cancellation flag | publish, checkpoint, request_cancel | a request is honoured at the next checkpoint and reaches all threads |
| GUI jobs (`app/main_window_extract_jobs.cpp`, `operation_summary.hpp`, `operation_destination.hpp`) | two atomics, state under `mutex_`, one worker, History, pending summary and folder | run_job, stop, clear, finish, hand over, present | nothing of one job reaches another; a stop is neither lost nor late; results are presented |
| Folder sizes (`app/main_window_folder_size.cpp`, `folder_size_cache.hpp`) | cache of tasks, scan queue, worker, condition variable | paint, enqueue, scan, publish, retain, invalidate, stop | no stale size; no lost wakeup; bounded queue; closing returns |
| Queue metadata (`app/queue_metadata.*`) | entries, pending reads, worker, condition variable | synchronize, get, read, store, stop | the same for kinds and sizes of files |
| Pinned output buffers (`gpu/pinned_host_budget.hpp`, `gpu/hip_device.cpp`, `core/decoded_chunk.cpp`) | one atomic counter, the idle list of a pool, allocations | acquire, reserve, allocate, use, cache, evict, free | the counter is exact and bounded; a buffer has one user; an operation returns all it pinned |
| Memory admission (`core/host_memory_budget.*`, `core/worker_budget.hpp`, `gpu/device_memory_budget.hpp`) | a counter per device, snapshots | admit, reserve, release | limits hold under concurrent reservations; no overflow |
| GPU codecs (`gpu/`) | streams, device buffers | encode, decode, fall back to the CPU | the same bytes as the CPU path |
| Foreign format adapters (`tar/`, `cpio/`, `zip/`, `xar/`, ...) | the position in the archive, the index of the first pass | scan, replay the index, create | both passes of a reader agree; only members are written, each once; what is refused is defective (but for the gaps under Findings); every output goes through file publication |
| Format detection (`core/archive_format.*`) | none | name and first bytes to a format, format to a reader | an archive reaches the reader of its format |
| Path rules (`core/path_safety.*`, `core/stream_archive_path.hpp`) | none | check one path, check the set of an archive's paths, name the output of a stream | no path leaves the destination; no two entries share a place |
| Stream decoders (`gzip/`, `bzip2/`, `xz/`, `zstd/`, `lzip/`, `lzma/`, `unix_compress/`) | a block of input, the decoder of a library, the end state | underflow, next member, verify the end | what is handed out is the whole content, wherever blocks end; what follows a stream is judged |
| Checksums (`core/`) | none | pure functions | the same value on every path |
| CLI, drawing, settings, tools | various | | out of the scope of these models |

How they interact: a GUI job or a CLI command calls an adapter. To extract, it
calls `extract_with_publication`, which makes a quarantine when validation or
inspection is on, runs the adapter on it, inspects what was decoded (Defender)
and publishes the files one by one; the adapter publishes each file by a
`FilePublishTransaction`. An adapter is found by `detect_archive_format` while the
archive is pinned against writers; it reads the archive twice, once for an index that
must pass the path rules and once for the payloads. Formats inside a compressed
stream (`.tar.gz`, `.cpio.gz`, `.rpm`) read through a stream buffer of the stream's own
adapter. To create a native archive, `compress_suzip` walks the
sources, and runs one encode pipeline per large file and batches for small ones
inside a single `FilePublishTransaction`. Threads of the pipelines report through
the progress callback, which in the GUI throws when the user has asked for a
stop. The worker of a job talks to the UI thread through `mutex_`, two atomics
and the window message `WM_APP + 1`, which several threads post and a flag
coalesces. Two more workers, for folder sizes and for metadata, have a mutex and
a condition variable each and post the same message.

What is hard: several processes publish into one directory without a lock and
may be killed; encoder and decoder threads end in any order and any of them may
throw; sources change while they are archived; a cancel request arrives
anywhere; the second pass of a reader trusts what the first has found, over padding,
offsets, name tables and nested streams whose blocks end anywhere; an archive may be
replaced before it is pinned; a job hands over its result after it has released the flag that lets
the next job start; rows of the queue page disappear and come back while a worker
computes something for them; condition variables and coalesced messages can lose
a wakeup.

## The modules

| Module | Models | Abstracts |
|---|---|---|
| `AtomicOutput` | what publication promises: each request puts a complete file at its target in one step or leaves it alone | everything in between |
| `Publication` | `reserve_file_publish_target`, `commit_verified_file`, `cleanup_file_publish_target`, `FilePublishTransaction`, and the way the adapters drive them; kills, other programs | a path is a target or a staging directory; a file is its author and whether it is whole |
| `Extraction` | `extract_with_publication` and `DirectoryPublishTransaction::publish` around an adapter; cancel requests; the verdict of the inspection | each publication is one step of `AtomicOutput` |
| `NativeEntry` | the block table of one file: encoding, shifting, validation, windows, decoding | the bytes of a block are tokens that name the block; a CRC is the content it covers |
| `EncodePipeline` | `compress_manifest_file_entry` with its encoder threads | a codec chooses a length for each block |
| `DecodePipeline` | `decode_entry_streaming` and `verify_entry_streaming` with their callers' checks | damage changes one byte of payload or one fill value |
| `CompressJob` | `compress_suzip`, `build_manifest`, `lock_manifest_source`, the batches, `verify_suzip` | the content of a source is the number of writes to it; a pipeline is one step |
| `GuiJob` | `run_job` and its worker, stop, History, summary and folder, `WM_APP + 1`, `WM_SIZE` | progress samples; what a job does |
| `FolderSize` | `FolderSizeCache`, its worker, painting, queue changes, close | the size of a folder is the number of its row's lifetimes |
| `QueueMetadata` | `QueueMetadataCache` | metadata is the number of changes of the file |
| `ContainerJob` | the extraction of one foreign archive: pin, detect, scan, create the destination, write entry by entry; cancel requests, another program that replaces the archive or creates files | an adapter is `Scan` and `Replay`, constants of the module |
| `FormatDetection` | `detect_archive_format`, names of formats, the reader of each | a file is the signature it starts with, marks at fixed places and the kind of its first lines |
| `PathSafety` | the rules for a path, the key of a path, the validation of a set of paths, names of streams | a name is the sequence of its bytes, of a small alphabet; limits are scaled |
| `ArchiveSteps` | what the passes of all readers return: an index, and steps that create a directory, write a file or fail | |
| `TarFormat`, `CpioFormat`, `ArFormat` | the writers and readers of TAR (PAX, GNU names, links, padding, compressed layers), of CPIO and of the CPIO archive inside an RPM, and of AR with BSD and GNU names | header fields are numbers, payload bytes are tokens, sizes of blocks and fields are scaled |
| `StoredFormats` | the readers of ARC, ARJ and CAB | the CAB decompressor is its answers |
| `LibraryFormats` | names, attributes, scan and extraction of ZIP, 7z, LHA and WIM; the ZIP writer | the library is what it returns for each member |
| `IsoFormat`, `XarFormat` | the walk over the directories of an image; the table of contents read tag by tag | sectors of two units; XML as tokens |
| `TextFormats` | UUE, XXE, Base64, BinHex and MacBinary, with their writers | the codecs work on lines and quanta as the code does, lines are shorter |
| `StreamPumps`, `StreamFormats` | the stream buffers of the compressed streams, block by block; headers, members and trailers; the LZW codec of Unix `compress` | the decoder of a library is its answers; code widths are scaled |
| `PinnedMemory` | `PinnedHostBudget::try_reserve` access by access, `try_allocate_hip_host_output`, `HipHostOutputPool`, the owners of decoded storage; HIP calls that fail | a snapshot of the machine's memory is the allowance it gives; sizes are small numbers |

`SampleNames`, `TarSamples`, `ContainerSamples`, `ImageSamples` and `StreamSamples` hold
the archives of the run `formats`: what the program's own writers make of small trees,
and good and broken archives of other programs. `MCFormatGaps` holds the good archives that
the program does not serve. The truth about a sample (its members,
whether its index and payloads are sound) is stated beside its bytes and computed by no
reader. `NativeEntry`, `PathSafety` and the formats have no state of their own; modules
named `MC...` only give values to constants, and modules named `...Proofs` prove.

Composition. `Publication` implements `AtomicOutput` (proved), `Extraction` is
built on one publication per file and implements `AtomicOutput` with the requests
`Jobs \X Files` (proved). `EncodePipeline` and `DecodePipeline` share
`NativeEntry`: the decoder's archives are what the encoder is shown to write
(`WrittenInOrder` against `SequentialBlocks`, `SequentialPayload`,
`SequentialContent`), for every choice of encoded lengths; `PipelineProofs` proves both
sides of it. In `CompressJob` a
stream is one step because of `WrittenInOrder`, and a commit is one step because
of `PublicationIsAtomic`. `ContainerJob` takes the steps of a second pass one at a time
between the steps of other programs; the readers are bound to its constants in
`MCFormats`, and what the job needs of them is the formula `ReadersAreSound`, which the
run checks for each of its sources (`SoundSource`) and the proofs assume. `FolderSize` takes from `QueueMetadata` only its
notification.

Correspondence of state and steps. A thread has a variable for its step (`pc`,
`worker`, `ui`); a locked region is one action, and each access to an atomic
outside one is an action of its own. In the two caches a worker holds the mutex
from the test of the predicate of its wait to the moment it blocks; the step
"sleep" is that interval, and other lock regions wait for it (`MutexFree`). A
`std::future` in a queue is a position in `pending` and a state in `task`;
destruction of the queue joins (`Unwind`). Exceptions are the actions named
`...Fails` and `...Throws`, and everything the handler does on the way out is
part of the step that follows. History variables, marked as such, record what a
property speaks about (`outcome`, `leaks`, `published`, `late`, `asked`, `life`,
`born`); no guard reads them except where they bound the instance.

Operators whose comment begins with "Faulty variant" are not part of a model:
each is an operation with a plausible mistake, kept beside the real one to show
that a property tells them apart.

## The runs

| Run | Instance | What it shows |
|---|---|---|
| `publication` | 2 transactions, 2 targets, 2 suffixes | `FinalNeverPartial`, `StagingPrivate`, `ReportMatchesDisk`, `NoOverwriteKeepsExisting`, `StagingIsTransient`, and `ImplementsAtomicOutput`, with kills at each step, cleanups that fail and other programs that create, delete and tidy up |
| `extraction` | 2 jobs, 2 files whose decoding order is not the inventory's, all modes, one flaw or none | `OnlySoundFilesAppear`, `NoMixing`, `DoneMeansExtracted`, `CancelIsPrompt`, `ExtractionIsPerFileAtomic` |
| `pipelines` | chunks of 2, 1 and 1 blocks, encoded with 2 in flight and 4 blocks allowed; or every encoding of them read with three chunk sizes, 1 or 2 in flight, intact or one byte changed, by extraction and by verification | encoding: `WrittenInOrder`, `BuffersAreBounded`, `FinishedEntryIsValid`, `AlwaysReturns`; decoding: `AcceptedIsSource`, `IntactNeverRejected`, `DecodersAreBounded`, `AlwaysDecides` |
| `compress_job` | a directory, a batch of two, a file too large for a batch and a single one; one write to each; blocks stored wrongly or not | `PublishedMatchesManifest`, `VerifiedRestoresSources` |
| `compress_same_name` | three files, two of one name | a violation of `PublishedIsReadable`, see Findings |
| `gui_job` | `GuiJob` itself: 2 jobs in a row, each for one of 3 operations, up to 2 History rows before a failure row, of the operation, of a check beside it and of the settings | `StopIsHonoured`, `SummaryIsOwnRow`, `OnlySuccessOpens`, `ResultsArePresented` |
| `shared_caches` | 2 windows, 3 addresses, 2 sizes, memory for 3 units, snapshots of 0, 2 and 3, a cache of one, operations with and without a pool; or 2 folders, 1 removal or invalidation | pinned memory: `PinsAreCounted`, `PinsAreBounded`, `BuffersAreExclusive`, `NothingStaysPinned`; folder sizes: `PaintedSizeIsCurrent`, `RowsResolve` |
| `folder_size_close` | 1 folder | a violation of `CloseReturns`, see Findings |
| `queue_metadata` | `QueueMetadata` itself: 2 paths, 3 rows in all, added, removed and added again, 1 change of each file | `ValueIsOfThisRow`, `RowsLearnTheirMetadata`, `StopReturns` |
| `formats` | archives of 25 formats with up to 2 parts, good, damaged, misnamed or looking like another format, one replacement, files of others in the way; not the good files of the two runs below | `SoundSource`, `OnlyArchivedContent`, `DoneMeansComplete`, `FailuresHaveACause`, `WrittenOnce` |
| `unix_compress_tail` | `.Z` files SuperZip writes that end where the code width grows | a violation of `DoneMeansComplete`, see Findings |
| `archive_with_text_line` | TAR, CPIO and AR archives SuperZip writes, with a line of Base64 or BinHex in the one file they hold | a violation of `FailuresHaveACause`, see Findings |

Why the bounds are enough. Publications interact in pairs: two transactions on
one target and one on another give every collision of names, and a suffix may be
used again after a kill. Two jobs and two files give every order of conflict, and
with different orders of decoding and of publication the order matters. In the
pipelines three chunks with two in flight fill the queue, leave a chunk waiting
and drain more than one; the fourth block is the limit, reached and not passed
for this file (`WriteFails` is reached by a failing write); the reader's chunk
sizes are below, between and above the sizes of the chunks, so that windows begin
inside a chunk. The same window size is used by every pair of blocks that follow
each other, so longer files repeat what three chunks show. In the GUI the second
job is the one that could receive what belongs to the first. In the caches one
removal followed by one more addition of the same row is what a late result needs
to meet a new row; three rows for two paths are enough for this. Two threads give
every failure of a compare-and-swap that matters, and with a cache of one the second
buffer that comes back has to be freed; three addresses leave one free while both
windows work, until HIP has refused to free one.

In `formats` two parts are a header and what it governs, a pair of entries that
collide or nest, or a long name and the entry it names; every kind of part meets every
other one, and each can be the last before the archive is cut. The names are the ones
that the path rules tell apart: equal but for case, one a prefix of the other, one that
sorts between a directory and its files, absolute, empty, `..`. Sizes of fields, blocks,
lines and code widths are scaled so that small samples reach the limits from both sides;
the comparisons are those of the code. One replacement is enough, because the pin ends
all that could follow. The run has 724,211 states. What it shows is shown for its sources: the
two kinds of good files that break `SoundSource` are left out of them and given to the job by the
runs of `MCFormatGaps`, which end in counterexamples. `Holding`, which puts the text lines into
an archive, is applied in `formats` to ZIP, whose signature is tested before them.

Deadlock is checked where the program must be able to go on (`publication`,
`pipelines`, `shared_caches`, `gui_job`, and `formats`, where a job that has ended
has a step of its own); the other models stop when their jobs have ended
or the window is closed, and say so in their configuration. No run uses symmetry; those with
large instances check liveness. `MCPipelines` and `MCSharedCaches` put two models side
by side that share neither state nor steps, as `PipelineProofs` and `SharedCacheProofs` do: each
behaviour of such a run is one of either model, while the other rests in a state in which
its invariants say nothing. Their 343,596 and 628,338 states are the sums of the two. The type
invariants of the pipelines, the caches and `PinnedMemory` were checked on the same
instances and are not repeated in every run; where a proof rests on one it is proved.

## Fairness

Weak fairness of the steps of a thread says that the operating system schedules
it, that file operations and codecs return, and that a scan ends (folder scans
have a time limit, `kMaxFolderSizeDuration`). Nothing is assumed of users, other
programs, kills and failures. `GuiJob` has strong fairness for `HandleRepaint`:
`GetMessage` returns posted messages before input, so the user cannot keep the UI
thread from a posted message. A mutex is free again and again without further
assumptions, because the only step that holds it across actions ends by itself.

`StagingIsTransient`, `AlwaysReturns`, `AlwaysDecides`, `RowsResolve`,
`RowsLearnTheirMetadata`, `StopReturns` and `ResultsArePresented` are the liveness
properties. They hold although every failure the code handles can happen, and
would not if a thread were left waiting, a queue forgotten or a wakeup lost.

## The proofs

Eight modules, 12,325 obligations, all checked from nothing. Nothing is assumed but the
named assumptions on the constants, and in `ContainerJobProofs` the contract of the
readers. None of the safety invariants below is inductive; what each proof adds is
said with it. The strengthened invariants, and the invariants that only a theorem states
(`NoRepaintIsLost`, `NoResultIsStranded`, `NoWorkerSleepsThroughStop`), were model-checked on
the instances of the runs before they were proved.

`PublicationProofs` (643 obligations), assuming only `PublicationAssumption` (the
value for "no file" is not a file, the value for "no directory" is not one, and
the user is not a transaction). `Inv`
adds what each stage of a transaction knows: which directory it names, that nobody
else names it (`Ownership`), what its payload file holds (`PayloadByStage`) and
whether it has published (`OutcomeByStage`). `FinalNeverPartial` then follows at
the rename, because a transaction about to rename has a complete payload;
`StagingPrivate`, `ReportMatchesDisk` and `NothingLeftBehind` follow directly.
With `Inv` each step is a step of `AtomicOutput` or a stutter: the rename is
`Publish`, every way to throw, be refused or be killed before it is `Abandon`, the
rest is invisible (`PublicationIsAtomic`). `NoOverwriteHolds` is an action
property proved from the same invariant.

`ExtractionProofs` (727), for any jobs, archives and orders, assuming
`ExtractionAssumption`. The invariant says what a job has published at each position of
each of its loops (a prefix of one of two orders, `PublishedByStage`), that what it has
decoded is sound and what it has approved is not infected (`SoundByStage`), who put each
file where it is (`FinalByAuthor`), that of two jobs with a file in common one may
overwrite (`PublishedOnce`), and when a file may still follow a request (`LateByStage`).
`OnlySoundFiles`, `OneOfTwoPublishes`, `DoneIsExtracted` and
`PromptCancel` are the four invariants of the run. `OneOfTwoPublishes` (`NoMixing`) is about jobs that
publish the same file first: two staged jobs follow the inventory and two direct ones the archive,
and the job that comes second is refused there. A staged job beside a direct one, on an archive
whose order is not that of the inventory, begins with another file; the two do mix, and each then
fails at the file it finds.
`ExtractionIsAtomicPerFile` is the refinement of `AtomicOutput` with one request per job
and file, proved step by step like the one of `Publication`.

`CompressJobProofs` (823), assuming `CompressJobAssumption`. `LockedSourcesStay`: a
locked source has the content the walk saw, because the lock is taken before the
content is compared and writers are shut out until it is released. The rest of the
invariant relates the position of the job in the manifest, the payload written so far
and the records of the index: they are dense, each names its source once, and the batch
in hand is the interval behind them; the sorted manifest names every source
(`SortedIsComplete`). From it `PublishedIsTheManifest` and
`VerifiedArchivesRestore`, for any sources, sizes and batch limits. The second joins the two
halves of what a user relies on: the manifest is what the walk saw, which the locks and offsets
provide, and the archive as it was stored decodes to what the CRCs say under names of which each
is there once, which the verification reads back. Neither alone would do, since a verification
never reads the sources and the job never looks at equal names. Lemmas about the
greedy split into batches use the least number of a non-empty set, derived from the
library's well-foundedness of the natural numbers.

`ContainerJobProofs` (3,464), assuming `ContainerJobAssumption`. Every theorem about the job
has the hypothesis `ReadersAreSound`: over each source, the first pass refuses only what is
defective, and the second puts members in their places and nothing else, all of them
unless it throws, no two in one place. It is satisfied by the 25 readers over the
sources of `formats`, which is what `SoundSource` checks, and not over those of `MCFormatGaps`; two parts of it are proved, see
below. The proof carries it to the running program: the
invariant says that the archive is the one the index was read from since the pin, that
the script left is a suffix of the reader's steps, and that the destination is what was
there, what others created, and the files of the steps taken. `OnlyMembersAppear`,
`PublishedIsVerified`, `SuccessIsComplete`, `FailureHasACause` and the action property
`FilesAreWrittenOnce` hold for any archive, any interleaving with other programs and any
number of replacements.

The second half of the module is about that hypothesis, with `Scan`, `Replay` and `Place` bound
as `MCFormats` binds them. `ValidPathSetIsOneTree`:
for any index of names, of any bytes and any length, `validate_archive_path_set` accepts
exactly when each entry has a place of its own in one tree that ignores case and no entry
lies below a file (`OneTree`), although it compares only neighbours of the sorted names and
looks for a child of a file only at one place, where `key/` would be. The argument: the
order is a strict total order of folded names (`LexTransitive`, `LexTotal`); the sort puts
its least element first and so on (`SortedInOrder`), so that two equal names have equal
neighbours between them (`SortedNeighbours`); everything that begins with `key/` follows the
place of `key/` at once, whatever stands between `key` and it (`LexBetween`); and names
are equal, or one is below the other, exactly when their components are (`JoinInjective`,
`JoinBelow`, `FoldedComponents`). `AcceptedStepsAreApart` turns it into the clause of the
contract that says no two steps meet, for every format that extracts one step per entry.

`ArStepsAreGood` proves of AR, whose model has no recursion, the second pass: of every archive that
`scan_ar` accepts, written by whomever, with BSD, GNU or short names, each step writes the
whole payload of its member, none fails, and no two meet. `ArRoundTrip` proves the whole
contract for what the program writes: for every manifest that is one tree, `scan_ar` accepts what `compress_ar` writes and
`extract_ar` gives each file its bytes back. The other formats are recursions over the bytes of
an archive and stay with TLC.

`PipelineProofs` (3,893), assuming `EncodeAssumption` and `DecodeAssumption`, is about
both pipelines; it extends both modules, whose names are disjoint, and shares the lemmas
about a written entry.

Of the encoder, the first half of the invariant says that `pending` is the interval of chunks that ends with `read`, in
order, that its length stays below `Inflight` wherever the thread may append, and
that every running encoder is in it. From it `MemoryIsBounded`,
`EncodersAreJoined` and `ChunksLeaveInOrder`. The second half (`EntryInv`) says that
the blocks, the payload and the CRC are the sequential ones of the chunks that left the
queue, that those chunks are ready, and that the entry so far is dense; it needs the
first half, because a chunk whose encoder still runs must not be among those written.
From it `EntryIsSequential` (`WrittenInOrder`) and `EntryIsDense`
(`FinishedEntryIsValid`), for every file, every choice of the encoders and every order
they end in. Most of the module is lemmas about `FlattenSeq` and `Total`, which the
community modules define by a recursive function under `CHOOSE`: such a function exists
and is unique because no least counterexample does (`LeastNumber`, from the
well-foundedness of the natural numbers), `Total` counts a set with one member per unit,
and each operator then has a step from `n` to `n + 1` (`FlattenMore`, `TotalNext`,
`SequentialMore`, `AppendKeepsValid`).

Of the decoder, a chain of lemmas says what the archive it is given decodes to. An entry
that was written has the bytes of each block at the block's offset, and every byte of its
payload belongs to a block (`SequentialLayout`). So whichever blocks a window groups, the
piece of payload it reads holds the bytes of each of them (`WindowBytes`), and the window
decodes to its part of what the whole payload decodes to (`WindowDecodes`). The whole is
the source (`IntactDecodes`), and is not as soon as one byte or one fill value has changed
(`DamagedByte`, `DamagedFill`: here the density of the payload is needed, a byte of no block
could change unseen). The invariant (`DecodeInv`) says that the windows in the queue follow
each other up to the block that is submitted next, that the CRC is the part of the whole
that has left the queue, and that the output is the same until a write has failed. From it
`OnlyTheSourceIsAccepted` (`AcceptedIsSource`) and `IntactIsNeverRejected`
(`IntactNeverRejected`), for every file, the empty one included, every encoding, chunk size
of the reader and number of windows in flight, and every order the decoders end in.
`FinishedEntryIsReadable` joins the two: whatever the encoder has finished, every window a
reader may form decodes to those blocks of the source. `DecodersAreJoined` bounds the windows
in flight and says that every running decoder is queued (`Borrowed`).

Both pipelines also have the two halves of termination that need no fairness.
`EncodingNeverStalls` and `DecodingNeverStalls`: at every moment the operation has ended, or
the main thread finds what its next step needs, or a thread it waits for is running; it never
asks for the front of an empty queue and never waits for a thread that was not started
(`Started`). `EncodingRunsOut` and `DecodingRunsOut`: every step of a thread, also one that
throws, lowers a natural number (`WorkLeft`, at most 4 * chunks + 2; `DecodeWork`, at most
3 * blocks + 3). Together with fair scheduling this is `AlwaysReturns` and `AlwaysDecides`;
that last conclusion, from fairness, is TLC's.

`GuiJobProofs` (438), assuming `GuiJobAssumption`. The invariant ties
the atomics to the step of the worker (`active` is true exactly while the job
works, `cancel` only in that time and in the reset after it) and says which job
the pending summary and folder belong to, and that the rows behind `first` are those of the
last job and of the settings and no row of that job is before it. It gives `StopRequestsAreHonoured`,
`SummariesAreOwnRows` and `OnlySuccessesOpen` for any number of jobs and rows. The code looks for
a row by its operation; that what it finds is the last row of this job about its operation, and
that it misses none, follows from where `first` stands, through every clearing of the list. The
last such row is a maximum of a set; that it exists is derived from the
library's well-foundedness of the natural numbers. `NoResultWaitsAlone`
(`NoResultIsStranded`) is the safety part of `ResultsArePresented`: a summary or a folder
that waits has a job that is still ending or a message that has not been handled, whichever
repaints were coalesced into it (`Announced`).

`QueueMetadataProofs` (602), assuming `QueueMetadataAssumption`. A row has the entry
that was made for it, and what an entry holds, and what the worker has read for the entry
it took, is at least as new as that entry (`EntriesAreNew`, `ReadIsNew`): a late result
goes to the entry it was read for and never to a row that was added since
(`ValuesAreOfThisRow`). An entry that waits is in the queue or with the worker
(`NoRequestIsLost`), which `RowsLearnTheirMetadata` relies on. `StopIsNotMissed`
(`NoWorkerSleepsThroughStop`): `stop` sets its flag under the mutex the worker tests and
blocks with, so that no worker blocks after it or stays blocked behind its notification;
and `JoinIsShort`: while it joins, each step of the worker uses up one of at most four. The
folder size worker has no such theorem, see Findings.

`SharedCacheProofs` (1,735), assuming `PinnedMemoryAssumption` and `FolderSizeAssumption`,
holds the proofs about the two small caches that threads share; the names of `PinnedMemory`
and `FolderSize` are disjoint, and each theorem is about one of them.

Of `PinnedMemory`, whose assumption makes the sets of owners and of buffers finite: sums are cardinalities: an amount of `n` bytes of
a buffer or of an owner is a set of `n` pairs, and the counter is the cardinality of the
union (`Bytes`). Each step of the counter then adds or removes an interval of such
pairs, and no induction is needed. The invariant adds what an owner holds between
reservation and allocation (`Transit`, `Hands`) and which buffers an operation has to give
back (`Traced`). It gives `PinsAreExact`, `PinsStayBounded` (from the comparison before
the swap with a limit that is below the maximum, whatever snapshot it came from),
`BuffersHaveOneUser` (a buffer is handed over, never copied) and `NothingPinnedIsLeft`.

Of `FolderSize`: a row and its task forget each other together (`EntriesAreLive`), so that
a task that is still the one of its row was made in the row's current lifetime. What the
worker has measured for such a task (`ResultIsCurrent`) and what it has stored in it
(`SizesAreCurrent`) is then of that lifetime, and so is what is painted:
`PaintedSizesAreCurrent`, an action property, for any folders and any number of removals,
additions and changes of kind, also while a scan of the row that has gone still runs. It
needs neither an order of the queue nor the bound on removals.
`NoScanIsForgotten` is the safety part of `RowsResolve`: until the window closes, a task that
a row waits for is with the worker, or in the queue of a worker that runs or is about to be
started or woken. The worker tests the queue under the mutex it blocks with, and a push comes
before its notification (`WorkerIsAwake`); a task leaves the queue only into the worker's hand
or with its row, and the worker's hand with a result (`PendingIsQueued`). `ResultsAreRepainted`
(`NoRepaintIsLost`) is its counterpart on the screen: a row that shows "..." although its task
has ended is about to be painted, or a message or WM_PAINT is on its way that will paint it, in every
order of the two workers' requests, the coalescing flag and the handler that clears it.

Only model-checked:

* liveness (`StagingIsTransient`, `AlwaysReturns`, `AlwaysDecides`, `RowsResolve`,
  `RowsLearnTheirMetadata`, `StopReturns`, `ResultsArePresented`): that fair steps are
  taken in the end is out of the prover's reach. What these rest on is proved where it is a
  safety property: no request, result, repaint or stop is lost, no pipeline stalls, and
  no pipeline has infinitely many steps;
* `SoundSource`, but for the paths of all formats and for AR: the other readers are recursive
  over the bytes of an archive, and what a recursion computes for every input needs an
  induction over data that the installed provers cannot instantiate.

## Findings

* `compress_same_name`: `build_manifest` (`core/file_manifest.cpp:271-296`) never
  looks for two sources of one archive path, `compress_suzip` publishes the
  archive, and every reader refuses its index
  (`validate_archive_path_set`, `core/path_safety.cpp:238-269`). The user only has
  to add two files of the same name from two folders. With
  `--verify-after-write` the job fails instead.
* `folder_size_close`: `stop_folder_size_worker`
  (`app/main_window_folder_size.cpp:88-97`) sets its flag and notifies without the
  mutex of the condition variable. If the worker has tested its predicate and not
  yet blocked, it misses both, and the join of the UI thread never returns.
  `QueueMetadataCache::stop` takes the mutex, and its `StopReturns` holds.

* `unix_compress_tail`: the writer of Unix `compress` puts out the last code in the old width
  when the dictionary has just grown beyond it
  (`unix_compress/unix_compress_adapter.cpp:612-614`), and a reader, SuperZip's own included, loses it
  without an error: without a repeated pair of bytes this happens to files of 257, 769 and 1793
  bytes. The samples of `formats` leave such files out (`LosesTail`, `ZLost`).
* `archive_with_text_line`: the detection looks at text lines before it looks at most
  signatures (`core/archive_format.cpp:458-463` before `503-545`), so that an archive whose first
  bytes hold a line that starts Base64 or BinHex, be it in a stored file, is taken for one and
  refused: a TAR, CPIO or AR archive of a mail or of a BinHex file. The other formats whose signatures
  stand behind the lines (CAB, ARJ, ARC, LHA, WIM, XAR, RPM and streams) are exposed in the same
  way where such a line can stand near their start; the run shows it for the ones SuperZip writes.
  If what follows a line of BinHex is a whole BinHex file and the archive ends with it, as an AR
  archive may, the reader of BinHex accepts the archive, and the extraction succeeds with the
  decoded file instead of the member; this is read in the code and in no sample.

Seen while modelling the formats, and outside what a comment or a test of the
repository promises, so that no run is built on them:

* A first UUE line of eleven bytes looks like XXE when the name says nothing.
* A `.tlz` file that is an lzip stream but no TAR archive has to be asked for with
  `--format`. A member named `TRAILER!!!` ends a CPIO archive. A damaged later header
  ends an LHA archive without an error. A `.lzma` stream of known size is read to that
  size and what follows is ignored.

## Not modelled

GPU kernels, block codecs and checksums are arithmetic on bytes with tests of their
own; here a codec is a choice of length and a checksum is the content. The vendored
libraries (miniz, the LZMA SDK, lhasa, wimlib, zlib, bzip2, liblzma, zstd) are what they
answer. The 7z writer, the bytes of the native header and footer, code pages of names and
time stamps are left out. Win32 calls are modelled by their success, failure and
atomicity: that a rename is one step, and that a directory without delete sharing cannot
be removed, is assumed of the file system. Loss of power is not modelled. The log,
settings, drawing, the benchmark and the resource monitor are left out. A minimized window
does not paint; `FolderSize` models a window that is visible.

Hazards without a property: the timer that clears the progress bar
(`app/main_window_extract_jobs.cpp:518`), the budget of device memory
(`gpu/device_memory_budget.hpp:33`) and the admission of host memory
(`core/host_memory_budget.cpp:59`). The staging directory of `extract_suzip` between its
reservation and `temporary_active` (`core/archive.cpp:1062-1070`) is left behind when the
code between them throws.

## Plan

Done, in this order: `AtomicOutput` and `Publication` with proofs, `Extraction`,
`NativeEntry` and the pipelines, `CompressJob`, `GuiJob` with proofs, `FolderSize`,
`QueueMetadata`, `PinnedMemory`, then path rules, detection, the formats and
`ContainerJob`, then the proofs of `Extraction`, `CompressJob`, `ContainerJob`,
`QueueMetadata`, of the sums of `PinnedMemory`, of the entry `EncodePipeline` writes, of
what `DecodePipeline` makes of it and of `FolderSize`, and at last of the path rules, of AR,
of the bounds of the pipelines and of what the two caches and the GUI job never lose.

To come:

1. `MemoryAdmission`: `host_memory_budget.cpp`, `worker_budget.hpp` and
   `DeviceMemoryBudget`, with 64-bit bounds. The capacity of a device is fixed by its
   first live reservation, and two plans may each pass the test of the memory that is
   free in their own snapshot; what is promised is the bound on the sum of the
   reservations.
2. Progress samples and their timer in `GuiJob`; the choice between GPU and CPU in the
   pipelines; the overflow checks of `validate_entry_metadata`.
