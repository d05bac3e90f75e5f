---------------------------- MODULE EncodePipeline ----------------------------
(***************************************************************************)
(* compress_manifest_file_entry of core/archive.cpp: the main thread reads *)
(* the chunks of a source file and queues each for encoding on a thread of *)
(* its own (std::async), while the oldest result is written to the         *)
(* archive.                                                                *)
(*                                                                         *)
(* Queued encodings end in any order.  An error on the main thread unwinds *)
(* the queue, and the destructor of each future joins its thread.          *)
(***************************************************************************)
EXTENDS NativeEntry

CONSTANTS
  Inflight,  \* PipelineBudget::inflight_chunks
  MaxBlocks  \* kMaxBlocksPerEntry

ASSUME EncodeAssumption ==
  /\ File \in Seq(Seq(Nat \ {0}))
  /\ Inflight \in Nat \ {0} /\ MaxBlocks \in Nat

VARIABLES
  pc, read,     \* the main thread, and how many chunks it has read
  pending,      \* std::deque<PendingEncode>: chunks, oldest first
  task,         \* state of each chunk's encoding thread
  enc,          \* its result: the encoded length of each block
  blocks,       \* entry.blocks
  payload,      \* payload bytes of the entry in the archive stream
  crc,          \* running CRC of the written chunks
  checkpoints,  \* NeutronStar: encoders call make_cancellation_checkpoint
  cancel,       \* ProgressState::cancel_requested_
  stop          \* the observer throws from the progress callback

vars == <<pc, read, pending, task, enc, blocks, payload, crc, checkpoints, cancel, stop>>
result == <<blocks, payload, crc>>

TypeOK ==
  /\ pc \in {"read", "publish", "write", "drain", "unwind", "done", "failed"}
  /\ read \in 0 .. Len(File)
  /\ pending \in Seq(Chunks)
  /\ task \in [Chunks -> {"none", "running", "ready", "failed"}]
  /\ \A c \in Chunks : enc[c] \in Encodings(File[c]) \cup {<<>>}
  /\ Len(blocks) <= MaxBlocks
  /\ \A b \in DOMAIN blocks : blocks[b].id[1] \in Chunks
  /\ crc \in Seq(Chunks \X Nat)
  /\ checkpoints \in BOOLEAN /\ cancel \in BOOLEAN /\ stop \in BOOLEAN

Init ==
  /\ pc = IF File = <<>> THEN "drain" ELSE "read"
  /\ read = 0 /\ pending = <<>>
  /\ task = [c \in Chunks |-> "none"]
  /\ enc = [c \in Chunks |-> <<>>]
  /\ blocks = <<>> /\ payload = <<>> /\ crc = <<>>
  /\ checkpoints \in BOOLEAN /\ cancel = FALSE /\ stop = FALSE

\* The loop condition `remaining > 0`.
Loop == IF read < Len(File) THEN "read" ELSE "drain"

\* Faulty variant: the oldest chunk is written one chunk too late.
QueueIsOverfull == Len(pending) > Inflight

\* pending.size() >= budget.inflight_chunks
QueueIsFull == Len(pending) >= Inflight

-----------------------------------------------------------------------------
(* Main thread. *)

\* read_file_chunk and enqueue_encode_chunk.
ReadChunk ==
  /\ pc = "read"
  /\ read' = read + 1
  /\ pending' = Append(pending, read + 1)
  /\ task' = [task EXCEPT ![read + 1] = "running"]
  /\ pc' = "publish"
  /\ UNCHANGED <<enc, result, checkpoints, cancel, stop>>

Throw == pc' = "unwind" /\ UNCHANGED <<read, pending, task, enc, result, checkpoints, cancel, stop>>

\* The source is shorter than the manifest says, or cannot be read.
ReadFails == pc = "read" /\ Throw

\* publish_progress, and then whether the oldest chunk is written now.
PublishProgress ==
  /\ pc = "publish" /\ ~stop
  /\ pc' = IF QueueIsFull THEN "write" ELSE Loop
  /\ UNCHANGED <<read, pending, task, enc, result, checkpoints, cancel, stop>>

ObserverThrows == pc = "publish" /\ stop /\ Throw

\* Faulty variant: the writer waits for a chunk although none is queued.
AfterWriteWriteAgain == pc

\* The loop goes on, or the drain does.
AfterWrite == IF pc = "write" THEN Loop ELSE "drain"

\* Faulty variant: the block offsets stay relative to their chunk.
AppendUnshifted(c) ==
  /\ blocks' = blocks \o EncodedBlocks(c, File[c], enc[c])
  /\ payload' = payload \o EncodedPayload(c, enc[c])
  /\ crc' = crc \o Content(c, File[c])

\* write_one_encoded_chunk: the descriptors are moved to the end of the payload.
AppendChunk(c) ==
  LET Shifted(block) == [block EXCEPT !.off = @ + Len(payload)]
      encoded == EncodedBlocks(c, File[c], enc[c])
  IN /\ blocks' = blocks \o [b \in 1 .. Len(encoded) |-> Shifted(encoded[b])]
     /\ payload' = payload \o EncodedPayload(c, enc[c])
     /\ crc' = crc \o Content(c, File[c])

FitsBlockLimit(c) == Len(File[c]) <= MaxBlocks - Len(blocks)

\* Faulty variant: whichever encoding is ready is written.
OldestReadyAny(c) ==
  /\ pc \in {"write", "drain"} /\ c \in Range(pending)
  /\ task[c] = "ready"
  /\ pending' = SelectSeq(pending, LAMBDA d : d # c)

\* pending.front().result.get() returns and the front is popped.
OldestReady(c) ==
  /\ pc \in {"write", "drain"} /\ pending # <<>>
  /\ c = Head(pending) /\ task[c] = "ready"
  /\ pending' = Tail(pending)

WriteOldest == \E c \in Chunks :
  /\ OldestReady(c) /\ FitsBlockLimit(c)
  /\ AppendChunk(c)
  /\ pc' = AfterWrite
  /\ UNCHANGED <<read, task, enc, checkpoints, cancel, stop>>

\* More blocks than this entry may have, or than the archive may have together
\* with the entries before it, or the archive cannot be written.
WriteFails == \E c \in Chunks :
  /\ OldestReady(c)
  /\ File[c] # <<>>
  /\ pc' = "unwind"
  /\ UNCHANGED <<read, task, enc, result, checkpoints, cancel, stop>>

\* The future rethrows what the encoder threw.
OldestFailed ==
  /\ pc \in {"write", "drain"} /\ pending # <<>>
  /\ task[Head(pending)] = "failed"
  /\ Throw

Finish ==
  /\ pc = "drain" /\ pending = <<>>
  /\ pc' = "done"
  /\ UNCHANGED <<read, pending, task, enc, result, checkpoints, cancel, stop>>

\* The destructor of the queue joins every thread of it.
Unwind ==
  /\ pc = "unwind"
  /\ \A c \in Range(pending) : task[c] # "running"
  /\ pc' = "failed" /\ pending' = <<>>
  /\ UNCHANGED <<read, task, enc, result, checkpoints, cancel, stop>>

-----------------------------------------------------------------------------
(* Encoding threads and the observer. *)

Encodes(c) ==
  /\ task[c] = "running"
  /\ task' = [task EXCEPT ![c] = "ready"]
  /\ \E e \in Encodings(File[c]) : enc' = [enc EXCEPT ![c] = e]
  /\ UNCHANGED <<pc, read, pending, result, checkpoints, cancel, stop>>

EncodeFails(c) ==
  /\ task[c] = "running"
  /\ task' = [task EXCEPT ![c] = "failed"]
  /\ UNCHANGED <<pc, read, pending, enc, result, checkpoints, cancel, stop>>

\* A checkpoint of the encoder sees the cancellation, or publishes progress
\* and makes the observer's refusal a cancellation for the other encoders.
CheckpointThrows(c) ==
  /\ checkpoints /\ task[c] = "running"
  /\ cancel \/ stop
  /\ task' = [task EXCEPT ![c] = "failed"]
  /\ cancel' = TRUE
  /\ UNCHANGED <<pc, read, pending, enc, result, checkpoints, stop>>

\* The user asks for the job to stop: later progress callbacks throw.
Stop ==
  /\ ~stop /\ pc \notin {"done", "failed"}
  /\ stop' = TRUE
  /\ UNCHANGED <<pc, read, pending, task, enc, result, checkpoints, cancel>>

Returned == pc \in {"done", "failed"} /\ UNCHANGED vars

Main ==
  \/ ReadChunk \/ ReadFails \/ PublishProgress \/ ObserverThrows
  \/ WriteOldest \/ WriteFails \/ OldestFailed \/ Finish \/ Unwind

Encoder(c) == Encodes(c) \/ EncodeFails(c) \/ CheckpointThrows(c)

Next == Main \/ (\E c \in Chunks : Encoder(c)) \/ Stop \/ Returned

Spec == Init /\ [][Next]_vars

\* The threads are scheduled and every encoder returns or throws.
FairSpec == Spec /\ WF_vars(Main) /\ \A c \in Chunks : WF_vars(Encoder(c))

-----------------------------------------------------------------------------
\* Whatever order the encoders end in, the entry is at every moment what a
\* single thread would have written for a prefix of the chunks, and a finished
\* entry is what it would have written for all of them.
WrittenInOrder ==
  LET written == read - Len(pending)
  IN /\ pc \notin {"unwind", "failed"} =>
          /\ \A c \in 1 .. written : task[c] = "ready"
          /\ <<blocks, payload, crc>> = <<SequentialBlocks(File, enc, written),
                                          SequentialPayload(File, enc, written),
                                          SequentialContent(File, written)>>
     /\ pc = "done" => written = Len(File)

\* An encoder borrows the progress state and the options of the operation: none
\* runs once the operation has returned or thrown.
NoEncoderOutlivesTheEntry ==
  pc \in {"done", "failed"} => \A c \in Chunks : task[c] # "running"

\* Memory: at most Inflight chunks are read, encoding or encoded but unwritten
\* at any moment, also while the queue is unwound, and no encoder outlives it.
BuffersAreBounded ==
  /\ Len(pending) <= Inflight
  /\ \A c \in Chunks : task[c] = "running" => c \in Range(pending)
  /\ NoEncoderOutlivesTheEntry

\* A written entry passes the checks a reader makes before it decodes.
FinishedEntryIsValid ==
  pc = "done" =>
    ValidEntry([blocks |-> blocks, payload_size |-> Len(payload),
                size |-> FileSize(File)])

\* A failing read, encoder, write or observer never leaves the operation waiting.
AlwaysReturns == <>(pc \in {"done", "failed"})
=============================================================================
