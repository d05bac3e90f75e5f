---------------------------- MODULE DecodePipeline ----------------------------
(***************************************************************************)
(* decode_entry_streaming and verify_entry_streaming of core/archive.cpp   *)
(* and the checks of their callers extract_suzip and verify_suzip: the     *)
(* blocks of one entry are grouped into windows, each window is decoded on *)
(* a thread of its own, and the results are consumed in order.             *)
(*                                                                         *)
(* The archive was written by EncodePipeline, perhaps with another chunk   *)
(* size, and one of its bytes may have changed since.  No name here is one *)
(* of EncodePipeline, so that a module can extend both.                    *)
(***************************************************************************)
EXTENDS NativeEntry

CONSTANTS
  ChunkSizes,  \* options.chunk_size of the reader
  Inflights    \* PipelineBudget::inflight_chunks

ASSUME DecodeAssumption ==
  /\ File \in Seq(Seq(Nat \ {0}))
  /\ ChunkSizes \subseteq Nat \ {0} /\ Inflights \subseteq Nat \ {0}

VARIABLES
  entry,        \* the ArchiveEntry of the index
  data,         \* its payload bytes in the archive
  damaged,      \* a byte of the payload or of a descriptor has changed
  verifying,    \* verify_entry_streaming rather than decode_entry_streaming
  window,       \* decode_window_bytes
  inflight,
  phase, next,  \* the main thread, and the first block of the next window
  queue,        \* std::deque<PendingDecode>: windows, oldest first
  decoder,      \* decoding threads, by the first block of their window
  output,       \* what the consumer has received
  crc32,        \* DecodeStreamResult::crc32
  writable,     \* the output stream has not failed
  refuse        \* the observer throws from the progress callback

archive == <<entry, data, damaged, verifying, window, inflight>>
decodeVars == <<archive, phase, next, queue, decoder, output, crc32, writable, refuse>>

Source == SequentialContent(File, Len(File))

DecodeTypeOK ==
  /\ ValidEntry(entry) /\ Len(data) = entry.payload_size
  /\ phase \in {"submit", "flush", "drain", "check", "unwind",
                "accepted", "rejected", "failed"}
  /\ next \in 1 .. Len(entry.blocks) + 1
  /\ \A k \in DOMAIN queue : queue[k].first <= queue[k].end /\ queue[k].end < next
  /\ decoder \in [DOMAIN entry.blocks -> {"none", "running", "ready", "failed"}]
  /\ {damaged, verifying, writable, refuse} \subseteq BOOLEAN

Replaced(s, k) == [s EXCEPT ![k] = <<Garbage, 0>>]

\* resolve_decode_window_bytes: no block is larger than the window.  A member of
\* ChunkSizes is options.chunk_size or the largest block of the other entries of
\* the index, whichever is larger.
DecodeWindowBytes(chunk_size) ==
  Max({chunk_size} \cup {entry.blocks[b].len : b \in DOMAIN entry.blocks})

\* A byte of the payload changes, or the fill value of a descriptor.
Damaged(e, d) ==
  \/ \E k \in DOMAIN d : entry = e /\ data = Replaced(d, k)
  \/ \E b \in DOMAIN e.blocks :
       ~HasPayload(e.blocks[b]) /\ entry = [e EXCEPT !.blocks[b].id = Garbage] /\ data = d

\* The loop condition `block_index < entry.blocks.size()`.
NextWindow(n) == IF n <= Len(entry.blocks) THEN "submit" ELSE "drain"

DecodeInit ==
  /\ \E enc \in [Chunks -> UNION {Encodings(File[c]) : c \in Chunks}] :
       /\ \A c \in Chunks : enc[c] \in Encodings(File[c])
       /\ LET d == SequentialPayload(File, enc, Len(File))
              e == [blocks |-> SequentialBlocks(File, enc, Len(File)),
                    payload_size |-> Len(d), size |-> FileSize(File), crc |-> Source]
          IN \/ damaged = FALSE /\ entry = e /\ data = d
             \/ damaged = TRUE /\ Damaged(e, d)
  /\ verifying \in BOOLEAN
  /\ \E chunk_size \in ChunkSizes : window = DecodeWindowBytes(chunk_size)
  /\ inflight \in Inflights
  /\ next = 1 /\ phase = NextWindow(1) /\ queue = <<>>
  /\ decoder = [b \in DOMAIN entry.blocks |-> "none"]
  /\ output = <<>> /\ crc32 = <<>> /\ writable = TRUE /\ refuse = FALSE

-----------------------------------------------------------------------------
(* Main thread. *)

DecodeThrows ==
  /\ phase' = "unwind"
  /\ UNCHANGED <<archive, next, queue, decoder, output, crc32, writable, refuse>>

\* The next window is read from the archive and its decoding starts.
Submit ==
  /\ phase = "submit"
  /\ LET w == [first |-> next, end |-> WindowEnd(entry.blocks, next, window)]
     IN /\ next' = w.end + 1
        /\ queue' = Append(queue, w)
        /\ decoder' = [decoder EXCEPT ![w.first] = "running"]
        /\ phase' = IF Len(queue) + 1 >= inflight THEN "flush" ELSE NextWindow(w.end + 1)
  /\ UNCHANGED <<archive, output, crc32, writable, refuse>>

\* The archive file cannot be read.
PayloadReadFails == phase = "submit" /\ DecodeThrows

\* Faulty variant: the consumer waits for a window although none is queued.
AfterFlushFlushAgain == phase

AfterFlush == IF phase = "flush" THEN NextWindow(next) ELSE "drain"

\* What the consumer of decode_entry_streaming and of verify_entry_streaming
\* does with a decoded window: a failed write is only found at the end, a
\* refusal of the observer throws.
Consume(decoded) ==
  IF verifying
  THEN /\ phase' = IF refuse THEN "unwind" ELSE AfterFlush
       /\ UNCHANGED <<output, writable>>
  ELSE /\ phase' = AfterFlush
       /\ \/ writable /\ output' = output \o decoded /\ UNCHANGED writable
          \/ writable' = FALSE /\ UNCHANGED output

\* Faulty variant: the newest window is consumed first.
FlushNewest ==
  /\ phase \in {"flush", "drain"} /\ queue # <<>>
  /\ LET w == Last(queue)
         decoded == DecodedWindow(entry.blocks, data, w)
     IN /\ decoder[w.first] = "ready"
        /\ queue' = Front(queue)
        /\ crc32' = crc32 \o decoded
        /\ Consume(decoded)
  /\ UNCHANGED <<archive, next, decoder, refuse>>

\* flush_one
FlushOne ==
  /\ phase \in {"flush", "drain"} /\ queue # <<>>
  /\ LET w == Head(queue)
         decoded == DecodedWindow(entry.blocks, data, w)
     IN /\ decoder[w.first] = "ready"
        /\ queue' = Tail(queue)
        /\ crc32' = crc32 \o decoded
        /\ Consume(decoded)
  /\ UNCHANGED <<archive, next, decoder, refuse>>

\* The future rethrows what the decoder threw.
OldestWindowFailed ==
  /\ phase \in {"flush", "drain"} /\ queue # <<>>
  /\ decoder[Head(queue).first] = "failed"
  /\ DecodeThrows

Drained ==
  /\ phase = "drain" /\ queue = <<>>
  /\ phase' = "check"
  /\ UNCHANGED <<archive, next, queue, decoder, output, crc32, writable, refuse>>

\* Faulty variant: the CRCs are compared, the state of the stream is not.
CheckStreamOnly ==
  /\ phase = "check"
  /\ phase' = IF crc32 # entry.crc THEN "rejected" ELSE "accepted"
  /\ UNCHANGED <<archive, next, queue, decoder, output, crc32, writable, refuse>>

\* The caller: the stream is flushed and closed, then the CRCs are compared.
Check ==
  /\ phase = "check"
  /\ phase' = CASE ~writable -> "failed"
                [] writable /\ crc32 # entry.crc -> "rejected"
                [] OTHER -> "accepted"
  /\ UNCHANGED <<archive, next, queue, decoder, output, crc32, writable, refuse>>

\* Flushing or closing the output fails.
CloseFails == phase = "check" /\ ~verifying /\ DecodeThrows

\* Faulty variant: the queue is dropped while decoders run.
DecodeUnwindDetached ==
  /\ phase = "unwind"
  /\ phase' = "failed" /\ queue' = <<>>
  /\ UNCHANGED <<archive, next, decoder, output, crc32, writable, refuse>>

\* The destructor of the queue joins every thread of it.
DecodeUnwind ==
  /\ phase = "unwind"
  /\ \A k \in DOMAIN queue : decoder[queue[k].first] # "running"
  /\ phase' = "failed" /\ queue' = <<>>
  /\ UNCHANGED <<archive, next, decoder, output, crc32, writable, refuse>>

-----------------------------------------------------------------------------
(* Decoding threads and the observer. *)

\* Decoding ends, or fails for want of memory or because a codec notices damage.
Decoder(b) ==
  /\ decoder[b] = "running"
  /\ \E st \in {"ready", "failed"} : decoder' = [decoder EXCEPT ![b] = st]
  /\ UNCHANGED <<archive, phase, next, queue, output, crc32, writable, refuse>>

ObserverRefuses ==
  /\ ~refuse /\ verifying /\ phase \in {"submit", "flush", "drain"}
  /\ refuse' = TRUE
  /\ UNCHANGED <<archive, phase, next, queue, decoder, output, crc32, writable>>

Decided == phase \in {"accepted", "rejected", "failed"} /\ UNCHANGED decodeVars

DecodeMain ==
  \/ Submit \/ PayloadReadFails \/ FlushOne \/ OldestWindowFailed
  \/ Drained \/ Check \/ CloseFails \/ DecodeUnwind

DecodeNext == DecodeMain \/ (\E b \in DOMAIN decoder : Decoder(b)) \/ ObserverRefuses \/ Decided

DecodeSpec == DecodeInit /\ [][DecodeNext]_decodeVars

\* The threads are scheduled and every decoder returns or throws.
FairDecodeSpec ==
  /\ DecodeSpec
  /\ WF_decodeVars(DecodeMain) /\ WF_decodeVars(\E b \in DOMAIN decoder : Decoder(b))

-----------------------------------------------------------------------------
\* A file that is accepted, and is then published, has the bytes of the source,
\* whatever windows the reader groups the blocks into and in whatever order
\* their decoders end; damage is never accepted.
AcceptedIsSource ==
  phase = "accepted" => /\ ~damaged
                        /\ crc32 = Source
                        /\ ~verifying => output = Source

\* An archive nobody changed is never reported as corrupt, for any chunk size
\* of the reader, and what it yields is at every moment a prefix of the source.
IntactNeverRejected ==
  ~damaged => /\ phase # "rejected"
              /\ IsPrefix(crc32, Source) /\ IsPrefix(output, Source)

\* Memory: at most inflight windows are read, decoding or decoded but not consumed
\* at any moment, and no decoder outlives its window in the queue, so that none
\* runs once the entry has a verdict or an error.
DecodersAreBounded ==
  /\ Len(queue) <= inflight
  /\ \A b \in DOMAIN decoder :
       decoder[b] = "running" => \E k \in DOMAIN queue : queue[k].first = b

\* Decoding ends in a verdict or an error, whatever fails.
AlwaysDecides == <>(phase \in {"accepted", "rejected", "failed"})
=============================================================================
