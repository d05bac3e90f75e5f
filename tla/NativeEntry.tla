----------------------------- MODULE NativeEntry -----------------------------
(***************************************************************************)
(* The block table of one file of a native .suzip archive: how a chunk of  *)
(* the source becomes blocks and payload bytes, and how blocks are grouped *)
(* and read back (core/archive.cpp, core/archive_blocks.cpp).              *)
(*                                                                         *)
(* A block of the source is named by <<chunk, index in the chunk>>, which  *)
(* stands for its bytes.  Its encoding of n bytes is the sequence of the   *)
(* tokens <<block, 1>> .. <<block, n>>.  n = 0 is a Fill block, whose      *)
(* content is in the descriptor; n equal to the decoded length is a Raw    *)
(* block; any length between stands for the compressed kinds.  A CRC is    *)
(* the sequence of the blocks it covers: different contents have different *)
(* CRCs.                                                                   *)
(***************************************************************************)
EXTENDS Naturals, Sequences, SequencesExt, FiniteSetsExt, Functions

CONSTANT File  \* the decoded lengths of the blocks of each chunk of the source

Chunks == 1 .. Len(File)

Garbage == <<0, 0>>  \* bytes that are no block of the source

Total(f, S) == FoldFunctionOnSet(+, 0, f, S)

Stored(id, n) == [k \in 1 .. n |-> <<id, k>>]

\* The lengths an encoder may choose for the blocks of a chunk.
Encodings(lens) == {e \in [DOMAIN lens -> 0 .. Max(Range(lens))] :
                      \A b \in DOMAIN lens : e[b] <= lens[b]}

\* encode_chunk_cpu and the GPU codecs: offsets count payload bytes only.
EncodedBlocks(c, lens, enc) ==
  [b \in DOMAIN lens |->
     [id |-> <<c, b>>, len |-> lens[b], enc |-> enc[b],
      off |-> IF enc[b] = 0 THEN 0 ELSE Total(enc, 1 .. b - 1)]]

EncodedPayload(c, enc) ==
  FlattenSeq([b \in 1 .. Len(enc) |-> Stored(<<c, b>>, enc[b])])

Content(c, lens) == [b \in 1 .. Len(lens) |-> <<c, b>>]

\* What one thread writes for the first n chunks of a file.
SequentialBlocks(file, enc, n) ==
  FlattenSeq([c \in 1 .. n |->
    LET base == Total([d \in DOMAIN file |-> Len(EncodedPayload(d, enc[d]))], 1 .. c - 1)
    IN [b \in 1 .. Len(file[c]) |->
          [EncodedBlocks(c, file[c], enc[c])[b] EXCEPT !.off = @ + base]]])
SequentialPayload(file, enc, n) == FlattenSeq([c \in 1 .. n |-> EncodedPayload(c, enc[c])])
SequentialContent(file, n) == FlattenSeq([c \in 1 .. n |-> Content(c, file[c])])

FileSize(file) == Total([c \in DOMAIN file |-> Total(file[c], DOMAIN file[c])], DOMAIN file)

\* block_has_payload
HasPayload(block) == block.enc > 0

\* validate_entry_metadata: the payload of an entry is dense.
ValidEntry(entry) ==
  LET enc == [b \in DOMAIN entry.blocks |-> entry.blocks[b].enc]
      len == [b \in DOMAIN entry.blocks |-> entry.blocks[b].len]
  IN /\ \A b \in DOMAIN entry.blocks :
          /\ len[b] > 0 /\ enc[b] <= len[b]
          /\ HasPayload(entry.blocks[b]) => entry.blocks[b].off = Total(enc, 1 .. b - 1)
     /\ Total(len, DOMAIN len) = entry.size
     /\ Total(enc, DOMAIN enc) = entry.payload_size

\* resolve_decode_block_window: the last of the blocks that are decoded together.
WindowEnd(blocks, first, limit) ==
  LET len == [b \in DOMAIN blocks |-> blocks[b].len]
  IN Max({end \in first .. Len(blocks) : Total(len, first .. end) <= limit})

WithPayload(blocks, w) == {b \in w.first .. w.end : HasPayload(blocks[b])}

\* The payload bytes of a window, [PayloadStart, PayloadEnd) of the entry.
PayloadStart(blocks, w) == Min({blocks[b].off : b \in WithPayload(blocks, w)})
PayloadEnd(blocks, w) ==
  Max({blocks[b].off + blocks[b].enc : b \in WithPayload(blocks, w)})

\* What a block decodes to when its encoding reads `bytes`.
DecodedBlock(block, bytes) ==
  CASE ~HasPayload(block) -> block.id
    [] HasPayload(block) /\ bytes = Stored(bytes[1][1], block.enc) -> bytes[1][1]
    [] OTHER -> Garbage

\* read_payload_window, the adjusted block table and decode_owned_chunk.
DecodedWindow(blocks, payload, w) ==
  LET start == IF WithPayload(blocks, w) = {} THEN 0 ELSE PayloadStart(blocks, w)
      end   == IF WithPayload(blocks, w) = {} THEN 0 ELSE PayloadEnd(blocks, w)
      read  == SubSeq(payload, start + 1, end)
      Bytes(block) == SubSeq(read, block.off - start + 1, block.off - start + block.enc)
  IN [k \in 1 .. w.end - w.first + 1 |->
        LET block == blocks[w.first + k - 1] IN DecodedBlock(block, Bytes(block))]
=============================================================================
