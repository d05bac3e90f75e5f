---------------------------- MODULE StreamFormats ----------------------------
(***************************************************************************)
(* Files that are one compressed stream: gzip/, bzip2/, xz/, lzip/, zstd/, *)
(* lzma/ and unix_compress/.  The name of the output comes from the name   *)
(* of the archive, and the file is published when the whole stream has     *)
(* been decoded and checked.                                               *)
(*                                                                         *)
(* Module StreamPumps reads and writes the streams.  The codec of          *)
(* unix_compress/ is part of the program and is modelled code by code.     *)
(***************************************************************************)
EXTENDS StreamPumps

Rule(suffix) == [suffix |-> suffix, replacement |-> << >>]
Gz == <<46, 103, 122>>
Bz2 == <<46, 98, 122, 50>>
Xz == <<46, 120, 122>>
Zst == <<46, 122, 115, 116>>
Zstd == Zst \o <<100>>
Lz == <<46, 108, 122>>
Tlz == <<46, 116, 108, 122>>
TarSuffix == <<46, 116, 97, 114>>
Lzma == Lz \o <<109, 97>>
Z == <<46, 122>>

\* The only entry, when the name that is left is one a file may have.
Named(name, rules, ok) ==
  [ok |-> ok /\ ValidPath(StreamEntryName(name, rules)),
   entries |-> <<[path |-> StreamEntryName(name, rules), dir |-> FALSE]>>]

Output(entries, data, good) ==
  <<Asking(File(entries[1].path, IF good THEN data ELSE << >>, good))>>

-----------------------------------------------------------------------------
(* Gzip: one member; the input is opened, and its header read, first *)

SizeModulus == 4          \* 2^32 for the size in the trailer

\* GzipOutputStream
WriteGzip(data, buffers) ==
  LET coded == WriteStream(data, buffers)
  IN  [magic |-> TRUE, reserved |-> FALSE, extra |-> << >>, strings |-> << >>, headerCrc |-> FALSE,
       bytes |-> coded.length, coded |-> coded,
       crc |-> Crc(data), isize |-> Len(data) % SizeModulus]

\* parse_gzip_stream_header: the optional fields that the flags announce, of the
\* bytes between the fixed header and the trailer; something must be left.
\* extra is << >> or <<n>>, strings the lengths of the name and of the comment
\* up to their zero, which nothing ends when they reach beyond the limit.
GzipOffset(s) ==
  (IF s.extra = << >> THEN 0 ELSE 2 + s.extra[1])
  + FoldLeft(LAMBDA n, length : n + length + 1, 0, s.strings)
  + (IF s.headerCrc THEN 2 ELSE 0)

GzipScan(s) ==
  Named(s.name, <<Rule(Gz)>>, s.gz.magic /\ ~s.gz.reserved /\ GzipOffset(s.gz) < s.gz.bytes)

\* The whole stream, between the header and the trailer.
GzipRead(s) ==
  LET bytes == s.gz.bytes - GzipOffset(s.gz)
  IN  Drained(LAMBDA r : GzipTurn(s, r), Reader(bytes), bytes)

\* validate_trailer, at the end of the stream.
GzipReplay(s, entries) ==
  LET Checked(r) ==
        Output(entries, r.out,
               r.end = "finished" /\ s.gz.crc = Crc(r.out) /\ s.gz.isize = Len(r.out) % SizeModulus)
  IN  Checked(GzipRead(s))

-----------------------------------------------------------------------------
(* Bzip2: one stream, opened after the target *)

Bzip2Scan(s) == Named(s.name, <<Rule(Bz2)>>, TRUE)

WriteBzip2(data, buffers) == WriteStream(data, buffers)

\* What reading to the end gives.
Read(entries, r) == Output(entries, r.out, r.end = "finished")

Bzip2Replay(s, entries) ==
  Read(entries, Drained(LAMBDA r : Bzip2Turn(s, r), Reader(s.bytes), s.bytes))

-----------------------------------------------------------------------------
(* XZ and Zstandard: streams or frames one behind the other *)

XzScan(s) == Named(s.name, <<Rule(Xz)>>, TRUE)
ZstdScan(s) == Named(s.name, <<Rule(Zstd), Rule(Zst)>>, TRUE)

\* A file may end one byte early, or go on with one that belongs to nothing.
FileBytes(s, lengths) ==
  LET whole == FoldLeft(+, 0, lengths)
  IN  IF s.cut THEN Max({0, whole - 1}) ELSE IF s.junk THEN whole + 1 ELSE whole
FrameBytes(s) == FileBytes(s, [i \in DOMAIN s.parts |-> s.parts[i].length])

XzReplay(s, entries) ==
  Read(entries, Drained(LAMBDA r : XzTurn(s, r), Reader(FrameBytes(s)), FrameBytes(s)))

ZstdReplay(s, entries) ==
  Read(entries, Drained(LAMBDA r : ZstdTurn(s, r), Reader(FrameBytes(s)), FrameBytes(s)))

\* ZstdOutputStream: a frame for as many bytes as were announced, or an error.
WriteZstd(data, expected, buffers) ==
  IF Len(data) = expected THEN <<WriteStream(data, buffers)>> ELSE << >>

-----------------------------------------------------------------------------
(* Lzip: members with a trailer each *)

LzipMember(data) ==
  [magic |-> TRUE, version |-> 1, dictionary |-> TRUE, coded |-> Coded(data), crc |-> Crc(data),
   size |-> Len(data), total |-> LzipHeader + Len(data) + 1 + LzipTrailer]

LzipScan(s) ==
  Named(s.name, <<[suffix |-> Tlz, replacement |-> TarSuffix], Rule(Lz)>>, TRUE)

LzipReplay(s, entries) ==
  LET bytes == FileBytes(s, [i \in DOMAIN s.parts |-> LzipHeader + s.parts[i].coded.length + LzipTrailer])
  IN  Read(entries, Drained(LAMBDA r : LzipTurn(s, r), Reader(bytes), bytes))

-----------------------------------------------------------------------------
(* LZMA: a header with the size, or an end mark *)

UnknownSize == -1

\* read_lzma_alone_header
LzmaScan(s) == Named(s.name, <<Rule(Lzma)>>, s.header /\ s.properties)

\* decode_lzma_stream_to_file: a known size is where the decoder stops, and what
\* follows is not looked at; otherwise the mark ends the data and the file.
\* A mark before the known size is an error.
LzmaGood(s) ==
  IF s.declared = UnknownSize
  THEN s.coded.sound /\ s.coded.marked /\ s.bytes = s.coded.length
  ELSE /\ s.declared > 0 => s.coded.sound
       /\ Len(s.coded.data) >= s.declared
       /\ s.bytes >= s.declared

LzmaReplay(s, entries) ==
  LET size == IF s.declared = UnknownSize THEN Len(s.coded.data) ELSE s.declared
  IN  Output(entries, SubSeq(s.coded.data, 1, size), LzmaGood(s))

-----------------------------------------------------------------------------
(* Unix Compress: LZW with codes that grow *)

\* Bounds, scaled down: 8 bits in a byte and at most 16 in a code.
ByteBits == 3
MaxWidth == 6

InitialWidth == ByteBits + 1
Clear == 2 ^ ByteBits
FirstBlockCode == Clear + 1
HeaderBits == 3 * ByteBits   \* of the file, which the positions of bits count from

Zeros(n) == [i \in 1 .. n |-> 0]
Bits(code, width) == [i \in 1 .. width |-> (code \div 2 ^ (i - 1)) % 2]
Value(bits) == FoldRight(LAMBDA bit, n : 2 * n + bit, bits, 0)

\* The next position, not before p, that is a multiple of eight codes.
Aligned(p, width) ==
  LET group == ByteBits * width IN ((p + group - 1) \div group) * group

\* Writer: bits so far, and the state of the encoder.  A dictionary gives the
\* codes from FirstBlockCode on as pairs of a code and a value.
Writing == [bits |-> << >>, width |-> InitialWidth, dict |-> << >>,
            limit |-> 2 ^ InitialWidth + 1, current |-> -1]

NextWritten(w) == FirstBlockCode + Len(w.dict)

\* advance_unix_compress_encoder_width: only before a code that starts with a
\* literal, with the gap of align_to_width_boundary.
Widened(w) ==
  IF NextWritten(w) < w.limit \/ w.current >= FirstBlockCode \/ w.width = MaxWidth THEN w
  ELSE [w EXCEPT !.bits = @ \o Zeros(Aligned(HeaderBits + Len(@), w.width) - HeaderBits - Len(@)),
                 !.width = @ + 1,
                 !.limit = 2 ^ (w.width + 1) + (IF w.width + 1 < MaxWidth THEN 1 ELSE 0)]

\* encode_unix_compress_byte
WriteByte(writing, byte) ==
  IF writing.current = -1 THEN [writing EXCEPT !.current = byte]
  ELSE LET w == Widened(writing)
           known == SelectInSeq(w.dict, LAMBDA pair : pair = <<w.current, byte>>)
       IN  IF known > 0 THEN [w EXCEPT !.current = FirstBlockCode + known - 1]
           ELSE [w EXCEPT !.bits = @ \o Bits(w.current, w.width),
                          !.dict = IF NextWritten(w) < 2 ^ MaxWidth
                                   THEN Append(@, <<w.current, byte>>) ELSE @,
                          !.current = byte]

\* encode_unix_compress_payload: the last code, and the last byte filled up.
WriteZ(data) ==
  LET end == FoldLeft(WriteByte, Writing, data)
      bits == IF end.current = -1 THEN end.bits ELSE end.bits \o Bits(end.current, end.width)
  IN  bits \o Zeros((ByteBits - (Len(bits) % ByteBits)) % ByteBits)

\* The last code has the old width when the dictionary has just grown beyond it.
\* The reader grows there, too, skips to the next boundary and loses the code.
LosesTail(data) ==
  LET end == FoldLeft(WriteByte, Writing, data)
  IN  end.current # -1 /\ Widened(end).width > end.width

\* UnixCompressDecodeState: dict maps the codes defined since the last CLEAR to
\* what they stand for, at counts the bits read behind the header.
Reading(s) ==
  [at |-> 0, width |-> InitialWidth, dict |-> << >>, data |-> << >>, old |-> 0,
   next |-> IF s.block THEN FirstBlockCode ELSE Clear, ok |-> TRUE, done |-> FALSE]

\* read_code: none, and the end of the stream, when too few bits are left.
HasCode(s, r) == Len(s.bits) - r.at >= r.width
CodeAt(s, r) == Value(SubSeq(s.bits, r.at + 1, r.at + r.width))

\* set_width and reset_width, with align_to_width_boundary, which reads on to the
\* end of the payload at most.
ToWidth(s, r, width) ==
  LET p == Aligned(HeaderBits + r.at, r.width) - HeaderBits
  IN  [r EXCEPT !.width = width, !.at = IF p < Len(s.bits) THEN p ELSE Len(s.bits)]

\* decoder_max_code_for_width
MaxCode(width, maxBits) == IF width = maxBits THEN 2 ^ maxBits ELSE 2 ^ width - 1

\* The first code and the one behind a CLEAR are literals, if they are there.
ReadLiteral(s, r) ==
  IF ~HasCode(s, r) THEN [r EXCEPT !.done = TRUE]
  ELSE IF CodeAt(s, r) >= Clear THEN [r EXCEPT !.ok = FALSE, !.done = TRUE]
  ELSE [r EXCEPT !.at = @ + r.width, !.old = CodeAt(s, r), !.data = Append(@, CodeAt(s, r))]

Expansion(r, code) == IF code < Clear THEN <<code>> ELSE r.dict[code]

\* decode_unix_compress_sequence: the code that is defined next stands for the
\* one before with its own first byte; a code beyond it is an error.
Meaning(r, code) ==
  IF code < Clear \/ code \in DOMAIN r.dict THEN Expansion(r, code)
  ELSE IF code = r.next THEN Append(Expansion(r, r.old), Head(Expansion(r, r.old)))
  ELSE << >>

\* advance_unix_compress_dictionary
Advance(s, r, code) ==
  LET first == Head(Meaning(r, code))
      room == r.next < 2 ^ s.maxBits
      q == [r EXCEPT !.at = @ + r.width, !.old = code, !.data = @ \o Meaning(r, code),
                     !.dict = IF room THEN @ @@ (r.next :> Append(Expansion(r, r.old), first)) ELSE @,
                     !.next = IF room THEN @ + 1 ELSE @]
  IN  IF q.next > MaxCode(q.width, s.maxBits) /\ q.width < s.maxBits
      THEN ToWidth(s, q, q.width + 1) ELSE q

\* One round of decode_unix_compress_payload; CLEAR starts the dictionary anew,
\* with the code of CLEAR itself.
ReadNext(s, r) ==
  IF r.done THEN r
  ELSE IF ~HasCode(s, r) THEN [r EXCEPT !.done = TRUE]
  ELSE IF s.block /\ CodeAt(s, r) = Clear
  THEN ReadLiteral(s, [ToWidth(s, [r EXCEPT !.at = @ + r.width], InitialWidth)
                         EXCEPT !.next = Clear, !.dict = << >>])
  ELSE IF Meaning(r, CodeAt(s, r)) = << >> THEN [r EXCEPT !.ok = FALSE, !.done = TRUE]
  ELSE Advance(s, r, CodeAt(s, r))

ReadZ(s) ==
  FoldLeft(LAMBDA r, n : ReadNext(s, r), ReadLiteral(s, Reading(s)),
           [n \in 1 .. Len(s.bits) \div InitialWidth |-> n])

\* read_unix_compress_header, before the target is made
ZScan(s) ==
  Named(s.name, <<Rule(Z)>>, s.magic /\ ~s.reserved /\ s.maxBits \in InitialWidth .. MaxWidth)

ZReplay(s, entries) == Output(entries, ReadZ(s).data, ReadZ(s).ok)
=============================================================================
