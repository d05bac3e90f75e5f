----------------------------- MODULE TextFormats -----------------------------
(***************************************************************************)
(* Streams that wrap one file: uue/, xxe/ and base64/ as lines of          *)
(* printable characters, hqx/ (BinHex 4.0) as run-length coded forks in    *)
(* printable characters, macbinary/ as forks behind a fixed header.        *)
(*                                                                         *)
(* A printable character is the value of its six bits, which is its        *)
(* position in the alphabet of the format.  A line is a record with a      *)
(* kind: begin (with a mode and a name), text (with codes and what stands  *)
(* behind them), end, blank (spaces only), empty.                          *)
(***************************************************************************)
EXTENDS ArchiveSteps

\* Bounds, scaled down: 45 and 57 bytes in a line, 128 lines of preamble.
LineBytes == 3
MaxPreambleLines == 3
MaxLineBytes == 6         \* kUuePayloadBytesPerLine, of a line to read

Pad == 64                 \* '='
BadCode == 65             \* a character outside of the alphabet

BeginLine(name) == [kind |-> "begin", octal |-> TRUE, encoded |-> FALSE, name |-> name]
TextLine(codes) == [kind |-> "text", codes |-> codes, tail |-> "none"]
EndLine == [kind |-> "end"]
BlankLine == [kind |-> "blank"]
EmptyLine == [kind |-> "empty"]

Sextets(x, y, z) == <<x \div 4, (x % 4) * 16 + y \div 16, (y % 16) * 4 + z \div 64, z % 64>>
Octets(p, q, r, s) == <<p * 4 + q \div 16, (q % 16) * 16 + r \div 4, (r % 4) * 64 + s>>

ByteAt(data, i) == IF i \in DOMAIN data THEN data[i] ELSE 0
Groups(n) == (n + 2) \div 3

\* The codes of data, in groups of four.
Encode(data) ==
  FlattenSeq([g \in 1 .. Groups(Len(data)) |->
    Sextets(ByteAt(data, 3 * g - 2), ByteAt(data, 3 * g - 1), ByteAt(data, 3 * g))])

Decode(codes) ==
  FlattenSeq([g \in 1 .. Len(codes) \div 4 |->
    Octets(codes[4 * g - 3], codes[4 * g - 2], codes[4 * g - 1], codes[4 * g])])

\* What a read loop hands to the encoder, line by line.
Chunks(data) ==
  [n \in 1 .. (Len(data) + LineBytes - 1) \div LineBytes |->
     SubSeq(data, (n - 1) * LineBytes + 1,
            IF n * LineBytes < Len(data) THEN n * LineBytes ELSE Len(data))]

-----------------------------------------------------------------------------
(* UUencode and XXEncode *)

\* compress_uue_file and compress_xxe_file: the line of length 0 is one character.
WriteUue(name, data) ==
  <<BeginLine(name)>>
    \o [n \in DOMAIN Chunks(data) |-> TextLine(<<Len(Chunks(data)[n])>> \o Encode(Chunks(data)[n]))]
    \o <<TextLine(<<0>>), EndLine>>

\* The first line that begins, when it is near enough.
Begin(lines) == SelectInSeq(lines, LAMBDA line : line.kind = "begin")

\* read_uue_header, parse_begin_line
UueScan(s) ==
  LET n == Begin(s.lines)
  IN  IF n \in 1 .. MaxPreambleLines
      THEN [ok |-> s.lines[n].octal /\ ValidPath(s.lines[n].name),
            entries |-> <<[path |-> s.lines[n].name, dir |-> FALSE, line |-> n]>>]
      ELSE Refused

\* decode_uue_payload_line accepts a line of length 0, and one with bytes.
ZeroLine(line) ==
  \/ line.kind = "blank"
  \/ line.kind = "text" /\ line.codes = <<0>> /\ line.tail # "junk"

ByteLine(line) ==
  /\ line.kind = "text" /\ line.codes # << >> /\ line.tail # "junk"
  /\ line.codes[1] \in 1 .. MaxLineBytes
  /\ Len(line.codes) = 1 + 4 * Groups(line.codes[1])
  /\ BadCode \notin Range(line.codes)

LineData(line) == SubSeq(Decode(Tail(line.codes)), 1, line.codes[1])

OnlySpace(lines) == \A i \in DOMAIN lines : lines[i].kind \in {"blank", "empty"}

\* extract_uue_file and extract_xxe_file: bytes, a line of length 0, the end,
\* and nothing behind it.
UueReplay(s, entries) ==
  LET body == SubSeq(s.lines, entries[1].line + 1, Len(s.lines))
      n == SelectInSeq(body, LAMBDA line : ~ByteLine(line))
      good == /\ n > 0 /\ ZeroLine(body[n])
              /\ n < Len(body) /\ body[n + 1].kind = "end"
              /\ OnlySpace(SubSeq(body, n + 2, Len(body)))
      data == IF good THEN FlattenSeq([i \in 1 .. n - 1 |-> LineData(body[i])]) ELSE << >>
  IN  <<Asking(File(entries[1].path, data, good))>>

-----------------------------------------------------------------------------
(* Base64 *)

\* encode_base64_quantum: the last group is padded.
EncodePadded(data) ==
  LET missing == 3 * Groups(Len(data)) - Len(data)
      codes == Encode(data)
  IN  [i \in DOMAIN codes |-> IF i > Len(codes) - missing THEN Pad ELSE codes[i]]

Trailer == TextLine(<<Pad, Pad, Pad, Pad>>)

\* compress_base64_file
WriteBase64(name, data) ==
  <<BeginLine(name)>>
    \o [n \in DOMAIN Chunks(data) |-> TextLine(EncodePadded(Chunks(data)[n]))]
    \o <<Trailer>>

Decoding == [quad |-> << >>, padded |-> FALSE, data |-> << >>, ok |-> TRUE]

\* decode_base64_quantum
Quantum(q) ==
  LET pads == Cardinality({i \in 1 .. 4 : q[i] = Pad})
  IN  [ok |-> pads = 0 \/ (pads = 1 /\ q[4] = Pad) \/ (pads = 2 /\ q[3] = Pad /\ q[4] = Pad),
       data |-> SubSeq(Decode([i \in 1 .. 4 |-> IF q[i] = Pad THEN 0 ELSE q[i]]), 1, 3 - pads),
       padded |-> pads > 0]

\* feed_base64_char
Feed(state, code) ==
  LET q == Append(state.quad, code)
  IN  IF ~state.ok \/ state.padded \/ code = BadCode THEN [state EXCEPT !.ok = FALSE]
      ELSE IF Len(q) < 4 THEN [state EXCEPT !.quad = q]
      ELSE IF ~Quantum(q).ok THEN [state EXCEPT !.ok = FALSE]
      ELSE [quad |-> << >>, padded |-> Quantum(q).padded,
            data |-> state.data \o Quantum(q).data, ok |-> TRUE]

\* decode_base64_token; finish_base64_decode refuses a partial group.
DecodeText(codes) ==
  LET end == FoldLeft(Feed, Decoding, codes)
  IN  [ok |-> end.ok /\ end.quad = << >>, data |-> end.data]

DecodedName == <<100>>    \* "decoded.bin"

\* The name of a begin line may be coded itself.
Base64Name(line) ==
  IF line.encoded THEN DecodeText(line.name) ELSE [ok |-> TRUE, data |-> line.name]

\* read_base64_header_or_reset: a first line that is neither empty nor a begin
\* line is text already, and so is everything where no line begins.
Base64Scan(s) ==
  LET raw == IF Stem(s.name) = << >> THEN DecodedName ELSE Stem(s.name)
      n == Begin(s.lines)
      first == IF s.lines = << >> THEN EmptyLine ELSE s.lines[1]
      Named(name, ok, line) ==
        [ok |-> ok /\ ValidPath(name), entries |-> <<[path |-> name, dir |-> FALSE, line |-> line]>>]
      wrapped == n \in 1 .. MaxPreambleLines
  IN  IF first.kind \notin {"begin", "empty"} THEN Named(raw, TRUE, 0)
      ELSE IF wrapped
      THEN Named(Base64Name(s.lines[n]).data, s.lines[n].octal /\ Base64Name(s.lines[n]).ok, n)
      ELSE IF Len(s.lines) < MaxPreambleLines THEN Named(raw, TRUE, 0)
      ELSE Refused

\* A line in front of the body gives its codes; a begin line is no text.
CodesOf(line) ==
  CASE line.kind = "text" -> line.codes
    [] line.kind \in {"blank", "empty"} -> << >>
    [] OTHER -> <<BadCode>>

\* decode_base64_body: a wrapped body ends at its trailer, another at the end.
Base64Replay(s, entries) ==
  LET begin == entries[1].line
      body == SubSeq(s.lines, begin + 1, Len(s.lines))
      trailer == IF begin = 0 THEN 0 ELSE SelectInSeq(body, LAMBDA line : line = Trailer)
      text == IF trailer = 0 THEN body ELSE SubSeq(body, 1, trailer - 1)
      decoded == DecodeText(FlattenSeq([i \in DOMAIN text |-> CodesOf(text[i])]))
      ended == IF begin = 0 THEN TRUE
               ELSE trailer > 0 /\ OnlySpace(SubSeq(body, trailer + 1, Len(body)))
  IN  <<Asking(File(entries[1].path, decoded.data, decoded.ok /\ ended))>>

-----------------------------------------------------------------------------
(* BinHex: lengths and checksums take one byte here, four and two there. *)

Marker == 144             \* 0x90
MaxHqxName == 6

\* hqx_crc_for
ForkCrc(data) == FoldLeft(LAMBDA n, byte : (31 * n + byte) % 251, 7, data)

\* The rest of a header, behind the name: version, type, creator and flags.
HqxFiller == <<0>>

HqxHeader(name, data, resource) ==
  <<Len(name)>> \o name \o HqxFiller \o <<Len(data), Len(resource)>>

\* What a program that writes the format puts into the stream.
HqxBytes(name, data, resource) ==
  LET header == HqxHeader(name, data, resource)
  IN  header \o <<ForkCrc(header)>> \o data \o <<ForkCrc(data)>> \o resource \o <<ForkCrc(resource)>>

\* HqxSixBitDecoder: a stream that is not complete gives its whole groups.
HqxOctets(s) ==
  LET bad == SelectInSeq(s.codes, LAMBDA code : code = BadCode)
      codes == IF bad = 0 THEN s.codes ELSE SubSeq(s.codes, 1, bad - 1)
      rest == Len(codes) % 4
      padded == codes \o [i \in 1 .. (4 - rest) % 4 |-> 0]
  IN  IF bad = 0 /\ s.closed /\ rest # 1
      THEN SubSeq(Decode(padded), 1, 3 * (Len(codes) \div 4) + (IF rest = 0 THEN 0 ELSE rest - 1))
      ELSE Decode(SubSeq(codes, 1, Len(codes) - rest))

HqxComplete(s) == s.closed /\ BadCode \notin Range(s.codes) /\ Len(s.codes) % 4 # 1 /\ s.clean

Runs == [out |-> << >>, pending |-> FALSE, ok |-> TRUE]

\* HqxRleDecoder: a marker with count 0 stands for itself, with n for n - 1
\* more of the byte before.
Expand(state, byte) ==
  IF ~state.ok THEN state
  ELSE IF ~state.pending
  THEN IF byte = Marker THEN [state EXCEPT !.pending = TRUE]
       ELSE [state EXCEPT !.out = Append(@, byte)]
  ELSE IF byte = 0 THEN [state EXCEPT !.pending = FALSE, !.out = Append(@, Marker)]
  ELSE IF state.out = << >> THEN [state EXCEPT !.ok = FALSE]
  ELSE [state EXCEPT !.pending = FALSE, !.out = @ \o [i \in 1 .. byte - 1 |-> Last(@)]]

HqxExpanded(s) == FoldLeft(Expand, Runs, HqxOctets(s))

HqxSections(bytes) ==
  LET names == IF bytes = << >> THEN 0 ELSE bytes[1]
      header == 1 + names + Len(HqxFiller) + 2
  IN  [names |-> names, header |-> header, whole |-> names \in 1 .. MaxHqxName /\ header < Len(bytes),
       name |-> SubSeq(bytes, 2, 1 + names),
       data |-> ByteAt(bytes, header - 1), resource |-> ByteAt(bytes, header)]

\* seek_hqx_payload_start, and HqxExtractParser up to the checksum of the header:
\* behind it the target is made.
HqxScan(s) ==
  LET Headed(bytes, parts) ==
        IF s.started /\ parts.whole
        THEN [ok |-> /\ ValidPath(parts.name)
                     /\ bytes[parts.header + 1] = ForkCrc(SubSeq(bytes, 1, parts.header)),
              entries |-> <<[path |-> parts.name, dir |-> FALSE]>>]
        ELSE Refused
      Read(bytes) == Headed(bytes, HqxSections(bytes))
  IN  Read(HqxExpanded(s).out)

\* The forks with their checksums, and nothing behind them.
HqxReplay(s, entries) ==
  LET Forks(bytes, sound, parts, at) ==
        LET data == Slice(bytes, at, parts.data)
            resource == Slice(bytes, at + parts.data + 1, parts.resource)
        IN  <<Asking(File(entries[1].path, data,
                 /\ sound /\ Len(bytes) = at + parts.data + 1 + parts.resource + 1
                 /\ bytes[at + parts.data + 1] = ForkCrc(data)
                 /\ Last(bytes) = ForkCrc(resource)))>>
      Parts(bytes, sound, parts) == Forks(bytes, sound, parts, parts.header + 1)
      Ended(runs) == Parts(runs.out, HqxComplete(s) /\ runs.ok /\ ~runs.pending, HqxSections(runs.out))
  IN  Ended(HqxExpanded(s))

-----------------------------------------------------------------------------
(* MacBinary *)

MacBlock == 4             \* kMacBinaryBlockBytes
MaxMacName == 6

\* round_up_macbinary_block
RoundUp(n) == ((n + MacBlock - 1) \div MacBlock) * MacBlock

\* validate_macbinary_header_fields; only newer versions have a checksum.
SoundMacFields(s) ==
  /\ s.zeroes /\ ~s.signed
  /\ s.versioned => s.crc

\* parse_macbinary_name
SoundMacName(name) ==
  /\ Len(name) \in 1 .. MaxMacName
  /\ \A i \in DOMAIN name : name[i] \in 32 .. 126 /\ name[i] # Colon
  /\ ValidPath(name)

\* parse_macbinary_header: offsets count from behind the header, whose block
\* must be there.
MacScan(s) ==
  LET data == RoundUp(s.secondary)
      resource == data + RoundUp(s.data)
      comment == resource + RoundUp(s.resource)
  IN  [ok |-> /\ s.header /\ SoundMacFields(s) /\ SoundMacName(s.name)
              /\ data + s.data <= Len(s.bytes)
              /\ s.resource > 0 => resource + s.resource <= Len(s.bytes)
              /\ s.comment > 0 => comment + s.comment <= Len(s.bytes),
       entries |-> <<[path |-> s.name, dir |-> FALSE, offset |-> data, size |-> s.data]>>]

\* copy_data_fork
MacReplay(s, entries) ==
  LET e == entries[1]
  IN  <<Asking(File(e.path, Slice(s.bytes, e.offset, e.size), e.offset + e.size <= Len(s.bytes)))>>
=============================================================================
