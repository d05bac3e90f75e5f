------------------------------- MODULE TarFormat -------------------------------
(***************************************************************************)
(* tar/tar_adapter.cpp: the writer, the scan and the two ways to extract a *)
(* TAR archive, plain or inside a compressed stream.                       *)
(*                                                                         *)
(* An archive is a sequence of blocks.  A header block keeps its fields    *)
(* with their encodings; a data block carries bytes of a file; a text      *)
(* block is the payload of one metadata header (PAX records or a GNU name) *)
(* and takes one block.  A short block is the rest of a cut archive.       *)
(* Lengths are scaled: BlockSize, NameField, PrefixField and SizeField are *)
(* 512, 100, 155 and 12 in the code; the radices are the code's.           *)
(***************************************************************************)
EXTENDS ArchiveSteps

BlockSize == 2
NameField == 4
PrefixField == 6
SizeField == 2

NoName == << >>
Unsplit == [name |-> NoName, prefix |-> NoName]
Zero == [kind |-> "zero"]
Short == [kind |-> "short"]
Data(bytes) == [kind |-> "data", bytes |-> bytes]
Text(text) == [kind |-> "text", text |-> text]

\* tar_padding, in blocks.
Slots(size) == (size + BlockSize - 1) \div BlockSize

-----------------------------------------------------------------------------
(* Numbers *)

\* Faulty variant: a value one too large is still written in octal.
PutNumberLoose(value, length) ==
  IF value <= 8 ^ (length - 1)
  THEN [i \in 1 .. length |->
          IF i = length THEN 0 ELSE 48 + ((value \div 8 ^ (length - 1 - i)) % 8)]
  ELSE [i \in 1 .. length |->
          IF i = 1 THEN 128 ELSE (value \div 256 ^ (length - i)) % 256]

\* put_tar_number: octal digits and a NUL, or base 256 behind 0x80.
PutNumber(value, length) ==
  IF value < 8 ^ (length - 1)
  THEN [i \in 1 .. length |->
          IF i = length THEN 0 ELSE 48 + ((value \div 8 ^ (length - 1 - i)) % 8)]
  ELSE [i \in 1 .. length |->
          IF i = 1 THEN 128 ELSE (value \div 256 ^ (length - i)) % 256]

CanPut(value, length) == value < 8 ^ (length - 1) \/ value < 256 ^ (length - 1)

Malformed == -1
Blank == {0, 32}

\* parse_tar_octal: leading blanks are skipped, the first blank after a digit ends.
ParseOctal(field) ==
  LET Digit(s, c) ==
        CASE s.done \/ s.value = Malformed -> s
          [] c \in Blank -> [s EXCEPT !.done = s.seen]
          [] c \notin Blank \cup 48 .. 55 -> [s EXCEPT !.value = Malformed]
          [] OTHER -> [s EXCEPT !.seen = TRUE, !.value = 8 * @ + c - 48]
  IN  FoldLeft(Digit, [value |-> 0, seen |-> FALSE, done |-> FALSE], field).value

\* parse_tar_number
ParseNumber(field) ==
  IF field[1] < 128 THEN ParseOctal(field)
  ELSE FoldLeft(LAMBDA value, c : 256 * value + c, field[1] - 128, Tail(field))

-----------------------------------------------------------------------------
(* Names *)

\* split_ustar_name: all of it, or the rightmost slash that leaves two parts
\* that fit.
SplitName(path) ==
  LET Fits(i) == /\ path[i] = Slash
                 /\ i - 1 \in 1 .. PrefixField
                 /\ Len(path) - i \in 1 .. NameField
      splits == {i \in DOMAIN path : Fits(i)}
      split == CHOOSE i \in splits : \A j \in splits : j <= i
  IN  CASE Len(path) <= NameField -> [name |-> path, prefix |-> << >>]
        [] Len(path) > NameField /\ splits # {} ->
             [name |-> SubSeq(path, split + 1, Len(path)), prefix |-> SubSeq(path, 1, split - 1)]
        [] OTHER -> Unsplit

Ascii(path) == \A i \in DOMAIN path : path[i] < 128

\* A byte beyond ASCII is another character in the code page of the host.
HostCodePage(name) == [i \in DOMAIN name |-> IF name[i] < 128 THEN name[i] ELSE 1000 + name[i]]

Digits(n) == IF n < 10 THEN 1 ELSE IF n < 100 THEN 2 ELSE 3

\* The length of " key=value\n" and of its own digits, as make_pax_record and
\* the reader count it.
PaxExtent(record, digits) == digits + Len(record.value) + 7

PaxLength(record) ==
  LET Settled(digits) == Digits(PaxExtent(record, digits)) = digits
  IN  PaxExtent(record, CHOOSE d \in 1 .. 3 : Settled(d) /\ \A e \in 1 .. d - 1 : ~Settled(e))

\* make_pax_record
PaxRecord(key, value) ==
  LET record == [key |-> key, value |-> value]
  IN  [key |-> key, value |-> value, length |-> PaxLength(record)]

-----------------------------------------------------------------------------
(* Writing *)

Header(type, split, size) ==
  [kind |-> "header", sum |-> TRUE, type |-> type, name |-> split.name,
   prefix |-> split.prefix, size |-> PutNumber(size, SizeField)]

PaxHeaderName == [name |-> <<88>>, prefix |-> << >>]      \* PaxHeaders.X/superzip-n
PaxEntryName == [name |-> <<115>>, prefix |-> << >>]      \* superzip-pax-entry

\* write_pax_path_if_needed
PaxPath(path) ==
  IF Ascii(path) /\ SplitName(path) # Unsplit THEN << >>
  ELSE <<Header("x", PaxHeaderName, 1), Text(<<PaxRecord("path", path)>>)>>

\* write_entry_header
EntryHeader(entry) ==
  LET split == IF SplitName(entry.path) = Unsplit THEN PaxEntryName ELSE SplitName(entry.path)
  IN  PaxPath(entry.path)
      \o <<Header(IF entry.dir THEN "5" ELSE "0", split, Len(entry.data))>>

\* copy_file_to_tar and write_tar_padding
FileBlocks(data) ==
  [i \in 1 .. Slots(Len(data)) |->
     Data(SubSeq(data, BlockSize * (i - 1) + 1,
                 IF BlockSize * i < Len(data) THEN BlockSize * i ELSE Len(data)))]

\* write_tar_stream
WriteStream(manifest) ==
  FlattenSeq([i \in DOMAIN manifest |->
                EntryHeader(manifest[i]) \o FileBlocks(manifest[i].data)])
  \o <<Zero, Zero>>

\* tar_stream_size: the same headers, and sizes in the place of payloads.
StreamSize(manifest) ==
  FoldLeft(LAMBDA n, e : n + Len(EntryHeader(e)) + Slots(Len(e.data)), 2, manifest)

\* ZstdOutputStream pledges the size before the first byte is written.
Writable(manifest, layer) ==
  /\ \A i \in DOMAIN manifest : CanPut(Len(manifest[i].data), SizeField)
  /\ layer = "zstd" => StreamSize(manifest) = Len(WriteStream(manifest))

-----------------------------------------------------------------------------
(* Reading *)

\* The values of hdrcharset that the reader knows: BINARY and the name of UTF-8.
Binary == <<66>>
Unicode == <<73>>

\* parse_pax_payload, with its path or NoName.  A path is UTF-8 unless the last
\* hdrcharset says that it is in the code page of the host.
PaxPayload(records) ==
  LET paths == SelectSeq(records, LAMBDA r : r.key = "path")
      charsets == SelectSeq(records, LAMBDA r : r.key = "hdrcharset")
      wellFormed ==
        /\ \A i \in DOMAIN records : records[i].length = PaxExtent(records[i], Digits(records[i].length))
        /\ Len(paths) <= 1
        /\ \A i \in DOMAIN paths : Len(paths[i].value) \in 1 .. MaxPathBytes
        /\ \A i \in DOMAIN charsets : charsets[i].value \in {Binary, Unicode}
      path == IF paths = << >> THEN NoName ELSE paths[1].value
  IN  [ok |-> wellFormed,
       path |-> IF charsets # << >> /\ Last(charsets).value = Binary THEN HostCodePage(path) ELSE path]

\* parse_gnu_long_name
LongName(text) ==
  LET kept == {i \in DOMAIN text : text[i] \notin {0, 10}}
      name == IF kept = {} THEN << >> ELSE SubSeq(text, 1, CHOOSE i \in kept : \A j \in kept : j <= i)
  IN  [ok |-> Len(name) \in 1 .. MaxPathBytes, path |-> HostCodePage(name)]

\* tar_entry_path: the pending name, or the fields of the header.
EntryPath(header, pending) ==
  CASE pending # NoName -> pending
    [] pending = NoName /\ header.prefix = << >> -> HostCodePage(header.name)
    [] OTHER -> HostCodePage(header.prefix \o <<Slash>> \o header.name)

\* One turn of the loop of scan_tar_stream, with the header at s.at.
TakeHeader(blocks, s, header, size) ==
  LET next == s.at + 1 + Slots(size)
      whole == next - 1 <= Len(blocks) /\ Short \notin {blocks[i] : i \in s.at .. next - 1}
      Named(read) == [s EXCEPT !.at = next, !.ok = read.ok, !.pending = read.path]
      Found(path) ==
        [at |-> next, ok |-> path # << >>, pending |-> NoName,
         entries |-> Append(s.entries, [path |-> path, dir |-> header.type = "5", offset |-> s.at + 1,
                                        size |-> IF header.type = "5" THEN 0 ELSE size])]
  IN  CASE size = Malformed \/ ~whole -> [s EXCEPT !.ok = FALSE]
        [] size # Malformed /\ whole /\ header.type = "x" -> Named(PaxPayload(blocks[s.at + 1].text))
        [] size # Malformed /\ whole /\ header.type = "g" -> [s EXCEPT !.at = next]
        [] size # Malformed /\ whole /\ header.type = "L" -> Named(LongName(blocks[s.at + 1].text))
        [] size # Malformed /\ whole /\ header.type \in {"0", "5"} -> Found(EntryPath(header, s.pending))
        [] OTHER -> [s EXCEPT !.ok = FALSE]      \* links, devices and unknown types

Sound(block) == block.kind = "header" /\ block.sum

\* One pass over the headers: scan_tar_stream.  It ends at a zero block or at
\* the end of the file.
Walk(blocks) ==
  LET Turn(s, at) ==
        IF ~s.ok \/ s.at # at \/ blocks[at] = Zero THEN s
        ELSE TakeHeader(blocks, s, blocks[at],
                        IF Sound(blocks[at]) THEN ParseNumber(blocks[at].size) ELSE Malformed)
  IN  FoldLeft(Turn, [at |-> 1, ok |-> TRUE, pending |-> NoName, entries |-> << >>],
               [at \in DOMAIN blocks |-> at])

Layers == {"none", "gzip", "bzip2", "xz", "lzip", "zstd"}

Checked(found, finished) == Listed(found.ok /\ finished, found.entries)

\* Faulty variant: the stream around the archive is not read to its end.
ScanWithoutFinish(arc) == Checked(Walk(arc.blocks), TRUE)

\* The first pass: headers, the set of their names, and finish() of the stream.
TarScan(arc) == Checked(Walk(arc.blocks), arc.intact)

Bytes(block) == IF block.kind = "data" THEN block.bytes ELSE <<block.kind>>

\* extract_tar_file_payload: size bytes from the offset the scan found.
PayloadAt(blocks, entry) ==
  LET last == entry.offset + Slots(entry.size) - 1
      stored == FlattenSeq([i \in 1 .. Slots(entry.size) |-> Bytes(blocks[entry.offset + i - 1])])
      good == last <= Len(blocks) /\ Len(stored) >= entry.size
  IN  [good |-> good, data |-> IF good THEN SubSeq(stored, 1, entry.size) ELSE << >>]

Deliver(entry, payload) ==
  IF entry.dir THEN Dir(entry.path) ELSE Asking(File(entry.path, payload.data, payload.good))

\* extract_tar, which seeks to each payload.
ReplaySeekable(arc, entries) ==
  [i \in DOMAIN entries |-> Deliver(entries[i], PayloadAt(arc.blocks, entries[i]))]

Matches(a, b) == a.path = b.path /\ a.dir = b.dir /\ a.size = b.size

Compared(arc, again, entries) ==
  LET Same(i) == i <= Len(entries) /\ Matches(again.entries[i], entries[i])
      Steps(matching) ==
        [i \in 1 .. matching |-> Deliver(entries[i], PayloadAt(arc.blocks, again.entries[i]))]
        \o (IF /\ again.ok /\ matching = Len(entries) /\ matching = Len(again.entries)
               /\ arc.intact
            THEN << >> ELSE <<Fail>>)
  IN  Steps(GoodPrefix(Len(again.entries), Same))

\* extract_validated_tar_stream, which reads the headers again and compares.
ReplayStream(arc, entries) == Compared(arc, Walk(arc.blocks), entries)

TarReplay(arc, entries) ==
  IF arc.layer = "none" THEN ReplaySeekable(arc, entries) ELSE ReplayStream(arc, entries)
=============================================================================
