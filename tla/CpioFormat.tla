------------------------------ MODULE CpioFormat ------------------------------
(***************************************************************************)
(* cpio/cpio_adapter.cpp, and rpm/rpm_format.cpp and rpm/rpm_adapter.cpp,  *)
(* which take the CPIO archive out of a package and extract it.            *)
(*                                                                         *)
(* An archive is a sequence of records, each a header with its name and    *)
(* its payload; a cut archive ends in a Short record.  The alignment of    *)
(* names and payloads is left out.  intact tells whether the compressed    *)
(* stream around the archive decodes to its end.                           *)
(***************************************************************************)
EXTENDS ArchiveSteps

Short == [magic |-> "short"]
Trailer == <<84, 33>>        \* TRAILER!!!
MaxNameBytes == MaxPathBytes + 1
MaxFieldValue == 9           \* the largest number of eight hexadecimal digits

\* checksum_cpio_payload
Sum(data) == FoldLeft(LAMBDA n, byte : n + byte, 0, data) % 256

-----------------------------------------------------------------------------
(* Writing *)

\* make_cpio_header and write_cpio_entry_header: new ASCII, without a checksum.
Record(name, type, data) ==
  [magic |-> "070701", name |-> name, namesize |-> Len(name) + 1, nul |-> TRUE,
   type |-> type, nlink |-> 1, data |-> data, check |-> 0]

\* write_cpio_stream
WriteStream(manifest) ==
  [i \in DOMAIN manifest |->
     Record(manifest[i].path, IF manifest[i].dir THEN "dir" ELSE "regular", manifest[i].data)]
  \o <<Record(Trailer, "none", << >>)>>

Writable(manifest) ==
  \A i \in DOMAIN manifest :
    Len(manifest[i].data) <= MaxFieldValue /\ Len(manifest[i].path) + 1 <= MaxNameBytes

-----------------------------------------------------------------------------
(* Reading *)

\* parse_cpio_header and the checks of the name that follows it.
SoundRecord(r) ==
  /\ r.magic \in {"070701", "070702"}
  /\ r.namesize \in 1 .. MaxNameBytes
  /\ r.nul

IsTrailer(r) == r.name = Trailer

\* classify_cpio_entry
Extractable(r) ==
  \/ r.type = "dir" /\ r.data = << >>
  \/ r.type = "regular" /\ r.nlink <= 1

ChecksumHolds(r) == r.magic = "070702" => Sum(r.data) = r.check

Entry(r) == [path |-> r.name, dir |-> r.type = "dir", crc |-> r.magic = "070702",
             check |-> r.check, data |-> r.data]

\* The records up to the trailer, which has to be there and be empty.
Ended(records) ==
  LET end == SelectInSeq(records, LAMBDA r : ~SoundRecord(r) \/ IsTrailer(r))
  IN  [ok |-> /\ end > 0 /\ SoundRecord(records[end])
              /\ records[end].data = << >>,
       before |-> IF end = 0 THEN records ELSE SubSeq(records, 1, end - 1)]

\* scan_cpio_stream
Entries(records) == [i \in DOMAIN records |-> Entry(records[i])]
Sound(records) == \A i \in DOMAIN records : Extractable(records[i]) /\ ChecksumHolds(records[i])
Checked(read) == Listed(read.ok /\ Sound(read.before), Entries(read.before))
ScanStream(arc) == Checked(Ended(arc.records))

\* extract_cpio and extract_cpio_gzip: scan, and finish() of the stream.
CpioScan(arc) == [ScanStream(arc) EXCEPT !.ok = @ /\ arc.intact]

\* extract_cpio_seekable_file_payload and extract_cpio_stream_file_payload: the
\* checksum is compared again before the file is published.
Deliver(entry) ==
  IF entry.dir THEN Dir(entry.path)
  ELSE File(entry.path, entry.data, entry.crc => Sum(entry.data) = entry.check)

\* extract_cpio seeks to each payload.
ReplaySeekable(arc, entries) ==
  [i \in DOMAIN entries |->
     IF i <= Len(arc.records) /\ arc.records[i] # Short
     THEN Deliver([entries[i] EXCEPT !.data = arc.records[i].data])
     ELSE Fail]

\* require_matching_scanned_cpio_entry
Matches(a, b) == /\ a.path = b.path /\ a.dir = b.dir /\ a.crc = b.crc
                 /\ a.check = b.check /\ Len(a.data) = Len(b.data)

\* The steps up to the first record that is not the entry of the scan.
Steps(again, matching, complete) ==
  LET Step(e) == IF e.dir THEN Deliver(e) ELSE Asking(Deliver(e))
  IN  [i \in 1 .. matching |-> Step(again[i])] \o (IF complete THEN << >> ELSE <<Fail>>)

Compared(read, again, entries, intact) ==
  LET Good(i) == /\ i <= Len(entries) /\ Extractable(read.before[i])
                 /\ Matches(again[i], entries[i])
      matching == GoodPrefix(Len(again), Good)
  IN  Steps(again, matching, read.ok /\ Len(entries) = Len(again) /\ matching = Len(again) /\ intact)

\* extract_validated_cpio_stream
ReplayStream(arc, entries) ==
  LET read == Ended(arc.records)
  IN  Compared(read, Entries(read.before), entries, arc.intact)

CpioReplay(arc, entries) ==
  IF arc.layer = "none" THEN ReplaySeekable(arc, entries) ELSE ReplayStream(arc, entries)

-----------------------------------------------------------------------------
(* RPM packages: a lead, a signature header, a main header and a payload *)

Compressors == {"gzip", "bzip2", "xz", "zstd"}

\* read_rpm_lead and read_rpm_header, of the signature and of the main header.
SoundPackage(arc) ==
  /\ arc.lead /\ arc.signature.sound /\ arc.header.sound
  /\ arc.header.format \in {"", "cpio"}

\* compression_from_header: a name that is not known is refused; none says nothing.
KnownCompressor(header) == header.compressor \in Compressors \cup {"", "none"}

\* scan_rpm_payload: header and magic must not contradict each other, and one
\* of them has to name the compression.
PayloadCompression(arc) ==
  LET named == arc.header.compressor
      seen == arc.payload.layer
  IN  CASE named = "" -> IF seen = "unknown" THEN "refused" ELSE seen
        [] named # "" /\ seen # "unknown" /\ named # seen -> "refused"
        [] OTHER -> named

\* extract_rpm scans the package before it creates the destination ...
RpmScan(arc) ==
  [ok |-> /\ SoundPackage(arc) /\ KnownCompressor(arc.header)
          /\ PayloadCompression(arc) # "refused",
   entries |-> << >>]

\* ... and decodes the payload into a temporary file below it, which it then
\* extracts as a CPIO archive of its own (materialize_cpio_payload).
Unpacked(file, found) == IF found.ok THEN ReplaySeekable(file, found.entries) ELSE <<Fail>>
RpmReplay(arc, entries) ==
  LET file == [arc.payload EXCEPT !.layer = "none"]
  IN  IF PayloadCompression(arc) = arc.payload.layer /\ arc.payload.intact
      THEN Unpacked(file, Accepted(CpioScan(file))) ELSE <<Fail>>
=============================================================================
