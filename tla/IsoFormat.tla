------------------------------- MODULE IsoFormat -------------------------------
(***************************************************************************)
(* iso/iso_adapter.cpp: the tree of an ISO 9660 image, walked from its     *)
(* root directory with a list of directories that are still to be read.    *)
(*                                                                         *)
(* An image is a sequence of units, SectorUnits to a sector: a zero, a     *)
(* directory record or a byte of a file.  An extent is a sector and a      *)
(* length in units.                                                        *)
(***************************************************************************)
EXTENDS ArchiveSteps

SectorUnits == 2

ZeroUnit == [kind |-> "zero"]
Byte(n) == [kind |-> "byte", byte |-> n]

Semicolon == 59
DigitBytes == 48 .. 57

\* plain: neither interleaved nor in several extents; agree: the numbers are the
\* same in both byte orders.
Record(name, dir, sector, length) ==
  [kind |-> "record", name |-> name, dir |-> dir, sector |-> sector, length |-> length,
   plain |-> TRUE, agree |-> TRUE]

-----------------------------------------------------------------------------

\* The entries of a directory for itself and for its parent.
Special(name) == name \in {<<0>>, <<1>>}

\* normalize_iso_identifier: the version behind the last semicolon goes, then
\* one dot at the end.
IsoName(identifier) ==
  LET marks == {i \in DOMAIN identifier : identifier[i] = Semicolon}
      mark == CHOOSE i \in marks : \A j \in marks : j <= i
      versioned == /\ marks # {} /\ mark < Len(identifier)
                   /\ \A i \in mark + 1 .. Len(identifier) : identifier[i] \in DigitBytes
      name == IF versioned THEN SubSeq(identifier, 1, mark - 1) ELSE identifier
  IN  IF name # << >> /\ Last(name) = Dot THEN Front(name) ELSE name

SoundName(identifier) ==
  Special(identifier) \/ (IsoName(identifier) # << >> /\ ~\E i \in DOMAIN identifier : identifier[i] \in {Slash, Backslash})

\* parse_iso_directory_record
SoundRecord(unit) ==
  unit.kind = "record" /\ unit.plain /\ unit.agree /\ SoundName(unit.name)

Offset(r) == r.sector * SectorUnits

\* validate_iso_extent
Inside(image, r) == Offset(r) + r.length <= Len(image.units)

\* insert_iso_directory_extent: directories share no bytes, so that none is its
\* own ancestor.
NewExtent(image, r, extents) ==
  /\ r.length > 0 /\ Inside(image, r)
  /\ \A e \in extents : e.to <= Offset(r) \/ Offset(r) + r.length <= e.from

\* read_iso_directory_extent: behind a zero the records go on in the next sector.
Records(image, d) ==
  LET units == Slice(image.units, Offset(d), d.length)
      Read(i) == \A j \in 1 .. i :
                   (j - 1) \div SectorUnits = (i - 1) \div SectorUnits => units[j] # ZeroUnit
      read == SetToSortSeq({i \in DOMAIN units : Read(i)}, <)
  IN  [i \in DOMAIN read |-> units[read[i]]]

\* join_iso_archive_path
Below(parent, name) == IF parent = << >> THEN name ELSE parent \o <<Slash>> \o name

\* One record of a directory: the body of the inner loop of scan_iso.
TakeRecord(image, directory, s, unit) ==
  CASE ~s.ok -> s
    [] s.ok /\ ~SoundRecord(unit) -> [s EXCEPT !.ok = FALSE]
    [] s.ok /\ SoundRecord(unit) /\ Special(unit.name) -> s
    [] OTHER ->
       LET path == Below(directory.path, IsoName(unit.name))
           entry == [path |-> path, dir |-> unit.dir, offset |-> Offset(unit), size |-> unit.length]
           sound == /\ Inside(image, unit) /\ directory.depth < MaxComponents
                    /\ Len(path) <= MaxPathBytes
                    /\ unit.dir => NewExtent(image, unit, s.extents)
       IN  IF ~sound THEN [s EXCEPT !.ok = FALSE]
           ELSE [s EXCEPT !.entries = Append(@, entry),
                   !.extents = IF unit.dir THEN @ \cup {[from |-> Offset(unit), to |-> Offset(unit) + unit.length]} ELSE @,
                   !.pending = IF unit.dir
                               THEN Append(@, [path |-> path, depth |-> directory.depth + 1,
                                               sector |-> unit.sector, length |-> unit.length]) ELSE @]

\* The outer loop of scan_iso.  Directories do not share units, so that there
\* are no more of them than units.
Visit(image, s, at) ==
  LET Take(state, unit) == TakeRecord(image, s.pending[at], state, unit)
  IN  IF s.ok /\ at <= Len(s.pending) THEN FoldLeft(Take, s, Records(image, s.pending[at])) ELSE s

VisitAll(image, start) ==
  LET state[n \in Nat] == IF n = 0 THEN start ELSE Visit(image, state[n - 1], n)
  IN  state[Len(image.units) + 1]

\* read_iso_root_record: the first primary descriptor before the terminator.
RootDescriptor(image) ==
  SelectInSeq(image.descriptors, LAMBDA d : d.standard /\ d.type \in {"primary", "terminator"})

\* scan_iso
IsoScan(image) ==
  LET at == RootDescriptor(image)
      Start(root) ==
        [ok |-> TRUE, entries |-> << >>,
         extents |-> {[from |-> Offset(root), to |-> Offset(root) + root.length]},
         pending |-> <<[path |-> << >>, depth |-> 0, sector |-> root.sector, length |-> root.length]>>]
      Found(s) == Listed(s.ok, s.entries)
      From(root) == IF SoundRecord(root) /\ root.dir /\ NewExtent(image, root, {})
                    THEN Found(VisitAll(image, Start(root))) ELSE Refused
  IN  IF at > 0 /\ image.descriptors[at].type = "primary"
      THEN From(image.descriptors[at].root) ELSE Refused

\* extract_iso_file_payload: the format has no checksums.
IsoReplay(image, entries) ==
  LET Stored(e) == Slice(image.units, e.offset, e.size)
      Content(units) == [i \in DOMAIN units |-> IF units[i].kind = "byte" THEN units[i].byte ELSE 0]
  IN  [i \in DOMAIN entries |->
         IF entries[i].dir THEN Dir(entries[i].path)
         ELSE File(entries[i].path, Content(Stored(entries[i])),
                   entries[i].offset + entries[i].size <= Len(image.units))]
=============================================================================
