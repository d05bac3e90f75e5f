------------------------------- MODULE ArFormat -------------------------------
(***************************************************************************)
(* ar/ar_adapter.cpp: archives whose members have BSD names (in front of   *)
(* the payload, counted in its size), GNU names (in a string table, by     *)
(* offset) or short names in the header.                                   *)
(*                                                                         *)
(* An archive is its global magic and a sequence of members.  The bytes of *)
(* a member are its payload with the BSD name in front; padding is one     *)
(* newline behind an odd payload, and a cut archive lacks its last byte.   *)
(***************************************************************************)
EXTENDS ArchiveSteps

MaxNameBytes == MaxPathBytes
MaxMemberBytes == 20          \* kMaxArDecimalField

Newline == 10

\* The forms of the name field: short text, #1/n, /n, // and the symbol tables.
ShortName(name) == [form |-> "short", name |-> name]
BsdName(n) == [form |-> "bsd", number |-> n]
GnuName(n) == [form |-> "gnu", number |-> n]
TableName == [form |-> "table"]
SymbolName == [form |-> "symbols"]

\* The numbers of a set, in order.
Numbered(numbers) ==
  [n \in 1 .. Cardinality(numbers) |->
     CHOOSE i \in numbers : Cardinality({j \in numbers : j < i}) = n - 1]

-----------------------------------------------------------------------------
(* Writing *)

\* make_bsd_ar_header, the name, the file and the padding of compress_ar.
Member(entry) ==
  [magic |-> TRUE, name |-> BsdName(Len(entry.path)),
   size |-> Len(entry.path) + Len(entry.data), bytes |-> entry.path \o entry.data]

\* Directories have no place in the format.
FilesOf(manifest) ==
  LET files == Numbered({i \in DOMAIN manifest : ~manifest[i].dir})
  IN  [n \in DOMAIN files |-> manifest[files[n]]]
WriteArchive(manifest) == [n \in DOMAIN FilesOf(manifest) |-> Member(FilesOf(manifest)[n])]

Writable(manifest) ==
  \A i \in DOMAIN manifest :
    /\ Len(manifest[i].path) <= MaxNameBytes
    /\ Len(manifest[i].path) + Len(manifest[i].data) <= MaxMemberBytes

-----------------------------------------------------------------------------
(* Reading *)

\* validate_member_extent: payload and padding are inside the file.
WholeMember(arc, i) ==
  /\ arc.records[i].magic
  /\ arc.records[i].size = Len(arc.records[i].bytes)
  /\ i = Len(arc.records) => ~arc.cut

\* resolve_gnu_long_name: up to the newline, without the slash of GNU.
TableEntry(table, offset) ==
  LET rest == SubSeq(table, offset + 1, Len(table))
      line == Before(rest, Newline)
      name == IF line # << >> /\ Last(line) = Slash THEN Front(line) ELSE line
  IN  IF offset < Len(table) /\ Len(name) <= MaxNameBytes THEN name ELSE << >>

WithoutSlash(name) == IF name # << >> /\ Last(name) = Slash THEN Front(name) ELSE name

\* Faulty variant: the payload of a member with a BSD name starts at the name.
ParsedWithName(member, table) ==
  LET form == member.name.form
  IN  CASE form = "bsd" ->
             IF member.name.number \in 1 .. MaxNameBytes /\ member.name.number <= member.size
             THEN [path |-> SubSeq(member.bytes, 1, member.name.number), skip |-> 0]
             ELSE [path |-> << >>, skip |-> 0]
        [] form = "gnu" -> [path |-> TableEntry(table, member.name.number), skip |-> 0]
        [] OTHER -> [path |-> WithoutSlash(member.name.name), skip |-> 0]

\* parse_member_name_and_payload; an empty path is refused.
Parsed(member, table) ==
  LET form == member.name.form
  IN  CASE form = "bsd" ->
             IF member.name.number \in 1 .. MaxNameBytes /\ member.name.number <= member.size
             THEN [path |-> SubSeq(member.bytes, 1, member.name.number), skip |-> member.name.number]
             ELSE [path |-> << >>, skip |-> 0]
        [] form = "gnu" -> [path |-> TableEntry(table, member.name.number), skip |-> 0]
        [] OTHER -> [path |-> WithoutSlash(member.name.name), skip |-> 0]

\* The string table that a member sees is the last one before it.
TableBefore(arc, i) ==
  LET tables == {j \in 1 .. i - 1 : arc.records[j].name = TableName}
  IN  IF tables = {} THEN << >>
      ELSE arc.records[CHOOSE j \in tables : \A k \in tables : k <= j].bytes

IsFile(member) == member.name.form \notin {"table", "symbols"}

Files(arc) == Numbered({i \in DOMAIN arc.records : IsFile(arc.records[i])})

\* scan_ar
ArScan(arc) ==
  LET files == Files(arc)
      Entry(i, found) == [path |-> found.path, dir |-> FALSE, member |-> i,
                          skip |-> found.skip, size |-> arc.records[i].size - found.skip]
  IN  Listed(arc.magic /\ \A i \in DOMAIN arc.records : WholeMember(arc, i),
             [n \in DOMAIN files |->
                Entry(files[n], Parsed(arc.records[files[n]], TableBefore(arc, files[n])))])

\* extract_ar: size bytes from the payload offset of the scan.
ArReplay(arc, entries) ==
  [n \in DOMAIN entries |->
     LET e == entries[n]
         stored == IF e.member <= Len(arc.records) THEN arc.records[e.member].bytes ELSE << >>
     IN  File(e.path, Slice(stored, e.skip, e.size),
              e.skip + e.size <= Len(stored))]
=============================================================================
