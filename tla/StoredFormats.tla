----------------------------- MODULE StoredFormats -----------------------------
(***************************************************************************)
(* Three formats that are scanned as a whole, payloads included, before    *)
(* anything is extracted: arc/arc_adapter.cpp and arj/arj_adapter.cpp,     *)
(* which read members stored without compression, and cab/cab_format.cpp   *)
(* and cab/cab_adapter.cpp, which check the tables of a cabinet and let    *)
(* the Windows decompressor FDI run over it twice.                         *)
(***************************************************************************)
EXTENDS ArchiveSteps

\* A header that is cut off or has the wrong marker.
Broken == [method |-> "broken"]
End == [method |-> "end"]

Intact(m) == m.packed = m.size /\ m.size = Len(m.data) /\ Crc(m.data) = m.crc

-----------------------------------------------------------------------------
(* ARC: members, and an end marker that is the last thing in the file *)

\* read_arc_header and validate_unpacked_payload
SoundArc(m) == m.method \in {"old", "new"} /\ Intact(m)

\* scan_arc
ArcScan(arc) ==
  IF /\ arc # << >> /\ Last(arc) = End
     /\ \A i \in 1 .. Len(arc) - 1 : SoundArc(arc[i])
  THEN Listed(TRUE, [i \in 1 .. Len(arc) - 1 |-> [path |-> arc[i].name, dir |-> FALSE]])
  ELSE Refused

\* extract_arc_file_payload compares the checksum of the scan again.
ArcReplay(arc, entries) ==
  [i \in DOMAIN entries |->
     IF i <= Len(arc) /\ arc[i] \notin {End, Broken}
     THEN File(entries[i].path, arc[i].data, Crc(arc[i].data) = arc[i].crc)
     ELSE Fail]

-----------------------------------------------------------------------------
(* ARJ: a main header, members and an end marker; what follows is not read *)

\* read_arj_header and skip_arj_extended_headers
SoundArjHeader(h) == h.method # "broken" /\ h.sum

\* reject_unsupported_arj_flags: encrypted, of several volumes, or split.
PlainFlags(h) == h.flags = {}

\* scan_arj_entry and validate_stored_payload
SoundArj(h) ==
  /\ SoundArjHeader(h) /\ PlainFlags(h)
  /\ \/ h.type = "dir" /\ h.packed = 0 /\ h.size = 0
     \/ h.type \in {"binary", "text"} /\ h.method = "stored" /\ Intact(h)

MainHeader(h) == h.method \notin {"end", "broken"} /\ h.sum /\ h.type = "comment" /\ "volume" \notin h.flags

\* scan_arj
ArjScan(arc) ==
  LET end == SelectInSeq(arc, LAMBDA h : h = End)
      members == SubSeq(arc, 2, end - 1)
  IN  IF end > 1 /\ MainHeader(arc[1]) /\ \A i \in DOMAIN members : SoundArj(members[i])
      THEN Listed(TRUE, [i \in DOMAIN members |->
                           [path |-> members[i].name, dir |-> members[i].type = "dir"]])
      ELSE Refused

\* extract_arj
ArjReplay(arc, entries) ==
  [i \in DOMAIN entries |->
     IF entries[i].dir THEN Dir(entries[i].path)
     ELSE IF i < Len(arc) /\ arc[i + 1] \notin {End, Broken}
     THEN File(entries[i].path, arc[i + 1].data, Crc(arc[i + 1].data) = arc[i + 1].crc)
     ELSE Fail]

-----------------------------------------------------------------------------
(* CAB: a header, folders of compressed blocks, and files that lie in them *)

\* read_cab_header: one cabinet of a version that is known.
SoundCabHeader(cab) ==
  /\ cab.version = 3 /\ ~cab.spanned
  /\ cab.declared <= cab.bytes
  /\ cab.files # << >> => cab.folders # << >>

\* scan_cab_folders and validate_cab_data_blocks
SoundFolder(cab, f) ==
  /\ f.compression \in {"none", "mszip", "quantum", "lzx"}
  /\ cab.files # << >> => f.blocks # << >>
  /\ \A i \in DOMAIN f.blocks : f.blocks[i].end <= cab.declared

\* scan_cab_files
CabTables(cab) ==
  Listed(/\ SoundCabHeader(cab)
         /\ \A i \in DOMAIN cab.folders : SoundFolder(cab, cab.folders[i])
         /\ \A i \in DOMAIN cab.files : cab.files[i].folder \in DOMAIN cab.folders,
         [i \in DOMAIN cab.files |->
            [path |-> cab.files[i].name, dir |-> FALSE, size |-> cab.files[i].size]])

\* FDI decodes a file from the blocks of its folder.
FdiDecodes(cab, file) ==
  /\ \A i \in DOMAIN cab.folders[file.folder].blocks : cab.folders[file.folder].blocks[i].intact
  /\ file.size = Len(file.data)

\* cab_fdi_notify: a file is accepted when the scan has found its name and size.
Announced(file, entries) ==
  \E i \in DOMAIN entries :
    Key(file.name) = Key(entries[i].path) /\ file.size = entries[i].size

\* run_cab_fdi_pass: the first error of a callback or of FDI ends the pass.
FdiPass(cab, entries) ==
  LET Good(i) == Announced(cab.files[i], entries) /\ FdiDecodes(cab, cab.files[i])
      good == GoodPrefix(Len(cab.files), Good)
  IN  [i \in 1 .. good |-> File(cab.files[i].name, cab.files[i].data, TRUE)]
      \o (IF good = Len(cab.files) THEN << >> ELSE <<Fail>>)

\* extract_cab: the tables, and a pass of FDI into a sink.
Verified(cab, tables) == [tables EXCEPT !.ok = @ /\ Fail \notin Range(FdiPass(cab, tables.entries))]
CabScan(cab) == Verified(cab, CabTables(cab))

\* The pass that publishes what FDI delivers.
CabReplay(cab, entries) == FdiPass(cab, entries)
=============================================================================
