---------------------------- MODULE LibraryFormats ----------------------------
(***************************************************************************)
(* Four formats that a library decodes and an adapter polices:             *)
(* zip/zip_adapter.cpp (miniz), sevenzip/sevenzip_adapter.cpp (LZMA SDK),  *)
(* lha/lha_adapter.cpp (lhasa) and wim/wim_adapter.cpp (wimlib).  What a   *)
(* library returns is in the fields of an archive: whether it opens, the   *)
(* members in its order, and for each payload what it decodes to and the   *)
(* checksum that the library compares.                                     *)
(***************************************************************************)
EXTENDS ArchiveSteps

Sound(file) == file.size = Len(file.data) /\ Crc(file.data) = file.crc

-----------------------------------------------------------------------------
(* ZIP *)

\* What the code page of a ZIP name (437) makes of a byte beyond ASCII.
CodePage437(name) == [i \in DOMAIN name |-> IF name[i] < 128 THEN name[i] ELSE 2000 + name[i]]

\* Well-formed UTF-8, for the bytes that occur.
Utf8(name) ==
  \A i \in DOMAIN name :
    /\ name[i] >= 192 => i < Len(name) /\ name[i + 1] \in 128 .. 191
    /\ name[i] \in 128 .. 191 => i > 1 /\ name[i - 1] >= 192

\* zip_entry_name, of a name that zip_full_entry_name accepts.
ZipName(file) == IF file.utf8 THEN file.name ELSE CodePage437(file.name)

ZipNameSound(file) ==
  /\ Len(file.name) \in 1 .. MaxPathBytes
  /\ \A i \in DOMAIN file.name : file.name[i] # 0
  /\ file.utf8 => Utf8(file.name)

\* scan_zip_entries, and the open before it
ZipScan(arc) ==
  Listed(/\ arc.opens
         /\ \A i \in DOMAIN arc.files : arc.files[i].supported /\ ZipNameSound(arc.files[i]),
         [i \in DOMAIN arc.files |-> [path |-> ZipName(arc.files[i]), dir |-> arc.files[i].dir]])

\* extract_zip: the checksum of a payload is compared when it is extracted.
ZipReplay(arc, entries) ==
  [i \in DOMAIN arc.files |->
     IF arc.files[i].dir THEN Dir(entries[i].path)
     ELSE Asking(File(entries[i].path, arc.files[i].data, Sound(arc.files[i])))]

\* compress_zip: a directory is an empty member whose name ends in a slash.
ZipWrite(manifest) ==
  [opens |-> TRUE,
   files |-> [i \in DOMAIN manifest |->
     [name |-> manifest[i].path \o (IF manifest[i].dir THEN <<Slash>> ELSE << >>), utf8 |-> TRUE,
      supported |-> TRUE, dir |-> manifest[i].dir, size |-> Len(manifest[i].data),
      crc |-> Crc(manifest[i].data), data |-> manifest[i].data]]]

-----------------------------------------------------------------------------
(* 7z *)

High == 55296 .. 56319
Low == 56320 .. 57343

\* append_utf8_code_point
Utf8Bytes(point) ==
  CASE point < 128 -> <<point>>
    [] point \in 128 .. 2047 -> <<192 + (point \div 64), 128 + (point % 64)>>
    [] point \in 2048 .. 65535 ->
         <<224 + (point \div 4096), 128 + ((point \div 64) % 64), 128 + (point % 64)>>
    [] OTHER -> <<240 + (point \div 262144), 128 + ((point \div 4096) % 64),
                  128 + ((point \div 64) % 64), 128 + (point % 64)>>

\* utf16_name_to_utf8: up to a zero; a surrogate must be one of a pair.
FromUtf16(units) ==
  LET name == Before(units, 0)
      Put(s, u) ==
        CASE s.high # 0 -> [ok |-> s.ok /\ u \in Low, high |-> 0,
                            out |-> s.out \o Utf8Bytes(65536 + (s.high - 55296) * 1024 + (u - 56320))]
          [] s.high = 0 /\ u \in High -> [s EXCEPT !.high = u]
          [] s.high = 0 /\ u \in Low -> [s EXCEPT !.ok = FALSE]
          [] OTHER -> [s EXCEPT !.out = @ \o Utf8Bytes(u)]
      all == FoldLeft(Put, [ok |-> TRUE, high |-> 0, out |-> << >>], name)
  IN  [ok |-> all.ok /\ all.high = 0 /\ Len(all.out) <= MaxPathBytes, path |-> all.out]

\* reject_unsupported_7z_attributes: devices, reparse points, and POSIX types
\* other than the one of the entry.
PlainAttributes(file) ==
  /\ file.windows \cap {"device", "reparse"} = {}
  /\ file.posix \in {"none", IF file.dir THEN "dir" ELSE "regular"}

\* validate_7z_payloads: all of them are decoded before anything is written.
SevenZipPayloads(arc) == \A i \in DOMAIN arc.files : ~arc.files[i].dir => Sound(arc.files[i])

\* scan_7z_metadata and validate_7z_payloads
SevenZipScan(arc) ==
  LET Under(names) ==
        IF /\ arc.opens
           /\ \A i \in DOMAIN names :
                PlainAttributes(arc.files[i]) /\ names[i].ok /\ ValidPath(names[i].path)
        THEN Listed(SevenZipPayloads(arc),
                    [i \in DOMAIN names |-> [path |-> Key(names[i].path), dir |-> arc.files[i].dir]])
        ELSE Refused
  IN  Under([i \in DOMAIN arc.files |-> FromUtf16(arc.files[i].name)])

\* extract_7z_payloads and publish_7z_payload
SevenZipReplay(arc, entries) ==
  [i \in DOMAIN entries |->
     IF entries[i].dir THEN Dir(entries[i].path)
     ELSE File(entries[i].path, arc.files[i].data, Sound(arc.files[i]))]

-----------------------------------------------------------------------------
(* LHA: the library ends the list at the end marker and at a broken header *)

\* lha_header_path
LhaPath(h) ==
  IF h.name = << >> THEN h.path
  ELSE h.path \o (IF h.path # << >> /\ Last(h.path) # Slash THEN <<Slash>> ELSE << >>) \o h.name

LhaListed(arc) ==
  LET end == SelectInSeq(arc.records, LAMBDA h : h.method \in {"end", "broken"})
  IN  IF end = 0 THEN arc.records ELSE SubSeq(arc.records, 1, end - 1)

LhaDirectory(h) == h.method = "dir" /\ ~h.link

\* scan_lha_metadata: links are refused, and every payload is decoded.
LhaScan(arc) ==
  LET listed == LhaListed(arc)
  IN  IF /\ listed # << >>
         /\ \A i \in DOMAIN listed :
              /\ ~listed[i].link /\ ValidPath(LhaPath(listed[i]))
              /\ LhaDirectory(listed[i]) \/ Sound(listed[i])
      THEN Listed(TRUE, [i \in DOMAIN listed |-> [path |-> Key(LhaPath(listed[i])),
                                                 dir |-> LhaDirectory(listed[i])]])
      ELSE Refused

\* extract_lha_payloads and publish_lha_payload: the list is read again, name by
\* name, and so is every payload, which is checked again.
LhaReplay(arc, entries) ==
  LET listed == LhaListed(arc)
      Same(i) == /\ i <= Len(entries) /\ ~listed[i].link
                 /\ Key(LhaPath(listed[i])) = entries[i].path
                 /\ LhaDirectory(listed[i]) = entries[i].dir
      same == GoodPrefix(Len(listed), Same)
  IN  [i \in 1 .. same |->
         IF entries[i].dir THEN Dir(entries[i].path)
         ELSE File(entries[i].path, listed[i].data, Sound(listed[i]))]
      \o (IF same = Len(listed) /\ same = Len(entries) THEN << >> ELSE <<Fail>>)

-----------------------------------------------------------------------------
(* WIM: images, each with its tree; the root of a tree has depth 0 *)

Separator == {Slash, Backslash}

\* normalized_wim_source_path: one leading separator goes, two are a UNC path.
WimSource(path) == IF path # << >> /\ path[1] \in Separator THEN Tail(path) ELSE path
UncPath(path) == Len(path) >= 2 /\ path[1] \in Separator /\ path[2] \in Separator

ImagePrefix(image) == <<105, 48 + image, Slash>>      \* image-n/

\* wim_output_path
WimOutput(arc, image, path) ==
  (IF Len(arc.images) > 1 THEN ImagePrefix(image) ELSE << >>) \o Key(WimSource(path))

\* validate_wim_entry_kind
PlainWimEntry(e) == /\ e.attributes \subseteq {"directory"} /\ e.links <= 1 /\ e.streams = 0
                    /\ "directory" \in e.attributes \/ ~e.missing

\* scan_wim_metadata with record_wim_entry for every entry of every image
WimScan(arc) ==
  LET Tree(image) == SelectSeq(arc.images[image], LAMBDA e : e.depth > 0)
      Entry(image, e) == [path |-> WimOutput(arc, image, e.path), dir |-> "directory" \in e.attributes,
                          image |-> image, from |-> Key(WimSource(e.path)), size |-> e.size]
  IN  IF /\ ~arc.split /\ arc.opens /\ \E image \in DOMAIN arc.images : Tree(image) # << >>
         /\ \A image \in DOMAIN arc.images : \A i \in DOMAIN Tree(image) :
              LET e == Tree(image)[i]
              IN  PlainWimEntry(e) /\ ~UncPath(e.path) /\ ValidPath(WimSource(e.path))
      THEN Listed(TRUE, FlattenSeq([image \in DOMAIN arc.images |->
                          [i \in DOMAIN Tree(image) |-> Entry(image, Tree(image)[i])]]))
      ELSE Refused

\* stage_wim_images: the library extracts every image into a private directory,
\* and checks every payload; publish_wim_entries copies from there.
WimReplay(arc, entries) ==
  LET Tree(image) == arc.images[image]
      Staged(e) == CHOOSE f \in Range(Tree(e.image)) : f.depth > 0 /\ Key(WimSource(f.path)) = e.from
  IN  IF \E image \in DOMAIN arc.images : \E i \in DOMAIN Tree(image) :
           "directory" \notin Tree(image)[i].attributes /\ ~Sound(Tree(image)[i])
      THEN <<Fail>>
      ELSE [i \in DOMAIN entries |->
              IF entries[i].dir THEN Dir(entries[i].path)
              ELSE File(entries[i].path, Staged(entries[i]).data,
                        Len(Staged(entries[i]).data) = entries[i].size)]
=============================================================================
