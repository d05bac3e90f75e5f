--------------------------- MODULE ContainerSamples ---------------------------
(***************************************************************************)
(* CPIO, RPM, AR, ARC, ARJ and CAB files to extract, with the truth about  *)
(* them (members, fit, intact) given part by part.                         *)
(***************************************************************************)
EXTENDS SampleNames

CONSTANT MaxParts

Paths == INSTANCE PathSafety
Steps == INSTANCE ArchiveSteps
Cpio == INSTANCE CpioFormat
Ar == INSTANCE ArFormat
Stored == INSTANCE StoredFormats

One(path, data) == <<[path |-> path, dir |-> FALSE, data |-> data]>>
OneDir(path) == <<[path |-> path, dir |-> TRUE, data |-> << >>]>>

\* The sequences of parts, and what a sequence holds.
Some(Parts) == UNION {[1 .. n -> Parts] : n \in 0 .. MaxParts}
Records(parts) == [i \in DOMAIN parts |-> parts[i].record]
Members(parts) == FlattenSeq([i \in DOMAIN parts |-> parts[i].members])
Fit(parts) == (\A i \in DOMAIN parts : parts[i].fit) /\ Paths!OneTree(Members(parts))
Intact(parts) == \A i \in DOMAIN parts : parts[i].intact

-----------------------------------------------------------------------------
(* CPIO and RPM *)

CpioPart(record, members, fit) == [record |-> record, members |-> members, fit |-> fit, intact |-> TRUE]
CpioFile(path, data) == [Cpio!Record(path, "regular", data) EXCEPT !.magic = "070702", !.check = Cpio!Sum(data)]

CpioParts == {
  CpioPart(Cpio!Record(a, "regular", <<1>>), One(a, <<1>>), TRUE),
  CpioPart(CpioFile(ab, <<2, 3>>), One(ab, <<2, 3>>), TRUE),
  CpioPart(Cpio!Record(A, "dir", << >>), OneDir(A), TRUE),
  CpioPart(Cpio!Record(aDashC, "regular", << >>), One(aDashC, << >>), TRUE),
  CpioPart(Cpio!Record(up, "regular", << >>), << >>, FALSE),
  CpioPart(Cpio!Record(c, "symlink", <<97>>), << >>, FALSE),
  CpioPart([Cpio!Record(c, "regular", <<4>>) EXCEPT !.nlink = 2], << >>, FALSE),
  CpioPart(Cpio!Record(c, "dir", <<4>>), << >>, FALSE),
  CpioPart([CpioFile(c, <<5>>) EXCEPT !.check = 0], << >>, FALSE),
  CpioPart([Cpio!Record(c, "regular", <<5>>) EXCEPT !.nul = FALSE], << >>, FALSE)
}

CpioEnd == Cpio!Record(Cpio!Trailer, "none", << >>)

\* Behind the trailer nothing is read; without one the archive is cut.
CpioEnds == {[records |-> <<CpioEnd>>, fit |-> TRUE],
             [records |-> <<CpioEnd, Cpio!Record(up, "regular", << >>)>>, fit |-> TRUE],
             [records |-> <<Cpio!Short>>, fit |-> FALSE]}

CpioArchives ==
  {[format |-> "cpio", records |-> Records(parts) \o end.records, layer |-> layer,
    intact |-> intact, early |-> TRUE, members |-> Members(parts), fit |-> Fit(parts) /\ end.fit] :
     parts \in Some(CpioParts), end \in CpioEnds, layer \in {"none", "gzip"}, intact \in BOOLEAN}

CpioForeign == {arc \in CpioArchives : arc.layer = "none" => arc.intact}

CpioCreated ==
  {[format |-> "cpio", records |-> Cpio!WriteStream(manifest), layer |-> layer, intact |-> TRUE,
    early |-> TRUE, members |-> manifest, fit |-> TRUE] :
     manifest \in {m \in Manifests : Cpio!Writable(m)}, layer \in {"none", "gzip"}}

\* A package around some of them: the header may name the compression, or
\* another one, or none.
RpmPackages ==
  {[format |-> "rpm", lead |-> lead, signature |-> [sound |-> TRUE],
    header |-> [sound |-> TRUE, format |-> "cpio", compressor |-> named], payload |-> [arc EXCEPT !.layer = layer],
    members |-> arc.members, intact |-> arc.intact, early |-> TRUE,
    fit |-> arc.fit /\ lead /\ (IF layer = "unknown" THEN FALSE ELSE named \in {"", layer})] :
     arc \in {x \in CpioArchives : x.layer = "gzip" /\ Len(x.records) <= 2},
     lead \in BOOLEAN, named \in {"", "gzip", "xz", "rot13"}, layer \in {"gzip", "xz", "unknown"}}

-----------------------------------------------------------------------------
(* AR *)

\* The table holds "a-c/\n" and, behind it, "c\n" without the slash.
Table == aDashC \o <<Paths!Slash, 10>> \o c \o <<10>>
ArMember(name, bytes) == [magic |-> TRUE, name |-> name, size |-> Len(bytes), bytes |-> bytes]
ArPart(record, members, fit) == [record |-> record, members |-> members, fit |-> fit, intact |-> TRUE]

ArParts == {
  ArPart(ArMember(Ar!ShortName(a \o <<Paths!Slash>>), <<1, 2>>), One(a, <<1, 2>>), TRUE),
  ArPart(ArMember(Ar!ShortName(A), <<3>>), One(A, <<3>>), TRUE),
  ArPart(ArMember(Ar!BsdName(3), ab \o <<4>>), One(ab, <<4>>), TRUE),
  ArPart(ArMember(Ar!BsdName(1), b), One(b, << >>), TRUE),
  ArPart(ArMember(Ar!SymbolName, <<9, 9>>), << >>, TRUE),
  ArPart(ArMember(Ar!BsdName(3), <<97>>), << >>, FALSE),
  ArPart(ArMember(Ar!ShortName(up), << >>), << >>, FALSE),
  ArPart(ArMember(Ar!GnuName(7), << >>), << >>, FALSE),
  ArPart([ArMember(Ar!ShortName(c), <<5>>) EXCEPT !.magic = FALSE], << >>, FALSE)
}

\* An archive may start with a string table and members that need it.
ArTables == {
  << >>,
  <<ArPart(ArMember(Ar!TableName, Table), << >>, TRUE),
    ArPart(ArMember(Ar!GnuName(0), <<6>>), One(aDashC, <<6>>), TRUE),
    ArPart(ArMember(Ar!GnuName(5), <<7>>), One(c, <<7>>), TRUE)>>
}

ArForeign ==
  {[format |-> "ar", magic |-> magic, cut |-> cut, members |-> Members(table \o parts),
    records |-> Records(table \o parts), intact |-> TRUE, early |-> TRUE,
    fit |-> Fit(table \o parts) /\ magic /\ ~cut] :
     table \in ArTables, parts \in Some(ArParts),
     magic \in BOOLEAN, cut \in BOOLEAN}

\* A cut one has something to cut, and a bad magic is met with one member.
ArCut ==
  {arc \in ArForeign : (arc.cut => arc.records # << >>) /\ (arc.magic \/ Len(arc.records) <= 1)}

ArCreated ==
  {[format |-> "ar", magic |-> TRUE, cut |-> FALSE, records |-> Ar!WriteArchive(manifest),
    members |-> SelectSeq(manifest, LAMBDA m : ~m.dir), intact |-> TRUE, early |-> TRUE, fit |-> TRUE] :
     manifest \in {m \in Manifests : Ar!Writable(m)}}

ArSubstitutes ==
  {[format |-> "ar", magic |-> TRUE, cut |-> FALSE, records |-> Ar!WriteArchive(One(c, <<11, 12>>)),
    members |-> One(c, <<11, 12>>), intact |-> TRUE, early |-> TRUE, fit |-> TRUE]}

-----------------------------------------------------------------------------
(* ARC and ARJ *)

Checked(method, name, data) ==
  [method |-> method, name |-> name, packed |-> Len(data), size |-> Len(data),
   crc |-> Steps!Crc(data), data |-> data, sum |-> TRUE, flags |-> {}, type |-> "binary"]

StoredPart(record, members, fit, intact) ==
  [record |-> record, members |-> members, fit |-> fit, intact |-> intact]

\* What a member may be, where method names the two ways to store it.
StoredParts(method, other) == {
  StoredPart(Checked(method, a, <<1, 2>>), One(a, <<1, 2>>), TRUE, TRUE),
  StoredPart(Checked(other, A, <<3>>), One(A, <<3>>), TRUE, TRUE),
  StoredPart(Checked(method, ab, << >>), One(ab, << >>), TRUE, TRUE),
  StoredPart(Checked(method, aDashC, <<4>>), One(aDashC, <<4>>), TRUE, TRUE),
  StoredPart([Checked(method, c, <<5>>) EXCEPT !.data = <<6>>], One(c, <<5>>), TRUE, FALSE),
  StoredPart([Checked(method, c, <<5>>) EXCEPT !.size = 2], << >>, FALSE, TRUE),
  StoredPart(Checked("crunched", c, <<5>>), << >>, FALSE, TRUE),
  StoredPart(Checked(method, up, <<5>>), << >>, FALSE, TRUE),
  StoredPart(Stored!Broken, << >>, FALSE, TRUE)
}

ArjOnly == {
  StoredPart([Checked("stored", A, << >>) EXCEPT !.type = "dir"], OneDir(A), TRUE, TRUE),
  StoredPart([Checked("stored", c, <<5>>) EXCEPT !.type = "dir"], << >>, FALSE, TRUE),
  StoredPart([Checked("stored", c, <<5>>) EXCEPT !.flags = {"encrypted"}], << >>, FALSE, TRUE),
  StoredPart([Checked("stored", c, <<5>>) EXCEPT !.sum = FALSE], << >>, FALSE, TRUE)
}

\* ARC: the end marker is the last thing, and there is something before it.
ArcArchives ==
  {[format |-> "arc", records |-> Records(parts) \o end, members |-> Members(parts),
    intact |-> Intact(parts), early |-> TRUE, fit |-> Fit(parts) /\ end = <<Stored!End>>] :
     parts \in Some(StoredParts("new", "old")),
     end \in {<<Stored!End>>, << >>, <<Stored!End, Checked("new", b, <<7>>)>>}}

\* ARJ: a main header comes first, and what follows the end is not read.
ArjMain == [Checked("stored", c, << >>) EXCEPT !.type = "comment"]

ArjArchives ==
  {[format |-> "arj", records |-> <<main>> \o Records(parts) \o end, members |-> Members(parts),
    intact |-> Intact(parts), early |-> TRUE,
    fit |-> Fit(parts) /\ main = ArjMain /\ end # << >>] :
     main \in {ArjMain, Checked("stored", c, << >>), [ArjMain EXCEPT !.flags = {"volume"}]},
     parts \in {p \in Some(StoredParts("stored", "stored") \cup ArjOnly) :
                  \A i \in DOMAIN p : p[i].record # Stored!End},
     end \in {<<Stored!End>>, << >>, <<Stored!End, Checked("stored", b, <<7>>)>>}}

\* A bad main header is met with one entry.
ArjMet == {arc \in ArjArchives : arc.records[1] = ArjMain \/ Len(arc.records) <= 2}

-----------------------------------------------------------------------------
(* CAB *)

Folder(compression, intact) ==
  [compression |-> compression, blocks |-> <<[end |-> 5, intact |-> TRUE], [end |-> 9, intact |-> intact]>>]
CabFile(name, folder, data) == [name |-> name, folder |-> folder, size |-> Len(data), data |-> data]

CabLists == {
  << >>,
  <<CabFile(a, 1, <<1>>)>>,
  <<CabFile(ab, 1, <<1, 2>>), CabFile(aDashC, 2, << >>)>>,
  <<CabFile(c, 2, <<3>>), CabFile(b, 2, <<4>>)>>,
  <<CabFile(a, 1, <<1>>), CabFile(A, 1, <<2>>)>>,
  <<CabFile(up, 1, <<1>>)>>,
  <<CabFile(c, 3, <<1>>)>>
}

CabFolders == {
  << >>,
  <<Folder("mszip", TRUE), Folder("none", TRUE)>>,
  <<Folder("lzx", TRUE), Folder("mszip", FALSE)>>,
  <<Folder("none", TRUE), Folder("rle", TRUE)>>,
  <<Folder("none", TRUE), [compression |-> "none", blocks |-> << >>]>>
}

CabMembers(files) ==
  [i \in DOMAIN files |-> [path |-> files[i].name, dir |-> FALSE, data |-> files[i].data]]

Cabinets ==
  {[format |-> "cab", version |-> version, spanned |-> spanned, declared |-> declared, bytes |-> 9,
    folders |-> folders, files |-> files, members |-> CabMembers(files), early |-> TRUE,
    intact |-> \A i \in DOMAIN files : files[i].folder \in DOMAIN folders =>
                 \A k \in DOMAIN folders[files[i].folder].blocks : folders[files[i].folder].blocks[k].intact,
    fit |-> /\ version = 3 /\ ~spanned /\ (declared = 9 \/ (declared = 8 /\ folders = << >>))
            /\ \A i \in DOMAIN folders :
                 folders[i].compression # "rle" /\ (files # << >> => folders[i].blocks # << >>)
            /\ \A i \in DOMAIN files : files[i].folder \in DOMAIN folders
            /\ Paths!OneTree(CabMembers(files))] :
     version \in {2, 3}, spanned \in BOOLEAN, declared \in {8, 9, 10}, folders \in CabFolders, files \in CabLists}

Containers ==
  CpioForeign \cup CpioCreated \cup RpmPackages \cup ArCut \cup ArCreated
  \cup ArcArchives \cup ArjMet \cup Cabinets
=============================================================================
