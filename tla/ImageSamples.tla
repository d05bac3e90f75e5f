----------------------------- MODULE ImageSamples -----------------------------
(***************************************************************************)
(* ISO, XAR, ZIP, 7z, LHA and WIM files to extract, with the truth about   *)
(* them given part by part.                                                *)
(***************************************************************************)
EXTENDS SampleNames

CONSTANT MaxParts

Paths == INSTANCE PathSafety
Steps == INSTANCE ArchiveSteps
Iso == INSTANCE IsoFormat
Xar == INSTANCE XarFormat
Lib == INSTANCE LibraryFormats

Member(path, data) == [path |-> path, dir |-> FALSE, data |-> data]
Folder(path) == [path |-> path, dir |-> TRUE, data |-> << >>]

\* A part of an archive: what stands in the file, what it means, and whether it
\* is one that a reader may accept and can decode.
Part(record, members, fit, intact) ==
  [record |-> record, members |-> members, fit |-> fit, intact |-> intact]
Some(Parts) == UNION {[1 .. n -> Parts] : n \in 0 .. MaxParts}
Records(parts) == [i \in DOMAIN parts |-> parts[i].record]
Members(parts) == FlattenSeq([i \in DOMAIN parts |-> parts[i].members])
Fit(parts) == (\A i \in DOMAIN parts : parts[i].fit) /\ Paths!OneTree(Members(parts))
Intact(parts) == \A i \in DOMAIN parts : parts[i].intact

-----------------------------------------------------------------------------
(* ZIP *)

ZipFile(name, data) ==
  [name |-> name, utf8 |-> TRUE, supported |-> TRUE, dir |-> FALSE, size |-> Len(data),
   crc |-> Steps!Crc(data), data |-> data]

ZipParts == {
  Part(ZipFile(a, <<1, 2>>), <<Member(a, <<1, 2>>)>>, TRUE, TRUE),
  Part([ZipFile(A \o <<47>>, << >>) EXCEPT !.dir = TRUE], <<Folder(A)>>, TRUE, TRUE),
  Part(ZipFile(ab, << >>), <<Member(ab, << >>)>>, TRUE, TRUE),
  Part(ZipFile(aDashC, <<3>>), <<Member(aDashC, <<3>>)>>, TRUE, TRUE),
  Part(ZipFile(<<195, 169>>, <<4>>), <<Member(<<195, 169>>, <<4>>)>>, TRUE, TRUE),
  Part([ZipFile(<<130>>, <<4>>) EXCEPT !.utf8 = FALSE], <<Member(<<2130>>, <<4>>)>>, TRUE, TRUE),
  Part([ZipFile(c, <<5>>) EXCEPT !.crc = 0], <<Member(c, <<5>>)>>, TRUE, FALSE),
  Part([ZipFile(c, <<5>>) EXCEPT !.size = 2], <<Member(c, <<5>>)>>, TRUE, FALSE),
  Part(ZipFile(<<130>>, <<5>>), << >>, FALSE, TRUE),
  Part(ZipFile(<<97, 0, 98>>, <<5>>), << >>, FALSE, TRUE),
  Part([ZipFile(c, <<5>>) EXCEPT !.supported = FALSE], << >>, FALSE, TRUE),
  Part(ZipFile(up, <<5>>), << >>, FALSE, TRUE)
}

\* Whether a payload is good shows only when it is extracted.
ZipForeign ==
  {[format |-> "zip", opens |-> opens, files |-> Records(parts), members |-> Members(parts),
    fit |-> opens /\ Fit(parts), intact |-> Intact(parts), early |-> FALSE] :
     opens \in BOOLEAN, parts \in Some(ZipParts)}

ZipCreated ==
  {[format |-> "zip", opens |-> Lib!ZipWrite(manifest).opens, files |-> Lib!ZipWrite(manifest).files,
    members |-> manifest, fit |-> TRUE, intact |-> TRUE, early |-> FALSE] : manifest \in Manifests}

-----------------------------------------------------------------------------
(* 7z *)

SevenZipFile(name, data) ==
  [name |-> name \o <<0>>, dir |-> FALSE, windows |-> {}, posix |-> "none", size |-> Len(data),
   crc |-> Steps!Crc(data), data |-> data]

SevenZipParts == {
  Part(SevenZipFile(a, <<1, 2>>), <<Member(a, <<1, 2>>)>>, TRUE, TRUE),
  Part([SevenZipFile(A, << >>) EXCEPT !.dir = TRUE, !.posix = "dir"], <<Folder(A)>>, TRUE, TRUE),
  Part([SevenZipFile(ab, <<3>>) EXCEPT !.posix = "regular"], <<Member(ab, <<3>>)>>, TRUE, TRUE),
  \* U+00E9, U+20AC and U+1F600, the last as a surrogate pair
  Part(SevenZipFile(<<233>>, << >>), <<Member(<<195, 169>>, << >>)>>, TRUE, TRUE),
  Part(SevenZipFile(<<8364>>, <<4>>), <<Member(<<226, 130, 172>>, <<4>>)>>, TRUE, TRUE),
  Part(SevenZipFile(<<55357, 56832>>, <<4>>), <<Member(<<240, 159, 152, 128>>, <<4>>)>>, TRUE, TRUE),
  Part(SevenZipFile(<<55357, 97>>, <<4>>), << >>, FALSE, TRUE),
  Part(SevenZipFile(<<56832>>, <<4>>), << >>, FALSE, TRUE),
  Part(SevenZipFile(up, << >>), << >>, FALSE, TRUE),
  Part([SevenZipFile(c, <<5>>) EXCEPT !.posix = "symlink"], << >>, FALSE, TRUE),
  Part([SevenZipFile(c, <<5>>) EXCEPT !.windows = {"reparse"}], << >>, FALSE, TRUE),
  Part([SevenZipFile(c, <<5>>) EXCEPT !.crc = 0], <<Member(c, <<5>>)>>, TRUE, FALSE)
}

SevenZipArchives ==
  {[format |-> "7z", opens |-> opens, files |-> Records(parts), members |-> Members(parts),
    fit |-> opens /\ Fit(parts), intact |-> Intact(parts), early |-> TRUE] :
     opens \in BOOLEAN, parts \in Some(SevenZipParts)}

-----------------------------------------------------------------------------
(* LHA *)

LhaFile(path, name, data) ==
  [method |-> "lh5", link |-> FALSE, path |-> path, name |-> name, size |-> Len(data),
   crc |-> Steps!Crc(data), data |-> data]

LhaParts == {
  Part(LhaFile(<< >>, a, <<1, 2>>), <<Member(a, <<1, 2>>)>>, TRUE, TRUE),
  Part(LhaFile(a \o <<47>>, b, <<3>>), <<Member(ab, <<3>>)>>, TRUE, TRUE),
  Part(LhaFile(c, b, << >>), <<Member(c \o <<47>> \o b, << >>)>>, TRUE, TRUE),
  Part([LhaFile(A \o <<47>>, << >>, << >>) EXCEPT !.method = "dir"], <<Folder(A)>>, TRUE, TRUE),
  Part([LhaFile(<< >>, c, << >>) EXCEPT !.link = TRUE], << >>, FALSE, TRUE),
  Part(LhaFile(<<46, 46, 47>>, a, << >>), << >>, FALSE, TRUE),
  Part([LhaFile(<< >>, c, <<5>>) EXCEPT !.crc = 0], <<Member(c, <<5>>)>>, TRUE, FALSE),
  Part([LhaFile(<< >>, c, <<5>>) EXCEPT !.size = 2], <<Member(c, <<5>>)>>, TRUE, FALSE)
}

\* The library does not tell a broken header from the end: what stands behind
\* either is not part of the archive for any reader that uses it.
LhaEnds == {<< >>, <<[method |-> "end"]>>, <<[method |-> "broken"], LhaFile(<< >>, up, << >>)>>}

LhaArchives ==
  {[format |-> "lha", records |-> Records(parts) \o end, members |-> Members(parts),
    fit |-> parts # << >> /\ Fit(parts), intact |-> Intact(parts), early |-> TRUE] :
     parts \in Some(LhaParts), end \in LhaEnds}

-----------------------------------------------------------------------------
(* WIM *)

WimFile(path, data) ==
  [depth |-> 1, path |-> path, attributes |-> {}, links |-> 1, streams |-> 0, missing |-> FALSE,
   size |-> Len(data), crc |-> Steps!Crc(data), data |-> data]
WimRoot == [WimFile(<<92>>, << >>) EXCEPT !.depth = 0, !.attributes = {"directory"}]

WimParts == {
  Part(WimFile(<<92>> \o a, <<1, 2>>), <<Member(a, <<1, 2>>)>>, TRUE, TRUE),
  Part(WimFile(<<92, 97, 92, 98>>, <<3>>), <<Member(ab, <<3>>)>>, TRUE, TRUE),
  Part([WimFile(<<92>> \o A, << >>) EXCEPT !.attributes = {"directory"}], <<Folder(A)>>, TRUE, TRUE),
  Part(WimFile(<<92, 92>> \o c, << >>), << >>, FALSE, TRUE),
  Part([WimFile(<<92>> \o c, << >>) EXCEPT !.attributes = {"reparse"}], << >>, FALSE, TRUE),
  Part([WimFile(<<92>> \o c, << >>) EXCEPT !.links = 2], << >>, FALSE, TRUE),
  Part([WimFile(<<92>> \o c, <<5>>) EXCEPT !.missing = TRUE], << >>, FALSE, TRUE),
  Part([WimFile(<<92>> \o c, <<5>>) EXCEPT !.crc = 0], <<Member(c, <<5>>)>>, TRUE, FALSE)
}

\* The members of the second image, below a directory of their own.
Under(image, members) ==
  [i \in DOMAIN members |-> [members[i] EXCEPT !.path = Lib!ImagePrefix(image) \o @]]

OneImage ==
  {[format |-> "wim", split |-> split, opens |-> opens, images |-> <<<<WimRoot>> \o Records(parts)>>,
    members |-> Members(parts), fit |-> ~split /\ opens /\ parts # << >> /\ Fit(parts),
    intact |-> Intact(parts), early |-> TRUE] :
     split \in BOOLEAN, opens \in BOOLEAN, parts \in Some(WimParts)}

TwoImages ==
  {[format |-> "wim", split |-> FALSE, opens |-> TRUE,
    images |-> <<<<WimRoot>> \o Records(parts), <<WimRoot>> \o Records(more)>>,
    members |-> Under(1, Members(parts)) \o Under(2, Members(more)),
    fit |-> parts \o more # << >> /\ Fit(parts) /\ Fit(more), intact |-> Intact(parts \o more), early |-> TRUE] :
     parts \in UNION {[1 .. n -> WimParts] : n \in 0 .. 1}, more \in UNION {[1 .. n -> WimParts] : n \in 0 .. 1}}

NoImage == {[format |-> "wim", split |-> FALSE, opens |-> TRUE, images |-> << >>, members |-> << >>,
             fit |-> FALSE, intact |-> TRUE, early |-> TRUE]}

WimArchives == OneImage \cup TwoImages \cup NoImage

-----------------------------------------------------------------------------
(* ISO: sectors of two units; the root takes sectors 0 and 1, a directory   *)
(* sector 2, and two bytes sector 3                                         *)

IsoFile(name, length) == Iso!Record(name, FALSE, 3, length)
Content == <<Iso!Byte(1), Iso!Byte(2)>>

IsoParts(sub) == {
  Part(IsoFile(a \o <<59, 49>>, 2), <<Member(a, <<1, 2>>)>>, TRUE, TRUE),
  Part(IsoFile(c \o <<59>>, 0), <<Member(c \o <<59>>, << >>)>>, TRUE, TRUE),
  Part(IsoFile(A \o <<46>>, 1), <<Member(A, <<1>>)>>, TRUE, TRUE),
  Part(Iso!Record(<<0>>, TRUE, 0, 4), << >>, TRUE, TRUE),
  Part(Iso!Record(a, TRUE, 2, 2), <<Folder(a)>> \o sub.members, sub.fit, TRUE),
  Part(IsoFile(<<46, 46, 59, 49>>, 1), << >>, FALSE, TRUE),
  Part(IsoFile(ab, 1), << >>, FALSE, TRUE),
  Part(IsoFile(<<46>>, 1), << >>, FALSE, TRUE),
  Part(IsoFile(b, 3), << >>, FALSE, TRUE),
  Part([IsoFile(b, 1) EXCEPT !.agree = FALSE], << >>, FALSE, TRUE),
  Part([IsoFile(b, 1) EXCEPT !.plain = FALSE], << >>, FALSE, TRUE),
  Part(Iso!Record(b, TRUE, 2, 0), << >>, FALSE, TRUE),
  Part(Iso!Record(b, TRUE, 1, 2), << >>, FALSE, TRUE)
}

\* What the directory in sector 2 holds: a file, or itself.
IsoSubs == {
  [units |-> <<IsoFile(b, 1), Iso!ZeroUnit>>, members |-> <<Member(ab, <<1>>)>>, fit |-> TRUE],
  [units |-> <<Iso!ZeroUnit, IsoFile(up, 1)>>, members |-> << >>, fit |-> TRUE],
  [units |-> <<Iso!Record(<<1>>, TRUE, 0, 4), Iso!Record(c, TRUE, 2, 2)>>, members |-> << >>, fit |-> FALSE]
}

\* Two records in the root, in one sector or in two.
IsoRoots(p, q) == {
  [units |-> <<p.record, q.record, Iso!ZeroUnit, Iso!ZeroUnit>>, parts |-> <<p, q>>],
  [units |-> <<p.record, Iso!ZeroUnit, q.record, Iso!ZeroUnit>>, parts |-> <<p, q>>],
  [units |-> <<Iso!ZeroUnit, p.record, q.record, Iso!ZeroUnit>>, parts |-> <<q>>]
}

IsoRoot == Iso!Record(<<0>>, TRUE, 0, 4)
Descriptor(type, standard) == [type |-> type, standard |-> standard, root |-> IsoRoot]
IsoDescriptors == {
  [list |-> <<Descriptor("boot", TRUE), Descriptor("primary", TRUE), Descriptor("terminator", TRUE)>>, fit |-> TRUE],
  [list |-> <<Descriptor("terminator", FALSE), Descriptor("primary", TRUE)>>, fit |-> TRUE],
  [list |-> <<Descriptor("terminator", TRUE), Descriptor("primary", TRUE)>>, fit |-> FALSE]
}

IsoImages ==
  UNION {UNION {
    {[format |-> "iso", descriptors |-> d.list, units |-> root.units \o sub.units \o Content,
      members |-> Members(root.parts), fit |-> d.fit /\ Fit(root.parts), intact |-> TRUE, early |-> TRUE] :
       d \in {x \in IsoDescriptors : x.fit \/ p = q}, root \in IsoRoots(p, q)} :
     p \in IsoParts(sub), q \in IsoParts(sub)} : sub \in IsoSubs}

-----------------------------------------------------------------------------
(* XAR *)

Element(name, value, number) == <<Xar!Open(name), Xar!Text(value, number), Xar!Close(name)>>
Number(name, value) == Element(name, value, TRUE)
Name(name) == Element("name", name, FALSE)
Type(type) == Element("type", type, FALSE)
InFile(tokens) == <<Xar!Open("file")>> \o tokens \o <<Xar!Close("file")>>

Data(offset, length, size, style) ==
  <<Xar!Open("data")>> \o Number("offset", offset) \o Number("length", length)
  \o <<[Xar!Open("encoding") EXCEPT !.closed = TRUE, !.style = style]>> \o Number("size", size)
  \o <<Xar!Close("data")>>
XarFile(name, offset, length, size, style) ==
  InFile(Name(name) \o Type("file") \o Data(offset, length, size, style))

\* Two bytes as they are, and one compressed.
Heap == <<1, 2>> \o Xar!Deflate(<<3>>)

XarParts == {
  Part(XarFile(a, 0, 2, 2, ""), <<Member(a, <<1, 2>>)>>, TRUE, TRUE),
  Part(XarFile(c, 2, 3, 1, "zlib"), <<Member(c, <<3>>)>>, TRUE, TRUE),
  Part(XarFile(aDashC, 5, 0, 0, ""), <<Member(aDashC, << >>)>>, TRUE, TRUE),
  Part(InFile(Name(A) \o Type("directory") \o XarFile(b, 1, 1, 1, "")),
       <<Member(A \o <<47>> \o b, <<2>>), Folder(A)>>, TRUE, TRUE),
  Part(InFile(Name(A) \o XarFile(b, 1, 1, 1, "") \o Type("directory")), << >>, FALSE, TRUE),
  Part(InFile(Name(a) \o Type("file") \o XarFile(b, 1, 1, 1, "") \o Data(0, 1, 1, "")), << >>, FALSE, TRUE),
  Part(InFile(Name(a) \o Name(b) \o Type("directory")), << >>, FALSE, TRUE),
  Part(InFile(Name(ab) \o Type("directory")), << >>, FALSE, TRUE),
  Part(InFile(Name(c) \o Type("symlink")), << >>, FALSE, TRUE),
  Part(InFile(Name(c)), << >>, FALSE, TRUE),
  Part(InFile(Name(c) \o Type("file")), << >>, FALSE, TRUE),
  Part(InFile(Name(c) \o Type("file") \o Number("offset", 0)), << >>, FALSE, TRUE),
  Part(XarFile(b, 2, 4, 4, ""), << >>, FALSE, TRUE),
  Part(XarFile(b, 0, 2, 1, ""), << >>, FALSE, TRUE),
  Part(XarFile(b, 0, 1, 1, "lzma"), << >>, FALSE, TRUE),
  Part(XarFile(b, 0, 2, 1, "zlib"), <<Member(b, <<3>>)>>, TRUE, FALSE),
  Part(XarFile(b, 2, 3, 2, "zlib"), <<Member(b, <<3>>)>>, TRUE, FALSE),
  Part(<<Xar!Declaration>>, << >>, FALSE, TRUE),
  Part(<<Xar!Open("file")>> \o Name(b), << >>, FALSE, TRUE)
}

XarArchive(checksum, inflates, parts) ==
  [format |-> "xar", magic |-> TRUE, version |-> 1, checksum |-> checksum, tocInflates |-> inflates,
   toc |-> <<Xar!Open("xar")>> \o Element("checksum", 0, TRUE) \o FlattenSeq(Records(parts)) \o <<Xar!Close("xar")>>,
   heap |-> Heap, members |-> Members(parts),
   fit |-> /\ checksum = "none" /\ inflates /\ Fit(parts)
           /\ \E i \in DOMAIN parts : parts[i].record # <<Xar!Declaration>>,
   intact |-> Intact(parts), early |-> TRUE]

\* A broken table of contents is met with one part in it.
XarArchives ==
  {XarArchive("none", TRUE, parts) : parts \in Some(XarParts)}
  \cup {XarArchive(x[1], x[2], <<part>>) :
           x \in {<<"sha1", TRUE>>, <<"none", FALSE>>}, part \in XarParts}

Images == ZipForeign \cup ZipCreated \cup SevenZipArchives \cup LhaArchives \cup WimArchives
          \cup IsoImages \cup XarArchives
=============================================================================
