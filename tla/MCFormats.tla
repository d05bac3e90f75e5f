------------------------------- MODULE MCFormats -------------------------------
(***************************************************************************)
(* The extraction of archives of all formats, on small archives.  Good     *)
(* files that SuperZip does not serve are left out here and are checked in *)
(* MCFormatGaps: .Z files whose last code SuperZip has written too narrow, *)
(* and archives in which a text line is found before their signature.  If  *)
(* that line begins a whole BinHex file which ends the archive, its reader *)
(* takes the archive; no module has such a file.                           *)
(***************************************************************************)
EXTENDS ContainerJob
CONSTANT MaxParts

Paths == INSTANCE ArchiveSteps
Tar == INSTANCE TarSamples
Box == INSTANCE ContainerSamples
Image == INSTANCE ImageSamples
One == INSTANCE StreamSamples

-----------------------------------------------------------------------------
(* What the files look like to the detection *)

Looks(name, start) == [name |-> name, start |-> start, marks |-> {}, lines |-> << >>, footer |-> FALSE]
If(sound, start) == IF sound THEN start ELSE "none"

Layered == [none |-> << >>, gzip |-> <<"gz">>, bzip2 |-> <<"bz2">>, xz |-> <<"xz">>, lzip |-> <<"lz">>, zstd |-> <<"zst">>]
Signature == [none |-> "none", gzip |-> "1F8B", bzip2 |-> "BZh", xz |-> "FD7zXZ", lzip |-> "LZIP", zstd |-> "28B52FFD"]
Suffixed(name, suffix, parts) == IF IsSuffix(suffix, name) THEN parts ELSE << >>

\* A line of XXEncode that is full or empty starts with h or +.
LineKind(s, line) ==
  CASE line.kind = "begin" /\ s.format = "base64" -> "base64"
    [] line.kind = "begin" /\ s.format # "base64" /\ line.octal -> "begin"
    [] line.kind = "text" /\ s.format = "xxe" /\ Head(line.codes) \in {0, One!Text!LineBytes} -> "h"
    [] OTHER -> "text"
Lines(s, name) == [Looks(name, "none") EXCEPT !.lines = [i \in DOMAIN s.lines |-> LineKind(s, s.lines[i])]]

Usual(s) ==
  CASE s.format = "tar" -> [Looks(<<"tar">> \o Layered[s.layer], Signature[s.layer]) EXCEPT
                              !.marks = IF s.layer = "none" THEN {"ustar"} ELSE {}]
    [] s.format = "cpio" -> Looks(<<"cpio">> \o Layered[s.layer], IF s.layer = "none" THEN "0707" ELSE "1F8B")
    [] s.format = "rpm" -> Looks(<<"rpm">>, If(s.lead, "EDABEEDB"))
    [] s.format = "ar" -> Looks(<<"ar">>, If(s.magic, "!<arch>"))
    [] s.format = "arc" -> Looks(<<"arc">>, "1A")
    [] s.format = "arj" -> Looks(<<"arj">>, "60EA")
    [] s.format = "cab" -> Looks(<<"cab">>, "MSCF")
    [] s.format = "zip" -> Looks(<<"zip">>, "PK")
    [] s.format = "7z" -> Looks(<<"7z">>, "7zBCAF")
    [] s.format = "lha" -> [Looks(<<"lzh">>, "none") EXCEPT !.marks = {"-lh"}]
    [] s.format = "wim" -> Looks(<<IF s.split THEN "swm" ELSE "wim">>, "MSWIM")
    [] s.format = "iso" -> [Looks(<<"iso">>, "none") EXCEPT !.marks = {"CD001"}]
    [] s.format = "xar" -> Looks(<<"xar">>, "xar!")
    [] s.format = "uue" -> Lines(s, <<"uue">>)
    [] s.format = "xxe" -> Lines(s, <<"xxe">>)
    [] s.format = "base64" -> Lines(s, <<"b64">>)
    [] s.format = "hqx" -> [Looks(<<"hqx">>, "none") EXCEPT !.lines = IF s.started THEN <<"text", "binhex">> ELSE << >>]
    [] s.format = "macbinary" -> [Looks(<<"macbin">>, "none") EXCEPT !.marks = IF s.fit THEN {"macbinary"} ELSE {}]
    [] s.format = "gzip" -> Looks(Suffixed(s.name, One!Stream!Gz, <<"gz">>), If(s.gz.magic, "1F8B"))
    [] s.format = "bzip2" -> Looks(<<"bz2">>, "BZh")
    [] s.format = "xz" -> Looks(<<"xz">>, "FD7zXZ")
    [] s.format = "zstd" -> Looks(<<"zst">>, "28B52FFD")
    [] s.format = "lzip" -> Looks(IF IsSuffix(One!Stream!Tlz, s.name) THEN <<"tlz">> ELSE <<"lz">>, "LZIP")
    [] s.format = "lzma" -> Looks(<<"lzma">>, "none")
    [] s.format = "z" -> Looks(<<"z">>, If(s.magic, "1F9D"))

MCFace(s) == IF "face" \in DOMAIN s THEN s.face ELSE Usual(s)
Renamed(s, name) == [face |-> [Usual(s) EXCEPT !.name = name]] @@ s
Holding(s, line) == [face |-> [Usual(s) EXCEPT !.lines = <<"text", line>>]] @@ s

\* Names that say something else than the bytes, or nothing; other names of the
\* same formats; text inside that looks like another format, in ZIP archives only,
\* whose signature comes before it.
Odd ==
  LET TarOf(layer) == {x \in Tar!TarCreated : x.layer = layer /\ Len(x.members) = 1}
      CpioOf(layer) == {x \in Box!CpioCreated : x.layer = layer /\ Len(x.members) = 1}
      Ar == {x \in Box!ArCreated : Len(x.members) = 1}
      Zipped == {x \in Image!ZipCreated : Len(x.members) = 1}
      Text(format) == {x \in One!UueFiles : x.format = format /\ x.fit /\ x.intact /\ x.lines[1].kind = "begin"}
  IN  {Renamed(s, name) : s \in TarOf("none"), name \in {<< >>, <<"zip">>, <<"tar", "old">>}}
      \cup {Renamed(s, <<"tzst">>) : s \in TarOf("zstd")}
      \cup {Renamed(s, <<"cpgz">>) : s \in CpioOf("gzip")} \cup {Renamed(s, <<"gz">>) : s \in CpioOf("none")}
      \cup {Renamed(s, name) : s \in Ar, name \in {<<"deb">>, <<"tar">>}}
      \cup {Renamed(s, name) : s \in Zipped, name \in {<< >>, <<"zipx">>, <<"b64">>}}
      \cup {Holding(s, line) : s \in Zipped, line \in {"base64", "binhex", "begin"}}
      \cup {[Renamed(s, <<"docx">>) EXCEPT !.fit = FALSE] : s \in Zipped}
      \cup {Renamed(s, << >>) : s \in Text("uue")}
      \cup {Renamed(s, << >>) : s \in {x \in Text("xxe") : Usual(x).lines[2] = "h"}}

MCSources == Odd \cup Tar!TarCreated \cup Tar!TarForeign \cup Box!Containers \cup Image!Images \cup One!Streams

-----------------------------------------------------------------------------
(* The readers *)

\* The reader that knows the format of a source.
Own(s) ==
  CASE s.format = "tar" -> [none |-> "tar", gzip |-> "tar.gz", zstd |-> "tar.zst"][s.layer]
    [] s.format = "cpio" -> [none |-> "cpio", gzip |-> "cpio.gz"][s.layer]
    [] s.format = "base64" -> "b64"
    [] s.format = "gzip" -> "gz"
    [] s.format = "bzip2" -> "bz2"
    [] s.format = "zstd" -> "zst"
    [] s.format = "lzip" -> "lz"
    [] OTHER -> s.format

\* An lzip stream that is no archive has to be asked for if its name says so.
MCRequests(s) == IF s.format = "lzip" /\ MCFace(s).name = <<"tlz">> THEN {"lzip"} ELSE {"auto"}

Read(s) ==
  CASE s.format = "tar" -> Tar!TarScan(s)
    [] s.format = "cpio" -> Box!Cpio!CpioScan(s)
    [] s.format = "rpm" -> Box!Cpio!RpmScan(s)
    [] s.format = "ar" -> Box!Ar!ArScan(s)
    [] s.format = "arc" -> Box!Stored!ArcScan(s.records)
    [] s.format = "arj" -> Box!Stored!ArjScan(s.records)
    [] s.format = "cab" -> Box!Stored!CabScan(s)
    [] s.format = "zip" -> Image!Lib!ZipScan(s)
    [] s.format = "7z" -> Image!Lib!SevenZipScan(s)
    [] s.format = "lha" -> Image!Lib!LhaScan(s)
    [] s.format = "wim" -> Image!Lib!WimScan(s)
    [] s.format = "iso" -> Image!Iso!IsoScan(s)
    [] s.format = "xar" -> Image!Xar!XarScan(s)
    [] s.format = "uue" -> One!Text!UueScan(s)
    [] s.format = "xxe" -> One!Text!UueScan(s)
    [] s.format = "base64" -> One!Text!Base64Scan(s)
    [] s.format = "hqx" -> One!Text!HqxScan(s)
    [] s.format = "macbinary" -> One!Text!MacScan(s)
    [] s.format = "gzip" -> One!Stream!GzipScan(s)
    [] s.format = "bzip2" -> One!Stream!Bzip2Scan(s)
    [] s.format = "xz" -> One!Stream!XzScan(s)
    [] s.format = "zstd" -> One!Stream!ZstdScan(s)
    [] s.format = "lzip" -> One!Stream!LzipScan(s)
    [] s.format = "lzma" -> One!Stream!LzmaScan(s)
    [] s.format = "z" -> One!Stream!ZScan(s)

\* No reader takes a file of another format.  The reader of Base64 refuses the
\* archives of MCFormatGaps only in its second pass, at the first character that
\* is none of its alphabet; here the first pass stands for both.
MCScan(by, s) == IF by = Own(s) THEN Paths!Accepted(Read(s)) ELSE Paths!Refused

MCReplay(by, s, entries) ==
  CASE by # Own(s) -> <<Paths!Fail>>
    [] s.format = "tar" -> Tar!TarReplay(s, entries)
    [] s.format = "cpio" -> Box!Cpio!CpioReplay(s, entries)
    [] s.format = "rpm" -> Box!Cpio!RpmReplay(s, entries)
    [] s.format = "ar" -> Box!Ar!ArReplay(s, entries)
    [] s.format = "arc" -> Box!Stored!ArcReplay(s.records, entries)
    [] s.format = "arj" -> Box!Stored!ArjReplay(s.records, entries)
    [] s.format = "cab" -> Box!Stored!CabReplay(s, entries)
    [] s.format = "zip" -> Image!Lib!ZipReplay(s, entries)
    [] s.format = "7z" -> Image!Lib!SevenZipReplay(s, entries)
    [] s.format = "lha" -> Image!Lib!LhaReplay(s, entries)
    [] s.format = "wim" -> Image!Lib!WimReplay(s, entries)
    [] s.format = "iso" -> Image!Iso!IsoReplay(s, entries)
    [] s.format = "xar" -> Image!Xar!XarReplay(s, entries)
    [] s.format = "uue" -> One!Text!UueReplay(s, entries)
    [] s.format = "xxe" -> One!Text!UueReplay(s, entries)
    [] s.format = "base64" -> One!Text!Base64Replay(s, entries)
    [] s.format = "hqx" -> One!Text!HqxReplay(s, entries)
    [] s.format = "macbinary" -> One!Text!MacReplay(s, entries)
    [] s.format = "gzip" -> One!Stream!GzipReplay(s, entries)
    [] s.format = "bzip2" -> One!Stream!Bzip2Replay(s, entries)
    [] s.format = "xz" -> One!Stream!XzReplay(s, entries)
    [] s.format = "zstd" -> One!Stream!ZstdReplay(s, entries)
    [] s.format = "lzip" -> One!Stream!LzipReplay(s, entries)
    [] s.format = "lzma" -> One!Stream!LzmaReplay(s, entries)
    [] s.format = "z" -> One!Stream!ZReplay(s, entries)

\* Good archives that hold something else than the ones they replace.
MCSubstitutes == Tar!TarSubstitutes \cup Box!ArSubstitutes

MCPlace(path) == Paths!Components(Paths!Fold(path))

MCIntruded == {<<Tar!A>>, <<Tar!c>>}
=============================================================================
