--------------------------- MODULE FormatDetection ---------------------------
(***************************************************************************)
(* core/archive_format.cpp: which reader an archive is given to.  A name   *)
(* decides for formats inside of a compressed stream, which start like any *)
(* other file of that stream, and the first bytes decide before the name   *)
(* for all others.                                                         *)
(*                                                                         *)
(* A file, as the detection looks at it:                                   *)
(*   name   the parts of its name behind the dots, in lower case           *)
(*   start  the signature that its first bytes are, or "none"              *)
(*   marks  the signatures at other fixed places                           *)
(*   lines  the text lines of its first bytes: "begin", "base64", "h" for  *)
(*          one that starts with h or +, "binhex" with a colon behind it,  *)
(*          "text" for all others                                          *)
(*   footer the last bytes are a footer of .suzip that leads to an index   *)
(***************************************************************************)
EXTENDS Integers, Sequences, SequencesExt, TLC

\* The first rule that applies, a pair of a condition and a format.
FirstOf(rules, default) ==
  LET applying == SelectSeq(rules, LAMBDA rule : rule[1])
  IN  IF applying = << >> THEN default ELSE Head(applying)[2]

Ends(f, name) ==
  Len(name) <= Len(f.name) /\ SubSeq(f.name, Len(f.name) - Len(name) + 1, Len(f.name)) = name

\* has_excluded_zip_container_extension
Excluded(f) ==
  \E x \in {"docx", "pptx", "xlsx", "odt", "ods", "odp", "jar", "war", "ear", "apk", "ipa", "xpi", "cbz"} :
    Ends(f, <<x>>)

\* kExtensionFormats: the double names come first.
ExtensionFormats == <<
  <<<<"suzip">>, "suzip">>, <<<<"zip">>, "zip">>, <<<<"zipx">>, "zipx">>, <<<<"7z">>, "7z">>, <<<<"rar">>, "rar">>,
  <<<<"tar", "gz">>, "tar.gz">>, <<<<"tgz">>, "tar.gz">>, <<<<"tar", "bz2">>, "tar.bz2">>,
  <<<<"tbz">>, "tar.bz2">>, <<<<"tbz2">>, "tar.bz2">>, <<<<"tar", "xz">>, "tar.xz">>, <<<<"txz">>, "tar.xz">>,
  <<<<"tar", "lz">>, "tar.lz">>, <<<<"tlz">>, "tar.lz">>, <<<<"tar", "zst">>, "tar.zst">>, <<<<"tzst">>, "tar.zst">>,
  <<<<"cpio", "gz">>, "cpio.gz">>, <<<<"cpgz">>, "cpio.gz">>, <<<<"tar">>, "tar">>, <<<<"gz">>, "gz">>,
  <<<<"z">>, "z">>, <<<<"b64">>, "b64">>, <<<<"bz2">>, "bz2">>, <<<<"xz">>, "xz">>, <<<<"lzma">>, "lzma">>,
  <<<<"lz">>, "lz">>, <<<<"zst">>, "zst">>, <<<<"zstd">>, "zst">>, <<<<"cab">>, "cab">>, <<<<"iso">>, "iso">>,
  <<<<"cpio">>, "cpio">>, <<<<"ar">>, "ar">>, <<<<"arj">>, "arj">>, <<<<"arc">>, "arc">>, <<<<"ark">>, "arc">>,
  <<<<"hqx">>, "hqx">>, <<<<"macbin">>, "macbinary">>, <<<<"xxe">>, "xxe">>, <<<<"uue">>, "uue">>, <<<<"uu">>, "uue">>,
  <<<<"lha">>, "lha">>, <<<<"lzh">>, "lha">>, <<<<"wim">>, "wim">>, <<<<"swm">>, "swm">>, <<<<"xar">>, "xar">>,
  <<<<"deb">>, "deb">>, <<<<"rpm">>, "rpm">> >>

\* detect_by_extension
ByExtension(f) ==
  FirstOf([i \in DOMAIN ExtensionFormats |->
             <<Ends(f, ExtensionFormats[i][1]), ExtensionFormats[i][2]>>], "unknown")

\* has_xxe_begin_line: without the name, the line behind the first begin line
\* decides, which has the length of a full line, or of none.
XxeBegins(f) ==
  LET i == SelectInSeq(f.lines, LAMBDA line : line = "begin")
  IN  i > 0 /\ (Ends(f, <<"xxe">>) \/ (i < Len(f.lines) /\ f.lines[i + 1] = "h"))

HasLine(f, kind) == \E i \in DOMAIN f.lines : f.lines[i] = kind

\* detect_stream_magic: a line anywhere counts as much as a signature.
StreamRules(f) == <<
  <<f.start = "1F8B", "gz">>,
  <<f.start = "1F9D", "z">>,
  <<HasLine(f, "base64"), "b64">>,
  <<HasLine(f, "binhex"), "hqx">>,
  <<"macbinary" \in f.marks, "macbinary">>,
  <<f.start = "BZh", "bz2">>,
  <<f.start = "FD7zXZ", "xz">>,
  <<f.start = "LZIP", IF Ends(f, <<"tar", "lz">>) \/ Ends(f, <<"tlz">>) THEN "tar.lz" ELSE "lz">>,
  <<f.start = "28B52FFD", "zst">> >>

\* detect_by_magic
MagicRules(f) ==
  <<<<f.start = "PK", IF Ends(f, <<"zipx">>) THEN "zipx" ELSE "zip">>,
    <<f.start = "7zBCAF", "7z">>,
    <<f.start = "Rar!", "rar">>>>
  \o StreamRules(f) \o
  <<<<f.start = "MSCF", "cab">>,
    <<f.start = "0707", "cpio">>,
    <<f.start = "60EA", "arj">>,
    <<f.start = "1A" /\ (Ends(f, <<"arc">>) \/ Ends(f, <<"ark">>)), "arc">>,
    <<"-lh" \in f.marks, "lha">>,
    <<f.start = "MSWIM", IF Ends(f, <<"swm">>) THEN "swm" ELSE "wim">>,
    <<f.start = "xar!", "xar">>,
    <<f.start = "EDABEEDB", "rpm">>,
    <<f.start = "!<arch>", IF Ends(f, <<"deb">>) THEN "deb" ELSE "ar">>,
    <<"ustar" \in f.marks, "tar">>,
    <<"CD001" \in f.marks, "iso">>,
    <<XxeBegins(f), "xxe">>,
    <<HasLine(f, "begin"), "uue">>>>

Inside == {"tar.gz", "tar.bz2", "tar.xz", "tar.lz", "tar.zst", "cpio.gz"}

\* detect_archive_format
Detect(f) ==
  IF Excluded(f) THEN "unknown"
  ELSE IF f.footer THEN "suzip"
  ELSE IF ByExtension(f) \in Inside THEN ByExtension(f)
  ELSE FirstOf(MagicRules(f), ByExtension(f))

\* kFormatRegistry, reject_unsupported_cli_format
Extractable(format) == format \notin {"unknown", "rar", "swm"}

\* extract_by_format: some formats share a reader.
Reader(format) ==
  CASE format \in {"zip", "zipx"} -> "zip"
    [] format \in {"ar", "deb"} -> "ar"
    [] OTHER -> format

\* parse_archive_format_token: the other names that a user may give a format.
Aliases == ("tgz" :> "tar.gz") @@ ("tbz" :> "tar.bz2") @@ ("tbz2" :> "tar.bz2") @@ ("txz" :> "tar.xz") @@
  ("tlz" :> "tar.lz") @@ ("tzst" :> "tar.zst") @@ ("cpgz" :> "cpio.gz") @@ ("zstd" :> "zst") @@ ("gzip" :> "gz") @@
  ("bzip2" :> "bz2") @@ ("lzip" :> "lz") @@ ("compress" :> "z") @@ ("unix-compress" :> "z") @@ ("base64" :> "b64") @@
  ("lzh" :> "lha") @@ ("binhex" :> "hqx") @@ ("binhex4" :> "hqx") @@ ("binhex40" :> "hqx") @@
  ("macbin" :> "macbinary") @@ ("xxencode" :> "xxe") @@ ("uu" :> "uue") @@ ("uuencode" :> "uue") @@ ("ark" :> "arc")

Named(token) == IF token \in DOMAIN Aliases THEN Aliases[token] ELSE token
=============================================================================
