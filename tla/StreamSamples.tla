---------------------------- MODULE StreamSamples ----------------------------
(***************************************************************************)
(* Files of the formats that hold one stream, to extract: those that       *)
(* SuperZip writes, and good and broken ones of other programs, with the   *)
(* truth about them.  None of them publishes before the end is verified,   *)
(* so nothing of a broken one may appear.                                  *)
(***************************************************************************)
EXTENDS SampleNames

CONSTANT MaxParts

Text == INSTANCE TextFormats
Stream == INSTANCE StreamFormats

con == <<99, 111, 110>>         \* a name that Windows reserves

\* A sample: what it is, and the fields that its reader looks at.
Sample(format, path, data, fit, intact, fields) ==
  [format |-> format, early |-> TRUE, fit |-> fit, intact |-> intact,
   members |-> IF fit /\ intact THEN <<[path |-> path, dir |-> FALSE, data |-> data]>> ELSE << >>]
  @@ fields

Written(format, path, data, fields) == Sample(format, path, data, TRUE, TRUE, fields)
UpTo(Parts, least) == UNION {[1 .. n -> Parts] : n \in least .. MaxParts}
Datas == {Sized(n) : n \in 0 .. 8}

-----------------------------------------------------------------------------
(* UUencode, XXEncode, Base64 *)

Junk == Text!TextLine(<<Text!BadCode, 1>>)
Line(data) == Text!TextLine(<<Len(data)>> \o Text!Encode(data))
Zero == Text!TextLine(<<0>>)

Heads == {
  [lines |-> <<Text!BeginLine(a)>>, fit |-> TRUE],
  [lines |-> <<Junk, Text!BlankLine, Text!BeginLine(a)>>, fit |-> TRUE],
  [lines |-> <<Text!EmptyLine, Junk, Text!EmptyLine, Text!BeginLine(a)>>, fit |-> FALSE],
  [lines |-> <<Text!BeginLine(up)>>, fit |-> FALSE],
  [lines |-> <<[Text!BeginLine(a) EXCEPT !.octal = FALSE]>>, fit |-> FALSE] }

Bodies == {
  [line |-> Line(<<1, 2, 3>>), data |-> <<1, 2, 3>>, good |-> TRUE],
  [line |-> Line(<<255>>), data |-> <<255>>, good |-> TRUE],
  [line |-> [Line(<<4, 5>>) EXCEPT !.tail = "space"], data |-> <<4, 5>>, good |-> TRUE],
  [line |-> [Line(<<6>>) EXCEPT !.tail = "junk"], data |-> << >>, good |-> FALSE],
  [line |-> [Line(<<6>>) EXCEPT !.codes = Append(@, 0)], data |-> << >>, good |-> FALSE],
  [line |-> [Line(<<6>>) EXCEPT !.codes[1] = 4], data |-> << >>, good |-> FALSE],
  [line |-> Junk, data |-> << >>, good |-> FALSE] }

Tails == {
  [lines |-> <<Zero, Text!EndLine>>, good |-> TRUE],
  [lines |-> <<Text!BlankLine, Text!EndLine, Text!EmptyLine, Text!BlankLine>>, good |-> TRUE],
  [lines |-> <<Text!EndLine>>, good |-> FALSE],
  [lines |-> <<Zero>>, good |-> FALSE],
  [lines |-> <<Zero, Text!EndLine, Line(<<7>>)>>, good |-> FALSE],
  [lines |-> << >>, good |-> FALSE] }

\* Two lines between a good begin and a good end, and one or none elsewhere.
UueTexts == {x \in Heads \X UpTo(Bodies, 0) \X Tails : Len(x[2]) = 2 => x[1].fit /\ x[3].good}

UueFile(format, head, body, tail) ==
  Sample(format, a, FlattenSeq([i \in DOMAIN body |-> body[i].data]), head.fit,
         tail.good /\ \A i \in DOMAIN body : body[i].good,
         [lines |-> head.lines \o [i \in DOMAIN body |-> body[i].line] \o tail.lines])

UueFiles ==
  {UueFile(format, x[1], x[2], x[3]) : format \in {"uue", "xxe"}, x \in UueTexts}
  \cup {Written(format, a, data, [lines |-> Text!WriteUue(a, data)]) :
          format \in {"uue", "xxe"}, data \in Datas}

\* Text that stands alone, and wrapped text with a name that is coded or not.
Tokens == {
  [codes |-> Text!EncodePadded(<<1, 2, 3>>), data |-> <<1, 2, 3>>, good |-> TRUE],
  [codes |-> Text!EncodePadded(<<1, 2>>), data |-> <<1, 2>>, good |-> TRUE],
  [codes |-> Text!EncodePadded(<<1>>), data |-> <<1>>, good |-> TRUE],
  [codes |-> Text!EncodePadded(<<1>>) \o <<5, 5, 5, 5>>, data |-> << >>, good |-> FALSE],
  [codes |-> <<1, Text!Pad, 2, Text!Pad>>, data |-> << >>, good |-> FALSE],
  [codes |-> <<1, 2, 3>>, data |-> << >>, good |-> FALSE],
  [codes |-> <<1, 2, Text!BadCode, 3>>, data |-> << >>, good |-> FALSE] }

Wrappings == {
  [lines |-> << >>, path |-> c, fit |-> TRUE, end |-> << >>, ended |-> TRUE],
  [lines |-> <<Text!BeginLine(a)>>, path |-> a, fit |-> TRUE, end |-> <<Text!Trailer>>, ended |-> TRUE],
  [lines |-> <<Text!EmptyLine, Text!BeginLine(a)>>, path |-> a, fit |-> TRUE,
   end |-> <<Text!Trailer, Text!EmptyLine>>, ended |-> TRUE],
  [lines |-> <<[Text!BeginLine(Text!EncodePadded(a)) EXCEPT !.encoded = TRUE]>>, path |-> a, fit |-> TRUE,
   end |-> <<Text!Trailer>>, ended |-> TRUE],
  [lines |-> <<[Text!BeginLine(<<1, 2, 3>>) EXCEPT !.encoded = TRUE]>>, path |-> a, fit |-> FALSE,
   end |-> <<Text!Trailer>>, ended |-> TRUE],
  [lines |-> <<Text!BeginLine(up)>>, path |-> a, fit |-> FALSE, end |-> <<Text!Trailer>>, ended |-> TRUE],
  [lines |-> <<Text!BeginLine(a)>>, path |-> a, fit |-> TRUE, end |-> << >>, ended |-> FALSE],
  [lines |-> <<Text!BeginLine(a)>>, path |-> a, fit |-> TRUE,
   end |-> <<Text!Trailer, Junk>>, ended |-> FALSE] }

Base64Files ==
  {Sample("base64", w.path, token.data, w.fit, w.ended /\ token.good,
          [name |-> c \o <<46, 120>>, lines |-> w.lines \o <<Text!TextLine(token.codes)>> \o w.end]) :
     w \in Wrappings, token \in Tokens}
  \cup {Written("base64", a, data, [name |-> c, lines |-> Text!WriteBase64(a, data)]) : data \in Datas}

-----------------------------------------------------------------------------
(* BinHex and MacBinary *)

Escaped(bytes) ==
  FlattenSeq([i \in DOMAIN bytes |-> IF bytes[i] = Text!Marker THEN <<Text!Marker, 0>> ELSE <<bytes[i]>>])

HqxCodes(raw) == SubSeq(Text!Encode(raw), 1, (4 * Len(raw) + 2) \div 3)
Hqx(raw) == [started |-> TRUE, codes |-> HqxCodes(raw), closed |-> TRUE, clean |-> TRUE]

\* Four bytes that are alike, as one and a count.
Run == Text!HqxHeader(a, <<5, 5, 5, 5>>, << >>)
RunBytes ==
  Run \o <<Text!ForkCrc(Run), 5, Text!Marker, 4,
           Text!ForkCrc(<<5, 5, 5, 5>>), Text!ForkCrc(<< >>)>>

HqxGood ==
  {Written("hqx", a, data, Hqx(Escaped(Text!HqxBytes(a, data, resource)))) :
     data \in {<< >>, <<1, 2>>, <<Text!Marker, 3>>}, resource \in {<< >>, <<9>>}}
  \cup {Written("hqx", a, <<5, 5, 5, 5>>, Hqx(Escaped(Run) \o SubSeq(RunBytes, Len(Run) + 1, Len(RunBytes))))}

HqxOf(bytes, fit, fields) == Sample("hqx", a, << >>, fit, FALSE, fields @@ Hqx(Escaped(bytes)))

HqxBytesOf == Text!HqxBytes(a, <<1, 2>>, <<9>>)
At(n, value) == [HqxBytesOf EXCEPT ![n] = value]

HqxBad == {
  HqxOf(HqxBytesOf, FALSE, [started |-> FALSE]),
  HqxOf(HqxBytesOf, TRUE, [closed |-> FALSE]),
  HqxOf(HqxBytesOf, TRUE, [clean |-> FALSE]),
  HqxOf(HqxBytesOf, TRUE, [codes |-> Append(HqxCodes(Escaped(HqxBytesOf)), Text!BadCode)]),
  HqxOf(At(6, 0), FALSE, << >>),
  HqxOf(At(8, 7), TRUE, << >>),
  HqxOf(At(Len(HqxBytesOf), 0), TRUE, << >>),
  HqxOf(Append(HqxBytesOf, 0), TRUE, << >>),
  HqxOf(SubSeq(HqxBytesOf, 1, Len(HqxBytesOf) - 1), TRUE, << >>),
  HqxOf(Text!HqxBytes(up, <<1>>, << >>), FALSE, << >>) }

MacBlocks(n) == [i \in 1 .. 4 * n |-> 100 + i]

Mac(header, fit, bytes) ==
  Sample("macbinary", a, <<101, 102, 103>>, fit, TRUE,
         header @@ [header |-> TRUE, zeroes |-> TRUE, signed |-> FALSE, versioned |-> TRUE, crc |-> TRUE,
                    name |-> a, secondary |-> 0, data |-> 3, resource |-> 0, comment |-> 0, bytes |-> bytes])

MacFiles == {
  Mac(<< >>, TRUE, MacBlocks(1)),
  Mac(<< >>, TRUE, SubSeq(MacBlocks(1), 1, 3)),
  Mac([secondary |-> 2], TRUE, <<7, 7, 0, 0>> \o MacBlocks(1)),
  Mac([resource |-> 2, comment |-> 1], TRUE, MacBlocks(3)),
  Mac([versioned |-> FALSE, crc |-> FALSE], TRUE, MacBlocks(1)),
  Mac([resource |-> 2], FALSE, MacBlocks(1)),
  Mac([comment |-> 5, resource |-> 4], FALSE, MacBlocks(3)),
  Mac([data |-> 5], FALSE, MacBlocks(1)),
  Mac([secondary |-> 5], FALSE, MacBlocks(2)),
  Mac([crc |-> FALSE], FALSE, MacBlocks(1)),
  Mac([zeroes |-> FALSE], FALSE, MacBlocks(1)),
  Mac([signed |-> TRUE], FALSE, MacBlocks(1)),
  Mac([name |-> <<97, 58>>], FALSE, MacBlocks(1)),
  Mac([name |-> up], FALSE, MacBlocks(1)),
  Mac([name |-> << >>], FALSE, MacBlocks(1)),
  Mac([header |-> FALSE], FALSE, << >>) }

-----------------------------------------------------------------------------
(* Gzip, Bzip2, XZ, Zstandard *)

\* The optional fields of a gzip header and their length in bytes.
GzFields == {
  [extra |-> << >>, strings |-> << >>, headerCrc |-> FALSE, length |-> 0],
  [extra |-> <<2>>, strings |-> <<1, 0>>, headerCrc |-> TRUE, length |-> 9],
  [extra |-> << >>, strings |-> <<3>>, headerCrc |-> FALSE, length |-> 4] }

\* The sizes of the input and of the output buffer.
Buffers == {<<1, 1>>, <<2, 1>>, <<1, 2>>, <<3, 2>>}
Tiny == <<2, 1>>

GzBytes(data, fields, more, buffers) ==
  [Stream!WriteGzip(data, buffers) EXCEPT !.extra = fields.extra, !.strings = fields.strings,
     !.headerCrc = fields.headerCrc, !.bytes = @ + fields.length + more]

GzFile(file, fit, intact, data, gz, buffers) ==
  Sample("gzip", a, data, fit, intact, [name |-> file, gz |-> gz, buffers |-> buffers])
ac == <<1, 2, 3, 4, 5>>
GzOfAc == Stream!WriteGzip(ac, Tiny)

GzipFiles ==
  {GzFile(a \o Stream!Gz, TRUE, more = 0, data, GzBytes(data, fields, more, buffers), buffers) :
     data \in {<< >>, ac}, fields \in GzFields, more \in {-1, 0, 1}, buffers \in Buffers}
  \cup {GzFile(a \o Stream!Gz, TRUE, FALSE, ac, gz, Tiny) :
          gz \in {[GzOfAc EXCEPT !.crc = @ + 1], [GzOfAc EXCEPT !.isize = 5], [GzOfAc EXCEPT !.coded.sound = FALSE]}}
  \cup {GzFile(a \o Stream!Gz, FALSE, TRUE, ac, gz, Tiny) :
          gz \in {[GzOfAc EXCEPT !.magic = FALSE], [GzOfAc EXCEPT !.reserved = TRUE],
                  [GzOfAc EXCEPT !.strings = <<0, 9>>], [GzOfAc EXCEPT !.extra = <<4>>]}}
  \cup {GzFile(con \o Stream!Gz, FALSE, TRUE, ac, GzOfAc, Tiny), GzFile(a, TRUE, TRUE, ac, GzOfAc, Tiny)}

Bzip2Files ==
  {Sample("bzip2", a, data, TRUE, sound /\ more = 0,
          [name |-> a \o Stream!Bz2, coded |-> [Stream!WriteBzip2(data, buffers) EXCEPT !.sound = sound],
           bytes |-> Len(data) + 1 + more, buffers |-> buffers]) :
     data \in {<< >>, <<1, 2>>, ac}, sound \in BOOLEAN, more \in {-1, 0, 1}, buffers \in Buffers}

\* Frames of two bytes and more: cutting one byte off leaves a part.
Frames == {Stream!Coded(<<1>>), Stream!Coded(<<2, 3>>), [Stream!Coded(<< >>) EXCEPT !.length = 2],
           [Stream!Coded(<<4>>) EXCEPT !.sound = FALSE]}

FramedFiles(format, suffixes) ==
  {Sample(format, a, FlattenSeq([i \in DOMAIN parts |-> parts[i].data]), TRUE,
          parts # << >> /\ end = "whole" /\ \A i \in DOMAIN parts : parts[i].sound,
          [name |-> a \o suffix, parts |-> parts, cut |-> end = "cut", junk |-> end = "junk", buffers |-> buffers]) :
     parts \in UpTo(Frames, 0), end \in {"whole", "cut", "junk"}, suffix \in suffixes, buffers \in Buffers}
  \cup {Written(format, a, data, [name |-> a \o suffix, cut |-> FALSE, junk |-> FALSE, buffers |-> Tiny,
                                  parts |-> Stream!WriteZstd(data, Len(data), Tiny)]) :
          data \in Datas, suffix \in suffixes}

-----------------------------------------------------------------------------
(* Lzip, LZMA, Unix Compress *)

LzipGood == {Stream!LzipMember(<<1, 2>>), Stream!LzipMember(<< >>)}
LzipBad ==
  LET m == Stream!LzipMember(<<1, 2>>)
  IN  {[m EXCEPT !.magic = FALSE], [m EXCEPT !.version = 0], [m EXCEPT !.dictionary = FALSE],
       [m EXCEPT !.coded.marked = FALSE], [m EXCEPT !.crc = @ + 1], [m EXCEPT !.size = @ - 1],
       [m EXCEPT !.total = @ + 1]}

\* One bad member at most, and the second name with one member.
LzipParts == {parts \in UpTo(LzipGood \cup LzipBad, 0) : Len(parts) = 2 => Range(parts) \cap LzipGood # {}}

LzipFile(name, path, parts, cut, buffers) ==
  Sample("lzip", path, FlattenSeq([i \in DOMAIN parts |-> parts[i].coded.data]), TRUE,
         /\ parts # << >> /\ ~cut
         /\ \A i \in DOMAIN parts : parts[i] \in LzipGood
         /\ \A i \in DOMAIN parts : i < Len(parts) => parts[i].coded.data # << >>,
         [name |-> name, parts |-> parts, cut |-> cut, junk |-> FALSE, buffers |-> buffers])

LzipFiles ==
  {LzipFile(a \o Stream!Lz, a, parts, cut, buffers) :
     parts \in LzipParts, cut \in BOOLEAN, buffers \in {<<3, 1>>, <<4, 2>>}}
  \cup {LzipFile(c \o Stream!Tlz, c \o Stream!TarSuffix, <<part>>, FALSE, Tiny) : part \in LzipGood \cup LzipBad}

\* The declared size, whether an end mark follows the two bytes, and how much of
\* the three coded bytes is there.
LzmaCases == {
  [declared |-> Stream!UnknownSize, marked |-> TRUE, sound |-> TRUE, bytes |-> 3, data |-> <<1, 2>>, good |-> TRUE],
  [declared |-> Stream!UnknownSize, marked |-> FALSE, sound |-> TRUE, bytes |-> 3, data |-> << >>, good |-> FALSE],
  [declared |-> Stream!UnknownSize, marked |-> TRUE, sound |-> TRUE, bytes |-> 4, data |-> << >>, good |-> FALSE],
  [declared |-> Stream!UnknownSize, marked |-> TRUE, sound |-> FALSE, bytes |-> 3, data |-> << >>, good |-> FALSE],
  [declared |-> 2, marked |-> FALSE, sound |-> TRUE, bytes |-> 3, data |-> <<1, 2>>, good |-> TRUE],
  [declared |-> 2, marked |-> TRUE, sound |-> TRUE, bytes |-> 5, data |-> <<1, 2>>, good |-> TRUE],
  [declared |-> 2, marked |-> TRUE, sound |-> TRUE, bytes |-> 1, data |-> << >>, good |-> FALSE],
  [declared |-> 1, marked |-> TRUE, sound |-> TRUE, bytes |-> 3, data |-> <<1>>, good |-> TRUE],
  [declared |-> 3, marked |-> TRUE, sound |-> TRUE, bytes |-> 3, data |-> << >>, good |-> FALSE],
  [declared |-> 0, marked |-> FALSE, sound |-> TRUE, bytes |-> 0, data |-> << >>, good |-> TRUE] }

LzmaFiles ==
  {Sample("lzma", a, x.data, header /\ properties, x.good,
          [name |-> a \o Stream!Lzma, header |-> header, properties |-> properties, declared |-> x.declared,
           bytes |-> x.bytes,
           coded |-> [Stream!Coded(<<1, 2>>) EXCEPT !.marked = x.marked, !.sound = x.sound]]) :
     x \in LzmaCases, header \in BOOLEAN, properties \in BOOLEAN}

\* Texts that repeat and texts that do not, long enough for all widths.
Texts ==
  {[i \in 1 .. n |-> (i * i + k * i) % 8] : n \in 0 .. 40, k \in 0 .. 2} \cup UNION {[1 .. n -> {0, 7}] : n \in 1 .. 5}

ZBits(bits) ==
  [name |-> a \o Stream!Z, magic |-> TRUE, reserved |-> FALSE, block |-> TRUE,
   maxBits |-> Stream!MaxWidth, bits |-> bits]

ZWritten(data) == Written("z", a, data, ZBits(Stream!WriteZ(data)))

\* What SuperZip writes and gives back whole, and what it does not.
ZCreated == {ZWritten(data) : data \in {text \in Texts : ~Stream!LosesTail(text)}}
ZLost == {ZWritten(data) : data \in {text \in Texts : Stream!LosesTail(text)}}

Code(n) == Stream!Bits(n, Stream!InitialWidth)
Skipped(n) == Stream!Zeros(n)

ZForeign == {
  Sample("z", a, <<1, 2>>, TRUE, TRUE, ZBits(Code(1) \o Code(2))),
  Sample("z", a, <<1, 2>>, TRUE, TRUE, [block |-> FALSE] @@ ZBits(Code(1) \o Code(2))),
  \* the code that the reader defines next; in front of a CLEAR up to the boundary
  Sample("z", a, <<1, 1, 1>>, TRUE, TRUE, ZBits(Code(1) \o Code(Stream!FirstBlockCode))),
  Sample("z", a, <<1, 1, 1>>, TRUE, TRUE, [block |-> FALSE] @@ ZBits(Code(1) \o Code(Stream!Clear))),
  Sample("z", a, <<1, 2>>, TRUE, TRUE, ZBits(Code(1) \o Code(Stream!Clear) \o Skipped(7) \o Code(2))),
  Sample("z", a, << >>, TRUE, TRUE, ZBits(<< >>)),
  Sample("z", a, << >>, TRUE, FALSE, ZBits(Code(Stream!Clear))),
  Sample("z", a, << >>, TRUE, FALSE, ZBits(Code(1) \o Code(Stream!FirstBlockCode + 1))),
  Sample("z", a, << >>, FALSE, TRUE, [magic |-> FALSE] @@ ZBits(Code(1))),
  Sample("z", a, << >>, FALSE, TRUE, [reserved |-> TRUE] @@ ZBits(Code(1))),
  Sample("z", a, << >>, FALSE, TRUE, [maxBits |-> Stream!MaxWidth + 1] @@ ZBits(Code(1))),
  Sample("z", a, << >>, FALSE, TRUE, [maxBits |-> Stream!InitialWidth - 1] @@ ZBits(Code(1))) }

Streams ==
  UueFiles \cup Base64Files \cup HqxGood \cup HqxBad \cup MacFiles \cup GzipFiles \cup Bzip2Files
    \cup FramedFiles("xz", {Stream!Xz}) \cup FramedFiles("zstd", {Stream!Zst, Stream!Zstd})
    \cup LzipFiles \cup LzmaFiles \cup ZCreated \cup ZForeign
=============================================================================
