------------------------------- MODULE XarFormat -------------------------------
(***************************************************************************)
(* xar/xar_adapter.cpp: a header, a table of contents in XML and a heap of *)
(* payloads.  The adapter reads the XML tag by tag with a stack of open    *)
(* tags and a stack of the file elements they are in.                      *)
(*                                                                         *)
(* The table is a sequence of tokens: opening tags, closing tags, texts    *)
(* (with their entities decoded) and declarations.  The heap is a sequence *)
(* of bytes.                                                               *)
(***************************************************************************)
EXTENDS ArchiveSteps

MaxDepth == 8              \* kMaxXarXmlDepth

Open(name) == [tag |-> "open", name |-> name, closed |-> FALSE, style |-> ""]
Close(name) == [tag |-> "close", name |-> name]
\* A text, and whether it is a number.
Text(value, number) == [tag |-> "text", value |-> value, number |-> number]
Declaration == [tag |-> "declaration"]

\* A field of a file element is empty until its text has come.
Unset == << >>
NewFile(parent) ==
  [parent |-> parent, name |-> Unset, type |-> Unset, offset |-> Unset, size |-> Unset,
   length |-> Unset, style |-> Unset, inData |-> FALSE]

Begin == [ok |-> TRUE, tags |-> << >>, files |-> << >>, entries |-> << >>]

Bad(s) == [s EXCEPT !.ok = FALSE]
WithTop(s, file) == [s EXCEPT !.files = Append(Front(@), file)]

-----------------------------------------------------------------------------

\* set_xar_file_name: one component that is its own normal form.
PlainName(name) ==
  /\ name # << >> /\ ~\E i \in DOMAIN name : name[i] \in {Slash, Backslash}
  /\ ValidPath(name) /\ Key(name) = name

FullPath(parent, name) == IF parent = << >> THEN name ELSE parent \o <<Slash>> \o name

\* apply_xar_text: a field may be set once, a name and a type outside of the
\* data element and the numbers inside of it.
ApplyText(s, text) ==
  LET tag == Last(s.tags)
      file == Last(s.files)
      expected == IF file.inData THEN {"offset", "size", "length"} ELSE {"name", "type"}
  IN  CASE s.tags = << >> \/ s.files = << >> -> s
        [] s.tags # << >> /\ s.files # << >> /\ tag \notin expected -> s
        [] OTHER ->
           IF /\ file[tag] = Unset
              /\ tag \in {"offset", "size", "length"} => text.number
              /\ tag = "name" => /\ PlainName(text.value)
                                 /\ Len(FullPath(file.parent, text.value)) <= MaxPathBytes
           THEN WithTop(s, [file EXCEPT ![tag] =
                  <<IF tag = "name" THEN FullPath(file.parent, text.value) ELSE text.value>>])
           ELSE Bad(s)

Styles == {"", "zlib"}     \* xar_encoding_from_style: stored, or one of its names for zlib

\* finalize_xar_file: a file comes after the files nested in it.
FinalizeFile(s) ==
  LET file == Last(s.files)
      directory == file.type = <<"directory">>
      style == IF file.style = Unset THEN "" ELSE file.style[1]
      complete == /\ file.name # Unset /\ file.type \in {<<"directory">>, <<"file">>}
                  /\ directory \/ (Unset \notin {file.offset, file.size, file.length} /\ style \in Styles)
  IN  IF s.files = << >> \/ ~complete THEN Bad(s)
      ELSE [s EXCEPT !.files = Front(@),
              !.entries = Append(@,
                IF directory THEN [path |-> file.name[1], dir |-> TRUE]
                ELSE [path |-> file.name[1], dir |-> FALSE, offset |-> file.offset[1],
                      size |-> file.size[1], length |-> file.length[1], style |-> style])]

\* A nested file needs a parent whose name and type have come, and which is a
\* directory.
OpenFile(s) ==
  LET parent == Last(s.files)
  IN  CASE Len(s.files) >= MaxComponents -> Bad(s)
        [] s.files = << >> -> [s EXCEPT !.files = <<NewFile(<< >>)>>]
        [] OTHER -> IF parent.name # Unset /\ parent.type = <<"directory">>
                    THEN [s EXCEPT !.files = Append(@, NewFile(parent.name[1]))]
                    ELSE Bad(s)

\* open_xar_toc_tag
OpenTag(s, token) ==
  LET file == Last(s.files)
      entered ==
        CASE token.name = "file" -> OpenFile(s)
          [] token.name = "data" ->
               IF s.files = << >> THEN Bad(s) ELSE WithTop(s, [file EXCEPT !.inData = ~token.closed])
          [] token.name = "encoding" /\ s.files # << >> /\ file.inData /\ token.style # "" ->
               IF file.style = Unset THEN WithTop(s, [file EXCEPT !.style = <<token.style>>]) ELSE Bad(s)
          [] OTHER -> s
  IN  CASE ~entered.ok -> entered
        [] entered.ok /\ token.closed -> IF token.name = "file" THEN FinalizeFile(entered) ELSE entered
        [] OTHER -> IF Len(s.tags) >= MaxDepth THEN Bad(s)
                    ELSE [entered EXCEPT !.tags = Append(@, token.name)]

\* close_xar_toc_tag
CloseTag(s, token) ==
  LET file == Last(s.files)
      left == CASE token.name = "file" -> FinalizeFile(s)
                [] token.name = "data" ->
                     IF s.files = << >> THEN Bad(s) ELSE WithTop(s, [file EXCEPT !.inData = FALSE])
                [] OTHER -> s
  IN  IF s.tags = << >> \/ Last(s.tags) # token.name THEN Bad(s)
      ELSE [left EXCEPT !.tags = Front(@)]

Token(s, token) ==
  CASE ~s.ok -> s
    [] s.ok /\ token.tag = "open" -> OpenTag(s, token)
    [] s.ok /\ token.tag = "close" -> CloseTag(s, token)
    [] s.ok /\ token.tag = "text" -> ApplyText(s, token)
    [] OTHER -> Bad(s)

\* parse_xar_toc, with the paths that validate_xar_toc_paths looks at.
Parsed(end) ==
  Listed(end.ok /\ end.tags = << >> /\ end.files = << >> /\ end.entries # << >>, end.entries)
ParseToc(tokens) == Parsed(FoldLeft(Token, Begin, tokens))

-----------------------------------------------------------------------------

\* read_xar_header and inflate_zlib_buffer of the table; a table with a checksum
\* is refused.
SoundHeader(arc) == arc.magic /\ arc.version = 1 /\ arc.checksum = "none" /\ arc.tocInflates

\* A zlib stream in the heap, and what mz_inflate returns for one.
Deflate(data) == <<120>> \o data \o <<Crc(data)>>
Inflate(bytes) ==
  LET data == SubSeq(bytes, 2, Len(bytes) - 1)
  IN  IF Len(bytes) >= 2 /\ bytes[1] = 120 /\ Last(bytes) = Crc(data)
      THEN [ok |-> TRUE, data |-> data] ELSE [ok |-> FALSE, data |-> << >>]

\* validate_xar_ranges
SoundRange(arc, e) ==
  /\ e.offset + e.length <= Len(arc.heap)
  /\ e.style = "" => e.length = e.size

\* process_xar_payload, and the comparison with the size
PayloadOf(arc, e) ==
  LET whole == e.offset + e.length <= Len(arc.heap)
      Decoded(bytes) == IF e.style = "" THEN [ok |-> whole, data |-> bytes] ELSE Inflate(bytes)
      Sized(decoded) == [decoded EXCEPT !.ok = whole /\ @ /\ Len(decoded.data) = e.size]
  IN  Sized(Decoded(Slice(arc.heap, e.offset, e.length)))

\* read_xar_metadata and validate_xar_payloads
SoundPayload(arc, e) == e.dir \/ (SoundRange(arc, e) /\ PayloadOf(arc, e).ok)
Verified(arc, toc) ==
  [toc EXCEPT !.ok = /\ SoundHeader(arc) /\ @
                     /\ \A i \in DOMAIN toc.entries : SoundPayload(arc, toc.entries[i])]
XarScan(arc) == Verified(arc, ParseToc(arc.toc))

\* extract_xar
XarReplay(arc, entries) ==
  [i \in DOMAIN entries |->
     LET e == entries[i]
         Delivered(payload) == Asking(File(e.path, payload.data, payload.ok))
     IN  IF e.dir THEN Dir(e.path) ELSE Delivered(PayloadOf(arc, e))]
=============================================================================
