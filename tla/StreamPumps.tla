----------------------------- MODULE StreamPumps -----------------------------
(***************************************************************************)
(* The stream buffers of gzip_stream.cpp, bzip2_stream.cpp, xz_stream.cpp, *)
(* zstd_stream.cpp and lzip_stream.cpp: loops that read a file block by    *)
(* block, call the decoder of a library with what is left of a block and   *)
(* an output buffer, and have to tell from its answers when the stream has *)
(* ended.  Blocks end anywhere: inside a header, a trailer or a mark, and  *)
(* one byte before the end of the file.                                    *)
(*                                                                         *)
(* One turn of a loop is a function on the state of a reader:              *)
(*   left, avail  the bytes not read yet, and those left of the block      *)
(*   part, lib    the part that is decoded, and its decoder                *)
(*   out          the bytes that underflow has handed out                  *)
(*   end          "no", "finished" or "failed", which fill_output keeps    *)
(***************************************************************************)
EXTENDS ArchiveSteps

-----------------------------------------------------------------------------
(* The libraries *)

\* What a coder makes of data: one byte for each and one for the end.
Coded(data) == [data |-> data, length |-> Len(data) + 1, sound |-> TRUE, marked |-> TRUE]

\* What is found behind the last part is no stream of the format.
Garbage == [data |-> << >>, length |-> 1, sound |-> FALSE, marked |-> FALSE]

Fresh == [used |-> 0, given |-> 0, status |-> "ok"]

\* A call of a decoder takes input ahead of its output, but not the end before
\* all output has been given.
LibDecode(coded, lib, bytes, room) ==
  LET body  == Min({lib.used + bytes, coded.length - 1})
      given == Min({body, Len(coded.data), lib.given + room})
      ends  == coded.sound /\ coded.marked /\ given = Len(coded.data) /\ lib.used + bytes >= coded.length
      fails == ~(coded.sound /\ coded.marked) /\ lib.used + bytes >= coded.length
  IN  [used |-> IF ends THEN coded.length ELSE Max({lib.used, body}), given |-> given,
       status |-> IF fails THEN "error" ELSE IF ends THEN "end" ELSE "ok"]

\* A call of a coder takes as much input as its output has room for.
LibEncode(e, bytes, room) ==
  [taken |-> e.taken + Min({bytes, room}), written |-> Min({e.taken, e.written + room})]
LibFinish(e, room) == [e EXCEPT !.written = Min({e.taken + 1, @ + room})]

-----------------------------------------------------------------------------
(* Reading *)

Reader(bytes) ==
  [left |-> bytes, avail |-> 0, part |-> 1, lib |-> Fresh, out |-> << >>, end |-> "no",
   complete |-> FALSE, consumed |-> 0, active |-> FALSE, empty |-> FALSE]

Failed(r) == [r EXCEPT !.end = "failed"]
Finished(r) == [r EXCEPT !.end = "finished"]

\* The next block of the file, when the last one is used up.
Refill(r, block) ==
  IF r.avail > 0 THEN r
  ELSE [r EXCEPT !.avail = Min({block, r.left}), !.left = @ - Min({block, r.left})]

\* What one call of the decoder leaves behind.
Decoded(r, coded, d) ==
  [r EXCEPT !.avail = @ - (d.used - r.lib.used), !.lib = d,
            !.out = @ \o SubSeq(coded.data, r.lib.given + 1, d.given)]

\* underflow until it finds nothing more; bytes bounds the turns.
Drained(Turn(_), r, bytes) ==
  FoldLeft(LAMBDA q, n : IF q.end = "no" THEN Turn(q) ELSE q, r, [n \in 1 .. 4 * bytes + 8 |-> n])

\* GzipInputStream: an end that comes with output is met again by the next turn.
GzipTurn(s, r0) ==
  LET r == Refill(r0, s.buffers[1])
      d == LibDecode(s.gz.coded, r.lib, r.avail, s.buffers[2])
      q == Decoded(r, s.gz.coded, d)
  IN  IF d.status = "error" THEN Failed(q)
      ELSE IF d.given > r.lib.given THEN q
      ELSE IF d.status = "end"
      THEN IF q.avail + q.left = 0 THEN Finished(q) ELSE Failed(q)
      ELSE IF q.avail + q.left = 0 THEN Failed(q) ELSE q

\* Bzip2InputStream
Bzip2Turn(s, r0) ==
  LET r == Refill(r0, s.buffers[1])
      d == LibDecode(s.coded, r.lib, r.avail, s.buffers[2])
      q == Decoded(r, s.coded, d)
  IN  IF r.avail = 0 \/ d.status = "error" THEN Failed(q)
      ELSE IF d.status = "end"
      THEN IF q.avail + q.left = 0 THEN Finished(q) ELSE Failed(q)
      ELSE q

Part(s, r) == IF r.part <= Len(s.parts) THEN s.parts[r.part] ELSE Garbage
NextPart(r) == [r EXCEPT !.part = @ + 1, !.lib = Fresh]

\* ZstdInputStream: the file may end when the last call has completed a frame.
ZstdTurn(s, r0) ==
  LET r == Refill(r0, s.buffers[1])
      d == LibDecode(Part(s, r), r.lib, r.avail, s.buffers[2])
      q == Decoded(r, Part(s, r), d)
  IN  IF r.avail = 0 THEN IF r.complete THEN Finished(r) ELSE Failed(r)
      ELSE IF d.status = "error" THEN Failed(q)
      ELSE IF d.status = "end" THEN [NextPart(q) EXCEPT !.complete = TRUE]
      ELSE [q EXCEPT !.complete = FALSE]

\* XzInputStream around xz_dec_catrun, which goes from stream to stream by itself
\* and is told when the source is known to have ended: after an empty read.
XzTurn(s, r0) ==
  LET ended == r0.complete \/ (r0.avail = 0 /\ r0.left = 0)
      r == [Refill(r0, s.buffers[1]) EXCEPT !.complete = ended]
      d == LibDecode(Part(s, r), r.lib, r.avail, s.buffers[2])
      q == Decoded(r, Part(s, r), d)
  IN  IF r.lib.used = 0 /\ r.avail = 0
      THEN IF ended /\ r.part > 1 THEN Finished(r) ELSE Failed(r)
      ELSE IF d.status = "error" THEN Failed(q)
      ELSE IF d.status = "end" THEN NextPart(q)
      ELSE IF d.used = r.lib.used /\ d.given = r.lib.given /\ ended THEN Failed(q) ELSE q

LzipHeader == 2
LzipTrailer == 3

\* read_member_bytes
MemberBytes(s, r, n) ==
  FoldLeft(LAMBDA q, i : LET p == Refill(q, s.buffers[1])
                         IN  IF p.avail = 0 THEN Failed(p)
                             ELSE [p EXCEPT !.avail = @ - 1, !.consumed = @ + 1],
           r, [i \in 1 .. n |-> i])

NoMember == [magic |-> FALSE, version |-> 0, dictionary |-> FALSE, coded |-> Garbage]
Member(s, r) == IF r.part <= Len(s.parts) THEN s.parts[r.part] ELSE NoMember

\* start_next_member: an empty member may only be the last.
StartMember(s, r0) ==
  LET r == Refill(r0, s.buffers[1])
      q == MemberBytes(s, [r EXCEPT !.consumed = 0], LzipHeader)
      m == Member(s, r)
  IN  IF r.avail = 0 THEN IF r.part = 1 THEN Failed(r) ELSE Finished(r)
      ELSE IF r.empty \/ ~(m.magic /\ m.version = 1 /\ m.dictionary) THEN Failed(q)
      ELSE [q EXCEPT !.active = TRUE, !.lib = Fresh]

\* validate_current_member_trailer
EndMember(s, r) ==
  LET q == MemberBytes(s, r, LzipTrailer)
      m == Member(s, r)
  IN  IF m.total = q.consumed /\ m.size = r.lib.given /\ m.crc = Crc(SubSeq(m.coded.data, 1, r.lib.given))
      THEN [NextPart(q) EXCEPT !.active = FALSE, !.empty = m.size = 0] ELSE Failed(q)

\* LzipInputStream
LzipTurn(s, r0) ==
  LET r == Refill(r0, s.buffers[1])
      coded == Member(s, r).coded
      d == LibDecode(coded, r.lib, r.avail, s.buffers[2])
      q == [Decoded(r, coded, d) EXCEPT !.consumed = @ + d.used - r.lib.used]
  IN  IF ~r0.active THEN StartMember(s, r0)
      ELSE IF r.avail = 0 \/ d.status = "error" THEN Failed(q)
      ELSE IF d.status = "end" THEN EndMember(s, q)
      ELSE q

-----------------------------------------------------------------------------
(* Writing *)

Writer == [taken |-> 0, written |-> 0]

\* compress_bytes: one write of the caller in chunks of the buffer, each until
\* the coder has taken it, with an output buffer at a time.
CompressBytes(e, bytes, buffers) ==
  LET goal == e.taken + bytes
      chunkEnd(w) == Min({goal, e.taken + ((w.taken - e.taken) \div buffers[1] + 1) * buffers[1]})
  IN  FoldLeft(LAMBDA w, n : IF w.taken = goal THEN w
                             ELSE LibEncode(w, chunkEnd(w) - w.taken, buffers[2]),
               e, [n \in 1 .. bytes |-> n])

\* close: the coder is called until it says that the stream has ended.
CloseStream(e, buffers) ==
  FoldLeft(LAMBDA w, n : IF w.written = e.taken + 1 THEN w ELSE LibFinish(w, buffers[2]),
           e, [n \in 1 .. e.taken + 1 |-> n])

\* The data in two writes, and the length of what is in the file then.
WriteStream(data, buffers) ==
  LET half == Len(data) \div 2
      e == CompressBytes(CompressBytes(Writer, half, buffers), Len(data) - half, buffers)
  IN  [Coded(data) EXCEPT !.length = CloseStream(e, buffers).written]
=============================================================================
