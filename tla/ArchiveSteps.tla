----------------------------- MODULE ArchiveSteps -----------------------------
(***************************************************************************)
(* What the readers of all archive formats have in common: a first pass    *)
(* returns [ok, entries], and a second pass is a sequence of steps that    *)
(* module ContainerJob takes one by one.                                   *)
(***************************************************************************)
EXTENDS PathSafety

\* Create the directory path.
Dir(path) == [op |-> "dir", path |-> path]

\* Decode data into a temporary file and publish it, when it is good, at path.
File(path, data, good) ==
  [op |-> "file", path |-> path, data |-> data, good |-> good, asks |-> FALSE]

\* Some adapters refuse an existing target before they decode; with the others
\* only the rename refuses it.
Asking(step) == [step EXCEPT !.asks = TRUE]

\* Throw.
Fail == [op |-> "fail"]

\* A checksum that tells the contents of the models apart.
Crc(data) == FoldLeft(LAMBDA n, byte : (31 * n + byte) % 8191, 7, data)

\* size items behind the first skip ones, or nothing when they are not there.
Slice(items, skip, size) ==
  IF skip + size <= Len(items) THEN SubSeq(items, skip + 1, skip + size) ELSE << >>

Refused == [ok |-> FALSE, entries |-> << >>]

\* What a first pass has found, and its last test, which is the same for all
\* formats: validate_archive_path_set.
Listed(sound, entries) == [ok |-> sound, entries |-> entries]
Accepted(first) == [first EXCEPT !.ok = @ /\ ValidPathSet(first.entries)]

\* The numbers 1 .. n for which Good holds all the way.
GoodPrefix(n, Good(_)) ==
  LET bad == {i \in 1 .. n : ~Good(i)}
  IN  IF bad = {} THEN n ELSE (CHOOSE i \in bad : \A j \in bad : i <= j) - 1
=============================================================================
