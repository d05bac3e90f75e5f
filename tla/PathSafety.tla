------------------------------ MODULE PathSafety ------------------------------
(***************************************************************************)
(* Names inside archives: core/path_safety.cpp, which every reader of an   *)
(* archive calls on the names it finds and every writer on the names it    *)
(* stores, and core/stream_archive_path.hpp, which names the output of a   *)
(* compressed stream.                                                      *)
(*                                                                         *)
(* A name is the sequence of its bytes, because the separators, the order  *)
(* of the sort and the case of letters decide what collides.  An entry is  *)
(* a record with at least a path and a flag dir.                           *)
(***************************************************************************)
EXTENDS Integers, Sequences, SequencesExt, TLC

\* Bounds, scaled down from core/resource_limits.hpp.
MaxPathBytes == 12
MaxComponentBytes == 6
MaxComponents == 3

Slash == 47
Backslash == 92
Dot == 46
Space == 32
Colon == 58
Lower == 97 .. 122
Upper == 65 .. 90

ToUpper(c) == IF c \in Lower THEN c - 32 ELSE c
ToLower(c) == IF c \in Upper THEN c + 32 ELSE c
Fold(name) == [i \in DOMAIN name |-> ToUpper(name[i])]

-----------------------------------------------------------------------------
(* One name *)

Before(name, c) ==
  IF \E i \in DOMAIN name : name[i] = c
  THEN SubSeq(name, 1, SelectInSeq(name, LAMBDA x : x = c) - 1)
  ELSE name

\* CON and COM1 stand for the names that Windows reserves, whatever follows a dot.
ReservedName(name) ==
  Fold(Before(name, Dot)) \in {<<67, 79, 78>>, <<67, 79, 77, 49>>}

DrivePrefix(path) ==
  Len(path) >= 2 /\ path[1] \in Lower \cup Upper /\ path[2] = Colon

ControlCharacter(name) == \E i \in DOMAIN name : name[i] < 32

\* < > : " | ? *
Forbidden == {60, 62, Colon, 34, 124, 63, 42}

PlainComponent(name) ==
  /\ name # <<Dot, Dot>>
  /\ Len(name) <= MaxComponentBytes
  /\ ~ControlCharacter(name)
  /\ Last(name) \notin {Space, Dot}
  /\ \A i \in DOMAIN name : name[i] \notin Forbidden
  /\ ~ReservedName(name)

\* flush_component: empty components and dots are skipped.
FlushComponent(parts, name) == IF name \in {<< >>, <<Dot>>} THEN parts ELSE Append(parts, name)

\* The components that have ended and the one under way, after n bytes; both
\* separators end a component.
Scanned(path) ==
  LET split[n \in 0 .. Len(path)] ==
        IF n = 0 THEN [parts |-> << >>, name |-> << >>]
        ELSE IF path[n] \in {Slash, Backslash}
        THEN [parts |-> FlushComponent(split[n - 1].parts, split[n - 1].name), name |-> << >>]
        ELSE [split[n - 1] EXCEPT !.name = Append(@, path[n])]
  IN  split

Components(path) == LET all == Scanned(path)[Len(path)] IN FlushComponent(all.parts, all.name)

PlainParts(parts) ==
  /\ Len(parts) \in 1 .. MaxComponents
  /\ \A i \in DOMAIN parts : PlainComponent(parts[i])

ValidPath(path) ==
  /\ path # << >> /\ Len(path) <= MaxPathBytes
  /\ path[1] \notin {Slash, Backslash} /\ ~DrivePrefix(path)
  /\ PlainParts(Components(path))

\* The path of the first n components.
Joined(parts) ==
  LET path[n \in 0 .. Len(parts)] ==
        IF n = 0 THEN << >>
        ELSE IF path[n - 1] = << >> THEN parts[n]
        ELSE path[n - 1] \o <<Slash>> \o parts[n]
  IN  path
Join(parts) == Joined(parts)[Len(parts)]

\* normalize_archive_path_key, of a valid path.
Key(path) == Join(Components(path))

\* normalize_entry_name, of the components of a path below a source.
EntryName(parts) == Join(SelectSeq(parts, LAMBDA name : name \notin {<< >>, <<Dot>>}))

-----------------------------------------------------------------------------
(* All names of an archive *)

\* compare_archive_collision_keys: case does not count.
LessName(a, b) ==
  LET x == Fold(a)
      y == Fold(b)
  IN  \/ IsStrictPrefix(x, y)
      \/ \E i \in DOMAIN x \cap DOMAIN y :
           x[i] < y[i] /\ \A j \in 1 .. i - 1 : x[j] = y[j]

SameName(a, b) == Fold(a) = Fold(b)

Descendant(child, parent) ==
  /\ Len(child) > Len(parent) /\ child[Len(parent) + 1] = Slash
  /\ SameName(SubSeq(child, 1, Len(parent)), parent)

Keyed(entries) ==
  [i \in DOMAIN entries |-> [key |-> Key(entries[i].path), dir |-> entries[i].dir]]

\* std::sort: the k-th entry is the one with k - 1 others ahead of it.  Where
\* names are the same any order would do.
Preceding(named, i) ==
  {j \in DOMAIN named : \/ LessName(named[j].key, named[i].key)
                        \/ SameName(named[j].key, named[i].key) /\ j < i}

Sorted(entries) ==
  LET named == Keyed(entries)
  IN  [k \in DOMAIN named |->
         named[CHOOSE i \in DOMAIN named : Cardinality(Preceding(named, i)) = k - 1]]

\* A child of a file is looked up where key/ would be; other names may sort
\* between the two.
HasChild(sorted, key) ==
  LET child == SelectInSeq(sorted, LAMBDA e : ~LessName(e.key, Append(key, Slash)))
  IN  child # 0 /\ Descendant(sorted[child].key, key)

\* Faulty variant: neighbours are compared as they are, the case of letters counts.
NoCollisionExactly(sorted) ==
  /\ \A i \in 2 .. Len(sorted) : sorted[i - 1].key # sorted[i].key
  /\ \A i \in DOMAIN sorted : ~sorted[i].dir => ~HasChild(sorted, sorted[i].key)

NoCollision(sorted) ==
  /\ \A i \in 2 .. Len(sorted) : ~SameName(sorted[i - 1].key, sorted[i].key)
  /\ \A i \in DOMAIN sorted : ~sorted[i].dir => ~HasChild(sorted, sorted[i].key)

\* validate_archive_path_set
ValidPathSet(entries) ==
  (\A i \in DOMAIN entries : ValidPath(entries[i].path)) /\ NoCollision(Sorted(entries))

\* What it is for: each entry can have its place in one tree of a file system
\* that ignores case.
OneTree(entries) ==
  /\ \A i \in DOMAIN entries : ValidPath(entries[i].path)
  /\ \A i, j \in DOMAIN entries : i # j =>
       LET a == Components(Fold(entries[i].path))
           b == Components(Fold(entries[j].path))
       IN  a # b /\ (~entries[i].dir => ~IsPrefix(a, b))

-----------------------------------------------------------------------------
(* The output of a compressed stream *)

EndsWith(name, suffix) == Len(name) > Len(suffix) /\ IsSuffix(suffix, name)

\* filename.stem()
Stem(name) ==
  LET dots == {i \in DOMAIN name : name[i] = Dot /\ i > 1}
  IN  IF dots = {} THEN name
      ELSE SubSeq(name, 1, (CHOOSE i \in dots : \A j \in dots : j <= i) - 1)

Payload == <<112>>   \* "payload"

\* single_stream_entry_name: the first rule whose suffix the name has, or the
\* name without its extension.
StreamEntryName(name, rules) ==
  LET lower == [i \in DOMAIN name |-> ToLower(name[i])]
      rule == SelectInSeq(rules, LAMBDA r : EndsWith(lower, r.suffix))
      stripped == IF rule = 0 THEN Stem(name)
                  ELSE SubSeq(name, 1, Len(name) - Len(rules[rule].suffix)) \o rules[rule].replacement
  IN  IF stripped = << >> THEN Payload ELSE stripped
=============================================================================
