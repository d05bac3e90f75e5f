------------------------------ MODULE TarSamples ------------------------------
(***************************************************************************)
(* TAR archives to extract: those that SuperZip writes, and those that     *)
(* other programs or a broken disk leave.  The truth about an archive      *)
(* (members, fit, intact) is given with its parts and not computed by the  *)
(* reader.                                                                 *)
(***************************************************************************)
EXTENDS TarFormat, SampleNames

CONSTANT MaxParts   \* how many parts an archive is put together from

Raw(type, name, prefix, size) ==
  [kind |-> "header", sum |-> TRUE, type |-> type, name |-> name, prefix |-> prefix, size |-> size]
Oct(n) == <<48 + n, 0>>

Part(blocks, members, fit) == [blocks |-> blocks, members |-> members, fit |-> fit]
One(path, data) == <<[path |-> path, dir |-> FALSE, data |-> data]>>

Parts == {
  \* a plain file, and one whose size is in base 256
  Part(<<Raw("0", a, << >>, Oct(1)), Data(<<1>>)>>, One(a, <<1>>), TRUE),
  Part(<<Raw("0", A, << >>, <<128, 3>>), Data(<<1, 2>>), Data(<<3>>)>>, One(A, <<1, 2, 3>>), TRUE),
  \* a blank field is zero, and a directory has no payload
  Part(<<Raw("5", a, << >>, <<32, 0>>)>>, <<[path |-> a, dir |-> TRUE, data |-> << >>]>>, TRUE),
  \* the name is in two fields, in PAX records, in the payload of a GNU entry
  Part(<<Raw("0", b, a, Oct(0))>>, One(a \o <<Slash>> \o b, << >>), TRUE),
  Part(<<Raw("x", a, << >>, Oct(1)), Text(<<PaxRecord("path", ab)>>), Raw("0", c, << >>, Oct(1)), Data(<<5>>)>>,
       One(ab, <<5>>), TRUE),
  Part(<<Raw("x", a, << >>, Oct(1)), Text(<<PaxRecord("mtime", a)>>), Raw("0", c, << >>, Oct(0))>>,
       One(c, << >>), TRUE),
  \* in PAX records of a character set that is known, or is not
  Part(<<Raw("x", a, << >>, Oct(1)), Text(<<PaxRecord("path", <<130>>), PaxRecord("hdrcharset", Unicode),
         PaxRecord("hdrcharset", Binary)>>), Raw("0", c, << >>, Oct(1)), Data(<<4>>)>>,
       One(<<1130>>, <<4>>), TRUE),
  Part(<<Raw("x", a, << >>, Oct(1)), Text(<<PaxRecord("hdrcharset", a)>>)>>, << >>, FALSE),
  Part(<<Raw("L", a, << >>, Oct(1)), Text(aDashC \o <<0>>), Raw("0", c, << >>, Oct(2)), Data(<<6, 7>>)>>,
       One(aDashC, <<6, 7>>), TRUE),
  Part(<<Raw("g", a, << >>, Oct(1)), Text(<<PaxRecord("path", up)>>)>>, << >>, TRUE),
  \* a name that leads out, a link, a bad checksum, a cut payload, bad records
  Part(<<Raw("0", up, << >>, Oct(0))>>, << >>, FALSE),
  Part(<<Raw("2", c, << >>, Oct(0))>>, << >>, FALSE),
  Part(<<[Raw("0", c, << >>, Oct(0)) EXCEPT !.sum = FALSE]>>, << >>, FALSE),
  Part(<<Raw("0", c, << >>, Oct(3)), Data(<<8, 9>>), Short>>, << >>, FALSE),
  Part(<<Raw("0", c, << >>, <<56, 0>>)>>, << >>, FALSE),
  Part(<<Raw("x", a, << >>, Oct(1)), Text(<<[PaxRecord("path", a) EXCEPT !.length = @ + 5]>>)>>, << >>, FALSE)
}

\* The end: two blocks, nothing, or blocks that nobody reads.
Ends == {<<Zero, Zero>>, << >>, <<Zero, Raw("2", c, << >>, Oct(0))>>}

Foreign ==
  {[format |-> "tar", blocks |-> FlattenSeq([i \in DOMAIN parts |-> parts[i].blocks]) \o end,
    layer |-> layer, intact |-> intact, early |-> TRUE,
    members |-> FlattenSeq([i \in DOMAIN parts |-> parts[i].members]),
    fit |-> /\ \A i \in DOMAIN parts : parts[i].fit
            /\ OneTree(FlattenSeq([i \in DOMAIN parts |-> parts[i].members]))] :
     parts \in UNION {[1 .. n -> Parts] : n \in 0 .. MaxParts}, end \in Ends,
     layer \in {"none", "gzip"}, intact \in BOOLEAN}

\* A file without a layer has no stream that could be broken.
TarForeign == {arc \in Foreign : arc.layer = "none" => arc.intact}

TarSubstitutes ==
  {[format |-> "tar", blocks |-> WriteStream(One(a, <<11, 12>>)), layer |-> layer, intact |-> TRUE,
    early |-> TRUE, members |-> One(a, <<11, 12>>), fit |-> TRUE] : layer \in {"none", "gzip"}}

TarCreated ==
  {[format |-> "tar", blocks |-> WriteStream(manifest), layer |-> layer, intact |-> TRUE,
    early |-> TRUE, members |-> manifest, fit |-> TRUE] :
     manifest \in {m \in Manifests : Writable(m, "zstd")}, layer \in {"none", "zstd"}}
=============================================================================
