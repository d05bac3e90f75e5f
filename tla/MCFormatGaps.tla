----------------------------- MODULE MCFormatGaps -----------------------------
(***************************************************************************)
(* Good files that an extraction does not serve.  MCFormats leaves them    *)
(* out of its sources; each of the two sets here is checked on its own.    *)
(***************************************************************************)
EXTENDS MCFormats

\* .Z files that SuperZip writes without widening the last code, so that its own
\* reader skips the bits of that code.
TailLost == One!ZLost

\* One file with a text in it that starts a Base64 or BinHex attachment, in an
\* archive that SuperZip writes, stored within the first kArchiveProbeBytes.  Its
\* signature is looked for behind these lines, as are those of CAB, ARJ, ARC, LHA,
\* WIM, XAR, RPM and of the compressed streams.
OneFile(s) == Len(s.members) = 1 /\ ~s.members[1].dir /\ s.members[1].data # << >>
Stored ==
  {s \in Tar!TarCreated \cup Box!CpioCreated : s.layer = "none"} \cup Box!ArCreated
TextInside == {Holding(s, line) : s \in {x \in Stored : OneFile(x)}, line \in {"base64", "binhex"}}
=============================================================================
