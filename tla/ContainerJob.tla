----------------------------- MODULE ContainerJob -----------------------------
(***************************************************************************)
(* The extraction of one archive of a foreign format: what run_extract_    *)
(* command of cli/main.cpp and a job of main_window_extract_jobs.cpp do    *)
(* around the adapter, and the shape that the extract functions of all     *)
(* adapters share.  The source is pinned, its format is found, it is       *)
(* scanned, the destination is made and the entries are written one by     *)
(* one, each in a temporary file that is published when its payload has    *)
(* been accepted.                                                          *)
(*                                                                         *)
(* What differs between the adapters are Scan, the first pass, and Replay, *)
(* the second, as a sequence of steps; the modules of the formats define   *)
(* them.  Other programs replace the source and create files.              *)
(*                                                                         *)
(* A source is a record with a format and at least these fields, which are *)
(* the truth about it and which no step of the program reads:              *)
(*   members  what it holds, a sequence of [path, dir, data]               *)
(*   fit      whether its index is one that a reader may accept            *)
(*   intact   whether all of its payloads can be decoded                   *)
(*   early    whether its format lets a reader find out before it extracts *)
(*                                                                         *)
(* The destination maps places to what is there.  A place is the sequence  *)
(* of the components of a path, without regard to case.                    *)
(***************************************************************************)
EXTENDS FormatDetection, FiniteSets

CONSTANTS
  Sources,          \* what can be at the path of the archive
  Face(_),          \* what the detection looks at
  Requests(_),      \* the formats that a user may ask for, or "auto"
  Scan(_, _),       \* the first pass of a reader over a source: [ok, entries]
  Replay(_, _, _),  \* the steps that its second pass takes
  Place(_),         \* the place of a path
  Substitutes,      \* the sources that other programs put in its place
  Intruded,         \* places at which other programs create files
  MaxReplacements   \* how often another program replaces the source

ASSUME ContainerJobAssumption == MaxReplacements \in Nat

NoEntries == << >>
Old == <<200>>      \* what was at the destination before
Alien == <<201>>    \* what other programs write

VARIABLES
  source,       \* the archive at its path
  replaced,     \* how often it was replaced
  pinned,       \* the handle of pin_source_file is open
  overwrite,
  reader,       \* the format that the archive is read as
  pc,
  index,      \* the result of the first pass
  script,       \* the steps left of the second pass
  dest,         \* place -> [dir, data]
  cancelled     \* the progress callback has thrown

vars == <<source, replaced, pinned, overwrite, reader, pc, index, script, dest, cancelled>>

-----------------------------------------------------------------------------
(* The destination *)

Directory == [dir |-> TRUE, data |-> << >>]
Regular(data) == [dir |-> FALSE, data |-> data]

\* The places above a place.
Parents(place) == {SubSeq(place, 1, n) : n \in 0 .. Len(place) - 1}

\* A file stands where a directory of the path should be.
Blocked(place) == \E p \in DOMAIN dest \cap Parents(place) : ~dest[p].dir

\* The parents come first, and a directory that is there is taken.
WithDirectories(places) ==
  [p \in DOMAIN dest \cup places |-> IF p \in DOMAIN dest THEN dest[p] ELSE Directory]

WithFile(place, data) ==
  [p \in DOMAIN WithDirectories(Parents(place)) \cup {place} |->
     IF p = place THEN Regular(data) ELSE WithDirectories(Parents(place))[p]]

-----------------------------------------------------------------------------

Init ==
  /\ source \in Sources
  /\ replaced = 0
  /\ pinned = FALSE
  /\ overwrite \in BOOLEAN
  /\ reader = "none"
  /\ pc = "start"
  /\ index = NoEntries
  /\ script = << >>
  /\ \E there \in SUBSET Intruded : dest = [p \in there |-> Regular(Old)]
  /\ cancelled = FALSE

Goto(next) == pc' = next

\* Faulty variant: the handle lets others write.
PinShared ==
  /\ pc = "start"
  /\ Goto("identify")
  /\ UNCHANGED <<source, replaced, pinned, overwrite, reader, index, script, dest, cancelled>>

\* pin_source_file: nobody writes or replaces the file until it is released.
Pin ==
  /\ pc = "start"
  /\ pinned' = TRUE
  /\ Goto("identify")
  /\ UNCHANGED <<source, replaced, overwrite, reader, index, script, dest, cancelled>>

\* An exception releases the source.
Throw == Goto("failed") /\ pinned' = FALSE

\* resolve_cli_archive_format, or detect_archive_format in a job of the window.
Format(s, requested) == IF Named(requested) = "auto" THEN Detect(Face(s)) ELSE Named(requested)

Identify == \E requested \in Requests(source) :
  /\ pc = "identify"
  /\ LET format == Format(source, requested)
     IN  IF Extractable(format) THEN reader' = format /\ Goto("scan") /\ UNCHANGED pinned
                                ELSE Throw /\ UNCHANGED reader
  /\ UNCHANGED <<source, replaced, overwrite, index, script, dest, cancelled>>

\* The first pass.
ReadIndex ==
  /\ pc = "scan"
  /\ \E first \in {Scan(Reader(reader), source)} :
       \/ ~first.ok /\ Throw /\ UNCHANGED index
       \/ first.ok /\ index' = first.entries /\ Goto("root") /\ UNCHANGED pinned
  /\ UNCHANGED <<source, replaced, overwrite, reader, script, dest, cancelled>>

\* create_verified_directories(destination); the second pass opens the source.
MakeRoot ==
  /\ pc = "root"
  /\ script' = Replay(Reader(reader), source, index)
  /\ dest' = WithDirectories({<< >>})
  /\ Goto("write")
  /\ UNCHANGED <<source, replaced, pinned, overwrite, reader, index, cancelled>>

Step == Head(script)
Target == Place(Step.path)
Now(op) == pc = "write" /\ script # << >> /\ Step.op = op

\* The readers whose adapters call publish_progress once more behind the last entry.
CallsAtEnd == {"b64", "hqx", "macbinary", "uue", "xxe", "gz", "bz2", "xz", "zst", "lz", "lzma", "z",
               "7z", "lha", "wim", "xar"}

\* publish_progress calls back before each entry, and the callback throws.
Cancel ==
  /\ pc = "write"
  /\ script # << >> \/ Reader(reader) \in CallsAtEnd
  /\ cancelled' = TRUE
  /\ Throw
  /\ UNCHANGED <<source, replaced, overwrite, reader, index, script, dest>>

PayloadFails ==
  /\ Now("fail")
  /\ Throw
  /\ UNCHANGED <<source, replaced, overwrite, reader, index, script, dest, cancelled>>

CreateDirectory ==
  /\ Now("dir")
  /\ ~Blocked(Target) /\ (Target \in DOMAIN dest => dest[Target].dir)
  /\ dest' = WithDirectories(Parents(Target) \cup {Target})
  /\ script' = Tail(script)
  /\ UNCHANGED <<source, replaced, pinned, overwrite, reader, pc, index, cancelled>>

DirectoryFails ==
  /\ Now("dir")
  /\ Blocked(Target) \/ (Target \in DOMAIN dest /\ ~dest[Target].dir)
  /\ Throw
  /\ UNCHANGED <<source, replaced, overwrite, reader, index, script, dest, cancelled>>

\* The test for an existing file, where the adapter makes it, the parents of the
\* temporary file, and the payload decoded into it.
Decode ==
  /\ Now("file")
  /\ Step.asks => overwrite \/ Target \notin DOMAIN dest
  /\ ~Blocked(Target)
  /\ dest' = WithDirectories(Parents(Target))
  /\ IF Step.good THEN Goto("commit") /\ UNCHANGED pinned ELSE Throw
  /\ UNCHANGED <<source, replaced, overwrite, reader, index, script, cancelled>>

DecodeRefuses ==
  /\ Now("file")
  /\ (Step.asks /\ ~overwrite /\ Target \in DOMAIN dest) \/ Blocked(Target)
  /\ Throw
  /\ UNCHANGED <<source, replaced, overwrite, reader, index, script, dest, cancelled>>

\* commit_verified_file: a rename that refuses what has appeared meanwhile.
Publishable == IF Target \in DOMAIN dest THEN overwrite /\ ~dest[Target].dir ELSE TRUE

Commit ==
  /\ pc = "commit"
  /\ Publishable
  /\ dest' = WithFile(Target, Step.data)
  /\ script' = Tail(script)
  /\ Goto("write")
  /\ UNCHANGED <<source, replaced, pinned, overwrite, reader, index, cancelled>>

CommitFails ==
  /\ pc = "commit"
  /\ ~Publishable
  /\ Throw
  /\ UNCHANGED <<source, replaced, overwrite, reader, index, script, dest, cancelled>>

Finish ==
  /\ pc = "write"
  /\ script = << >>
  /\ Goto("done")
  /\ pinned' = FALSE
  /\ UNCHANGED <<source, replaced, overwrite, reader, index, script, dest, cancelled>>

\* Another program puts a different archive in the place of the source.
Replace ==
  /\ ~pinned
  /\ pc \notin {"done", "failed"}
  /\ replaced < MaxReplacements
  /\ source' \in Substitutes \ {source}
  /\ replaced' = replaced + 1
  /\ UNCHANGED <<pinned, overwrite, reader, pc, index, script, dest, cancelled>>

\* Another program creates a file where nothing is.  The temporary file keeps
\* the parents of the target in place while it exists.
Intrude ==
  /\ pc \in {"root", "write", "commit"}
  /\ << >> \in DOMAIN dest
  /\ \E p \in Intruded \ DOMAIN dest :
       /\ Parents(p) \subseteq DOMAIN dest /\ ~Blocked(p)
       /\ dest' = WithFile(p, Alien)
  /\ UNCHANGED <<source, replaced, pinned, overwrite, reader, pc, index, script, cancelled>>

Stopped ==
  /\ pc \in {"done", "failed"}
  /\ UNCHANGED vars

Program ==
  \/ Pin \/ Identify \/ ReadIndex \/ MakeRoot
  \/ PayloadFails \/ CreateDirectory \/ DirectoryFails
  \/ Decode \/ DecodeRefuses \/ Commit \/ CommitFails \/ Finish

Next == Program \/ Cancel \/ Replace \/ Intrude \/ Stopped

Spec == Init /\ [][Next]_vars

-----------------------------------------------------------------------------
(* What the job relies on: the two passes of a reader over one source *)

\* The source is not one that every reader must take.
Defective(s) == ~s.fit \/ ~s.intact

Stores(step) == step.op = "file" /\ step.good
Throws(step) == step.op = "fail" \/ (step.op = "file" /\ ~step.good)

\* The step puts the member in its place.
Puts(step, member) ==
  /\ step.op = IF member.dir THEN "dir" ELSE "file"
  /\ Place(step.path) = Place(member.path)
  /\ ~member.dir => step.data = member.data /\ step.data \notin {Old, Alien}

\* The steps meet the members, and the files among them disturb no other step.
Complete(steps, s) ==
  \A m \in DOMAIN s.members : \E i \in DOMAIN steps : Puts(steps[i], s.members[m])
Apart(steps) ==
  \A i, j \in {k \in DOMAIN steps : ~Throws(steps[k])} :
    LET place == Place(steps[i].path)
    IN  Stores(steps[i]) => /\ place # << >> /\ place \notin Parents(Place(steps[j].path))
                            /\ i # j => place # Place(steps[j].path)

SoundSteps(steps, s) ==
  /\ steps \in Seq({steps[i] : i \in DOMAIN steps})
  /\ \A i \in DOMAIN steps :
       IF Throws(steps[i]) THEN Defective(s)
                           ELSE \E m \in DOMAIN s.members : Puts(steps[i], s.members[m])
  /\ (\E i \in DOMAIN steps : Stores(steps[i])) => s.fit /\ (s.early => s.intact)
  /\ (\A i \in DOMAIN steps : ~Throws(steps[i])) => Complete(steps, s)
  /\ Apart(steps)

SoundReader(by, s) ==
  IF Scan(by, s).ok THEN SoundSteps(Replay(by, s, Scan(by, s).entries), s) ELSE Defective(s)

Sound(s) == \A requested \in Requests(s) :
  LET format == Format(s, requested)
  IN  IF Extractable(format) THEN SoundReader(Reader(format), s) ELSE Defective(s)

\* The assumption of the theorems about the job.
ReadersAreSound == \A s \in Sources \cup Substitutes : Sound(s)

-----------------------------------------------------------------------------
(* Properties *)

\* Every variable has its type.
TypeOK ==
  /\ source \in Sources \cup Substitutes
  /\ replaced \in 0 .. MaxReplacements
  /\ pinned \in BOOLEAN /\ overwrite \in BOOLEAN /\ cancelled \in BOOLEAN
  /\ pc \in {"start", "identify", "scan", "root", "write", "commit", "done", "failed"}
  /\ \A p \in DOMAIN dest : dest[p].dir \in BOOLEAN

\* Of every source of the run, whatever its name says: the reader that the
\* detection gives it to refuses only what is defective, and if it takes it, then
\* its second pass puts nothing but members in their places, all of them unless it
\* throws, and none of an archive that the first pass ought to have refused:
\* names, sizes, offsets and padding of the two passes fit together.  It fails for
\* the files that MCFormatGaps gives to the job.
SoundSource == pc = "identify" => Sound(source)

\* The files that the program has published.
Published == {p \in DOMAIN dest : ~dest[p].dir /\ dest[p].data \notin {Old, Alien}}

Holds(members, place, data) ==
  \E i \in DOMAIN members :
    ~members[i].dir /\ Place(members[i].path) = place /\ members[i].data = data

\* A published file has the name and the content of a member of the archive
\* that is at the path, whoever replaces it or creates files, and when.  An AR
\* archive that ends with a BinHex file and is read as one breaks it.
OnlyArchivedContent ==
  \A p \in Published : Holds(source.members, p, dest[p].data)

\* An extraction of a source of the run that reports success has put every member
\* in its place.  The .Z files that lose their last code break it.
DoneMeansComplete ==
  pc = "done" =>
    \A i \in DOMAIN source.members :
      LET m == source.members[i]
      IN  /\ Place(m.path) \in DOMAIN dest
          /\ dest[Place(m.path)] = IF m.dir THEN Directory ELSE Regular(m.data)

\* Nothing of an archive with a bad index is published, and nothing of one with
\* a bad payload where the format tells before the extraction.
NothingBeforeVerified ==
  Published # {} => source.fit /\ (source.early => source.intact)

\* A file of somebody else is where a member or a directory above it should be.
Obstructed ==
  \E p \in DOMAIN dest, i \in DOMAIN source.members :
    /\ ~dest[p].dir /\ dest[p].data \in {Old, Alien}
    /\ LET place == Place(source.members[i].path) IN p = place \/ p \in Parents(place)

\* No good archive among the sources of the run is given to the wrong reader or
\* refused, by neither pass.  An archive that holds a line of Base64 or BinHex and
\* whose signature is looked for behind it breaks it.
FailuresHaveACause ==
  pc = "failed" => ~source.fit \/ ~source.intact \/ cancelled \/ Obstructed

\* A file that was there stays as it is unless overwriting was asked for, and a
\* file that this extraction has published stays in any case: no two entries
\* share a place.
WrittenOnce ==
  [][\A p \in DOMAIN dest :
       ~dest[p].dir /\ (~overwrite \/ p \in Published)
         => p \in DOMAIN dest' /\ dest'[p] = dest[p]]_vars
=============================================================================
