-------------------------- MODULE ContainerJobProofs --------------------------
(***************************************************************************)
(* What is proved of ContainerJob, for any set of archives, any readers    *)
(* whose two passes are sound and any other programs: what it publishes,   *)
(* when it may report success, why it may fail and what it never writes    *)
(* over.  ReadersAreSound is what the modules of the formats owe to the    *)
(* job; TLC checks it as SoundSource for every archive of MCFormats.  Two  *)
(* parts of it are proved for all archives: validate_archive_path_set      *)
(* accepts exactly the names that fit into one tree, so that no two steps  *)
(* of a reader meet; and the AR adapter is sound for what it has written.  *)
(***************************************************************************)
EXTENDS ContainerJob, ArFormat, SequenceTheorems, FunctionTheorems, FiniteSetTheorems,
        WellFoundedInduction, TLAPS

\* The second pass, and what other programs have put into the destination.
Steps == Replay(Reader(reader), source, index)
Foreign == {Regular(Old), Regular(Alien)}

\* Where the first n steps have left their members.
Standing(n) ==
  \A i \in 1 .. n :
    LET place == Place(Steps[i].path)
    IN  /\ ~Throws(Steps[i]) /\ place \in DOMAIN dest
        /\ dest[place] = IF Steps[i].op = "dir" THEN Directory ELSE Regular(Steps[i].data)

\* Why something is in the destination after n steps.
MadeDirectory(p) ==
  \/ p = << >>
  \/ \E i \in DOMAIN Steps :
       /\ ~Throws(Steps[i])
       /\ \/ p \in Parents(Place(Steps[i].path))
          \/ p = Place(Steps[i].path) /\ Steps[i].op = "dir"
Written(n, p) ==
  \E i \in 1 .. n :
    Stores(Steps[i]) /\ p = Place(Steps[i].path) /\ dest[p] = Regular(Steps[i].data)
Explained(n) ==
  \A p \in DOMAIN dest :
    dest[p] \in Foreign \/ (dest[p] = Directory /\ MadeDirectory(p)) \/ Written(n, p)

\* The second pass has taken n steps.
At(n) ==
  /\ n \in 0 .. Len(Steps) /\ script = SubSeq(Steps, n + 1, Len(Steps))
  /\ Standing(n) /\ Explained(n)

Reading == {"identify", "scan", "root", "write", "commit"}
Listing == {"root", "write", "commit", "done"}

SourceIsPinned == pc \in Reading => pinned
ReaderIsSound == pc \in Listing \cup {"scan"} => SoundReader(Reader(reader), source)
IndexIsScan ==
  pc \in Listing => LET first == Scan(Reader(reader), source)
                    IN  first.ok /\ index = first.entries
NothingYet ==
  pc \in {"start", "identify", "scan", "root"} => \A p \in DOMAIN dest : dest[p] \in Foreign
StepsAreTaken == pc \in {"write", "commit"} => \E n \in Nat : At(n)
CommitsAGoodFile == pc = "commit" => script # << >> /\ Stores(Head(script))

\* What is published is a member, and of an archive that may be extracted.
Verified == source.fit /\ (source.early => source.intact)
Honest == \A p \in Published : Holds(source.members, p, dest[p].data) /\ Verified

Inv ==
  /\ TypeOK /\ SourceIsPinned /\ ReaderIsSound /\ IndexIsScan /\ NothingYet
  /\ StepsAreTaken /\ CommitsAGoodFile
  /\ Honest /\ DoneMeansComplete /\ FailuresHaveACause

-----------------------------------------------------------------------------
(* The destination *)

\* Directories are added and nothing else changes.
LEMMA DirectoriesAreAdded ==
  ASSUME NEW places, dest' = WithDirectories(places)
  PROVE  /\ DOMAIN dest' = DOMAIN dest \cup places
         /\ \A p \in DOMAIN dest : dest'[p] = dest[p]
         /\ \A p \in DOMAIN dest' \ DOMAIN dest : dest'[p] = Directory
BY DEF WithDirectories

\* A file and the directories above it are added, or the file is replaced.
LEMMA FileIsWritten ==
  ASSUME NEW place, NEW data, dest' = WithFile(place, data)
  PROVE  /\ DOMAIN dest' = DOMAIN dest \cup Parents(place) \cup {place}
         /\ dest'[place] = Regular(data)
         /\ \A p \in DOMAIN dest : p # place => dest'[p] = dest[p]
         /\ \A p \in DOMAIN dest' \ DOMAIN dest : p # place => dest'[p] = Directory
BY DEF WithFile, WithDirectories

\* What is there before a step is a directory or not.
LEMMA Kinds ==
  /\ \A data : Regular(data).dir = FALSE /\ Regular(data).data = data
  /\ Directory.dir = TRUE
  /\ \A a, b : Regular(a) = Regular(b) => a = b
  /\ \A a : Regular(a) # Directory
<1>1. \A data : Regular(data).dir = FALSE /\ Regular(data).data = data
  BY DEF Regular
<1>2. Directory.dir = TRUE
  BY DEF Directory
<1>3. QED
  BY <1>1, <1>2

\* The first step that is left, and the steps behind it.
LEMMA NextStep ==
  ASSUME NEW S, NEW steps \in Seq(S), NEW n \in 0 .. Len(steps),
         NEW rest, rest = SubSeq(steps, n + 1, Len(steps)), rest # << >>
  PROVE  /\ n + 1 \in 1 .. Len(steps)
         /\ Head(rest) = steps[n + 1]
         /\ Tail(rest) = SubSeq(steps, (n + 1) + 1, Len(steps))
<1>1. n < Len(steps)
  BY SubSeqEmpty, LenProperties
<1>2. QED
  BY <1>1, HeadTailOfSubSeq, LenProperties

-----------------------------------------------------------------------------
(* What stands in the way of a step *)

\* In front of a step, a file above its place or at it is somebody else's, and
\* no directory is where a file belongs.
LEMMA NothingOwnInTheWay ==
  ASSUME NEW n \in Nat, At(n), Apart(Steps), Steps \in Seq({Steps[i] : i \in DOMAIN Steps}),
         n + 1 \in 1 .. Len(Steps), ~Throws(Steps[n + 1]), NEW p \in DOMAIN dest,
         p = Place(Steps[n + 1].path) \/ p \in Parents(Place(Steps[n + 1].path))
  PROVE  /\ ~dest[p].dir => dest[p] \in Foreign
         /\ p = Place(Steps[n + 1].path) /\ Stores(Steps[n + 1]) => ~dest[p].dir
<1>0. DOMAIN Steps = 1 .. Len(Steps) /\ Len(Steps) \in Nat
  BY LenProperties
<1>1. \/ dest[p] \in Foreign
      \/ dest[p] = Directory /\ MadeDirectory(p)
      \/ Written(n, p)
  BY DEF At, Explained
<1>2. ~Written(n, p)
  <2>1. SUFFICES ASSUME NEW i \in 1 .. n, Stores(Steps[i]), p = Place(Steps[i].path)
                 PROVE  FALSE
    BY DEF Written
  <2>2. i \in DOMAIN Steps /\ n + 1 \in DOMAIN Steps /\ i # n + 1 /\ ~Throws(Steps[i])
    BY <1>0, <2>1 DEF At, Stores, Throws
  <2>3. QED
    BY <2>1, <2>2 DEF Apart
<1>3. ASSUME p = Place(Steps[n + 1].path), Stores(Steps[n + 1]) PROVE ~MadeDirectory(p)
  <2>1. n + 1 \in DOMAIN Steps /\ p # << >>
    BY <1>0, <1>3 DEF Apart
  <2>2. ASSUME NEW i \in DOMAIN Steps, ~Throws(Steps[i])
        PROVE  p \notin Parents(Place(Steps[i].path))
    BY <1>3, <2>1, <2>2 DEF Apart
  <2>3. ASSUME NEW i \in DOMAIN Steps, ~Throws(Steps[i]), Steps[i].op = "dir"
        PROVE  p # Place(Steps[i].path)
    BY <1>3, <2>1, <2>3 DEF Apart, Stores
  <2>4. QED
    BY <2>1, <2>2, <2>3 DEF MadeDirectory
<1>4. ~dest[p].dir => dest[p] # Directory
  BY Kinds
<1>5. dest[p] \in Foreign => ~dest[p].dir
  BY Kinds DEF Foreign
<1>6. QED
  BY <1>1, <1>2, <1>3, <1>4, <1>5

\* Somebody else's file that is in the way of a member obstructs.
LEMMA ForeignObstructs ==
  ASSUME NEW step, NEW m \in DOMAIN source.members, Puts(step, source.members[m]),
         NEW p \in DOMAIN dest, dest[p] \in Foreign,
         p = Place(step.path) \/ p \in Parents(Place(step.path))
  PROVE  Obstructed
<1>1. ~dest[p].dir /\ dest[p].data \in {Old, Alien}
  BY Kinds DEF Foreign
<1>2. QED
  BY <1>1 DEF Obstructed, Puts

\* What stays as it is, directories and the files of others do no harm.
LEMMA HonestIsKept ==
  ASSUME Honest, UNCHANGED source,
         \A p \in DOMAIN dest' :
           \/ p \in DOMAIN dest /\ dest'[p] = dest[p]
           \/ dest'[p] = Directory \/ dest'[p] \in Foreign
           \/ Holds(source.members, p, dest'[p].data) /\ Verified
  PROVE  Honest'
<1>1. SUFFICES ASSUME NEW p \in Published'
               PROVE  Holds(source.members, p, dest'[p].data) /\ Verified
  BY DEF Honest, Holds, Verified
<1>2. p \in DOMAIN dest' /\ ~dest'[p].dir /\ dest'[p].data \notin {Old, Alien}
  BY DEF Published
<1>3. dest'[p] # Directory /\ dest'[p] \notin Foreign
  BY <1>2, Kinds DEF Foreign
<1>4. CASE p \in DOMAIN dest /\ dest'[p] = dest[p]
  BY <1>2, <1>4 DEF Published, Honest
<1>5. QED
  BY <1>2, <1>3, <1>4

-----------------------------------------------------------------------------
(* Inv is inductive *)

LEMMA InitInv == Init => Inv
<1> SUFFICES ASSUME Init PROVE Inv
  OBVIOUS
<1>1. \A p \in DOMAIN dest : dest[p] \in Foreign
  BY DEF Init, Foreign
<1>2. TypeOK
  <2>1. \A p \in DOMAIN dest : dest[p].dir \in BOOLEAN
    BY <1>1, Kinds DEF Foreign
  <2>2. 0 \in 0 .. MaxReplacements
    BY ContainerJobAssumption
  <2>3. QED
    BY <2>1, <2>2 DEF Init, TypeOK
<1>3. Published = {}
  BY <1>1, Kinds DEF Published, Foreign
<1>4. QED
  BY <1>1, <1>2, <1>3 DEF Init, Inv, SourceIsPinned, ReaderIsSound, IndexIsScan, NothingYet,
    StepsAreTaken, CommitsAGoodFile, Honest, DoneMeansComplete, FailuresHaveACause, Reading, Listing

\* While the second pass runs its steps are sound.
LEMMA SoundSecondPass ==
  ASSUME Inv, pc \in Listing PROVE SoundSteps(Steps, source)
BY DEF Inv, ReaderIsSound, IndexIsScan, SoundReader, Steps

\* A job that fails leaves the destination as it is, and needs a reason.
LEMMA ThrowKeepsInv ==
  ASSUME Inv, pc \in Reading, Throw, UNCHANGED <<source, replaced, overwrite, dest>>,
         cancelled' \in BOOLEAN, Defective(source) \/ cancelled' \/ Obstructed
  PROVE  Inv'
<1>1. pc' = "failed" /\ pinned' = FALSE
  BY DEF Throw, Goto
<1>2. TypeOK'
  BY <1>1 DEF Inv, TypeOK
<1>3. Honest'
  BY DEF Inv, Honest, Published, Holds, Verified
<1>4. FailuresHaveACause'
  BY DEF FailuresHaveACause, Obstructed, Defective
<1>5. QED
  BY <1>1, <1>2, <1>3, <1>4 DEF Inv, SourceIsPinned, ReaderIsSound, IndexIsScan, NothingYet,
    StepsAreTaken, CommitsAGoodFile, DoneMeansComplete, Reading, Listing

LEMMA PinKeepsInv == ASSUME Inv, Pin PROVE Inv'
<1>1. /\ pc = "start" /\ pc' = "identify" /\ pinned' = TRUE
      /\ UNCHANGED <<source, replaced, overwrite, reader, index, script, dest, cancelled>>
  BY DEF Pin, Goto
<1>2. TypeOK' /\ Honest' /\ NothingYet'
  BY <1>1 DEF Inv, TypeOK, Honest, NothingYet, Published, Holds, Verified
<1>3. QED
  BY <1>1, <1>2 DEF Inv, SourceIsPinned, ReaderIsSound, IndexIsScan, StepsAreTaken, CommitsAGoodFile,
    DoneMeansComplete, FailuresHaveACause, Reading, Listing

LEMMA IdentifyKeepsInv == ASSUME ReadersAreSound, Inv, Identify PROVE Inv'
<1>1. PICK requested \in Requests(source) :
        /\ pc = "identify"
        /\ LET format == Format(source, requested)
           IN  IF Extractable(format) THEN reader' = format /\ Goto("scan") /\ UNCHANGED pinned
                                      ELSE Throw /\ UNCHANGED reader
        /\ UNCHANGED <<source, replaced, overwrite, index, script, dest, cancelled>>
  BY DEF Identify
<1>2. Sound(source)
  BY DEF ReadersAreSound, Inv, TypeOK
<1>3. CASE Extractable(Format(source, requested))
  <2>1. pc' = "scan" /\ reader' = Format(source, requested) /\ UNCHANGED pinned
    BY <1>1, <1>3 DEF Goto
  <2>2. SoundReader(Reader(reader'), source)
    BY <1>2, <1>3, <2>1 DEF Sound
  <2>3. TypeOK' /\ Honest' /\ NothingYet'
    BY <1>1, <2>1 DEF Inv, TypeOK, Honest, NothingYet, Published, Holds, Verified
  <2>4. ReaderIsSound'
    BY <1>1, <2>2 DEF ReaderIsSound
  <2>5. QED
    BY <1>1, <2>1, <2>3, <2>4 DEF Inv, SourceIsPinned, IndexIsScan, StepsAreTaken, CommitsAGoodFile,
      DoneMeansComplete, FailuresHaveACause, Reading, Listing
<1>4. CASE ~Extractable(Format(source, requested))
  <2>1. Defective(source)
    BY <1>2, <1>4 DEF Sound
  <2>2. cancelled' \in BOOLEAN
    BY <1>1 DEF Inv, TypeOK
  <2>3. QED
    BY <1>1, <1>4, <2>1, <2>2, ThrowKeepsInv DEF Reading
<1>5. QED
  BY <1>3, <1>4

LEMMA ReadIndexKeepsInv == ASSUME Inv, ReadIndex PROVE Inv'
<1> DEFINE first == Scan(Reader(reader), source)
<1>1. /\ pc = "scan"
      /\ \/ ~first.ok /\ Throw
         \/ first.ok /\ index' = first.entries /\ pc' = "root" /\ UNCHANGED pinned
      /\ UNCHANGED <<source, replaced, overwrite, reader, script, dest, cancelled>>
  BY DEF ReadIndex, Goto
<1>2. CASE ~first.ok /\ Throw
  <2>1. Defective(source)
    BY <1>1, <1>2 DEF Inv, ReaderIsSound, SoundReader
  <2>2. cancelled' \in BOOLEAN
    BY <1>1 DEF Inv, TypeOK
  <2>3. QED
    BY <1>1, <1>2, <2>1, <2>2, ThrowKeepsInv DEF Reading
<1>3. CASE first.ok /\ index' = first.entries /\ pc' = "root" /\ UNCHANGED pinned
  <2>1. TypeOK' /\ Honest' /\ NothingYet'
    BY <1>1, <1>3 DEF Inv, TypeOK, Honest, NothingYet, Published, Holds, Verified
  <2>2. ReaderIsSound' /\ IndexIsScan'
    BY <1>1, <1>3 DEF Inv, ReaderIsSound, IndexIsScan
  <2>3. QED
    BY <1>1, <1>3, <2>1, <2>2 DEF Inv, SourceIsPinned, StepsAreTaken, CommitsAGoodFile,
      DoneMeansComplete, FailuresHaveACause, Reading, Listing
<1>4. QED
  BY <1>1, <1>2, <1>3
\* The second pass starts: nothing is there but files of others and the root.
LEMMA MakeRootKeepsInv == ASSUME Inv, MakeRoot PROVE Inv'
<1>1. /\ pc = "root" /\ pc' = "write" /\ script' = Steps
      /\ dest' = WithDirectories({<< >>})
      /\ UNCHANGED <<source, replaced, pinned, overwrite, reader, index, cancelled>>
  BY DEF MakeRoot, Goto, Steps
<1>2. SoundSteps(Steps, source) /\ UNCHANGED Steps
  BY <1>1, SoundSecondPass DEF Listing, Steps
<1>3. \A p \in DOMAIN dest' :
        \/ p \in DOMAIN dest /\ dest'[p] = dest[p] /\ dest[p] \in Foreign
        \/ p = << >> /\ dest'[p] = Directory
  <2> DEFINE root == {<< >>}
  <2>1. dest' = WithDirectories(root)
    BY <1>1
  <2> HIDE DEF root
  <2>2. /\ DOMAIN dest' = DOMAIN dest \cup root
        /\ \A p \in DOMAIN dest : dest'[p] = dest[p]
        /\ \A p \in DOMAIN dest' \ DOMAIN dest : dest'[p] = Directory
    BY <2>1, DirectoriesAreAdded
  <2>3. \A p \in DOMAIN dest : dest[p] \in Foreign
    BY <1>1 DEF Inv, NothingYet
  <2>4. \A p \in DOMAIN dest' : p \in DOMAIN dest \/ p \in root
    BY <2>2
  <2>5. \A p \in root : p = << >>
    BY DEF root
  <2>6. QED
    BY <2>2, <2>3, <2>4, <2>5
<1>4. At(0)'
  <2>1. script' = SubSeq(Steps, 0 + 1, Len(Steps)) /\ Len(Steps) \in Nat
    BY <1>1, <1>2, SubSeqFull, LenProperties DEF SoundSteps
  <2>2. Explained(0)'
    BY <1>3 DEF Explained, MadeDirectory
  <2>3. Standing(0)'
    BY DEF Standing
  <2>4. QED
    BY <1>2, <2>1, <2>2, <2>3 DEF At
<1>5. Honest'
  BY <1>1, <1>3, HonestIsKept DEF Inv
<1>6. TypeOK'
  BY <1>1, <1>3, Kinds DEF Inv, TypeOK, Foreign
<1>7. ReaderIsSound' /\ IndexIsScan' /\ StepsAreTaken'
  BY <1>1, <1>4 DEF Inv, ReaderIsSound, IndexIsScan, StepsAreTaken, Listing
<1>8. QED
  BY <1>1, <1>5, <1>6, <1>7 DEF Inv, SourceIsPinned, NothingYet, CommitsAGoodFile,
    DoneMeansComplete, FailuresHaveACause, Reading, Listing

\* What is known of the step that is next.
Next1(n) ==
  /\ At(n) /\ n + 1 \in 1 .. Len(Steps) /\ n + 1 \in DOMAIN Steps
  /\ Step = Steps[n + 1] /\ Tail(script) = SubSeq(Steps, (n + 1) + 1, Len(Steps))

LEMMA StepIsNext ==
  ASSUME Inv, pc \in {"write", "commit"}, script # << >>
  PROVE  SoundSteps(Steps, source) /\ \E n \in Nat : Next1(n)
<1>1. SoundSteps(Steps, source)
  BY SoundSecondPass DEF Listing
<1>2. PICK n \in Nat : At(n)
  BY DEF Inv, StepsAreTaken
<1>3. Next1(n)
  BY <1>1, <1>2, NextStep, LenProperties DEF At, SoundSteps, Next1, Step
<1>4. QED
  BY <1>1, <1>3

\* A step that throws has a defect, or somebody's file is in its way.
LEMMA DefectiveStep ==
  ASSUME Inv, pc \in {"write", "commit"}, script # << >>, Throws(Step) PROVE Defective(source)
BY StepIsNext DEF Next1, SoundSteps

LEMMA FileInTheWay ==
  ASSUME Inv, pc \in {"write", "commit"}, script # << >>, NEW p \in DOMAIN dest,
         p = Target \/ p \in Parents(Target),
         ~dest[p].dir \/ (p = Target /\ Stores(Step))
  PROVE  Defective(source) \/ Obstructed
<1>1. SUFFICES ASSUME ~Throws(Step) PROVE Obstructed
  BY DefectiveStep
<1>2. SoundSteps(Steps, source)
  BY StepIsNext
<1>3. PICK n \in Nat : Next1(n)
  BY StepIsNext
<1>4. dest[p] \in Foreign
  BY <1>1, <1>2, <1>3, NothingOwnInTheWay DEF Next1, SoundSteps, Target
<1>5. PICK m \in DOMAIN source.members : Puts(Step, source.members[m])
  BY <1>1, <1>2, <1>3 DEF Next1, SoundSteps
<1>6. QED
  BY <1>4, <1>5, ForeignObstructs DEF Target

LEMMA FailuresKeepInv ==
  ASSUME Inv, Cancel \/ PayloadFails \/ DirectoryFails \/ DecodeRefuses \/ CommitFails PROVE Inv'
<1>1. /\ pc \in Reading /\ Throw /\ UNCHANGED <<source, replaced, overwrite, dest>>
      /\ cancelled' \in BOOLEAN
  BY DEF Inv, TypeOK, Reading, Cancel, PayloadFails, DirectoryFails, DecodeRefuses, CommitFails, Now
<1>2. Defective(source) \/ cancelled' \/ Obstructed
  <2>1. CASE Cancel
    BY <2>1 DEF Cancel
  <2>2. CASE PayloadFails
    BY <2>2, DefectiveStep DEF PayloadFails, Now, Throws
  <2>3. CASE DirectoryFails
    BY <2>3, FileInTheWay DEF DirectoryFails, Now, Blocked
  <2>4. CASE DecodeRefuses
    <3>1. pc = "write" /\ script # << >> /\ Step.op = "file"
      BY <2>4 DEF DecodeRefuses, Now
    <3>2. CASE Blocked(Target)
      BY <3>1, <3>2, FileInTheWay DEF Blocked
    <3>3. CASE Target \in DOMAIN dest
      BY <3>1, <3>3, FileInTheWay, DefectiveStep DEF Stores, Throws
    <3>4. QED
      BY <2>4, <3>2, <3>3 DEF DecodeRefuses
  <2>5. CASE CommitFails
    BY <2>5, FileInTheWay DEF CommitFails, Publishable, Inv, CommitsAGoodFile, Step
  <2>6. QED
    BY <2>1, <2>2, <2>3, <2>4, <2>5
<1>3. QED
  BY <1>1, <1>2, ThrowKeepsInv
-----------------------------------------------------------------------------
(* The steps that write *)

\* A directory is made where nothing is, or where one is.
LEMMA CreateDirectoryKeepsInv == ASSUME Inv, CreateDirectory PROVE Inv'
<1>1. /\ pc = "write" /\ script # << >> /\ Step.op = "dir"
      /\ Target \in DOMAIN dest => dest[Target].dir
      /\ dest' = WithDirectories(Parents(Target) \cup {Target})
      /\ script' = Tail(script)
      /\ UNCHANGED <<source, replaced, pinned, overwrite, reader, pc, index, cancelled>>
  BY DEF CreateDirectory, Now
<1>2. SoundSteps(Steps, source)
  BY <1>1, StepIsNext
<1>3. PICK n \in Nat : Next1(n)
  BY <1>1, StepIsNext
<1>4. UNCHANGED Steps
  BY <1>1 DEF Steps
<1>5. ~Throws(Step)
  BY <1>1 DEF Throws
<1>6. /\ DOMAIN dest' = DOMAIN dest \cup Parents(Target) \cup {Target}
      /\ \A p \in DOMAIN dest : dest'[p] = dest[p]
      /\ \A p \in DOMAIN dest' \ DOMAIN dest : dest'[p] = Directory
  <2> DEFINE places == Parents(Target) \cup {Target}
  <2>1. dest' = WithDirectories(places)
    BY <1>1
  <2> HIDE DEF places
  <2>2. /\ DOMAIN dest' = DOMAIN dest \cup places
        /\ \A p \in DOMAIN dest : dest'[p] = dest[p]
        /\ \A p \in DOMAIN dest' \ DOMAIN dest : dest'[p] = Directory
    BY <2>1, DirectoriesAreAdded
  <2>3. DOMAIN dest \cup places = DOMAIN dest \cup Parents(Target) \cup {Target}
    BY DEF places
  <2>4. QED
    BY <2>2, <2>3
<1>7. dest'[Target] = Directory
  <2>1. CASE Target \notin DOMAIN dest
    BY <1>6, <2>1
  <2>2. CASE Target \in DOMAIN dest
    <3>1. dest[Target] \in Foreign \/ dest[Target] = Directory \/ Written(n, Target)
      BY <1>3, <2>2 DEF Next1, At, Explained
    <3>2. dest[Target] \notin Foreign /\ ~Written(n, Target)
      BY <1>1, <2>2, Kinds DEF Written, Foreign
    <3>3. QED
      BY <1>6, <2>2, <3>1, <3>2
  <2>3. QED
    BY <2>1, <2>2
<1>8. Standing(n + 1)'
  <2>1. ASSUME NEW i \in 1 .. n
        PROVE  /\ ~Throws(Steps[i]) /\ Place(Steps[i].path) \in DOMAIN dest'
               /\ dest'[Place(Steps[i].path)] = IF Steps[i].op = "dir" THEN Directory
                                                                      ELSE Regular(Steps[i].data)
    BY <1>3, <1>6 DEF Next1, At, Standing
  <2>2. \A i \in 1 .. n + 1 : i \in 1 .. n \/ i = n + 1
    OBVIOUS
  <2>3. /\ ~Throws(Steps[n + 1]) /\ Place(Steps[n + 1].path) \in DOMAIN dest'
        /\ dest'[Place(Steps[n + 1].path)] = Directory /\ Steps[n + 1].op = "dir"
    BY <1>1, <1>3, <1>5, <1>6, <1>7 DEF Next1, Target
  <2>4. QED
    BY <1>4, <2>1, <2>2, <2>3 DEF Standing
<1>9. Explained(n + 1)'
  <2>1. ASSUME NEW p \in DOMAIN dest
        PROVE  dest'[p] \in Foreign \/ (dest'[p] = Directory /\ MadeDirectory(p)) \/ Written(n + 1, p)'
    BY <1>3, <1>4, <1>6 DEF Next1, At, Explained, Written
  <2>2. ASSUME NEW p \in DOMAIN dest', p \notin DOMAIN dest
        PROVE  dest'[p] = Directory /\ MadeDirectory(p)
    BY <1>1, <1>3, <1>5, <1>6, <2>2 DEF Next1, MadeDirectory, Target
  <2>3. QED
    BY <1>4, <2>1, <2>2 DEF Explained, MadeDirectory, Foreign
<1>10. At(n + 1)'
  BY <1>1, <1>3, <1>4, <1>8, <1>9 DEF Next1, At
<1>11. Honest'
  BY <1>1, <1>6, HonestIsKept DEF Inv
<1>12. TypeOK'
  BY <1>1, <1>6, Kinds DEF Inv, TypeOK
<1>13. ReaderIsSound' /\ IndexIsScan' /\ StepsAreTaken'
  BY <1>1, <1>10 DEF Inv, ReaderIsSound, IndexIsScan, StepsAreTaken, Listing
<1>14. QED
  BY <1>1, <1>11, <1>12, <1>13 DEF Inv, SourceIsPinned, NothingYet, CommitsAGoodFile,
    DoneMeansComplete, FailuresHaveACause, Reading, Listing
\* The directories above a step are made while its place in the script stays.
LEMMA ParentsAreMade ==
  ASSUME NEW n \in Nat, Next1(n), ~Throws(Step), UNCHANGED <<source, reader, index, script>>,
         dest' = WithDirectories(Parents(Target))
  PROVE  At(n)'
<1>1. UNCHANGED Steps
  BY DEF Steps
<1>2. /\ DOMAIN dest' = DOMAIN dest \cup Parents(Target)
      /\ \A p \in DOMAIN dest : dest'[p] = dest[p]
      /\ \A p \in DOMAIN dest' \ DOMAIN dest : dest'[p] = Directory
  BY DirectoriesAreAdded
<1>3. Standing(n)'
  BY <1>1, <1>2 DEF Next1, At, Standing
<1>4. ASSUME NEW p \in DOMAIN dest
      PROVE  dest'[p] \in Foreign \/ (dest'[p] = Directory /\ MadeDirectory(p)) \/ Written(n, p)'
  BY <1>1, <1>2 DEF Next1, At, Explained, Written
<1>5. ASSUME NEW p \in DOMAIN dest', p \notin DOMAIN dest
      PROVE  dest'[p] = Directory /\ MadeDirectory(p)
  BY <1>2, <1>5 DEF Next1, MadeDirectory, Target
<1>6. Explained(n)'
  BY <1>1, <1>4, <1>5 DEF Explained, MadeDirectory, Foreign
<1>7. QED
  BY <1>1, <1>3, <1>6 DEF Next1, At

LEMMA DecodeKeepsInv == ASSUME Inv, Decode PROVE Inv'
<1>1. /\ pc = "write" /\ script # << >> /\ Step.op = "file"
      /\ dest' = WithDirectories(Parents(Target))
      /\ IF Step.good THEN pc' = "commit" /\ UNCHANGED pinned ELSE Throw
      /\ UNCHANGED <<source, replaced, overwrite, reader, index, script, cancelled>>
  BY DEF Decode, Now, Goto
<1>2. /\ DOMAIN dest' = DOMAIN dest \cup Parents(Target)
      /\ \A p \in DOMAIN dest : dest'[p] = dest[p]
      /\ \A p \in DOMAIN dest' \ DOMAIN dest : dest'[p] = Directory
  BY <1>1, DirectoriesAreAdded
<1>3. Honest'
  BY <1>1, <1>2, HonestIsKept DEF Inv
<1>4. \A p \in DOMAIN dest' : dest'[p].dir \in BOOLEAN
  BY <1>2, Kinds DEF Inv, TypeOK
<1>5. CASE Step.good
  <2>1. pc' = "commit" /\ UNCHANGED pinned
    BY <1>1, <1>5
  <2>2. PICK n \in Nat : Next1(n)
    BY <1>1, StepIsNext
  <2>3. At(n)'
    BY <1>1, <1>5, <2>2, ParentsAreMade DEF Throws
  <2>4. CommitsAGoodFile'
    BY <1>1, <1>5 DEF CommitsAGoodFile, Stores, Step
  <2>5. TypeOK'
    BY <1>1, <1>4, <2>1 DEF Inv, TypeOK
  <2>6. ReaderIsSound' /\ IndexIsScan' /\ StepsAreTaken'
    BY <1>1, <2>3 DEF Inv, ReaderIsSound, IndexIsScan, StepsAreTaken, Listing
  <2>7. QED
    BY <1>1, <1>3, <2>1, <2>4, <2>5, <2>6 DEF Inv, SourceIsPinned, NothingYet,
      DoneMeansComplete, FailuresHaveACause, Reading, Listing
<1>6. CASE ~Step.good
  <2>1. pc' = "failed" /\ pinned' = FALSE
    BY <1>1, <1>6 DEF Throw, Goto
  <2>2. Defective(source)
    BY <1>1, <1>6, DefectiveStep DEF Throws
  <2>3. FailuresHaveACause'
    BY <1>1, <2>2 DEF FailuresHaveACause, Defective
  <2>4. TypeOK'
    BY <1>1, <1>4, <2>1 DEF Inv, TypeOK
  <2>5. QED
    BY <1>3, <2>1, <2>3, <2>4 DEF Inv, SourceIsPinned, ReaderIsSound, IndexIsScan, NothingYet,
      StepsAreTaken, CommitsAGoodFile, DoneMeansComplete, Reading, Listing
<1>7. QED
  BY <1>5, <1>6

\* The place of a file that is committed is nobody's that was written before.
LEMMA OwnPlace ==
  ASSUME NEW n \in Nat, Next1(n), SoundSteps(Steps, source), Stores(Step),
         NEW i \in 1 .. n
  PROVE  Place(Steps[i].path) # Target
<1>1. i \in DOMAIN Steps /\ i # n + 1 /\ ~Throws(Steps[i])
  BY LenProperties DEF Next1, At, Standing, SoundSteps
<1>2. ~Throws(Steps[n + 1]) /\ Stores(Steps[n + 1])
  BY DEF Next1, Stores, Throws
<1>3. QED
  BY <1>1, <1>2 DEF SoundSteps, Apart, Next1, Target

LEMMA CommitKeepsInv == ASSUME Inv, Commit PROVE Inv'
<1>1. /\ pc = "commit" /\ pc' = "write" /\ dest' = WithFile(Target, Step.data)
      /\ script' = Tail(script)
      /\ UNCHANGED <<source, replaced, pinned, overwrite, reader, index, cancelled>>
  BY DEF Commit, Goto
<1>2. script # << >> /\ Stores(Step)
  BY <1>1 DEF Inv, CommitsAGoodFile, Step
<1>3. SoundSteps(Steps, source)
  BY <1>1, <1>2, StepIsNext
<1>4. PICK n \in Nat : Next1(n)
  BY <1>1, <1>2, StepIsNext
<1>5. UNCHANGED Steps
  BY <1>1 DEF Steps
<1>6. ~Throws(Step) /\ Step.op = "file"
  BY <1>2 DEF Throws, Stores
<1>7. /\ DOMAIN dest' = DOMAIN dest \cup Parents(Target) \cup {Target}
      /\ dest'[Target] = Regular(Step.data)
      /\ \A p \in DOMAIN dest : p # Target => dest'[p] = dest[p]
      /\ \A p \in DOMAIN dest' \ DOMAIN dest : p # Target => dest'[p] = Directory
  BY <1>1, FileIsWritten
<1>8. Standing(n + 1)'
  <2>1. ASSUME NEW i \in 1 .. n
        PROVE  /\ ~Throws(Steps[i]) /\ Place(Steps[i].path) \in DOMAIN dest'
               /\ dest'[Place(Steps[i].path)] = IF Steps[i].op = "dir" THEN Directory
                                                                      ELSE Regular(Steps[i].data)
    <3>1. Place(Steps[i].path) # Target
      BY <1>2, <1>3, <1>4, OwnPlace
    <3>2. QED
      BY <1>4, <1>7, <3>1 DEF Next1, At, Standing
  <2>2. \A i \in 1 .. n + 1 : i \in 1 .. n \/ i = n + 1
    OBVIOUS
  <2>3. /\ ~Throws(Steps[n + 1]) /\ Place(Steps[n + 1].path) \in DOMAIN dest'
        /\ dest'[Place(Steps[n + 1].path)] = Regular(Steps[n + 1].data)
        /\ Steps[n + 1].op # "dir"
    BY <1>4, <1>6, <1>7 DEF Next1, Target
  <2>4. QED
    BY <1>5, <2>1, <2>2, <2>3 DEF Standing
<1>9. Explained(n + 1)'
  <2> DEFINE Now1(p) == \E i \in 1 .. n + 1 : /\ Stores(Steps[i]) /\ p = Place(Steps[i].path)
                                           /\ dest'[p] = Regular(Steps[i].data)
             Good(p) == \/ dest'[p] \in Foreign
                        \/ dest'[p] = Directory /\ MadeDirectory(p)
                        \/ Now1(p)
  <2>1. ASSUME NEW p \in DOMAIN dest, p # Target PROVE Good(p)
    BY <1>4, <1>7, <2>1 DEF Next1, At, Explained, Written
  <2>2. Now1(Target)
    <3>1. n + 1 \in 1 .. n + 1
      OBVIOUS
    <3>2. /\ Stores(Steps[n + 1]) /\ Target = Place(Steps[n + 1].path)
          /\ dest'[Target] = Regular(Steps[n + 1].data)
      BY <1>2, <1>4, <1>7 DEF Next1, Target
    <3>3. QED
      BY <3>1, <3>2
  <2>3. ASSUME NEW p \in DOMAIN dest', p \notin DOMAIN dest, p # Target
        PROVE  dest'[p] = Directory /\ MadeDirectory(p)
    BY <1>4, <1>6, <1>7, <2>3 DEF Next1, MadeDirectory, Target
  <2> HIDE DEF Now1
  <2>4. ASSUME NEW p \in DOMAIN dest' PROVE Good(p)
    <3>1. CASE p = Target
      BY <2>2, <3>1
    <3>2. CASE p # Target
      BY <2>1, <2>3, <3>2
    <3>3. QED
      BY <3>1, <3>2
  <2> USE DEF Now1
  <2>5. QED
    BY <1>5, <2>4 DEF Explained, MadeDirectory, Foreign, Written
<1>10. At(n + 1)'
  BY <1>1, <1>4, <1>5, <1>8, <1>9 DEF Next1, At
<1>11. Honest'
  <2>1. PICK m \in DOMAIN source.members : Puts(Step, source.members[m])
    BY <1>3, <1>4, <1>6 DEF Next1, SoundSteps
  <2>2. Holds(source.members, Target, Step.data)
    BY <1>6, <2>1 DEF Holds, Puts, Target
  <2>3. Verified
    BY <1>2, <1>3, <1>4 DEF Next1, SoundSteps, Verified
  <2>4. Holds(source.members, Target, dest'[Target].data)
    BY <1>7, <2>2, Kinds
  <2>5. QED
    BY <1>1, <1>7, <2>3, <2>4, HonestIsKept DEF Inv
<1>12. TypeOK'
  <2>1. ASSUME NEW p \in DOMAIN dest' PROVE dest'[p].dir \in BOOLEAN
    <3>1. \/ p \in DOMAIN dest /\ dest'[p] = dest[p]
          \/ dest'[p] = Directory \/ dest'[p] = Regular(Step.data)
      BY <1>7
    <3>2. QED
      BY <3>1, Kinds DEF Inv, TypeOK
  <2>2. QED
    BY <1>1, <2>1 DEF Inv, TypeOK
<1>13. ReaderIsSound' /\ IndexIsScan' /\ StepsAreTaken'
  BY <1>1, <1>10 DEF Inv, ReaderIsSound, IndexIsScan, StepsAreTaken, Listing
<1>14. QED
  BY <1>1, <1>11, <1>12, <1>13 DEF Inv, SourceIsPinned, NothingYet, CommitsAGoodFile,
    DoneMeansComplete, FailuresHaveACause, Reading, Listing
\* No step is left and none has thrown: every member has its place.
LEMMA FinishKeepsInv == ASSUME Inv, Finish PROVE Inv'
<1>1. /\ pc = "write" /\ pc' = "done" /\ script = << >> /\ pinned' = FALSE
      /\ UNCHANGED <<source, replaced, overwrite, reader, index, script, dest, cancelled>>
  BY DEF Finish, Goto
<1>2. SoundSteps(Steps, source)
  BY <1>1, SoundSecondPass DEF Listing
<1>3. Standing(Len(Steps)) /\ DOMAIN Steps = 1 .. Len(Steps)
  <2>1. PICK n \in Nat : At(n)
    BY <1>1 DEF Inv, StepsAreTaken
  <2>2. Len(Steps) \in Nat /\ DOMAIN Steps = 1 .. Len(Steps)
    BY <1>2, LenProperties DEF SoundSteps
  <2>3. \A i \in n + 1 .. Len(Steps) : Steps[i] \in {Steps[j] : j \in DOMAIN Steps}
    BY <2>1, <2>2
  <2>4. Len(script) = IF n + 1 <= Len(Steps) THEN Len(Steps) - (n + 1) + 1 ELSE 0
    BY <2>1, <2>2, <2>3, SubSeqProperties DEF At
  <2>5. n = Len(Steps)
    <3>1. n \in 0 .. Len(Steps)
      BY <2>1 DEF At
    <3>2. Len(script) = 0
      BY <1>1
    <3>3. QED
      <4> DEFINE k == Len(Steps)
      <4>1. n \in 0 .. k /\ k \in Nat
        BY <2>2, <3>1
      <4>2. 0 = IF n + 1 <= k THEN k - (n + 1) + 1 ELSE 0
        BY <2>4, <3>2
      <4> HIDE DEF k
      <4>3. n = k
        BY <4>1, <4>2
      <4>4. QED
        BY <4>3 DEF k
  <2>6. QED
    BY <2>1, <2>2, <2>5 DEF At
<1>4. Complete(Steps, source)
  BY <1>2, <1>3 DEF SoundSteps, Standing
<1>5. DoneMeansComplete'
  <2>1. SUFFICES ASSUME NEW m \in DOMAIN source.members
                 PROVE  LET member == source.members[m]
                        IN  /\ Place(member.path) \in DOMAIN dest
                            /\ dest[Place(member.path)] = IF member.dir THEN Directory
                                                                       ELSE Regular(member.data)
    BY <1>1 DEF DoneMeansComplete
  <2>2. PICK i \in DOMAIN Steps : Puts(Steps[i], source.members[m])
    BY <1>4 DEF Complete
  <2>3. QED
    BY <1>3, <2>2 DEF Standing, Puts
<1>6. TypeOK' /\ Honest'
  BY <1>1 DEF Inv, TypeOK, Honest, Published, Holds, Verified
<1>7. ReaderIsSound' /\ IndexIsScan'
  BY <1>1 DEF Inv, ReaderIsSound, IndexIsScan, Listing
<1>8. QED
  BY <1>1, <1>5, <1>6, <1>7 DEF Inv, SourceIsPinned, NothingYet, StepsAreTaken,
    CommitsAGoodFile, FailuresHaveACause, Reading

\* Another program replaces the source, which it can only before it is pinned.
LEMMA ReplaceKeepsInv == ASSUME Inv, Replace PROVE Inv'
<1>1. /\ ~pinned /\ pc \notin {"done", "failed"} /\ replaced < MaxReplacements
      /\ source' \in Substitutes /\ replaced' = replaced + 1
      /\ UNCHANGED <<pinned, overwrite, reader, pc, index, script, dest, cancelled>>
  BY DEF Replace
<1>2. pc = "start"
  BY <1>1 DEF Inv, TypeOK, SourceIsPinned, Reading
<1>3. Published' = {}
  BY <1>1, <1>2, Kinds DEF Inv, NothingYet, Published, Foreign
<1>4. TypeOK'
  BY <1>1, ContainerJobAssumption DEF Inv, TypeOK
<1>5. NothingYet'
  BY <1>1 DEF Inv, NothingYet
<1>6. QED
  BY <1>1, <1>2, <1>3, <1>4, <1>5 DEF Inv, SourceIsPinned, ReaderIsSound, IndexIsScan, StepsAreTaken,
    CommitsAGoodFile, Honest, DoneMeansComplete, FailuresHaveACause, Reading, Listing

\* Another program creates one file where nothing is.
LEMMA IntruderAddsOne ==
  ASSUME Intrude
  PROVE  \E p : /\ p \notin DOMAIN dest /\ DOMAIN dest' = DOMAIN dest \cup {p}
                /\ dest'[p] = Regular(Alien)
                /\ \A q \in DOMAIN dest : dest'[q] = dest[q]
<1>1. PICK p \in Intruded \ DOMAIN dest : Parents(p) \subseteq DOMAIN dest /\ dest' = WithFile(p, Alien)
  BY DEF Intrude
<1>2. QED
  BY <1>1, FileIsWritten

LEMMA IntrudeKeepsInv == ASSUME Inv, Intrude PROVE Inv'
<1>1. /\ pc \in {"root", "write", "commit"}
      /\ UNCHANGED <<source, replaced, pinned, overwrite, reader, pc, index, script, cancelled>>
  BY DEF Intrude
<1>2. PICK p : /\ p \notin DOMAIN dest /\ DOMAIN dest' = DOMAIN dest \cup {p}
               /\ dest'[p] = Regular(Alien)
               /\ \A q \in DOMAIN dest : dest'[q] = dest[q]
  BY IntruderAddsOne
<1>3. dest'[p] \in Foreign
  BY <1>2 DEF Foreign
<1>4. UNCHANGED Steps
  BY <1>1 DEF Steps
<1>5. ASSUME NEW n \in Nat, At(n) PROVE At(n)'
  <2>1. Standing(n)'
    BY <1>2, <1>4, <1>5 DEF At, Standing
  <2>2. ASSUME NEW q \in DOMAIN dest
        PROVE  dest'[q] \in Foreign \/ (dest'[q] = Directory /\ MadeDirectory(q)) \/ Written(n, q)'
    BY <1>2, <1>4, <1>5 DEF At, Explained, Written
  <2>3. Explained(n)'
    BY <1>2, <1>3, <1>4, <2>2 DEF Explained, MadeDirectory, Foreign
  <2>4. QED
    BY <1>1, <1>4, <1>5, <2>1, <2>3 DEF At
<1>6. StepsAreTaken'
  BY <1>1, <1>5 DEF Inv, StepsAreTaken
<1>7. NothingYet'
  BY <1>1, <1>2, <1>3 DEF Inv, NothingYet, Foreign
<1>8. Honest'
  BY <1>1, <1>2, <1>3, HonestIsKept DEF Inv
<1>9. TypeOK'
  <2>1. \A q \in DOMAIN dest' : dest'[q].dir \in BOOLEAN
    BY <1>2, Kinds DEF Inv, TypeOK
  <2>2. QED
    BY <1>1, <2>1 DEF Inv, TypeOK
<1>10. QED
  BY <1>1, <1>6, <1>7, <1>8, <1>9 DEF Inv, SourceIsPinned, ReaderIsSound, IndexIsScan,
    CommitsAGoodFile, DoneMeansComplete, FailuresHaveACause

LEMMA StutterKeepsInv == ASSUME Inv, UNCHANGED vars PROVE Inv'
<1>1. UNCHANGED Steps
  BY DEF vars, Steps
<1>2. (\A n \in Nat : At(n) => At(n)')
  BY <1>1 DEF vars, At, Standing, Explained, Written, MadeDirectory, Foreign
<1>3. TypeOK' /\ Honest' /\ NothingYet' /\ StepsAreTaken'
  BY <1>2 DEF vars, Inv, TypeOK, Honest, Published, Holds, Verified, NothingYet, Foreign, StepsAreTaken
<1>4. FailuresHaveACause' /\ DoneMeansComplete'
  BY DEF vars, Inv, FailuresHaveACause, DoneMeansComplete, Obstructed
<1>5. QED
  BY <1>3, <1>4 DEF vars, Inv, SourceIsPinned, ReaderIsSound, IndexIsScan, CommitsAGoodFile

-----------------------------------------------------------------------------
(* The theorems *)

LEMMA InvKept == ASSUME ReadersAreSound PROVE Inv /\ [Next]_vars => Inv'
<1> SUFFICES ASSUME Inv, [Next]_vars PROVE Inv'
  OBVIOUS
<1>1. CASE Pin
  BY <1>1, PinKeepsInv
<1>2. CASE Identify
  BY <1>2, IdentifyKeepsInv
<1>3. CASE ReadIndex
  BY <1>3, ReadIndexKeepsInv
<1>4. CASE MakeRoot
  BY <1>4, MakeRootKeepsInv
<1>5. CASE Cancel \/ PayloadFails \/ DirectoryFails \/ DecodeRefuses \/ CommitFails
  BY <1>5, FailuresKeepInv
<1>6. CASE CreateDirectory
  BY <1>6, CreateDirectoryKeepsInv
<1>7. CASE Decode
  BY <1>7, DecodeKeepsInv
<1>8. CASE Commit
  BY <1>8, CommitKeepsInv
<1>9. CASE Finish
  BY <1>9, FinishKeepsInv
<1>10. CASE Replace
  BY <1>10, ReplaceKeepsInv
<1>11. CASE Intrude
  BY <1>11, IntrudeKeepsInv
<1>12. CASE UNCHANGED vars
  BY <1>12, StutterKeepsInv
<1>13. QED
  BY <1>1, <1>2, <1>3, <1>4, <1>5, <1>6, <1>7, <1>8, <1>9, <1>10, <1>11, <1>12
    DEF Next, Program, Stopped

LEMMA InvAlways == ASSUME ReadersAreSound PROVE Spec => []Inv
BY InitInv, InvKept, PTL DEF Spec

\* Every variable keeps its type.
THEOREM TypeCorrect == ASSUME ReadersAreSound PROVE Spec => []TypeOK
<1>1. Inv => TypeOK
  BY DEF Inv
<1>2. QED
  BY <1>1, InvAlways, PTL

\* Whoever replaces the archive or creates files, and whenever, what is published
\* has the name and the content of a member of the archive at the path.
THEOREM OnlyMembersAppear == ASSUME ReadersAreSound PROVE Spec => []OnlyArchivedContent
<1>1. Inv => OnlyArchivedContent
  BY DEF Inv, Honest, OnlyArchivedContent
<1>2. QED
  BY <1>1, InvAlways, PTL

\* Nothing appears of an archive with a bad index, nor of one with a bad payload
\* where the format tells before the extraction.
THEOREM PublishedIsVerified == ASSUME ReadersAreSound PROVE Spec => []NothingBeforeVerified
<1>1. Inv => NothingBeforeVerified
  BY DEF Inv, Honest, Verified, NothingBeforeVerified
<1>2. QED
  BY <1>1, InvAlways, PTL

\* An extraction that reports success has put every member in its place, and
\* there it is still what the archive holds.
THEOREM SuccessIsComplete == ASSUME ReadersAreSound PROVE Spec => []DoneMeansComplete
<1>1. Inv => DoneMeansComplete
  BY DEF Inv
<1>2. QED
  BY <1>1, InvAlways, PTL

\* Only a defect, a cancellation or a file of somebody else makes an extraction
\* fail, never a file or a directory of its own.
THEOREM FailureHasACause == ASSUME ReadersAreSound PROVE Spec => []FailuresHaveACause
<1>1. Inv => FailuresHaveACause
  BY DEF Inv
<1>2. QED
  BY <1>1, InvAlways, PTL

\* A step that changes what is at a place is a commit, and then the place holds
\* no file that may not be overwritten.
LEMMA CommitReplacesOthersOnly ==
  ASSUME Inv, Commit, NEW p \in DOMAIN dest, ~dest[p].dir, ~overwrite \/ p \in Published
  PROVE  p \in DOMAIN dest' /\ dest'[p] = dest[p]
<1>1. pc = "commit" /\ Publishable /\ dest' = WithFile(Target, Step.data)
  BY DEF Commit
<1>2. script # << >> /\ Stores(Step)
  BY <1>1 DEF Inv, CommitsAGoodFile, Step
<1>3. SoundSteps(Steps, source)
  BY <1>1, <1>2, StepIsNext
<1>4. PICK n \in Nat : Next1(n)
  BY <1>1, <1>2, StepIsNext
<1>5. ~Throws(Steps[n + 1])
  BY <1>2, <1>4 DEF Next1, Throws, Stores
<1>6. p # Target
  <2>1. SUFFICES ASSUME p = Target PROVE FALSE
    OBVIOUS
  <2>2. p \in Published
    BY <1>1, <2>1 DEF Publishable
  <2>3. dest[p] \in Foreign
    BY <1>3, <1>4, <1>5, <2>1, NothingOwnInTheWay DEF Next1, SoundSteps, Target
  <2>4. QED
    BY <2>2, <2>3, Kinds DEF Published, Foreign
<1>7. QED
  BY <1>1, <1>6, FileIsWritten

\* A file that was there is not changed unasked, and none that this extraction
\* has published is ever changed: no two steps share a place.
THEOREM FilesAreWrittenOnce == ASSUME ReadersAreSound PROVE Spec => WrittenOnce
<1> DEFINE Kept == \A p \in DOMAIN dest :
                     ~dest[p].dir /\ (~overwrite \/ p \in Published)
                       => p \in DOMAIN dest' /\ dest'[p] = dest[p]
<1>1. Inv /\ Next => Kept
  <2> SUFFICES ASSUME Inv, Next PROVE Kept
    OBVIOUS
  <2>1. CASE UNCHANGED dest
    BY <2>1
  <2>2. CASE Commit
    BY <2>2, CommitReplacesOthersOnly
  <2>3. CASE Intrude
    BY <2>3, IntruderAddsOne
  <2>4. CASE MakeRoot \/ CreateDirectory \/ Decode
    <3>1. PICK places : dest' = WithDirectories(places)
      BY <2>4 DEF MakeRoot, CreateDirectory, Decode
    <3>2. QED
      BY <3>1, DirectoriesAreAdded
  <2>5. QED
    BY <2>1, <2>2, <2>3, <2>4 DEF Next, Program, Pin, Identify, ReadIndex, PayloadFails, DirectoryFails,
      DecodeRefuses, CommitFails, Finish, Cancel, Replace, Stopped, vars
<1>2. QED
  BY <1>1, InvAlways, PTL DEF Spec, WrittenOnce

-----------------------------------------------------------------------------
(* Names inside archives: what validate_archive_path_set finds *)

\* Bytes in a row, and the names that a path can be made of.
Text == Seq(Nat)
Separators == {Slash, Backslash}
Names == {name \in Text : name # << >> /\ \A i \in DOMAIN name : name[i] \notin Separators}

\* A set of numbers has a least one.
LEMMA LeastNumber ==
  ASSUME NEW S \in SUBSET Nat, S # {}
  PROVE  \E m \in S : \A k \in S : m <= k
<1> DEFINE R == {p \in Nat \X Nat : p[1] < p[2]}
<1>1. IsWellFoundedOn(R, Nat)
  BY NatLessThanWellFounded DEF OpToRel
<1>2. PICK m \in S : \A k \in S : ~ (<<k, m>> \in R)
  <2> HIDE DEF R
  <2> QED
    BY <1>1, WFMin
<1>3. ASSUME NEW k \in S PROVE m <= k
  <2>1. k \in Nat /\ m \in Nat /\ <<k, m>> \notin R
    BY <1>2
  <2>2. ~ (k < m)
    BY <2>1
  <2> QED
    BY <2>1, <2>2
<1> QED
  BY <1>3

\* f is what a base and a step for each number define.
Iterates(f, S, N, base, step) ==
  f \in [0 .. N -> S] /\ f[0] = base /\ \A n \in 1 .. N : f[n] = step[n][f[n - 1]]

\* A function that a base and a step for each number define has a value for all of them.
LEMMA Recursion ==
  ASSUME NEW S, NEW N \in Nat, NEW base \in S, NEW step \in [1 .. N -> [S -> S]]
  PROVE  \E f : Iterates(f, S, N, base, step)
<1> DEFINE Solved(m) ==
      \E f \in [0 .. m -> S] : f[0] = base /\ \A n \in 1 .. m : f[n] = step[n][f[n - 1]]
    Missing == {m \in 0 .. N : ~Solved(m)}
<1>1. SUFFICES ASSUME Missing # {} PROVE FALSE
  <2>1. Missing = {}
    BY <1>1
  <2>2. Solved(N)
    <3> HIDE DEF Solved
    <3> QED
      BY <2>1
  <2> HIDE DEF Missing
  <2> QED
    BY <2>2 DEF Iterates
<1>2. PICK m \in Missing : \A k \in Missing : m <= k
  <2>1. Missing \in SUBSET Nat
    <3> HIDE DEF Solved
    <3> QED
      OBVIOUS
  <2> HIDE DEF Missing
  <2> QED
    BY <1>1, <2>1, LeastNumber
<1>3. CASE m = 0
  <2> DEFINE g == [n \in 0 .. 0 |-> base]
  <2>1. g \in [0 .. 0 -> S] /\ g[0] = base
    OBVIOUS
  <2>2. Solved(0)
    <3>1. \A n \in 1 .. 0 : g[n] = step[n][g[n - 1]]
      OBVIOUS
    <3> HIDE DEF g
    <3> QED
      BY <2>1, <3>1
  <2> HIDE DEF Solved
  <2> QED
    BY <1>2, <1>3, <2>2
<1>4. CASE m # 0
  <2>1. m \in 1 .. N /\ m - 1 \in 0 .. N /\ m - 1 \notin Missing
    <3> HIDE DEF Solved
    <3> QED
      BY <1>2, <1>4
  <2>2. PICK f \in [0 .. m - 1 -> S] :
          f[0] = base /\ \A n \in 1 .. m - 1 : f[n] = step[n][f[n - 1]]
    BY <2>1
  <2> DEFINE g == [n \in 0 .. m |-> IF n = m THEN step[m][f[m - 1]] ELSE f[n]]
  <2>3. g \in [0 .. m -> S]
    BY <2>1, <2>2
  <2>4. g[0] = base
    BY <2>1, <2>2
  <2>5. ASSUME NEW n \in 1 .. m PROVE g[n] = step[n][g[n - 1]]
    BY <2>1, <2>2
  <2>6. Solved(m)
    <3> HIDE DEF g
    <3> QED
      BY <2>3, <2>4, <2>5
  <2> QED
    BY <1>2, <2>6
<1> QED
  BY <1>3, <1>4

\* Appending a byte to the component under way keeps it a name.
LEMMA NameGrows ==
  ASSUME NEW name \in Names \cup {<< >>}, NEW c \in Nat \ Separators
  PROVE  Append(name, c) \in Names
<1>1. name \in Seq(Nat) /\ \A i \in DOMAIN name : name[i] \notin Separators
  <2>1. << >> \in Seq(Nat) /\ \A i \in DOMAIN << >> : << >>[i] \notin Separators
    OBVIOUS
  <2> QED
    BY <2>1 DEF Names, Text
<1> DEFINE longer == Append(name, c)
<1>2. longer \in Seq(Nat) /\ longer # << >>
  BY <1>1
<1>3. ASSUME NEW i \in DOMAIN longer PROVE longer[i] \notin Separators
  BY <1>1
<1> QED
  BY <1>2, <1>3 DEF Names, Text

\* The recursion of Scanned holds for every byte.
LEMMA ScannedSteps ==
  ASSUME NEW path \in Text
  PROVE  LET at == Scanned(path)
         IN  /\ at \in [0 .. Len(path) -> [parts : Seq(Names), name : Names \cup {<< >>}]]
             /\ at[0] = [parts |-> << >>, name |-> << >>]
             /\ \A n \in 1 .. Len(path) :
                  at[n] = IF path[n] \in Separators
                          THEN [parts |-> FlushComponent(at[n - 1].parts, at[n - 1].name),
                                name |-> << >>]
                          ELSE [at[n - 1] EXCEPT !.name = Append(@, path[n])]
<1> DEFINE S == [parts : Seq(Names), name : Names \cup {<< >>}]
    base == [parts |-> << >>, name |-> << >>]
    Go(n, s) == IF path[n] \in Separators
                THEN [parts |-> FlushComponent(s.parts, s.name), name |-> << >>]
                ELSE [s EXCEPT !.name = Append(@, path[n])]
    step == [n \in 1 .. Len(path) |-> [s \in S |-> Go(n, s)]]
    Good(f) == f = [n \in 0 .. Len(path) |-> IF n = 0 THEN base ELSE Go(n, f[n - 1])]
<1>1. ASSUME NEW n \in 1 .. Len(path), NEW s \in S PROVE Go(n, s) \in S
  <2>1. CASE path[n] \in Separators
    <3>1. FlushComponent(s.parts, s.name) \in Seq(Names)
      <4> DEFINE parts == s.parts
          name == s.name
      <4>1. parts \in Seq(Names) /\ name \in Names \cup {<< >>}
        OBVIOUS
      <4>2. name # << >> => Append(parts, name) \in Seq(Names)
        <5> HIDE DEF parts, name
        <5> QED
          BY <4>1
      <4> HIDE DEF parts, name
      <4> QED
        BY <4>1, <4>2 DEF FlushComponent
    <3> QED
      BY <2>1, <3>1
  <2>2. CASE path[n] \notin Separators
    <3>1. path[n] \in Nat \ Separators
      BY <2>2 DEF Text
    <3>2. Append(s.name, path[n]) \in Names
      BY <3>1, NameGrows
    <3> QED
      BY <2>2, <3>2
  <2> QED
    BY <2>1, <2>2
<1>0. Len(path) \in Nat
  BY DEF Text
<1>2. base \in S /\ step \in [1 .. Len(path) -> [S -> S]] /\ Len(path) \in Nat
  <2>1. base \in S
    OBVIOUS
  <2>2. Len(path) \in Nat
    BY DEF Text
  <2> HIDE DEF S, Go
  <2> QED
    BY <1>1, <2>1, <2>2
<1>3. PICK f \in [0 .. Len(path) -> S] :
        f[0] = base /\ \A n \in 1 .. Len(path) : f[n] = step[n][f[n - 1]]
  <2> DEFINE N == Len(path)
  <2>1. N \in Nat /\ base \in S /\ step \in [1 .. N -> [S -> S]]
    BY <1>2
  <2> HIDE DEF S, base, step, N
  <2>2. \E f : Iterates(f, S, N, base, step)
    BY <2>1, Recursion
  <2> QED
    BY <2>2 DEF N, Iterates
<1>4. \A n \in 1 .. Len(path) : f[n] = Go(n, f[n - 1])
  <2>1. ASSUME NEW n \in 1 .. Len(path) PROVE f[n] = Go(n, f[n - 1])
    <3>1. n - 1 \in 0 .. Len(path)
      BY <1>2
    <3>2. f[n - 1] \in S
      BY <3>1
    <3> HIDE DEF S, Go
    <3> QED
      BY <1>3, <3>2
  <2> QED
    BY <2>1
<1>5. Good(f)
  <2> HIDE DEF S, Go, base
  <2> QED
    BY <1>2, <1>3, <1>4
<1>6. Scanned(path) = CHOOSE g : Good(g)
  BY DEF Scanned, Separators
<1>7. Good(Scanned(path))
  <2> HIDE DEF Good
  <2> QED
    BY <1>5, <1>6
<1> DEFINE at == Scanned(path)
<1>8. at[0] = base /\ \A n \in 1 .. Len(path) : at[n] = Go(n, at[n - 1])
  <2> DEFINE next == [n \in 0 .. Len(path) |-> IF n = 0 THEN base ELSE Go(n, at[n - 1])]
  <2>1. at = next
    BY <1>7
  <2> HIDE DEF Go, base, at
  <2>2. next[0] = base
    BY <1>0
  <2>3. ASSUME NEW n \in 1 .. Len(path) PROVE next[n] = Go(n, at[n - 1])
    <3>1. n \in 0 .. Len(path) /\ n # 0
      BY <1>0
    <3> QED
      BY <3>1, Zenon
  <2> HIDE DEF next
  <2> QED
    BY <2>1, <2>2, <2>3, Zenon
<1>9. at \in [0 .. Len(path) -> S]
  <2> DEFINE Bad == {n \in 0 .. Len(path) : at[n] \notin S}
  <2>1. SUFFICES ASSUME Bad # {} PROVE FALSE
    <3> HIDE DEF S, Go, base
    <3> QED
      BY <1>7, <1>2, <2>1
  <2>2. PICK m \in Bad : \A k \in Bad : m <= k
    <3>1. Bad \in SUBSET Nat
      BY <1>2
    <3> HIDE DEF Bad
    <3> QED
      BY <2>1, <3>1, LeastNumber
  <2>3. m # 0
    BY <1>2, <1>8
  <2>4. m \in 1 .. Len(path) /\ m - 1 \in 0 .. Len(path) /\ at[m - 1] \in S
    <3> HIDE DEF S, at
    <3> QED
      BY <1>2, <2>2, <2>3
  <2>5. at[m] \in S
    <3> HIDE DEF S, at, Go
    <3> QED
      BY <1>1, <1>8, <2>4
  <2> QED
    BY <2>2, <2>5
<1> QED
  BY <1>8, <1>9

\* The components that have ended and the one under way, byte by byte.
LEMMA ScannedFields ==
  ASSUME NEW path \in Text
  PROVE  LET at == Scanned(path)
         IN  /\ \A k \in 0 .. Len(path) :
                  at[k].parts \in Seq(Names) /\ at[k].name \in Names \cup {<< >>}
             /\ at[0].parts = << >> /\ at[0].name = << >>
             /\ \A k \in 1 .. Len(path) :
                  IF path[k] \in Separators
                  THEN /\ at[k].parts = FlushComponent(at[k - 1].parts, at[k - 1].name)
                       /\ at[k].name = << >>
                  ELSE /\ at[k].parts = at[k - 1].parts
                       /\ at[k].name = Append(at[k - 1].name, path[k])
<1> DEFINE at == Scanned(path)
    S == [parts : Seq(Names), name : Names \cup {<< >>}]
<1>0. Len(path) \in Nat /\ \A k \in 1 .. Len(path) : k - 1 \in 0 .. Len(path)
  BY DEF Text
<1>1. at \in [0 .. Len(path) -> S] /\ at[0] = [parts |-> << >>, name |-> << >>]
  BY ScannedSteps
<1>2. ASSUME NEW k \in 0 .. Len(path)
      PROVE  at[k] \in S /\ at[k].parts \in Seq(Names) /\ at[k].name \in Names \cup {<< >>}
  <2>1. at[k] \in S
    <3> HIDE DEF at, S
    <3> QED
      BY <1>1
  <2> HIDE DEF at
  <2> QED
    BY <2>1
<1>3. ASSUME NEW k \in 1 .. Len(path)
      PROVE  IF path[k] \in Separators
             THEN /\ at[k].parts = FlushComponent(at[k - 1].parts, at[k - 1].name)
                  /\ at[k].name = << >>
             ELSE /\ at[k].parts = at[k - 1].parts
                  /\ at[k].name = Append(at[k - 1].name, path[k])
  <2>1. at[k - 1] \in S
    BY <1>0, <1>2
  <2>2. at[k] = IF path[k] \in Separators
                THEN [parts |-> FlushComponent(at[k - 1].parts, at[k - 1].name), name |-> << >>]
                ELSE [at[k - 1] EXCEPT !.name = Append(@, path[k])]
    BY ScannedSteps
  <2> HIDE DEF at
  <2> QED
    BY <2>1, <2>2
<1> QED
  <2>1. at[0].parts = << >> /\ at[0].name = << >>
    <3> HIDE DEF at
    <3> QED
      BY <1>1
  <2> HIDE DEF at
  <2> QED
    BY <1>2, <1>3, <2>1 DEF at

\* Components yields names: none is empty and none holds a separator.
LEMMA ComponentsAreNames ==
  ASSUME NEW path \in Text
  PROVE  Components(path) \in Seq(Names)
<1> DEFINE all == Scanned(path)[Len(path)]
<1>1. Len(path) \in 0 .. Len(path)
  BY DEF Text
<1>2. all \in [parts : Seq(Names), name : Names \cup {<< >>}]
  BY <1>1, ScannedSteps
<1>3. all.parts \in Seq(Names) /\ all.name \in Names \cup {<< >>}
  <2> HIDE DEF all
  <2> QED
    BY <1>2
<1> HIDE DEF all
<1>4. all.name # << >> => Append(all.parts, all.name) \in Seq(Names)
  BY <1>3
<1> QED
  BY <1>3, <1>4 DEF Components, FlushComponent, all

-----------------------------------------------------------------------------
\* The path of the first n components, each with the separator behind it.
Ahead(parts, n) == IF n = 0 THEN << >> ELSE Append(Joined(parts)[n], Slash)

\* The recursion of Joined holds for every component.
LEMMA JoinedSteps ==
  ASSUME NEW parts \in Seq(Names)
  PROVE  LET at == Joined(parts)
         IN  /\ at \in [0 .. Len(parts) -> Text] /\ at[0] = << >>
             /\ \A n \in 1 .. Len(parts) :
                  /\ at[n] # << >>
                  /\ at[n] = IF n = 1 THEN parts[n] ELSE at[n - 1] \o <<Slash>> \o parts[n]
<1> DEFINE N == Len(parts)
    Go(n, s) == IF s = << >> THEN parts[n] ELSE s \o <<Slash>> \o parts[n]
    step == [n \in 1 .. N |-> [s \in Text |-> Go(n, s)]]
    Good(f) == f = [n \in 0 .. N |-> IF n = 0 THEN << >> ELSE Go(n, f[n - 1])]
    at == Joined(parts)
<1>0. N \in Nat /\ << >> \in Text /\ \A n \in 1 .. N : parts[n] \in Names
  BY DEF Text
<1>1. ASSUME NEW n \in 1 .. N, NEW s \in Text PROVE Go(n, s) \in Text /\ Go(n, s) # << >>
  <2>1. parts[n] \in Text /\ parts[n] # << >>
    BY <1>0 DEF Names
  <2> DEFINE part == parts[n]
  <2>2. s \o <<Slash>> \o part \in Text /\ s \o <<Slash>> \o part # << >>
    <3> HIDE DEF part
    <3> QED
      BY <2>1 DEF Text, Slash, part
  <2> QED
    BY <2>1, <2>2
<1>2. step \in [1 .. N -> [Text -> Text]]
  <2> HIDE DEF Go, N
  <2> QED
    BY <1>1
<1>3. PICK f : Iterates(f, Text, N, << >>, step)
  <2> HIDE DEF step, N
  <2> QED
    BY <1>0, <1>2, Recursion
<1>4. ASSUME NEW n \in 1 .. N PROVE f[n] = Go(n, f[n - 1])
  <2>1. f[n - 1] \in Text /\ f[n] = step[n][f[n - 1]]
    <3> HIDE DEF step, N
    <3> QED
      BY <1>0, <1>3 DEF Iterates
  <2> HIDE DEF Go, N
  <2> QED
    BY <2>1
<1>5. Good(f)
  <2>1. f \in [0 .. N -> Text] /\ f[0] = << >>
    BY <1>3 DEF Iterates
  <2> HIDE DEF Go, N
  <2> QED
    BY <1>0, <1>4, <2>1
<1>6. at = CHOOSE g : Good(g)
  BY DEF Joined
<1>7. Good(at)
  <2> HIDE DEF Good, at
  <2> QED
    BY <1>5, <1>6
<1>8. at[0] = << >> /\ \A n \in 1 .. N : at[n] = Go(n, at[n - 1])
  <2>1. at = [n \in 0 .. N |-> IF n = 0 THEN << >> ELSE Go(n, at[n - 1])]
    BY <1>7
  <2> HIDE DEF Go, at, N
  <2> QED
    BY <1>0, <2>1
<1>9. \A n \in 0 .. N : at[n] \in Text
  <2> DEFINE Bad == {n \in 0 .. N : at[n] \notin Text}
  <2>1. SUFFICES ASSUME Bad # {} PROVE FALSE
    <3> HIDE DEF at, N
    <3> QED
      BY <2>1
  <2>2. PICK m \in Bad : \A k \in Bad : m <= k
    <3>1. Bad \in SUBSET Nat
      BY <1>0
    <3> HIDE DEF Bad
    <3> QED
      BY <2>1, <3>1, LeastNumber
  <2> HIDE DEF at, Go, N
  <2>3. m # 0
    BY <1>0, <1>8
  <2>4. m \in 1 .. N /\ m - 1 \in 0 .. N /\ at[m - 1] \in Text
    BY <1>0, <2>2, <2>3
  <2>5. at[m] \in Text
    BY <1>1, <1>8, <2>4
  <2> QED
    BY <2>2, <2>5
<1>10. at \in [0 .. N -> Text]
  <2>1. at = [n \in 0 .. N |-> IF n = 0 THEN << >> ELSE Go(n, at[n - 1])]
    BY <1>7
  <2> HIDE DEF Go, at, N
  <2> QED
    BY <1>9, <2>1
<1>11. ASSUME NEW n \in 1 .. N
       PROVE  at[n] # << >> /\ at[n] = IF n = 1 THEN parts[n] ELSE at[n - 1] \o <<Slash>> \o parts[n]
  <2>1. n - 1 \in 0 .. N /\ (n # 1 => n - 1 \in 1 .. N)
    BY <1>0
  <2>2. at[n] # << >> /\ (n # 1 => at[n - 1] # << >>)
    <3>1. \A k \in 1 .. N : k - 1 \in 0 .. N
      BY <1>0
    <3> HIDE DEF Go, at, N
    <3> QED
      BY <1>1, <1>8, <1>9, <2>1, <3>1
  <2>3. at[n] = Go(n, at[n - 1]) /\ (n = 1 => at[n - 1] = << >>)
    <3> HIDE DEF Go, at, N
    <3> QED
      BY <1>8
  <2> HIDE DEF at, N
  <2> QED
    BY <2>2, <2>3
<1> QED
  BY <1>8, <1>10, <1>11

\* Two parts joined by a slash, and the two with a slash behind each.
LEMMA SlashBetween ==
  ASSUME NEW p \in Seq(Nat), NEW q \in Seq(Nat)
  PROVE  Append(p \o <<Slash>> \o q, Slash) = Append(p, Slash) \o Append(q, Slash)
<1> DEFINE l == Append(p \o <<Slash>> \o q, Slash)
    r == Append(p, Slash) \o Append(q, Slash)
<1>0. Slash \in Nat
  BY DEF Slash
<1>1. l \in Seq(Nat) /\ r \in Seq(Nat)
  BY <1>0
<1>2. Len(l) = Len(p) + Len(q) + 2 /\ Len(r) = Len(l)
  BY <1>0
<1>3. ASSUME NEW i \in 1 .. Len(l) PROVE l[i] = r[i]
  <2>1. CASE i <= Len(p)
    BY <1>0, <2>1
  <2>2. CASE i = Len(p) + 1
    BY <1>0, <2>2
  <2>3. CASE i > Len(p) + 1 /\ i < Len(l)
    BY <1>0, <2>3
  <2>4. CASE i = Len(l)
    BY <1>0, <2>4
  <2>5. i \in Int /\ i <= Len(l) /\ Len(l) \in Int /\ Len(p) \in Nat
    BY <1>2
  <2>6. i <= Len(p) \/ i = Len(p) + 1 \/ (i > Len(p) + 1 /\ i < Len(l)) \/ i = Len(l)
    <3> HIDE DEF l, r
    <3> QED
      BY <2>5
  <2> HIDE DEF l, r
  <2> QED
    BY <2>1, <2>2, <2>3, <2>4, <2>6
<1>4. l = r
  <2> HIDE DEF l, r
  <2> QED
    BY <1>1, <1>2, <1>3, SeqEqual
<1> QED
  BY <1>4

\* Each further component adds itself and a slash.
LEMMA AheadSteps ==
  ASSUME NEW parts \in Seq(Names)
  PROVE  /\ Ahead(parts, 0) = << >>
         /\ \A n \in 0 .. Len(parts) : Ahead(parts, n) \in Text
         /\ \A n \in 1 .. Len(parts) :
              Ahead(parts, n) = Ahead(parts, n - 1) \o Append(parts[n], Slash)
<1> DEFINE at == Joined(parts)
    N == Len(parts)
<1>1. N \in Nat /\ at \in [0 .. N -> Text] /\ at[0] = << >>
  BY JoinedSteps
<1>2. ASSUME NEW n \in 1 .. N
      PROVE  at[n] = IF n = 1 THEN parts[n] ELSE at[n - 1] \o <<Slash>> \o parts[n]
  BY JoinedSteps
<1>3. ASSUME NEW n \in 0 .. N PROVE Ahead(parts, n) \in Text
  <2>1. at[n] \in Seq(Nat)
    <3> HIDE DEF at, N
    <3> QED
      BY <1>1 DEF Text
  <2> HIDE DEF at
  <2> QED
    BY <2>1 DEF Ahead, Text, Slash, at
<1>4. ASSUME NEW n \in 1 .. N
      PROVE  Ahead(parts, n) = Ahead(parts, n - 1) \o Append(parts[n], Slash)
  <2> DEFINE part == parts[n]
      before == at[n - 1]
  <2>1. part \in Seq(Nat) /\ n - 1 \in 0 .. N /\ before \in Seq(Nat)
    <3>1. part \in Names
      OBVIOUS
    <3>2. n - 1 \in 0 .. N
      BY <1>1
    <3> HIDE DEF at, N
    <3> QED
      BY <1>1, <3>1, <3>2 DEF Names, Text
  <2>2. at[n] = IF n = 1 THEN part ELSE before \o <<Slash>> \o part
    BY <1>2
  <2>3. Append(before \o <<Slash>> \o part, Slash) = Append(before, Slash) \o Append(part, Slash)
    <3> HIDE DEF before, part
    <3> QED
      BY <2>1, SlashBetween
  <2>4. << >> \o Append(part, Slash) = Append(part, Slash)
    <3> HIDE DEF part
    <3> QED
      BY <2>1 DEF Slash
  <2>5. n # 0 /\ (n = 1 <=> n - 1 = 0)
    OBVIOUS
  <2>6. Ahead(parts, n) = Append(at[n], Slash)
    BY <2>5 DEF Ahead
  <2>7. Ahead(parts, n - 1) = IF n = 1 THEN << >> ELSE Append(before, Slash)
    BY <2>5 DEF Ahead
  <2> HIDE DEF at, before
  <2> QED
    BY <2>2, <2>3, <2>4, <2>6, <2>7
<1> QED
  BY <1>3, <1>4 DEF Ahead

-----------------------------------------------------------------------------
\* s begins t.
Begins(s, t) == Len(s) <= Len(t) /\ \A i \in 1 .. Len(s) : s[i] = t[i]

\* Begins is IsPrefix, byte by byte.
LEMMA BeginsIsPrefix ==
  ASSUME NEW S, NEW s \in Seq(S), NEW t \in Seq(S)
  PROVE  IsPrefix(s, t) <=> Begins(s, t)
<1>1. ASSUME Len(s) <= Len(t)
      PROVE  SubSeq(s, 1, Len(s)) = SubSeq(t, 1, Len(s)) <=> \A i \in 1 .. Len(s) : s[i] = t[i]
  <2> DEFINE a == SubSeq(s, 1, Len(s))
      b == SubSeq(t, 1, Len(s))
  <2>1. /\ a \in Seq(S) /\ b \in Seq(S) /\ Len(a) = Len(s) /\ Len(b) = Len(s)
        /\ \A i \in 1 .. Len(s) : a[i] = s[i] /\ b[i] = t[i]
    BY <1>1
  <2> HIDE DEF a, b
  <2>2. a = b <=> \A i \in 1 .. Len(s) : a[i] = b[i]
    BY <2>1, SeqEqual
  <2> QED
    BY <2>1, <2>2 DEF a, b
<1> QED
  BY <1>1 DEF IsPrefix, Begins

\* After a common part, what ends at the first separator is the same.
LEMMA FirstSlash ==
  ASSUME NEW t \in Text, NEW p \in Text, NEW a \in Names, NEW b \in Names,
         Begins(p \o Append(a, Slash), t), Begins(p \o Append(b, Slash), t)
  PROVE  a = b
<1>0. /\ p \in Seq(Nat) /\ t \in Seq(Nat) /\ a \in Seq(Nat) /\ b \in Seq(Nat) /\ Slash \in Nat
      /\ \A i \in 1 .. Len(a) : a[i] # Slash
      /\ \A i \in 1 .. Len(b) : b[i] # Slash
  BY DEF Names, Text, Separators, Slash
<1>1. ASSUME NEW x \in Names, Begins(p \o Append(x, Slash), t)
      PROVE  t[Len(p) + Len(x) + 1] = Slash /\ \A i \in 1 .. Len(x) : t[Len(p) + i] = x[i]
  <2>0. x \in Seq(Nat)
    BY DEF Names, Text
  <2> DEFINE whole == p \o Append(x, Slash)
  <2>1. /\ Len(whole) = Len(p) + Len(x) + 1 /\ whole[Len(p) + Len(x) + 1] = Slash
        /\ \A i \in 1 .. Len(x) : whole[Len(p) + i] = x[i]
    BY <1>0, <2>0
  <2>2. \A i \in 1 .. Len(whole) : whole[i] = t[i]
    BY <1>1 DEF Begins
  <2>3. \A i \in 1 .. Len(x) : Len(p) + i \in 1 .. Len(whole)
    BY <1>0, <2>0, <2>1
  <2>4. Len(p) + Len(x) + 1 \in 1 .. Len(whole)
    BY <1>0, <2>0, <2>1
  <2> HIDE DEF whole
  <2> QED
    BY <2>1, <2>2, <2>3, <2>4
<1>2. /\ t[Len(p) + Len(a) + 1] = Slash /\ \A i \in 1 .. Len(a) : t[Len(p) + i] = a[i]
      /\ t[Len(p) + Len(b) + 1] = Slash /\ \A i \in 1 .. Len(b) : t[Len(p) + i] = b[i]
  BY <1>1
<1>3. Len(a) >= Len(b)
  <2>1. SUFFICES ASSUME Len(a) < Len(b) PROVE FALSE
    BY <1>0
  <2>2. Len(a) + 1 \in 1 .. Len(b) /\ Len(p) + (Len(a) + 1) = Len(p) + Len(a) + 1
    BY <1>0, <2>1
  <2>3. t[Len(p) + (Len(a) + 1)] = b[Len(a) + 1]
    BY <1>2, <2>2
  <2>4. t[Len(p) + (Len(a) + 1)] = Slash
    BY <1>2, <2>2
  <2>5. b[Len(a) + 1] # Slash
    BY <1>0, <2>2
  <2> QED
    BY <2>3, <2>4, <2>5
<1>4. Len(b) >= Len(a)
  <2>1. SUFFICES ASSUME Len(b) < Len(a) PROVE FALSE
    BY <1>0
  <2>2. Len(b) + 1 \in 1 .. Len(a) /\ Len(p) + (Len(b) + 1) = Len(p) + Len(b) + 1
    BY <1>0, <2>1
  <2>3. t[Len(p) + (Len(b) + 1)] = a[Len(b) + 1]
    BY <1>2, <2>2
  <2>4. t[Len(p) + (Len(b) + 1)] = Slash
    BY <1>2, <2>2
  <2>5. a[Len(b) + 1] # Slash
    BY <1>0, <2>2
  <2> QED
    BY <2>3, <2>4, <2>5
<1>5. Len(a) = Len(b)
  BY <1>0, <1>3, <1>4
<1>6. \A i \in 1 .. Len(a) : a[i] = b[i]
  BY <1>2, <1>5
<1> QED
  BY <1>0, <1>5, <1>6, SeqEqual

\* What begins with a beginning of t begins t.
LEMMA BeginsTransitive ==
  ASSUME NEW r \in Text, NEW s \in Text, NEW t \in Text, Begins(r, s), Begins(s, t)
  PROVE  Begins(r, t)
<1>1. Len(r) \in Nat /\ Len(s) \in Nat /\ Len(t) \in Nat /\ Len(r) <= Len(s) /\ Len(s) <= Len(t)
  BY DEF Begins, Text
<1>2. \A i \in 1 .. Len(r) : r[i] = s[i] /\ s[i] = t[i]
  <2>1. \A i \in 1 .. Len(r) : i \in 1 .. Len(s)
    BY <1>1
  <2> QED
    BY <2>1 DEF Begins
<1>3. Len(r) <= Len(t)
  BY <1>1
<1> QED
  BY <1>2, <1>3 DEF Begins

\* A sequence begins each of its continuations.
LEMMA BeginsConcat ==
  ASSUME NEW s \in Text, NEW t \in Text
  PROVE  Begins(s, s \o t) /\ s \o t \in Text
BY DEF Begins, Text

\* A path of more components begins with the path of fewer.
LEMMA AheadGrows ==
  ASSUME NEW parts \in Seq(Names), NEW n \in 0 .. Len(parts), NEW m \in n .. Len(parts)
  PROVE  Begins(Ahead(parts, n), Ahead(parts, m))
<1> DEFINE N == Len(parts)
    Bad == {k \in n .. N : ~Begins(Ahead(parts, n), Ahead(parts, k))}
<1>0. N \in Nat /\ \A k \in 0 .. N : Ahead(parts, k) \in Text
  <2>1. N \in Nat
    OBVIOUS
  <2> QED
    BY <2>1, AheadSteps
<1>1. SUFFICES ASSUME Bad # {} PROVE FALSE
  BY <1>1
<1>2. PICK k \in Bad : \A j \in Bad : k <= j
  <2>1. Bad \in SUBSET Nat
    BY <1>0
  <2> HIDE DEF Bad
  <2> QED
    BY <1>1, <2>1, LeastNumber
<1> HIDE DEF N
<1>3. k # n
  <2>1. Ahead(parts, n) \in Seq(Nat)
    BY <1>0 DEF Text, N
  <2>2. Begins(Ahead(parts, n), Ahead(parts, n))
    BY <2>1 DEF Begins
  <2> QED
    BY <1>2, <2>2
<1>4. k \in 1 .. N /\ k - 1 \in n .. N /\ k \in 0 .. N /\ k - 1 \in 0 .. N /\ n \in 0 .. N
  BY <1>0, <1>2, <1>3 DEF N
<1>5. Begins(Ahead(parts, n), Ahead(parts, k - 1))
  BY <1>2, <1>4
<1>6. Begins(Ahead(parts, k - 1), Ahead(parts, k))
  <2>1. Ahead(parts, k) = Ahead(parts, k - 1) \o Append(parts[k], Slash)
    BY <1>4, AheadSteps DEF N
  <2>2. Append(parts[k], Slash) \in Text
    <3>1. parts[k] \in Seq(Nat)
      BY <1>4 DEF N, Names, Text
    <3> QED
      BY <3>1 DEF Slash, Text
  <2> QED
    BY <1>0, <1>4, <2>1, <2>2, BeginsConcat
<1>7. Begins(Ahead(parts, n), Ahead(parts, k))
  BY <1>0, <1>4, <1>5, <1>6, BeginsTransitive
<1> QED
  BY <1>2, <1>7

\* Paths that begin alike have the same components.
LEMMA SameAhead ==
  ASSUME NEW a \in Seq(Names), NEW b \in Seq(Names), NEW n \in 0 .. Len(a), NEW m \in 0 .. Len(b)
  PROVE  Begins(Ahead(a, n), Ahead(b, m)) <=> n <= m /\ \A i \in 1 .. n : a[i] = b[i]
<1> DEFINE Same(k) == k <= m /\ (\A i \in 1 .. k : a[i] = b[i]) /\ Ahead(a, k) = Ahead(b, k)
<1>0. /\ Len(a) \in Nat /\ Len(b) \in Nat /\ n \in Nat /\ m \in Nat
      /\ Ahead(a, 0) = << >> /\ Ahead(b, 0) = << >>
      /\ \A k \in 0 .. Len(a) : Ahead(a, k) \in Text
      /\ \A k \in 0 .. Len(b) : Ahead(b, k) \in Text
  <2>1. Len(a) \in Nat /\ Len(b) \in Nat /\ n \in Nat /\ m \in Nat
    OBVIOUS
  <2> QED
    BY <2>1, AheadSteps
<1>s. /\ \A k \in 1 .. Len(a) : Ahead(a, k) = Ahead(a, k - 1) \o Append(a[k], Slash)
      /\ \A k \in 1 .. Len(b) : Ahead(b, k) = Ahead(b, k - 1) \o Append(b[k], Slash)
  BY AheadSteps
<1>t. /\ \A k \in 1 .. Len(a) : a[k] \in Names
      /\ \A k \in 1 .. Len(b) : b[k] \in Names
  OBVIOUS
<1>u. \A x \in Names : Append(x, Slash) \in Text /\ Len(Append(x, Slash)) > 0
  BY DEF Names, Text, Slash
<1>1. ASSUME Begins(Ahead(a, n), Ahead(b, m)) PROVE n <= m /\ \A i \in 1 .. n : a[i] = b[i]
  <2> DEFINE Bad == {k \in 0 .. n : ~Same(k)}
  <2>1. SUFFICES ASSUME Bad # {} PROVE FALSE
    <3>1. n \notin Bad => Same(n)
      BY <1>0
    <3> HIDE DEF Bad
    <3> QED
      BY <2>1, <3>1
  <2>2. PICK k \in Bad : \A j \in Bad : k <= j
    <3>1. Bad \in SUBSET Nat
      OBVIOUS
    <3> HIDE DEF Bad
    <3> QED
      BY <2>1, <3>1, LeastNumber
  <2>3. k # 0
    BY <1>0, <2>2
  <2>4. k \in 1 .. n /\ k \in 1 .. Len(a) /\ k - 1 \in 0 .. n /\ k - 1 \in Nat
    BY <1>0, <2>2, <2>3
  <2>5. Same(k - 1)
    <3> HIDE DEF Same
    <3> QED
      BY <2>2, <2>4
  <2> DEFINE p == Ahead(a, k - 1)
  <2>6. p \in Text /\ p = Ahead(b, k - 1) /\ Ahead(a, k) = p \o Append(a[k], Slash)
    <3>1. k - 1 \in 0 .. Len(a)
      BY <1>0, <2>4
    <3>2. Ahead(a, k - 1) \in Text
      BY <1>0, <3>1
    <3>3. Ahead(a, k - 1) = Ahead(b, k - 1)
      BY <2>5
    <3>4. Ahead(a, k) = Ahead(a, k - 1) \o Append(a[k], Slash)
      BY <1>s, <2>4
    <3> QED
      BY <3>2, <3>3, <3>4
  <2>7. Begins(p \o Append(a[k], Slash), Ahead(b, m))
    <3>1. Begins(Ahead(a, k), Ahead(a, n))
      <4>1. k \in 0 .. Len(a) /\ n \in k .. Len(a)
        BY <1>0, <2>4
      <4> QED
        BY <4>1, AheadGrows
    <3>2. Ahead(a, k) \in Text /\ Ahead(a, n) \in Text /\ Ahead(b, m) \in Text
      <4>1. k \in 0 .. Len(a)
        BY <1>0, <2>4
      <4> QED
        BY <1>0, <4>1
    <3>3. Begins(Ahead(a, k), Ahead(b, m))
      BY <1>1, <3>1, <3>2, BeginsTransitive
    <3> QED
      BY <2>6, <3>3
  <2>8. k <= m
    <3>1. SUFFICES ASSUME k - 1 = m PROVE FALSE
      BY <1>0, <2>4, <2>5
    <3>2. Append(a[k], Slash) \in Text /\ Len(Append(a[k], Slash)) > 0
      BY <1>t, <1>u, <2>4
    <3>3. /\ Len(p) \in Nat /\ Len(p \o Append(a[k], Slash)) \in Nat
          /\ Len(p \o Append(a[k], Slash)) > Len(p)
      <4> DEFINE q == Append(a[k], Slash)
      <4>1. p \in Seq(Nat) /\ q \in Seq(Nat) /\ Len(q) > 0
        BY <2>6, <3>2 DEF Text
      <4>2. Len(p) \in Nat /\ Len(p \o q) \in Nat /\ Len(p \o q) > Len(p)
        <5> HIDE DEF p, q
        <5> QED
          BY <4>1
      <4> QED
        BY <4>2
    <3>4. Ahead(b, m) = p
      BY <2>6, <3>1
    <3>5. Len(p \o Append(a[k], Slash)) <= Len(p)
      BY <2>7, <3>4 DEF Begins
    <3> HIDE DEF p
    <3> QED
      BY <3>3, <3>5
  <2>9. k \in 1 .. Len(b) /\ k \in 0 .. Len(b) /\ m \in k .. Len(b)
    BY <1>0, <2>4, <2>8
  <2>10. Begins(p \o Append(b[k], Slash), Ahead(b, m))
    <3>1. Begins(Ahead(b, k), Ahead(b, m))
      BY <2>9, AheadGrows
    <3>2. Ahead(b, k) = p \o Append(b[k], Slash)
      BY <1>s, <2>6, <2>9
    <3> QED
      BY <3>1, <3>2
  <2>11. a[k] = b[k]
    <3> HIDE DEF p
    <3> QED
      BY <1>0, <1>t, <2>4, <2>6, <2>7, <2>9, <2>10, FirstSlash
  <2>12. Ahead(a, k) = Ahead(b, k)
    BY <1>s, <2>6, <2>9, <2>11
  <2>13. \A i \in 1 .. k : i \in 1 .. k - 1 \/ i = k
    BY <2>4
  <2>14. Same(k)
    BY <2>5, <2>8, <2>11, <2>12, <2>13
  <2> HIDE DEF Same
  <2> QED
    BY <2>2, <2>14
<1>2. ASSUME n <= m, \A i \in 1 .. n : a[i] = b[i] PROVE Begins(Ahead(a, n), Ahead(b, m))
  <2> DEFINE Bad == {k \in 0 .. n : Ahead(a, k) # Ahead(b, k)}
  <2>1. Bad = {}
    <3>1. SUFFICES ASSUME Bad # {} PROVE FALSE
      OBVIOUS
    <3>2. PICK k \in Bad : \A j \in Bad : k <= j
      <4>1. Bad \in SUBSET Nat
        OBVIOUS
      <4> HIDE DEF Bad
      <4> QED
        BY <3>1, <4>1, LeastNumber
    <3>3. k # 0
      BY <1>0, <3>2
    <3>4. k \in 1 .. n /\ k \in 1 .. Len(a) /\ k \in 1 .. Len(b) /\ k - 1 \in 0 .. n
      BY <1>0, <1>2, <3>2, <3>3
    <3>5. Ahead(a, k - 1) = Ahead(b, k - 1)
      BY <3>2, <3>4
    <3>6. Ahead(a, k) = Ahead(b, k)
      BY <1>2, <1>s, <3>4, <3>5
    <3> QED
      BY <3>2, <3>6
  <2>2. Ahead(a, n) = Ahead(b, n)
    BY <1>0, <2>1
  <2>3. n \in 0 .. Len(b) /\ m \in n .. Len(b)
    BY <1>0, <1>2
  <2> QED
    BY <2>2, <2>3, AheadGrows
<1> QED
  BY <1>1, <1>2

\* All components with a slash behind them are the path and a slash.
LEMMA AheadOfAll ==
  ASSUME NEW a \in Seq(Names), a # << >>
  PROVE  Join(a) \in Text /\ Ahead(a, Len(a)) = Append(Join(a), Slash)
<1>1. Len(a) \in Nat /\ Len(a) # 0 /\ Len(a) \in 0 .. Len(a)
  OBVIOUS
<1>2. Joined(a)[Len(a)] \in Text
  <2>1. Joined(a) \in [0 .. Len(a) -> Text]
    BY JoinedSteps
  <2> QED
    BY <1>1, <2>1
<1> QED
  BY <1>1, <1>2 DEF Join, Ahead

\* A path determines its components.
LEMMA JoinInjective ==
  ASSUME NEW a \in Seq(Names), NEW b \in Seq(Names), a # << >>, b # << >>, Join(a) = Join(b)
  PROVE  a = b
<1>1. /\ Len(a) \in Nat /\ Len(b) \in Nat /\ Len(a) \in 0 .. Len(a) /\ Len(b) \in 0 .. Len(b)
      /\ Ahead(a, Len(a)) \in Seq(Nat)
  <2>1. Len(a) \in Nat /\ Len(b) \in Nat /\ Len(a) \in 0 .. Len(a) /\ Len(b) \in 0 .. Len(b)
    OBVIOUS
  <2> QED
    BY <2>1, AheadSteps DEF Text
<1>2. Ahead(a, Len(a)) = Ahead(b, Len(b))
  BY AheadOfAll
<1>3. Begins(Ahead(a, Len(a)), Ahead(a, Len(a)))
  BY <1>1 DEF Begins
<1>4. Len(a) <= Len(b) /\ \A i \in 1 .. Len(a) : a[i] = b[i]
  BY <1>1, <1>2, <1>3, SameAhead
<1>5. Len(b) <= Len(a)
  BY <1>1, <1>2, <1>3, SameAhead
<1>6. Len(a) = Len(b)
  BY <1>1, <1>4, <1>5
<1> QED
  BY <1>4, <1>6, SeqEqual

\* What is below a path in the text is below it in the tree.
LEMMA JoinBelow ==
  ASSUME NEW a \in Seq(Names), NEW b \in Seq(Names), a # << >>, b # << >>
  PROVE  Begins(Append(Join(a), Slash), Join(b)) <=> IsPrefix(a, b) /\ a # b
<1> DEFINE x == Join(a)
    y == Join(b)
<1>1. /\ Len(a) \in Nat /\ Len(b) \in Nat /\ Len(a) \in 0 .. Len(a) /\ Len(b) \in 0 .. Len(b)
      /\ x \in Seq(Nat) /\ y \in Seq(Nat) /\ Append(x, Slash) \in Text /\ Append(y, Slash) \in Text
      /\ Slash \in Nat /\ x \in Text /\ y \in Text
  <2>1. x \in Text /\ y \in Text
    BY AheadOfAll
  <2>2. x \in Seq(Nat) /\ y \in Seq(Nat) /\ Slash \in Nat
    BY <2>1 DEF Text, Slash
  <2> HIDE DEF x, y
  <2> QED
    BY <2>1, <2>2 DEF Text
<1>2. Ahead(a, Len(a)) = Append(x, Slash) /\ Ahead(b, Len(b)) = Append(y, Slash)
  BY AheadOfAll
<1>3. Begins(Append(x, Slash), Append(y, Slash)) <=> IsPrefix(a, b)
  <2>1. IsPrefix(a, b) <=> Begins(a, b)
    BY BeginsIsPrefix
  <2>2. Begins(Ahead(a, Len(a)), Ahead(b, Len(b))) <=> Begins(a, b)
    BY <1>1, SameAhead DEF Begins
  <2> HIDE DEF x, y
  <2> QED
    BY <1>2, <2>1, <2>2
<1>4. ASSUME Begins(Append(x, Slash), y) PROVE IsPrefix(a, b) /\ a # b
  <2>1. Begins(y, Append(y, Slash))
    <3> HIDE DEF x, y
    <3> QED
      BY <1>1 DEF Begins
  <2>2. Begins(Append(x, Slash), Append(y, Slash))
    <3> HIDE DEF x, y
    <3> QED
      BY <1>1, <1>4, <2>1, BeginsTransitive
  <2>3. x # y
    <3> HIDE DEF x, y
    <3> QED
      BY <1>1, <1>4 DEF Begins
  <2> QED
    BY <1>3, <2>2, <2>3
<1>5. ASSUME IsPrefix(a, b), a # b PROVE Begins(Append(x, Slash), y)
  <2>1. Begins(Append(x, Slash), Append(y, Slash))
    BY <1>3, <1>5
  <2>2. x # y
    BY <1>5, JoinInjective
  <2>3. ASSUME Len(x) = Len(y) PROVE x = y
    <3> HIDE DEF x, y
    <3>0. \A i \in 1 .. Len(x) : i \in 1 .. Len(Append(x, Slash))
      BY <1>1
    <3>1. \A i \in 1 .. Len(x) : Append(x, Slash)[i] = Append(y, Slash)[i]
      BY <2>1, <3>0 DEF Begins
    <3>2. \A i \in 1 .. Len(x) : x[i] = y[i]
      BY <1>1, <2>3, <3>1
    <3> QED
      BY <1>1, <2>3, <3>2, SeqEqual
  <2>4. Len(x) + 1 <= Len(y)
    <3> HIDE DEF x, y
    <3>1. Len(x) \in Nat /\ Len(y) \in Nat /\ Len(Append(x, Slash)) = Len(x) + 1
          /\ Len(Append(y, Slash)) = Len(y) + 1
      BY <1>1
    <3> QED
      BY <2>1, <2>2, <2>3, <3>1 DEF Begins
  <2>5. \A i \in 1 .. Len(x) + 1 : Append(x, Slash)[i] = y[i]
    <3> HIDE DEF x, y
    <3>1. \A i \in 1 .. Len(x) + 1 : Append(x, Slash)[i] = Append(y, Slash)[i]
      BY <1>1, <2>1 DEF Begins
    <3>2. \A i \in 1 .. Len(x) + 1 : Append(y, Slash)[i] = y[i]
      BY <1>1, <2>4
    <3> QED
      BY <3>1, <3>2
  <2> HIDE DEF x, y
  <2> QED
    BY <1>1, <2>4, <2>5 DEF Begins
<1> QED
  BY <1>4, <1>5

-----------------------------------------------------------------------------
FoldParts(parts) == [i \in DOMAIN parts |-> Fold(parts[i])]

\* ToUpper makes and removes no separator and no dot.
LEMMA FoldByte ==
  ASSUME NEW c \in Nat
  PROVE  /\ ToUpper(c) \in Nat
         /\ \A d \in {Slash, Backslash, Dot} : ToUpper(c) = d <=> c = d
BY DEF ToUpper, Lower, Slash, Backslash, Dot

\* Fold keeps the length and takes each byte for itself.
LEMMA FoldText ==
  ASSUME NEW s \in Text
  PROVE  /\ Fold(s) \in Text /\ Len(Fold(s)) = Len(s)
         /\ \A i \in 1 .. Len(s) : Fold(s)[i] = ToUpper(s[i])
<1>1. s \in Seq(Nat)
  BY DEF Text
<1>2. \A i \in 1 .. Len(s) : ToUpper(s[i]) \in Nat
  <2>1. \A i \in 1 .. Len(s) : s[i] \in Nat
    BY <1>1
  <2> QED
    BY <2>1, FoldByte
<1>3. Fold(s) = [i \in 1 .. Len(s) |-> ToUpper(s[i])]
  BY <1>1 DEF Fold
<1> QED
  BY <1>1, <1>2, <1>3 DEF Text

\* A name whose case is ignored is a name, and a dot only if it was one.
LEMMA FoldName ==
  ASSUME NEW name \in Names
  PROVE  Fold(name) \in Names /\ (Fold(name) = <<Dot>> <=> name = <<Dot>>)
<1>1. name \in Text /\ name \in Seq(Nat) /\ Len(name) \in Nat /\ Len(name) # 0
      /\ \A i \in 1 .. Len(name) : name[i] \in Nat \ Separators
  BY DEF Names, Text
<1>2. /\ Fold(name) \in Seq(Nat) /\ Len(Fold(name)) = Len(name)
      /\ \A i \in 1 .. Len(name) : Fold(name)[i] = ToUpper(name[i])
  BY <1>1, FoldText DEF Text
<1>3. \A i \in 1 .. Len(name) : Fold(name)[i] \notin Separators
  BY <1>1, <1>2, FoldByte DEF Separators
<1>4. Fold(name) \in Names
  <2>1. Fold(name) # << >>
    BY <1>1, <1>2
  <2> QED
    BY <1>2, <1>3, <2>1 DEF Names, Text
<1>5. \A s \in Seq(Nat) : s = <<Dot>> <=> Len(s) = 1 /\ s[1] = Dot
  BY DEF Dot
<1>6. Len(name) = 1 => (Fold(name)[1] = Dot <=> name[1] = Dot)
  BY <1>1, <1>2, FoldByte, SMTT(30)
<1> QED
  BY <1>1, <1>2, <1>4, <1>5, <1>6

\* Fold and concatenation commute.
LEMMA FoldConcat ==
  ASSUME NEW s \in Text, NEW t \in Text
  PROVE  Fold(s \o t) = Fold(s) \o Fold(t)
<1>1. /\ s \in Seq(Nat) /\ t \in Seq(Nat) /\ s \o t \in Text
      /\ Fold(s) \in Seq(Nat) /\ Fold(t) \in Seq(Nat) /\ Fold(s \o t) \in Seq(Nat)
      /\ Len(Fold(s)) = Len(s) /\ Len(Fold(t)) = Len(t)
  <2>1. s \in Seq(Nat) /\ t \in Seq(Nat) /\ s \o t \in Text
    BY DEF Text
  <2> QED
    BY <2>1, FoldText DEF Text
<1>2. Len(Fold(s \o t)) = Len(s) + Len(t) /\ Len(Fold(s) \o Fold(t)) = Len(s) + Len(t)
  <2>1. Len(Fold(s \o t)) = Len(s \o t)
    BY <1>1, FoldText
  <2>2. Len(s \o t) = Len(s) + Len(t)
    BY <1>1
  <2>3. Len(Fold(s) \o Fold(t)) = Len(Fold(s)) + Len(Fold(t))
    BY <1>1, ConcatProperties
  <2> QED
    BY <1>1, <2>1, <2>2, <2>3
<1>3. ASSUME NEW i \in 1 .. Len(s) + Len(t)
      PROVE  Fold(s \o t)[i] = (Fold(s) \o Fold(t))[i]
  <2>1. i \in 1 .. Len(s \o t)
    BY <1>1
  <2>2. Fold(s \o t)[i] = ToUpper((s \o t)[i])
    BY <1>1, <2>1, FoldText
  <2>3. CASE i <= Len(s)
    <3>1. Fold(s)[i] = ToUpper(s[i])
      BY <1>1, <2>3, FoldText
    <3>2. (s \o t)[i] = s[i] /\ (Fold(s) \o Fold(t))[i] = Fold(s)[i]
      BY <1>1, <2>3
    <3> QED
      BY <2>2, <3>1, <3>2
  <2>4. CASE i > Len(s)
    <3>1. i - Len(s) \in 1 .. Len(t)
      BY <1>1, <2>4
    <3>2. Fold(t)[i - Len(s)] = ToUpper(t[i - Len(s)])
      BY <1>1, <3>1, FoldText
    <3>3. (s \o t)[i] = t[i - Len(s)] /\ (Fold(s) \o Fold(t))[i] = Fold(t)[i - Len(s)]
      BY <1>1, <2>4, SMTT(30)
    <3> QED
      BY <2>2, <3>2, <3>3
  <2>5. i <= Len(s) \/ i > Len(s)
    BY <1>1
  <2> QED
    BY <2>3, <2>4, <2>5
<1>4. Fold(s) \o Fold(t) \in Seq(Nat)
  BY <1>1
<1> DEFINE l == Fold(s \o t)
    r == Fold(s) \o Fold(t)
<1>5. l \in Seq(Nat) /\ r \in Seq(Nat) /\ Len(l) = Len(r) /\ \A i \in 1 .. Len(l) : l[i] = r[i]
  BY <1>1, <1>2, <1>3, <1>4
<1>6. l = r
  <2> HIDE DEF l, r
  <2> QED
    BY <1>5, SeqEqual
<1> QED
  BY <1>6

\* Fold and Append commute.
LEMMA FoldAppend ==
  ASSUME NEW s \in Text, NEW c \in Nat
  PROVE  Append(s, c) \in Text /\ Fold(Append(s, c)) = Append(Fold(s), ToUpper(c))
<1>1. <<c>> \in Text /\ s \in Seq(Nat) /\ Fold(s) \in Seq(Nat) /\ ToUpper(c) \in Nat
  BY FoldText, FoldByte DEF Text
<1>2. Append(s, c) = s \o <<c>> /\ Append(Fold(s), ToUpper(c)) = Fold(s) \o <<ToUpper(c)>>
  BY <1>1, AppendIsConcat
<1>3. Fold(<<c>>) = <<ToUpper(c)>>
  BY DEF Fold
<1>4. Append(s, c) \in Text
  BY <1>1 DEF Text
<1> QED
  BY <1>1, <1>2, <1>3, <1>4, FoldConcat

\* Names whose case is ignored are names.
LEMMA FoldedParts ==
  ASSUME NEW parts \in Seq(Names)
  PROVE  /\ FoldParts(parts) \in Seq(Names) /\ Len(FoldParts(parts)) = Len(parts)
         /\ \A i \in 1 .. Len(parts) : FoldParts(parts)[i] = Fold(parts[i])
<1>1. \A i \in 1 .. Len(parts) : Fold(parts[i]) \in Names
  BY FoldName
<1>2. FoldParts(parts) = [i \in 1 .. Len(parts) |-> Fold(parts[i])]
  BY DEF FoldParts
<1> QED
  BY <1>1, <1>2

\* Ahead and Fold commute.
LEMMA FoldedAhead ==
  ASSUME NEW parts \in Seq(Names), NEW n \in 0 .. Len(parts)
  PROVE  Fold(Ahead(parts, n)) = Ahead(FoldParts(parts), n)
<1> DEFINE N == Len(parts)
    folded == FoldParts(parts)
    Bad == {k \in 0 .. N : Fold(Ahead(parts, k)) # Ahead(folded, k)}
<1>0. /\ N \in Nat /\ \A k \in 0 .. N : Ahead(parts, k) \in Text
      /\ folded \in Seq(Names) /\ Len(folded) = N
  <2>1. N \in Nat
    OBVIOUS
  <2> QED
    BY <2>1, AheadSteps, FoldedParts
<1>1. SUFFICES ASSUME Bad # {} PROVE FALSE
  BY <1>1
<1>2. PICK k \in Bad : \A j \in Bad : k <= j
  <2>1. Bad \in SUBSET Nat
    BY <1>0
  <2> HIDE DEF Bad
  <2> QED
    BY <1>1, <2>1, LeastNumber
<1>3. k # 0
  <2>1. Ahead(parts, 0) = << >> /\ Ahead(folded, 0) = << >>
    BY DEF Ahead
  <2>2. Fold(<< >>) = << >>
    BY DEF Fold
  <2> QED
    BY <1>2, <2>1, <2>2
<1> HIDE DEF N
<1>4. k \in 1 .. N /\ k - 1 \in 0 .. N
  BY <1>0, <1>2, <1>3
<1>5. Fold(Ahead(parts, k - 1)) = Ahead(folded, k - 1)
  BY <1>2, <1>4
<1>6. Ahead(parts, k) = Ahead(parts, k - 1) \o Append(parts[k], Slash)
  BY <1>4, AheadSteps DEF N
<1>7. Ahead(folded, k) = Ahead(folded, k - 1) \o Append(Fold(parts[k]), Slash)
  <2>1. folded[k] = Fold(parts[k])
    BY <1>4, FoldedParts DEF N
  <2> HIDE DEF folded
  <2> QED
    BY <1>0, <1>4, <2>1, AheadSteps
<1>8. parts[k] \in Text
  BY <1>4 DEF N, Names
<1>9. Append(parts[k], Slash) \in Text /\ Fold(Append(parts[k], Slash)) = Append(Fold(parts[k]), Slash)
  <2>1. Slash \in Nat /\ ToUpper(Slash) = Slash
    BY DEF Slash, ToUpper, Lower
  <2> QED
    BY <1>8, <2>1, FoldAppend
<1>10. Fold(Ahead(parts, k)) = Ahead(folded, k)
  <2>1. Ahead(parts, k - 1) \in Text
    BY <1>0, <1>4
  <2> HIDE DEF folded
  <2> QED
    BY <1>5, <1>6, <1>7, <1>9, <2>1, FoldConcat
<1> QED
  BY <1>2, <1>10

\* Join and Fold commute.
LEMMA FoldedJoin ==
  ASSUME NEW parts \in Seq(Names), parts # << >>
  PROVE  Fold(Join(parts)) = Join(FoldParts(parts)) /\ FoldParts(parts) # << >>
<1> DEFINE folded == FoldParts(parts)
    x == Fold(Join(parts))
    y == Join(folded)
<1>1. /\ folded \in Seq(Names) /\ Len(folded) = Len(parts) /\ folded # << >>
      /\ Len(parts) \in 0 .. Len(parts)
  <2>1. folded \in Seq(Names) /\ Len(folded) = Len(parts)
    BY FoldedParts
  <2>2. Len(parts) # 0 /\ Len(parts) \in 0 .. Len(parts)
    OBVIOUS
  <2> HIDE DEF folded
  <2> QED
    BY <2>1, <2>2
<1>2. /\ Join(parts) \in Text /\ y \in Text
      /\ Ahead(parts, Len(parts)) = Append(Join(parts), Slash)
      /\ Ahead(folded, Len(parts)) = Append(y, Slash)
  <2> HIDE DEF folded
  <2> QED
    BY <1>1, AheadOfAll
<1>3. Fold(Append(Join(parts), Slash)) = Append(x, Slash)
  <2>1. Slash \in Nat /\ ToUpper(Slash) = Slash
    BY DEF Slash, ToUpper, Lower
  <2> QED
    BY <1>2, <2>1, FoldAppend
<1>4. Append(x, Slash) = Append(y, Slash)
  BY <1>1, <1>2, <1>3, FoldedAhead
<1>5. x \in Seq(Nat) /\ y \in Seq(Nat) /\ Slash \in Nat
  <2>1. x \in Text
    BY <1>2, FoldText
  <2> HIDE DEF x, y
  <2> QED
    BY <1>2, <2>1 DEF Text, Slash
<1>6. x = y
  <2> HIDE DEF x, y
  <2> QED
    BY <1>4, <1>5, AppendInjective
<1> QED
  BY <1>1, <1>6

\* FlushComponent and Fold commute.
LEMMA FoldedFlush ==
  ASSUME NEW parts \in Seq(Names), NEW name \in Names \cup {<< >>}
  PROVE  FoldParts(FlushComponent(parts, name)) = FlushComponent(FoldParts(parts), Fold(name))
<1>1. CASE name = << >>
  <2>1. Fold(<< >>) = << >>
    BY DEF Fold
  <2> QED
    BY <1>1, <2>1 DEF FlushComponent
<1>2. CASE name # << >>
  <2>1. name \in Names
    BY <1>2
  <2>2. Fold(name) \in Names /\ Fold(name) # << >> /\ (Fold(name) = <<Dot>> <=> name = <<Dot>>)
    BY <2>1, FoldName DEF Names
  <2>3. FoldParts(Append(parts, name)) = Append(FoldParts(parts), Fold(name))
    <3> DEFINE more == Append(parts, name)
        l == FoldParts(more)
        r == Append(FoldParts(parts), Fold(name))
        N == Len(parts)
    <3>1. /\ more \in Seq(Names) /\ Len(more) = N + 1 /\ N \in Nat /\ more[N + 1] = name
          /\ \A i \in 1 .. N : more[i] = parts[i]
      BY <2>1
    <3>2. /\ l \in Seq(Names) /\ Len(l) = N + 1
          /\ \A i \in 1 .. N + 1 : l[i] = Fold(more[i])
      <4> HIDE DEF more
      <4> QED
        BY <3>1, FoldedParts
    <3>3. /\ FoldParts(parts) \in Seq(Names) /\ Len(FoldParts(parts)) = N
          /\ \A i \in 1 .. N : FoldParts(parts)[i] = Fold(parts[i])
      BY FoldedParts
    <3>4. /\ r \in Seq(Names) /\ Len(r) = N + 1 /\ r[N + 1] = Fold(name)
          /\ \A i \in 1 .. N : r[i] = FoldParts(parts)[i]
      <4> DEFINE f == FoldParts(parts)
          g == Fold(name)
      <4>1. f \in Seq(Names) /\ Len(f) = N /\ g \in Names /\ N \in Nat
        BY <2>2, <3>1, <3>3
      <4> HIDE DEF f, g, N
      <4>2. /\ Append(f, g) \in Seq(Names) /\ Len(Append(f, g)) = N + 1 /\ Append(f, g)[N + 1] = g
            /\ \A i \in 1 .. N : Append(f, g)[i] = f[i]
        BY <4>1
      <4> QED
        BY <4>2 DEF f, g
    <3>5. \A i \in 1 .. N + 1 : i \in 1 .. N \/ i = N + 1
      BY <3>1
    <3>6. \A i \in 1 .. N + 1 : l[i] = r[i]
      <4> HIDE DEF l, r, more, N
      <4>1. ASSUME NEW i \in 1 .. N PROVE l[i] = r[i]
        <5>1. i \in 1 .. N + 1
          BY <3>1
        <5> QED
          BY <3>1, <3>2, <3>3, <3>4, <5>1
      <4>2. l[N + 1] = r[N + 1]
        <5>1. N + 1 \in 1 .. N + 1
          BY <3>1
        <5> QED
          BY <3>1, <3>2, <3>4, <5>1
      <4> QED
        BY <3>5, <4>1, <4>2
    <3>7. l = r
      <4> HIDE DEF l, r, N
      <4> QED
        BY <3>2, <3>4, <3>6, SeqEqual
    <3> QED
      BY <3>7
  <2> QED
    BY <1>2, <2>2, <2>3 DEF FlushComponent
<1> QED
  BY <1>1, <1>2

\* The components of a folded path are the folded components.
LEMMA FoldedComponents ==
  ASSUME NEW path \in Text
  PROVE  Components(Fold(path)) = FoldParts(Components(path))
<1> DEFINE N == Len(path)
    folded == Fold(path)
    at == Scanned(path)
    up == Scanned(folded)
    Alike(k) == up[k].parts = FoldParts(at[k].parts) /\ up[k].name = Fold(at[k].name)
    Bad == {k \in 0 .. N : ~Alike(k)}
<1>0. /\ N \in Nat /\ folded \in Text /\ Len(folded) = N
      /\ \A k \in 1 .. N : path[k] \in Nat /\ folded[k] = ToUpper(path[k])
  <2>1. N \in Nat /\ \A k \in 1 .. N : path[k] \in Nat
    BY DEF Text
  <2> QED
    BY <2>1, FoldText
<1>1. /\ \A k \in 0 .. N : at[k].parts \in Seq(Names) /\ at[k].name \in Names \cup {<< >>}
      /\ at[0].parts = << >> /\ at[0].name = << >>
      /\ \A k \in 1 .. N :
           IF path[k] \in Separators
           THEN at[k].parts = FlushComponent(at[k - 1].parts, at[k - 1].name) /\ at[k].name = << >>
           ELSE at[k].parts = at[k - 1].parts /\ at[k].name = Append(at[k - 1].name, path[k])
  BY <1>0, ScannedFields
<1>2. /\ up[0].parts = << >> /\ up[0].name = << >>
      /\ \A k \in 1 .. N :
           IF folded[k] \in Separators
           THEN up[k].parts = FlushComponent(up[k - 1].parts, up[k - 1].name) /\ up[k].name = << >>
           ELSE up[k].parts = up[k - 1].parts /\ up[k].name = Append(up[k - 1].name, folded[k])
  <2> HIDE DEF folded
  <2> QED
    BY <1>0, ScannedFields
<1>e. Fold(<< >>) = << >> /\ FoldParts(<< >>) = << >>
  BY DEF Fold, FoldParts
<1>3. ASSUME NEW k \in 1 .. N, Alike(k - 1) PROVE Alike(k)
  <2>1. k - 1 \in 0 .. N
    BY <1>0
  <2>2. at[k - 1].parts \in Seq(Names) /\ at[k - 1].name \in Names \cup {<< >>}
    <3> HIDE DEF at
    <3> QED
      BY <1>1, <2>1
  <2>3. path[k] \in Separators <=> folded[k] \in Separators
    <3> HIDE DEF folded, N
    <3> QED
      BY <1>0, FoldByte DEF Separators
  <2>4. CASE path[k] \in Separators
    <3>1. FoldParts(FlushComponent(at[k - 1].parts, at[k - 1].name))
            = FlushComponent(up[k - 1].parts, up[k - 1].name)
      <4> HIDE DEF at, up
      <4> QED
        BY <1>3, <2>2, FoldedFlush
    <3> HIDE DEF at, up, N, folded
    <3> QED
      BY <1>1, <1>2, <1>e, <2>3, <2>4, <3>1
  <2>5. CASE path[k] \notin Separators
    <3>1. at[k - 1].name \in Text
      <4>1. << >> \in Text
        BY DEF Text
      <4> HIDE DEF at
      <4> QED
        BY <2>2, <4>1 DEF Names
    <3>2. Fold(Append(at[k - 1].name, path[k])) = Append(up[k - 1].name, folded[k])
      <4> HIDE DEF at, up, folded, N
      <4> QED
        BY <1>0, <1>3, <3>1, FoldAppend
    <3> HIDE DEF at, up, N, folded
    <3> QED
      BY <1>1, <1>2, <1>3, <2>3, <2>5, <3>2
  <2> QED
    BY <2>4, <2>5
<1>4. Bad = {}
  <2>1. SUFFICES ASSUME Bad # {} PROVE FALSE
    OBVIOUS
  <2>2. PICK k \in Bad : \A j \in Bad : k <= j
    <3>1. Bad \in SUBSET Nat
      BY <1>0
    <3> HIDE DEF Bad
    <3> QED
      BY <2>1, <3>1, LeastNumber
  <2>3. Alike(0)
    <3> HIDE DEF at, up
    <3> QED
      BY <1>1, <1>2, <1>e
  <2> HIDE DEF Alike, N
  <2>4. k # 0
    BY <2>2, <2>3
  <2>5. k \in 1 .. N /\ k - 1 \in 0 .. N
    BY <1>0, <2>2, <2>4
  <2>6. Alike(k - 1)
    BY <2>2, <2>5
  <2> QED
    BY <1>3, <2>2, <2>5, <2>6
<1>5. Alike(N)
  <2> HIDE DEF Alike, N
  <2> QED
    BY <1>0, <1>4
<1>6. /\ Components(path) = FlushComponent(at[N].parts, at[N].name)
      /\ Components(folded) = FlushComponent(up[N].parts, up[N].name)
  BY <1>0 DEF Components
<1>7. at[N].parts \in Seq(Names) /\ at[N].name \in Names \cup {<< >>}
  <2> HIDE DEF at, N
  <2> QED
    BY <1>0, <1>1
<1>8. Components(folded) = FoldParts(Components(path))
  <2> HIDE DEF at, up, N, folded
  <2> QED
    BY <1>5, <1>6, <1>7, FoldedFlush
<1> QED
  BY <1>8

-----------------------------------------------------------------------------
\* x comes before y in a lexicographic order, and k is where that is decided.
DecidedAt(x, y, k) ==
  /\ k \in 1 .. Len(y) /\ k - 1 <= Len(x)
  /\ \A j \in 1 .. k - 1 : x[j] = y[j]
  /\ k <= Len(x) => x[k] < y[k]
Lex(x, y) == \E k \in 1 .. Len(y) : DecidedAt(x, y, k)

\* LessName is the lexicographic order of the folded names.
LEMMA LessIsLex ==
  ASSUME NEW a \in Text, NEW b \in Text
  PROVE  LessName(a, b) <=> Lex(Fold(a), Fold(b))
<1> DEFINE x == Fold(a)
    y == Fold(b)
    Smaller == \E i \in DOMAIN x \cap DOMAIN y : x[i] < y[i] /\ \A j \in 1 .. i - 1 : x[j] = y[j]
<1>1. x \in Seq(Nat) /\ y \in Seq(Nat) /\ x \in Text /\ y \in Text
  BY FoldText DEF Text
<1>2. LessName(a, b) <=> (Begins(x, y) /\ x # y) \/ Smaller
  <2>1. IsPrefix(x, y) <=> Begins(x, y)
    <3> HIDE DEF x, y
    <3> QED
      BY <1>1, BeginsIsPrefix
  <2>2. LessName(a, b) <=> IsStrictPrefix(x, y) \/ Smaller
    BY DEF LessName
  <2> HIDE DEF x, y
  <2> QED
    BY <2>1, <2>2 DEF IsStrictPrefix
<1> HIDE DEF x, y
<1>3. ASSUME Begins(x, y), x # y PROVE Lex(x, y)
  <2>1. Len(x) # Len(y)
    BY <1>1, <1>3, SeqEqual DEF Begins
  <2>2. Len(x) + 1 \in 1 .. Len(y) /\ Len(x) \in Nat
    BY <1>1, <1>3, <2>1 DEF Begins
  <2>3. DecidedAt(x, y, Len(x) + 1)
    BY <1>3, <2>2 DEF DecidedAt, Begins
  <2> QED
    BY <2>2, <2>3 DEF Lex
<1>4. ASSUME Smaller PROVE Lex(x, y)
  <2>1. PICK i \in DOMAIN x \cap DOMAIN y : x[i] < y[i] /\ \A j \in 1 .. i - 1 : x[j] = y[j]
    BY <1>4
  <2>2. i \in 1 .. Len(x) /\ i \in 1 .. Len(y)
    BY <1>1
  <2> QED
    BY <1>1, <2>1, <2>2 DEF Lex, DecidedAt
<1>5. ASSUME Lex(x, y) PROVE (Begins(x, y) /\ x # y) \/ Smaller
  <2>1. PICK k \in 1 .. Len(y) : DecidedAt(x, y, k)
    BY <1>5 DEF Lex
  <2>2. CASE k <= Len(x)
    <3>1. k \in DOMAIN x \cap DOMAIN y
      BY <1>1, <2>2
    <3> QED
      BY <2>1, <2>2, <3>1 DEF DecidedAt
  <2>3. CASE k > Len(x)
    <3>1. k = Len(x) + 1
      BY <1>1, <2>1, <2>3 DEF DecidedAt
    <3>2. Begins(x, y)
      BY <1>1, <2>1, <3>1 DEF DecidedAt, Begins
    <3>3. x # y
      BY <1>1, <3>1
    <3> QED
      BY <3>2, <3>3
  <2>4. k <= Len(x) \/ k > Len(x)
    BY <1>1
  <2> QED
    BY <2>2, <2>3, <2>4
<1> QED
  BY <1>2, <1>3, <1>4, <1>5 DEF x, y

\* No name is less than itself.
LEMMA LexIrreflexive ==
  ASSUME NEW x \in Text
  PROVE  ~Lex(x, x)
<1>1. x \in Seq(Nat)
  BY DEF Text
<1> QED
  BY <1>1 DEF Lex, DecidedAt

\* Of two different names one is the less.
LEMMA LexTotal ==
  ASSUME NEW x \in Text, NEW y \in Text, x # y
  PROVE  Lex(x, y) \/ Lex(y, x)
<1>1. x \in Seq(Nat) /\ y \in Seq(Nat) /\ Len(x) \in Nat /\ Len(y) \in Nat
  BY DEF Text
<1> DEFINE Same(k) == k <= Len(x) /\ k <= Len(y) /\ x[k] = y[k]
    Off == {k \in Nat : 1 <= k /\ (k <= Len(x) \/ k <= Len(y)) /\ ~Same(k)}
<1>2. Off # {}
  <2>1. SUFFICES ASSUME Off = {} PROVE x = y
    OBVIOUS
  <2>2. Len(x) = Len(y)
    <3>1. ASSUME Len(x) >= 1 PROVE Len(x) <= Len(y)
      <4>1. Len(x) \notin Off
        BY <2>1
      <4>2. Same(Len(x))
        <5> HIDE DEF Same
        <5> QED
          BY <1>1, <3>1, <4>1
      <4> QED
        BY <4>2
    <3>2. ASSUME Len(y) >= 1 PROVE Len(y) <= Len(x)
      <4>1. Len(y) \notin Off
        BY <2>1
      <4>2. Same(Len(y))
        <5> HIDE DEF Same
        <5> QED
          BY <1>1, <3>2, <4>1
      <4> QED
        BY <4>2
    <3> QED
      BY <1>1, <3>1, <3>2
  <2>3. \A k \in 1 .. Len(x) : x[k] = y[k]
    BY <1>1, <2>1
  <2> QED
    BY <1>1, <2>2, <2>3, SeqEqual
<1>3. PICK k \in Off : \A j \in Off : k <= j
  <2>1. Off \in SUBSET Nat
    OBVIOUS
  <2> HIDE DEF Off
  <2> QED
    BY <1>2, <2>1, LeastNumber
<1>4. k \in Nat /\ 1 <= k /\ (k <= Len(x) \/ k <= Len(y)) /\ ~Same(k)
  BY <1>3
<1>5. \A j \in 1 .. k - 1 : Same(j)
  <2>1. ASSUME NEW j \in 1 .. k - 1 PROVE Same(j)
    <3>1. j \in Nat /\ 1 <= j /\ j < k /\ (j <= Len(x) \/ j <= Len(y))
      BY <1>1, <1>4
    <3>2. j \notin Off
      BY <1>3, <1>4, <3>1
    <3> HIDE DEF Same
    <3> QED
      BY <3>1, <3>2
  <2> QED
    BY <2>1
<1>6. k - 1 <= Len(x) /\ k - 1 <= Len(y)
  <2>1. k = 1 \/ k - 1 \in 1 .. k - 1
    BY <1>4
  <2> QED
    BY <1>1, <1>4, <1>5, <2>1
<1>7. CASE k <= Len(x) /\ k <= Len(y)
  <2>1. x[k] \in Nat /\ y[k] \in Nat /\ x[k] # y[k]
    BY <1>1, <1>4, <1>7
  <2>2. x[k] < y[k] \/ y[k] < x[k]
    BY <2>1
  <2>3. k \in 1 .. Len(x) /\ k \in 1 .. Len(y)
    BY <1>1, <1>4, <1>7
  <2> QED
    BY <1>5, <1>6, <2>2, <2>3 DEF Lex, DecidedAt
<1>8. CASE k > Len(x)
  <2>1. k \in 1 .. Len(y) /\ ~(k <= Len(x))
    BY <1>1, <1>4, <1>8
  <2>2. DecidedAt(x, y, k)
    BY <1>5, <1>6, <2>1 DEF DecidedAt
  <2> QED
    BY <2>1, <2>2 DEF Lex
<1>9. CASE k > Len(y)
  <2>1. k \in 1 .. Len(x) /\ ~(k <= Len(y))
    BY <1>1, <1>4, <1>9
  <2>2. DecidedAt(y, x, k)
    BY <1>5, <1>6, <2>1 DEF DecidedAt
  <2> QED
    BY <2>1, <2>2 DEF Lex
<1>10. (k <= Len(x) /\ k <= Len(y)) \/ k > Len(x) \/ k > Len(y)
  BY <1>1, <1>4
<1> QED
  BY <1>7, <1>8, <1>9, <1>10

\* Lex is transitive.
LEMMA LexTransitive ==
  ASSUME NEW x \in Text, NEW y \in Text, NEW z \in Text, Lex(x, y), Lex(y, z)
  PROVE  Lex(x, z)
<1>1. /\ Len(x) \in Nat /\ Len(y) \in Nat /\ Len(z) \in Nat
      /\ \A i \in 1 .. Len(x) : x[i] \in Nat
      /\ \A i \in 1 .. Len(y) : y[i] \in Nat
      /\ \A i \in 1 .. Len(z) : z[i] \in Nat
  BY DEF Text
<1>2. PICK k \in 1 .. Len(y) : DecidedAt(x, y, k)
  BY DEF Lex
<1>3. PICK l \in 1 .. Len(z) : DecidedAt(y, z, l)
  BY DEF Lex
<1>4. /\ k \in Nat /\ l \in Nat /\ k >= 1 /\ l >= 1 /\ k <= Len(y) /\ l <= Len(z)
      /\ k - 1 <= Len(x) /\ l - 1 <= Len(y)
  BY <1>1, <1>2, <1>3 DEF DecidedAt
<1>5. CASE k <= l
  <2>1. k \in 1 .. Len(z)
    BY <1>1, <1>4, <1>5
  <2>2. ASSUME NEW j \in 1 .. k - 1 PROVE x[j] = z[j]
    <3>1. j \in 1 .. l - 1
      BY <1>4, <1>5
    <3> QED
      BY <1>2, <1>3, <3>1 DEF DecidedAt
  <2>3. ASSUME k <= Len(x) PROVE x[k] < z[k]
    <3>1. x[k] < y[k] /\ x[k] \in Nat /\ y[k] \in Nat /\ z[k] \in Nat
      BY <1>1, <1>2, <1>4, <2>1, <2>3 DEF DecidedAt
    <3>2. CASE k < l
      <4>1. k \in 1 .. l - 1
        BY <1>4, <3>2
      <4> QED
        BY <1>3, <3>1, <4>1 DEF DecidedAt
    <3>3. CASE k = l
      <4>1. y[k] < z[k]
        BY <1>3, <1>4, <3>3 DEF DecidedAt
      <4> QED
        BY <3>1, <4>1
    <3> QED
      BY <1>4, <1>5, <3>2, <3>3
  <2>4. DecidedAt(x, z, k)
    BY <1>4, <2>1, <2>2, <2>3 DEF DecidedAt
  <2> QED
    BY <2>1, <2>4 DEF Lex
<1>6. CASE l < k
  <2>1. l \in 1 .. k - 1 /\ l <= Len(y) /\ l - 1 <= Len(x)
    BY <1>1, <1>4, <1>6
  <2>2. ASSUME NEW j \in 1 .. l - 1 PROVE x[j] = z[j]
    <3>1. j \in 1 .. k - 1
      BY <1>4, <1>6
    <3> QED
      BY <1>2, <1>3, <3>1 DEF DecidedAt
  <2>3. x[l] < z[l]
    <3>1. x[l] = y[l] /\ y[l] < z[l]
      BY <1>2, <1>3, <2>1 DEF DecidedAt
    <3> QED
      BY <3>1
  <2>4. DecidedAt(x, z, l)
    BY <2>1, <2>2, <2>3 DEF DecidedAt
  <2> QED
    BY <2>4 DEF Lex
<1> QED
  BY <1>4, <1>5, <1>6

\* No name is less than one that it goes on from.
LEMMA LexBegins ==
  ASSUME NEW x \in Text, NEW z \in Text, Begins(x, z)
  PROVE  ~Lex(z, x)
<1>1. Len(x) \in Nat /\ Len(z) \in Nat /\ \A i \in 1 .. Len(x) : x[i] \in Nat
  BY DEF Text
<1>2. SUFFICES ASSUME NEW k \in 1 .. Len(x), DecidedAt(z, x, k) PROVE FALSE
  BY DEF Lex
<1>3. x[k] = z[k] /\ k <= Len(z) /\ x[k] \in Nat
  BY <1>1 DEF Begins
<1> QED
  BY <1>2, <1>3 DEF DecidedAt

\* What lies between a text and a continuation of it continues it too.
LEMMA LexBetween ==
  ASSUME NEW x \in Text, NEW y \in Text, NEW z \in Text, Begins(x, z), ~Lex(y, x), ~Lex(z, y)
  PROVE  Begins(x, y)
<1>1. /\ Len(x) \in Nat /\ Len(y) \in Nat /\ Len(z) \in Nat /\ Len(x) <= Len(z)
      /\ \A i \in 1 .. Len(x) : x[i] \in Nat /\ x[i] = z[i]
      /\ \A i \in 1 .. Len(y) : y[i] \in Nat
  BY DEF Text, Begins
<1> DEFINE Same(k) == k <= Len(y) /\ x[k] = y[k]
    Off == {k \in 1 .. Len(x) : ~Same(k)}
<1>2. SUFFICES ASSUME Off # {} PROVE FALSE
  <2>1. ASSUME Off = {} PROVE Begins(x, y)
    <3>1. \A k \in 1 .. Len(x) : Same(k)
      <4> HIDE DEF Same
      <4> QED
        BY <2>1
    <3>2. Len(x) <= Len(y)
      <4>1. Len(x) = 0 \/ Len(x) \in 1 .. Len(x)
        BY <1>1
      <4> QED
        BY <1>1, <3>1, <4>1
    <3> QED
      BY <3>1, <3>2 DEF Begins
  <2> HIDE DEF Off
  <2> QED
    BY <2>1
<1>3. PICK k \in Off : \A j \in Off : k <= j
  <2>1. Off \in SUBSET Nat
    OBVIOUS
  <2> HIDE DEF Off
  <2> QED
    BY <1>2, <2>1, LeastNumber
<1>4. k \in 1 .. Len(x) /\ ~Same(k) /\ k \in Nat /\ k >= 1 /\ k <= Len(x)
  BY <1>1, <1>3
<1>5. ASSUME NEW j \in 1 .. k - 1 PROVE Same(j) /\ x[j] = z[j]
  <2>1. j \in 1 .. Len(x) /\ j < k /\ j \in Nat
    BY <1>1, <1>4
  <2>2. j \notin Off
    BY <1>3, <1>4, <2>1
  <2> HIDE DEF Same
  <2> QED
    BY <1>1, <2>1, <2>2
<1>6. k - 1 <= Len(y)
  <2>1. k = 1 \/ k - 1 \in 1 .. k - 1
    BY <1>4
  <2> QED
    BY <1>1, <1>4, <1>5, <2>1
<1>7. CASE k > Len(y) \/ y[k] < x[k]
  <2>1. k <= Len(y) => y[k] < x[k]
    BY <1>1, <1>4, <1>7
  <2>2. DecidedAt(y, x, k)
    BY <1>4, <1>5, <1>6, <2>1 DEF DecidedAt
  <2> QED
    BY <1>4, <2>2 DEF Lex
<1>8. CASE k <= Len(y) /\ x[k] < y[k]
  <2>1. k \in 1 .. Len(y) /\ z[k] < y[k] /\ k - 1 <= Len(z)
    BY <1>1, <1>4, <1>8
  <2>2. \A j \in 1 .. k - 1 : z[j] = y[j]
    BY <1>5
  <2>3. DecidedAt(z, y, k)
    BY <2>1, <2>2 DEF DecidedAt
  <2> QED
    BY <2>1, <2>3 DEF Lex
<1>9. k <= Len(y) => x[k] \in Nat /\ y[k] \in Nat /\ x[k] # y[k]
  BY <1>1, <1>4
<1> QED
  BY <1>1, <1>4, <1>7, <1>8, <1>9

-----------------------------------------------------------------------------
\* The numbers 1 .. n are n.
LEMMA FirstNumbers ==
  ASSUME NEW n \in Nat
  PROVE  IsFiniteSet(1 .. n) /\ Cardinality(1 .. n) = n
<1>1. 1 \in Int /\ n \in Int /\ (1 > n => n = 0)
  OBVIOUS
<1> QED
  BY <1>1, FS_Interval

\* The member of S with k - 1 others ahead of it, for every k.
Ranked(P, S, n) == [k \in 1 .. n |-> CHOOSE i \in S : Cardinality(P[i]) = k - 1]

\* With a strict total order, the one with k - 1 others ahead of it is the k-th.
LEMMA Ranks ==
  ASSUME NEW S, IsFiniteSet(S), NEW n, n = Cardinality(S), NEW P \in [S -> SUBSET S],
         \A i \in S : i \notin P[i],
         \A i \in S : \A j \in P[i] : P[j] \subseteq P[i],
         \A i, j \in S : i # j => i \in P[j] \/ j \in P[i]
  PROVE  /\ n \in Nat
         /\ Ranked(P, S, n) \in [1 .. n -> S]
         /\ \A i \in S : \E k \in 1 .. n : Ranked(P, S, n)[k] = i
         /\ \A k \in 1 .. n : Cardinality(P[Ranked(P, S, n)[k]]) = k - 1
         /\ \A k, l \in 1 .. n : k < l => Ranked(P, S, n)[k] \in P[Ranked(P, S, n)[l]]
<1> DEFINE at == Ranked(P, S, n)
    r == [i \in S |-> Cardinality(P[i]) + 1]
<1>1. n \in Nat /\ IsFiniteSet(1 .. n) /\ Cardinality(1 .. n) = n
  <2>1. n \in Nat
    BY FS_CardinalityType
  <2> QED
    BY <2>1, FirstNumbers
<1>2. ASSUME NEW i \in S
      PROVE  IsFiniteSet(P[i]) /\ Cardinality(P[i]) \in Nat /\ Cardinality(P[i]) < n
  <2>1. P[i] \in SUBSET S /\ P[i] # S
    OBVIOUS
  <2>2. IsFiniteSet(P[i]) /\ Cardinality(P[i]) <= n /\ Cardinality(P[i]) # n
    BY <2>1, FS_Subset
  <2>3. Cardinality(P[i]) \in Nat
    BY <2>2, FS_CardinalityType
  <2> QED
    BY <1>1, <2>2, <2>3
<1>3. ASSUME NEW i \in S, NEW j \in P[i] PROVE Cardinality(P[j]) < Cardinality(P[i])
  <2>1. j \in S /\ P[j] \in SUBSET P[i] /\ P[j] # P[i]
    OBVIOUS
  <2>2. Cardinality(P[j]) <= Cardinality(P[i]) /\ Cardinality(P[i]) # Cardinality(P[j])
    BY <1>2, <2>1, FS_Subset
  <2> QED
    BY <1>2, <2>1, <2>2
<1>4. r \in [S -> 1 .. n] /\ \A i \in S : r[i] = Cardinality(P[i]) + 1
  BY <1>1, <1>2
<1>5. ASSUME NEW i \in S, NEW j \in S, i # j PROVE Cardinality(P[i]) # Cardinality(P[j])
  <2>1. i \in P[j] \/ j \in P[i]
    BY <1>5
  <2>2. Cardinality(P[i]) < Cardinality(P[j]) \/ Cardinality(P[j]) < Cardinality(P[i])
    BY <1>3, <2>1
  <2> QED
    BY <1>2, <2>2
<1>6. r \in Injection(S, 1 .. n)
  <2>1. \A i, j \in S : r[i] = r[j] => i = j
    BY <1>2, <1>5
  <2> HIDE DEF r
  <2> QED
    BY <1>4, <2>1, Fun_IsInj
<1>7. r \in Surjection(S, 1 .. n)
  <2> HIDE DEF r
  <2> QED
    BY <1>1, <1>6, FS_Injection
<1>8. ASSUME NEW k \in 1 .. n PROVE \E i \in S : Cardinality(P[i]) = k - 1
  <2>1. PICK i \in S : r[i] = k
    <3> DEFINE T == 1 .. n
    <3> HIDE DEF r, T
    <3>1. r \in Surjection(S, T)
      BY <1>7 DEF T
    <3>2. \A t \in T : \E i \in S : r[i] = t
      BY <3>1, Fun_SurjectionProperties
    <3> QED
      BY <3>2 DEF T
  <2> QED
    BY <1>1, <1>2, <2>1
<1>9. ASSUME NEW k \in 1 .. n PROVE at[k] \in S /\ Cardinality(P[at[k]]) = k - 1
  BY <1>8 DEF Ranked
<1>10. at \in [1 .. n -> S]
  BY <1>9 DEF Ranked
<1> HIDE DEF at
<1>11. ASSUME NEW i \in S PROVE \E k \in 1 .. n : at[k] = i
  <2>1. Cardinality(P[i]) + 1 \in 1 .. n
    BY <1>1, <1>2
  <2>2. Cardinality(P[at[Cardinality(P[i]) + 1]]) = Cardinality(P[i])
    BY <1>2, <1>9, <2>1
  <2> QED
    BY <1>5, <1>9, <2>1, <2>2
<1>12. ASSUME NEW k \in 1 .. n, NEW l \in 1 .. n, k < l PROVE at[k] \in P[at[l]]
  <2>1. at[k] # at[l]
    BY <1>1, <1>9, <1>12
  <2>2. at[l] \notin P[at[k]]
    BY <1>1, <1>3, <1>9, <1>12
  <2> QED
    BY <1>9, <2>1, <2>2
<1> QED
  BY <1>1, <1>9, <1>10, <1>11, <1>12 DEF at

-----------------------------------------------------------------------------
\* A descendant is what begins with its parent and a slash.
LEMMA DescendantBegins ==
  ASSUME NEW child \in Text, NEW parent \in Text
  PROVE  Descendant(child, parent) <=> Begins(Append(Fold(parent), Slash), Fold(child))
<1> DEFINE c == Fold(child)
    p == Fold(parent)
    N == Len(parent)
    begin == SubSeq(child, 1, N)
<1>1. /\ child \in Seq(Nat) /\ N \in Nat /\ Len(child) \in Nat /\ p \in Seq(Nat) /\ Len(p) = N
      /\ c \in Seq(Nat) /\ Len(c) = Len(child) /\ Slash \in Nat
      /\ \A i \in 1 .. Len(child) : child[i] \in Nat /\ c[i] = ToUpper(child[i])
  <2>1. child \in Seq(Nat) /\ parent \in Seq(Nat)
    BY DEF Text
  <2>2. p \in Seq(Nat) /\ Len(p) = N /\ c \in Seq(Nat) /\ Len(c) = Len(child)
        /\ \A i \in 1 .. Len(child) : c[i] = ToUpper(child[i])
    BY FoldText DEF Text
  <2>3. N \in Nat /\ Len(child) \in Nat /\ \A i \in 1 .. Len(child) : child[i] \in Nat
    BY <2>1
  <2> HIDE DEF c, p, N
  <2> QED
    BY <2>1, <2>2, <2>3 DEF Slash
<1>2. ASSUME Len(child) > N
      PROVE  /\ child[N + 1] = Slash <=> c[N + 1] = Slash
             /\ SameName(begin, parent) <=> \A i \in 1 .. N : p[i] = c[i]
  <2>1. N + 1 \in 1 .. Len(child) /\ child[N + 1] \in Nat /\ c[N + 1] = ToUpper(child[N + 1])
    <3> HIDE DEF c, N
    <3> QED
      BY <1>1, <1>2
  <2>2. begin \in Seq(Nat) /\ Len(begin) = N /\ \A i \in 1 .. N : begin[i] = child[i]
    <3> HIDE DEF N
    <3> QED
      BY <1>1, <1>2
  <2>3. /\ Fold(begin) \in Seq(Nat) /\ Len(Fold(begin)) = N
        /\ \A i \in 1 .. N : Fold(begin)[i] = ToUpper(begin[i])
    <3> HIDE DEF begin
    <3> QED
      BY <2>2, FoldText DEF Text
  <2>4. ASSUME NEW i \in 1 .. N PROVE Fold(begin)[i] = c[i]
    <3> HIDE DEF begin, c, N
    <3>1. i \in 1 .. Len(child)
      BY <1>1, <1>2
    <3>2. Fold(begin)[i] = ToUpper(begin[i]) /\ begin[i] = child[i]
      BY <2>2, <2>3
    <3>3. c[i] = ToUpper(child[i])
      BY <1>1, <3>1
    <3> QED
      BY <3>2, <3>3
  <2>5. Fold(begin) = p <=> \A i \in 1 .. N : Fold(begin)[i] = p[i]
    <3> HIDE DEF begin, p, N
    <3> QED
      BY <1>1, <2>3, SeqEqual
  <2> HIDE DEF c, N, begin
  <2> QED
    BY <2>1, <2>4, <2>5, FoldByte DEF SameName
<1>3. Begins(Append(p, Slash), c) <=>
        Len(child) > N /\ c[N + 1] = Slash /\ \A i \in 1 .. N : p[i] = c[i]
  <2> HIDE DEF p, c, N
  <2>1. /\ Len(Append(p, Slash)) = N + 1 /\ Append(p, Slash)[N + 1] = Slash
        /\ \A i \in 1 .. N : Append(p, Slash)[i] = p[i]
    BY <1>1
  <2>2. 1 .. N + 1 = (1 .. N) \cup {N + 1}
    BY <1>1
  <2>3. (\A i \in 1 .. N + 1 : Append(p, Slash)[i] = c[i])
          <=> c[N + 1] = Slash /\ \A i \in 1 .. N : p[i] = c[i]
    BY <2>1, <2>2
  <2>4. N + 1 <= Len(c) <=> Len(child) > N
    BY <1>1
  <2> QED
    BY <2>1, <2>3, <2>4 DEF Begins
<1> QED
  <2> HIDE DEF c, p
  <2> QED
    BY <1>2, <1>3 DEF Descendant, c, p

\* The entries of a set whose names are valid, and their folded names in the order
\* in which they are sorted.
LEMMA KeyOfEntry ==
  ASSUME NEW path \in Text, ValidPath(path)
  PROVE  LET f == Components(Fold(path))
         IN  /\ Key(path) \in Text
             /\ f \in Seq(Names) /\ f # << >> /\ Fold(Key(path)) = Join(f)
<1> DEFINE parts == Components(path)
<1>1. parts \in Seq(Names) /\ parts # << >>
  <2>1. Len(parts) \in 1 .. MaxComponents
    BY DEF ValidPath, PlainParts
  <2>2. parts \in Seq(Names)
    BY ComponentsAreNames
  <2> HIDE DEF parts
  <2> QED
    BY <2>1, <2>2
<1>2. Components(Fold(path)) = FoldParts(parts)
  BY FoldedComponents
<1>3. Key(path) = Join(parts)
  BY DEF Key
<1> HIDE DEF parts
<1> QED
  BY <1>1, <1>2, <1>3, AheadOfAll, FoldedJoin, FoldedParts

\* What std::sort leaves: a permutation at of the entries in which no name comes
\* before one that stands earlier.
LEMMA SortedInOrder ==
  ASSUME NEW n \in Nat, NEW entries, DOMAIN entries = 1 .. n,
         \A i \in 1 .. n : Key(entries[i].path) \in Text
  PROVE  \E at \in [1 .. n -> 1 .. n] :
           /\ \A i \in 1 .. n : \E k \in 1 .. n : at[k] = i
           /\ \A k, l \in 1 .. n : k # l => at[k] # at[l]
           /\ Sorted(entries) = [k \in 1 .. n |-> [key |-> Key(entries[at[k]].path),
                                                   dir |-> entries[at[k]].dir]]
           /\ \A k, l \in 1 .. n :
                k < l => ~Lex(Fold(Key(entries[at[l]].path)), Fold(Key(entries[at[k]].path)))
<1> DEFINE named == Keyed(entries)
    x(i) == Fold(Key(entries[i].path))
    P == [i \in 1 .. n |-> Preceding(named, i)]
    at == Ranked(P, 1 .. n, n)
<1>1. /\ DOMAIN named = 1 .. n
      /\ \A i \in 1 .. n : named[i] = [key |-> Key(entries[i].path), dir |-> entries[i].dir]
  BY DEF Keyed
<1>2. \A i \in 1 .. n : x(i) \in Text
  BY FoldText
<1>3. ASSUME NEW i \in 1 .. n
      PROVE  P[i] = {j \in 1 .. n : Lex(x(j), x(i)) \/ (x(j) = x(i) /\ j < i)}
  <2>1. \A j \in 1 .. n : LessName(named[j].key, named[i].key) <=> Lex(x(j), x(i))
    BY <1>1, LessIsLex
  <2>2. \A j \in 1 .. n : SameName(named[j].key, named[i].key) <=> x(j) = x(i)
    BY <1>1 DEF SameName
  <2> HIDE DEF x, named
  <2> QED
    BY <1>1, <2>1, <2>2 DEF Preceding
<1> HIDE DEF named, x
<1>4. P \in [1 .. n -> SUBSET (1 .. n)]
  <2>1. \A i \in 1 .. n : Preceding(named, i) \in SUBSET (1 .. n)
    BY <1>1 DEF Preceding
  <2> QED
    BY <2>1
<1> HIDE DEF P
<1>5. \A i \in 1 .. n : i \notin P[i]
  BY <1>2, <1>3, LexIrreflexive
<1>6. ASSUME NEW i \in 1 .. n, NEW j \in P[i], NEW k \in P[j] PROVE k \in P[i]
  <2>1. j \in 1 .. n /\ k \in 1 .. n
    BY <1>4
  <2>2. Lex(x(j), x(i)) \/ (x(j) = x(i) /\ j < i)
    BY <1>3
  <2>3. Lex(x(k), x(j)) \/ (x(k) = x(j) /\ k < j)
    BY <1>3, <2>1
  <2>4. Lex(x(k), x(i)) \/ (x(k) = x(i) /\ k < i)
    BY <1>2, <2>1, <2>2, <2>3, LexTransitive
  <2> QED
    BY <1>3, <2>1, <2>4
<1>7. \A i, j \in 1 .. n : i # j => i \in P[j] \/ j \in P[i]
  <2>1. ASSUME NEW i \in 1 .. n, NEW j \in 1 .. n, i # j PROVE i \in P[j] \/ j \in P[i]
    <3>1. i < j \/ j < i
      BY <2>1
    <3> QED
      BY <1>2, <1>3, <3>1, LexTotal
  <2> QED
    BY <2>1
<1>8. /\ at \in [1 .. n -> 1 .. n]
      /\ \A i \in 1 .. n : \E k \in 1 .. n : at[k] = i
      /\ \A k, l \in 1 .. n : k < l => at[k] \in P[at[l]]
  <2>1. \A i \in 1 .. n : \A j \in P[i] : P[j] \subseteq P[i]
    BY <1>6
  <2> DEFINE S == 1 .. n
      ranked == Ranked(P, S, n)
  <2>2. IsFiniteSet(S) /\ n = Cardinality(S)
    BY FirstNumbers
  <2>3. /\ P \in [S -> SUBSET S] /\ \A i \in S : i \notin P[i]
        /\ \A i \in S : \A j \in P[i] : P[j] \subseteq P[i]
        /\ \A i, j \in S : i # j => i \in P[j] \/ j \in P[i]
    BY <1>4, <1>5, <1>7, <2>1
  <2>4. at = ranked
    OBVIOUS
  <2>5. /\ ranked \in [1 .. n -> S]
        /\ \A i \in S : \E k \in 1 .. n : ranked[k] = i
        /\ \A k, l \in 1 .. n : k < l => ranked[k] \in P[ranked[l]]
    <3> HIDE DEF S, at
    <3> QED
      BY <2>2, <2>3, Ranks, SMTT(30)
  <2> HIDE DEF at, ranked
  <2> QED
    BY <2>4, <2>5
<1>9. Sorted(entries) = [k \in 1 .. n |-> [key |-> Key(entries[at[k]].path),
                                           dir |-> entries[at[k]].dir]]
  <2>1. Sorted(entries)
          = [k \in 1 .. n |-> named[CHOOSE i \in 1 .. n : Cardinality(Preceding(named, i)) = k - 1]]
    BY <1>1 DEF Sorted, named
  <2>2. ASSUME NEW k \in 1 .. n
        PROVE  at[k] = CHOOSE i \in 1 .. n : Cardinality(Preceding(named, i)) = k - 1
    <3>1. \A i \in 1 .. n : P[i] = Preceding(named, i)
      BY DEF P
    <3> QED
      BY <3>1 DEF Ranked
  <2>3. \A k \in 1 .. n : at[k] \in 1 .. n
    <3> HIDE DEF at
    <3> QED
      BY <1>8
  <2>4. ASSUME NEW k \in 1 .. n
        PROVE  named[at[k]] = [key |-> Key(entries[at[k]].path), dir |-> entries[at[k]].dir]
    BY <1>1, <2>3
  <2>5. Sorted(entries) = [k \in 1 .. n |-> named[at[k]]]
    <3> DEFINE chosen(k) == CHOOSE i \in 1 .. n : Cardinality(Preceding(named, i)) = k - 1
    <3>1. Sorted(entries) = [k \in 1 .. n |-> named[chosen(k)]]
      BY <2>1
    <3>2. \A k \in 1 .. n : at[k] = chosen(k)
      BY <2>2
    <3> HIDE DEF at, chosen
    <3> QED
      BY <3>1, <3>2
  <2> HIDE DEF at
  <2> QED
    BY <2>4, <2>5
<1>10. ASSUME NEW k \in 1 .. n, NEW l \in 1 .. n, k < l
       PROVE  at[k] # at[l] /\ ~Lex(x(at[l]), x(at[k]))
  <2> HIDE DEF at
  <2>1. at[k] \in 1 .. n /\ at[l] \in 1 .. n /\ at[k] \in P[at[l]]
    BY <1>8, <1>10
  <2>2. at[k] # at[l]
    BY <1>5, <2>1
  <2>3. Lex(x(at[k]), x(at[l])) \/ x(at[k]) = x(at[l])
    BY <1>3, <2>1
  <2>4. ~Lex(x(at[l]), x(at[k]))
    BY <1>2, <2>1, <2>3, LexTransitive, LexIrreflexive
  <2> QED
    BY <2>2, <2>4
<1>11. \A k, l \in 1 .. n : k # l => at[k] # at[l]
  <2>1. \A k, l \in 1 .. n : k # l => k < l \/ l < k
    OBVIOUS
  <2> HIDE DEF at
  <2> QED
    BY <1>10, <2>1
<1> HIDE DEF at
<1> QED
  BY <1>8, <1>9, <1>10, <1>11 DEF x

\* In a sorted sequence, a name that comes twice stands next to itself, and a child
\* of a name stands where that name followed by a separator would.
LEMMA SortedNeighbours ==
  ASSUME NEW n \in Nat, NEW sorted, DOMAIN sorted = 1 .. n, Len(sorted) = n,
         \A k \in 1 .. n : sorted[k].key \in Text,
         \A k, l \in 1 .. n : k < l => ~Lex(Fold(sorted[l].key), Fold(sorted[k].key))
  PROVE  /\ (\A k \in 2 .. n : ~SameName(sorted[k - 1].key, sorted[k].key))
              <=> \A k, l \in 1 .. n : k < l => Fold(sorted[k].key) # Fold(sorted[l].key)
         /\ \A k \in 1 .. n :
              HasChild(sorted, sorted[k].key) <=>
                \E l \in 1 .. n : Begins(Append(Fold(sorted[k].key), Slash), Fold(sorted[l].key))
<1> DEFINE x(k) == Fold(sorted[k].key)
<1>1. \A k \in 1 .. n : x(k) \in Text
  BY FoldText
<1>2. ASSUME \A k \in 2 .. n : ~SameName(sorted[k - 1].key, sorted[k].key),
             NEW k \in 1 .. n, NEW l \in 1 .. n, k < l, x(k) = x(l)
      PROVE  FALSE
  <2>1. k + 1 \in 2 .. n /\ k + 1 \in 1 .. n /\ k < k + 1 /\ (k + 1 < l \/ k + 1 = l) /\ (k + 1) - 1 = k
    BY <1>2
  <2>2. x(k) # x(k + 1)
    BY <1>2, <2>1 DEF SameName
  <2>3. ~Lex(x(k + 1), x(k))
    BY <2>1
  <2>4. ~Lex(x(k), x(k + 1))
    BY <1>2, <2>1, <2>2
  <2> HIDE DEF x
  <2> QED
    BY <1>1, <2>1, <2>2, <2>3, <2>4, LexTotal
<1>3. ASSUME \A k, l \in 1 .. n : k < l => x(k) # x(l), NEW k \in 2 .. n
      PROVE  ~SameName(sorted[k - 1].key, sorted[k].key)
  <2>1. k - 1 \in 1 .. n /\ k \in 1 .. n /\ k - 1 < k
    OBVIOUS
  <2> QED
    BY <1>3, <2>1 DEF SameName
<1>4. ASSUME NEW k \in 1 .. n
      PROVE  HasChild(sorted, sorted[k].key) <=> \E l \in 1 .. n : Begins(Append(x(k), Slash), x(l))
  <2> DEFINE key == sorted[k].key
      z == Append(x(k), Slash)
      Behind == {l \in 1 .. n : ~LessName(sorted[l].key, Append(key, Slash))}
      child == IF Behind # {} THEN Min(Behind) ELSE 0
  <2>1. HasChild(sorted, key) <=> child # 0 /\ Descendant(sorted[child].key, key)
    BY DEF HasChild, SelectInSeq
  <2>2. z \in Text /\ Append(key, Slash) \in Text /\ Fold(Append(key, Slash)) = z
    <3>1. Slash \in Nat /\ ToUpper(Slash) = Slash
      BY DEF Slash, ToUpper, Lower
    <3> QED
      BY <3>1, FoldAppend, FoldText
  <2>3. Behind = {l \in 1 .. n : ~Lex(x(l), z)}
    BY <2>2, LessIsLex
  <2>4. ASSUME Behind # {} PROVE child \in Behind /\ \A l \in Behind : child <= l
    <3>1. \E l \in Behind : \A m \in Behind : l <= m
      <4>1. Behind \in SUBSET Nat
        OBVIOUS
      <4> HIDE DEF Behind
      <4> QED
        BY <2>4, <4>1, LeastNumber
    <3> HIDE DEF Behind
    <3> QED
      BY <2>4, <3>1 DEF Min
  <2>5. \A l \in 1 .. n : Descendant(sorted[l].key, key) <=> Begins(z, x(l))
    BY DescendantBegins
  <2>6. ASSUME HasChild(sorted, key) PROVE \E l \in 1 .. n : Begins(z, x(l))
    <3>1. child \in 1 .. n
      <4>1. Behind # {}
        BY <2>1, <2>6
      <4> QED
        BY <2>4, <4>1
    <3> HIDE DEF child, x, key, z
    <3> QED
      BY <2>1, <2>5, <2>6, <3>1
  <2>7. ASSUME NEW l \in 1 .. n, Begins(z, x(l)) PROVE HasChild(sorted, key)
    <3>1. l \in Behind
      <4> HIDE DEF x, z, Behind
      <4> QED
        BY <1>1, <2>2, <2>3, <2>7, LexBegins
    <3>2. child \in Behind /\ child <= l
      BY <2>4, <3>1
    <3>3. child \in 1 .. n /\ ~Lex(x(child), z)
      <4> HIDE DEF x, z, child
      <4> QED
        BY <2>3, <3>2
    <3>4. ~Lex(x(l), x(child))
      <4> HIDE DEF child
      <4>1. child < l \/ child = l
        BY <3>2, <3>3
      <4>2. ~Lex(x(l), x(l))
        BY <1>1, LexIrreflexive
      <4> QED
        BY <3>3, <4>1, <4>2
    <3>5. Begins(z, x(child))
      <4> HIDE DEF x, z, child
      <4> QED
        BY <1>1, <2>2, <2>7, <3>3, <3>4, LexBetween
    <3> HIDE DEF child, x, z
    <3> QED
      BY <2>1, <2>5, <3>3, <3>5
  <2> HIDE DEF x, z
  <2> QED
    BY <2>6, <2>7 DEF key, z
<1> QED
  BY <1>2, <1>3, <1>4

\* validate_archive_path_set accepts an index exactly when all of its entries have a
\* place of their own in one tree of a file system that ignores case, and no file
\* has to be a directory: sorting the names, comparing neighbours and looking up
\* the first name behind key/ finds every collision.
THEOREM ValidPathSetIsOneTree ==
  ASSUME NEW n \in Nat, NEW entries, DOMAIN entries = 1 .. n,
         \A i \in 1 .. n : entries[i].path \in Seq(Nat)
  PROVE  ValidPathSet(entries) <=> OneTree(entries)
<1>1. SUFFICES ASSUME \A i \in 1 .. n : ValidPath(entries[i].path)
               PROVE  NoCollision(Sorted(entries)) <=>
                        \A i, j \in 1 .. n : i # j =>
                          LET a == Components(Fold(entries[i].path))
                              b == Components(Fold(entries[j].path))
                          IN  a # b /\ (~entries[i].dir => ~IsPrefix(a, b))
  BY DEF ValidPathSet, OneTree
<1> DEFINE f(i) == Components(Fold(entries[i].path))
    key(i) == Key(entries[i].path)
    x(i) == Fold(key(i))
<1>2. ASSUME NEW i \in 1 .. n
      PROVE  key(i) \in Text /\ f(i) \in Seq(Names) /\ f(i) # << >> /\ x(i) = Join(f(i))
  <2>1. entries[i].path \in Text
    BY DEF Text
  <2> QED
    BY <1>1, <2>1, KeyOfEntry
<1>3. PICK at \in [1 .. n -> 1 .. n] :
        /\ \A i \in 1 .. n : \E k \in 1 .. n : at[k] = i
        /\ \A k, l \in 1 .. n : k # l => at[k] # at[l]
        /\ Sorted(entries) = [k \in 1 .. n |-> [key |-> key(at[k]), dir |-> entries[at[k]].dir]]
        /\ \A k, l \in 1 .. n : k < l => ~Lex(x(at[l]), x(at[k]))
  BY <1>2, SortedInOrder
<1> DEFINE sorted == Sorted(entries)
<1>4. /\ DOMAIN sorted = 1 .. n /\ Len(sorted) = n
      /\ \A k \in 1 .. n : sorted[k].key = key(at[k]) /\ sorted[k].dir = entries[at[k]].dir
  <2>1. DOMAIN sorted = 1 .. n
    BY <1>3
  <2>2. \A k \in 1 .. n : sorted[k] = [key |-> key(at[k]), dir |-> entries[at[k]].dir]
    BY <1>3
  <2>3. ASSUME NEW k \in 1 .. n
        PROVE  sorted[k].key = key(at[k]) /\ sorted[k].dir = entries[at[k]].dir
    <3>1. sorted[k] = [key |-> key(at[k]), dir |-> entries[at[k]].dir]
      BY <2>2
    <3> HIDE DEF sorted, key
    <3> QED
      BY <3>1
  <2>4. Len(sorted) = n
    <3> HIDE DEF key
    <3>1. sorted \in Seq({sorted[k] : k \in 1 .. n})
      BY <1>3
    <3> HIDE DEF sorted
    <3> QED
      BY <2>1, <3>1
  <2> QED
    BY <2>1, <2>3, <2>4
<1> HIDE DEF sorted, key, f
<1>5. /\ (\A k \in 2 .. n : ~SameName(sorted[k - 1].key, sorted[k].key))
           <=> \A k, l \in 1 .. n : k < l => x(at[k]) # x(at[l])
      /\ \A k \in 1 .. n : HasChild(sorted, sorted[k].key) <=>
           \E l \in 1 .. n : Begins(Append(x(at[k]), Slash), x(at[l]))
  <2>1. \A k \in 1 .. n : sorted[k].key \in Text /\ Fold(sorted[k].key) = x(at[k])
    <3>1. ASSUME NEW k \in 1 .. n PROVE sorted[k].key \in Text /\ Fold(sorted[k].key) = x(at[k])
      <4>1. at[k] \in 1 .. n /\ sorted[k].key = key(at[k])
        BY <1>4
      <4> QED
        BY <1>2, <4>1
    <3> QED
      BY <3>1
  <2>2. \A k, l \in 1 .. n : k < l => ~Lex(Fold(sorted[l].key), Fold(sorted[k].key))
    BY <1>3, <2>1
  <2>3. /\ (\A k \in 2 .. n : ~SameName(sorted[k - 1].key, sorted[k].key))
              <=> \A k, l \in 1 .. n : k < l => Fold(sorted[k].key) # Fold(sorted[l].key)
        /\ \A k \in 1 .. n :
              HasChild(sorted, sorted[k].key) <=>
                \E l \in 1 .. n : Begins(Append(Fold(sorted[k].key), Slash), Fold(sorted[l].key))
    BY <1>4, <2>1, <2>2, SortedNeighbours
  <2> HIDE DEF x
  <2> QED
    BY <2>1, <2>3
<1>6. NoCollision(sorted) <=>
        /\ \A k, l \in 1 .. n : k < l => x(at[k]) # x(at[l])
        /\ \A k \in 1 .. n : ~entries[at[k]].dir =>
             \A l \in 1 .. n : ~Begins(Append(x(at[k]), Slash), x(at[l]))
  <2> HIDE DEF x
  <2> QED
    BY <1>4, <1>5 DEF NoCollision
<1>7. (\A k, l \in 1 .. n : k < l => x(at[k]) # x(at[l]))
        <=> \A i, j \in 1 .. n : i # j => x(i) # x(j)
  <2> HIDE DEF x
  <2>1. ASSUME \A k, l \in 1 .. n : k < l => x(at[k]) # x(at[l]),
               NEW i \in 1 .. n, NEW j \in 1 .. n, i # j
        PROVE  x(i) # x(j)
    <3>1. PICK k \in 1 .. n, l \in 1 .. n : at[k] = i /\ at[l] = j
      BY <1>3
    <3>2. k < l \/ l < k
      BY <2>1, <3>1
    <3> QED
      BY <2>1, <3>1, <3>2
  <2>2. ASSUME \A i, j \in 1 .. n : i # j => x(i) # x(j), NEW k \in 1 .. n, NEW l \in 1 .. n, k < l
        PROVE  x(at[k]) # x(at[l])
    <3>1. k # l
      BY <2>2
    <3> QED
      BY <1>3, <2>2, <3>1
  <2> QED
    BY <2>1, <2>2
<1>8. (\A k \in 1 .. n : ~entries[at[k]].dir =>
         \A l \in 1 .. n : ~Begins(Append(x(at[k]), Slash), x(at[l])))
        <=> \A i, j \in 1 .. n : ~entries[i].dir => ~Begins(Append(x(i), Slash), x(j))
  <2> HIDE DEF x
  <2>1. ASSUME \A k \in 1 .. n : ~entries[at[k]].dir =>
                 \A l \in 1 .. n : ~Begins(Append(x(at[k]), Slash), x(at[l])),
               NEW i \in 1 .. n, NEW j \in 1 .. n, ~entries[i].dir
        PROVE  ~Begins(Append(x(i), Slash), x(j))
    <3>1. PICK k \in 1 .. n, l \in 1 .. n : at[k] = i /\ at[l] = j
      BY <1>3
    <3> QED
      BY <2>1, <3>1
  <2> QED
    BY <1>3, <2>1
<1>9. ASSUME NEW i \in 1 .. n, NEW j \in 1 .. n
      PROVE  /\ x(i) = x(j) <=> f(i) = f(j)
             /\ Begins(Append(x(i), Slash), x(j)) <=> IsPrefix(f(i), f(j)) /\ f(i) # f(j)
  <2> HIDE DEF x
  <2> QED
    BY <1>2, JoinInjective, JoinBelow
<1>10. NoCollision(sorted) <=>
         \A i, j \in 1 .. n : i # j => f(i) # f(j) /\ (~entries[i].dir => ~IsPrefix(f(i), f(j)))
  <2> HIDE DEF x
  <2> QED
    BY <1>6, <1>7, <1>8, <1>9
<1> QED
  BY <1>10 DEF sorted, f

\* The reader of a format extracts with one step for each entry that it takes, so
\* that no two of them meet in the destination: what SoundSteps asks of the places
\* is owed by validate_archive_path_set alone, whatever the archive looks like.
THEOREM AcceptedStepsAreApart ==
  ASSUME NEW n \in Nat, NEW entries, DOMAIN entries = 1 .. n,
         \A i \in 1 .. n : entries[i].path \in Seq(Nat),
         ValidPathSet(entries),
         \A path : Place(path) = Components(Fold(path)),
         NEW steps, NEW of \in [DOMAIN steps -> 1 .. n],
         \A i, j \in DOMAIN steps : ~Throws(steps[i]) /\ ~Throws(steps[j]) /\ i # j => of[i] # of[j],
         \A i \in DOMAIN steps : ~Throws(steps[i]) =>
           /\ steps[i].path = entries[of[i]].path
           /\ steps[i].op = "file" => ~entries[of[i]].dir
  PROVE  Apart(steps)
<1>1. OneTree(entries)
  BY ValidPathSetIsOneTree
<1>2. ASSUME NEW i \in DOMAIN steps, NEW j \in DOMAIN steps,
             ~Throws(steps[i]), ~Throws(steps[j]), Stores(steps[i])
      PROVE  LET place == Place(steps[i].path)
             IN  /\ place # << >> /\ place \notin Parents(Place(steps[j].path))
                 /\ i # j => place # Place(steps[j].path)
  <2> DEFINE a == Components(Fold(entries[of[i]].path))
      b == Components(Fold(entries[of[j]].path))
  <2>1. Place(steps[i].path) = a /\ Place(steps[j].path) = b /\ ~entries[of[i]].dir
    BY <1>2 DEF Stores
  <2>2. of[i] \in 1 .. n /\ of[j] \in 1 .. n
    OBVIOUS
  <2>3. /\ a \in Seq(Names) /\ a # << >> /\ b \in Seq(Names)
    <3>1. /\ entries[of[i]].path \in Text /\ ValidPath(entries[of[i]].path)
          /\ entries[of[j]].path \in Text /\ ValidPath(entries[of[j]].path)
      BY <1>1, <2>2 DEF Text, OneTree
    <3> QED
      BY <3>1, KeyOfEntry
  <2>4. i # j => a # b /\ ~IsPrefix(a, b)
    BY <1>1, <1>2, <2>1, <2>2 DEF OneTree
  <2>5. a \notin Parents(b)
    <3> HIDE DEF a, b
    <3>1. SUFFICES ASSUME NEW k \in 0 .. Len(b) - 1, a = SubSeq(b, 1, k) PROVE FALSE
      BY DEF Parents
    <3>2. /\ Len(a) = k /\ Len(b) \in Nat /\ k <= Len(b) /\ k < Len(b)
          /\ \A m \in 1 .. k : a[m] = b[m]
      BY <2>3, <3>1
    <3>3. IsPrefix(a, b) /\ Len(a) # Len(b)
      BY <2>3, <3>2, BeginsIsPrefix DEF Begins
    <3>4. i # j
      BY <3>3 DEF a, b
    <3> QED
      BY <2>4, <3>3, <3>4
  <2> HIDE DEF a, b
  <2> QED
    BY <2>1, <2>3, <2>4, <2>5
<1> QED
  BY <1>2 DEF Apart

-----------------------------------------------------------------------------
(* AR: the archives of ar/ar_adapter.cpp keep to what the job asks of a reader *)

\* Numbered lists the numbers of a set from the smallest to the largest.
LEMMA NumberedInOrder ==
  ASSUME NEW m \in Nat, NEW S \in SUBSET (1 .. m), NEW n, n = Cardinality(S)
  PROVE  /\ n \in Nat
         /\ Numbered(S) \in [1 .. n -> S]
         /\ \A i \in S : \E k \in 1 .. n : Numbered(S)[k] = i
         /\ \A k \in 1 .. n : Cardinality({j \in S : j < Numbered(S)[k]}) = k - 1
         /\ \A k, l \in 1 .. n : k < l => Numbered(S)[k] < Numbered(S)[l]
<1> DEFINE P == [i \in S |-> {j \in S : j < i}]
<1>1. IsFiniteSet(S)
  BY FirstNumbers, FS_Subset
<1>2. \A i \in S : i \in Nat
  OBVIOUS
<1>3. /\ P \in [S -> SUBSET S]
      /\ \A i \in S : P[i] = {j \in S : j < i}
  OBVIOUS
<1> HIDE DEF P
<1>4. \A i \in S : i \notin P[i]
  BY <1>2, <1>3
<1>5. \A i \in S : \A j \in P[i] : P[j] \subseteq P[i]
  <2>1. ASSUME NEW i \in S, NEW j \in P[i], NEW k \in P[j] PROVE k \in P[i]
    <3>1. j \in S /\ j < i
      BY <1>3
    <3>2. k \in S /\ k < j
      BY <1>3, <3>1
    <3> QED
      BY <1>2, <1>3, <3>1, <3>2
  <2> QED
    BY <2>1
<1>6. \A i, j \in S : i # j => i \in P[j] \/ j \in P[i]
  BY <1>2, <1>3
<1>7. Numbered(S) = Ranked(P, S, n)
  <2> DEFINE one(k) == CHOOSE i \in S : Cardinality({j \in S : j < i}) = k - 1
      two(k) == CHOOSE i \in S : Cardinality(P[i]) = k - 1
  <2>1. ASSUME NEW k \in 1 .. n PROVE one(k) = two(k)
    BY <1>3
  <2>2. Numbered(S) = [k \in 1 .. n |-> one(k)]
    BY DEF Numbered
  <2>3. Ranked(P, S, n) = [k \in 1 .. n |-> two(k)]
    BY DEF Ranked
  <2> HIDE DEF one, two
  <2> QED
    BY <2>1, <2>2, <2>3
<1>8. /\ n \in Nat
      /\ Ranked(P, S, n) \in [1 .. n -> S]
      /\ \A i \in S : \E k \in 1 .. n : Ranked(P, S, n)[k] = i
      /\ \A k \in 1 .. n : Cardinality(P[Ranked(P, S, n)[k]]) = k - 1
      /\ \A k, l \in 1 .. n : k < l => Ranked(P, S, n)[k] \in P[Ranked(P, S, n)[l]]
  <2>1. P \in [S -> SUBSET S] /\ n = Cardinality(S)
    BY <1>3
  <2> QED
    BY <1>1, <2>1, <1>4, <1>5, <1>6, Ranks
<1> HIDE DEF Numbered
<1>9. \A k \in 1 .. n : Numbered(S)[k] \in S
  BY <1>7, <1>8
<1>10. \A k \in 1 .. n : Cardinality({j \in S : j < Numbered(S)[k]}) = k - 1
  BY <1>3, <1>7, <1>8, <1>9
<1> QED
  BY <1>3, <1>7, <1>8, <1>9, <1>10

\* Of all numbers up to n, the k-th is k.
LEMMA NumberedAll ==
  ASSUME NEW n \in Nat
  PROVE  Numbered(1 .. n) = [k \in 1 .. n |-> k]
<1>1. Cardinality(1 .. n) = n
  BY FirstNumbers
<1>2. /\ Numbered(1 .. n) \in [1 .. n -> 1 .. n]
      /\ \A k \in 1 .. n : Cardinality({j \in 1 .. n : j < Numbered(1 .. n)[k]}) = k - 1
  BY <1>1, NumberedInOrder
<1>3. ASSUME NEW k \in 1 .. n PROVE Numbered(1 .. n)[k] = k
  <2> DEFINE i == Numbered(1 .. n)[k]
  <2>1. i \in 1 .. n
    BY <1>2
  <2> HIDE DEF i
  <2>2. {j \in 1 .. n : j < i} = 1 .. i - 1
    BY <2>1
  <2>3. Cardinality(1 .. i - 1) = i - 1
    BY <2>1, FirstNumbers
  <2>4. i - 1 = k - 1
    BY <1>2, <2>2, <2>3 DEF i
  <2> QED
    BY <2>1, <2>4 DEF i
<1> QED
  BY <1>2, <1>3

-----------------------------------------------------------------------------
ArNames == [form : {"short"}, name : Text] \cup [form : {"bsd", "gnu"}, number : Nat]
           \cup [form : {"table", "symbols"}]
ArRecords == [magic : BOOLEAN, name : ArNames, size : Nat, bytes : Text]
ArArchive(arc) == arc.records \in Seq(ArRecords)

\* What stands before a byte is a text.
LEMMA BeforeIsText ==
  ASSUME NEW name \in Text, NEW c PROVE Before(name, c) \in Text
<1>1. CASE ~\E i \in DOMAIN name : name[i] = c
  BY <1>1 DEF Before
<1>2. CASE \E i \in DOMAIN name : name[i] = c
  <2> DEFINE Here == {i \in 1 .. Len(name) : name[i] = c}
      at == IF Here # {} THEN Min(Here) ELSE 0
  <2>1. Before(name, c) = SubSeq(name, 1, at - 1)
    BY <1>2 DEF Before, SelectInSeq
  <2>2. Here # {} /\ Here \in SUBSET Nat
    BY <1>2 DEF Text
  <2>3. \E i \in Here : \A j \in Here : i <= j
    <3> HIDE DEF Here
    <3> QED
      BY <2>2, LeastNumber
  <2>4. at \in Here
    BY <2>2, <2>3 DEF Min
  <2>5. at \in 1 .. Len(name) /\ Len(name) \in Nat
    <3> HIDE DEF at
    <3> QED
      BY <2>4 DEF Text
  <2>6. at - 1 \in Int /\ \A i \in 1 .. at - 1 : name[i] \in Nat
    <3> HIDE DEF at
    <3> QED
      BY <2>5 DEF Text
  <2> HIDE DEF at
  <2> QED
    BY <2>1, <2>6, SubSeqProperties DEF Text
<1> QED
  BY <1>1, <1>2

\* A text without its last byte is one.
LEMMA FrontIsText ==
  ASSUME NEW name \in Text PROVE Front(name) \in Text
<1>1. \A i \in 1 .. Len(name) - 1 : name[i] \in Nat
  BY DEF Text
<1> QED
  BY <1>1, SubSeqProperties DEF Text, Front

\* A name from the string table is a text, wherever its offset points.
LEMMA TableEntryIsText ==
  ASSUME NEW table \in Text, NEW offset \in Nat PROVE TableEntry(table, offset) \in Text
<1> DEFINE rest == SubSeq(table, offset + 1, Len(table))
    line == Before(rest, Newline)
<1>1. rest \in Text
  <2>1. \A i \in offset + 1 .. Len(table) : table[i] \in Nat
    BY DEF Text
  <2>2. offset + 1 \in Int /\ Len(table) \in Int
    BY DEF Text
  <2> QED
    BY <2>1, <2>2, SubSeqProperties DEF Text
<1> HIDE DEF rest
<1>2. line \in Text /\ Front(line) \in Text
  BY <1>1, BeforeIsText, FrontIsText
<1>3. << >> \in Text
  BY DEF Text
<1> HIDE DEF line
<1> QED
  BY <1>2, <1>3 DEF TableEntry, line, rest

\* Whatever form a name has, the path is a text and the payload is inside the member.
LEMMA ParsedMember ==
  ASSUME NEW member \in ArRecords, IsFile(member), member.size = Len(member.bytes),
         NEW table \in Text
  PROVE  /\ Parsed(member, table).path \in Text
         /\ Parsed(member, table).skip \in 0 .. member.size
<1>1. /\ member.bytes \in Text /\ member.size \in Nat
      /\ member.name.form \in {"short", "bsd", "gnu"}
      /\ member.name.form = "short" => member.name.name \in Text
      /\ member.name.form \in {"bsd", "gnu"} => member.name.number \in Nat
  BY DEF ArRecords, ArNames, IsFile
<1>2. << >> \in Text
  BY DEF Text
<1>3. CASE member.name.form = "bsd"
  <2> DEFINE k == member.name.number
  <2>1. k \in Nat
    BY <1>1, <1>3
  <2>2. CASE k \in 1 .. MaxNameBytes /\ k <= member.size
    <3>1. \A i \in 1 .. k : member.bytes[i] \in Nat
      BY <1>1, <2>1, <2>2 DEF Text
    <3>2. SubSeq(member.bytes, 1, k) \in Text
      BY <2>1, <3>1, SubSeqProperties DEF Text
    <3>3. Parsed(member, table) = [path |-> SubSeq(member.bytes, 1, k), skip |-> k]
      BY <1>3, <2>2 DEF Parsed
    <3> QED
      BY <1>1, <2>1, <2>2, <3>2, <3>3
  <2>3. CASE ~(k \in 1 .. MaxNameBytes /\ k <= member.size)
    <3>1. Parsed(member, table) = [path |-> << >>, skip |-> 0]
      BY <1>3, <2>3 DEF Parsed
    <3> QED
      BY <1>1, <1>2, <3>1
  <2> QED
    BY <2>2, <2>3
<1>4. CASE member.name.form = "gnu"
  <2>1. Parsed(member, table) = [path |-> TableEntry(table, member.name.number), skip |-> 0]
    BY <1>4 DEF Parsed
  <2> QED
    BY <1>1, <1>4, <2>1, TableEntryIsText
<1>5. CASE member.name.form = "short"
  <2>1. Parsed(member, table) = [path |-> WithoutSlash(member.name.name), skip |-> 0]
    BY <1>5 DEF Parsed
  <2>2. WithoutSlash(member.name.name) \in Text
    BY <1>1, <1>5, FrontIsText DEF WithoutSlash
  <2> QED
    BY <1>1, <2>1, <2>2
<1> QED
  BY <1>1, <1>3, <1>4, <1>5

\* The string table that a member sees is a text.
LEMMA TableBeforeIsText ==
  ASSUME NEW arc, ArArchive(arc), NEW i \in DOMAIN arc.records
  PROVE  TableBefore(arc, i) \in Text
<1> DEFINE tables == {j \in 1 .. i - 1 : arc.records[j].name = TableName}
<1>1. i \in 1 .. Len(arc.records) /\ Len(arc.records) \in Nat
  BY DEF ArArchive
<1>2. \A j \in 1 .. Len(arc.records) : arc.records[j].bytes \in Text
  <2>1. \A j \in 1 .. Len(arc.records) : arc.records[j] \in ArRecords
    BY DEF ArArchive
  <2> QED
    BY <2>1 DEF ArRecords
<1>3. << >> \in Text
  BY DEF Text
<1>4. tables # {} => \E j \in tables : \A k \in tables : k <= j
  <2>1. SUFFICES ASSUME tables # {} PROVE \E j \in tables : \A k \in tables : k <= j
    OBVIOUS
  <2> DEFINE M == {i - j : j \in tables}
  <2>2. M \in SUBSET Nat /\ M # {}
    BY <1>1, <2>1
  <2>3. PICK m \in M : \A k \in M : m <= k
    <3> HIDE DEF M
    <3> QED
      BY <2>2, LeastNumber
  <2>4. PICK j \in tables : m = i - j
    OBVIOUS
  <2>5. \A k \in tables : i - j <= i - k
    BY <2>3, <2>4
  <2>6. \A k \in tables : k <= j
    BY <1>1, <2>5
  <2> QED
    BY <2>6
<1>5. CASE tables = {}
  BY <1>3, <1>5 DEF TableBefore
<1>6. CASE tables # {}
  <2> DEFINE j == CHOOSE j \in tables : \A k \in tables : k <= j
  <2>1. j \in tables
    BY <1>4, <1>6
  <2>2. TableBefore(arc, i) = arc.records[j].bytes
    BY <1>6 DEF TableBefore
  <2> HIDE DEF j
  <2> QED
    BY <1>1, <1>2, <2>1, <2>2
<1> QED
  BY <1>5, <1>6

\* What scan_ar returns when it does not throw.
LEMMA ArIndex ==
  ASSUME NEW arc, ArArchive(arc), ArScan(arc).ok, NEW n, n = Len(Files(arc)), NEW entries,
         entries = ArScan(arc).entries
  PROVE  /\ n \in Nat /\ DOMAIN entries = 1 .. n /\ Files(arc) \in [1 .. n -> DOMAIN arc.records]
         /\ \A k, l \in 1 .. n : k # l => Files(arc)[k] # Files(arc)[l]
         /\ \A k \in 1 .. n :
              LET i == Files(arc)[k]
                  found == Parsed(arc.records[i], TableBefore(arc, i))
              IN  /\ entries[k] = [path |-> found.path, dir |-> FALSE, member |-> i,
                                   skip |-> found.skip, size |-> arc.records[i].size - found.skip]
                  /\ found.path \in Text /\ found.skip \in 0 .. Len(arc.records[i].bytes)
                  /\ arc.records[i].size = Len(arc.records[i].bytes)
                  /\ Len(arc.records[i].bytes) \in Nat
<1> DEFINE kept == {i \in DOMAIN arc.records : IsFile(arc.records[i])}
    file == Files(arc)
    m == Len(arc.records)
    c == Cardinality(kept)
<1>1. m \in Nat /\ DOMAIN arc.records = 1 .. m /\ \A i \in 1 .. m : arc.records[i] \in ArRecords
  BY DEF ArArchive
<1>2. kept \in SUBSET (1 .. m)
  BY <1>1
<1>3. file = Numbered(kept)
  BY DEF Files
<1>4. \A i \in kept : IsFile(arc.records[i])
  OBVIOUS
<1> HIDE DEF kept
<1>5. c \in Nat /\ file \in [1 .. c -> kept] /\ \A k, l \in 1 .. c : k < l => file[k] < file[l]
  <2> HIDE DEF file, m
  <2> QED
    BY <1>1, <1>2, <1>3, NumberedInOrder
<1> HIDE DEF file, c
<1>6. n = c
  BY <1>5 DEF file
<1>7. \A k, l \in 1 .. n : k # l => file[k] # file[l]
  <2>1. ASSUME NEW k \in 1 .. n, NEW l \in 1 .. n, k # l PROVE file[k] # file[l]
    <3>1. file[k] \in 1 .. m /\ file[l] \in 1 .. m
      BY <1>2, <1>5, <1>6
    <3>2. k < l \/ l < k
      BY <1>5, <1>6, <2>1
    <3> QED
      BY <1>1, <1>5, <1>6, <3>1, <3>2
  <2> QED
    BY <2>1
<1>8. DOMAIN entries = 1 .. n
  BY <1>5, <1>6 DEF ArScan, Listed, file
<1>9. ASSUME NEW k \in 1 .. n
      PROVE  LET i == file[k]
                 found == Parsed(arc.records[i], TableBefore(arc, i))
             IN  entries[k] = [path |-> found.path, dir |-> FALSE, member |-> i,
                               skip |-> found.skip, size |-> arc.records[i].size - found.skip]
  BY <1>5, <1>6 DEF ArScan, Listed, file
<1>10. \A i \in 1 .. m : arc.records[i].size = Len(arc.records[i].bytes)
  BY <1>1 DEF ArScan, Listed, WholeMember
<1>11. ASSUME NEW k \in 1 .. n
       PROVE  LET i == file[k]
                  found == Parsed(arc.records[i], TableBefore(arc, i))
              IN  /\ found.path \in Text /\ found.skip \in 0 .. Len(arc.records[i].bytes)
                  /\ arc.records[i].size = Len(arc.records[i].bytes)
                  /\ Len(arc.records[i].bytes) \in Nat
  <2>1. file[k] \in 1 .. m /\ file[k] \in kept
    BY <1>2, <1>5, <1>6
  <2>2. TableBefore(arc, file[k]) \in Text
    BY <1>1, <2>1, TableBeforeIsText
  <2>3. arc.records[file[k]] \in ArRecords /\ Len(arc.records[file[k]].bytes) \in Nat
    BY <1>1, <2>1 DEF ArRecords, Text
  <2> QED
    BY <1>4, <1>10, <2>1, <2>2, <2>3, ParsedMember
<1> QED
  BY <1>1, <1>2, <1>5, <1>6, <1>7, <1>8, <1>9, <1>11 DEF file

\* A payload that ends with its member is the rest of the member.
LEMMA SliceToEnd ==
  ASSUME NEW stored, Len(stored) \in Nat, NEW skip \in 0 .. Len(stored), NEW size,
         size = Len(stored) - skip
  PROVE  /\ skip + size = Len(stored) /\ skip + size <= Len(stored)
         /\ Slice(stored, skip, size) = SubSeq(stored, skip + 1, Len(stored))
<1>1. skip + size = Len(stored) /\ skip + size <= Len(stored)
  OBVIOUS
<1> QED
  BY <1>1 DEF Slice

\* The k-th file of an archive, with the payload that its member holds.
ArFile(arc, k) ==
  LET i == Files(arc)[k]
      found == Parsed(arc.records[i], TableBefore(arc, i))
      stored == arc.records[i].bytes
  IN  File(found.path, SubSeq(stored, found.skip + 1, Len(stored)), TRUE)

\* Of an archive that scan_ar takes, extract_ar writes every file, at the path the
\* scan has found for it, and nothing else: no payload of it runs past its member,
\* whichever of the three forms its name has, and no two of them meet.
THEOREM ArStepsAreGood ==
  ASSUME NEW arc, ArArchive(arc), Accepted(ArScan(arc)).ok,
         NEW entries, entries = Accepted(ArScan(arc)).entries,
         NEW steps, steps = ArReplay(arc, entries),
         \A path : Place(path) = Components(Fold(path))
  PROVE  /\ DOMAIN steps = DOMAIN Files(arc)
         /\ \A k \in DOMAIN steps : steps[k] = ArFile(arc, k)
         /\ Apart(steps)
<1> DEFINE n == Len(Files(arc))
    found(k) == Parsed(arc.records[Files(arc)[k]], TableBefore(arc, Files(arc)[k]))
    stored(k) == arc.records[Files(arc)[k]].bytes
<1>1. ArScan(arc).ok /\ entries = ArScan(arc).entries /\ ValidPathSet(entries)
  BY DEF Accepted, ArScan, Listed
<1>2. /\ n \in Nat /\ DOMAIN entries = 1 .. n /\ Files(arc) \in [1 .. n -> DOMAIN arc.records]
  BY <1>1, ArIndex
<1>7. ASSUME NEW k \in 1 .. n
      PROVE  /\ entries[k].path = found(k).path /\ entries[k].dir = FALSE
             /\ entries[k].member = Files(arc)[k] /\ entries[k].skip = found(k).skip
             /\ entries[k].size = Len(stored(k)) - found(k).skip
             /\ found(k).path \in Text /\ found(k).skip \in 0 .. Len(stored(k))
             /\ Len(stored(k)) \in Nat
  <2>1. /\ entries[k] = [path |-> found(k).path, dir |-> FALSE, member |-> Files(arc)[k],
                         skip |-> found(k).skip,
                         size |-> arc.records[Files(arc)[k]].size - found(k).skip]
        /\ found(k).path \in Text /\ found(k).skip \in 0 .. Len(stored(k))
        /\ arc.records[Files(arc)[k]].size = Len(stored(k)) /\ Len(stored(k)) \in Nat
    BY <1>1, ArIndex
  <2> HIDE DEF found, stored
  <2> QED
    BY <2>1
<1>3. DOMAIN steps = 1 .. n
  BY <1>2 DEF ArReplay
<1>4. ASSUME NEW k \in 1 .. n
      PROVE  steps[k] = File(found(k).path, SubSeq(stored(k), found(k).skip + 1, Len(stored(k))), TRUE)
  <2> DEFINE e == entries[k]
  <2>1. /\ e.path = found(k).path /\ e.member = Files(arc)[k] /\ e.skip = found(k).skip
        /\ e.size = Len(stored(k)) - found(k).skip
    BY <1>7
  <2>2. e.member <= Len(arc.records)
    BY <1>2, <2>1 DEF ArArchive
  <2>3. steps[k] = File(e.path, Slice(stored(k), e.skip, e.size), e.skip + e.size <= Len(stored(k)))
    BY <1>2, <2>1, <2>2 DEF ArReplay
  <2>4. /\ e.skip + e.size <= Len(stored(k))
        /\ Slice(stored(k), e.skip, e.size) = SubSeq(stored(k), e.skip + 1, Len(stored(k)))
    <3>1. found(k).skip \in 0 .. Len(stored(k)) /\ Len(stored(k)) \in Nat
      BY <1>7
    <3> HIDE DEF found, stored, e
    <3> QED
      BY <2>1, <3>1, SliceToEnd
  <2> HIDE DEF found, stored, e
  <2>5. (e.skip + e.size <= Len(stored(k))) = TRUE
    BY <2>4
  <2> QED
    BY <2>1, <2>3, <2>4, <2>5
<1>5. Apart(steps)
  <2> DEFINE of == [k \in DOMAIN steps |-> k]
  <2>1. of \in [DOMAIN steps -> 1 .. n]
    BY <1>3
  <2>2. \A k \in 1 .. n : entries[k].path \in Seq(Nat)
    BY <1>7 DEF Text
  <2>3. \A i, j \in DOMAIN steps : ~Throws(steps[i]) /\ ~Throws(steps[j]) /\ i # j => of[i] # of[j]
    OBVIOUS
  <2>4. \A i \in DOMAIN steps : ~Throws(steps[i]) =>
           /\ steps[i].path = entries[of[i]].path
           /\ steps[i].op = "file" => ~entries[of[i]].dir
    <3>1. ASSUME NEW i \in 1 .. n PROVE steps[i].path = entries[i].path /\ entries[i].dir = FALSE
      <4>1. steps[i] = File(found(i).path, SubSeq(stored(i), found(i).skip + 1, Len(stored(i))), TRUE)
        BY <1>4
      <4>2. entries[i].path = found(i).path /\ entries[i].dir = FALSE
        BY <1>7
      <4> HIDE DEF found, stored
      <4> QED
        BY <4>1, <4>2 DEF File
    <3> QED
      BY <1>3, <3>1
  <2> HIDE DEF of
  <2> QED
    BY <1>1, <1>2, <2>1, <2>2, <2>3, <2>4, AcceptedStepsAreApart, SMTT(30)
<1>6. DOMAIN Files(arc) = 1 .. n
  BY <1>2
<1>8. ASSUME NEW k \in 1 .. n PROVE steps[k] = ArFile(arc, k)
  BY <1>4 DEF ArFile
<1> QED
  BY <1>3, <1>5, <1>6, <1>8

\* What a walk over the sources finds, and the archive that compress_ar makes of it.
ManifestEntries == [path : Text, dir : BOOLEAN, data : Text]
ArWritten(s, manifest) ==
  /\ Writable(manifest)
  /\ s.records = WriteArchive(manifest) /\ s.magic = TRUE /\ s.cut = FALSE
  /\ s.members = FilesOf(manifest) /\ s.fit = TRUE /\ s.intact = TRUE

\* The files of a manifest are entries of it, and fit into one tree when all do.
LEMMA FilesOfManifest ==
  ASSUME NEW manifest \in Seq(ManifestEntries), NEW n, n = Len(FilesOf(manifest))
  PROVE  /\ n \in Nat /\ DOMAIN FilesOf(manifest) = 1 .. n
         /\ \A k \in 1 .. n : FilesOf(manifest)[k] \in ManifestEntries /\ ~FilesOf(manifest)[k].dir
         /\ \A k \in 1 .. n : \E i \in DOMAIN manifest : FilesOf(manifest)[k] = manifest[i]
         /\ OneTree(manifest) => OneTree(FilesOf(manifest))
<1> DEFINE kept == {i \in DOMAIN manifest : ~manifest[i].dir}
    at == Numbered(kept)
    m == Len(manifest)
    c == Cardinality(kept)
    files == FilesOf(manifest)
<1>1. m \in Nat /\ DOMAIN manifest = 1 .. m /\ \A i \in 1 .. m : manifest[i] \in ManifestEntries
  OBVIOUS
<1>2. kept \in SUBSET (1 .. m) /\ \A i \in kept : ~manifest[i].dir
  BY <1>1
<1>3. files = [k \in DOMAIN at |-> manifest[at[k]]]
  BY DEF FilesOf
<1> HIDE DEF kept, files, m
<1>4. c \in Nat /\ at \in [1 .. c -> kept] /\ \A k, l \in 1 .. c : k < l => at[k] < at[l]
  BY <1>1, <1>2, NumberedInOrder
<1> HIDE DEF at, c
<1>5. files = [k \in 1 .. c |-> manifest[at[k]]] /\ Len(files) = c /\ DOMAIN files = 1 .. c
  <2>1. files = [k \in 1 .. c |-> manifest[at[k]]]
    BY <1>3, <1>4
  <2> QED
    BY <1>4, <2>1
<1>6. \A k \in 1 .. c : /\ files[k] = manifest[at[k]] /\ at[k] \in 1 .. m
                        /\ files[k] \in ManifestEntries /\ ~files[k].dir
  BY <1>1, <1>2, <1>4, <1>5
<1>7. ASSUME NEW k \in 1 .. c, NEW l \in 1 .. c, k # l PROVE at[k] # at[l]
  <2>1. k < l \/ l < k
    BY <1>4, <1>7
  <2>2. at[k] \in 1 .. m /\ at[l] \in 1 .. m
    BY <1>6
  <2> QED
    BY <1>1, <1>4, <2>1, <2>2
<1>8. ASSUME OneTree(manifest) PROVE OneTree(files)
  <2>1. /\ \A i \in 1 .. m : ValidPath(manifest[i].path)
        /\ \A i, j \in 1 .. m : i # j =>
             LET a == Components(Fold(manifest[i].path))
                 b == Components(Fold(manifest[j].path))
             IN  a # b /\ (~manifest[i].dir => ~IsPrefix(a, b))
    BY <1>1, <1>8 DEF OneTree
  <2>2. \A k \in 1 .. c : ValidPath(files[k].path)
    BY <1>6, <2>1
  <2>3. ASSUME NEW k \in 1 .. c, NEW l \in 1 .. c, k # l
        PROVE  LET a == Components(Fold(files[k].path))
                   b == Components(Fold(files[l].path))
               IN  a # b /\ (~files[k].dir => ~IsPrefix(a, b))
    <3>1. at[k] # at[l] /\ at[k] \in 1 .. m /\ at[l] \in 1 .. m
      BY <1>6, <1>7, <2>3
    <3>2. files[k] = manifest[at[k]] /\ files[l] = manifest[at[l]]
      BY <1>6
    <3> QED
      BY <2>1, <3>1, <3>2
  <2> QED
    BY <1>5, <2>2, <2>3 DEF OneTree
<1>9. n = c
  BY <1>5 DEF files
<1>10. \A k \in 1 .. c : \E i \in DOMAIN manifest : files[k] = manifest[i]
  BY <1>1, <1>6
<1> QED
  BY <1>4, <1>5, <1>6, <1>8, <1>9, <1>10 DEF files

\* A concatenation can be taken apart at the length of its first part.
LEMMA PartsOfConcat ==
  ASSUME NEW path \in Text, NEW data \in Text
  PROVE  /\ Len(path) \in Nat /\ Len(data) \in Nat
         /\ path \o data \in Text /\ Len(path \o data) = Len(path) + Len(data)
         /\ SubSeq(path \o data, 1, Len(path)) = path
         /\ SubSeq(path \o data, Len(path) + 1, Len(path) + Len(data)) = data
<1>1. Len(path) \in Nat /\ Len(data) \in Nat
  BY DEF Text
<1>0. PICK p \in Nat, d \in Nat : p = Len(path) /\ d = Len(data)
  BY <1>1
<1>6. PICK bytes : bytes = path \o data
  OBVIOUS
<1>2. /\ bytes \in Seq(Nat) /\ Len(bytes) = p + d
      /\ \A i \in 1 .. p + d : bytes[i] = IF i <= p THEN path[i] ELSE data[i - p]
  BY <1>0, <1>6, ConcatProperties DEF Text
<1>3. \A i \in 1 .. p + d : bytes[i] \in Nat
  <2>1. \A i \in 1 .. p : path[i] \in Nat
    BY <1>0 DEF Text
  <2>2. \A i \in 1 .. d : data[i] \in Nat
    BY <1>0 DEF Text
  <2>3. ASSUME NEW i \in 1 .. p + d PROVE bytes[i] \in Nat
    <3>1. i <= p => i \in 1 .. p
      OBVIOUS
    <3>2. ~(i <= p) => i - p \in 1 .. d
      OBVIOUS
    <3> QED
      BY <1>2, <2>1, <2>2, <3>1, <3>2
  <2> QED
    BY <2>3
<1>4. SubSeq(bytes, 1, p) = path
  <2>1. \A i \in 1 .. p : bytes[i] \in Nat
    BY <1>3
  <2>2. /\ SubSeq(bytes, 1, p) \in Seq(Nat)
        /\ Len(SubSeq(bytes, 1, p)) = IF 1 <= p THEN p - 1 + 1 ELSE 0
        /\ \A i \in 1 .. p - 1 + 1 : SubSeq(bytes, 1, p)[i] = bytes[1 + i - 1]
    BY <2>1, SubSeqProperties
  <2>3. Len(SubSeq(bytes, 1, p)) = p /\ \A i \in 1 .. p : SubSeq(bytes, 1, p)[i] = path[i]
    BY <1>2, <2>2
  <2> QED
    BY <1>0, <2>2, <2>3, SeqEqual DEF Text
<1>5. SubSeq(bytes, p + 1, p + d) = data
  <2> DEFINE rest == SubSeq(bytes, p + 1, p + d)
  <2>1. \A i \in p + 1 .. p + d : bytes[i] \in Nat
    BY <1>3
  <2>2. p + 1 \in Int /\ p + d \in Int
    OBVIOUS
  <2>3. /\ rest \in Seq(Nat)
        /\ Len(rest) = IF p + 1 <= p + d THEN p + d - (p + 1) + 1 ELSE 0
        /\ \A i \in 1 .. p + d - (p + 1) + 1 : rest[i] = bytes[p + 1 + i - 1]
    BY <2>1, <2>2, SubSeqProperties
  <2> HIDE DEF rest
  <2>4. Len(rest) = d
    BY <2>3
  <2>5. ASSUME NEW i \in 1 .. d PROVE rest[i] = data[i]
    <3>1. i \in 1 .. p + d - (p + 1) + 1 /\ p + 1 + i - 1 = p + i
      OBVIOUS
    <3>2. rest[i] = bytes[p + i]
      BY <2>3, <3>1
    <3>3. p + i \in 1 .. p + d /\ ~(p + i <= p) /\ p + i - p = i
      OBVIOUS
    <3> QED
      BY <1>2, <3>2, <3>3
  <2>6. rest = data
    BY <1>0, <2>3, <2>4, <2>5, SeqEqual DEF Text
  <2> QED
    BY <2>6 DEF rest
<1> QED
  BY <1>0, <1>2, <1>4, <1>5, <1>6 DEF Text

\* What make_bsd_ar_header has made of an entry is parsed into its path and its
\* bytes.
LEMMA WrittenMember ==
  ASSUME NEW e \in ManifestEntries, ValidPath(e.path), NEW table
  PROVE  /\ Member(e) \in ArRecords /\ Member(e).magic = TRUE /\ IsFile(Member(e))
         /\ Member(e).bytes = e.path \o e.data /\ Member(e).size = Len(Member(e).bytes)
         /\ Parsed(Member(e), table) = [path |-> e.path, skip |-> Len(e.path)]
         /\ SubSeq(Member(e).bytes, Len(e.path) + 1, Len(Member(e).bytes)) = e.data
<1> DEFINE p == Len(e.path)
    d == Len(e.data)
    bytes == e.path \o e.data
<1>1. e.path \in Text /\ e.data \in Text
  BY DEF ManifestEntries
<1>2. /\ p \in Nat /\ d \in Nat /\ bytes \in Text /\ Len(bytes) = p + d
      /\ SubSeq(bytes, 1, p) = e.path /\ SubSeq(bytes, p + 1, p + d) = e.data
  BY <1>1, PartsOfConcat
<1>3. p # 0 /\ p <= MaxNameBytes
  <2>1. e.path # << >> /\ Len(e.path) <= MaxPathBytes
    BY DEF ValidPath
  <2> QED
    BY <1>1, <2>1, EmptySeq DEF Text, MaxNameBytes
<1>4. Member(e) = [magic |-> TRUE, name |-> [form |-> "bsd", number |-> p], size |-> p + d,
                   bytes |-> bytes]
  BY DEF Member, BsdName
<1> HIDE DEF bytes, p, d
<1>5. Parsed(Member(e), table) = [path |-> e.path, skip |-> p]
  <2>1. p \in 1 .. MaxNameBytes /\ p <= p + d
    BY <1>2, <1>3 DEF MaxNameBytes, MaxPathBytes
  <2>2. /\ Member(e).name.form = "bsd" /\ Member(e).name.number = p
        /\ Member(e).size = p + d /\ Member(e).bytes = bytes
    BY <1>4
  <2>3. Parsed(Member(e), table) = [path |-> SubSeq(bytes, 1, p), skip |-> p]
    BY <2>1, <2>2 DEF Parsed
  <2> QED
    BY <1>2, <2>3
<1>6. Member(e) \in ArRecords
  <2>1. [form |-> "bsd", number |-> p] \in ArNames /\ p + d \in Nat
    <3>1. [form |-> "bsd", number |-> p] \in [form : {"bsd", "gnu"}, number : Nat]
      BY <1>2
    <3>2. p + d \in Nat
      BY <1>2
    <3> QED
      BY <3>1, <3>2, Zenon DEF ArNames
  <2>2. Member(e) = [magic |-> TRUE, name |-> [form |-> "bsd", number |-> p], size |-> p + d,
                     bytes |-> bytes]
    BY <1>4
  <2> QED
    BY <1>2, <2>1, <2>2 DEF ArRecords
<1>7. IsFile(Member(e))
  BY <1>4 DEF IsFile
<1>8. Member(e).magic = TRUE /\ Member(e).bytes = bytes /\ Member(e).size = Len(bytes)
  BY <1>2, <1>4
<1> QED
  BY <1>2, <1>5, <1>6, <1>7, <1>8 DEF bytes, p, d

\* The steps are a sequence of themselves.
LEMMA SpannedSequence ==
  ASSUME NEW n \in Nat, NEW steps, DOMAIN steps = 1 .. n, steps = [i \in DOMAIN steps |-> steps[i]]
  PROVE  steps \in Seq({steps[i] : i \in DOMAIN steps})
<1> DEFINE T == {steps[i] : i \in DOMAIN steps}
<1>1. \A i \in 1 .. n : steps[i] \in T
  OBVIOUS
<1> HIDE DEF T
<1>2. steps \in [1 .. n -> T]
  BY <1>1
<1>3. steps \in Seq(T)
  BY <1>2, IsASeq
<1> QED
  BY <1>3 DEF T

\* What compress_ar has written is accepted and extracted completely: every file of
\* the sources gets its path and its bytes back, if the names fit into one tree.
THEOREM ArRoundTrip ==
  ASSUME NEW manifest \in Seq(ManifestEntries), OneTree(manifest),
         \A i \in DOMAIN manifest : manifest[i].data \notin {Old, Alien},
         NEW s, ArWritten(s, manifest),
         NEW by, Scan(by, s) = Accepted(ArScan(s)),
         \A entries : Replay(by, s, entries) = ArReplay(s, entries),
         \A path : Place(path) = Components(Fold(path))
  PROVE  Scan(by, s).ok /\ SoundReader(by, s)
<1> DEFINE files == FilesOf(manifest)
    n == Len(files)
    entries == ArScan(s).entries
    steps == ArReplay(s, entries)
<1>1. /\ n \in Nat /\ DOMAIN files = 1 .. n
      /\ \A k \in 1 .. n : files[k] \in ManifestEntries /\ ~files[k].dir
      /\ OneTree(files)
  BY FilesOfManifest
<1>2. s.records = [k \in 1 .. n |-> Member(files[k])] /\ s.magic = TRUE /\ s.cut = FALSE
      /\ s.members = files /\ s.fit = TRUE /\ s.intact = TRUE
  BY <1>1 DEF ArWritten, WriteArchive
<1> HIDE DEF files
<1>3. \A k \in 1 .. n : files[k] \in ManifestEntries /\ ValidPath(files[k].path)
  BY <1>1 DEF OneTree
<1>4. ASSUME NEW k \in 1 .. n, NEW table
      PROVE  /\ s.records[k] \in ArRecords /\ s.records[k].magic = TRUE /\ IsFile(s.records[k])
             /\ s.records[k].size = Len(s.records[k].bytes)
             /\ Parsed(s.records[k], table) = [path |-> files[k].path, skip |-> Len(files[k].path)]
             /\ SubSeq(s.records[k].bytes, Len(files[k].path) + 1, Len(s.records[k].bytes))
                  = files[k].data
  <2>1. s.records[k] = Member(files[k])
    BY <1>2
  <2>2. files[k] \in ManifestEntries /\ ValidPath(files[k].path)
    BY <1>3
  <2>3. /\ Member(files[k]) \in ArRecords /\ Member(files[k]).magic = TRUE /\ IsFile(Member(files[k]))
        /\ Member(files[k]).size = Len(Member(files[k]).bytes)
        /\ Parsed(Member(files[k]), table) = [path |-> files[k].path, skip |-> Len(files[k].path)]
        /\ SubSeq(Member(files[k]).bytes, Len(files[k].path) + 1, Len(Member(files[k]).bytes))
             = files[k].data
    BY <2>2, WrittenMember, Zenon
  <2> QED
    BY <2>1, <2>3
<1>5. ArArchive(s) /\ DOMAIN s.records = 1 .. n /\ Len(s.records) = n
  <2>1. s.records \in [1 .. n -> ArRecords]
    BY <1>2, <1>4
  <2>2. s.records \in Seq(ArRecords)
    BY <1>1, <2>1, IsASeq
  <2>3. DOMAIN s.records = 1 .. n /\ Len(s.records) = n
    BY <1>1, <2>1, <2>2
  <2> QED
    BY <2>2, <2>3 DEF ArArchive
<1>6. ArScan(s).ok
  BY <1>2, <1>4, <1>5 DEF ArScan, Listed, WholeMember
<1>7. Files(s) = [k \in 1 .. n |-> k]
  <2>1. {i \in DOMAIN s.records : IsFile(s.records[i])} = 1 .. n
    BY <1>4, <1>5
  <2> QED
    BY <1>1, <2>1, NumberedAll DEF Files
<1>8. DOMAIN Files(s) = 1 .. n /\ Len(Files(s)) = n /\ \A k \in 1 .. n : Files(s)[k] = k
  BY <1>1, <1>7
<1>9. DOMAIN entries = 1 .. n
      /\ \A k \in 1 .. n : entries[k].path = files[k].path /\ entries[k].dir = FALSE
  <2>1. DOMAIN entries = 1 .. n
    BY <1>5, <1>6, <1>8, ArIndex
  <2>2. ASSUME NEW k \in 1 .. n
        PROVE  entries[k].path = files[k].path /\ entries[k].dir = FALSE
    <3>1. LET i == Files(s)[k]
              found == Parsed(s.records[i], TableBefore(s, i))
          IN  entries[k] = [path |-> found.path, dir |-> FALSE, member |-> i,
                            skip |-> found.skip, size |-> s.records[i].size - found.skip]
      BY <1>5, <1>6, <1>8, ArIndex, SMTT(30)
    <3>2. Files(s)[k] = k
      BY <1>8
    <3> HIDE DEF entries
    <3>3. entries[k] = [path |-> Parsed(s.records[k], TableBefore(s, k)).path, dir |-> FALSE, member |-> k,
                        skip |-> Parsed(s.records[k], TableBefore(s, k)).skip,
                        size |-> s.records[k].size - Parsed(s.records[k], TableBefore(s, k)).skip]
      BY <3>1, <3>2
    <3>4. Parsed(s.records[k], TableBefore(s, k)) = [path |-> files[k].path, skip |-> Len(files[k].path)]
      BY <1>4
    <3> QED
      BY <3>3, <3>4
  <2> QED
    BY <2>1, <2>2
<1>10. ValidPathSet(entries)
  <2> HIDE DEF entries
  <2>1. \A k \in 1 .. n : entries[k].path \in Seq(Nat)
    BY <1>3, <1>9 DEF ManifestEntries, Text
  <2>2. OneTree(entries)
    <3>1. \A k \in 1 .. n : entries[k].path = files[k].path /\ entries[k].dir = files[k].dir
      <4>1. \A k \in 1 .. n : files[k].dir = FALSE
        BY <1>1 DEF ManifestEntries
      <4> QED
        BY <1>9, <4>1
    <3> QED
      BY <1>1, <1>9, <3>1 DEF OneTree
  <2> QED
    BY <1>1, <1>9, <2>1, <2>2, ValidPathSetIsOneTree
<1>11. Accepted(ArScan(s)).ok /\ Accepted(ArScan(s)).entries = entries
  BY <1>6, <1>10 DEF Accepted, ArScan, Listed
<1>12. steps = ArReplay(s, entries) /\ entries = Accepted(ArScan(s)).entries
       /\ steps = [i \in DOMAIN steps |-> steps[i]]
  BY <1>11 DEF ArReplay
<1> HIDE DEF steps, entries
<1>13. DOMAIN steps = 1 .. n /\ Apart(steps)
  BY <1>5, <1>8, <1>11, <1>12, ArStepsAreGood
<1>17. ASSUME NEW k \in 1 .. n PROVE steps[k] = File(files[k].path, files[k].data, TRUE)
  <2>1. steps[k] = ArFile(s, k)
    BY <1>5, <1>11, <1>12, <1>13, ArStepsAreGood
  <2>2. Files(s)[k] = k
    BY <1>8
  <2>3. Parsed(s.records[k], TableBefore(s, k)) = [path |-> files[k].path, skip |-> Len(files[k].path)]
    BY <1>4
  <2>4. SubSeq(s.records[k].bytes, Len(files[k].path) + 1, Len(s.records[k].bytes)) = files[k].data
    BY <1>4
  <2>5. ArFile(s, k) = File(files[k].path, files[k].data, TRUE)
    <3>1. ArFile(s, k) = File(Parsed(s.records[k], TableBefore(s, k)).path,
                              SubSeq(s.records[k].bytes,
                                     Parsed(s.records[k], TableBefore(s, k)).skip + 1,
                                     Len(s.records[k].bytes)), TRUE)
      BY <2>2 DEF ArFile
    <3>2. /\ Parsed(s.records[k], TableBefore(s, k)).path = files[k].path
          /\ Parsed(s.records[k], TableBefore(s, k)).skip = Len(files[k].path)
      BY <2>3
    <3> QED
      BY <2>4, <3>1, <3>2, Zenon
  <2> QED
    BY <2>1, <2>5
<1>14. ASSUME NEW k \in 1 .. n
       PROVE  ~Throws(steps[k]) /\ Puts(steps[k], files[k])
  <2>1. files[k].dir = FALSE /\ files[k].data \notin {Old, Alien}
    <3>1. \E i \in DOMAIN manifest : files[k] = manifest[i]
      BY FilesOfManifest DEF files
    <3> QED
      BY <1>1, <3>1 DEF ManifestEntries
  <2>2. /\ steps[k].op = "file" /\ steps[k].good = TRUE /\ steps[k].path = files[k].path
        /\ steps[k].data = files[k].data
    <3>1. steps[k] = File(files[k].path, files[k].data, TRUE)
      BY <1>17
    <3> QED
      BY <3>1 DEF File
  <2> QED
    BY <2>1, <2>2 DEF Throws, Puts
<1>15. SoundSteps(steps, s)
  <2>1. steps \in Seq({steps[i] : i \in DOMAIN steps})
    BY <1>1, <1>12, <1>13, SpannedSequence
  <2>2. \A i \in 1 .. n : ~Throws(steps[i]) /\ \E m \in DOMAIN s.members : Puts(steps[i], s.members[m])
    BY <1>1, <1>2, <1>14
  <2>3. Complete(steps, s)
    BY <1>1, <1>2, <1>13, <1>14 DEF Complete
  <2> QED
    BY <1>2, <1>13, <2>1, <2>2, <2>3 DEF SoundSteps
<1>16. SoundReader(by, s)
  <2>1. Scan(by, s).ok /\ Scan(by, s).entries = entries
    BY <1>11
  <2>2. Replay(by, s, Scan(by, s).entries) = steps
    BY <1>12, <2>1
  <2> QED
    BY <1>15, <2>1, <2>2 DEF SoundReader
<1> QED
  BY <1>11, <1>16
=============================================================================
