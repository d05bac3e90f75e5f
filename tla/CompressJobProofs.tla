-------------------------- MODULE CompressJobProofs --------------------------
(***************************************************************************)
(* What is proved of CompressJob for any list of sources, any batch limits *)
(* and any writes to the sources: its type invariant, that no locked       *)
(* source changes, that the archive which is published is the one the      *)
(* manifest describes, and that with verification it restores every source.*)
(*                                                                         *)
(* The inductive invariant follows the index through its three writers:    *)
(* what is behind position Len(index) of the manifest is in the index with *)
(* the content the walk saw, what is before it in the batch will be, and a *)
(* source is in the batch or in a stream only while it is locked.          *)
(***************************************************************************)
EXTENDS CompressJob, FiniteSetTheorems, SequenceTheorems, WellFoundedInduction, TLAPS

Working == {"entries", "read", "write", "file", "closed", "commit", "done"}
Written == {"closed", "commit", "done"}

\* The manifest lists every source once the walk has seen it.
ManifestKnown ==
  /\ Len(seen) <= Total
  /\ pc = "walk" => index = <<>> /\ payload = <<>> /\ locks = {}
  /\ pc \in Working => /\ Len(seen) = Total /\ Len(manifest) = Total
                        /\ \A s \in Src : \E k \in 1 .. Total : manifest[k] = s

\* The index follows the manifest and the payload follows the index.
EntriesFollow ==
  /\ pc \in Working => Len(index) <= Total
  /\ pc \in Working => \A k \in 1 .. Len(index) :
       /\ index[k].source = manifest[k]
       /\ ~Sources[manifest[k]].directory => index[k].crc = seen[manifest[k]]
  /\ pc \in Written => Len(index) = Total

\* The batch is the next part of the manifest; a file that is streamed is locked.
BatchFollows ==
  /\ pc \in {"read", "write"} =>
       /\ Len(index) + Len(batch) <= Total
       /\ \A k \in 1 .. Len(batch) : /\ batch[k].source = manifest[Len(index) + k]
                                    /\ batch[k].content = seen[batch[k].source]
  /\ pc = "file" => Len(index) < Total /\ Position(1) \in locks

\* What is published is the archive as it was verified.
EndKnown ==
  /\ pc \in {"commit", "done"} /\ options.verify => Readable(Archive)
  /\ published = IF pc = "done" THEN Archive ELSE None

Inv ==
  /\ TypeOK
  /\ ManifestKnown
  /\ EntriesFollow
  /\ Dense(Archive)
  /\ BatchFollows
  /\ LockedIsUnchanged
  /\ EndKnown

-----------------------------------------------------------------------------
(* Sources, batches and archives *)

Source == [name : Nat, directory : BOOLEAN, size : Nat]
Block == [source : Src, content : Contents, byte : Nat, sound : BOOLEAN]
IndexEntry == [source : Src, crc : Contents, first : Nat, offset : Nat, length : Nat]

LEMMA Bounds ==
  /\ Src = 1 .. Total /\ Total \in Nat
  /\ Sources \in [Src -> Source] /\ MaxEdits \in Nat /\ BatchFiles \in Nat
  /\ Damages \subseteq BOOLEAN /\ BlockSize \in Nat
<1>1. Sources \in Seq(Source)
  BY CompressJobAssumption DEF Source
<1>2. Src = 1 .. Len(Sources) /\ Len(Sources) \in Nat
  BY <1>1 DEF Src
<1>3. Total = Len(Sources)
  <2>1. Cardinality(1 .. Len(Sources)) = IF 1 > Len(Sources) THEN 0 ELSE Len(Sources) - 1 + 1
    BY <1>2, FS_Interval
  <2>2. QED
    BY <1>2, <2>1 DEF Total
<1>4. Sources \in [Src -> Source]
  BY <1>1 DEF Src
<1>5. MaxEdits \in Nat /\ BatchFiles \in Nat /\ Damages \subseteq BOOLEAN /\ BlockSize \in Nat
  BY CompressJobAssumption
<1>6. QED
  BY <1>2, <1>3, <1>4, <1>5

\* The least-number principle for sets of natural numbers.
LEMMA LeastNumber ==
  ASSUME NEW S \in SUBSET Nat, S # {}
  PROVE  \E m \in S : \A k \in S : m <= k
<1> DEFINE R == {p \in Nat \X Nat : p[1] < p[2]}
<1>1. IsWellFoundedOn(R, Nat)
  BY NatLessThanWellFounded DEF OpToRel
<1>2. PICK m \in S : \A k \in S : ~ (<<k, m>> \in R)
  <2> HIDE DEF R
  <2> QED
    BY <1>1, WFMin
<1>3. ASSUME NEW k \in S PROVE m <= k
  <2>1. k \in Nat /\ m \in Nat /\ <<k, m>> \notin R
    BY <1>2
  <2> QED
    BY <2>1
<1> QED
  BY <1>3

\* A bounded set of numbers that is not empty has a maximum.
LEMMA MaxOfBounded ==
  ASSUME NEW n \in Nat, NEW S \in SUBSET (0 .. n), S # {}
  PROVE  Max(S) \in S
<1> DEFINE Above == {n - k : k \in S}
<1>1. Above \in SUBSET Nat /\ Above # {}
  <2>1. \A k \in S : n - k \in Nat
    OBVIOUS
  <2>2. QED
    BY <2>1
<1>2. PICK m \in Above : \A k \in Above : m <= k
  <2> HIDE DEF Above
  <2> QED
    BY <1>1, LeastNumber
<1>3. PICK x \in S : m = n - x
  OBVIOUS
<1>4. \A y \in S : x >= y
  <2>1. TAKE y \in S
  <2>2. n - x <= n - y
    BY <1>2, <1>3
  <2>3. QED
    BY <2>2
<1>5. QED
  BY <1>4 DEF Max

\* A batch never reaches beyond the manifest.
LEMMA BatchFits ==
  ASSUME TypeOK, Len(index) <= Total
  PROVE  BatchCount \in Nat /\ BatchCount <= Total - Len(index)
<1> DEFINE counts == {c \in 2 .. BatchFiles : c <= Total - Len(index) /\ Batchable(c)}
<1>1. Len(index) \in Nat
  BY DEF TypeOK
<1>2. counts \in SUBSET (0 .. BatchFiles) /\ \A c \in counts : c <= Total - Len(index)
  BY Bounds
<1>3. BatchCount = IF options.force_cpu \/ counts = {} THEN 0 ELSE Max(counts)
  BY DEF BatchCount
<1> HIDE DEF counts
<1>4. counts # {} => Max(counts) \in counts
  BY <1>2, MaxOfBounded, Bounds
<1>5. QED
  BY <1>1, <1>2, <1>3, <1>4, Bounds

\* The bytes of an entry.
LEMMA BytesType ==
  ASSUME NEW s \in Src, NEW content \in Contents, NEW sound \in BOOLEAN, NEW length \in Nat
  PROVE  Bytes(s, content, sound, length) \in Seq(Block)
         /\ Len(Bytes(s, content, sound, length)) = length
  BY DEF Bytes, Block

\* One more entry at the end of an archive.
LEMMA DenseGrows ==
  ASSUME NEW i \in Seq(IndexEntry), NEW p \in Seq(Block), NEW q \in Seq(Block),
         NEW entry \in IndexEntry, Dense([index |-> i, payload |-> p]),
         entry.first = 0, entry.offset = Len(p), Len(q) = Len(p) + entry.length
  PROVE  Dense([index |-> Append(i, entry), payload |-> q])
<1> DEFINE j == Append(i, entry)
<1>1. /\ j \in Seq(IndexEntry) /\ Len(j) = Len(i) + 1 /\ j[Len(i) + 1] = entry
      /\ \A k \in 1 .. Len(i) : j[k] = i[k]
      /\ Len(i) \in Nat
  BY AppendProperties
<1>2. /\ \A k \in 1 .. Len(i) :
           /\ i[k].first = 0
           /\ i[k].offset = IF k = 1 THEN 0 ELSE i[k - 1].offset + i[k - 1].length
      /\ Len(p) = IF Len(i) + 1 = 1 THEN 0 ELSE i[Len(i)].offset + i[Len(i)].length
  BY <1>1 DEF Dense, Start
<1> HIDE DEF j
<1>3. ASSUME NEW k \in 1 .. Len(j)
      PROVE  /\ j[k].first = 0
             /\ j[k].offset = IF k = 1 THEN 0 ELSE j[k - 1].offset + j[k - 1].length
  <2>1. CASE k \in 1 .. Len(i)
    <3>0. k \in Nat /\ Len(i) \in Nat /\ (k # 1 => k - 1 \in 1 .. Len(i))
      BY <1>1, <2>1
    <3>1. j[k] = i[k] /\ (k # 1 => j[k - 1] = i[k - 1])
      BY <1>1, <2>1, <3>0
    <3>2. /\ i[k].first = 0
          /\ i[k].offset = IF k = 1 THEN 0 ELSE i[k - 1].offset + i[k - 1].length
      BY <1>2, <2>1
    <3>3. CASE k = 1
      BY <3>1, <3>2, <3>3
    <3>4. CASE k # 1
      BY <3>1, <3>2, <3>4
    <3>5. QED
      BY <3>3, <3>4
  <2>2. CASE k = Len(i) + 1
    BY <1>1, <1>2, <2>2
  <2>3. QED
    BY <1>1, <2>1, <2>2
<1>4. Len(q) = j[Len(j)].offset + j[Len(j)].length /\ Len(j) + 1 # 1
  BY <1>1
<1>5. QED
  BY <1>1, <1>3, <1>4 DEF Dense, Start, j

-----------------------------------------------------------------------------
(* Types *)

LEMMA TypeOKInit == Init => TypeOK
  BY Bounds DEF Init, TypeOK, Contents

BatchEntry == [source : Src, content : Contents, sound : BOOLEAN, first : Nat, length : Nat]

\* The source that a position of the manifest names.
LEMMA PositionType ==
  ASSUME TypeOK, Len(manifest) = Total, NEW k \in Nat \ {0}, Len(index) + k <= Total
  PROVE  /\ Position(k) = manifest[Len(index) + k] /\ Position(k) \in Src
         /\ Sources[Position(k)] \in Source
<1>1. Len(index) \in Nat /\ Len(index) + k \in 1 .. Len(manifest)
  BY DEF TypeOK
<1>2. manifest[Len(index) + k] \in Src
  BY <1>1 DEF TypeOK
<1>3. QED
  BY <1>2, Bounds DEF Position

\* What one entry adds to the archive, whoever writes it.
WritesEntry(s, content, sound, length) ==
  /\ payload' = payload \o Bytes(s, content, sound, length)
  /\ index' = Append(index, Entry(s, content, 0, length))

LEMMA EntryWritten ==
  ASSUME TypeOK, Dense(Archive), NEW s \in Src, NEW content \in Contents,
         NEW sound \in BOOLEAN, NEW length \in Nat,
         WritesEntry(s, content, sound, length)
  PROVE  /\ payload' \in Seq(Block) /\ index' \in Seq(IndexEntry)
         /\ Dense(Archive)'
         /\ Len(index') = Len(index) + 1
         /\ \A k \in 1 .. Len(index) : index'[k] = index[k]
         /\ index'[Len(index) + 1] = Entry(s, content, 0, length)
<1>1. index \in Seq(IndexEntry) /\ payload \in Seq(Block)
  BY DEF TypeOK, IndexEntry, Block
<1>2. Entry(s, content, 0, length) \in IndexEntry
  BY <1>1 DEF Entry, IndexEntry
<1>3. Bytes(s, content, sound, length) \in Seq(Block) /\ Len(Bytes(s, content, sound, length)) = length
  BY BytesType
<1>4. payload' \in Seq(Block) /\ Len(payload') = Len(payload) + length
  BY <1>1, <1>3, ConcatProperties DEF WritesEntry
<1>5. /\ Entry(s, content, 0, length).first = 0
      /\ Entry(s, content, 0, length).offset = Len(payload)
      /\ Entry(s, content, 0, length).length = length
  BY DEF Entry
<1>6. Dense([index |-> Append(index, Entry(s, content, 0, length)), payload |-> payload'])
  BY <1>1, <1>2, <1>4, <1>5, DenseGrows DEF Archive
<1>7. Dense(Archive)'
  BY <1>6 DEF Archive, WritesEntry
<1>8. /\ index' \in Seq(IndexEntry) /\ Len(index') = Len(index) + 1
      /\ \A k \in 1 .. Len(index) : index'[k] = index[k]
      /\ index'[Len(index) + 1] = Entry(s, content, 0, length)
  <2> DEFINE e == Entry(s, content, 0, length)
  <2>1. index' = Append(index, e) /\ e \in IndexEntry
    BY <1>2 DEF WritesEntry
  <2> HIDE DEF e
  <2>2. /\ index' \in Seq(IndexEntry) /\ Len(index') = Len(index) + 1
        /\ \A k \in 1 .. Len(index) : index'[k] = index[k]
        /\ index'[Len(index) + 1] = e
    BY <1>1, <2>1, AppendProperties
  <2>3. QED
    BY <2>2 DEF e
<1>9. QED
  BY <1>4, <1>7, <1>8

\* The writers of the index: an empty directory, a stream, a file of a batch.
LEMMA WhoWrites ==
  ASSUME TypeOK, ManifestKnown, EntriesFollow, BatchFollows, LockedIsUnchanged,
         AddDirectory \/ WriteFile \/ WriteBatchEntry
  PROVE  \E content \in Contents, sound \in BOOLEAN, length \in Nat :
           /\ Position(1) \in Src /\ Len(index) < Total
           /\ ~Sources[Position(1)].directory => content = seen[Position(1)]
           /\ WritesEntry(Position(1), content, sound, length)
<1>0. Len(index) \in Nat /\ Total \in Nat
  BY Bounds DEF TypeOK
<1>1. CASE AddDirectory
  <2>1. Len(manifest) = Total /\ Len(index) < Total /\ Current.directory
    BY <1>1 DEF AddDirectory, ManifestKnown, Working, More
  <2>2. Position(1) \in Src
    BY <1>0, <2>1, PositionType
  <2>3. payload' = payload \o Bytes(Position(1), 0, TRUE, 0)
    <3>1. Bytes(Position(1), 0, TRUE, 0) = <<>>
      BY DEF Bytes
    <3>2. payload' = payload /\ payload \in Seq(Block)
      BY <1>1 DEF AddDirectory, TypeOK, Block
    <3>3. payload \o <<>> = payload
      BY <3>2
    <3>4. QED
      BY <3>1, <3>2, <3>3
  <2>4. 0 \in Contents
    BY Bounds DEF Contents
  <2>5. WritesEntry(Position(1), 0, TRUE, 0)
    BY <1>1, <2>3 DEF AddDirectory, WritesEntry
  <2>6. QED
    BY <2>1, <2>2, <2>4, <2>5 DEF Current
<1>2. CASE WriteFile
  <2>1. Len(manifest) = Total /\ Len(index) < Total /\ Position(1) \in locks
    BY <1>2 DEF WriteFile, ManifestKnown, BatchFollows, Working
  <2>2. Position(1) \in Src /\ Sources[Position(1)] \in Source
    BY <1>0, <2>1, PositionType
  <2>3. disk[Position(1)] = seen[Position(1)] /\ disk[Position(1)] \in Contents
    BY <2>1, <2>2 DEF LockedIsUnchanged, TypeOK
  <2>4. Current.size \in Nat
    BY <2>2 DEF Current, Source
  <2>5. PICK length \in 0 .. Current.size, damaged \in Damages :
          WritesEntry(Position(1), disk[Position(1)], ~damaged, length)
    BY <1>2 DEF WriteFile, WritesEntry
  <2>6. length \in Nat /\ (~damaged) \in BOOLEAN
    BY <2>4
  <2>7. QED
    BY <2>1, <2>2, <2>3, <2>5, <2>6
<1>3. CASE WriteBatchEntry
  <2>1. /\ Len(manifest) = Total /\ batch # <<>> /\ batch \in Seq(BatchEntry)
        /\ Len(index) + Len(batch) <= Total
        /\ batch[1].source = manifest[Len(index) + 1]
        /\ batch[1].content = seen[batch[1].source]
    <3>1. pc = "write" /\ batch # <<>> /\ batch \in Seq(BatchEntry)
      BY <1>3 DEF WriteBatchEntry, TypeOK, BatchEntry
    <3>2. 1 \in 1 .. Len(batch)
      BY <3>1
    <3>3. QED
      BY <3>1, <3>2 DEF ManifestKnown, BatchFollows, Working
  <2>2. Len(index) < Total /\ Head(batch) = batch[1] /\ batch[1] \in BatchEntry
    BY <1>0, <2>1
  <2>3. Position(1) \in Src /\ batch[1].source = Position(1)
    BY <1>0, <2>1, <2>2, PositionType
  <2>4. WritesEntry(Position(1), batch[1].content, batch[1].sound, batch[1].length)
    BY <1>3, <2>2, <2>3 DEF WriteBatchEntry, WritesEntry
  <2>5. batch[1].content \in Contents /\ batch[1].sound \in BOOLEAN /\ batch[1].length \in Nat
    BY <2>2 DEF BatchEntry
  <2>6. QED
    BY <2>1, <2>2, <2>3, <2>4, <2>5
<1>4. QED
  BY <1>1, <1>2, <1>3

\* The steps that write nothing.
LEMMA Quiet ==
  ASSUME [Next]_vars
  PROVE  AddDirectory \/ WriteFile \/ WriteBatchEntry \/ UNCHANGED writing
  BY DEF Next, Compress, vars, Walk, SortManifest, StartFile, StartBatch, ReadBatchSource,
     EncodeBatch, EndBatch, Finalize, Verify, Commit, Throw, Edit, writing, reading

LEMMA EncodedType ==
  ASSUME NEW b \in BatchEntry, NEW sound \in BOOLEAN, NEW length \in Nat, NEW first \in Nat
  PROVE  [b EXCEPT !.sound = sound, !.length = length, !.first = first] \in BatchEntry
  BY DEF BatchEntry

LEMMA TypeOKStep ==
  ASSUME Inv, [Next]_vars
  PROVE  TypeOK'
<1> USE DEF reading, writing, Inv
<1>0. /\ index \in Seq(IndexEntry) /\ payload \in Seq(Block) /\ batch \in Seq(BatchEntry)
      /\ seen \in Seq(Contents) /\ disk \in [Src -> Contents] /\ Len(index) \in Nat
  BY DEF TypeOK, IndexEntry, Block, BatchEntry
<1>1. CASE Walk
  <2>1. disk[Len(seen) + 1] \in Contents
    BY <1>0, <1>1, Bounds DEF Walk
  <2>2. seen' \in Seq(Contents)
    BY <1>0, <1>1, <2>1, AppendProperties DEF Walk
  <2>3. QED
    BY <1>1, <2>2 DEF Walk, TypeOK
<1>2. CASE SortManifest
  <2>1. manifest' \in [1 .. Total -> Src]
    BY <1>2 DEF SortManifest
  <2>2. manifest' \in Seq(Src)
    BY <2>1, Bounds
  <2>3. QED
    BY <1>2, <2>2 DEF SortManifest, TypeOK
<1>3. CASE AddDirectory \/ WriteFile \/ WriteBatchEntry
  <2>1. PICK content \in Contents, sound \in BOOLEAN, length \in Nat :
           Position(1) \in Src /\ WritesEntry(Position(1), content, sound, length)
    BY <1>3, WhoWrites
  <2>2. payload' \in Seq(Block) /\ index' \in Seq(IndexEntry)
    BY <2>1, EntryWritten
  <2>3. batch' \in Seq(BatchEntry)
    BY <1>0, <1>3, HeadTailProperties DEF AddDirectory, WriteFile, WriteBatchEntry
  <2>4. UNCHANGED <<options, disk, seen, manifest>> /\ locks' \subseteq Src
        /\ pc' \in {"entries", "write"}
    BY <1>3 DEF AddDirectory, WriteFile, WriteBatchEntry, TypeOK
  <2>5. QED
    BY <2>2, <2>3, <2>4 DEF TypeOK, IndexEntry, Block, BatchEntry
<1>4. CASE StartFile
  <2>1. Len(manifest) = Total /\ Len(index) + 1 <= Total
    BY <1>0, <1>4, Bounds DEF StartFile, More, ManifestKnown, Working
  <2>2. Position(1) \in Src
    BY <1>0, <2>1, PositionType
  <2>3. QED
    BY <1>4, <2>2 DEF StartFile, Lock, TypeOK
<1>5. CASE ReadBatchSource
  <2>1. Len(manifest) = Total /\ Len(index) <= Total /\ Len(batch) \in Nat
    BY <1>0, <1>5 DEF ReadBatchSource, ManifestKnown, EntriesFollow, Working
  <2>2. Len(index) + (Len(batch) + 1) <= Total
    BY <1>0, <1>5, <2>1, BatchFits, Bounds DEF ReadBatchSource
  <2>3. Position(Len(batch) + 1) \in Src
    BY <2>1, <2>2, PositionType
  <2>4. [source |-> Position(Len(batch) + 1), content |-> disk[Position(Len(batch) + 1)],
         sound |-> TRUE, first |-> 0, length |-> 0] \in BatchEntry
    BY <1>0, <2>3 DEF BatchEntry
  <2>5. batch' \in Seq(BatchEntry)
    BY <1>0, <1>5, <2>4, AppendProperties DEF ReadBatchSource
  <2>6. QED
    BY <1>5, <2>3, <2>5 DEF ReadBatchSource, Lock, TypeOK, BatchEntry
<1>6. CASE EncodeBatch
  <2>1. PICK lengths \in [DOMAIN batch -> 0 .. BlockSize], damaged \in Damages,
             starts \in [DOMAIN batch -> 0 .. BatchFiles * BlockSize] :
          batch' = [k \in DOMAIN batch |->
            [batch[k] EXCEPT !.sound = ~damaged, !.length = lengths[k], !.first = starts[k]]]
    BY <1>6 DEF EncodeBatch
  <2>2. DOMAIN batch = 1 .. Len(batch) /\ Len(batch) \in Nat
    BY <1>0
  <2>3. ASSUME NEW k \in 1 .. Len(batch)
        PROVE  [batch[k] EXCEPT !.sound = ~damaged, !.length = lengths[k], !.first = starts[k]]
                 \in BatchEntry
    <3>1. batch[k] \in BatchEntry
      BY <1>0
    <3>2. lengths[k] \in Nat
      <4>1. \A n \in 0 .. BlockSize : n \in Nat
        BY Bounds
      <4>2. QED
        BY <2>2, <4>1
    <3>3. starts[k] \in Nat
      <4>1. \A n \in 0 .. BatchFiles * BlockSize : n \in Nat
        OBVIOUS
      <4>2. QED
        BY <2>1, <2>2, <4>1
    <3>4. ASSUME NEW sound \in BOOLEAN
          PROVE  [batch[k] EXCEPT !.sound = sound, !.length = lengths[k], !.first = starts[k]]
                   \in BatchEntry
      BY <3>1, <3>2, <3>3, EncodedType
    <3>5. QED
      BY <3>4
  <2>4. batch' \in Seq(BatchEntry)
    <3>1. batch' \in [1 .. Len(batch) -> BatchEntry]
      BY <2>1, <2>2, <2>3
    <3>2. QED
      BY <2>2, <3>1
  <2>5. QED
    BY <1>6, <2>4 DEF EncodeBatch, TypeOK, BatchEntry
<1>7. CASE StartBatch \/ EndBatch \/ Finalize \/ Verify \/ Commit \/ Throw
  <2>1. batch' \in Seq(BatchEntry)
    <3>1. batch' = <<>> \/ batch' = batch
      BY <1>7 DEF StartBatch, EndBatch, Finalize, Verify, Commit, Throw
    <3>2. QED
      BY <1>0, <3>1, EmptySeq
  <2>2. /\ UNCHANGED <<options, reading, writing>> /\ locks' \subseteq Src
        /\ pc' \in {"read", "entries", "closed", "commit", "done", "failed"}
    BY <1>7 DEF StartBatch, EndBatch, Finalize, Verify, Commit, Throw, TypeOK
  <2>3. QED
    BY <2>1, <2>2 DEF TypeOK, BatchEntry
<1>8. ASSUME NEW s \in Src, Edit(s) PROVE TypeOK'
  <2>1. disk' \in [Src -> Contents]
    BY <1>0, <1>8, Bounds DEF Edit, Contents
  <2>2. QED
    BY <1>8, <2>1 DEF Edit, TypeOK
<1>9. CASE UNCHANGED vars
  BY <1>9 DEF vars, TypeOK
<1>10. QED
  BY <1>1, <1>2, <1>3, <1>4, <1>5, <1>6, <1>7, <1>8, <1>9 DEF Next, Compress

-----------------------------------------------------------------------------
(* The manifest and the locks *)

\* As many places as sources: a list without repetition leaves none out.
LEMMA SortedIsComplete ==
  ASSUME NEW m \in [1 .. Total -> Src], IsInjective(m)
  PROVE  \A s \in Src : \E k \in 1 .. Total : m[k] = s
<1>1. m \in Injection(1 .. Total, Src) /\ Src = 1 .. Total /\ IsFiniteSet(Src)
  <2>1. m \in Injection(1 .. Total, Src)
    BY Zenon DEF Injection
  <2>2. 1 \in Int /\ Total \in Int /\ Src = 1 .. Total
    BY Bounds
  <2>3. IsFiniteSet(1 .. Total)
    BY <2>2, FS_Interval
  <2>4. QED
    BY <2>1, <2>2, <2>3
<1>2. m \in Surjection(1 .. Total, Src)
  <2>1. Cardinality(1 .. Total) = Cardinality(Src) <=> m \in Surjection(1 .. Total, Src)
    BY <1>1, FS_Injection, Zenon
  <2>2. QED
    BY <1>1, <2>1
<1>3. QED
  BY <1>2 DEF Surjection

LEMMA ManifestStep ==
  ASSUME Inv, [Next]_vars
  PROVE  ManifestKnown'
<1> USE DEF reading, writing
<1>0. ManifestKnown /\ seen \in Seq(Contents)
  BY DEF Inv, TypeOK
<1>1. CASE Walk
  <2>1. disk[Len(seen) + 1] \in Contents
    BY <1>0, <1>1, Bounds DEF Walk, Inv, TypeOK
  <2>2. Len(seen') = Len(seen) + 1 /\ Len(seen) \in Nat
    BY <1>0, <1>1, <2>1, AppendProperties DEF Walk
  <2>3. QED
    BY <1>0, <1>1, <2>2, Bounds DEF Walk, ManifestKnown, Working
<1>2. CASE SortManifest
  <2>1. manifest' \in [1 .. Total -> Src]
    BY <1>2 DEF SortManifest
  <2>2. Len(manifest') = Total
    BY <2>1, Bounds
  <2>3. \A s \in Src : \E k \in 1 .. Total : manifest'[k] = s
    BY <1>2, SortedIsComplete DEF SortManifest
  <2>4. QED
    BY <1>0, <1>2, <2>2, <2>3 DEF SortManifest, ManifestKnown
<1>3. CASE Throw
  BY <1>0, <1>3 DEF Throw, ManifestKnown, Working
<1>4. ASSUME pc \in Working, pc' \in Working, UNCHANGED <<seen, manifest>>
      PROVE  ManifestKnown'
  BY <1>0, <1>4 DEF ManifestKnown, Working
<1>5. CASE AddDirectory \/ StartFile \/ WriteFile \/ StartBatch \/ ReadBatchSource \/ EncodeBatch
             \/ WriteBatchEntry \/ EndBatch \/ Finalize \/ Verify \/ Commit
  BY <1>4, <1>5 DEF AddDirectory, StartFile, WriteFile, StartBatch, ReadBatchSource, EncodeBatch,
     WriteBatchEntry, EndBatch, Finalize, Verify, Commit, Working
<1>6. ASSUME NEW s \in Src, Edit(s) PROVE ManifestKnown'
  BY <1>0, <1>6 DEF Edit, ManifestKnown
<1>7. CASE UNCHANGED vars
  BY <1>0, <1>7 DEF vars, ManifestKnown
<1>8. QED
  BY <1>1, <1>2, <1>3, <1>5, <1>6, <1>7 DEF Next, Compress

LEMMA LockedStep ==
  ASSUME Inv, [Next]_vars
  PROVE  LockedIsUnchanged'
<1> USE DEF reading, writing
<1>0. LockedIsUnchanged /\ locks \subseteq Src /\ disk \in [Src -> Contents]
  BY DEF Inv, TypeOK
<1>1. CASE Walk
  BY <1>1 DEF Walk, Inv, ManifestKnown, LockedIsUnchanged
<1>2. ASSUME NEW s, Lock(s), UNCHANGED reading PROVE LockedIsUnchanged'
  BY <1>0, <1>2 DEF Lock, LockedIsUnchanged
<1>3. CASE StartFile \/ ReadBatchSource
  BY <1>2, <1>3 DEF StartFile, ReadBatchSource
<1>4. ASSUME locks' \subseteq locks, UNCHANGED <<disk, seen>> PROVE LockedIsUnchanged'
  BY <1>0, <1>4 DEF LockedIsUnchanged
<1>5. CASE SortManifest \/ AddDirectory \/ WriteFile \/ StartBatch \/ EncodeBatch
             \/ WriteBatchEntry \/ EndBatch \/ Finalize \/ Verify \/ Commit \/ Throw
  BY <1>4, <1>5 DEF SortManifest, AddDirectory, WriteFile, StartBatch, EncodeBatch,
     WriteBatchEntry, EndBatch, Finalize, Verify, Commit, Throw
<1>6. ASSUME NEW s \in Src, Edit(s) PROVE LockedIsUnchanged'
  <2>1. s \notin locks /\ UNCHANGED <<locks, seen>> /\ \A r \in Src \ {s} : disk'[r] = disk[r]
    BY <1>0, <1>6 DEF Edit
  <2>2. QED
    BY <1>0, <2>1 DEF LockedIsUnchanged
<1>7. CASE UNCHANGED vars
  BY <1>4, <1>7 DEF vars
<1>8. QED
  BY <1>1, <1>3, <1>5, <1>6, <1>7 DEF Next, Compress

-----------------------------------------------------------------------------
(* The index and the batch *)

LEMMA DenseStep ==
  ASSUME Inv, [Next]_vars
  PROVE  Dense(Archive)'
<1>1. CASE AddDirectory \/ WriteFile \/ WriteBatchEntry
  BY <1>1, WhoWrites, EntryWritten DEF Inv
<1>2. CASE UNCHANGED writing
  <2>1. Archive' = Archive
    BY <1>2 DEF Archive, writing
  <2>2. Dense(Archive)' = Dense(Archive')
    OBVIOUS
  <2>3. QED
    BY <2>1 DEF Inv, Dense, Start
<1>3. QED
  BY <1>1, <1>2, Quiet

LEMMA EntriesStep ==
  ASSUME Inv, [Next]_vars
  PROVE  EntriesFollow'
<1> USE DEF reading, writing
<1>0. EntriesFollow /\ ManifestKnown /\ TypeOK /\ Len(index) \in Nat
  BY DEF Inv, TypeOK
<1>1. CASE AddDirectory \/ WriteFile \/ WriteBatchEntry
  <2>1. PICK content \in Contents, sound \in BOOLEAN, length \in Nat :
          /\ Position(1) \in Src /\ Len(index) < Total
          /\ ~Sources[Position(1)].directory => content = seen[Position(1)]
          /\ WritesEntry(Position(1), content, sound, length)
    BY <1>1, WhoWrites DEF Inv
  <2>2. /\ Len(index') = Len(index) + 1
        /\ \A k \in 1 .. Len(index) : index'[k] = index[k]
        /\ index'[Len(index) + 1] = Entry(Position(1), content, 0, length)
    BY <2>1, EntryWritten DEF Inv
  <2>3. index'[Len(index) + 1].source = Position(1) /\ index'[Len(index) + 1].crc = content
    BY <2>2 DEF Entry
  <2>4. pc \in Working /\ pc' \notin Written /\ UNCHANGED <<seen, manifest>>
    BY <1>1 DEF AddDirectory, WriteFile, WriteBatchEntry, Working, Written
  <2>5. ASSUME NEW k \in 1 .. Len(index')
        PROVE  /\ index'[k].source = manifest[k]
               /\ ~Sources[manifest[k]].directory => index'[k].crc = seen[manifest[k]]
    <3>1. CASE k \in 1 .. Len(index)
      BY <1>0, <2>2, <2>4, <3>1 DEF EntriesFollow
    <3>2. CASE k = Len(index) + 1
      BY <2>1, <2>3, <3>2 DEF Position
    <3>3. QED
      BY <1>0, <2>2, <3>1, <3>2
  <2>6. Len(index') <= Total
    BY <1>0, <2>1, <2>2, Bounds
  <2>7. QED
    BY <2>4, <2>5, <2>6 DEF EntriesFollow
<1>2. CASE Walk
  BY <1>2 DEF Walk, EntriesFollow, Working, Written
<1>3. CASE SortManifest
  <2>1. index' = <<>> /\ pc' = "entries"
    BY <1>0, <1>3 DEF SortManifest, ManifestKnown
  <2>2. QED
    BY <2>1, Bounds DEF EntriesFollow, Written
<1>4. CASE Throw
  BY <1>4 DEF Throw, EntriesFollow, Working, Written
<1>5. ASSUME UNCHANGED <<index, seen, manifest>>, pc \in Working, pc' \in Working,
             pc' \in Written => Len(index) = Total
      PROVE  EntriesFollow'
  BY <1>0, <1>5 DEF EntriesFollow
<1>6. CASE StartFile \/ StartBatch \/ ReadBatchSource \/ EncodeBatch \/ EndBatch
  BY <1>5, <1>6 DEF StartFile, StartBatch, ReadBatchSource, EncodeBatch, EndBatch, Working, Written
<1>7. CASE Finalize
  <2>1. Len(index) = Total
    BY <1>0, <1>7, Bounds DEF Finalize, More, EntriesFollow, Working
  <2>2. QED
    BY <1>5, <1>7, <2>1 DEF Finalize, Working
<1>8. CASE Verify \/ Commit
  BY <1>0, <1>5, <1>8 DEF Verify, Commit, Working, Written, EntriesFollow
<1>9. ASSUME NEW s \in Src, Edit(s) PROVE EntriesFollow'
  BY <1>0, <1>9 DEF Edit, EntriesFollow
<1>10. CASE UNCHANGED vars
  BY <1>0, <1>10 DEF vars, EntriesFollow
<1>11. QED
  BY <1>1, <1>2, <1>3, <1>4, <1>6, <1>7, <1>8, <1>9, <1>10 DEF Next, Compress

LEMMA BatchStep ==
  ASSUME Inv, [Next]_vars
  PROVE  BatchFollows'
<1> USE DEF reading, writing
<1>0. /\ BatchFollows /\ TypeOK /\ EntriesFollow /\ ManifestKnown /\ LockedIsUnchanged
      /\ Len(index) \in Nat /\ batch \in Seq(BatchEntry) /\ Len(batch) \in Nat
  BY DEF Inv, TypeOK, BatchEntry
<1>1. ASSUME pc' \notin {"read", "write", "file"} PROVE BatchFollows'
  BY <1>1 DEF BatchFollows
<1>2. CASE Walk \/ SortManifest \/ AddDirectory \/ WriteFile \/ EndBatch \/ Finalize \/ Verify
             \/ Commit \/ Throw
  BY <1>1, <1>2 DEF Walk, SortManifest, AddDirectory, WriteFile, EndBatch, Finalize, Verify,
     Commit, Throw
<1>3. CASE StartFile
  <2>1. Position(1)' = Position(1) /\ Len(index) < Total
    BY <1>3 DEF StartFile, Position, More
  <2>2. QED
    BY <1>3, <2>1 DEF StartFile, Lock, BatchFollows
<1>4. CASE StartBatch
  <2>1. Len(index) <= Total
    BY <1>0, <1>4 DEF StartBatch, EntriesFollow, Working
  <2>2. Len(batch') = 0 /\ Len(index') = Len(index) /\ pc' = "read"
    BY <1>4 DEF StartBatch
  <2>3. QED
    BY <1>0, <2>1, <2>2, Bounds DEF BatchFollows
<1>5. CASE ReadBatchSource
  <2> DEFINE s == Position(Len(batch) + 1)
             entry == [source |-> s, content |-> disk[s], sound |-> TRUE, first |-> 0, length |-> 0]
  <2>1. Len(manifest) = Total /\ Len(index) <= Total /\ pc = "read" /\ pc' = "read"
    BY <1>0, <1>5 DEF ReadBatchSource, ManifestKnown, EntriesFollow, Working
  <2>2. Len(index) + (Len(batch) + 1) <= Total
    BY <1>0, <1>5, <2>1, BatchFits, Bounds DEF ReadBatchSource
  <2>3. s \in Src /\ s = manifest[Len(index) + (Len(batch) + 1)]
    BY <1>0, <2>1, <2>2, PositionType
  <2>4. disk[s] = seen[s] /\ batch' = Append(batch, entry)
        /\ UNCHANGED <<index, manifest, seen>>
    BY <1>5 DEF ReadBatchSource, Lock
  <2>5. entry \in BatchEntry /\ entry.source = s /\ entry.content = disk[s]
    BY <1>0, <2>3 DEF BatchEntry, TypeOK
  <2> HIDE DEF s, entry
  <2>6. /\ Len(batch') = Len(batch) + 1 /\ batch'[Len(batch) + 1] = entry
        /\ \A k \in 1 .. Len(batch) : batch'[k] = batch[k]
    BY <1>0, <2>4, <2>5, AppendProperties
  <2>7. ASSUME NEW k \in 1 .. Len(batch')
        PROVE  /\ batch'[k].source = manifest[Len(index) + k]
               /\ batch'[k].content = seen[batch'[k].source]
    <3>1. CASE k \in 1 .. Len(batch)
      BY <1>0, <2>1, <2>6, <3>1 DEF BatchFollows
    <3>2. CASE k = Len(batch) + 1
      BY <2>3, <2>4, <2>5, <2>6, <3>2
    <3>3. QED
      BY <1>0, <2>6, <3>1, <3>2
  <2>8. Len(index') + Len(batch') <= Total
    BY <1>0, <2>2, <2>4, <2>6
  <2>9. QED
    BY <2>1, <2>4, <2>7, <2>8 DEF BatchFollows
<1>6. CASE EncodeBatch
  <2>1. /\ DOMAIN batch' = DOMAIN batch
        /\ \A k \in DOMAIN batch : batch'[k].source = batch[k].source
                                 /\ batch'[k].content = batch[k].content
        /\ pc = "read" /\ pc' = "write" /\ UNCHANGED <<index, manifest, seen>>
    <3>1. PICK lengths \in [DOMAIN batch -> 0 .. BlockSize], damaged \in Damages,
               starts \in [DOMAIN batch -> 0 .. BatchFiles * BlockSize] :
            batch' = [k \in DOMAIN batch |->
              [batch[k] EXCEPT !.sound = ~damaged, !.length = lengths[k], !.first = starts[k]]]
      BY <1>6 DEF EncodeBatch
    <3>2. \A k \in DOMAIN batch : batch[k] \in BatchEntry
      BY <1>0
    <3>3. \A k \in DOMAIN batch : batch'[k].source = batch[k].source
                                 /\ batch'[k].content = batch[k].content
      BY <3>1, <3>2 DEF BatchEntry
    <3>4. QED
      BY <1>6, <3>1, <3>3 DEF EncodeBatch
  <2>2. DOMAIN batch = 1 .. Len(batch) /\ Len(batch') = Len(batch)
    <3>1. batch' \in Seq(BatchEntry)
      BY TypeOKStep DEF TypeOK, BatchEntry
    <3>2. DOMAIN batch = 1 .. Len(batch) /\ DOMAIN batch' = 1 .. Len(batch') /\ Len(batch') \in Nat
      BY <1>0, <3>1
    <3>3. QED
      BY <1>0, <2>1, <3>2
  <2>3. QED
    BY <1>0, <2>1, <2>2 DEF BatchFollows
<1>7. CASE WriteBatchEntry
  <2>1. pc = "write" /\ pc' = "write" /\ batch # <<>> /\ batch' = Tail(batch)
        /\ UNCHANGED <<seen, manifest>>
    BY <1>7 DEF WriteBatchEntry
  <2>2. /\ Len(batch') = Len(batch) - 1
        /\ \A k \in 1 .. Len(batch') : batch'[k] = batch[k + 1]
    BY <1>0, <2>1, HeadTailProperties
  <2>3. Len(index') = Len(index) + 1
    BY <1>7, WhoWrites, EntryWritten DEF Inv
  <2>4. ASSUME NEW k \in 1 .. Len(batch')
        PROVE  /\ batch'[k].source = manifest[Len(index') + k]
               /\ batch'[k].content = seen[batch'[k].source]
    <3>1. k + 1 \in 1 .. Len(batch) /\ Len(index') + k = Len(index) + (k + 1)
      <4>1. k \in Nat /\ k >= 1 /\ k <= Len(batch) - 1
        BY <1>0, <2>2
      <4>2. QED
        BY <1>0, <2>3, <4>1
    <3>2. /\ batch[k + 1].source = manifest[Len(index) + (k + 1)]
          /\ batch[k + 1].content = seen[batch[k + 1].source]
      BY <1>0, <2>1, <3>1 DEF BatchFollows
    <3>3. QED
      BY <2>2, <3>1, <3>2
  <2>5. Len(index') + Len(batch') <= Total
    BY <1>0, <2>1, <2>2, <2>3 DEF BatchFollows
  <2>6. QED
    BY <2>1, <2>4, <2>5 DEF BatchFollows
<1>8. ASSUME NEW s \in Src, Edit(s) PROVE BatchFollows'
  BY <1>0, <1>8 DEF Edit, BatchFollows, Position
<1>9. CASE UNCHANGED vars
  BY <1>0, <1>9 DEF vars, BatchFollows, Position
<1>10. QED
  BY <1>2, <1>3, <1>4, <1>5, <1>6, <1>7, <1>8, <1>9 DEF Next, Compress

-----------------------------------------------------------------------------
(* The end *)

LEMMA EndStep ==
  ASSUME Inv, [Next]_vars
  PROVE  EndKnown'
<1> USE DEF reading, writing
<1>0. EndKnown
  BY DEF Inv
<1>1. ASSUME pc \notin {"commit", "done"}, pc' \notin {"commit", "done"}, UNCHANGED published
      PROVE  EndKnown'
  BY <1>0, <1>1 DEF EndKnown
<1>2. CASE Walk \/ SortManifest \/ AddDirectory \/ StartFile \/ WriteFile \/ StartBatch
             \/ ReadBatchSource \/ EncodeBatch \/ WriteBatchEntry \/ EndBatch
  BY <1>1, <1>2 DEF Walk, SortManifest, AddDirectory, StartFile, WriteFile, StartBatch,
     ReadBatchSource, EncodeBatch, WriteBatchEntry, EndBatch
<1>3. CASE Throw
  BY <1>0, <1>3 DEF Throw, EndKnown
<1>4. CASE Finalize
  BY <1>0, <1>4 DEF Finalize, EndKnown
<1>5. ASSUME UNCHANGED <<options, index, payload>>
      PROVE  Archive' = Archive /\ Readable(Archive)' = Readable(Archive)
  BY <1>5 DEF Archive, Readable, UniqueNames, Decodes, Bytes
<1>6. CASE Verify
  BY <1>0, <1>5, <1>6 DEF Verify, EndKnown
<1>7. CASE Commit
  BY <1>0, <1>5, <1>7 DEF Commit, EndKnown
<1>8. ASSUME NEW s \in Src, Edit(s) PROVE EndKnown'
  BY <1>0, <1>5, <1>8 DEF Edit, EndKnown
<1>9. CASE UNCHANGED vars
  BY <1>0, <1>5, <1>9 DEF vars, EndKnown
<1>10. QED
  BY <1>2, <1>3, <1>4, <1>6, <1>7, <1>8, <1>9 DEF Next, Compress

-----------------------------------------------------------------------------
(* The theorems *)

LEMMA InvInit == Init => Inv
<1> SUFFICES ASSUME Init PROVE Inv
  OBVIOUS
<1>1. ManifestKnown /\ EntriesFollow /\ BatchFollows /\ EndKnown /\ LockedIsUnchanged
  BY Bounds DEF Init, ManifestKnown, EntriesFollow, BatchFollows, EndKnown, LockedIsUnchanged,
     Working, Written
<1>2. Dense(Archive)
  BY DEF Init, Dense, Start, Archive
<1>3. QED
  BY <1>1, <1>2, TypeOKInit DEF Inv

LEMMA InvStep == Inv /\ [Next]_vars => Inv'
  BY TypeOKStep, ManifestStep, LockedStep, DenseStep, EntriesStep, BatchStep, EndStep DEF Inv

LEMMA InvAlways == Spec => []Inv
  BY InvInit, InvStep, PTL DEF Spec

\* The manifest, the batch, the payload and the index keep their types.
THEOREM TypeCorrect == Spec => []TypeOK
  BY InvAlways, PTL DEF Inv

\* Nobody writes to a source from the comparison of its identity to the end of
\* the read: what is archived is what the walk saw.
THEOREM LockedSourcesStay == Spec => []LockedIsUnchanged
  BY InvAlways, PTL DEF Inv

\* The published archive has every source once, in the order of the manifest,
\* with the content of the walk, and a payload without gap or overlap.
THEOREM PublishedIsTheManifest == Spec => []PublishedMatchesManifest
<1>1. Inv => PublishedMatchesManifest
  <2> SUFFICES ASSUME Inv, published # None PROVE PublishedMatchesManifest
    BY DEF PublishedMatchesManifest
  <2>1. pc = "done" /\ published = Archive
    BY DEF Inv, EndKnown
  <2>2. published.index = index /\ Len(index) = Total
    BY <2>1 DEF Archive, Inv, EntriesFollow, Written
  <2>3. \A k \in 1 .. Total :
          /\ index[k].source = manifest[k]
          /\ ~Sources[manifest[k]].directory => index[k].crc = seen[manifest[k]]
    BY <2>1, <2>2 DEF Inv, EntriesFollow, Working
  <2>4. Dense(published)
    BY <2>1 DEF Inv
  <2>5. QED
    BY <2>2, <2>3, <2>4 DEF PublishedMatchesManifest
<1>2. QED
  BY <1>1, InvAlways, PTL

\* With verification every source of a published archive comes back under its
\* name, once, with the content of the walk.
THEOREM VerifiedArchivesRestore == Spec => []VerifiedRestoresSources
<1>1. ASSUME Inv, published # None, options.verify, NEW s \in Src PROVE Restores(published, s)
  <2>1. pc = "done" /\ published = Archive /\ Readable(Archive)
    BY <1>1 DEF Inv, EndKnown
  <2>2. /\ Archive.index = index /\ index \in Seq(IndexEntry)
        /\ Len(index) = Total /\ DOMAIN index = 1 .. Total
    BY <1>1, <2>1, Bounds DEF Archive, Inv, EntriesFollow, Written, TypeOK, IndexEntry
  <2>3. PICK k \in 1 .. Total : manifest[k] = s
    BY <1>1, <2>1 DEF Inv, ManifestKnown, Working
  <2>4. /\ k \in DOMAIN index /\ index[k].source = s
        /\ ~Sources[s].directory => index[k].crc = seen[s]
    BY <1>1, <2>1, <2>2, <2>3 DEF Inv, EntriesFollow, Working
  <2>5. \A l \in DOMAIN index : Sources[index[l].source].name = Sources[s].name <=> l = k
    BY <2>1, <2>2, <2>4 DEF Readable, UniqueNames
  <2>6. /\ index[k].first = 0 /\ index[k].offset \in Nat /\ index[k].length \in Nat
        /\ SubSeq(Archive.payload, index[k].offset + 1, index[k].offset + index[k].length) =
             Bytes(s, index[k].crc, TRUE, index[k].length)
    <3>1. index[k] \in IndexEntry
      BY <2>2, <2>4
    <3>2. Decodes(Archive, index[k])
      BY <2>1, <2>2, <2>4 DEF Readable
    <3>3. QED
      BY <2>4, <3>1, <3>2 DEF Decodes, IndexEntry
  <2>7. ~Sources[s].directory =>
          SubSeq(published.payload, index[k].offset + index[k].first + 1,
                 index[k].offset + index[k].first + index[k].length)
            = Bytes(s, seen[s], TRUE, index[k].length)
    <3>1. index[k].offset + index[k].first = index[k].offset
      BY <2>6
    <3>2. QED
      BY <2>1, <2>4, <2>6, <3>1
  <2>8. published.index = index
    BY <2>1, <2>2
  <2>9. QED
    BY <2>4, <2>5, <2>7, <2>8, Zenon DEF Restores
<1>2. Inv => VerifiedRestoresSources
  BY <1>1 DEF VerifiedRestoresSources
<1>3. QED
  BY <1>2, InvAlways, PTL
=============================================================================
