-------------------------- MODULE SharedCacheProofs --------------------------
(***************************************************************************)
(* Proofs about the two caches that threads of the program share, the pool *)
(* of pinned buffers and the sizes of folders.                             *)
(*                                                                         *)
(* PinnedMemory: the pinned memory of the process is counted exactly and   *)
(* stays bounded, no buffer has two users, and an operation leaves nothing *)
(* pinned behind, for any number of owners, buffers, sizes and allowances. *)
(* The sums of the counter are cardinalities of sets of bytes.  One step   *)
(* changes the amount of one buffer or of one owner, so that a lemma about *)
(* one amount (BytesOfOne) replaces an induction over the buffers.         *)
(*                                                                         *)
(* FolderSize: a size that appears on the screen was measured in the       *)
(* current lifetime of its row, for any folders and any number of          *)
(* removals, additions and changes of kind.  A row and its task forget     *)
(* each other together (EntriesAreLive), so that a task which is still the *)
(* one of its row was made in the row's current lifetime, and so was what  *)
(* the worker has measured for it (ResultIsCurrent) and what it has stored *)
(* (SizesAreCurrent).  And no scan is forgotten, because the worker does   *)
(* not sleep over a task (WorkerIsAwake), and no repaint, because one that *)
(* is requested is posted before its flag is cleared (PaintIsOrderly).     *)
(***************************************************************************)
EXTENDS PinnedMemory, FolderSize, SequenceTheorems, FiniteSetTheorems, TLAPS

-----------------------------------------------------------------------------
(* Pinned buffers *)

\* PinnedTypeOK without the sign of the counter, which depends on those sums.
Shape ==
  /\ reserved \in Int /\ current \in [Owners -> Nat]
  /\ extent \in [Buffers -> Sizes \cup {0}]
  /\ lost \subseteq Buffers /\ idle \subseteq Buffers
  /\ open \in BOOLEAN /\ pooled \in BOOLEAN
  /\ pc \in [Owners -> Steps]
  /\ want \in [Owners -> Sizes \cup {0}]
  /\ limit \in [Owners -> Allowances \cup {0}]
  /\ flux \in [Owners -> Sizes \cup {0}]
  /\ hold \in [Owners -> SUBSET Buffers]

\* On its way to hipHostMalloc an owner knows how much it wants.
AskersWant ==
  \A t \in Owners :
    pc[t] \in {"acquire", "snapshot", "load", "swap", "malloc"} => want[t] \in Sizes

\* Bytes are reserved without an allocation only next to a HIP call.
Transit ==
  \A t \in Owners :
    /\ flux[t] # 0 => pc[t] \in {"malloc", "return"}
    /\ pc[t] = "malloc" => flux[t] = want[t]

\* Who has buffers or wants some, and that the rest waits for the next operation.
Hands ==
  \A t \in Owners :
    /\ hold[t] # {} => pc[t] \in {"using", "free", "return"}
    /\ pc[t] = "idle" => want[t] = 0
    /\ ~open => pc[t] \in {"idle", "free", "return"} /\ want[t] = 0

\* No allocation is forgotten.
Traced ==
  /\ \A b \in Buffers : extent[b] > 0 => b \in idle \cup lost \/ \E t \in Owners : b \in hold[t]
  /\ ~open => idle = {}

PinnedInv ==
  /\ Shape /\ AskersWant /\ Transit /\ Hands /\ Traced
  /\ PinsAreCounted /\ PinsAreBounded /\ BuffersAreExclusive

-----------------------------------------------------------------------------
(* Sums *)

\* Some amount of each of finitely many things is finitely many bytes.
LEMMA BytesAreFinite ==
  ASSUME NEW S, IsFiniteSet(S), NEW f \in [S -> Nat]
  PROVE  IsFiniteSet(Bytes(f)) /\ Cardinality(Bytes(f)) \in Nat
<1> DEFINE T == {{x} \X (1 .. f[x]) : x \in S}
           g == [x \in S |-> {x} \X (1 .. f[x])]
<1>1. g \in Surjection(S, T)
  BY DEF Surjection
<1>2. IsFiniteSet(T)
  BY <1>1, FS_Surjection
<1>3. ASSUME NEW x \in S PROVE IsFiniteSet({x} \X (1 .. f[x]))
  <2>1. IsFiniteSet({x}) /\ IsFiniteSet(1 .. f[x])
    <3>1. IsFiniteSet({x})
      BY FS_Singleton
    <3>2. 1 \in Int /\ f[x] \in Int
      OBVIOUS
    <3>3. IsFiniteSet(1 .. f[x])
      BY <3>2, FS_Interval
    <3>4. QED
      BY <3>1, <3>3
  <2>2. QED
    BY <2>1, FS_Product
<1>4. IsFiniteSet(UNION T)
  BY <1>2, <1>3, FS_UNION
<1>5. QED
  BY <1>4, FS_CardinalityType DEF Bytes

\* Another amount of one thing changes the sum by the difference.
LEMMA BytesOfOne ==
  ASSUME NEW S, IsFiniteSet(S), NEW f \in [S -> Nat], NEW x \in S, NEW n \in Nat
  PROVE  Cardinality(Bytes([f EXCEPT ![x] = n])) = Cardinality(Bytes(f)) - f[x] + n
<1> DEFINE rest == [y \in S \ {x} |-> f[y]]
           Of(m) == {x} \X (1 .. m)
<1>1. IsFiniteSet(Bytes(rest)) /\ Cardinality(Bytes(rest)) \in Nat
  <2>1. IsFiniteSet(S \ {x})
    BY FS_Subset
  <2>2. rest \in [S \ {x} -> Nat]
    OBVIOUS
  <2>3. QED
    BY <2>1, <2>2, BytesAreFinite
<1>2. ASSUME NEW m \in Nat
      PROVE  Cardinality(Bytes(rest) \cup Of(m)) = Cardinality(Bytes(rest)) + m
  <2>1. IsFiniteSet({x}) /\ Cardinality({x}) = 1
    BY FS_Singleton
  <2>2. IsFiniteSet(1 .. m) /\ Cardinality(1 .. m) = m
    BY FS_Interval
  <2>3. IsFiniteSet(Of(m)) /\ Cardinality(Of(m)) = m
    <3>1. IsFiniteSet(Of(m)) /\ Cardinality(Of(m)) = Cardinality({x}) * Cardinality(1 .. m)
      BY <2>1, <2>2, FS_Product
    <3>2. Cardinality(Of(m)) = 1 * m
      BY <2>1, <2>2, <3>1
    <3>3. QED
      BY <3>1, <3>2
  <2>4. Bytes(rest) \cap Of(m) = {}
    BY DEF Bytes
  <2>5. Cardinality(Bytes(rest) \cap Of(m)) = 0
    BY <2>4, FS_EmptySet
  <2>6. Cardinality(Bytes(rest) \cup Of(m)) =
          Cardinality(Bytes(rest)) + Cardinality(Of(m)) - Cardinality(Bytes(rest) \cap Of(m))
    BY <1>1, <2>3, FS_Union
  <2>7. QED
    BY <1>1, <2>3, <2>5, <2>6
<1>3. Bytes(f) = Bytes(rest) \cup Of(f[x])
  BY DEF Bytes
<1>4. Bytes([f EXCEPT ![x] = n]) = Bytes(rest) \cup Of(n)
  BY DEF Bytes
<1>5. f[x] \in Nat
  OBVIOUS
<1>6. Cardinality(Bytes(f)) = Cardinality(Bytes(rest)) + f[x]
  BY <1>2, <1>3, <1>5
<1>7. Cardinality(Bytes([f EXCEPT ![x] = n])) = Cardinality(Bytes(rest)) + n
  BY <1>2, <1>4
<1> HIDE DEF rest
<1>8. QED
  BY <1>1, <1>5, <1>6, <1>7

\* Nothing of anything is no byte.
LEMMA NoBytes ==
  ASSUME NEW S, NEW f \in [S -> Nat], \A x \in S : f[x] = 0
  PROVE  Bytes(f) = {} /\ Cardinality(Bytes(f)) = 0
<1>1. Bytes(f) = {}
  BY DEF Bytes
<1>2. QED
  BY <1>1, FS_EmptySet

\* Sizes and limits are numbers within their bounds.
LEMMA Numbers ==
  /\ \A n \in Sizes \cup {0} : n \in Int /\ n >= 0
  /\ \A n \in Allowances \cup {0} : n \in Int /\ n <= Maximum
  BY PinnedMemoryAssumption DEF PinnedMemoryAssumption

\* What the sums of a state are taken over.
LEMMA Amounts ==
  ASSUME Shape
  PROVE  /\ IsFiniteSet(Buffers) /\ extent \in [Buffers -> Nat]
         /\ IsFiniteSet(Owners) /\ flux \in [Owners -> Nat]
         /\ Cardinality(Bytes(extent)) \in Nat /\ Cardinality(Bytes(flux)) \in Nat
<1>1. /\ IsFiniteSet(Buffers) /\ extent \in [Buffers -> Nat]
      /\ IsFiniteSet(Owners) /\ flux \in [Owners -> Nat]
  <2>1. Sizes \cup {0} \subseteq Nat /\ IsFiniteSet(Buffers) /\ IsFiniteSet(Owners)
    BY PinnedMemoryAssumption DEF PinnedMemoryAssumption
  <2>2. QED
    BY <2>1 DEF Shape
<1>2. QED
  BY <1>1, BytesAreFinite

-----------------------------------------------------------------------------

\* PinnedInv holds before the first operation.
LEMMA PinnedInitInv == PinnedInit => PinnedInv
  <1> USE PinnedMemoryAssumption DEF PinnedMemoryAssumption
  <1> SUFFICES ASSUME PinnedInit PROVE PinnedInv
    OBVIOUS
  <1>1. Shape
    <2>1. reserved \in Int /\ current \in [Owners -> Nat] /\ pc \in [Owners -> Steps]
      BY DEF PinnedInit, Steps
    <2>2. QED
      BY <2>1 DEF PinnedInit, Shape
  <1>2. AskersWant
    BY DEF PinnedInit, AskersWant
  <1>3. PinsAreBounded
    BY DEF PinnedInit, PinsAreBounded
  <1>4. BuffersAreExclusive
    BY DEF PinnedInit, BuffersAreExclusive
  <1>5. Transit /\ Hands /\ Traced
    BY DEF PinnedInit, Transit, Hands, Traced
  <1>6. PinsAreCounted
    <2>1. /\ extent \in [Buffers -> Nat] /\ \A b \in Buffers : extent[b] = 0
          /\ flux \in [Owners -> Nat] /\ \A t \in Owners : flux[t] = 0
      BY DEF PinnedInit
    <2>2. Cardinality(Bytes(extent)) = 0 /\ Cardinality(Bytes(flux)) = 0
      BY <2>1, NoBytes
    <2>3. reserved = 0
      BY DEF PinnedInit
    <2>4. QED
      BY <2>2, <2>3 DEF PinsAreCounted
  <1> QED BY <1>1, <1>2, <1>3, <1>4, <1>5, <1>6 DEF PinnedInv

-----------------------------------------------------------------------------
(* One lemma per part; each has a step for every action. *)

\* No step changes the kind of a variable.
LEMMA ShapeStep ==
  ASSUME PinnedInv, PinnedNext PROVE Shape'
  <1>0. reserved \in Nat
    BY Amounts DEF PinnedInv, PinsAreCounted
  <1> USE PinnedMemoryAssumption DEF PinnedMemoryAssumption, PinnedInv, Shape, Steps, Go, FallBack, heap, pool, admission
  <1>1. CASE Begin
    BY <1>1 DEF Begin
  <1>2. ASSUME NEW t \in Owners, Step(t) PROVE Shape'
    <2>1. CASE End(t)
      BY <2>1 DEF End
    <2>2. CASE Ask(t)
      BY <2>2 DEF Ask
    <2>3. CASE Take(t)
      BY <2>3 DEF Take, Smallest, Fitting
    <2>4. CASE Evict(t)
      BY <2>4 DEF Evict
    <2>5. CASE Cache(t)
      BY <2>5 DEF Cache
    <2>6. CASE Discard(t)
      BY <2>6 DEF Discard
    <2>7. CASE Snapshot(t)
      BY <2>7 DEF Snapshot
    <2>8. CASE Load(t)
      BY <1>0, <2>8 DEF Load
    <2>9. CASE Swap(t)
      BY <2>9 DEF Swap
    <2>10. CASE Reload(t)
      BY <1>0, <2>10 DEF Reload
    <2>11. CASE Refused(t)
      BY <2>11 DEF Refused
    <2>12. CASE Allocate(t)
      BY <2>12 DEF Allocate
    <2>13. CASE AllocateFails(t)
      BY <2>13 DEF AllocateFails
    <2>14. CASE HipFree(t)
      BY <2>14 DEF HipFree
    <2>15. CASE Return(t)
      BY <2>15 DEF Return
    <2>16. CASE Freed(t)
      BY <2>16 DEF Freed
    <2> QED BY <1>2, <2>1, <2>2, <2>3, <2>4, <2>5, <2>6, <2>7, <2>8, <2>9, <2>10,
               <2>11, <2>12, <2>13, <2>14, <2>15, <2>16 DEF Step
  <1> QED BY <1>1, <1>2 DEF PinnedNext

\* The size an owner wants is fixed when it asks and dropped when it gives up.
LEMMA AskersStep ==
  ASSUME PinnedInv, PinnedNext PROVE AskersWant'
  <1> USE PinnedMemoryAssumption DEF PinnedMemoryAssumption, PinnedInv, Shape, Steps, AskersWant, Go, FallBack, heap, pool, admission
  <1>1. CASE Begin
    BY <1>1 DEF Begin
  <1>2. ASSUME NEW t \in Owners, Step(t) PROVE AskersWant'
    <2>1. CASE End(t)
      BY <2>1 DEF End
    <2>2. CASE Ask(t)
      BY <2>2 DEF Ask
    <2>3. CASE Take(t) \/ Evict(t) \/ Cache(t) \/ Discard(t)
      BY <2>3 DEF Take, Evict, Cache, Discard
    <2>4. CASE Snapshot(t)
      BY <2>4 DEF Snapshot
    <2>5. CASE Load(t) \/ Swap(t) \/ Reload(t) \/ Refused(t)
      BY <2>5 DEF Load, Swap, Reload, Refused
    <2>6. CASE Allocate(t) \/ AllocateFails(t) \/ Return(t)
      BY <2>6 DEF Allocate, AllocateFails, Return
    <2>7. CASE HipFree(t)
      BY <2>7 DEF HipFree
    <2>8. CASE Freed(t)
      BY <2>8 DEF Freed
    <2> QED BY <1>2, <2>1, <2>2, <2>3, <2>4, <2>5, <2>6, <2>7, <2>8 DEF Step
  <1> QED BY <1>1, <1>2 DEF PinnedNext

\* Only Swap adds to the counter, and it has compared with a limit.
LEMMA BoundStep ==
  ASSUME PinnedInv, PinnedNext PROVE PinsAreBounded'
  <1> USE PinnedMemoryAssumption DEF PinnedMemoryAssumption, PinnedInv, Shape, Steps, PinsAreBounded, heap, pool, admission
  <1>1. CASE Begin
    BY <1>1 DEF Begin
  <1>2. ASSUME NEW t \in Owners, Step(t) PROVE PinsAreBounded'
    <2>1. CASE Swap(t)
      <3>1. reserved' = current[t] + want[t] /\ current[t] <= limit[t] - want[t]
        BY <2>1 DEF Swap, Admits
      <3>2. current[t] \in Int /\ want[t] \in Sizes \cup {0} /\ limit[t] \in Allowances \cup {0}
        BY <1>2
      <3>3. want[t] \in Int /\ limit[t] \in Int /\ limit[t] <= Maximum
        BY <3>2, Numbers
      <3> QED BY <3>1, <3>2, <3>3
    <2>2. CASE Return(t)
      <3>1. reserved' = reserved - flux[t]
        BY <2>2 DEF Return
      <3>2. flux[t] \in Sizes \cup {0}
        BY <1>2
      <3>3. flux[t] \in Int /\ flux[t] >= 0
        BY <3>2, Numbers
      <3> QED BY <3>1, <3>3
    <2>3. CASE UNCHANGED reserved
      BY <2>3
    <2> QED BY <1>2, <2>1, <2>2, <2>3 DEF Step, End, Ask, Take, Evict, Cache, Discard,
               Snapshot, Load, Reload, Refused, Allocate, AllocateFails, HipFree, Freed
  <1> QED BY <1>1, <1>2 DEF PinnedNext

\* A buffer changes hands, it is never shared.
LEMMA ExclusiveStep ==
  ASSUME PinnedInv, PinnedNext PROVE BuffersAreExclusive'
  <1> USE PinnedMemoryAssumption DEF PinnedMemoryAssumption, PinnedInv, Shape, Steps, BuffersAreExclusive, Go, FallBack, heap, pool, admission
  <1>1. CASE Begin
    BY <1>1 DEF Begin
  <1>2. ASSUME NEW t \in Owners, Step(t) PROVE BuffersAreExclusive'
    <2>1. CASE End(t)
      BY <2>1 DEF End
    <2>2. CASE Ask(t)
      BY <2>2 DEF Ask
    <2>3. CASE Take(t)
      BY <2>3 DEF Take, Smallest, Fitting
    <2>4. CASE Evict(t)
      BY <2>4 DEF Evict
    <2>5. CASE Cache(t)
      BY <2>5 DEF Cache
    <2>6. CASE Discard(t)
      BY <2>6 DEF Discard
    <2>7. CASE Snapshot(t)
      BY <2>7 DEF Snapshot
    <2>8. CASE Load(t) \/ Swap(t) \/ Reload(t) \/ Refused(t)
      BY <2>8 DEF Load, Swap, Reload, Refused
    <2>9. CASE Allocate(t)
      BY <2>9 DEF Allocate, AskersWant
    <2>10. CASE AllocateFails(t) \/ Return(t) \/ Freed(t)
      BY <2>10 DEF AllocateFails, Return, Freed
    <2>11. CASE HipFree(t)
      BY <2>11 DEF HipFree
    <2> QED BY <1>2, <2>1, <2>2, <2>3, <2>4, <2>5, <2>6, <2>7, <2>8, <2>9, <2>10, <2>11 DEF Step
  <1> QED BY <1>1, <1>2 DEF PinnedNext

\* HIP is called with what was reserved, and told of what was freed.
LEMMA TransitStep ==
  ASSUME PinnedInv, PinnedNext PROVE Transit'
  <1> USE DEF AllIdle
  <1> USE PinnedMemoryAssumption DEF PinnedMemoryAssumption, PinnedInv, Shape, Steps, Transit, Go, FallBack, heap, pool, admission
  <1>1. CASE Begin
    BY <1>1 DEF Begin
  <1>2. ASSUME NEW t \in Owners, Step(t) PROVE Transit'
    <2>1. CASE End(t)
      BY <2>1 DEF End
    <2>2. CASE Ask(t)
      BY <2>2 DEF Ask
    <2>3. CASE Take(t) \/ Evict(t) \/ Cache(t) \/ Discard(t)
      BY <2>3 DEF Take, Evict, Cache, Discard
    <2>4. CASE Snapshot(t)
      BY <2>4 DEF Snapshot
    <2>5. CASE Load(t) \/ Swap(t) \/ Reload(t) \/ Refused(t)
      BY <2>5 DEF Load, Swap, Reload, Refused
    <2>6. CASE Allocate(t) \/ AllocateFails(t)
      BY <2>6 DEF Allocate, AllocateFails
    <2>7. CASE HipFree(t)
      BY <2>7 DEF HipFree
    <2>8. CASE Return(t) \/ Freed(t)
      BY <2>8 DEF Return, Freed
    <2> QED BY <1>2, <2>1, <2>2, <2>3, <2>4, <2>5, <2>6, <2>7, <2>8 DEF Step
  <1> QED BY <1>1, <1>2 DEF PinnedNext

\* Buffers are taken by owners that have none.
LEMMA HandsStep ==
  ASSUME PinnedInv, PinnedNext PROVE Hands'
  <1> USE DEF AllIdle
  <1> USE PinnedMemoryAssumption DEF PinnedMemoryAssumption, PinnedInv, Shape, Steps, Hands, Go, FallBack, heap, pool, admission
  <1>1. CASE Begin
    BY <1>1 DEF Begin
  <1>2. ASSUME NEW t \in Owners, Step(t) PROVE Hands'
    <2>1. CASE End(t)
      BY <2>1 DEF End
    <2>2. CASE Ask(t)
      BY <2>2 DEF Ask
    <2>3. CASE Take(t)
      BY <2>3 DEF Take, Smallest, Fitting
    <2>4. CASE Evict(t)
      BY <2>4 DEF Evict
    <2>5. CASE Cache(t)
      BY <2>5 DEF Cache
    <2>6. CASE Discard(t)
      BY <2>6 DEF Discard
    <2>7. CASE Snapshot(t)
      BY <2>7 DEF Snapshot
    <2>8. CASE Load(t) \/ Swap(t) \/ Reload(t) \/ Refused(t)
      BY <2>8 DEF Load, Swap, Reload, Refused
    <2>9. CASE Allocate(t) \/ AllocateFails(t)
      BY <2>9 DEF Allocate, AllocateFails
    <2>10. CASE HipFree(t)
      BY <2>10 DEF HipFree
    <2>11. CASE Return(t)
      BY <2>11 DEF Return
    <2>12. CASE Freed(t)
      <3>1. hold[t] = {} /\ pc[t] = "free" /\ hold' = hold /\ want' = want /\ open' = open
        BY <2>12 DEF Freed
      <3>2. pc' = [pc EXCEPT ![t] = IF want[t] > 0 THEN "snapshot" ELSE "idle"]
        BY <2>12 DEF Freed
      <3>3. want[t] > 0 \/ want[t] = 0
        <4>1. want[t] \in Sizes \cup {0}
          OBVIOUS
        <4>2. want[t] \in Int /\ want[t] >= 0
          BY <4>1, Numbers
        <4> QED BY <4>2
      <3>4. ~(want[t] = 0 /\ want[t] > 0)
        OBVIOUS
      <3>5. CASE want[t] > 0
        BY <3>1, <3>2, <3>4, <3>5
      <3>6. CASE want[t] = 0
        BY <3>1, <3>2, <3>4, <3>6
      <3> QED BY <3>3, <3>5, <3>6
    <2> QED BY <1>2, <2>1, <2>2, <2>3, <2>4, <2>5, <2>6, <2>7, <2>8, <2>9, <2>10, <2>11,
               <2>12 DEF Step
  <1> QED BY <1>1, <1>2 DEF PinnedNext

\* A buffer that changes hands arrives, and a freed one is no allocation any more.
LEMMA TracedStep ==
  ASSUME PinnedInv, PinnedNext PROVE Traced'
  <1> USE DEF AllIdle
  <1> USE PinnedMemoryAssumption DEF PinnedMemoryAssumption, PinnedInv, Shape, Steps, Traced, Hands, Go, FallBack, heap, pool, admission
  <1>1. CASE Begin
    BY <1>1 DEF Begin
  <1>2. ASSUME NEW t \in Owners, Step(t) PROVE Traced'
    <2>1. CASE End(t)
      BY <2>1 DEF End
    <2>2. CASE Take(t)
      BY <2>2 DEF Take, Smallest, Fitting
    <2>3. CASE Evict(t)
      BY <2>3 DEF Evict
    <2>4. CASE Cache(t)
      BY <2>4 DEF Cache
    <2>5. CASE UNCHANGED <<extent, lost, idle, open, hold>>
      BY <2>5
    <2>6. CASE Allocate(t)
      BY <2>6 DEF Allocate
    <2>7. CASE HipFree(t)
      BY <2>7 DEF HipFree
    <2> QED
      BY <1>2, <2>1, <2>2, <2>3, <2>4, <2>5, <2>6, <2>7
      DEF Step, Ask, Discard, Snapshot, Load, Swap, Reload, Refused, AllocateFails, Return, Freed
  <1> QED BY <1>1, <1>2 DEF PinnedNext

\* Every step that moves bytes moves as many in the counter.
LEMMA CountStep ==
  ASSUME PinnedInv, PinnedNext PROVE PinsAreCounted'
<1>1. reserved = Cardinality(Bytes(extent)) + Cardinality(Bytes(flux))
  BY DEF PinnedInv, PinsAreCounted
<1>2. /\ IsFiniteSet(Buffers) /\ extent \in [Buffers -> Nat]
      /\ IsFiniteSet(Owners) /\ flux \in [Owners -> Nat]
      /\ Cardinality(Bytes(extent)) \in Nat /\ Cardinality(Bytes(flux)) \in Nat
  BY Amounts DEF PinnedInv
<1>0. 0 \in Nat
  OBVIOUS
<1>3. \A t \in Owners : flux[t] # 0 => pc[t] \in {"malloc", "return"}
  BY DEF PinnedInv, Transit
<1>4. CASE UNCHANGED <<reserved, extent, flux>>
  BY <1>1, <1>4 DEF PinsAreCounted
<1>5. ASSUME NEW t \in Owners, Step(t) PROVE PinsAreCounted'
  <2>1. want[t] \in Nat
    <3>1. Sizes \cup {0} \subseteq Nat
      BY PinnedMemoryAssumption DEF PinnedMemoryAssumption
    <3>2. QED
      BY <3>1 DEF PinnedInv, Shape
  <2>2. CASE Swap(t)
    <3>1. /\ reserved' = reserved + want[t] /\ flux' = [flux EXCEPT ![t] = want[t]]
          /\ extent' = extent /\ pc[t] = "swap"
      BY <2>2 DEF Swap, Go, heap
    <3>2. flux[t] = 0
      BY <1>3, <3>1
    <3>3. Cardinality(Bytes(flux')) = Cardinality(Bytes(flux)) - 0 + want[t]
      BY <1>2, <2>1, <3>1, <3>2, BytesOfOne
    <3>4. QED
      BY <1>1, <1>2, <2>1, <3>1, <3>3 DEF PinsAreCounted
  <2>3. CASE Allocate(t)
    <3>1. PICK b \in Buffers : extent[b] = 0 /\ extent' = [extent EXCEPT ![b] = want[t]]
      BY <2>3 DEF Allocate
    <3>2. reserved' = reserved /\ flux' = [flux EXCEPT ![t] = 0] /\ pc[t] = "malloc"
      BY <2>3 DEF Allocate, Go
    <3>3. flux[t] = want[t]
      BY <3>2 DEF PinnedInv, Transit
    <3>4. Cardinality(Bytes([flux EXCEPT ![t] = 0])) = Cardinality(Bytes(flux)) - flux[t] + 0
      BY <1>0, <1>2, BytesOfOne
    <3>5. Cardinality(Bytes(extent')) = Cardinality(Bytes(extent)) - 0 + want[t]
      BY <1>2, <2>1, <3>1, BytesOfOne
    <3>6. QED
      BY <1>1, <1>2, <2>1, <3>2, <3>3, <3>4, <3>5 DEF PinsAreCounted
  <2>4. CASE HipFree(t)
    <3>1. PICK b \in hold[t] :
            \/ /\ extent' = [extent EXCEPT ![b] = 0]
               /\ flux' = [flux EXCEPT ![t] = extent[b]]
            \/ UNCHANGED <<extent, flux>>
      BY <2>4 DEF HipFree
    <3>2. reserved' = reserved /\ pc[t] = "free"
      BY <2>4 DEF HipFree
    <3>3. b \in Buffers /\ extent[b] \in Nat
      BY <1>2, <3>1 DEF PinnedInv, Shape
    <3>4. flux[t] = 0
      BY <1>3, <3>2
    <3>5. CASE /\ extent' = [extent EXCEPT ![b] = 0]
               /\ flux' = [flux EXCEPT ![t] = extent[b]]
      <4>1. Cardinality(Bytes([extent EXCEPT ![b] = 0])) = Cardinality(Bytes(extent)) - extent[b] + 0
        BY <1>0, <1>2, <3>3, BytesOfOne
      <4>2. Cardinality(Bytes(flux')) = Cardinality(Bytes(flux)) - 0 + extent[b]
        BY <1>2, <3>3, <3>4, <3>5, BytesOfOne
      <4>3. QED
        BY <1>1, <1>2, <3>2, <3>3, <3>5, <4>1, <4>2 DEF PinsAreCounted
    <3>6. QED
      BY <1>4, <3>1, <3>2, <3>5
  <2>5. CASE Return(t)
    <3>1. /\ reserved' = reserved - flux[t] /\ flux' = [flux EXCEPT ![t] = 0]
          /\ extent' = extent
      BY <2>5 DEF Return, heap
    <3>2. Cardinality(Bytes([flux EXCEPT ![t] = 0])) = Cardinality(Bytes(flux)) - flux[t] + 0
      BY <1>0, <1>2, BytesOfOne
    <3>3. flux[t] \in Nat
      BY <1>2
    <3>4. QED
      BY <1>1, <1>2, <3>1, <3>2, <3>3 DEF PinsAreCounted
  <2>6. QED
    BY <1>4, <1>5, <2>2, <2>3, <2>4, <2>5
    DEF Step, End, Ask, Take, Evict, Cache, Discard, Snapshot, Load, Reload, Refused,
        AllocateFails, Freed, heap, admission
<1>6. CASE Begin
  BY <1>4, <1>6 DEF Begin, heap, admission
<1>7. QED
  BY <1>5, <1>6 DEF PinnedNext

\* PinnedInv is inductive.
LEMMA PinnedInvHolds == PinnedSpec => []PinnedInv
  <1>1. PinnedInv /\ [PinnedNext]_pinnedVars => PinnedInv'
    <2> SUFFICES ASSUME PinnedInv, [PinnedNext]_pinnedVars PROVE PinnedInv'
      OBVIOUS
    <2>1. CASE PinnedNext
      BY <2>1, ShapeStep, AskersStep, TransitStep, HandsStep, TracedStep, CountStep,
         BoundStep, ExclusiveStep DEF PinnedInv
    <2>2. CASE UNCHANGED pinnedVars
      BY <2>2 DEF PinnedInv, Shape, AskersWant, Transit, Hands, Traced, PinsAreCounted,
                  PinsAreBounded, BuffersAreExclusive, pinnedVars, heap, pool, admission
    <2> QED BY <2>1, <2>2
  <1> QED BY <1>1, PinnedInitInv, PTL DEF PinnedSpec

\* PinnedHostBudget never reserves more than maximum_bytes, whatever limits the
\* threads compare with and however their compare-and-swaps interleave.
THEOREM PinsStayBounded == PinnedSpec => []PinsAreBounded
  BY PinnedInvHolds, PTL DEF PinnedInv

\* HipHostOutputPool lends each buffer to one window, and never one too small.
THEOREM BuffersHaveOneUser == PinnedSpec => []BuffersAreExclusive
  BY PinnedInvHolds, PTL DEF PinnedInv

\* The counter is the sum of what is allocated and of what is on its way to or
\* from HIP, in every interleaving of the owners' reads and swaps of it and
\* whatever HIP refuses: nothing is counted twice or lost.
THEOREM PinsAreExact == PinnedSpec => []PinsAreCounted
  BY PinnedInvHolds, PTL DEF PinnedInv

\* Every variable has its type; in particular the counter, which the code keeps
\* in an unsigned number, never falls below zero.
THEOREM PinnedTypeCorrect == PinnedSpec => []PinnedTypeOK
<1>1. PinnedInv => PinnedTypeOK
  <2> SUFFICES ASSUME PinnedInv PROVE PinnedTypeOK
    OBVIOUS
  <2>1. reserved \in Nat
    BY Amounts DEF PinnedInv, PinsAreCounted
  <2>2. QED
    BY <2>1 DEF PinnedInv, Shape, PinnedTypeOK
<1>2. QED
  BY <1>1, PinnedInvHolds, PTL

\* An operation gives back all that it pinned but what HIP refuses to free: the
\* destructor of its pool reaches every buffer that no window has.
THEOREM NothingPinnedIsLeft == PinnedSpec => []NothingStaysPinned
<1>1. PinnedInv => NothingStaysPinned
  <2> SUFFICES ASSUME PinnedInv, ~open, AllIdle
               PROVE  /\ \A b \in Buffers \ lost : extent[b] = 0
                      /\ reserved = Cardinality(Bytes([b \in lost |-> extent[b]]))
    BY DEF NothingStaysPinned
  <2>1. idle = {} /\ \A t \in Owners : hold[t] = {}
    BY DEF PinnedInv, Traced, Hands, AllIdle
  <2>2. ASSUME NEW b \in Buffers \ lost PROVE extent[b] = 0
    <3>1. ~(extent[b] > 0)
      BY <2>1 DEF PinnedInv, Traced
    <3>2. extent[b] \in Nat
      BY Amounts DEF PinnedInv
    <3>3. QED
      BY <3>1, <3>2
  <2>3. \A t \in Owners : flux[t] = 0
    BY DEF PinnedInv, Transit, AllIdle
  <2>4. Cardinality(Bytes(flux)) = 0
    BY <2>3, Amounts, NoBytes DEF PinnedInv
  <2>5. Bytes(extent) = Bytes([b \in lost |-> extent[b]])
    <3>1. extent \in [Buffers -> Nat] /\ lost \subseteq Buffers
      BY Amounts DEF PinnedInv, Shape
    <3>2. QED
      BY <2>2, <3>1 DEF Bytes
  <2>6. QED
    BY <2>2, <2>4, <2>5, Amounts DEF PinnedInv, PinsAreCounted
<1>2. QED
  BY <1>1, PinnedInvHolds, PTL

-----------------------------------------------------------------------------
(* Sizes of folders *)

Task == [path : Paths, cancelled : BOOLEAN, state : {"pending", "ready", "failed"}, bytes : Nat]

\* No bound of the instance is needed.
SizesTypes ==
  /\ rows \subseteq Paths /\ life \in [Paths -> Nat]
  /\ tasks \in Seq(Task)
  /\ entries \in [Paths -> 0 .. Len(tasks)]
  /\ queue \in Seq(1 .. Len(tasks))
  /\ todo \subseteq Paths /\ row \in Paths
  /\ shown \in [Paths -> Int]

\* The task of a row is one that nobody has cancelled.
EntriesAreLive ==
  \A p \in Paths : entries[p] # None => /\ tasks[entries[p]].path = p
                                        /\ ~tasks[entries[p]].cancelled

\* A size in the cache is that of the row's lifetime.
SizesAreCurrent ==
  \A p \in Paths : entries[p] # None /\ tasks[entries[p]].state = "ready"
                     => tasks[entries[p]].bytes = life[p]

\* So is what the worker has measured for a task that is still the row's.
ResultIsCurrent ==
  /\ worker \in {"scan", "publish"} => scanning \in 1 .. Len(tasks)
  /\ worker = "publish" /\ MayComplete(scanning)
       => size \in {life[tasks[scanning].path], NoSize} /\ size \in Nat \cup {NoSize}

SizesInv == SizesTypes /\ EntriesAreLive /\ SizesAreCurrent /\ ResultIsCurrent

-----------------------------------------------------------------------------
(* The initial state and the steps that leave the cache alone *)

\* Nothing is cached, queued or shown.
LEMMA SizesInitInv == Init => SizesInv
<1> SUFFICES ASSUME Init PROVE SizesInv
  OBVIOUS
<1>1. tasks \in Seq(Task) /\ queue \in Seq(1 .. Len(tasks)) /\ Len(tasks) = 0
  BY DEF Init
<1>2. \E p \in Paths : TRUE
  BY FolderSizeAssumption
<1>3. row \in Paths
  BY <1>2 DEF Init
<1>4. Blank \in Int
  BY DEF Blank
<1>5. SizesTypes
  BY <1>1, <1>3, <1>4 DEF Init, SizesTypes, None
<1> QED
  BY <1>5 DEF Init, SizesInv, EntriesAreLive, SizesAreCurrent, ResultIsCurrent, None

\* A step that leaves the cache, the lifetimes and the result of the scan alone.
LEMMA QuietStep ==
  ASSUME SizesInv, UNCHANGED <<life, entries, tasks, queue>>,
         rows' \subseteq Paths, todo' \subseteq Paths, row' \in Paths, shown' \in [Paths -> Int],
         \/ UNCHANGED <<worker, scanning, size>>
         \/ worker' \notin {"scan", "publish"}
  PROVE  SizesInv'
<1>1. SizesTypes' /\ EntriesAreLive' /\ SizesAreCurrent'
  BY DEF SizesInv, SizesTypes, EntriesAreLive, SizesAreCurrent
<1>2. ResultIsCurrent'
  <2>1. CASE UNCHANGED <<worker, scanning, size>>
    BY <2>1 DEF SizesInv, ResultIsCurrent, MayComplete, Cancelled
  <2>2. CASE worker' \notin {"scan", "publish"}
    BY <2>2 DEF ResultIsCurrent
  <2> QED
    BY <2>1, <2>2
<1> QED
  BY <1>1, <1>2 DEF SizesInv

-----------------------------------------------------------------------------
(* Painting *)

\* What a row shows after it is painted.
LEMMA PaintRowStep ==
  ASSUME SizesInv, NEW p \in Paths, PaintRow(p)
  PROVE  /\ SizesInv'
         /\ \A q \in Paths : shown'[q] # shown[q] /\ shown'[q] \in Nat => shown'[q] = life[q]
<1>1. /\ UNCHANGED <<rows, life, entries, tasks, queue, worker, scanning, size>>
      /\ todo' = todo \ {p} /\ row' \in {row, p}
  BY DEF PaintRow, cache, thread
<1>2. Waiting \in Int /\ Failed \in Int /\ Waiting \notin Nat /\ Failed \notin Nat
  BY DEF Waiting, Failed
<1>3. PICK x : /\ shown' = [shown EXCEPT ![p] = x]
               /\ \/ entries[p] = None /\ x = Waiting
                  \/ /\ entries[p] # None
                     /\ \/ tasks[entries[p]].state = "ready" /\ x = tasks[entries[p]].bytes
                        \/ tasks[entries[p]].state = "failed" /\ x = Failed
                        \/ tasks[entries[p]].state = "pending" /\ x = Waiting
  <2>1. CASE entries[p] = None
    BY <2>1 DEF PaintRow
  <2>2. CASE entries[p] # None
    <3>1. entries[p] \in 1 .. Len(tasks)
      BY <2>2 DEF SizesInv, SizesTypes, None
    <3>2. tasks[entries[p]] \in Task
      BY <3>1 DEF SizesInv, SizesTypes
    <3> DEFINE task == tasks[entries[p]]
               y == CASE task.state = "ready"   -> task.bytes
                      [] task.state = "failed"  -> Failed
                      [] task.state = "pending" -> Waiting
    <3>3. shown' = [shown EXCEPT ![p] = y]
      BY <2>2 DEF PaintRow
    <3>4. task.state \in {"pending", "ready", "failed"}
      BY <3>2 DEF Task
    <3> HIDE DEF task
    <3>5. \/ task.state = "ready" /\ y = task.bytes
          \/ task.state = "failed" /\ y = Failed
          \/ task.state = "pending" /\ y = Waiting
      BY <3>4
    <3> HIDE DEF y
    <3> QED
      BY <2>2, <3>3, <3>5 DEF task
  <2> QED
    BY <2>1, <2>2
<1>4. x \in Int /\ (x \in Nat => x = life[p])
  BY <1>2, <1>3 DEF SizesInv, SizesTypes, SizesAreCurrent
<1>5. shown \in [Paths -> Int] /\ todo \subseteq Paths /\ row \in Paths /\ rows \subseteq Paths
  BY DEF SizesInv, SizesTypes
<1>6. shown' \in [Paths -> Int]
      /\ \A q \in Paths : shown'[q] = IF q = p THEN x ELSE shown[q]
  BY <1>3, <1>4, <1>5
<1>7. SizesInv'
  BY <1>1, <1>5, <1>6, QuietStep
<1> QED
  BY <1>4, <1>6, <1>7

\* A task is made for a row that has none.
LEMMA EnqueueStep == ASSUME SizesInv, Enqueue PROVE SizesInv'
<1> DEFINE new == [path |-> row, cancelled |-> FALSE, state |-> "pending", bytes |-> 0]
           n == Len(tasks)
<1>1. CASE entries[row] # None
  <2>1. UNCHANGED <<rows, life, entries, tasks, queue, worker, scanning, size, todo, row, shown>>
    BY <1>1 DEF Enqueue, cache, thread, screen
  <2> QED
    BY <2>1, QuietStep DEF SizesInv, SizesTypes
<1>2. CASE entries[row] = None
  <2>1. /\ tasks' = Append(tasks, new) /\ entries' = [entries EXCEPT ![row] = n + 1]
        /\ queue' = Append(queue, n + 1)
        /\ UNCHANGED <<rows, life, worker, scanning, size, todo, row, shown>>
    BY <1>2 DEF Enqueue, thread, screen
  <2>2. /\ tasks \in Seq(Task) /\ n \in Nat /\ queue \in Seq(1 .. n)
        /\ entries \in [Paths -> 0 .. n] /\ row \in Paths /\ new \in Task
    BY DEF SizesInv, SizesTypes, Task
  <2> HIDE DEF new
  <2>3. /\ tasks' \in Seq(Task) /\ Len(tasks') = n + 1 /\ tasks'[n + 1] = new
        /\ \A t \in 1 .. n : tasks'[t] = tasks[t]
    BY <2>1, <2>2
  <2>4. entries' \in [Paths -> 0 .. n + 1] /\ entries'[row] = n + 1
        /\ \A p \in Paths : p # row => entries'[p] = entries[p] /\ entries[p] \in 0 .. n
    BY <2>1, <2>2
  <2>5. queue' \in Seq(1 .. n + 1)
    <3>1. queue \in Seq(1 .. n + 1) /\ n + 1 \in 1 .. n + 1
      BY <2>2
    <3> QED
      BY <2>1, <3>1
  <2>6. new.path = row /\ ~new.cancelled /\ new.state = "pending"
    BY DEF new
  <2> HIDE DEF n
  <2>7. SizesTypes'
    BY <2>1, <2>3, <2>4, <2>5 DEF SizesInv, SizesTypes
  <2>8. ASSUME NEW p \in Paths, p # row, entries'[p] # None
        PROVE  /\ entries'[p] = entries[p] /\ entries[p] # None
               /\ tasks'[entries[p]] = tasks[entries[p]]
    <3>1. entries'[p] = entries[p] /\ entries[p] \in 0 .. n
      BY <2>4, <2>8
    <3>2. entries[p] \in 1 .. n
      BY <2>2, <2>8, <3>1 DEF None
    <3> QED
      BY <2>3, <2>8, <3>1, <3>2
  <2>9. EntriesAreLive' /\ SizesAreCurrent'
    <3>1. EntriesAreLive'
      <4>1. ASSUME NEW p \in Paths, entries'[p] # None
            PROVE  tasks'[entries'[p]].path = p /\ ~tasks'[entries'[p]].cancelled
        <5>1. CASE p = row
          BY <2>3, <2>4, <2>6, <5>1
        <5>2. CASE p # row
          BY <2>8, <4>1, <5>2 DEF SizesInv, EntriesAreLive
        <5> QED
          BY <5>1, <5>2
      <4> QED
        BY <4>1 DEF EntriesAreLive
    <3>2. SizesAreCurrent'
      <4>1. ASSUME NEW p \in Paths, entries'[p] # None, tasks'[entries'[p]].state = "ready"
            PROVE  tasks'[entries'[p]].bytes = life[p]
        <5>1. p # row
          BY <2>3, <2>4, <2>6, <4>1
        <5> QED
          BY <2>8, <4>1, <5>1 DEF SizesInv, SizesAreCurrent
      <4> QED
        BY <2>1, <4>1 DEF SizesAreCurrent
    <3> QED
      BY <3>1, <3>2
  <2>10. ResultIsCurrent'
    <3>1. worker' \in {"scan", "publish"} => scanning' \in 1 .. n
      BY <2>1 DEF SizesInv, ResultIsCurrent, n
    <3>2. ASSUME worker' = "publish", MayComplete(scanning)'
          PROVE  MayComplete(scanning) /\ tasks'[scanning] = tasks[scanning]
      <4>1. scanning \in 1 .. n /\ tasks'[scanning] = tasks[scanning] /\ scanning' = scanning
        BY <2>1, <2>3, <3>1, <3>2
      <4>2. tasks[scanning].path \in Paths
        <5>1. tasks[scanning] \in Task
          BY <2>2, <4>1, ElementOfSeq DEF n
        <5> QED
          BY <5>1 DEF Task
      <4>3. ~tasks[scanning].cancelled /\ entries'[tasks[scanning].path] = scanning
        BY <3>2, <4>1 DEF MayComplete, Cancelled
      <4>4. scanning # n + 1
        BY <2>2, <4>1
      <4> QED
        BY <2>4, <4>1, <4>2, <4>3, <4>4 DEF MayComplete, Cancelled
    <3>3. scanning' = scanning /\ size' = size /\ life' = life /\ worker' = worker
      BY <2>1
    <3>4. Len(tasks') = n + 1 /\ n \in Nat
      BY <2>2, <2>3
    <3> QED
      BY <3>1, <3>2, <3>3, <3>4 DEF SizesInv, ResultIsCurrent
  <2> QED
    BY <2>7, <2>9, <2>10 DEF SizesInv
<1> QED
  BY <1>1, <1>2

-----------------------------------------------------------------------------
(* Rows that go or change their kind *)

\* The places of the queue that stay are finitely many.
LEMMA PlacesAreFinite ==
  ASSUME queue \in Seq(1 .. Len(tasks)), NEW places \in SUBSET DOMAIN queue
  PROVE  IsFiniteSet(places) /\ Cardinality(places) \in Nat
<1>1. DOMAIN queue = 1 .. Len(queue) /\ Len(queue) \in Nat
  OBVIOUS
<1>2. IsFiniteSet(1 .. Len(queue))
  BY <1>1, FS_Interval
<1> QED
  BY <1>1, <1>2, FS_Subset, FS_CardinalityType

\* Dropping rows whose lifetimes end at the same moment.
LEMMA DropStep ==
  ASSUME SizesInv, NEW gone \in SUBSET Paths, Drop(gone),
         rows' \subseteq Paths, life' = [p \in Paths |-> IF p \in gone THEN life[p] + 1 ELSE life[p]],
         UNCHANGED <<worker, scanning, size, todo, row, shown>>
  PROVE  SizesInv'
<1> DEFINE n == Len(tasks)
           Ends(t) == \E p \in gone : entries[p] = t
<1>1. /\ tasks \in Seq(Task) /\ n \in Nat /\ DOMAIN tasks = 1 .. n /\ queue \in Seq(1 .. n)
      /\ entries \in [Paths -> 0 .. n] /\ life \in [Paths -> Nat]
  BY DEF SizesInv, SizesTypes
<1>2. /\ tasks' = [t \in 1 .. n |-> [tasks[t] EXCEPT !.cancelled = @ \/ Ends(t)]]
      /\ entries' = [p \in Paths |-> IF p \in gone THEN None ELSE entries[p]]
  BY <1>1 DEF Drop
<1>3. PICK order \in InOrder({i \in DOMAIN queue : ~tasks'[queue[i]].cancelled}) :
         queue' = [i \in DOMAIN order |-> queue[order[i]]]
  BY DEF Drop
<1>4. \A t \in 1 .. n : /\ tasks[t] \in Task
                        /\ tasks'[t] = [tasks[t] EXCEPT !.cancelled = @ \/ Ends(t)]
  BY <1>1, <1>2
<1> HIDE DEF Ends
<1>5. ASSUME NEW t \in 1 .. n
      PROVE  /\ tasks'[t] \in Task
             /\ tasks'[t].path = tasks[t].path /\ tasks'[t].state = tasks[t].state
             /\ tasks'[t].bytes = tasks[t].bytes
             /\ tasks'[t].cancelled <=> tasks[t].cancelled \/ Ends(t)
  BY <1>4 DEF Task
<1>6. tasks' \in Seq(Task) /\ Len(tasks') = n
  <2>1. tasks' \in [1 .. n -> Task]
    BY <1>2, <1>5
  <2> HIDE DEF n
  <2> QED
    BY <1>1, <2>1, IsASeq
<1>7. queue' \in Seq(1 .. n)
  <2> DEFINE places == {i \in DOMAIN queue : ~tasks'[queue[i]].cancelled}
             k == Cardinality(places)
  <2>1. places \in SUBSET DOMAIN queue
    OBVIOUS
  <2> HIDE DEF places
  <2>2. k \in Nat
    BY <1>1, <2>1, PlacesAreFinite
  <2>3. order \in [1 .. k -> places]
    BY <1>3 DEF InOrder, places
  <2> HIDE DEF k
  <2> HIDE DEF n
  <2>4. ASSUME NEW i \in 1 .. k PROVE queue[order[i]] \in 1 .. n
    <3>1. order[i] \in DOMAIN queue
      BY <2>1, <2>3
    <3>2. DOMAIN queue = 1 .. Len(queue)
      BY <1>1
    <3> QED
      BY <1>1, <3>1, <3>2, ElementOfSeq
  <2> DEFINE range == 1 .. n
  <2>5. queue' \in [1 .. k -> range]
    BY <1>3, <2>3, <2>4
  <2> HIDE DEF range
  <2>6. queue' \in Seq(range)
    BY <2>2, <2>5
  <2> QED
    BY <2>6 DEF range
<1>8. \A p \in Paths : entries'[p] # None => p \notin gone /\ entries'[p] = entries[p]
  BY <1>2
<1>9. ASSUME NEW p \in Paths, entries'[p] # None
      PROVE  entries[p] \in 1 .. n /\ entries'[p] = entries[p] /\ ~Ends(entries[p]) /\ life'[p] = life[p]
  <2>1. entries[p] # None /\ entries'[p] = entries[p] /\ p \notin gone
    BY <1>8, <1>9
  <2>2. entries[p] \in 1 .. n
    BY <1>1, <2>1 DEF None
  <2>3. tasks[entries[p]].path = p
    BY <2>1 DEF SizesInv, EntriesAreLive
  <2>4. \A q \in gone : entries[q] # entries[p]
    BY <2>1, <2>3 DEF SizesInv, EntriesAreLive
  <2> QED
    BY <2>1, <2>2, <2>4 DEF Ends
<1>10. SizesTypes'
  <2>1. entries' \in [Paths -> 0 .. n] /\ life' \in [Paths -> Nat]
    BY <1>1, <1>2 DEF None
  <2> QED
    BY <1>6, <1>7, <2>1 DEF SizesInv, SizesTypes
<1> HIDE DEF n
<1>11. EntriesAreLive'
  BY <1>5, <1>8, <1>9 DEF SizesInv, EntriesAreLive
<1>12. SizesAreCurrent'
  BY <1>5, <1>8, <1>9 DEF SizesInv, SizesAreCurrent
<1>13. ResultIsCurrent'
  <2>1. worker' \in {"scan", "publish"} => scanning' \in 1 .. n
    BY DEF SizesInv, ResultIsCurrent, n
  <2>2. ASSUME worker' = "publish", MayComplete(scanning)'
        PROVE  /\ MayComplete(scanning) /\ tasks'[scanning].path = tasks[scanning].path
               /\ life'[tasks[scanning].path] = life[tasks[scanning].path]
    <3>1. scanning \in 1 .. n /\ scanning' = scanning
      BY <2>1, <2>2
    <3>2. tasks'[scanning].path = tasks[scanning].path /\ tasks[scanning].path \in Paths
      BY <1>4, <1>5, <3>1 DEF Task
    <3>3. ~tasks'[scanning].cancelled /\ entries'[tasks[scanning].path] = scanning
      BY <2>2, <3>1, <3>2 DEF MayComplete, Cancelled
    <3>4. entries'[tasks[scanning].path] # None
      BY <1>1, <3>1, <3>3 DEF None
    <3> QED
      BY <1>5, <1>9, <3>1, <3>2, <3>3, <3>4 DEF MayComplete, Cancelled
  <2> QED
    BY <1>6, <2>1, <2>2 DEF SizesInv, ResultIsCurrent
<1> QED
  BY <1>10, <1>11, <1>12, <1>13 DEF SizesInv

-----------------------------------------------------------------------------
(* The worker *)

\* It takes the oldest task of the queue.
LEMMA TakeStep == ASSUME SizesInv, TakeNext PROVE SizesInv'
<1>1. /\ worker' = "scan" /\ queue # <<>> /\ scanning' = Head(queue) /\ queue' = Tail(queue)
      /\ UNCHANGED <<rows, life, entries, tasks, size, todo, row, shown>>
  BY DEF TakeNext, Work, screen
<1>2. scanning' \in 1 .. Len(tasks) /\ queue' \in Seq(1 .. Len(tasks))
  BY <1>1 DEF SizesInv, SizesTypes
<1>3. SizesTypes' /\ EntriesAreLive' /\ SizesAreCurrent'
  BY <1>1, <1>2 DEF SizesInv, SizesTypes, EntriesAreLive, SizesAreCurrent
<1> QED
  BY <1>1, <1>2, <1>3 DEF SizesInv, ResultIsCurrent

\* It measures the folder as it is now.
LEMMA ScanStep == ASSUME SizesInv, Scan PROVE SizesInv'
<1>1. /\ worker = "scan" /\ worker' = "publish" /\ size' \in {life[tasks[scanning].path], NoSize}
      /\ UNCHANGED <<rows, life, entries, tasks, queue, scanning, todo, row, shown>>
  BY DEF Scan, Work, cache, screen
<1>2. scanning \in 1 .. Len(tasks)
  BY <1>1 DEF SizesInv, ResultIsCurrent
<1>3. tasks[scanning].path \in Paths
  <2>1. tasks[scanning] \in Task
    BY <1>2, ElementOfSeq DEF SizesInv, SizesTypes
  <2> QED
    BY <2>1 DEF Task
<1>4. size' \in Nat \cup {NoSize}
  BY <1>1, <1>3 DEF SizesInv, SizesTypes
<1>5. SizesTypes' /\ EntriesAreLive' /\ SizesAreCurrent'
  BY <1>1 DEF SizesInv, SizesTypes, EntriesAreLive, SizesAreCurrent
<1> QED
  BY <1>1, <1>2, <1>4, <1>5 DEF SizesInv, ResultIsCurrent, NoSize

\* It stores the result in the task, which is still the one of its row.
LEMMA PublishStep == ASSUME SizesInv, Publish PROVE SizesInv'
<1>1. /\ worker = "publish" /\ scanning \in 1 .. Len(tasks)
      /\ UNCHANGED <<rows, life, entries, queue, todo, row, shown>>
      /\ worker' \in {"loop", "repaint"}
  BY DEF Publish, SizesInv, ResultIsCurrent, screen
<1>2. CASE stop \/ ~MayComplete(scanning)
  <2>1. tasks' = tasks
    BY <1>2 DEF Publish
  <2> QED
    BY <1>1, <2>1, QuietStep DEF SizesInv, SizesTypes
<1>3. CASE ~stop /\ MayComplete(scanning)
  <2> DEFINE t == scanning
             st == IF size = NoSize THEN "failed" ELSE "ready"
             b == IF size = NoSize THEN 0 ELSE size
             n == Len(tasks)
  <2>1. /\ entries[tasks[t].path] = t /\ Slot(t) = t /\ size \in Nat \cup {NoSize}
        /\ size \in {life[tasks[t].path], NoSize}
    BY <1>1, <1>3 DEF MayComplete, Slot, SizesInv, ResultIsCurrent
  <2>2. tasks' = [tasks EXCEPT ![t].state = st, ![t].bytes = b]
    BY <1>3, <2>1 DEF Publish
  <2>3. tasks \in Seq(Task) /\ n \in Nat /\ tasks[t] \in Task
    BY <1>1 DEF SizesInv, SizesTypes
  <2>4. /\ DOMAIN tasks' = 1 .. n
        /\ tasks'[t] = [tasks[t] EXCEPT !.state = st, !.bytes = b]
        /\ \A i \in 1 .. n : i # t => tasks'[i] = tasks[i]
    <3>1. t \in DOMAIN tasks /\ DOMAIN tasks = 1 .. n
      BY <1>1, <2>3
    <3> HIDE DEF n, st, b
    <3> QED
      BY <2>2, <3>1
  <2>5. st \in {"failed", "ready"} /\ b \in Nat /\ (st = "ready" => b = life[tasks[t].path])
    BY <2>1
  <2> HIDE DEF st, b
  <2>6. /\ tasks'[t] \in Task /\ tasks'[t].path = tasks[t].path
        /\ tasks'[t].cancelled = tasks[t].cancelled
        /\ tasks'[t].state = st /\ tasks'[t].bytes = b
    BY <2>3, <2>4, <2>5 DEF Task
  <2>7. tasks' \in Seq(Task) /\ Len(tasks') = n
    <3>1. \A i \in 1 .. n : tasks'[i] \in Task
      BY <2>3, <2>4, <2>6
    <3>2. tasks' \in [1 .. n -> Task]
      BY <2>2, <2>3, <2>4, <3>1
    <3> QED
      BY <2>3, <3>2
  <2> HIDE DEF n
  <2>8. SizesTypes'
    BY <1>1, <2>7 DEF SizesInv, SizesTypes, n
  <2>9. \A p \in Paths : entries[p] # None => entries[p] \in 1 .. n
    BY DEF SizesInv, SizesTypes, None, n
  <2>10. EntriesAreLive'
    BY <1>1, <2>4, <2>6, <2>9 DEF SizesInv, EntriesAreLive
  <2>11. SizesAreCurrent'
    <3>1. ASSUME NEW p \in Paths, entries[p] # None, tasks'[entries[p]].state = "ready"
          PROVE  tasks'[entries[p]].bytes = life[p]
      <4>1. CASE entries[p] = t
        <5>1. tasks[t].path = p
          BY <3>1, <4>1 DEF SizesInv, EntriesAreLive
        <5> QED
          BY <2>5, <2>6, <3>1, <4>1, <5>1
      <4>2. CASE entries[p] # t
        BY <2>4, <2>9, <3>1, <4>2 DEF SizesInv, SizesAreCurrent
      <4> QED
        BY <4>1, <4>2
    <3> QED
      BY <1>1, <3>1 DEF SizesAreCurrent
  <2> QED
    BY <1>1, <2>8, <2>10, <2>11 DEF SizesInv, ResultIsCurrent
<1> QED
  BY <1>2, <1>3

-----------------------------------------------------------------------------
(* Every step *)

\* The steps of the UI thread, of the worker and of the metadata worker.
LEMMA SizesStep == SizesInv /\ [Next]_vars => SizesInv'
<1> SUFFICES ASSUME SizesInv, [Next]_vars PROVE SizesInv'
  OBVIOUS
<1>0. rows \subseteq Paths /\ todo \subseteq Paths /\ row \in Paths /\ shown \in [Paths -> Int]
  BY DEF SizesInv, SizesTypes
<1>1. CASE UNCHANGED vars
  BY <1>0, <1>1, QuietStep DEF vars, cache, thread, screen
<1>2. CASE Messages \/ Closing
  <2>1. CASE StartPaint
    <3>1. Blank \in Int
      BY DEF Blank
    <3>2. /\ UNCHANGED <<life, entries, tasks, queue, worker, scanning, size, rows, row>>
          /\ todo' = rows /\ shown' \in [Paths -> Int]
      BY <1>0, <2>1, <3>1 DEF StartPaint, cache, thread
    <3> QED
      BY <1>0, <3>2, QuietStep
  <2>2. CASE HandleRepaint \/ EndPaint \/ Join
    <3>1. UNCHANGED <<life, entries, tasks, queue, worker, scanning, size, rows, todo, row, shown>>
      BY <2>2 DEF HandleRepaint, EndPaint, Join, cache, thread, screen
    <3> QED
      BY <1>0, <3>1, QuietStep
  <2>3. CASE NotifyAll
    <3>1. /\ UNCHANGED <<life, entries, tasks, queue, scanning, size, rows, todo, row, shown>>
          /\ worker' = worker \/ worker' = "test"
      BY <2>3 DEF NotifyAll, Woken, cache, screen
    <3> QED
      BY <1>0, <3>1, QuietStep
  <2> QED
    BY <1>2, <2>1, <2>2, <2>3 DEF Messages, Closing
<1>3. CASE Painting
  <2>1. CASE \E p \in Paths : PaintRow(p)
    BY <2>1, PaintRowStep
  <2>2. CASE Enqueue
    BY <2>2, EnqueueStep
  <2>3. CASE StartWorker \/ NotifyOne
    <3>1. /\ UNCHANGED <<life, entries, tasks, queue, scanning, size, rows, todo, row, shown>>
          /\ worker' = worker \/ worker' \in {"loop", "test"}
      BY <2>3 DEF StartWorker, NotifyOne, Woken, cache, screen
    <3> QED
      BY <1>0, <3>1, QuietStep
  <2> QED
    BY <1>3, <2>1, <2>2, <2>3 DEF Painting
<1>4. CASE Worker
  <2>1. CASE WorkerLoop \/ FindNothing \/ Sleep \/ FindStop \/ WorkerRepaints
    <3>1. /\ UNCHANGED <<life, entries, tasks, queue, rows, todo, row, shown>>
          /\ worker' \notin {"scan", "publish"}
      BY <2>1 DEF WorkerLoop, FindNothing, Sleep, FindStop, WorkerRepaints, Work, cache, screen
    <3> QED
      BY <1>0, <3>1, QuietStep
  <2> QED
    BY <1>4, <2>1, TakeStep, ScanStep, PublishStep DEF Worker
<1>5. CASE Metadata
  <2>1. ASSUME NEW p \in Paths, Invalidate(p) PROVE SizesInv'
    <3>1. /\ Drop({p}) /\ life' = [life EXCEPT ![p] = @ + 1]
          /\ UNCHANGED <<rows, worker, scanning, size, todo, row, shown>>
      BY <2>1 DEF Invalidate, thread, screen
    <3>2. life' = [q \in Paths |-> IF q \in {p} THEN life[q] + 1 ELSE life[q]]
      BY <3>1 DEF SizesInv, SizesTypes
    <3> QED
      BY <1>0, <3>1, <3>2, DropStep
  <2>2. CASE MetadataRepaints
    <3>1. UNCHANGED <<life, entries, tasks, queue, worker, scanning, size, rows, todo, row, shown>>
      BY <2>2 DEF MetadataRepaints, cache, thread, screen
    <3> QED
      BY <1>0, <3>1, QuietStep
  <2> QED
    BY <1>5, <2>1, <2>2 DEF Metadata
<1>6. CASE User
  <2>1. ASSUME NEW p \in Paths, AddRow(p) \/ KindChanges(p) PROVE SizesInv'
    <3>1. /\ UNCHANGED <<life, entries, tasks, queue, worker, scanning, size, todo, row, shown>>
          /\ rows' \subseteq Paths
      BY <1>0, <2>1 DEF AddRow, KindChanges, cache, thread, screen
    <3> QED
      BY <1>0, <3>1, QuietStep
  <2>2. ASSUME NEW gone \in SUBSET rows, RemoveRows(gone) PROVE SizesInv'
    <3>1. /\ Drop(gone) /\ rows' \subseteq Paths /\ gone \in SUBSET Paths
          /\ life' = [p \in Paths |-> IF p \in gone THEN life[p] + 1 ELSE life[p]]
          /\ UNCHANGED <<worker, scanning, size, todo, row, shown>>
      BY <1>0, <2>2 DEF RemoveRows, thread, screen
    <3> QED
      BY <3>1, DropStep
  <2>3. CASE Close
    <3>1. UNCHANGED <<life, entries, tasks, queue, worker, scanning, size, rows, todo, row, shown>>
      BY <2>3 DEF Close, cache, thread, screen
    <3> QED
      BY <1>0, <3>1, QuietStep
  <2> QED
    BY <1>6, <2>1, <2>2, <2>3 DEF User
<1> QED
  BY <1>1, <1>2, <1>3, <1>4, <1>5, <1>6 DEF Next, Ui

LEMMA SizesInvAlways == Spec => []SizesInv
BY SizesInitInv, SizesStep, PTL DEF Spec

\* Only painting changes what is on the screen, and a size it puts there was
\* measured in the current lifetime of the row.
LEMMA PaintIsCurrent ==
  ASSUME SizesInv, [Next]_vars, NEW p \in Paths, shown'[p] # shown[p], shown'[p] \in Nat
  PROVE  shown'[p] = life[p]
<1>1. CASE \E q \in Paths : PaintRow(q)
  BY <1>1, PaintRowStep
<1>2. CASE StartPaint
  <2>1. shown'[p] \in {shown[p], Blank}
    BY <1>2 DEF StartPaint
  <2>2. Blank \notin Nat
    BY DEF Blank
  <2> QED
    BY <2>1, <2>2
<1>3. CASE shown' = shown
  BY <1>3
<1> QED
  BY <1>1, <1>2, <1>3
     DEF Next, Ui, Messages, Painting, Closing, Worker, Metadata, User, HandleRepaint, EndPaint, Join,
         NotifyAll, Enqueue, StartWorker, NotifyOne, WorkerLoop, FindNothing, Sleep, FindStop, TakeNext,
         Scan, Publish, WorkerRepaints, Invalidate, MetadataRepaints, AddRow, KindChanges, RemoveRows,
         Close, screen, vars

\* For any folders, and however often rows are removed, added again or change
\* their kind while a scan runs: queue_entry_size_text shows no size that was
\* measured for a row that has gone, or before the row became another kind.
THEOREM PaintedSizesAreCurrent == Spec => PaintedSizeIsCurrent
<1>1. SizesInv /\ [Next]_vars =>
        [\A p \in Paths : shown'[p] # shown[p] /\ shown'[p] \in Nat => shown'[p] = life[p]]_vars
  BY PaintIsCurrent
<1> QED
  BY SizesInvAlways, <1>1, PTL DEF Spec, PaintedSizeIsCurrent

-----------------------------------------------------------------------------
(* No scan is forgotten *)

\* The worker does not sleep, and is not missing, while a task is in the queue
\* and nobody is about to wake or start it.  It tests the queue and blocks
\* without releasing the mutex, and a task is pushed before the notification.
WorkerIsAwake ==
  /\ worker = "sleep" => queue = <<>>
  /\ queue # <<>> /\ worker = "wait" => ui \in {"start", "notify"}
  /\ queue # <<>> /\ worker = "none" => ui = "start"
  /\ worker = "ended" => stop
  /\ stop => ui \in {"wake", "join", "closed"}

InQueue(t) == \E i \in DOMAIN queue : queue[i] = t
InHand(t) == worker \in {"scan", "publish"} /\ scanning = t
IsPending(p) == entries[p] # None /\ tasks[entries[p]].state = "pending"

\* A task that a row waits for is in the queue or with the worker.
PendingIsQueued == stop \/ \A p \in Paths : IsPending(p) => InQueue(entries[p]) \/ InHand(entries[p])

\* Until the window closes, a task that a row waits for is being scanned, or is
\* in the queue of a worker that runs or is about to be started or woken.
PendingIsServed ==
  ui \notin {"wake", "join", "closed"} =>
    \A p \in Paths :
      IsPending(p) =>
        \/ InHand(entries[p])
        \/ /\ InQueue(entries[p])
           /\ \/ ui \in {"start", "notify"}
              \/ worker \in {"loop", "test", "scan", "publish", "repaint"}

\* What the variables of the control are.
Control ==
  worker \in {"none", "loop", "test", "sleep", "wait", "scan", "publish", "repaint", "ended"}

ServedInv == SizesInv /\ Control /\ WorkerIsAwake /\ PendingIsQueued

\* Dropping rows keeps the tasks of the other rows in the queue, and puts none there.
LEMMA DropKeeps ==
  ASSUME SizesInv, NEW gone \in SUBSET Paths, Drop(gone)
  PROVE  /\ queue = <<>> => queue' = <<>>
         /\ \A t \in 1 .. Len(tasks) : InQueue(t) /\ ~tasks'[t].cancelled => InQueue(t)'
<1> DEFINE places == {i \in DOMAIN queue : ~tasks'[queue[i]].cancelled}
<1>1. PICK order \in InOrder(places) : queue' = [i \in DOMAIN order |-> queue[order[i]]]
  BY DEF Drop
<1>2. ASSUME queue = <<>> PROVE queue' = <<>>
  <2>1. places = {}
    BY <1>2
  <2> HIDE DEF places
  <2>2. Cardinality(places) = 0
    BY <2>1, FS_EmptySet
  <2>3. DOMAIN order = 1 .. 0
    BY <1>1, <2>2 DEF InOrder
  <2> QED
    BY <1>1, <2>3
<1>3. ASSUME NEW t \in 1 .. Len(tasks), InQueue(t), ~tasks'[t].cancelled PROVE InQueue(t)'
  <2>1. PICK i \in DOMAIN queue : queue[i] = t
    BY <1>3 DEF InQueue
  <2>2. i \in places
    BY <1>3, <2>1
  <2> HIDE DEF places
  <2>3. PICK j \in DOMAIN order : order[j] = i
    BY <1>1, <2>2 DEF InOrder
  <2>4. DOMAIN queue' = DOMAIN order /\ queue'[j] = t
    BY <1>1, <2>1, <2>3
  <2> QED
    BY <2>4 DEF InQueue
<1> QED
  BY <1>2, <1>3

\* The handshake of the queue, its mutex and the condition variable.
LEMMA AwakeStep ==
  ASSUME SizesInv, Control, WorkerIsAwake, [Next]_vars
  PROVE  Control' /\ WorkerIsAwake'
<1> USE DEF Control, WorkerIsAwake
<1>1. CASE UNCHANGED vars
  BY <1>1 DEF vars, cache, thread
<1>2. CASE Messages \/ Closing
  BY <1>2 DEF Messages, Closing, HandleRepaint, StartPaint, EndPaint, NotifyAll, Join, Woken, cache, thread
<1>3. CASE Painting
  <2>1. CASE \E p \in Paths : PaintRow(p)
    <3>1. ui = "paint" /\ ui' \in {"paint", "enqueue"} /\ UNCHANGED <<worker, queue, stop>>
      BY <2>1 DEF PaintRow, cache, thread
    <3> QED
      BY <3>1
  <2>2. CASE Enqueue
    <3>1. /\ ui = "enqueue" /\ worker # "sleep" /\ UNCHANGED <<worker, stop>>
          /\ \/ ui' = "paint" /\ queue' = queue
             \/ ui' = "start"
      BY <2>2 DEF Enqueue, MutexFree, cache, thread
    <3> QED
      BY <3>1
  <2>3. CASE StartWorker \/ NotifyOne
    BY <2>3 DEF StartWorker, NotifyOne, Woken, cache
  <2> QED
    BY <1>3, <2>1, <2>2, <2>3 DEF Painting
<1>4. CASE Worker
  <2>1. CASE WorkerLoop \/ FindNothing \/ Sleep \/ FindStop \/ Scan \/ WorkerRepaints
    BY <2>1 DEF WorkerLoop, FindNothing, Sleep, FindStop, Scan, WorkerRepaints, Work, cache
  <2>2. CASE TakeNext \/ Publish
    <3>1. worker' \in {"scan", "loop", "repaint"} /\ UNCHANGED <<ui, stop>>
      BY <2>2 DEF TakeNext, Publish, Work
    <3> QED
      BY <3>1
  <2> QED
    BY <1>4, <2>1, <2>2 DEF Worker
<1>5. ASSUME NEW gone \in SUBSET Paths, Drop(gone), worker # "sleep", UNCHANGED <<worker, ui, stop>>
      PROVE  Control' /\ WorkerIsAwake'
  BY <1>5, DropKeeps
<1>6. CASE Metadata
  <2>1. ASSUME NEW p \in Paths, Invalidate(p)
        PROVE  /\ {p} \in SUBSET Paths /\ Drop({p}) /\ worker # "sleep"
               /\ UNCHANGED <<worker, ui, stop>>
    BY <2>1 DEF Invalidate, MutexFree, thread
  <2>2. CASE MetadataRepaints
    BY <2>2 DEF MetadataRepaints, cache, thread
  <2> QED
    BY <1>5, <1>6, <2>1, <2>2 DEF Metadata
<1>7. CASE User
  <2>1. ASSUME NEW p \in Paths, AddRow(p) \/ KindChanges(p) PROVE Control' /\ WorkerIsAwake'
    BY <2>1 DEF AddRow, KindChanges, cache, thread
  <2>2. ASSUME NEW gone \in SUBSET rows, RemoveRows(gone)
        PROVE  /\ gone \in SUBSET Paths /\ Drop(gone) /\ worker # "sleep"
               /\ UNCHANGED <<worker, ui, stop>>
    BY <2>2 DEF RemoveRows, MutexFree, thread, SizesInv, SizesTypes
  <2>3. CASE Close
    BY <2>3 DEF Close, cache, thread
  <2> QED
    BY <1>5, <1>7, <2>1, <2>2, <2>3 DEF User
<1> QED
  BY <1>1, <1>2, <1>3, <1>4, <1>6, <1>7 DEF Next, Ui

\* A task leaves the queue when the worker takes it or its row is dropped, and
\* the worker when its row has a result.
LEMMA PendingStep ==
  ASSUME SizesInv, SizesInv', Control, WorkerIsAwake, PendingIsQueued, [Next]_vars
  PROVE  PendingIsQueued'
<1> SUFFICES ASSUME ~stop', NEW p \in Paths, IsPending(p)'
             PROVE  InQueue(entries[p])' \/ InHand(entries[p])'
  BY DEF PendingIsQueued, InQueue, InHand
<1> DEFINE e == entries[p]
           n == Len(tasks)
<1>0. /\ n \in Nat /\ tasks \in Seq(Task) /\ queue \in Seq(1 .. n) /\ entries \in [Paths -> 0 .. n]
      /\ row \in Paths
  <2>1. SizesTypes
    BY DEF SizesInv
  <2> QED
    BY <2>1 DEF SizesTypes
<1>1. ASSUME UNCHANGED <<entries, tasks, queue>>, ~stop,
             worker \in {"scan", "publish"} => UNCHANGED <<worker, scanning>>
      PROVE  InQueue(entries[p])' \/ InHand(entries[p])'
  BY <1>1 DEF PendingIsQueued, IsPending, InQueue, InHand
<1>2. CASE UNCHANGED vars
  BY <1>1, <1>2 DEF vars, cache, thread
<1>3. CASE Messages \/ Closing
  <2>1. /\ UNCHANGED <<entries, tasks, queue, stop>>
        /\ worker \in {"scan", "publish"} => UNCHANGED <<worker, scanning>>
    BY <1>3 DEF Messages, Closing, HandleRepaint, StartPaint, EndPaint, NotifyAll, Join, Woken, cache, thread
  <2> QED
    BY <1>1, <2>1
<1>4. CASE Painting
  <2>1. CASE (\E q \in Paths : PaintRow(q)) \/ NotifyOne
    <3>1. /\ UNCHANGED <<entries, tasks, queue, stop>>
          /\ worker \in {"scan", "publish"} => UNCHANGED <<worker, scanning>>
      BY <2>1 DEF PaintRow, NotifyOne, Woken, cache, thread
    <3> QED
      BY <1>1, <3>1
  <2>2. CASE StartWorker
    <3>1. /\ UNCHANGED <<entries, tasks, queue>>
          /\ worker \in {"scan", "publish"} => UNCHANGED <<worker, scanning>>
          /\ ~stop
      BY <2>2 DEF StartWorker, WorkerIsAwake, cache
    <3> QED
      BY <1>1, <3>1
  <2>3. CASE Enqueue
    <3> DEFINE new == [path |-> row, cancelled |-> FALSE, state |-> "pending", bytes |-> 0]
    <3>1. CASE entries[row] # None
      <4>1. UNCHANGED <<entries, tasks, queue, stop, worker, scanning>>
        BY <2>3, <3>1 DEF Enqueue, cache, thread
      <4> QED
        BY <1>1, <4>1
    <3>2. CASE entries[row] = None
      <4>1. /\ tasks' = Append(tasks, new) /\ entries' = [entries EXCEPT ![row] = n + 1]
            /\ queue' = Append(queue, n + 1)
            /\ UNCHANGED <<stop, worker, scanning>>
        BY <2>3, <3>2 DEF Enqueue, thread
      <4> HIDE DEF new
      <4>2. /\ DOMAIN queue' = 1 .. Len(queue) + 1 /\ queue'[Len(queue) + 1] = n + 1
            /\ \A i \in DOMAIN queue : i \in DOMAIN queue' /\ queue'[i] = queue[i]
        BY <1>0, <4>1
      <4>3. CASE p = row
        <5>1. entries'[p] = n + 1 /\ Len(queue) + 1 \in DOMAIN queue'
          BY <1>0, <4>1, <4>2, <4>3
        <5> QED
          BY <4>2, <5>1 DEF InQueue
      <4>4. CASE p # row
        <5>1. entries'[p] = e /\ e \in 0 .. n
          BY <1>0, <4>1, <4>4
        <5>2. e # None /\ e \in 1 .. n
          BY <1>0, <5>1 DEF IsPending, None
        <5>3. tasks'[e] = tasks[e]
          BY <1>0, <4>1, <5>2
        <5>4. InQueue(e) \/ InHand(e)
          BY <4>1, <5>1, <5>2, <5>3 DEF IsPending, PendingIsQueued
        <5> QED
          BY <4>1, <4>2, <5>1, <5>4 DEF InQueue, InHand
      <4> QED
        BY <4>3, <4>4
    <3> QED
      BY <3>1, <3>2
  <2> QED
    BY <1>4, <2>1, <2>2, <2>3 DEF Painting
<1>5. CASE Worker
  <2>1. CASE WorkerLoop \/ FindNothing \/ Sleep \/ FindStop \/ WorkerRepaints
    <3>1. UNCHANGED <<entries, tasks, queue, stop>> /\ worker \notin {"scan", "publish"}
      BY <2>1 DEF WorkerLoop, FindNothing, Sleep, FindStop, WorkerRepaints, Work, cache
    <3> QED
      BY <1>1, <3>1
  <2>2. CASE TakeNext
    <3>1. /\ worker = "test" /\ worker' = "scan" /\ queue # <<>> /\ UNCHANGED <<entries, tasks, stop>>
          /\ scanning' = Head(queue) /\ queue' = Tail(queue)
      BY <2>2 DEF TakeNext, Work
    <3>2. InQueue(e)
      BY <3>1 DEF PendingIsQueued, IsPending, InHand
    <3>3. PICK i \in DOMAIN queue : queue[i] = e
      BY <3>2 DEF InQueue
    <3>4. CASE i = 1
      BY <1>0, <3>1, <3>3, <3>4 DEF InHand
    <3>5. CASE i # 1
      <4>1. i - 1 \in DOMAIN queue' /\ queue'[i - 1] = e
        BY <1>0, <3>1, <3>3, <3>5
      <4> QED
        BY <3>1, <4>1 DEF InQueue
    <3> QED
      BY <3>4, <3>5
  <2>3. CASE Scan
    <3>1. /\ UNCHANGED <<entries, tasks, queue, stop, scanning>>
          /\ worker = "scan" /\ worker' = "publish"
      BY <2>3 DEF Scan, Work, cache
    <3> QED
      BY <3>1 DEF PendingIsQueued, IsPending, InQueue, InHand
  <2>4. CASE Publish
    <3>1. worker = "publish" /\ UNCHANGED <<entries, queue, stop>>
      BY <2>4 DEF Publish
    <3>2. e \in 1 .. n /\ scanning \in 1 .. n
      BY <1>0, <3>1 DEF IsPending, None, SizesInv, ResultIsCurrent
    <3>3. CASE ~MayComplete(scanning)
      <4>1. tasks' = tasks
        BY <2>4, <3>3 DEF Publish
      <4>2. e # scanning
        BY <3>1, <3>3, <4>1 DEF IsPending, MayComplete, Cancelled, SizesInv, EntriesAreLive
      <4> QED
        BY <3>1, <4>1, <4>2 DEF PendingIsQueued, IsPending, InQueue, InHand
    <3>4. CASE MayComplete(scanning)
      <4> DEFINE st == IF size = NoSize THEN "failed" ELSE "ready"
                 b == IF size = NoSize THEN 0 ELSE size
      <4>1. tasks' = [tasks EXCEPT ![scanning].state = st, ![scanning].bytes = b]
        BY <2>4, <3>1, <3>4 DEF Publish, MayComplete, Slot
      <4>2. st # "pending"
        OBVIOUS
      <4> HIDE DEF st, b
      <4>3. /\ tasks'[scanning] = [tasks[scanning] EXCEPT !.state = st, !.bytes = b]
            /\ \A t \in 1 .. n : t # scanning => tasks'[t] = tasks[t]
        <5>1. DOMAIN tasks = 1 .. n
          BY <1>0
        <5> HIDE DEF n
        <5> QED
          BY <3>2, <4>1, <5>1
      <4>4. tasks'[scanning].state = st
        <5>1. tasks[scanning] \in Task
          BY <1>0, <3>2, ElementOfSeq
        <5> QED
          BY <4>3, <5>1 DEF Task
      <4>5. e # scanning
        BY <3>1, <4>2, <4>4 DEF IsPending
      <4> QED
        BY <3>1, <3>2, <4>3, <4>5 DEF PendingIsQueued, IsPending, InQueue, InHand
    <3> QED
      BY <3>3, <3>4
  <2> QED
    BY <1>5, <2>1, <2>2, <2>3, <2>4 DEF Worker
<1>6. ASSUME NEW gone \in SUBSET Paths, Drop(gone), UNCHANGED <<worker, scanning, stop>>
      PROVE  InQueue(entries[p])' \/ InHand(entries[p])'
  <2>1. entries'[p] = e /\ e \in 1 .. n
    BY <1>0, <1>6 DEF Drop, IsPending, None
  <2>2. tasks'[e] = [tasks[e] EXCEPT !.cancelled = @ \/ \E q \in gone : entries[q] = e]
    <3>1. e \in DOMAIN tasks
      BY <1>0, <2>1
    <3> HIDE DEF e
    <3> QED
      BY <1>6, <3>1 DEF Drop
  <2>3. tasks'[e].state = tasks[e].state
    <3>1. tasks[e] \in Task
      BY <1>0, <2>1, ElementOfSeq
    <3> QED
      BY <2>2, <3>1 DEF Task
  <2>4. ~tasks'[e].cancelled
    BY <2>1 DEF IsPending, SizesInv, EntriesAreLive
  <2>5. InQueue(e) \/ InHand(e)
    BY <1>6, <2>1, <2>3 DEF IsPending, PendingIsQueued, None
  <2>6. InQueue(e) => InQueue(e)'
    BY <1>6, <2>1, <2>4, DropKeeps
  <2> QED
    BY <1>6, <2>1, <2>5, <2>6 DEF InQueue, InHand
<1>7. CASE Metadata
  <2>1. ASSUME NEW q \in Paths, Invalidate(q)
        PROVE  {q} \in SUBSET Paths /\ Drop({q}) /\ UNCHANGED <<worker, scanning, stop>>
    BY <2>1 DEF Invalidate, thread
  <2>2. CASE MetadataRepaints
    <3>1. UNCHANGED <<entries, tasks, queue, stop, worker, scanning>>
      BY <2>2 DEF MetadataRepaints, cache, thread
    <3> QED
      BY <1>1, <3>1
  <2> QED
    BY <1>6, <1>7, <2>1, <2>2 DEF Metadata
<1>8. CASE User
  <2>1. ASSUME NEW q \in Paths, AddRow(q) \/ KindChanges(q)
        PROVE  InQueue(entries[p])' \/ InHand(entries[p])'
    <3>1. UNCHANGED <<entries, tasks, queue, stop, worker, scanning>>
      BY <2>1 DEF AddRow, KindChanges, cache, thread
    <3> QED
      BY <1>1, <3>1
  <2>2. ASSUME NEW gone \in SUBSET rows, RemoveRows(gone)
        PROVE  gone \in SUBSET Paths /\ Drop(gone) /\ UNCHANGED <<worker, scanning, stop>>
    BY <2>2 DEF RemoveRows, thread, SizesInv, SizesTypes
  <2>3. ~Close
    BY DEF Close
  <2> QED
    BY <1>6, <1>8, <2>1, <2>2, <2>3 DEF User
<1> QED
  BY <1>2, <1>3, <1>4, <1>5, <1>7, <1>8 DEF Next, Ui

\* For any folders and any removals, additions and changes of kind: what
\* enqueue_folder_size_if_needed has pushed is never forgotten, although it
\* notifies without the mutex and the worker tests the queue before it blocks.
THEOREM NoScanIsForgotten == Spec => []PendingIsServed
<1>1. Init => ServedInv
  <2>1. ASSUME Init PROVE Control /\ WorkerIsAwake /\ PendingIsQueued
    BY <2>1 DEF Init, Control, WorkerIsAwake, PendingIsQueued, IsPending, None
  <2> QED
    BY <2>1, SizesInitInv DEF ServedInv
<1>2. ServedInv /\ [Next]_vars => ServedInv'
  BY SizesStep, AwakeStep, PendingStep DEF ServedInv
<1>3. ServedInv => PendingIsServed
  <2> SUFFICES ASSUME ServedInv, ui \notin {"wake", "join", "closed"},
                      NEW p \in Paths, IsPending(p), ~InHand(entries[p])
               PROVE  /\ InQueue(entries[p])
                      /\ \/ ui \in {"start", "notify"}
                         \/ worker \in {"loop", "test", "scan", "publish", "repaint"}
    BY DEF PendingIsServed
  <2>1. ~stop
    BY DEF ServedInv, WorkerIsAwake
  <2>2. InQueue(entries[p])
    BY <2>1 DEF ServedInv, PendingIsQueued
  <2>3. queue # <<>>
    BY <2>2 DEF InQueue
  <2> QED
    BY <2>1, <2>2, <2>3 DEF ServedInv, Control, WorkerIsAwake
<1> QED
  BY <1>1, <1>2, <1>3, PTL DEF Spec

-----------------------------------------------------------------------------
(* No repaint is lost *)

\* A repaint that is requested is posted, a row that waits to be painted is in
\* the queue while the window is being painted, and a row that is about to get a
\* task has none.
PaintIsOrderly ==
  /\ {repaint, posted, invalid} \subseteq BOOLEAN
  /\ repaint => posted
  /\ todo \subseteq rows
  /\ ui \notin {"paint", "enqueue", "start", "notify"} => todo = {}
  /\ ui = "enqueue" => entries[row] = None

RepaintInv == SizesInv /\ PaintIsOrderly /\ NoRepaintIsLost

\* What a row waits for is undisturbed by a step that changes neither its task nor
\* the paint under way.
LEMMA RowStillWaits ==
  ASSUME NoRepaintIsLost, UNCHANGED <<entries, tasks, shown, rows, todo, row, posted, invalid>>,
         ui' = "enqueue" <=> ui = "enqueue",
         worker = "repaint" => worker' = "repaint",
         metadata = "repaint" => metadata' = "repaint"
  PROVE  NoRepaintIsLost'
BY DEF NoRepaintIsLost, RepaintIsComing

\* The window is painted: every row in turn gets its text.
LEMMA PaintKeepsRepaints ==
  ASSUME RepaintInv, NEW p \in Paths, PaintRow(p)
  PROVE  PaintIsOrderly' /\ NoRepaintIsLost'
<1>1. /\ UNCHANGED <<rows, entries, tasks, worker, posted, invalid, repaint, metadata>>
      /\ ui = "paint" /\ p \in todo /\ todo' = todo \ {p}
      /\ \/ entries[p] # None /\ ui' = "paint" /\ row' = row
         \/ entries[p] = None /\ ui' = "enqueue" /\ row' = p
  BY DEF PaintRow, cache, thread, paint
<1>2. /\ PaintIsOrderly /\ NoRepaintIsLost /\ shown \in [Paths -> Int]
      /\ tasks \in Seq(Task) /\ entries \in [Paths -> 0 .. Len(tasks)]
      /\ \A q \in Paths : entries[q] # None /\ tasks[entries[q]].state = "ready" => tasks[entries[q]].bytes = life[q]
      /\ life \in [Paths -> Nat]
  BY DEF RepaintInv, SizesInv, SizesTypes, SizesAreCurrent
<1>3. ASSUME NEW q \in Paths, q # p PROVE shown'[q] = shown[q]
  BY <1>2, <1>3 DEF PaintRow
<1>4. ASSUME shown'[p] = Waiting, entries[p] # None PROVE tasks[entries[p]].state = "pending"
  <2>1. entries[p] \in 1 .. Len(tasks)
    BY <1>2, <1>4 DEF None
  <2>2. tasks[entries[p]] \in Task
    BY <1>2, <2>1
  <2> DEFINE task == tasks[entries[p]]
  <2>3. task.state \in {"pending", "ready", "failed"}
    BY <2>2 DEF Task
  <2>4. CASE task.state = "ready"
    <3>1. shown' = [shown EXCEPT ![p] = task.bytes] /\ task.bytes \in Nat
      BY <1>2, <1>4, <2>4 DEF PaintRow
    <3>2. shown'[p] = task.bytes
      BY <1>2, <3>1
    <3> QED
      BY <1>4, <3>1, <3>2 DEF Waiting
  <2>5. CASE task.state = "failed"
    <3>1. shown' = [shown EXCEPT ![p] = Failed]
      BY <1>4, <2>5 DEF PaintRow
    <3>2. shown'[p] = Failed
      BY <1>2, <3>1
    <3> QED
      BY <1>4, <3>2 DEF Waiting, Failed
  <2> QED
    BY <2>3, <2>4, <2>5
<1>5. PaintIsOrderly'
  BY <1>1, <1>2 DEF PaintIsOrderly
<1>6. p \in rows
  BY <1>1, <1>2 DEF PaintIsOrderly
<1>7. ASSUME NEW q \in Paths, shown'[q] = Waiting
      PROVE  \/ entries[q] # None /\ tasks[entries[q]].state = "pending"
             \/ RepaintIsComing \/ q \in todo' \/ (ui' = "enqueue" /\ row' = q)
  <2>1. CASE q = p
    BY <1>1, <1>4, <1>7, <2>1
  <2>2. CASE q # p
    <3>1. shown[q] = Waiting /\ ui # "enqueue"
      BY <1>1, <1>3, <1>7, <2>2
    <3> QED
      BY <1>1, <1>2, <2>2, <3>1 DEF NoRepaintIsLost
  <2> QED
    BY <2>1, <2>2
<1>8. ASSUME NEW q \in Paths, q \notin rows PROVE shown'[q] = Blank \/ posted \/ invalid
  BY <1>2, <1>3, <1>6, <1>8 DEF NoRepaintIsLost
<1> QED
  BY <1>1, <1>5, <1>7, <1>8 DEF NoRepaintIsLost, RepaintIsComing

\* A new task is pending.
LEMMA EnqueueKeepsRepaints ==
  ASSUME RepaintInv, Enqueue
  PROVE  PaintIsOrderly' /\ NoRepaintIsLost'
<1>1. /\ ui = "enqueue" /\ entries[row] = None
      /\ PaintIsOrderly /\ NoRepaintIsLost
      /\ row \in Paths /\ tasks \in Seq(Task) /\ entries \in [Paths -> 0 .. Len(tasks)]
  BY DEF RepaintInv, SizesInv, SizesTypes, PaintIsOrderly, Enqueue
<1> DEFINE new == [path |-> row, cancelled |-> FALSE, state |-> "pending", bytes |-> 0]
<1>2. /\ tasks' = Append(tasks, new) /\ entries' = [entries EXCEPT ![row] = Len(tasks) + 1] /\ ui' = "start"
      /\ UNCHANGED <<rows, worker, shown, todo, row, repaint, posted, invalid, metadata>>
  BY <1>1 DEF Enqueue, thread, screen, paint
<1>3. new.state = "pending"
  OBVIOUS
<1> HIDE DEF new
<1>4. /\ tasks'[Len(tasks) + 1] = new /\ Len(tasks) \in Nat
      /\ \A k \in 1 .. Len(tasks) : tasks'[k] = tasks[k]
  BY <1>1, <1>2
<1>5. entries'[row] # None /\ tasks'[entries'[row]].state = "pending"
  BY <1>1, <1>2, <1>3, <1>4 DEF None
<1>6. ASSUME NEW p \in Paths, p # row, entries[p] # None
      PROVE  entries'[p] = entries[p] /\ tasks'[entries'[p]] = tasks[entries[p]]
  BY <1>1, <1>2, <1>4, <1>6 DEF None
<1>7. ASSUME NEW p \in Paths, shown'[p] = Waiting
      PROVE  \/ entries'[p] # None /\ tasks'[entries'[p]].state = "pending"
             \/ RepaintIsComing' \/ p \in todo'
  <2>1. CASE p = row
    BY <1>5, <2>1
  <2>2. CASE p # row
    <3>1. \/ entries[p] # None /\ tasks[entries[p]].state = "pending"
          \/ RepaintIsComing \/ p \in todo
      BY <1>1, <1>2, <1>7, <2>2 DEF NoRepaintIsLost
    <3>2. RepaintIsComing => RepaintIsComing'
      BY <1>2 DEF RepaintIsComing
    <3> QED
      BY <1>2, <1>6, <2>2, <3>1, <3>2
  <2> QED
    BY <2>1, <2>2
<1>8. PaintIsOrderly'
  BY <1>1, <1>2 DEF PaintIsOrderly
<1>9. \A p \in Paths : p \notin rows' => shown'[p] = Blank \/ posted' \/ invalid'
  BY <1>1, <1>2 DEF NoRepaintIsLost
<1> QED
  BY <1>7, <1>8, <1>9 DEF NoRepaintIsLost

\* Every step; most of them leave the rows, their tasks and the paint alone.
LEMMA RepaintStep == RepaintInv /\ [Next]_vars => PaintIsOrderly' /\ NoRepaintIsLost'
<1> SUFFICES ASSUME RepaintInv, [Next]_vars PROVE PaintIsOrderly' /\ NoRepaintIsLost'
  OBVIOUS
<1>0. /\ PaintIsOrderly /\ NoRepaintIsLost /\ rows \subseteq Paths /\ row \in Paths
      /\ entries \in [Paths -> 0 .. Len(tasks)] /\ shown \in [Paths -> Int]
  BY DEF RepaintInv, SizesInv, SizesTypes
\* A step after which the window is going to be painted.
<1>1. ASSUME RequestRepaint, todo' \subseteq rows',
             ui' \notin {"paint", "enqueue", "start", "notify"} => todo' = {},
             ui' = "enqueue" => entries'[row'] = None
      PROVE  PaintIsOrderly' /\ NoRepaintIsLost'
  <2>1. repaint' = TRUE /\ posted' = TRUE /\ invalid' \in BOOLEAN
    BY <1>0, <1>1 DEF PaintIsOrderly, RequestRepaint
  <2> QED
    BY <1>1, <2>1 DEF PaintIsOrderly, NoRepaintIsLost, RepaintIsComing
<1>2. CASE HandleRepaint
  <2>1. /\ UNCHANGED <<rows, entries, ui, todo, row>> /\ ui = "idle"
        /\ posted' = FALSE /\ repaint' = FALSE /\ invalid' = TRUE
    BY <1>2 DEF HandleRepaint, cache, screen
  <2> QED
    BY <1>0, <2>1 DEF PaintIsOrderly, NoRepaintIsLost, RepaintIsComing
<1>3. CASE StartPaint
  <2>1. /\ UNCHANGED <<rows, row, repaint, posted>> /\ invalid' = FALSE /\ todo' = rows /\ ui' = "paint"
        /\ shown' = [p \in Paths |-> IF p \in rows THEN shown[p] ELSE Blank]
    BY <1>3 DEF StartPaint
  <2>2. PaintIsOrderly'
    BY <1>0, <2>1 DEF PaintIsOrderly
  <2>3. \A p \in Paths : p \notin rows' => shown'[p] = Blank
    BY <2>1
  <2>4. \A p \in Paths : shown'[p] = Waiting => p \in todo'
    BY <2>1 DEF Waiting, Blank
  <2> QED
    BY <2>2, <2>3, <2>4 DEF NoRepaintIsLost
<1>4. CASE EndPaint \/ StartWorker \/ NotifyOne \/ NotifyAll \/ Join \/ Close
  <2>1. /\ UNCHANGED <<entries, tasks, shown, rows, todo, row, repaint, posted, invalid, metadata>>
        /\ worker = "repaint" => worker' = "repaint"
        /\ ui # "enqueue" /\ ui' # "enqueue"
        /\ \/ ui = "paint" /\ todo = {}
           \/ ui' \in {"notify", "paint"}
           \/ ui \in {"idle", "wake", "join"}
    BY <1>4 DEF EndPaint, StartWorker, NotifyOne, NotifyAll, Join, Close, Woken, cache, thread, screen, paint
  <2>2. PaintIsOrderly'
    BY <1>0, <2>1 DEF PaintIsOrderly
  <2> QED
    BY <1>0, <2>1, <2>2, RowStillWaits
<1>5. CASE \E p \in Paths : PaintRow(p)
  BY <1>5, PaintKeepsRepaints
<1>6. CASE Enqueue
  BY <1>6, EnqueueKeepsRepaints
<1>7. CASE Worker
  <2>1. CASE WorkerRepaints
    <3>1. RequestRepaint /\ UNCHANGED <<rows, todo, ui, entries, row>>
      BY <2>1 DEF WorkerRepaints, cache, screen
    <3> QED
      BY <1>0, <1>1, <3>1 DEF PaintIsOrderly
  <2>2. CASE Publish
    <3>1. /\ UNCHANGED <<entries, shown, rows, todo, row, repaint, posted, invalid, metadata, ui>>
          /\ worker = "publish"
          /\ worker' = "repaint" \/ tasks' = tasks
      BY <2>2 DEF Publish, screen, paint
    <3>2. PaintIsOrderly'
      BY <1>0, <3>1 DEF PaintIsOrderly
    <3>3. CASE worker' = "repaint"
      BY <1>0, <3>1, <3>2, <3>3 DEF NoRepaintIsLost, RepaintIsComing
    <3>4. CASE tasks' = tasks
      BY <1>0, <3>1, <3>2, <3>4, RowStillWaits
    <3> QED
      BY <3>1, <3>3, <3>4
  <2>3. CASE WorkerLoop \/ FindNothing \/ Sleep \/ FindStop \/ TakeNext \/ Scan
    <3>1. /\ UNCHANGED <<entries, tasks, shown, rows, todo, row, repaint, posted, invalid, metadata, ui>>
          /\ worker # "repaint"
      BY <2>3 DEF WorkerLoop, FindNothing, Sleep, FindStop, TakeNext, Scan, Work, cache, thread, screen, paint
    <3>2. PaintIsOrderly'
      BY <1>0, <3>1 DEF PaintIsOrderly
    <3> QED
      BY <1>0, <3>1, <3>2, RowStillWaits
  <2> QED
    BY <1>7, <2>1, <2>2, <2>3 DEF Worker
<1>8. CASE Metadata
  <2>1. ASSUME NEW p \in Paths, Invalidate(p) PROVE PaintIsOrderly' /\ NoRepaintIsLost'
    <3>1. /\ UNCHANGED <<rows, ui, shown, todo, row, repaint, posted, invalid>> /\ metadata' = "repaint"
          /\ entries' = [q \in Paths |-> IF q \in {p} THEN None ELSE entries[q]]
      BY <2>1 DEF Invalidate, Drop, screen, paint
    <3>2. entries[row] = None => entries'[row] = None
      BY <1>0, <3>1
    <3> QED
      BY <1>0, <3>1, <3>2 DEF PaintIsOrderly, NoRepaintIsLost, RepaintIsComing
  <2>2. CASE MetadataRepaints
    <3>1. RequestRepaint /\ UNCHANGED <<rows, todo, ui, entries, row>>
      BY <2>2 DEF MetadataRepaints, cache, screen
    <3> QED
      BY <1>0, <1>1, <3>1 DEF PaintIsOrderly
  <2> QED
    BY <1>8, <2>1, <2>2 DEF Metadata
<1>9. CASE User
  <2>1. ASSUME NEW p \in Paths, AddRow(p) PROVE PaintIsOrderly' /\ NoRepaintIsLost'
    <3>1. RequestRepaint /\ ui = "idle" /\ rows' = rows \cup {p} /\ UNCHANGED <<todo, ui>>
      BY <2>1 DEF AddRow, screen
    <3> QED
      BY <1>0, <1>1, <3>1 DEF PaintIsOrderly
  <2>2. ASSUME NEW gone \in SUBSET rows, RemoveRows(gone) PROVE PaintIsOrderly' /\ NoRepaintIsLost'
    <3>1. RequestRepaint /\ ui = "idle" /\ UNCHANGED <<todo, ui>>
      BY <2>2 DEF RemoveRows, screen
    <3>2. todo' = {}
      BY <1>0, <3>1 DEF PaintIsOrderly
    <3> QED
      BY <1>1, <3>1, <3>2
  <2>3. ASSUME NEW p \in Paths, KindChanges(p) PROVE PaintIsOrderly' /\ NoRepaintIsLost'
    <3>1. /\ UNCHANGED <<entries, tasks, shown, rows, todo, row, repaint, posted, invalid, worker, ui>>
          /\ metadata = "idle"
      BY <2>3 DEF KindChanges, cache, thread, screen, paint
    <3>2. PaintIsOrderly'
      BY <1>0, <3>1 DEF PaintIsOrderly
    <3> QED
      BY <1>0, <3>1, <3>2, RowStillWaits
  <2> QED
    BY <1>4, <1>9, <2>1, <2>2, <2>3 DEF User
<1>10. CASE UNCHANGED vars
  <2>1. UNCHANGED <<entries, tasks, shown, rows, todo, row, repaint, posted, invalid, worker, ui, metadata>>
    BY <1>10 DEF vars, cache, thread, screen, paint
  <2>2. PaintIsOrderly'
    BY <1>0, <2>1 DEF PaintIsOrderly
  <2> QED
    BY <1>0, <2>1, <2>2, RowStillWaits
<1> QED
  BY <1>2, <1>3, <1>4, <1>5, <1>6, <1>7, <1>8, <1>9, <1>10 DEF Next, Ui, Messages, Painting, Closing

\* request_repaint and the WM_APP + 1 handler: whatever the workers report while a
\* message is pending or handled, a row that shows "..." for a task that has its
\* result is going to be painted again, for any folders and removals.
THEOREM ResultsAreRepainted == Spec => []NoRepaintIsLost
<1>1. Init => RepaintInv
  <2> SUFFICES ASSUME Init PROVE PaintIsOrderly /\ NoRepaintIsLost
    BY SizesInitInv DEF RepaintInv
  <2>1. \A p \in Paths : shown[p] = Blank
    BY DEF Init
  <2>2. PaintIsOrderly
    BY DEF Init, PaintIsOrderly
  <2>3. Blank # Waiting
    BY DEF Blank, Waiting
  <2> QED
    BY <2>1, <2>2, <2>3 DEF NoRepaintIsLost
<1>2. RepaintInv /\ [Next]_vars => RepaintInv'
  BY SizesStep, RepaintStep DEF RepaintInv
<1>3. RepaintInv => NoRepaintIsLost
  BY DEF RepaintInv
<1> QED
  BY <1>1, <1>2, <1>3, PTL DEF Spec
=============================================================================
