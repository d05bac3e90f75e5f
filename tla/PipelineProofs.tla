---------------------------- MODULE PipelineProofs ----------------------------
(***************************************************************************)
(* Proofs about EncodePipeline and DecodePipeline for every file, every    *)
(* number of chunks and windows in flight, every block limit and every     *)
(* chunk size of the reader.                                               *)
(*                                                                         *)
(* The inductive invariant of the encoder says that the queue holds        *)
(* exactly the chunks read and not yet written, oldest first, that it has  *)
(* room whenever another chunk is about to be read, and that every running *)
(* encoder belongs to it. Its second half says what is written: the        *)
(* sequential entry of the chunks that left the queue, dense as a reader   *)
(* demands.                                                                *)
(*                                                                         *)
(* The decoder starts from such an entry. In it the bytes of every block   *)
(* are at the block's offset and every byte is one of a block (Layout), so *)
(* that whatever windows it is read in it decodes, window by window, to    *)
(* what its blocks decode to in the whole payload (Whole): to the source,  *)
(* and to something else as soon as one byte or one fill value has         *)
(* changed. The inductive invariant says that the windows in the queue     *)
(* follow each other (Consecutive) and that the CRC, and the output until  *)
(* a write has failed, are the part of the whole before them.              *)
(*                                                                         *)
(* FlattenSeq and Total are defined by a recursive function under CHOOSE.  *)
(* The lemmas of the first two parts replace the induction over the data   *)
(* by a least counterexample (LeastNumber), and give each operator its     *)
(* step from n to n + 1.                                                   *)
(*                                                                         *)
(* The last two parts are what the liveness of both pipelines rests on: at *)
(* every moment some thread of the operation can take a step, and each     *)
(* step leaves less work, so that it is bounded by the size of the entry.  *)
(***************************************************************************)
EXTENDS EncodePipeline, DecodePipeline, Integers, SequenceTheorems, FiniteSetTheorems,
        WellFoundedInduction, TLAPS

\* A set of numbers that is not empty has a least element: the principle behind
\* every induction below.
LEMMA LeastNumber ==
  ASSUME NEW S \in SUBSET Nat, S # {}
  PROVE  \E m \in S : \A k \in S : m <= k
<1> DEFINE R == {p \in Nat \X Nat : p[1] < p[2]}
<1>1. IsWellFoundedOn(R, Nat)
  BY NatLessThanWellFounded DEF OpToRel
<1>2. PICK m \in S : \A k \in S : ~ (<<k, m>> \in R)
  <2> HIDE DEF R
  <2> QED
    BY <1>1, WFMin
<1>3. ASSUME NEW k \in S PROVE m <= k
  <2>1. k \in Nat /\ m \in Nat /\ <<k, m>> \notin R
    BY <1>2
  <2> QED
    BY <2>1
<1> QED
  BY <1>3

-----------------------------------------------------------------------------
(* FlattenSeq *)

\* g[i] joins the first i sequences of s.
Joins(g, s) == g = [i \in 1 .. Len(s) |-> IF i = 1 THEN s[i] ELSE g[i - 1] \o s[i]]

\* The joins of a sequence of sequences exist: there is no least n without them.
LEMMA JoinsExist ==
  ASSUME NEW T, NEW s \in Seq(Seq(T))
  PROVE  \E g \in [1 .. Len(s) -> Seq(T)] : Joins(g, s)
<1> DEFINE Joined(n) == \E g \in [1 .. n -> Seq(T)] :
                         \A i \in 1 .. n : g[i] = IF i = 1 THEN s[i] ELSE g[i - 1] \o s[i]
           Bad == {n \in 0 .. Len(s) : ~ Joined(n)}
<1>1. Bad = {}
  <2>1. SUFFICES ASSUME Bad # {} PROVE FALSE
    OBVIOUS
  <2>2. PICK n \in Bad : \A k \in Bad : n <= k
    <3>1. Bad \in SUBSET Nat
      OBVIOUS
    <3> HIDE DEF Bad
    <3>2. QED
      BY <2>1, <3>1, LeastNumber
  <2>3. n \in 0 .. Len(s) /\ ~ Joined(n)
    OBVIOUS
  <2>4. CASE n = 0
    <3> DEFINE g == [i \in 1 .. 0 |-> <<>>]
    <3>1. g \in [1 .. 0 -> Seq(T)] /\ \A i \in 1 .. 0 : FALSE
      OBVIOUS
    <3> HIDE DEF g
    <3>2. Joined(0)
      BY <3>1
    <3>3. QED
      BY <2>3, <2>4, <3>2
  <2>5. CASE n > 0
    <3>1. n - 1 \in 0 .. Len(s) /\ n - 1 \notin Bad
      <4>1. n - 1 \in 0 .. Len(s) /\ ~ (n <= n - 1)
        BY <2>3, <2>5
      <4> HIDE DEF Bad
      <4>2. QED
        BY <2>2, <4>1
    <3>2. Joined(n - 1)
      BY <3>1
    <3>3. PICK g \in [1 .. n - 1 -> Seq(T)] :
            \A i \in 1 .. n - 1 : g[i] = IF i = 1 THEN s[i] ELSE g[i - 1] \o s[i]
      BY <3>2
    <3> DEFINE value == IF n = 1 THEN s[n] ELSE g[n - 1] \o s[n]
               h == [i \in 1 .. n |-> IF i = n THEN value ELSE g[i]]
    <3>4. s[n] \in Seq(T)
      BY <2>3, <2>5
    <3>5. n # 1 => g[n - 1] \in Seq(T)
      BY <2>3, <2>5, <3>3
    <3>6. value \in Seq(T)
      BY <3>4, <3>5, ConcatProperties
    <3>7. h \in [1 .. n -> Seq(T)]
      <4> HIDE DEF value
      <4>1. \A i \in 1 .. n : i # n => i \in 1 .. n - 1
        BY <2>3
      <4>2. QED
        BY <3>3, <3>6, <4>1
    <3>8. ASSUME NEW i \in 1 .. n
          PROVE  h[i] = IF i = 1 THEN s[i] ELSE h[i - 1] \o s[i]
      <4>1. CASE i = n
        <5>1. h[i] = value
          BY <4>1
        <5>2. i # 1 => h[i - 1] = g[n - 1]
          BY <2>3, <4>1
        <5>3. QED
          BY <4>1, <5>1, <5>2
      <4>2. CASE i # n
        <5>1. i \in 1 .. n - 1 /\ h[i] = g[i]
          BY <2>3, <4>2
        <5>2. i # 1 => h[i - 1] = g[i - 1]
          BY <2>3, <4>2
        <5>3. g[i] = IF i = 1 THEN s[i] ELSE g[i - 1] \o s[i]
          BY <3>3, <5>1
        <5>4. QED
          BY <5>1, <5>2, <5>3
      <4>3. QED
        BY <4>1, <4>2
    <3>9. Joined(n)
      <4> HIDE DEF h
      <4>1. QED
        BY <3>7, <3>8
    <3>10. QED
      BY <2>3, <3>9
  <2>6. QED
    BY <2>3, <2>4, <2>5
<1>2. Joined(Len(s))
  <2>1. Len(s) \in 0 .. Len(s) /\ Len(s) \notin Bad
    <3> HIDE DEF Bad
    <3>1. QED
      BY <1>1
  <2>2. QED
    BY <2>1
<1>3. QED
  BY <1>2 DEF Joins

\* Two functions that satisfy the recursion of FlattenSeq agree.
LEMMA JoinsUnique ==
  ASSUME NEW T, NEW s \in Seq(Seq(T)), NEW f, NEW g, Joins(f, s), Joins(g, s)
  PROVE  \A i \in 1 .. Len(s) : f[i] = g[i]
<1> DEFINE Bad == {i \in 1 .. Len(s) : f[i] # g[i]}
<1>1. SUFFICES ASSUME Bad # {} PROVE FALSE
  OBVIOUS
<1>2. PICK n \in Bad : \A k \in Bad : n <= k
  <2>1. Bad \in SUBSET Nat
    OBVIOUS
  <2> HIDE DEF Bad
  <2>2. QED
    BY <1>1, <2>1, LeastNumber
<1>3. n \in 1 .. Len(s) /\ f[n] # g[n]
  OBVIOUS
<1>4. n # 1
  BY <1>3 DEF Joins
<1>5. n - 1 \in 1 .. Len(s) /\ n - 1 \notin Bad
  <2>1. n - 1 \in 1 .. Len(s) /\ ~(n <= n - 1)
    BY <1>3, <1>4
  <2> HIDE DEF Bad
  <2> QED
    BY <1>2, <2>1
<1>6. f[n] = f[n - 1] \o s[n] /\ g[n] = g[n - 1] \o s[n]
  BY <1>3, <1>4, Zenon DEF Joins
<1>7. QED
  BY <1>3, <1>5, <1>6

\* The library's definition yields the last of the joins.
LEMMA FlattenIsLastJoin ==
  ASSUME NEW T, NEW s \in Seq(Seq(T)), NEW g, Joins(g, s), s # <<>>
  PROVE  FlattenSeq(s) = g[Len(s)]
<1> DEFINE h == CHOOSE f : f = [i \in 1 .. Len(s) |-> IF i = 1 THEN s[i] ELSE f[i - 1] \o s[i]]
<1>1. Len(s) \in Nat /\ Len(s) # 0
  OBVIOUS
<1>2. FlattenSeq(s) = h[Len(s)]
  BY <1>1, Zenon DEF FlattenSeq
<1>3. h = [i \in 1 .. Len(s) |-> IF i = 1 THEN s[i] ELSE h[i - 1] \o s[i]]
  BY Zenon DEF Joins
<1> HIDE DEF h
<1>4. Joins(h, s)
  BY <1>3 DEF Joins
<1>5. QED
  BY <1>1, <1>2, <1>4, JoinsUnique

\* FlattenSeq returns a sequence of the same members.
LEMMA FlattenType ==
  ASSUME NEW T, NEW s \in Seq(Seq(T))
  PROVE  FlattenSeq(s) \in Seq(T)
<1>1. CASE s = <<>>
  BY <1>1 DEF FlattenSeq
<1>2. CASE s # <<>>
  <2>1. PICK g \in [1 .. Len(s) -> Seq(T)] : Joins(g, s)
    BY JoinsExist
  <2>2. Len(s) \in 1 .. Len(s)
    BY <1>2
  <2>3. FlattenSeq(s) = g[Len(s)]
    BY <1>2, <2>1, FlattenIsLastJoin
  <2>4. g[Len(s)] \in Seq(T)
    BY <2>1, <2>2
  <2> QED
    BY <2>3, <2>4
<1>3. QED
  BY <1>1, <1>2

\* FlattenSeq of one more sequence ends in that sequence.
LEMMA FlattenAppend ==
  ASSUME NEW T, NEW s \in Seq(Seq(T)), NEW t \in Seq(T)
  PROVE  FlattenSeq(Append(s, t)) = FlattenSeq(s) \o t
<1> DEFINE u == Append(s, t)
           n == Len(s)
<1>1. /\ u \in Seq(Seq(T)) /\ n \in Nat /\ Len(u) = n + 1 /\ u # <<>>
      /\ u[n + 1] = t /\ \A i \in 1 .. n : u[i] = s[i]
  BY AppendProperties
<1>2. PICK g \in [1 .. n -> Seq(T)] : Joins(g, s)
  BY JoinsExist
<1> DEFINE h == [i \in 1 .. n + 1 |-> IF i = n + 1 THEN IF n = 0 THEN t ELSE g[n] \o t ELSE g[i]]
<1>3. Joins(h, u)
  <2>1. ASSUME NEW i \in 1 .. n + 1
        PROVE  h[i] = IF i = 1 THEN u[i] ELSE h[i - 1] \o u[i]
    <3> HIDE DEF u
    <3>1. CASE i = n + 1
      <4>1. i # 1 => n # 0 /\ h[i - 1] = g[n]
        BY <1>1, <3>1
      <4>2. QED
        BY <1>1, <3>1, <4>1
    <3>2. CASE i # n + 1
      <4>1. i \in 1 .. n /\ h[i] = g[i] /\ u[i] = s[i] /\ (i # 1 => h[i - 1] = g[i - 1])
        BY <1>1, <3>2
      <4>2. g[i] = IF i = 1 THEN s[i] ELSE g[i - 1] \o s[i]
        BY <1>2, <4>1 DEF Joins
      <4>3. QED
        BY <4>1, <4>2
    <3>3. QED
      BY <3>1, <3>2
  <2>2. h = [i \in 1 .. n + 1 |-> IF i = 1 THEN u[i] ELSE h[i - 1] \o u[i]]
    <3> HIDE DEF u
    <3>1. h = [i \in 1 .. n + 1 |-> h[i]]
      OBVIOUS
    <3> HIDE DEF h
    <3>2. QED
      BY <2>1, <3>1
  <2>3. QED
    <3> HIDE DEF h, u
    <3>1. QED
      BY <1>1, <2>2 DEF Joins
<1>4. FlattenSeq(u) = h[n + 1]
  <2> HIDE DEF u, h
  <2>1. QED
    BY <1>1, <1>3, FlattenIsLastJoin
<1>5. CASE s = <<>>
  <2>1. FlattenSeq(s) = <<>> /\ n = 0
    BY <1>5 DEF FlattenSeq
  <2>2. QED
    BY <1>4, <2>1
<1>6. CASE s # <<>>
  <2>1. n # 0 /\ FlattenSeq(s) = g[n]
    BY <1>2, <1>6, FlattenIsLastJoin
  <2>2. QED
    BY <1>1, <1>4, <2>1
<1>7. QED
  BY <1>5, <1>6

\* The form in which the modules use it: one more member of a family.
LEMMA FlattenMore ==
  ASSUME NEW T, NEW n \in Nat, NEW F \in [1 .. n + 1 -> Seq(T)]
  PROVE  /\ FlattenSeq([c \in 1 .. n |-> F[c]]) \in Seq(T)
         /\ FlattenSeq(F) = FlattenSeq([c \in 1 .. n |-> F[c]]) \o F[n + 1]
<1> DEFINE s == [c \in 1 .. n |-> F[c]]
<1>1. s \in Seq(Seq(T)) /\ F[n + 1] \in Seq(T) /\ Len(s) = n
  OBVIOUS
<1>2. F = Append(s, F[n + 1])
  BY <1>1
<1>3. FlattenSeq(s) \in Seq(T) /\ FlattenSeq(Append(s, F[n + 1])) = FlattenSeq(s) \o F[n + 1]
  <2> HIDE DEF s
  <2>1. QED
    BY <1>1, FlattenType, FlattenAppend
<1>4. FlattenSeq(F) = FlattenSeq(s) \o F[n + 1]
  <2> HIDE DEF s
  <2>1. QED
    BY <1>2, <1>3
<1>5. QED
  BY <1>3, <1>4

-----------------------------------------------------------------------------
(* Total *)

\* What is summed up, as a set with one member for each unit.
Units(f, S) == UNION {{x} \X (1 .. f[x]) : x \in S}

\* The units of finitely many numbers are finitely many.
LEMMA UnitsAreFinite ==
  ASSUME NEW S, IsFiniteSet(S), NEW f, \A x \in S : f[x] \in Nat
  PROVE  IsFiniteSet(Units(f, S)) /\ Cardinality(Units(f, S)) \in Nat
<1> DEFINE T == {{x} \X (1 .. f[x]) : x \in S}
           g == [x \in S |-> {x} \X (1 .. f[x])]
<1>1. g \in Surjection(S, T)
  BY DEF Surjection
<1>2. IsFiniteSet(T)
  BY <1>1, FS_Surjection
<1>3. ASSUME NEW x \in S PROVE IsFiniteSet({x} \X (1 .. f[x]))
  <2>1. IsFiniteSet({x})
    BY FS_Singleton
  <2>2. 1 \in Int /\ f[x] \in Int
    OBVIOUS
  <2>3. IsFiniteSet(1 .. f[x])
    BY <2>2, FS_Interval
  <2> QED
    BY <2>1, <2>3, FS_Product
<1>4. IsFiniteSet(UNION T)
  BY <1>2, <1>3, FS_UNION
<1> QED
  BY <1>4, FS_CardinalityType DEF Units

\* A new member adds as many units as its number says.
LEMMA UnitsOfOneMore ==
  ASSUME NEW S, IsFiniteSet(S), NEW f, \A y \in S : f[y] \in Nat,
         NEW x, x \notin S, f[x] \in Nat
  PROVE  Cardinality(Units(f, S \cup {x})) = Cardinality(Units(f, S)) + f[x]
<1> DEFINE Of == {x} \X (1 .. f[x])
<1>1. IsFiniteSet(Units(f, S)) /\ Cardinality(Units(f, S)) \in Nat
  BY UnitsAreFinite
<1>2. IsFiniteSet({x}) /\ Cardinality({x}) = 1
  BY FS_Singleton
<1>3. IsFiniteSet(1 .. f[x]) /\ Cardinality(1 .. f[x]) = f[x]
  <2>1. \A a, b \in Int : /\ IsFiniteSet(a .. b)
                          /\ Cardinality(a .. b) = IF a > b THEN 0 ELSE b - a + 1
    BY FS_Interval
  <2>2. \A b \in Nat : IsFiniteSet(1 .. b) /\ Cardinality(1 .. b) = b
    BY <2>1
  <2> QED
    BY <2>2
<1>4. IsFiniteSet(Of) /\ Cardinality(Of) = Cardinality({x}) * Cardinality(1 .. f[x])
  BY <1>2, <1>3, FS_Product
<1>5. Cardinality(Of) = f[x]
  <2>1. Cardinality(Of) = 1 * f[x]
    BY <1>2, <1>3, <1>4
  <2> QED
    BY <2>1
<1>6. Units(f, S) \cap Of = {}
  BY DEF Units
<1>7. Units(f, S \cup {x}) = Units(f, S) \cup Of
  BY DEF Units
<1> HIDE DEF Of
<1>8. Cardinality(Units(f, S) \cup Of) =
        Cardinality(Units(f, S)) + Cardinality(Of) - Cardinality(Units(f, S) \cap Of)
  BY <1>1, <1>4, FS_Union
<1>9. Cardinality(Units(f, S) \cap Of) = 0
  BY <1>6, FS_EmptySet
<1>10. Cardinality(Units(f, S) \cup Of) = Cardinality(Units(f, S)) + f[x]
  BY <1>1, <1>5, <1>8, <1>9
<1> QED
  BY <1>7, <1>10

\* g adds the members of every subset of S, one by one.
Adds(g, f, S) ==
  g = [s \in SUBSET S |-> IF s = {} THEN 0
                          ELSE LET x == CHOOSE x \in s : TRUE IN f[x] + g[s \ {x}]]

\* Counting the units satisfies the recursion of Total.
LEMMA SizesAdd ==
  ASSUME NEW S, IsFiniteSet(S), NEW f, \A x \in S : f[x] \in Nat
  PROVE  Adds([s \in SUBSET S |-> Cardinality(Units(f, s))], f, S)
<1> DEFINE g == [s \in SUBSET S |-> Cardinality(Units(f, s))]
<1>1. ASSUME NEW s \in SUBSET S
      PROVE  g[s] = IF s = {} THEN 0 ELSE LET x == CHOOSE x \in s : TRUE IN f[x] + g[s \ {x}]
  <2>1. CASE s = {}
    <3>1. Units(f, s) = {}
      BY <2>1 DEF Units
    <3> QED
      BY <2>1, <3>1, FS_EmptySet
  <2>2. CASE s # {}
    <3> DEFINE x == CHOOSE x \in s : TRUE
    <3>1. x \in s
      BY <2>2
    <3> HIDE DEF x
    <3>2. IsFiniteSet(s \ {x}) /\ s = (s \ {x}) \cup {x} /\ x \notin s \ {x}
      BY <3>1, FS_Subset
    <3>3. Cardinality(Units(f, (s \ {x}) \cup {x})) = Cardinality(Units(f, s \ {x})) + f[x]
      BY <3>1, <3>2, UnitsOfOneMore
    <3>4. Cardinality(Units(f, s \ {x})) \in Nat /\ f[x] \in Nat
      BY <3>1, <3>2, UnitsAreFinite
    <3>5. g[s] = Cardinality(Units(f, s)) /\ g[s \ {x}] = Cardinality(Units(f, s \ {x}))
      OBVIOUS
    <3>6. Cardinality(Units(f, s)) = Cardinality(Units(f, s \ {x})) + f[x]
      BY <3>2, <3>3
    <3>7. g[s] = f[x] + g[s \ {x}]
      BY <3>4, <3>5, <3>6
    <3> QED
      BY <2>2, <3>7 DEF x
  <2> QED
    BY <2>1, <2>2
<1> QED
  BY <1>1 DEF Adds

\* Two functions that satisfy the recursion of Total agree.
LEMMA AddsUnique ==
  ASSUME NEW S, IsFiniteSet(S), NEW f, NEW g, NEW h, Adds(g, f, S), Adds(h, f, S)
  PROVE  g[S] = h[S]
<1> DEFINE Bad == {s \in SUBSET S : g[s] # h[s]}
           Sizes == {Cardinality(s) : s \in Bad}
<1>1. SUFFICES ASSUME Bad # {} PROVE FALSE
  OBVIOUS
<1>2. \A s \in SUBSET S : IsFiniteSet(s) /\ Cardinality(s) \in Nat
  BY FS_Subset, FS_CardinalityType
<1>3. PICK m \in Sizes : \A k \in Sizes : m <= k
  <2>1. Sizes \in SUBSET Nat
    BY <1>2
  <2>2. Sizes # {}
    BY <1>1
  <2> HIDE DEF Sizes
  <2> QED
    BY <2>1, <2>2, LeastNumber
<1>4. PICK s \in Bad : m = Cardinality(s)
  OBVIOUS
<1>5. s # {}
  BY <1>4 DEF Adds
<1> DEFINE x == CHOOSE x \in s : TRUE
<1>6. x \in s
  BY <1>5
<1>7. g[s] = f[x] + g[s \ {x}] /\ h[s] = f[x] + h[s \ {x}]
  BY <1>4, <1>5 DEF Adds
<1> HIDE DEF x
<1>8. s \ {x} \in SUBSET S /\ Cardinality(s \ {x}) = Cardinality(s) - 1
  BY <1>2, <1>4, <1>6, FS_RemoveElement
<1>9. s \ {x} \notin Bad
  <2>1. SUFFICES ASSUME s \ {x} \in Bad PROVE FALSE
    OBVIOUS
  <2>2. Cardinality(s \ {x}) \in Sizes
    BY <2>1
  <2>3. Cardinality(s) <= Cardinality(s) - 1
    BY <1>3, <1>4, <1>8, <2>2
  <2>4. Cardinality(s) \in Nat
    BY <1>2, <1>4
  <2> QED
    BY <2>3, <2>4
<1> QED
  BY <1>4, <1>7, <1>8, <1>9

\* The library's fold, which takes the members one by one in an order of its
\* own, counts the units.
LEMMA TotalIsSize ==
  ASSUME NEW S, IsFiniteSet(S), NEW f, \A x \in S : f[x] \in Nat
  PROVE  Total(f, S) = Cardinality(Units(f, S)) /\ Total(f, S) \in Nat
<1> DEFINE g == [s \in SUBSET S |-> Cardinality(Units(f, s))]
           h == CHOOSE h : h = [s \in SUBSET S |->
                  IF s = {} THEN 0 ELSE LET x == CHOOSE x \in s : TRUE IN f[x] + h[s \ {x}]]
<1>1. Total(f, S) = h[S]
  BY DEF Total, FoldFunctionOnSet, MapThenFoldSet
<1>2. Adds(g, f, S)
  BY SizesAdd
<1>3. Adds(h, f, S)
  <2> HIDE DEF g
  <2>1. h = [s \in SUBSET S |->
               IF s = {} THEN 0 ELSE LET x == CHOOSE x \in s : TRUE IN f[x] + h[s \ {x}]]
    BY <1>2 DEF Adds
  <2> HIDE DEF h
  <2> QED
    BY <2>1 DEF Adds
<1>4. g[S] = h[S]
  <2> HIDE DEF g, h
  <2> QED
    BY <1>2, <1>3, AddsUnique
<1>5. g[S] = Cardinality(Units(f, S)) /\ Cardinality(Units(f, S)) \in Nat
  BY UnitsAreFinite
<1> HIDE DEF g, h
<1> QED
  BY <1>1, <1>4, <1>5

\* The first n numbers are finitely many.
LEMMA IntervalsAreFinite == \A n \in Nat : IsFiniteSet(1 .. n)
<1> SUFFICES ASSUME NEW n \in Nat PROVE IsFiniteSet(1 .. n)
  OBVIOUS
<1>1. 1 \in Int /\ n \in Int
  OBVIOUS
<1> QED
  BY <1>1, FS_Interval

\* The sum over no numbers.
LEMMA TotalNone ==
  ASSUME NEW f
  PROVE  Total(f, 1 .. 0) = 0
<1>1. 1 .. 0 = {}
  OBVIOUS
<1>2. Units(f, {}) = {}
  BY DEF Units
<1>3. Total(f, {}) = Cardinality(Units(f, {}))
  BY FS_EmptySet, TotalIsSize
<1> QED
  BY <1>1, <1>2, <1>3, FS_EmptySet

\* One more number adds its own size.
LEMMA TotalNext ==
  ASSUME NEW n \in Nat, NEW f, \A i \in 1 .. n + 1 : f[i] \in Nat
  PROVE  /\ Total(f, 1 .. n) \in Nat
         /\ Total(f, 1 .. n + 1) = Total(f, 1 .. n) + f[n + 1]
<1>1. IsFiniteSet(1 .. n) /\ IsFiniteSet(1 .. n + 1)
  BY IntervalsAreFinite
<1>2. /\ \A i \in 1 .. n : f[i] \in Nat
      /\ n + 1 \notin 1 .. n /\ f[n + 1] \in Nat
  OBVIOUS
<1>3. 1 .. n + 1 = (1 .. n) \cup {n + 1}
  OBVIOUS
<1>4. Cardinality(Units(f, (1 .. n) \cup {n + 1})) = Cardinality(Units(f, 1 .. n)) + f[n + 1]
  <2> DEFINE S == 1 .. n
             x == n + 1
  <2>1. IsFiniteSet(S) /\ (\A y \in S : f[y] \in Nat) /\ x \notin S /\ f[x] \in Nat
    BY <1>1, <1>2
  <2> HIDE DEF S, x
  <2>2. Cardinality(Units(f, S \cup {x})) = Cardinality(Units(f, S)) + f[x]
    BY <2>1, UnitsOfOneMore
  <2> QED
    BY <2>2 DEF S, x
<1>5. Total(f, 1 .. n) = Cardinality(Units(f, 1 .. n)) /\ Total(f, 1 .. n) \in Nat
  BY <1>1, <1>2, TotalIsSize
<1>6. Total(f, 1 .. n + 1) = Cardinality(Units(f, 1 .. n + 1))
  BY <1>1, TotalIsSize
<1> QED
  BY <1>3, <1>4, <1>5, <1>6

\* Functions that agree on the numbers have the same sum.
LEMMA TotalSame ==
  ASSUME NEW n \in Nat, NEW f, NEW g, \A i \in 1 .. n : f[i] \in Nat /\ g[i] = f[i]
  PROVE  Total(f, 1 .. n) = Total(g, 1 .. n)
<1>1. IsFiniteSet(1 .. n)
  BY IntervalsAreFinite
<1>2. /\ Total(f, 1 .. n) = Cardinality(Units(f, 1 .. n))
      /\ Total(g, 1 .. n) = Cardinality(Units(g, 1 .. n))
  BY <1>1, TotalIsSize
<1>3. Units(f, 1 .. n) = Units(g, 1 .. n)
  BY DEF Units
<1> QED
  BY <1>2, <1>3

\* The members of the first k families are what the first k lengths sum up to.
LEMMA FlattenLength ==
  ASSUME NEW T, NEW n \in Nat, NEW F \in [1 .. n -> Seq(T)],
         NEW L, \A i \in 1 .. n : L[i] = Len(F[i])
  PROVE  Len(FlattenSeq(F)) = Total(L, 1 .. n)
<1> DEFINE P(k) == FlattenSeq([i \in 1 .. k |-> F[i]])
           Bad == {k \in 0 .. n : Len(P(k)) # Total(L, 1 .. k)}
<1>1. \A i \in 1 .. n : F[i] \in Seq(T) /\ L[i] \in Nat
  OBVIOUS
<1>2. 0 \notin Bad
  <2> DEFINE s == [i \in 1 .. 0 |-> F[i]]
  <2>1. s = <<>>
    OBVIOUS
  <2> HIDE DEF s
  <2>2. FlattenSeq(s) = <<>>
    BY <2>1 DEF FlattenSeq
  <2>3. Len(P(0)) = 0
    BY <2>2 DEF s
  <2>4. QED
    BY <2>3, TotalNone
<1>3. ASSUME NEW m \in 0 .. n, m # n, m \notin Bad PROVE m + 1 \notin Bad
  <2> DEFINE G == [i \in 1 .. m + 1 |-> F[i]]
             H == [c \in 1 .. m |-> G[c]]
  <2>1. m \in Nat /\ G \in [1 .. m + 1 -> Seq(T)] /\ G[m + 1] = F[m + 1] /\ m + 1 \in 1 .. n
    BY <1>1, <1>3
  <2>2. H = [i \in 1 .. m |-> F[i]]
    BY <2>1
  <2>3. H \in Seq(Seq(T))
    BY <2>1
  <2>4. FlattenSeq(H) \in Seq(T) /\ FlattenSeq(G) = FlattenSeq(H) \o G[m + 1]
    <3> HIDE DEF G
    <3>1. QED
      BY <2>1, FlattenMore
  <2> HIDE DEF G, H
  <2>5. Len(FlattenSeq(G)) = Len(FlattenSeq(H)) + Len(F[m + 1])
    BY <1>1, <2>1, <2>4, ConcatProperties
  <2>6. Len(FlattenSeq(H)) = Total(L, 1 .. m)
    BY <1>3, <2>2
  <2>7. Total(L, 1 .. m + 1) = Total(L, 1 .. m) + L[m + 1]
    <3>1. m \in Nat /\ \A i \in 1 .. m + 1 : L[i] \in Nat
      BY <1>1, <1>3
    <3>2. QED
      BY <3>1, TotalNext
  <2>8. Len(FlattenSeq(G)) = Total(L, 1 .. m + 1)
    BY <2>1, <2>5, <2>6, <2>7
  <2>9. QED
    BY <2>8 DEF G
<1>4. Bad = {}
  <2>1. SUFFICES ASSUME Bad # {} PROVE FALSE
    OBVIOUS
  <2>2. Bad \in SUBSET Nat /\ \A k \in Bad : k \in 0 .. n
    OBVIOUS
  <2> HIDE DEF Bad
  <2>3. PICK k \in Bad : \A j \in Bad : k <= j
    BY <2>1, <2>2, LeastNumber
  <2>4. k \in 0 .. n /\ k # 0
    BY <1>2, <2>2, <2>3
  <2>5. k - 1 \in 0 .. n /\ k - 1 # n /\ ~ (k <= k - 1) /\ k - 1 + 1 = k
    BY <2>4
  <2>6. k - 1 \notin Bad
    BY <2>3, <2>5
  <2>7. QED
    BY <1>3, <2>3, <2>5, <2>6
<1>5. Len(P(n)) = Total(L, 1 .. n)
  <2>1. n \in 0 .. n
    OBVIOUS
  <2>2. n \notin Bad
    <3> HIDE DEF Bad
    <3>1. QED
      BY <1>4
  <2>3. QED
    BY <2>1, <2>2
<1>6. [i \in 1 .. n |-> F[i]] = F
  OBVIOUS
<1>7. QED
  BY <1>5, <1>6

\* The sum over two sequences in a row, up to a member of the second.
LEMMA TotalConcat ==
  ASSUME NEW s \in Seq(Nat), NEW t \in Seq(Nat), NEW n \in 0 .. Len(t)
  PROVE  Total(s \o t, 1 .. Len(s) + n) = Total(s, 1 .. Len(s)) + Total(t, 1 .. n)
<1> DEFINE u == s \o t
           m == Len(s)
           Bad == {k \in 0 .. Len(t) : Total(u, 1 .. m + k) # Total(s, 1 .. m) + Total(t, 1 .. k)}
<1>1. /\ u \in Seq(Nat) /\ m \in Nat /\ Len(u) = m + Len(t) /\ Len(t) \in Nat
      /\ \A i \in 1 .. m : u[i] = s[i] /\ s[i] \in Nat
      /\ \A i \in 1 .. Len(t) : u[m + i] = t[i] /\ t[i] \in Nat
  BY ConcatProperties
<1> HIDE DEF u, m
<1>2. Total(s, 1 .. m) \in Nat /\ \A k \in 0 .. Len(t) : Total(t, 1 .. k) \in Nat
  <2>1. Total(s, 1 .. m) \in Nat
    <3>1. IsFiniteSet(1 .. m)
      BY <1>1, IntervalsAreFinite
    <3>2. QED
      BY <1>1, <3>1, TotalIsSize
  <2>2. ASSUME NEW k \in 0 .. Len(t) PROVE Total(t, 1 .. k) \in Nat
    <3>1. k \in Nat /\ \A i \in 1 .. k : t[i] \in Nat
      BY <1>1
    <3>2. IsFiniteSet(1 .. k)
      BY <3>1, IntervalsAreFinite
    <3>3. QED
      BY <3>1, <3>2, TotalIsSize
  <2>3. QED
    BY <2>1, <2>2
<1>3. 0 \notin Bad
  <2>1. Total(u, 1 .. m) = Total(s, 1 .. m)
    BY <1>1, TotalSame
  <2>2. m + 0 = m
    BY <1>1
  <2>3. QED
    BY <1>2, <2>1, <2>2, TotalNone
<1>4. ASSUME NEW k \in 0 .. Len(t), k # Len(t), k \notin Bad PROVE k + 1 \notin Bad
  <2>1. k \in Nat /\ k + 1 \in 1 .. Len(t) /\ m + k \in Nat /\ m + (k + 1) = m + k + 1
    BY <1>1, <1>4
  <2>2. \A i \in 1 .. m + k + 1 : u[i] \in Nat
    <3>1. \A i \in 1 .. m + k + 1 : i \in 1 .. Len(u)
      BY <1>1, <2>1
    <3>2. QED
      BY <1>1, <3>1
  <2>3. Total(u, 1 .. m + k + 1) = Total(u, 1 .. m + k) + u[m + k + 1]
    <3> DEFINE j == m + k
    <3>1. j \in Nat /\ \A i \in 1 .. j + 1 : u[i] \in Nat
      BY <2>1, <2>2
    <3> HIDE DEF j
    <3>2. Total(u, 1 .. j + 1) = Total(u, 1 .. j) + u[j + 1]
      BY <3>1, TotalNext
    <3>3. QED
      BY <3>2 DEF j
  <2>4. Total(t, 1 .. k + 1) = Total(t, 1 .. k) + t[k + 1]
    <3>1. \A i \in 1 .. k + 1 : t[i] \in Nat
      BY <1>1, <2>1
    <3>2. QED
      BY <2>1, <3>1, TotalNext
  <2>5. u[m + k + 1] = t[k + 1] /\ t[k + 1] \in Nat
    <3>1. u[m + (k + 1)] = t[k + 1] /\ t[k + 1] \in Nat
      BY <1>1, <2>1
    <3>2. QED
      BY <2>1, <3>1
  <2>6. Total(u, 1 .. m + k) = Total(s, 1 .. m) + Total(t, 1 .. k)
    BY <1>4
  <2>7. Total(u, 1 .. m + (k + 1)) = Total(s, 1 .. m) + Total(t, 1 .. k + 1)
    <3> DEFINE a == Total(s, 1 .. m)
               b == Total(t, 1 .. k)
               x == t[k + 1]
    <3>1. a \in Nat /\ b \in Nat /\ x \in Nat /\ (a + b) + x = a + (b + x)
      BY <1>2, <2>5
    <3>2. Total(u, 1 .. m + (k + 1)) = (a + b) + x /\ Total(t, 1 .. k + 1) = b + x
      BY <2>1, <2>3, <2>4, <2>5, <2>6
    <3> HIDE DEF a, b, x
    <3>3. Total(u, 1 .. m + (k + 1)) = a + Total(t, 1 .. k + 1)
      BY <3>1, <3>2
    <3> QED
      BY <3>3 DEF a
  <2>8. QED
    BY <2>7
<1>5. n \notin Bad
  <2>1. SUFFICES ASSUME Bad # {} PROVE FALSE
    BY DEF Bad
  <2>2. Bad \in SUBSET Nat /\ \A k \in Bad : k \in 0 .. Len(t)
    BY <1>1
  <2> HIDE DEF Bad
  <2>3. PICK k \in Bad : \A j \in Bad : k <= j
    BY <2>1, <2>2, LeastNumber
  <2>4. k \in 0 .. Len(t) /\ k # 0
    BY <1>3, <2>2, <2>3
  <2>5. k - 1 \in 0 .. Len(t) /\ k - 1 # Len(t) /\ ~ (k <= k - 1) /\ k - 1 + 1 = k
    <3>1. Len(t) \in Nat
      OBVIOUS
    <3> QED
      BY <2>4, <3>1
  <2>6. k - 1 \notin Bad
    BY <2>3, <2>5
  <2>7. QED
    BY <1>4, <2>3, <2>5, <2>6
<1>6. QED
  BY <1>5 DEF u, m

-----------------------------------------------------------------------------
(* Blocks and payload of a chunk *)

\* The bytes of an encoded chunk and the descriptors of its blocks.
Token == (Nat \X Nat) \X Nat
Block == [id : Nat \X Nat, len : Nat, enc : Nat, off : Nat]

\* An encoding has one length for each block, at most that of the block.
LEMMA EncodingOfAChunk ==
  ASSUME NEW lens \in Seq(Nat \ {0}), NEW e \in Encodings(lens)
  PROVE  e \in Seq(Nat) /\ Len(e) = Len(lens) /\ \A b \in 1 .. Len(lens) : e[b] <= lens[b]
<1>1. /\ DOMAIN lens = 1 .. Len(lens) /\ Len(lens) \in Nat
      /\ e \in [DOMAIN lens -> 0 .. Max(Range(lens))] /\ \A b \in DOMAIN lens : e[b] <= lens[b]
  BY DEF Encodings
<1>2. \A b \in 1 .. Len(lens) : e[b] \in Nat
  BY <1>1
<1>3. e \in [1 .. Len(lens) -> Nat]
  BY <1>1, <1>2
<1>4. e \in Seq(Nat) /\ Len(e) = Len(lens)
  <2> DEFINE n == Len(lens)
  <2>1. n \in Nat /\ e \in [1 .. n -> Nat]
    BY <1>1, <1>3
  <2> HIDE DEF n
  <2>2. e \in Seq(Nat) /\ Len(e) = n
    BY <2>1
  <2> QED
    BY <2>2 DEF n
<1>5. \A b \in 1 .. Len(lens) : e[b] <= lens[b]
  BY <1>1
<1> QED
  BY <1>4, <1>5

\* The payload of a chunk is as long as its encoding says.
LEMMA PayloadOfAChunk ==
  ASSUME NEW c \in Nat, NEW e \in Seq(Nat)
  PROVE  /\ EncodedPayload(c, e) \in Seq(Token)
         /\ Len(EncodedPayload(c, e)) = Total(e, 1 .. Len(e))
<1> DEFINE F == [b \in 1 .. Len(e) |-> Stored(<<c, b>>, e[b])]
<1>1. ASSUME NEW b \in 1 .. Len(e)
      PROVE  Stored(<<c, b>>, e[b]) \in Seq(Token) /\ Len(Stored(<<c, b>>, e[b])) = e[b]
  <2>1. e[b] \in Nat /\ b \in Nat
    OBVIOUS
  <2>2. \A k \in 1 .. e[b] : <<<<c, b>>, k>> \in Token
    BY <2>1 DEF Token
  <2> QED
    BY <2>1, <2>2 DEF Stored
<1>2. Len(e) \in Nat /\ F \in [1 .. Len(e) -> Seq(Token)] /\ \A b \in 1 .. Len(e) : e[b] = Len(F[b])
  BY <1>1
<1>3. F \in Seq(Seq(Token))
  BY <1>2
<1> HIDE DEF F
<1>4. FlattenSeq(F) \in Seq(Token) /\ Len(FlattenSeq(F)) = Total(e, 1 .. Len(e))
  BY <1>2, <1>3, FlattenType, FlattenLength
<1> QED
  BY <1>4 DEF EncodedPayload, F

\* Moving a descriptor changes its offset only.
LEMMA MovedBlock ==
  ASSUME NEW id, NEW len, NEW n, NEW off \in Nat, NEW base \in Nat
  PROVE  [[id |-> id, len |-> len, enc |-> n, off |-> off] EXCEPT !.off = @ + base] =
           [id |-> id, len |-> len, enc |-> n, off |-> off + base]
  OBVIOUS

\* The blocks of a chunk behind `base` bytes of payload.
BlocksBehind(base, c, lens, e) ==
  [b \in 1 .. Len(lens) |-> [EncodedBlocks(c, lens, e)[b] EXCEPT !.off = @ + base]]

\* The descriptors of a chunk, with their lengths and offsets.
LEMMA BlocksOfAChunk ==
  ASSUME NEW base \in Nat, NEW c \in Nat, NEW lens \in Seq(Nat \ {0}), NEW e \in Encodings(lens)
  PROVE  /\ BlocksBehind(base, c, lens, e) \in Seq(Block)
         /\ Len(BlocksBehind(base, c, lens, e)) = Len(lens)
         /\ \A b \in 1 .. Len(lens) :
              LET block == BlocksBehind(base, c, lens, e)[b]
              IN  /\ block.id = <<c, b>> /\ block.len = lens[b] /\ block.enc = e[b]
                  /\ e[b] # 0 => block.off = Total(e, 1 .. b - 1) + base
<1>1. /\ e \in Seq(Nat) /\ Len(e) = Len(lens) /\ Len(lens) \in Nat
      /\ DOMAIN lens = 1 .. Len(lens) /\ \A b \in 1 .. Len(lens) : lens[b] \in Nat /\ e[b] \in Nat
  BY EncodingOfAChunk
<1>2. ASSUME NEW b \in 1 .. Len(lens) PROVE Total(e, 1 .. b - 1) \in Nat
  <2>1. b - 1 \in Nat /\ \A i \in 1 .. b - 1 : e[i] \in Nat
    BY <1>1
  <2> DEFINE k == b - 1
  <2> HIDE DEF k
  <2>2. IsFiniteSet(1 .. k)
    BY <2>1, IntervalsAreFinite DEF k
  <2>3. Total(e, 1 .. k) \in Nat
    BY <2>1, <2>2, TotalIsSize DEF k
  <2> QED
    BY <2>3 DEF k
<1> DEFINE offset == [b \in 1 .. Len(lens) |-> IF e[b] = 0 THEN 0 ELSE Total(e, 1 .. b - 1)]
           made == BlocksBehind(base, c, lens, e)
<1>3. \A b \in 1 .. Len(lens) : offset[b] \in Nat /\ (e[b] # 0 => offset[b] = Total(e, 1 .. b - 1))
  BY <1>2
<1>4. \A b \in 1 .. Len(lens) :
        EncodedBlocks(c, lens, e)[b] =
          [id |-> <<c, b>>, len |-> lens[b], enc |-> e[b], off |-> offset[b]]
  BY <1>1 DEF EncodedBlocks
<1>5. made = [b \in 1 .. Len(lens) |-> [EncodedBlocks(c, lens, e)[b] EXCEPT !.off = @ + base]]
  BY DEF BlocksBehind
<1> HIDE DEF offset, made
<1>6. ASSUME NEW b \in 1 .. Len(lens)
      PROVE  made[b] = [id |-> <<c, b>>, len |-> lens[b], enc |-> e[b], off |-> offset[b] + base]
  <2>1. made[b] = [EncodedBlocks(c, lens, e)[b] EXCEPT !.off = @ + base]
    BY <1>5
  <2>2. /\ EncodedBlocks(c, lens, e)[b] =
             [id |-> <<c, b>>, len |-> lens[b], enc |-> e[b], off |-> offset[b]]
        /\ offset[b] \in Nat
    BY <1>3, <1>4
  <2>3. made[b] = [[id |-> <<c, b>>, len |-> lens[b], enc |-> e[b], off |-> offset[b]]
                     EXCEPT !.off = @ + base]
    BY <2>1, <2>2, Zenon
  <2> QED
    BY <2>2, <2>3, MovedBlock
<1>7. ASSUME NEW b \in 1 .. Len(lens) PROVE made[b] \in Block
  <2>1. b \in Nat /\ lens[b] \in Nat /\ e[b] \in Nat /\ offset[b] + base \in Nat
    BY <1>1, <1>3
  <2>2. made[b] = [id |-> <<c, b>>, len |-> lens[b], enc |-> e[b], off |-> offset[b] + base]
    BY <1>6
  <2> QED
    BY <2>1, <2>2 DEF Block
<1>8. made \in Seq(Block) /\ Len(made) = Len(lens)
  BY <1>1, <1>5, <1>7
<1>9. ASSUME NEW b \in 1 .. Len(lens)
      PROVE  /\ made[b].id = <<c, b>> /\ made[b].len = lens[b] /\ made[b].enc = e[b]
             /\ e[b] # 0 => made[b].off = Total(e, 1 .. b - 1) + base
  <2>1. made[b] = [id |-> <<c, b>>, len |-> lens[b], enc |-> e[b], off |-> offset[b] + base]
    BY <1>6
  <2>2. /\ made[b].id = <<c, b>> /\ made[b].len = lens[b] /\ made[b].enc = e[b]
        /\ made[b].off = offset[b] + base
    BY <2>1
  <2> QED
    BY <1>3, <2>2
<1> QED
  BY <1>8, <1>9 DEF made

-----------------------------------------------------------------------------
(* The entry of the first n chunks *)

\* The payload of a chunk of the file starts behind what came before it.
Before(file, en, c) == Total([d \in DOMAIN file |-> Len(EncodedPayload(d, en[d]))], 1 .. c - 1)

\* Every chunk up to n has a result that its encoder may give.
Results(file, en, n) == \A c \in 1 .. n : en[c] \in Encodings(file[c])

\* The payload of the first n chunks ends where that of the next one begins.
LEMMA SequentialLength ==
  ASSUME NEW file \in Seq(Seq(Nat \ {0})), NEW n \in 0 .. Len(file), NEW en, Results(file, en, n)
  PROVE  /\ SequentialPayload(file, en, n) \in Seq(Token)
         /\ Len(SequentialPayload(file, en, n)) = Before(file, en, n + 1)
<1> DEFINE F == [c \in 1 .. n |-> EncodedPayload(c, en[c])]
           L == [d \in DOMAIN file |-> Len(EncodedPayload(d, en[d]))]
<1>1. n \in Nat /\ DOMAIN file = 1 .. Len(file) /\ n + 1 - 1 = n
  OBVIOUS
<1>2. ASSUME NEW c \in 1 .. n PROVE EncodedPayload(c, en[c]) \in Seq(Token)
  <2>1. c \in Nat /\ file[c] \in Seq(Nat \ {0}) /\ en[c] \in Encodings(file[c])
    BY DEF Results
  <2> QED
    BY <2>1, EncodingOfAChunk, PayloadOfAChunk
<1>3. /\ F \in [1 .. n -> Seq(Token)] /\ F \in Seq(Seq(Token))
      /\ \A c \in 1 .. n : L[c] = Len(F[c])
  BY <1>1, <1>2
<1> HIDE DEF F, L
<1>4. FlattenSeq(F) \in Seq(Token) /\ Len(FlattenSeq(F)) = Total(L, 1 .. n)
  BY <1>1, <1>3, FlattenType, FlattenLength
<1> QED
  BY <1>1, <1>4 DEF SequentialPayload, Before, F, L

\* The entry depends on the results of its own chunks only.
LEMMA SequentialSame ==
  ASSUME NEW file \in Seq(Seq(Nat \ {0})), NEW n \in 0 .. Len(file),
         NEW en, NEW other, Results(file, en, n), \A c \in 1 .. n : other[c] = en[c]
  PROVE  /\ SequentialBlocks(file, other, n) = SequentialBlocks(file, en, n)
         /\ SequentialPayload(file, other, n) = SequentialPayload(file, en, n)
<1>1. n \in Nat /\ DOMAIN file = 1 .. Len(file) /\ \A c \in 1 .. n : file[c] \in Seq(Nat \ {0})
  OBVIOUS
<1>2. \A c \in 1 .. n : EncodedPayload(c, other[c]) = EncodedPayload(c, en[c])
  OBVIOUS
<1>3. SequentialPayload(file, other, n) = SequentialPayload(file, en, n)
  BY <1>2 DEF SequentialPayload
<1>4. ASSUME NEW c \in 1 .. n PROVE Before(file, other, c) = Before(file, en, c)
  <2> DEFINE k == c - 1
             f == [d \in DOMAIN file |-> Len(EncodedPayload(d, en[d]))]
             g == [d \in DOMAIN file |-> Len(EncodedPayload(d, other[d]))]
  <2>1. k \in Nat /\ \A d \in 1 .. k : d \in 1 .. n /\ d \in DOMAIN file
    BY <1>1
  <2>2. ASSUME NEW d \in 1 .. k PROVE f[d] \in Nat /\ g[d] = f[d]
    <3>1. d \in Nat /\ d \in 1 .. n /\ d \in DOMAIN file /\ en[d] \in Seq(Nat)
      <4>1. d \in 1 .. n /\ d \in DOMAIN file
        BY <2>1
      <4>2. file[d] \in Seq(Nat \ {0}) /\ en[d] \in Encodings(file[d])
        BY <1>1, <4>1 DEF Results
      <4> QED
        BY <4>1, <4>2, EncodingOfAChunk
    <3>2. Len(EncodedPayload(d, en[d])) \in Nat
      BY <3>1, PayloadOfAChunk
    <3> QED
      BY <1>2, <3>1, <3>2
  <2> HIDE DEF k, f, g
  <2>3. Total(f, 1 .. k) = Total(g, 1 .. k)
    BY <2>1, <2>2, TotalSame
  <2> QED
    BY <2>3 DEF Before, k, f, g
<1>5. SequentialBlocks(file, other, n) = SequentialBlocks(file, en, n)
  <2> DEFINE Chunk(x, c) ==
               LET base == Total([d \in DOMAIN file |-> Len(EncodedPayload(d, x[d]))], 1 .. c - 1)
               IN  [b \in 1 .. Len(file[c]) |->
                      [EncodedBlocks(c, file[c], x[c])[b] EXCEPT !.off = @ + base]]
  <2>1. \A c \in 1 .. n :
          Chunk(other, c) = BlocksBehind(Before(file, other, c), c, file[c], other[c])
    BY DEF BlocksBehind, Before
  <2>2. \A c \in 1 .. n : Chunk(en, c) = BlocksBehind(Before(file, en, c), c, file[c], en[c])
    BY DEF BlocksBehind, Before
  <2>3. \A c \in 1 .. n : Chunk(other, c) = Chunk(en, c)
    <3> HIDE DEF Chunk
    <3> QED
      BY <1>4, <2>1, <2>2
  <2>4. /\ SequentialBlocks(file, other, n) = FlattenSeq([c \in 1 .. n |-> Chunk(other, c)])
        /\ SequentialBlocks(file, en, n) = FlattenSeq([c \in 1 .. n |-> Chunk(en, c)])
    BY DEF SequentialBlocks
  <2> HIDE DEF Chunk
  <2> QED
    BY <2>3, <2>4
<1> QED
  BY <1>3, <1>5

\* The entry of one more chunk: what write_one_encoded_chunk appends.
LEMMA SequentialMore ==
  ASSUME NEW file \in Seq(Seq(Nat \ {0})), NEW n \in Nat, n + 1 <= Len(file),
         NEW en, Results(file, en, n + 1)
  PROVE  /\ SequentialBlocks(file, en, n + 1) =
              SequentialBlocks(file, en, n)
                \o BlocksBehind(Len(SequentialPayload(file, en, n)), n + 1, file[n + 1], en[n + 1])
         /\ SequentialPayload(file, en, n + 1) =
              SequentialPayload(file, en, n) \o EncodedPayload(n + 1, en[n + 1])
         /\ SequentialContent(file, n + 1) =
              SequentialContent(file, n) \o Content(n + 1, file[n + 1])
         /\ SequentialBlocks(file, en, n) \in Seq(Block)
         /\ SequentialContent(file, n) \in Seq(Nat \X Nat)
<1> DEFINE Results1(c) == /\ file[c] \in Seq(Nat \ {0})
                          /\ en[c] \in Encodings(file[c]) /\ en[c] \in Seq(Nat)
<1>1. \A c \in 1 .. n + 1 : c \in Nat /\ Results1(c)
  <2> SUFFICES ASSUME NEW c \in 1 .. n + 1 PROVE c \in Nat /\ Results1(c)
    OBVIOUS
  <2>1. c \in Nat /\ c \in 1 .. Len(file) /\ en[c] \in Encodings(file[c])
    BY DEF Results
  <2>2. file[c] \in Seq(Nat \ {0})
    BY <2>1
  <2> QED
    BY <2>1, <2>2, EncodingOfAChunk
<1>2. Results(file, en, n) /\ n \in 0 .. Len(file) /\ n + 1 - 1 = n
  BY DEF Results
<1>3. SequentialPayload(file, en, n + 1) =
        SequentialPayload(file, en, n) \o EncodedPayload(n + 1, en[n + 1])
  <2> DEFINE F == [c \in 1 .. n + 1 |-> EncodedPayload(c, en[c])]
  <2>1. F \in [1 .. n + 1 -> Seq(Token)]
    BY <1>1, PayloadOfAChunk
  <2>2. [c \in 1 .. n |-> F[c]] = [c \in 1 .. n |-> EncodedPayload(c, en[c])]
    OBVIOUS
  <2>3. F[n + 1] = EncodedPayload(n + 1, en[n + 1])
    OBVIOUS
  <2>4. F = [c \in 1 .. n + 1 |-> EncodedPayload(c, en[c])]
    OBVIOUS
  <2> HIDE DEF F
  <2>5. FlattenSeq(F) = FlattenSeq([c \in 1 .. n |-> F[c]]) \o F[n + 1]
    BY <2>1, FlattenMore
  <2> QED
    BY <2>2, <2>3, <2>4, <2>5 DEF SequentialPayload
<1>4. /\ SequentialContent(file, n + 1) = SequentialContent(file, n) \o Content(n + 1, file[n + 1])
      /\ SequentialContent(file, n) \in Seq(Nat \X Nat)
  <2> DEFINE F == [c \in 1 .. n + 1 |-> Content(c, file[c])]
  <2>1. ASSUME NEW c \in 1 .. n + 1 PROVE Content(c, file[c]) \in Seq(Nat \X Nat)
    <3>1. Len(file[c]) \in Nat /\ \A b \in 1 .. Len(file[c]) : <<c, b>> \in Nat \X Nat
      BY <1>1
    <3> QED
      BY <3>1 DEF Content
  <2>2. F \in [1 .. n + 1 -> Seq(Nat \X Nat)]
    BY <2>1
  <2>3. [c \in 1 .. n |-> F[c]] = [c \in 1 .. n |-> Content(c, file[c])]
    OBVIOUS
  <2>4. F[n + 1] = Content(n + 1, file[n + 1])
    OBVIOUS
  <2>5. F = [c \in 1 .. n + 1 |-> Content(c, file[c])]
    OBVIOUS
  <2> HIDE DEF F
  <2>6. /\ FlattenSeq([c \in 1 .. n |-> F[c]]) \in Seq(Nat \X Nat)
        /\ FlattenSeq(F) = FlattenSeq([c \in 1 .. n |-> F[c]]) \o F[n + 1]
    BY <2>2, FlattenMore
  <2> QED
    BY <2>3, <2>4, <2>5, <2>6 DEF SequentialContent
<1>5. /\ SequentialBlocks(file, en, n + 1) =
           SequentialBlocks(file, en, n)
             \o BlocksBehind(Before(file, en, n + 1), n + 1, file[n + 1], en[n + 1])
      /\ SequentialBlocks(file, en, n) \in Seq(Block)
  <2> DEFINE Chunk(c) ==
               LET base == Total([d \in DOMAIN file |-> Len(EncodedPayload(d, en[d]))], 1 .. c - 1)
               IN  [b \in 1 .. Len(file[c]) |->
                      [EncodedBlocks(c, file[c], en[c])[b] EXCEPT !.off = @ + base]]
  <2>1. \A c \in 1 .. n + 1 : Chunk(c) = BlocksBehind(Before(file, en, c), c, file[c], en[c])
    BY DEF BlocksBehind, Before
  <2>2. /\ SequentialBlocks(file, en, n + 1) = FlattenSeq([c \in 1 .. n + 1 |-> Chunk(c)])
        /\ SequentialBlocks(file, en, n) = FlattenSeq([c \in 1 .. n |-> Chunk(c)])
    BY DEF SequentialBlocks
  <2> HIDE DEF Chunk
  <2>3. ASSUME NEW c \in 1 .. n + 1 PROVE Before(file, en, c) \in Nat
    <3> DEFINE m == c - 1
    <3>1. m \in 0 .. Len(file) /\ Results(file, en, m) /\ m + 1 = c
      <4>1. m \in 0 .. Len(file) /\ m + 1 = c /\ \A d \in 1 .. m : d \in 1 .. n + 1
        OBVIOUS
      <4> QED
        BY <4>1 DEF Results
    <3> HIDE DEF m
    <3>2. Before(file, en, m + 1) = Len(SequentialPayload(file, en, m))
          /\ SequentialPayload(file, en, m) \in Seq(Token)
      BY <3>1, SequentialLength
    <3>3. Before(file, en, m + 1) \in Nat
      BY <3>2
    <3> QED
      BY <3>1, <3>3
  <2>4. \A c \in 1 .. n + 1 : Chunk(c) \in Seq(Block)
    <3> SUFFICES ASSUME NEW c \in 1 .. n + 1 PROVE Chunk(c) \in Seq(Block)
      OBVIOUS
    <3>1. BlocksBehind(Before(file, en, c), c, file[c], en[c]) \in Seq(Block)
      BY <1>1, <2>3, BlocksOfAChunk
    <3> QED
      BY <2>1, <3>1
  <2> DEFINE F == [c \in 1 .. n + 1 |-> Chunk(c)]
  <2>5. F \in [1 .. n + 1 -> Seq(Block)]
    BY <2>4
  <2>6. [c \in 1 .. n |-> F[c]] = [c \in 1 .. n |-> Chunk(c)] /\ F[n + 1] = Chunk(n + 1)
    OBVIOUS
  <2>7. F = [c \in 1 .. n + 1 |-> Chunk(c)]
    OBVIOUS
  <2> HIDE DEF F
  <2>8. /\ FlattenSeq([c \in 1 .. n |-> F[c]]) \in Seq(Block)
        /\ FlattenSeq(F) = FlattenSeq([c \in 1 .. n |-> F[c]]) \o F[n + 1]
    BY <2>5, FlattenMore
  <2>9. Chunk(n + 1) = BlocksBehind(Before(file, en, n + 1), n + 1, file[n + 1], en[n + 1])
    BY <2>1
  <2> QED
    BY <2>2, <2>6, <2>7, <2>8, <2>9
<1>6. Len(SequentialPayload(file, en, n)) = Before(file, en, n + 1)
  BY <1>2, SequentialLength
<1> QED
  BY <1>3, <1>4, <1>5, <1>6

-----------------------------------------------------------------------------
(* Dense entries *)

\* The members of two sequences in a row.
LEMMA Concat ==
  ASSUME NEW T, NEW s \in Seq(T), NEW t \in Seq(T)
  PROVE  /\ s \o t \in Seq(T) /\ Len(s) \in Nat /\ Len(t) \in Nat
         /\ Len(s \o t) = Len(s) + Len(t)
         /\ \A i \in 1 .. Len(s) : (s \o t)[i] = s[i]
         /\ \A i \in 1 .. Len(t) : (s \o t)[Len(s) + i] = t[i]
  BY ConcatProperties

\* A sequence with those members is the two in a row.
LEMMA ConcatUnique ==
  ASSUME NEW T, NEW p \in Seq(T), NEW q \in Seq(T), NEW w \in Seq(T),
         Len(w) = Len(p) + Len(q),
         \A i \in 1 .. Len(p) : w[i] = p[i],
         \A i \in 1 .. Len(q) : w[Len(p) + i] = q[i]
  PROVE  w = p \o q
<1> DEFINE r == p \o q
           m == Len(p)
           k == Len(q)
<1>1. /\ r \in Seq(T) /\ m \in Nat /\ k \in Nat /\ Len(r) = m + k
      /\ \A i \in 1 .. m : r[i] = p[i]
      /\ \A i \in 1 .. k : r[m + i] = q[i]
  BY Concat
<1>2. /\ Len(w) = m + k
      /\ \A i \in 1 .. m : w[i] = p[i]
      /\ \A i \in 1 .. k : w[m + i] = q[i]
  OBVIOUS
<1> HIDE DEF r, m, k
<1>3. ASSUME NEW i \in 1 .. m + k PROVE w[i] = r[i]
  <2>1. CASE i \in 1 .. m
    BY <1>1, <1>2, <2>1
  <2>2. CASE i \notin 1 .. m
    <3> DEFINE d == i - m
    <3>1. d \in 1 .. k /\ m + d = i
      BY <1>1, <2>2
    <3> HIDE DEF d
    <3>2. w[m + d] = r[m + d]
      BY <1>1, <1>2, <3>1
    <3> QED
      BY <3>1, <3>2
  <2> QED
    BY <2>1, <2>2
<1>4. w = r
  BY <1>1, <1>2, <1>3, SeqEqual
<1> QED
  BY <1>4 DEF r

\* The decoded and the encoded lengths of blocks.
Lengths(t) == [b \in 1 .. Len(t) |-> t[b].len]
EncodedLengths(t) == [b \in 1 .. Len(t) |-> t[b].enc]

\* Descriptors and payload bytes of an entry whose decoded size is `size`.
Valid(t, bytes, size) == ValidEntry([blocks |-> t, payload_size |-> bytes, size |-> size])

\* What a reader checks, in terms of the two sequences of lengths.
LEMMA ValidByLengths ==
  ASSUME NEW t \in Seq(Block), NEW bytes, NEW size
  PROVE  Valid(t, bytes, size) <=>
           /\ \A b \in 1 .. Len(t) :
                /\ Lengths(t)[b] > 0 /\ EncodedLengths(t)[b] <= Lengths(t)[b]
                /\ EncodedLengths(t)[b] > 0 => t[b].off = Total(EncodedLengths(t), 1 .. b - 1)
           /\ Total(Lengths(t), 1 .. Len(t)) = size
           /\ Total(EncodedLengths(t), 1 .. Len(t)) = bytes
<1> DEFINE len == Lengths(t)
           n == EncodedLengths(t)
           made == [blocks |-> t, payload_size |-> bytes, size |-> size]
<1>1. DOMAIN t = 1 .. Len(t)
  OBVIOUS
<1>2. /\ DOMAIN len = 1 .. Len(t) /\ DOMAIN n = 1 .. Len(t)
      /\ \A b \in 1 .. Len(t) : len[b] = t[b].len /\ n[b] = t[b].enc
  BY DEF Lengths, EncodedLengths
<1>3. made.blocks = t /\ made.payload_size = bytes /\ made.size = size
  OBVIOUS
<1>4. /\ n = [b \in DOMAIN made.blocks |-> made.blocks[b].enc]
      /\ len = [b \in DOMAIN made.blocks |-> made.blocks[b].len]
  BY <1>1, <1>3 DEF Lengths, EncodedLengths
<1> HIDE DEF made, len, n
<1>5. ValidEntry(made) <=>
        /\ \A b \in DOMAIN made.blocks :
             /\ len[b] > 0 /\ n[b] <= len[b]
             /\ HasPayload(made.blocks[b]) => made.blocks[b].off = Total(n, 1 .. b - 1)
        /\ Total(len, DOMAIN len) = made.size
        /\ Total(n, DOMAIN n) = made.payload_size
  BY <1>4, Zenon DEF ValidEntry
<1>6. ValidEntry(made) <=>
        /\ \A b \in 1 .. Len(t) :
             /\ len[b] > 0 /\ n[b] <= len[b]
             /\ n[b] > 0 => t[b].off = Total(n, 1 .. b - 1)
        /\ Total(len, 1 .. Len(t)) = size
        /\ Total(n, 1 .. Len(t)) = bytes
  BY <1>1, <1>2, <1>3, <1>5 DEF HasPayload
<1> QED
  BY <1>6 DEF Valid, made, len, n

\* The lengths of blocks in a row are their lengths in a row.
LEMMA LengthsConcat ==
  ASSUME NEW t \in Seq(Block), NEW u \in Seq(Block)
  PROVE  /\ Lengths(t) \in Seq(Nat) /\ Len(Lengths(t)) = Len(t)
         /\ EncodedLengths(t) \in Seq(Nat) /\ Len(EncodedLengths(t)) = Len(t)
         /\ Lengths(t \o u) = Lengths(t) \o Lengths(u)
         /\ EncodedLengths(t \o u) = EncodedLengths(t) \o EncodedLengths(u)
<1>1. ASSUME NEW s \in Seq(Block)
      PROVE  /\ Len(s) \in Nat
             /\ Lengths(s) \in Seq(Nat) /\ Len(Lengths(s)) = Len(s)
             /\ EncodedLengths(s) \in Seq(Nat) /\ Len(EncodedLengths(s)) = Len(s)
             /\ \A b \in 1 .. Len(s) : Lengths(s)[b] = s[b].len /\ EncodedLengths(s)[b] = s[b].enc
  <2>1. Len(s) \in Nat /\ \A b \in 1 .. Len(s) : s[b] \in Block
    OBVIOUS
  <2>2. \A b \in 1 .. Len(s) : s[b].len \in Nat /\ s[b].enc \in Nat
    BY <2>1 DEF Block
  <2> QED
    BY <2>1, <2>2 DEF Lengths, EncodedLengths
<1> DEFINE v == t \o u
<1>2. /\ v \in Seq(Block) /\ Len(t) \in Nat /\ Len(u) \in Nat /\ Len(v) = Len(t) + Len(u)
      /\ \A b \in 1 .. Len(t) : v[b] = t[b]
      /\ \A b \in 1 .. Len(u) : v[Len(t) + b] = u[b]
  BY Concat
<1> HIDE DEF v
<1>3. ASSUME NEW b \in 1 .. Len(t)
      PROVE  Lengths(v)[b] = Lengths(t)[b] /\ EncodedLengths(v)[b] = EncodedLengths(t)[b]
  <2>1. b \in 1 .. Len(v) /\ v[b] = t[b]
    BY <1>2
  <2>2. Lengths(v)[b] = v[b].len /\ EncodedLengths(v)[b] = v[b].enc
    BY <1>1, <1>2, <2>1
  <2>3. Lengths(t)[b] = t[b].len /\ EncodedLengths(t)[b] = t[b].enc
    BY <1>1
  <2> QED
    BY <2>1, <2>2, <2>3
<1>4. ASSUME NEW b \in 1 .. Len(u)
      PROVE  /\ Lengths(v)[Len(t) + b] = Lengths(u)[b]
             /\ EncodedLengths(v)[Len(t) + b] = EncodedLengths(u)[b]
  <2>1. Len(t) + b \in 1 .. Len(v) /\ v[Len(t) + b] = u[b]
    BY <1>2
  <2>2. /\ Lengths(v)[Len(t) + b] = v[Len(t) + b].len
        /\ EncodedLengths(v)[Len(t) + b] = v[Len(t) + b].enc
    BY <1>1, <1>2, <2>1
  <2>3. Lengths(u)[b] = u[b].len /\ EncodedLengths(u)[b] = u[b].enc
    BY <1>1
  <2> QED
    BY <2>1, <2>2, <2>3
<1>5. Lengths(v) = Lengths(t) \o Lengths(u)
  <2> DEFINE p == Lengths(t)
             q == Lengths(u)
             w == Lengths(v)
  <2>1. /\ p \in Seq(Nat) /\ q \in Seq(Nat) /\ w \in Seq(Nat)
        /\ Len(p) = Len(t) /\ Len(q) = Len(u) /\ Len(w) = Len(t) + Len(u)
        /\ \A b \in 1 .. Len(t) : w[b] = p[b]
        /\ \A b \in 1 .. Len(u) : w[Len(t) + b] = q[b]
    BY <1>1, <1>2, <1>3, <1>4
  <2> HIDE DEF p, q, w
  <2>2. Len(w) = Len(p) + Len(q)
    BY <2>1
  <2>3. \A b \in 1 .. Len(p) : w[b] = p[b]
    BY <2>1
  <2>4. \A b \in 1 .. Len(q) : w[Len(p) + b] = q[b]
    BY <2>1
  <2>5. p \in Seq(Nat) /\ q \in Seq(Nat) /\ w \in Seq(Nat)
    BY <2>1
  <2>6. w = p \o q
    BY <2>2, <2>3, <2>4, <2>5, ConcatUnique
  <2> QED
    BY <2>6 DEF p, q, w
<1>6. EncodedLengths(v) = EncodedLengths(t) \o EncodedLengths(u)
  <2> DEFINE p == EncodedLengths(t)
             q == EncodedLengths(u)
             w == EncodedLengths(v)
  <2>1. /\ p \in Seq(Nat) /\ q \in Seq(Nat) /\ w \in Seq(Nat)
        /\ Len(p) = Len(t) /\ Len(q) = Len(u) /\ Len(w) = Len(t) + Len(u)
        /\ \A b \in 1 .. Len(t) : w[b] = p[b]
        /\ \A b \in 1 .. Len(u) : w[Len(t) + b] = q[b]
    BY <1>1, <1>2, <1>3, <1>4
  <2> HIDE DEF p, q, w
  <2>2. Len(w) = Len(p) + Len(q)
    BY <2>1
  <2>3. \A b \in 1 .. Len(p) : w[b] = p[b]
    BY <2>1
  <2>4. \A b \in 1 .. Len(q) : w[Len(p) + b] = q[b]
    BY <2>1
  <2>5. p \in Seq(Nat) /\ q \in Seq(Nat) /\ w \in Seq(Nat)
    BY <2>1
  <2>6. w = p \o q
    BY <2>2, <2>3, <2>4, <2>5, ConcatUnique
  <2> QED
    BY <2>6 DEF p, q, w
<1> QED
  BY <1>1, <1>5, <1>6 DEF v

\* An entry stays dense when a chunk is appended behind its payload.
LEMMA AppendKeepsValid ==
  ASSUME NEW t \in Seq(Block), NEW bytes \in Nat, NEW size, Valid(t, bytes, size),
         NEW c \in Nat, NEW lens \in Seq(Nat \ {0}), NEW e \in Encodings(lens)
  PROVE  Valid(t \o BlocksBehind(bytes, c, lens, e), bytes + Len(EncodedPayload(c, e)),
               size + Total(lens, 1 .. Len(lens)))
<1> DEFINE u == BlocksBehind(bytes, c, lens, e)
           v == t \o u
           m == Len(t)
           k == Len(lens)
           lenT == Lengths(t)
           nT == EncodedLengths(t)
           lenV == Lengths(v)
           nV == EncodedLengths(v)
<1>1. /\ e \in Seq(Nat) /\ Len(e) = k /\ lens \in Seq(Nat) /\ k \in Nat
      /\ \A b \in 1 .. k : lens[b] \in Nat /\ lens[b] > 0 /\ e[b] \in Nat /\ e[b] <= lens[b]
  BY EncodingOfAChunk
<1>2. /\ u \in Seq(Block) /\ Len(u) = k
      /\ \A b \in 1 .. k : /\ u[b].len = lens[b] /\ u[b].enc = e[b]
                           /\ e[b] # 0 => u[b].off = Total(e, 1 .. b - 1) + bytes
  <2>1. /\ BlocksBehind(bytes, c, lens, e) \in Seq(Block)
        /\ Len(BlocksBehind(bytes, c, lens, e)) = Len(lens)
        /\ \A b \in 1 .. Len(lens) :
             LET block == BlocksBehind(bytes, c, lens, e)[b]
             IN  /\ block.id = <<c, b>> /\ block.len = lens[b] /\ block.enc = e[b]
                 /\ e[b] # 0 => block.off = Total(e, 1 .. b - 1) + bytes
    BY BlocksOfAChunk
  <2> QED
    BY <2>1
<1> HIDE DEF u
<1>3. Lengths(u) = lens /\ EncodedLengths(u) = e
  <2>1. lens = [b \in 1 .. k |-> lens[b]] /\ e = [b \in 1 .. k |-> e[b]]
    BY <1>1
  <2> QED
    BY <1>2, <2>1 DEF Lengths, EncodedLengths
<1>4. /\ v \in Seq(Block) /\ m \in Nat /\ Len(v) = m + k
      /\ \A b \in 1 .. m : v[b] = t[b]
      /\ \A b \in 1 .. k : v[m + b] = u[b]
  <2>1. u \in Seq(Block)
    BY <1>2
  <2>2. /\ v \in Seq(Block) /\ Len(t) \in Nat /\ Len(v) = Len(t) + Len(u)
        /\ \A b \in 1 .. Len(t) : v[b] = t[b]
        /\ \A b \in 1 .. Len(u) : v[Len(t) + b] = u[b]
    BY <2>1, Concat
  <2>3. Len(u) = k
    BY <1>2
  <2> HIDE DEF k, v
  <2> QED
    BY <2>2, <2>3
<1>5. /\ lenT \in Seq(Nat) /\ Len(lenT) = m /\ nT \in Seq(Nat) /\ Len(nT) = m
      /\ lenV = lenT \o lens /\ nV = nT \o e
  BY <1>2, <1>3, LengthsConcat
<1>6. /\ \A b \in 1 .. m : /\ lenT[b] > 0 /\ nT[b] <= lenT[b]
                           /\ nT[b] > 0 => t[b].off = Total(nT, 1 .. b - 1)
      /\ Total(lenT, 1 .. m) = size /\ Total(nT, 1 .. m) = bytes
  BY ValidByLengths
<1>7. k \in 0 .. Len(lens) /\ Len(lens) = k
  BY <1>1
<1>8. Total(e, 1 .. k) = Len(EncodedPayload(c, e))
  <2>1. Len(EncodedPayload(c, e)) = Total(e, 1 .. Len(e))
    BY <1>1, PayloadOfAChunk
  <2> QED
    BY <1>1, <2>1
<1> HIDE DEF v, m, k, lenT, nT, lenV, nV
<1>9. \A j \in 0 .. k : /\ Total(lenV, 1 .. m + j) = size + Total(lens, 1 .. j)
                        /\ Total(nV, 1 .. m + j) = bytes + Total(e, 1 .. j)
                        /\ Total(e, 1 .. j) \in Nat
  <2> SUFFICES ASSUME NEW j \in 0 .. k
               PROVE  /\ Total(lenV, 1 .. m + j) = size + Total(lens, 1 .. j)
                      /\ Total(nV, 1 .. m + j) = bytes + Total(e, 1 .. j)
                      /\ Total(e, 1 .. j) \in Nat
    OBVIOUS
  <2>1. j \in 0 .. Len(lens) /\ j \in 0 .. Len(e) /\ j \in Nat
    BY <1>1, <1>7
  <2>2. Total(lenT \o lens, 1 .. Len(lenT) + j) = Total(lenT, 1 .. Len(lenT)) + Total(lens, 1 .. j)
    BY <1>1, <1>5, <2>1, TotalConcat
  <2>3. Total(nT \o e, 1 .. Len(nT) + j) = Total(nT, 1 .. Len(nT)) + Total(e, 1 .. j)
    BY <1>1, <1>5, <2>1, TotalConcat
  <2>4. Total(e, 1 .. j) \in Nat
    <3>1. \A i \in 1 .. j : e[i] \in Nat
      BY <1>1
    <3>2. IsFiniteSet(1 .. j)
      BY <2>1, IntervalsAreFinite
    <3> QED
      BY <3>1, <3>2, TotalIsSize
  <2>5. Total(lenV, 1 .. m + j) = size + Total(lens, 1 .. j)
    BY <1>5, <1>6, <2>2
  <2>6. Total(nV, 1 .. m + j) = bytes + Total(e, 1 .. j)
    BY <1>5, <1>6, <2>3
  <2> QED
    BY <2>4, <2>5, <2>6
<1>10. /\ \A b \in 1 .. m : lenV[b] = lenT[b] /\ nV[b] = nT[b] /\ nT[b] \in Nat
       /\ \A b \in 1 .. k : lenV[m + b] = lens[b] /\ nV[m + b] = e[b]
  <2>1. /\ \A b \in 1 .. m : (lenT \o lens)[b] = lenT[b]
        /\ \A b \in 1 .. k : (lenT \o lens)[m + b] = lens[b]
    <3>1. /\ \A b \in 1 .. Len(lenT) : (lenT \o lens)[b] = lenT[b]
          /\ \A b \in 1 .. Len(lens) : (lenT \o lens)[Len(lenT) + b] = lens[b]
      <4>1. lenT \in Seq(Nat) /\ lens \in Seq(Nat)
        BY <1>1, <1>5
      <4> QED
        BY <4>1, Concat
    <3> QED
      BY <1>5, <1>7, <3>1
  <2>2. /\ \A b \in 1 .. m : (nT \o e)[b] = nT[b]
        /\ \A b \in 1 .. k : (nT \o e)[m + b] = e[b]
    <3>1. /\ \A b \in 1 .. Len(nT) : (nT \o e)[b] = nT[b]
          /\ \A b \in 1 .. Len(e) : (nT \o e)[Len(nT) + b] = e[b]
      <4>1. nT \in Seq(Nat) /\ e \in Seq(Nat)
        BY <1>1, <1>5
      <4> QED
        BY <4>1, Concat
    <3> QED
      BY <1>1, <1>5, <3>1
  <2>3. \A b \in 1 .. m : nT[b] \in Nat
    BY <1>5
  <2> QED
    BY <1>5, <2>1, <2>2, <2>3
<1>11. ASSUME NEW b \in 1 .. m
       PROVE  /\ lenV[b] > 0 /\ nV[b] <= lenV[b]
              /\ nV[b] > 0 => v[b].off = Total(nV, 1 .. b - 1)
  <2> DEFINE j == b - 1
  <2>1. j \in Nat /\ \A i \in 1 .. j : i \in 1 .. m
    BY <1>4
  <2> HIDE DEF j
  <2>2. \A i \in 1 .. j : nT[i] \in Nat /\ nV[i] = nT[i]
    BY <1>10, <2>1
  <2>3. Total(nT, 1 .. j) = Total(nV, 1 .. j)
    BY <2>1, <2>2, TotalSame
  <2>4. nT[b] > 0 => t[b].off = Total(nT, 1 .. j)
    BY <1>6 DEF j
  <2>5. nV[b] > 0 => v[b].off = Total(nV, 1 .. j)
    BY <1>4, <1>10, <2>3, <2>4
  <2>6. lenV[b] > 0 /\ nV[b] <= lenV[b]
    BY <1>6, <1>10
  <2> QED
    BY <2>5, <2>6 DEF j
<1>12. ASSUME NEW b \in 1 .. m + k, NEW d \in 1 .. k, b = m + d
       PROVE  /\ lenV[b] > 0 /\ nV[b] <= lenV[b]
              /\ nV[b] > 0 => v[b].off = Total(nV, 1 .. b - 1)
  <2> DEFINE j == d - 1
  <2>1. j \in 0 .. k /\ b - 1 = m + j
    BY <1>1, <1>4, <1>12
  <2>2. e[d] # 0 => u[d].off = Total(e, 1 .. j) + bytes
    BY <1>2
  <2> HIDE DEF j
  <2>3. Total(nV, 1 .. b - 1) = bytes + Total(e, 1 .. j) /\ Total(e, 1 .. j) \in Nat
    BY <1>9, <2>1
  <2>4. /\ lens[d] \in Nat /\ lens[d] > 0 /\ e[d] \in Nat /\ e[d] <= lens[d]
        /\ lenV[b] = lens[d] /\ nV[b] = e[d] /\ v[b] = u[d]
    BY <1>1, <1>4, <1>10, <1>12
  <2> QED
    BY <2>2, <2>3, <2>4
<1>13. ASSUME NEW b \in 1 .. m + k
       PROVE  /\ lenV[b] > 0 /\ nV[b] <= lenV[b]
              /\ nV[b] > 0 => v[b].off = Total(nV, 1 .. b - 1)
  <2>1. CASE b \in 1 .. m
    BY <1>11, <2>1
  <2>2. CASE b \notin 1 .. m
    <3>1. b - m \in 1 .. k /\ b = m + (b - m)
      BY <1>1, <1>4, <2>2
    <3>2. PICK d \in 1 .. k : b = m + d
      BY <3>1
    <3> QED
      BY <1>12, <3>2
  <2> QED
    BY <2>1, <2>2
<1>14. /\ Total(lenV, 1 .. m + k) = size + Total(lens, 1 .. k)
       /\ Total(nV, 1 .. m + k) = bytes + Len(EncodedPayload(c, e))
  <2>1. k \in 0 .. k
    BY <1>1
  <2> QED
    BY <1>8, <1>9, <2>1
<1>15. Valid(v, bytes + Len(EncodedPayload(c, e)), size + Total(lens, 1 .. k))
  <2> DEFINE b2 == bytes + Len(EncodedPayload(c, e))
             s2 == size + Total(lens, 1 .. k)
  <2>1. /\ \A b \in 1 .. Len(v) :
             /\ lenV[b] > 0 /\ nV[b] <= lenV[b]
             /\ nV[b] > 0 => v[b].off = Total(nV, 1 .. b - 1)
        /\ Total(lenV, 1 .. Len(v)) = s2 /\ Total(nV, 1 .. Len(v)) = b2
    BY <1>4, <1>13, <1>14
  <2> HIDE DEF b2, s2
  <2>2. Valid(v, b2, s2)
    BY <1>4, <2>1, ValidByLengths DEF lenV, nV
  <2> QED
    BY <2>2 DEF b2, s2
<1> QED
  BY <1>15 DEF v, u, k

-----------------------------------------------------------------------------
(* The queue and its threads *)

Steps == {"read", "publish", "write", "drain", "unwind", "done", "failed"}

MainTypes ==
  /\ pc \in Steps /\ read \in 0 .. Len(File)
  /\ pending \in Seq(Chunks)
  /\ task \in [Chunks -> {"none", "running", "ready", "failed"}]

\* The queue is the chunks read and not yet written, in the order of the file.
QueueInOrder ==
  /\ Len(pending) <= read
  /\ \A k \in 1 .. Len(pending) : pending[k] = read - Len(pending) + k

\* The queue is never longer than Inflight, and shorter before a chunk is read.
QueueBound ==
  /\ Len(pending) <= Inflight
  /\ pc = "read" => Len(pending) < Inflight /\ read < Len(File)

\* A running encoder is in the queue, and the queue is empty at the end.
RunningIsQueued ==
  /\ \A c \in Chunks : task[c] = "running" => \E k \in 1 .. Len(pending) : pending[k] = c
  /\ pc \in {"done", "failed"} => pending = <<>>

Inv == MainTypes /\ QueueInOrder /\ QueueBound /\ RunningIsQueued

\* What the constants give: the number of chunks is a natural number.
LEMMA FileLength == Len(File) \in Nat /\ (File # <<>> => Len(File) > 0)
<1>1. File \in Seq(Seq(Nat \ {0}))
  BY EncodeAssumption DEF EncodeAssumption
<1> QED
  BY <1>1

\* The queue is empty at first.
LEMMA InvInit == Init => Inv
<1> SUFFICES ASSUME Init PROVE Inv
  OBVIOUS
<1> USE FileLength
<1>1. MainTypes
  BY DEF Init, MainTypes, Steps
<1>2. QueueInOrder
  BY DEF Init, QueueInOrder
<1>3. QueueBound
  BY EncodeAssumption DEF Init, QueueBound, EncodeAssumption
<1>4. RunningIsQueued
  BY DEF Init, RunningIsQueued
<1> QED
  BY <1>1, <1>2, <1>3, <1>4 DEF Inv

\* A chunk that is read goes to the back of the queue.
LEMMA ReadStep == Inv /\ ReadChunk => Inv'
<1> SUFFICES ASSUME Inv, ReadChunk PROVE Inv'
  OBVIOUS
<1> USE FileLength DEF Inv
<1>1. /\ read \in Nat /\ read + 1 \in Chunks
      /\ pending' = Append(pending, read + 1) /\ read' = read + 1 /\ pc' = "publish"
      /\ pending \in Seq(Chunks)
  BY DEF ReadChunk, MainTypes, QueueBound, Chunks
<1>2. /\ Len(pending') = Len(pending) + 1 /\ Len(pending) \in Nat
      /\ \A k \in 1 .. Len(pending) : pending'[k] = pending[k]
      /\ pending'[Len(pending) + 1] = read + 1
  BY <1>1
<1>3. MainTypes'
  BY <1>1 DEF ReadChunk, MainTypes, Steps, Chunks
<1>4. QueueInOrder'
  <2>1. ASSUME NEW k \in 1 .. Len(pending')
        PROVE pending'[k] = read' - Len(pending') + k
    <3>1. CASE k = Len(pending) + 1
      <4>1. read' - Len(pending') + k = read + 1
        BY <1>1, <1>2, <3>1
      <4> QED
        BY <1>2, <3>1, <4>1
    <3>2. CASE k \in 1 .. Len(pending)
      <4>1. read' - Len(pending') + k = read - Len(pending) + k
        BY <1>1, <1>2, <3>2
      <4> QED
        BY <1>2, <3>2, <4>1 DEF QueueInOrder
    <3> QED
      BY <1>2, <3>1, <3>2
  <2>2. Len(pending') <= read'
    BY <1>1, <1>2 DEF QueueInOrder
  <2> QED
    BY <2>1, <2>2 DEF QueueInOrder
<1>5. QueueBound'
  <2>1. Inflight \in Nat
    BY EncodeAssumption DEF EncodeAssumption
  <2> QED
    BY <1>1, <1>2, <2>1 DEF ReadChunk, QueueBound
<1>6. RunningIsQueued'
  <2>1. ASSUME NEW c \in Chunks, task'[c] = "running"
        PROVE \E k \in 1 .. Len(pending') : pending'[k] = c
    <3>1. CASE c = read + 1
      BY <1>2, <3>1
    <3>2. CASE c # read + 1
      <4>1. task[c] = "running"
        BY <2>1, <3>2 DEF ReadChunk, MainTypes
      <4> QED
        BY <1>2, <4>1 DEF RunningIsQueued
    <3> QED
      BY <3>1, <3>2
  <2> QED
    BY <1>1, <2>1 DEF RunningIsQueued
<1> QED
  BY <1>3, <1>4, <1>5, <1>6

\* Taking the oldest chunk leaves the others in order, and makes room.
LEMMA PopKeepsOrder ==
  ASSUME Inv, NEW c \in Chunks, OldestReady(c), UNCHANGED <<read, task>>
  PROVE  /\ pending' \in Seq(Chunks) /\ QueueInOrder'
         /\ Len(pending') < Inflight
         /\ \A d \in Chunks : task'[d] = "running" => \E k \in 1 .. Len(pending') : pending'[k] = d
<1> USE FileLength DEF Inv
<1>1. /\ pending \in Seq(Chunks) /\ pending # <<>> /\ pending' = Tail(pending)
      /\ c = pending[1] /\ task[c] = "ready"
  BY DEF OldestReady, MainTypes
<1>2. /\ Len(pending) \in Nat \ {0} /\ pending' \in Seq(Chunks)
      /\ Len(pending') = Len(pending) - 1
      /\ \A k \in 1 .. Len(pending') : pending'[k] = pending[k + 1]
  BY <1>1
<1>3. QueueInOrder'
  BY <1>2 DEF QueueInOrder, MainTypes
<1>4. Len(pending') < Inflight
  BY <1>2, EncodeAssumption DEF QueueBound, EncodeAssumption
<1>5. ASSUME NEW d \in Chunks, task'[d] = "running"
      PROVE \E k \in 1 .. Len(pending') : pending'[k] = d
  <2>1. PICK k \in 1 .. Len(pending) : pending[k] = d
    BY <1>5 DEF RunningIsQueued
  <2>2. k # 1
    BY <1>1, <1>5, <2>1
  <2>3. k - 1 \in 1 .. Len(pending') /\ pending'[k - 1] = d
    BY <1>2, <2>1, <2>2
  <2> QED
    BY <2>3
<1> QED
  BY <1>2, <1>3, <1>4, <1>5

\* Writing the oldest chunk makes room, also when the write fails.
LEMMA WriteStep == Inv /\ (WriteOldest \/ WriteFails) => Inv'
<1> SUFFICES ASSUME Inv, WriteOldest \/ WriteFails PROVE Inv'
  OBVIOUS
<1> USE FileLength
<1>1. PICK c \in Chunks : OldestReady(c) /\ UNCHANGED <<read, task>>
  BY DEF WriteOldest, WriteFails
<1>2. /\ pending' \in Seq(Chunks) /\ QueueInOrder'
      /\ Len(pending') < Inflight
      /\ \A d \in Chunks : task'[d] = "running" => \E k \in 1 .. Len(pending') : pending'[k] = d
  BY <1>1, PopKeepsOrder
<1>3. pc' \in {"read", "drain", "unwind"} /\ (pc' = "read" => read < Len(File))
  BY DEF WriteOldest, WriteFails, AfterWrite, Loop
<1>4. MainTypes'
  BY <1>1, <1>2, <1>3 DEF Inv, MainTypes, Steps
<1>5. QueueBound'
  <2>1. Inflight \in Nat /\ Len(pending') \in Nat
    BY <1>2, EncodeAssumption DEF EncodeAssumption
  <2> QED
    BY <1>1, <1>2, <1>3, <2>1 DEF QueueBound
<1>6. RunningIsQueued'
  BY <1>2, <1>3 DEF RunningIsQueued
<1> QED
  BY <1>2, <1>4, <1>5, <1>6 DEF Inv

\* The main thread steps that do not touch the queue.
LEMMA ControlStep ==
  Inv /\ (ReadFails \/ PublishProgress \/ ObserverThrows \/ OldestFailed \/ Finish) => Inv'
<1> SUFFICES ASSUME Inv, ReadFails \/ PublishProgress \/ ObserverThrows \/ OldestFailed \/ Finish
             PROVE Inv'
  OBVIOUS
<1> USE FileLength DEF Inv
<1>1. /\ UNCHANGED <<read, pending, task>>
      /\ pc' \in Steps
      /\ pc' = "read" => ~QueueIsFull /\ read < Len(File)
      /\ pc' \in {"done", "failed"} => pending = <<>>
  BY DEF ReadFails, PublishProgress, ObserverThrows, OldestFailed, Finish, Throw, Loop, Steps
<1>2. MainTypes' /\ QueueInOrder' /\ RunningIsQueued'
  BY <1>1 DEF MainTypes, QueueInOrder, RunningIsQueued
<1>3. QueueBound'
  <2>1. Inflight \in Nat /\ Len(pending) \in Nat
    BY EncodeAssumption DEF EncodeAssumption, MainTypes
  <2> QED
    BY <1>1, <2>1 DEF QueueBound, QueueIsFull
<1> QED
  BY <1>2, <1>3

\* Unwinding waits for every queued encoder, and so for every encoder.
LEMMA UnwindStep == Inv /\ Unwind => Inv'
<1> SUFFICES ASSUME Inv, Unwind PROVE Inv'
  OBVIOUS
<1> USE FileLength DEF Inv
<1>1. pending' = <<>> /\ pc' = "failed" /\ UNCHANGED <<read, task>>
  BY DEF Unwind
<1>2. MainTypes' /\ QueueInOrder'
  BY <1>1 DEF MainTypes, QueueInOrder, Steps
<1>3. QueueBound'
  BY <1>1, EncodeAssumption DEF QueueBound, EncodeAssumption
<1>4. ASSUME NEW c \in Chunks PROVE task[c] # "running"
  <2>1. SUFFICES ASSUME task[c] = "running" PROVE FALSE
    OBVIOUS
  <2>2. PICK k \in 1 .. Len(pending) : pending[k] = c
    BY <2>1 DEF RunningIsQueued
  <2>3. c \in Range(pending)
    BY <2>2 DEF Range, MainTypes
  <2> QED
    BY <2>1, <2>3 DEF Unwind
<1>5. RunningIsQueued'
  BY <1>1, <1>4 DEF RunningIsQueued
<1> QED
  BY <1>2, <1>3, <1>5

\* An encoder only stops running.
LEMMA EncoderStep == Inv /\ ((\E c \in Chunks : Encoder(c)) \/ Stop \/ UNCHANGED vars) => Inv'
<1> SUFFICES ASSUME Inv, (\E c \in Chunks : Encoder(c)) \/ Stop \/ UNCHANGED vars
             PROVE Inv'
  OBVIOUS
<1> USE DEF Inv
<1>1. UNCHANGED <<pc, read, pending>>
  BY DEF Encoder, Encodes, EncodeFails, CheckpointThrows, Stop, vars
<1>2. /\ task' \in [Chunks -> {"none", "running", "ready", "failed"}]
      /\ \A d \in Chunks : task'[d] = "running" => task[d] = "running"
  BY DEF Encoder, Encodes, EncodeFails, CheckpointThrows, Stop, vars, MainTypes
<1> QED
  BY <1>1, <1>2 DEF MainTypes, QueueInOrder, QueueBound, RunningIsQueued

\* Every step of the specification preserves the invariant of the queue.
LEMMA InvAlways == Spec => []Inv
<1>1. Inv /\ [Next]_vars => Inv'
  BY ReadStep, WriteStep, ControlStep, UnwindStep, EncoderStep DEF Next, Main, Returned
<1> QED
  BY InvInit, <1>1, PTL DEF Spec

\* For every file and every number of chunks in flight, the memory of the
\* pipeline is bounded: compress_manifest_file_entry never holds more than
\* budget.inflight_chunks chunks, and every encoder works for one of them.
THEOREM MemoryIsBounded == Spec => []BuffersAreBounded
<1>1. Inv => BuffersAreBounded
  BY DEF Inv, MainTypes, QueueBound, RunningIsQueued, BuffersAreBounded, NoEncoderOutlivesTheEntry, Range
<1> QED
  BY InvAlways, <1>1, PTL

\* When compress_manifest_file_entry returns or throws, none of the threads it
\* started still uses the progress state and options it borrowed.
THEOREM EncodersAreJoined == Spec => []NoEncoderOutlivesTheEntry
<1>1. Inv => NoEncoderOutlivesTheEntry
  BY DEF Inv, RunningIsQueued, NoEncoderOutlivesTheEntry
<1> QED
  BY InvAlways, <1>1, PTL

\* The deque of futures hands the chunks to the archive in the order of the
\* source file, and an entry that is finished has all of them.
THEOREM ChunksLeaveInOrder ==
  Spec => [](/\ pending # <<>> => Head(pending) = read - Len(pending) + 1
             /\ pc = "done" => pending = <<>>)
<1>1. Inv => /\ pending # <<>> => Head(pending) = read - Len(pending) + 1
             /\ pc = "done" => pending = <<>>
  <2> SUFFICES ASSUME Inv
               PROVE /\ pending # <<>> => Head(pending) = read - Len(pending) + 1
                     /\ pc = "done" => pending = <<>>
    OBVIOUS
  <2>1. pending \in Seq(Chunks)
    BY DEF Inv, MainTypes
  <2>2. pending # <<>> => Len(pending) \in Nat \ {0} /\ Head(pending) = pending[1]
    BY <2>1
  <2> QED
    BY <2>2 DEF Inv, QueueInOrder, RunningIsQueued
<1> QED
  BY InvAlways, <1>1, PTL

-----------------------------------------------------------------------------
(* The entry that is being written *)

\* The chunks already in the archive, and the decoded size of every chunk.
Written == read - Len(pending)
ChunkTotals == [c \in DOMAIN File |-> Total(File[c], DOMAIN File[c])]

\* What a thread that is ready left behind is a result its encoder may give.
ResultTypes ==
  /\ enc \in [Chunks -> Seq(Nat)]
  /\ \A c \in Chunks : task[c] = "ready" => enc[c] \in Encodings(File[c])

\* The entry is the sequential one of the chunks written, and they are ready.
EntryOf(n) ==
  /\ \A c \in 1 .. n : task[c] = "ready"
  /\ blocks = SequentialBlocks(File, enc, n)
  /\ payload = SequentialPayload(File, enc, n)
  /\ crc = SequentialContent(File, n)
  /\ Valid(blocks, Len(payload), Total(ChunkTotals, 1 .. n))

Broken == pc \in {"unwind", "failed"}

\* The drain begins when the whole file is read.
AllRead == pc \in {"drain", "done"} => read = Len(File)

EntryInv == ResultTypes /\ (~Broken => EntryOf(Written)) /\ AllRead

\* What the constants give about the file and its chunks.
LEMMA FileFacts ==
  /\ File \in Seq(Seq(Nat \ {0})) /\ Len(File) \in Nat
  /\ Chunks = DOMAIN File /\ Chunks = 1 .. Len(File)
  /\ \A c \in Chunks : c \in Nat /\ File[c] \in Seq(Nat \ {0})
<1>1. File \in Seq(Seq(Nat \ {0}))
  BY EncodeAssumption DEF EncodeAssumption
<1> QED
  BY <1>1 DEF Chunks

\* The size of a chunk is the sum of the sizes of its blocks.
LEMMA ChunkSizeIsTotal ==
  ASSUME NEW c \in Chunks
  PROVE  ChunkTotals[c] = Total(File[c], 1 .. Len(File[c])) /\ ChunkTotals[c] \in Nat
<1>1. c \in DOMAIN File /\ File[c] \in Seq(Nat \ {0})
  BY FileFacts
<1>2. /\ DOMAIN File[c] = 1 .. Len(File[c]) /\ Len(File[c]) \in Nat
      /\ \A b \in 1 .. Len(File[c]) : File[c][b] \in Nat
  BY <1>1
<1>3. ChunkTotals[c] = Total(File[c], 1 .. Len(File[c]))
  BY <1>1, <1>2 DEF ChunkTotals
<1>4. IsFiniteSet(1 .. Len(File[c]))
  BY <1>2, IntervalsAreFinite
<1>5. Total(File[c], 1 .. Len(File[c])) \in Nat
  BY <1>2, <1>4, TotalIsSize
<1> QED
  BY <1>3, <1>5

\* Before the first chunk there is no block and no byte.
LEMMA SequentialNone ==
  ASSUME NEW file, NEW en
  PROVE  /\ SequentialBlocks(file, en, 0) = <<>>
         /\ SequentialPayload(file, en, 0) = <<>>
         /\ SequentialContent(file, 0) = <<>>
<1>1. FlattenSeq(<<>>) = <<>>
  BY DEF FlattenSeq
<1>2. ASSUME NEW f, DOMAIN f = 1 .. 0, f = [c \in 1 .. 0 |-> f[c]] PROVE f = <<>>
  BY <1>2
<1>3. SequentialPayload(file, en, 0) = <<>>
  BY <1>1, <1>2 DEF SequentialPayload
<1>4. SequentialContent(file, 0) = <<>>
  BY <1>1, <1>2 DEF SequentialContent
<1>5. SequentialBlocks(file, en, 0) = <<>>
  <2> DEFINE F == [c \in 1 .. 0 |->
                     LET base == Total([d \in DOMAIN file |-> Len(EncodedPayload(d, en[d]))], 1 .. c - 1)
                     IN  [b \in 1 .. Len(file[c]) |->
                            [EncodedBlocks(c, file[c], en[c])[b] EXCEPT !.off = @ + base]]]
  <2>1. SequentialBlocks(file, en, 0) = FlattenSeq(F)
    BY DEF SequentialBlocks
  <2>2. DOMAIN F = 1 .. 0 /\ F = [c \in 1 .. 0 |-> F[c]]
    OBVIOUS
  <2> HIDE DEF F
  <2>3. F = <<>>
    BY <1>2, <2>2
  <2> QED
    BY <1>1, <2>1, <2>3
<1> QED
  BY <1>3, <1>4, <1>5

\* An entry without blocks is dense.
LEMMA ValidNone == Valid(<<>>, 0, 0)
<1> DEFINE t == <<>>
<1>1. t \in Seq(Block) /\ Len(t) = 0
  OBVIOUS
<1> HIDE DEF t
<1>2. Total(Lengths(t), 1 .. 0) = 0 /\ Total(EncodedLengths(t), 1 .. 0) = 0
  BY TotalNone
<1>3. \A b \in 1 .. Len(t) :
        /\ Lengths(t)[b] > 0 /\ EncodedLengths(t)[b] <= Lengths(t)[b]
        /\ EncodedLengths(t)[b] > 0 => t[b].off = Total(EncodedLengths(t), 1 .. b - 1)
  BY <1>1
<1>4. Valid(t, 0, 0)
  BY <1>1, <1>2, <1>3, ValidByLengths
<1> QED
  BY <1>4 DEF t

\* The entry of no chunk.
LEMMA EntryInit == Init => EntryInv
<1> SUFFICES ASSUME Init PROVE EntryInv
  OBVIOUS
<1>1. /\ read = 0 /\ pending = <<>> /\ blocks = <<>> /\ payload = <<>> /\ crc = <<>>
      /\ enc = [c \in Chunks |-> <<>>] /\ task = [c \in Chunks |-> "none"]
      /\ pc = IF File = <<>> THEN "drain" ELSE "read"
  BY DEF Init
<1>2. ResultTypes
  <2>1. enc \in [Chunks -> Seq(Nat)]
    BY <1>1
  <2>2. \A c \in Chunks : task[c] # "ready"
    BY <1>1
  <2> QED
    BY <2>1, <2>2 DEF ResultTypes
<1>3. Written = 0 /\ Len(payload) = 0
  <2>1. Len(pending) = 0 /\ Len(payload) = 0
    BY <1>1
  <2>2. Written = read - Len(pending)
    BY DEF Written
  <2>3. 0 - 0 = 0
    OBVIOUS
  <2> QED
    BY <1>1, <2>1, <2>2, <2>3
<1>4. Valid(blocks, Len(payload), Total(ChunkTotals, 1 .. 0))
  BY <1>1, <1>3, TotalNone, ValidNone
<1>5. EntryOf(0)
  BY <1>1, <1>4, SequentialNone DEF EntryOf
<1>6. AllRead
  BY <1>1, FileFacts DEF AllRead
<1> QED
  BY <1>2, <1>3, <1>5, <1>6 DEF EntryInv

\* The chunks written come before every chunk of the queue.
LEMMA WrittenFacts ==
  Inv => /\ Written \in 0 .. read /\ Written \in 0 .. Len(File) /\ read \in Nat
         /\ \A k \in 1 .. Len(pending) : pending[k] = Written + k
<1> SUFFICES ASSUME Inv
             PROVE  /\ Written \in 0 .. read /\ Written \in 0 .. Len(File) /\ read \in Nat
                    /\ \A k \in 1 .. Len(pending) : pending[k] = Written + k
  OBVIOUS
<1>1. /\ Len(pending) \in Nat /\ read \in 0 .. Len(File) /\ Len(pending) <= read
      /\ Len(File) \in Nat /\ \A k \in 1 .. Len(pending) : pending[k] = read - Len(pending) + k
  BY FileLength DEF Inv, MainTypes, QueueInOrder
<1> QED
  BY <1>1 DEF Written

\* A step that leaves the written chunks, their results and the entry alone.
LEMMA EntryStays ==
  ASSUME NEW n \in 0 .. Len(File), ResultTypes, EntryOf(n), UNCHANGED result,
         \A c \in 1 .. n : task'[c] = "ready" /\ enc'[c] = enc[c]
  PROVE  EntryOf(n)'
<1>1. \A c \in 1 .. n : c \in Chunks
  BY FileFacts
<1>2. Results(File, enc, n)
  BY <1>1 DEF Results, EntryOf, ResultTypes
<1>3. File \in Seq(Seq(Nat \ {0})) /\ \A c \in 1 .. n : enc'[c] = enc[c]
  BY FileFacts
<1>4. /\ SequentialBlocks(File, enc', n) = SequentialBlocks(File, enc, n)
      /\ SequentialPayload(File, enc', n) = SequentialPayload(File, enc, n)
  BY <1>2, <1>3, SequentialSame
<1>5. /\ blocks' = blocks /\ payload' = payload /\ crc' = crc
  BY DEF result
<1> QED
  BY <1>4, <1>5 DEF EntryOf

\* Reading a chunk puts it behind the chunks written.
LEMMA EntryRead == Inv /\ EntryInv /\ ReadChunk => EntryInv'
<1> SUFFICES ASSUME Inv, EntryInv, ReadChunk PROVE EntryInv'
  OBVIOUS
<1>1. /\ pc = "read" /\ pc' = "publish" /\ read' = read + 1
      /\ pending' = Append(pending, read + 1)
      /\ task' = [task EXCEPT ![read + 1] = "running"]
      /\ UNCHANGED <<enc, result>>
  BY DEF ReadChunk
<1>2. /\ Written \in 0 .. read /\ Written \in 0 .. Len(File) /\ read \in Nat
      /\ pending \in Seq(Chunks) /\ task \in [Chunks -> {"none", "running", "ready", "failed"}]
  BY WrittenFacts DEF Inv, MainTypes
<1>3. Written' = Written
  <2>1. Len(pending') = Len(pending) + 1 /\ Len(pending) \in Nat
    BY <1>1, <1>2
  <2> QED
    BY <1>1, <1>2, <2>1 DEF Written
<1>4. ResultTypes'
  BY <1>1, <1>2 DEF EntryInv, ResultTypes
<1>5. EntryOf(Written)
  BY <1>1 DEF EntryInv, Broken
<1>6. \A c \in 1 .. Written : c \in Chunks /\ c # read + 1
  BY <1>2, FileFacts
<1>7. \A c \in 1 .. Written : task'[c] = "ready" /\ enc'[c] = enc[c]
  BY <1>1, <1>2, <1>5, <1>6 DEF EntryOf
<1>8. ResultTypes /\ UNCHANGED result
  BY <1>1 DEF EntryInv
<1> PICK n : n = Written
  OBVIOUS
<1>9. n \in 0 .. Len(File) /\ EntryOf(n) /\ \A c \in 1 .. n : task'[c] = "ready" /\ enc'[c] = enc[c]
  BY <1>2, <1>5, <1>7
<1>10. EntryOf(n)'
  BY <1>8, <1>9, EntryStays
<1> QED
  BY <1>1, <1>3, <1>4, <1>10 DEF EntryInv, AllRead

\* What write_one_encoded_chunk appends: the descriptors of the chunk, moved
\* behind the payload that is there, its bytes and its content.
LEMMA AppendedChunk ==
  ASSUME NEW c \in Chunks, AppendChunk(c)
  PROVE  /\ blocks' = blocks \o BlocksBehind(Len(payload), c, File[c], enc[c])
         /\ payload' = payload \o EncodedPayload(c, enc[c])
         /\ crc' = crc \o Content(c, File[c])
<1> DEFINE encoded == EncodedBlocks(c, File[c], enc[c])
           moved == [b \in 1 .. Len(encoded) |-> [encoded[b] EXCEPT !.off = @ + Len(payload)]]
<1>1. /\ blocks' = blocks \o moved
      /\ payload' = payload \o EncodedPayload(c, enc[c])
      /\ crc' = crc \o Content(c, File[c])
  BY DEF AppendChunk
<1>2. Len(encoded) = Len(File[c])
  <2>1. DOMAIN encoded = DOMAIN File[c] /\ File[c] \in Seq(Nat \ {0})
    BY FileFacts DEF EncodedBlocks
  <2>2. DOMAIN encoded = 1 .. Len(File[c]) /\ Len(File[c]) \in Nat
    BY <2>1
  <2>3. encoded = [b \in 1 .. Len(File[c]) |-> encoded[b]]
    BY <2>2 DEF EncodedBlocks
  <2> HIDE DEF encoded
  <2> QED
    BY <2>2, <2>3
<1>3. moved = BlocksBehind(Len(payload), c, File[c], enc[c])
  BY <1>2 DEF BlocksBehind
<1> QED
  BY <1>1, <1>3

\* Writing the oldest chunk appends the next chunk of the sequential entry.
LEMMA EntryWrite == Inv /\ EntryInv /\ WriteOldest => EntryInv'
<1> SUFFICES ASSUME Inv, EntryInv, WriteOldest PROVE EntryInv'
  OBVIOUS
<1>1. PICK c \in Chunks : /\ OldestReady(c) /\ AppendChunk(c) /\ pc' = AfterWrite
                          /\ UNCHANGED <<read, task, enc>>
  BY DEF WriteOldest
<1>2. /\ pc \in {"write", "drain"} /\ pending # <<>> /\ pending \in Seq(Chunks)
      /\ c = Head(pending) /\ task[c] = "ready" /\ pending' = Tail(pending)
  BY <1>1 DEF OldestReady, Inv, MainTypes
<1>3. PICK n : n = Written
  OBVIOUS
<1>4. /\ n \in Nat /\ n \in 0 .. Len(File) /\ read \in Nat
      /\ \A k \in 1 .. Len(pending) : pending[k] = n + k
  BY <1>3, WrittenFacts, FileFacts
<1>5. c = n + 1 /\ Written' = n + 1
  <2>1. /\ Len(pending) \in Nat /\ 1 \in 1 .. Len(pending) /\ Head(pending) = pending[1]
        /\ Len(pending') = Len(pending) - 1
    BY <1>2
  <2>2. c = n + 1
    BY <1>2, <1>4, <2>1
  <2> QED
    BY <1>1, <1>3, <1>4, <2>1, <2>2 DEF Written
<1>6. EntryOf(n) /\ ResultTypes
  BY <1>2, <1>3 DEF EntryInv, Broken
<1>7. /\ n + 1 \in Chunks /\ n + 1 <= Len(File) /\ File \in Seq(Seq(Nat \ {0}))
      /\ \A i \in 1 .. n + 1 : i \in Chunks
  BY <1>4, <1>5, FileFacts
<1>8. \A i \in 1 .. n + 1 : task[i] = "ready"
  BY <1>2, <1>4, <1>5, <1>6 DEF EntryOf
<1>9. Results(File, enc, n + 1) /\ Results(File, enc, n)
  BY <1>4, <1>6, <1>7, <1>8 DEF Results, ResultTypes
<1>10. /\ SequentialBlocks(File, enc, n + 1) =
            SequentialBlocks(File, enc, n)
              \o BlocksBehind(Len(SequentialPayload(File, enc, n)), n + 1, File[n + 1], enc[n + 1])
       /\ SequentialPayload(File, enc, n + 1) =
            SequentialPayload(File, enc, n) \o EncodedPayload(n + 1, enc[n + 1])
       /\ SequentialContent(File, n + 1) =
            SequentialContent(File, n) \o Content(n + 1, File[n + 1])
       /\ SequentialBlocks(File, enc, n) \in Seq(Block)
  BY <1>4, <1>7, <1>9, SequentialMore
<1>11. SequentialPayload(File, enc, n) \in Seq(Token)
  BY <1>4, <1>7, <1>9, SequentialLength
<1>12. /\ blocks' = blocks \o BlocksBehind(Len(payload), n + 1, File[n + 1], enc[n + 1])
       /\ payload' = payload \o EncodedPayload(n + 1, enc[n + 1])
       /\ crc' = crc \o Content(n + 1, File[n + 1])
  BY <1>1, <1>5, AppendedChunk
<1>13. /\ blocks = SequentialBlocks(File, enc, n) /\ payload = SequentialPayload(File, enc, n)
       /\ crc = SequentialContent(File, n)
       /\ Valid(blocks, Len(payload), Total(ChunkTotals, 1 .. n))
  BY <1>6 DEF EntryOf
<1>14. /\ blocks' = SequentialBlocks(File, enc, n + 1)
       /\ payload' = SequentialPayload(File, enc, n + 1)
       /\ crc' = SequentialContent(File, n + 1)
  BY <1>10, <1>12, <1>13
<1>15. /\ enc[n + 1] \in Encodings(File[n + 1]) /\ File[n + 1] \in Seq(Nat \ {0})
       /\ n + 1 \in Nat /\ Len(payload) \in Nat /\ blocks \in Seq(Block)
  <2>1. payload \in Seq(Token)
    BY <1>11, <1>13
  <2> QED
    BY <1>4, <1>7, <1>9, <1>10, <1>13, <2>1, FileFacts DEF Results
<1>16. Valid(blocks', Len(payload) + Len(EncodedPayload(n + 1, enc[n + 1])),
             Total(ChunkTotals, 1 .. n) + Total(File[n + 1], 1 .. Len(File[n + 1])))
  <2> DEFINE bytes == Len(payload)
             size == Total(ChunkTotals, 1 .. n)
             lens == File[n + 1]
             e == enc[n + 1]
             m == n + 1
             b == blocks
  <2>1. /\ bytes \in Nat /\ Valid(b, bytes, size) /\ m \in Nat /\ lens \in Seq(Nat \ {0})
        /\ e \in Encodings(lens) /\ b \in Seq(Block) /\ blocks' = b \o BlocksBehind(bytes, m, lens, e)
    BY <1>12, <1>13, <1>15
  <2> HIDE DEF bytes, size, lens, e, m, b
  <2>2. Valid(b \o BlocksBehind(bytes, m, lens, e), bytes + Len(EncodedPayload(m, e)),
              size + Total(lens, 1 .. Len(lens)))
    BY <2>1, AppendKeepsValid
  <2>3. Valid(blocks', bytes + Len(EncodedPayload(m, e)), size + Total(lens, 1 .. Len(lens)))
    BY <2>1, <2>2
  <2> QED
    BY <2>3 DEF bytes, size, lens, e, m
<1>17. Len(payload') = Len(payload) + Len(EncodedPayload(n + 1, enc[n + 1]))
  <2>1. EncodedPayload(n + 1, enc[n + 1]) \in Seq(Token)
    BY <1>15, EncodingOfAChunk, PayloadOfAChunk
  <2>2. payload \in Seq(Token)
    BY <1>11, <1>13
  <2> QED
    BY <1>12, <2>1, <2>2, Concat
<1>18. Total(ChunkTotals, 1 .. n + 1) =
         Total(ChunkTotals, 1 .. n) + Total(File[n + 1], 1 .. Len(File[n + 1]))
  <2>1. \A i \in 1 .. n + 1 : ChunkTotals[i] \in Nat
    BY <1>7, ChunkSizeIsTotal
  <2>2. Total(ChunkTotals, 1 .. n + 1) = Total(ChunkTotals, 1 .. n) + ChunkTotals[n + 1]
    BY <1>4, <2>1, TotalNext
  <2> QED
    BY <1>7, <2>2, ChunkSizeIsTotal
<1>19. Valid(blocks', Len(payload'), Total(ChunkTotals, 1 .. n + 1))
  BY <1>16, <1>17, <1>18
<1>20. /\ UNCHANGED <<read, task, enc>>
       /\ pc' \in {"read", "drain"} /\ (pc' = "drain" => read' = Len(File))
  <2>1. read \in 0 .. Len(File) /\ (pc = "drain" => read = Len(File))
    BY DEF Inv, MainTypes, EntryInv, AllRead
  <2> QED
    BY <1>1, <1>2, <2>1, FileFacts DEF AfterWrite, Loop
<1>21. EntryOf(n + 1)'
  BY <1>8, <1>14, <1>19, <1>20 DEF EntryOf
<1>22. EntryOf(Written)'
  BY <1>5, <1>21
<1>23. ResultTypes' /\ AllRead'
  BY <1>6, <1>20 DEF ResultTypes, AllRead
<1> QED
  BY <1>22, <1>23 DEF EntryInv

\* Control steps write nothing, and an unwinding entry is given up.
LEMMA EntryControl ==
  Inv /\ EntryInv
    /\ (ReadFails \/ PublishProgress \/ ObserverThrows \/ WriteFails \/ OldestFailed
          \/ Finish \/ Unwind \/ Stop \/ UNCHANGED vars) => EntryInv'
<1> SUFFICES ASSUME Inv, EntryInv,
                    ReadFails \/ PublishProgress \/ ObserverThrows \/ WriteFails \/ OldestFailed
                      \/ Finish \/ Unwind \/ Stop \/ UNCHANGED vars
             PROVE  EntryInv'
  OBVIOUS
<1>1. UNCHANGED <<read, task, enc, result>>
  BY DEF ReadFails, PublishProgress, ObserverThrows, WriteFails, OldestFailed, Finish, Unwind,
         Throw, Stop, vars, result
<1>2. ~Broken' => /\ ~Broken /\ pending' = pending
                  /\ pc' \in {"drain", "done"} => pc \in {"drain", "done"} \/ ~(read < Len(File))
  BY DEF ReadFails, PublishProgress, ObserverThrows, WriteFails, OldestFailed, Finish, Unwind,
         Throw, Stop, vars, Broken, Loop
<1>3. read \in 0 .. Len(File) /\ Len(File) \in Nat
  BY FileFacts DEF Inv, MainTypes
<1>4. AllRead'
  BY <1>1, <1>2, <1>3 DEF EntryInv, AllRead, Broken
<1>5. ResultTypes'
  BY <1>1 DEF EntryInv, ResultTypes
<1>6. ASSUME ~Broken' PROVE EntryOf(Written)'
  <2>1. PICK n : n = Written
    OBVIOUS
  <2>2. EntryOf(n) /\ n = Written'
    BY <1>1, <1>2, <1>6, <2>1 DEF EntryInv, Written
  <2>3. EntryOf(n)'
    BY <1>1, <2>2 DEF EntryOf, result
  <2> QED
    BY <2>2, <2>3
<1> QED
  BY <1>4, <1>5, <1>6 DEF EntryInv

\* An encoder that ends is one of a chunk that is not written yet.
LEMMA EntryEncoder == Inv /\ EntryInv /\ (\E c \in Chunks : Encoder(c)) => EntryInv'
<1> SUFFICES ASSUME Inv, EntryInv, NEW c \in Chunks, Encoder(c) PROVE EntryInv'
  OBVIOUS
<1>1. /\ UNCHANGED <<pc, read, pending, result>> /\ task[c] = "running"
      /\ task \in [Chunks -> {"none", "running", "ready", "failed"}] /\ enc \in [Chunks -> Seq(Nat)]
  BY DEF Encoder, Encodes, EncodeFails, CheckpointThrows, Inv, MainTypes, EntryInv, ResultTypes
<1>2. \/ /\ task' = [task EXCEPT ![c] = "ready"]
         /\ \E e \in Encodings(File[c]) : enc' = [enc EXCEPT ![c] = e]
      \/ task' = [task EXCEPT ![c] = "failed"] /\ enc' = enc
  BY DEF Encoder, Encodes, EncodeFails, CheckpointThrows
<1>3. \A d \in Chunks : d # c => task'[d] = task[d] /\ enc'[d] = enc[d]
  BY <1>1, <1>2
<1>4. /\ enc' \in [Chunks -> Seq(Nat)]
      /\ task'[c] = "ready" => enc'[c] \in Encodings(File[c])
  <2>1. \A e \in Encodings(File[c]) : e \in Seq(Nat)
    BY FileFacts, EncodingOfAChunk
  <2> QED
    BY <1>1, <1>2, <2>1
<1>5. ResultTypes'
  BY <1>3, <1>4 DEF EntryInv, ResultTypes
<1>6. ASSUME ~Broken PROVE EntryOf(Written)'
  <2>1. PICK n : n = Written
    OBVIOUS
  <2>2. EntryOf(n) /\ ResultTypes /\ n \in 0 .. Len(File) /\ n = Written'
    BY <1>1, <1>6, <2>1, WrittenFacts DEF EntryInv, Written
  <2>3. \A d \in 1 .. n : d \in Chunks /\ d # c /\ task[d] = "ready"
    BY <1>1, <2>2, FileFacts DEF EntryOf
  <2>4. \A d \in 1 .. n : task'[d] = "ready" /\ enc'[d] = enc[d]
    BY <1>3, <2>3
  <2>5. EntryOf(n)'
    BY <1>1, <2>2, <2>4, EntryStays
  <2> QED
    BY <2>2, <2>5
<1> QED
  BY <1>1, <1>5, <1>6 DEF EntryInv, AllRead, Broken

\* Every step preserves both halves of the invariant.
LEMMA EntryInvAlways == Spec => [](Inv /\ EntryInv)
<1>1. Init => Inv /\ EntryInv
  BY InvInit, EntryInit
<1>2. Inv /\ EntryInv /\ [Next]_vars => Inv' /\ EntryInv'
  <2>1. Inv /\ [Next]_vars => Inv'
    BY ReadStep, WriteStep, ControlStep, UnwindStep, EncoderStep DEF Next, Main, Returned
  <2>2. Inv /\ EntryInv /\ [Next]_vars => EntryInv'
    BY EntryRead, EntryWrite, EntryControl, EntryEncoder DEF Next, Main, Returned
  <2> QED
    BY <2>1, <2>2
<1> QED
  BY <1>1, <1>2, PTL DEF Spec

\* Whatever order the encoding threads end in, for every file and every number
\* of chunks in flight, compress_manifest_file_entry has at every moment written
\* the blocks, offsets, payload bytes and CRC that a single thread would have
\* written for a prefix of the chunks, and for all of them when it returns.
THEOREM EntryIsSequential == Spec => []WrittenInOrder
<1>1. Inv /\ EntryInv => WrittenInOrder
  <2> SUFFICES ASSUME Inv, EntryInv PROVE WrittenInOrder
    OBVIOUS
  <2>1. pc \notin {"unwind", "failed"} =>
          /\ \A c \in 1 .. read - Len(pending) : task[c] = "ready"
          /\ <<blocks, payload, crc>> =
               <<SequentialBlocks(File, enc, read - Len(pending)),
                 SequentialPayload(File, enc, read - Len(pending)),
                 SequentialContent(File, read - Len(pending))>>
    BY DEF EntryInv, EntryOf, Broken, Written
  <2>2. pc = "done" => read - Len(pending) = Len(File)
    <3>1. SUFFICES ASSUME pc = "done" PROVE read - Len(pending) = Len(File)
      OBVIOUS
    <3>2. pending = <<>> /\ read = Len(File) /\ Len(File) \in Nat
      BY <3>1, FileFacts DEF Inv, RunningIsQueued, EntryInv, AllRead
    <3>3. Len(pending) = 0
      BY <3>2
    <3> QED
      BY <3>2, <3>3
  <2> QED
    BY <2>1, <2>2 DEF WrittenInOrder
<1> QED
  BY EntryInvAlways, <1>1, PTL

\* The entry that compress_manifest_file_entry returns passes what
\* validate_entry_metadata checks before the archive is decoded: its payload is
\* dense, and its sizes are those of the source file.
THEOREM EntryIsDense == Spec => []FinishedEntryIsValid
<1>1. Inv /\ EntryInv => FinishedEntryIsValid
  <2> SUFFICES ASSUME Inv, EntryInv, pc = "done"
               PROVE  ValidEntry([blocks |-> blocks, payload_size |-> Len(payload),
                                  size |-> FileSize(File)])
    BY DEF FinishedEntryIsValid
  <2>1. pending = <<>> /\ read = Len(File) /\ Len(File) \in Nat
    BY FileFacts DEF Inv, RunningIsQueued, EntryInv, AllRead
  <2>2. Len(pending) = 0
    BY <2>1
  <2>3. Written = Len(File)
    BY <2>1, <2>2 DEF Written
  <2>4. Valid(blocks, Len(payload), Total(ChunkTotals, 1 .. Len(File)))
    BY <2>3 DEF EntryInv, EntryOf, Broken
  <2>5. Total(ChunkTotals, 1 .. Len(File)) = FileSize(File)
    <3>1. DOMAIN File = 1 .. Len(File)
      BY FileFacts
    <3> QED
      BY <3>1 DEF FileSize, ChunkTotals
  <2> QED
    BY <2>4, <2>5 DEF Valid
<1> QED
  BY EntryInvAlways, <1>1, PTL

-----------------------------------------------------------------------------
(* Where the blocks lie in the payload *)

\* Where the members of the first k families are in s, their sequence.
Places(s, F, offset, k) ==
  /\ \A i \in 1 .. k : \A j \in 1 .. Len(F[i]) :
       offset[i] + j \in 1 .. Len(s) /\ s[offset[i] + j] = F[i][j]
  /\ \A p \in 1 .. Len(s) : \E i \in 1 .. k : \E j \in 1 .. Len(F[i]) : p = offset[i] + j

\* One more family behind them.
LEMMA PlacesMore ==
  ASSUME NEW T, NEW s \in Seq(T), NEW k \in Nat, NEW F, NEW offset,
         Places(s, F, offset, k), F[k + 1] \in Seq(T), offset[k + 1] = Len(s)
  PROVE  Places(s \o F[k + 1], F, offset, k + 1)
<1> DEFINE f == F[k + 1]
           u == s \o f
           m == Len(s)
           n == Len(f)
<1>1. f \in Seq(T)
  OBVIOUS
<1> HIDE DEF f
<1>2. /\ Len(u) = m + n /\ m \in Nat /\ n \in Nat
      /\ \A p \in 1 .. m : u[p] = s[p]
      /\ \A j \in 1 .. n : u[m + j] = f[j]
  BY <1>1, Concat
<1> HIDE DEF u, m, n
<1>3. /\ \A i \in 1 .. k : \A j \in 1 .. Len(F[i]) :
           offset[i] + j \in 1 .. m /\ s[offset[i] + j] = F[i][j]
      /\ \A p \in 1 .. m : \E i \in 1 .. k : \E j \in 1 .. Len(F[i]) : p = offset[i] + j
  BY DEF Places, m
<1>4. ASSUME NEW i \in 1 .. k + 1, NEW j \in 1 .. Len(F[i])
      PROVE  offset[i] + j \in 1 .. Len(u) /\ u[offset[i] + j] = F[i][j]
  <2>1. CASE i \in 1 .. k
    <3> DEFINE p == offset[i] + j
    <3>1. p \in 1 .. m /\ s[p] = F[i][j]
      BY <1>3, <2>1
    <3> HIDE DEF p
    <3>2. p \in 1 .. Len(u) /\ u[p] = F[i][j]
      BY <1>2, <3>1
    <3> QED
      BY <3>2 DEF p
  <2>2. CASE i \notin 1 .. k
    <3>1. i = k + 1
      BY <2>2
    <3>2. j \in 1 .. n /\ F[i] = f /\ offset[i] = m
      BY <3>1 DEF f, n, m
    <3>3. m + j \in 1 .. Len(u) /\ u[m + j] = f[j]
      BY <1>2, <3>2
    <3> QED
      BY <3>2, <3>3
  <2> QED
    BY <2>1, <2>2
<1>5. ASSUME NEW p \in 1 .. Len(u)
      PROVE  \E i \in 1 .. k + 1 : \E j \in 1 .. Len(F[i]) : p = offset[i] + j
  <2>1. CASE p \in 1 .. m
    <3>1. PICK i \in 1 .. k : \E j \in 1 .. Len(F[i]) : p = offset[i] + j
      BY <1>3, <2>1
    <3>2. i \in 1 .. k + 1
      OBVIOUS
    <3> QED
      BY <3>1, <3>2
  <2>2. CASE p \notin 1 .. m
    <3>1. p - m \in 1 .. n /\ p = m + (p - m)
      BY <1>2, <2>2
    <3>2. k + 1 \in 1 .. k + 1 /\ Len(F[k + 1]) = n /\ offset[k + 1] = m
      BY DEF f, n, m
    <3> QED
      BY <3>1, <3>2
  <2> QED
    BY <2>1, <2>2
<1>6. Places(u, F, offset, k + 1)
  BY <1>4, <1>5 DEF Places
<1> QED
  BY <1>6 DEF u, f

\* Every member of a flattened family is a member of one of the sequences, at
\* the offset that the lengths before it sum up to.
LEMMA FlattenPlaces ==
  ASSUME NEW T, NEW n \in Nat, NEW F \in [1 .. n -> Seq(T)],
         NEW L, \A i \in 1 .. n : L[i] = Len(F[i])
  PROVE  Places(FlattenSeq(F), F, [i \in 1 .. n |-> Total(L, 1 .. i - 1)], n)
<1> DEFINE offset == [i \in 1 .. n |-> Total(L, 1 .. i - 1)]
           P(k) == FlattenSeq([i \in 1 .. k |-> F[i]])
           Bad == {k \in 0 .. n : ~ Places(P(k), F, offset, k)}
<1>1. 0 \notin Bad
  <2> DEFINE s == [i \in 1 .. 0 |-> F[i]]
  <2>1. s = <<>>
    OBVIOUS
  <2> HIDE DEF s
  <2>2. FlattenSeq(s) = <<>>
    BY <2>1 DEF FlattenSeq
  <2>3. P(0) = <<>>
    BY <2>2 DEF s
  <2> HIDE DEF offset
  <2>4. Places(<<>>, F, offset, 0)
    BY DEF Places
  <2> QED
    BY <2>3, <2>4
<1>2. ASSUME NEW m \in 0 .. n, m # n, m \notin Bad PROVE m + 1 \notin Bad
  <2> DEFINE G == [i \in 1 .. m + 1 |-> F[i]]
             H == [i \in 1 .. m |-> F[i]]
  <2>1. m \in Nat /\ m + 1 \in 1 .. n /\ G \in [1 .. m + 1 -> Seq(T)] /\ G[m + 1] = F[m + 1]
    BY <1>2
  <2>2. [i \in 1 .. m |-> G[i]] = H /\ H \in [1 .. m -> Seq(T)] /\ \A i \in 1 .. m : L[i] = Len(H[i])
    BY <1>2
  <2>3. Places(FlattenSeq(H), F, offset, m)
    <3> HIDE DEF offset
    <3> QED
      BY <1>2
  <2>4. offset[m + 1] = Total(L, 1 .. m)
    BY <2>1
  <2> HIDE DEF G, H, offset
  <2>5. FlattenSeq(H) \in Seq(T) /\ FlattenSeq(G) = FlattenSeq(H) \o F[m + 1]
    BY <2>1, <2>2, FlattenMore
  <2>6. Len(FlattenSeq(H)) = Total(L, 1 .. m)
    <3>1. m \in Nat /\ H \in [1 .. m -> Seq(T)] /\ \A i \in 1 .. m : L[i] = Len(H[i])
      BY <2>1, <2>2
    <3> QED
      BY <3>1, FlattenLength
  <2>7. F[m + 1] \in Seq(T) /\ offset[m + 1] = Len(FlattenSeq(H))
    BY <2>1, <2>4, <2>6
  <2>8. Places(FlattenSeq(G), F, offset, m + 1)
    BY <2>1, <2>3, <2>5, <2>7, PlacesMore
  <2> QED
    BY <2>8 DEF G
<1>3. n \notin Bad
  <2> HIDE DEF offset
  <2>1. SUFFICES ASSUME Bad # {} PROVE FALSE
    OBVIOUS
  <2>2. Bad \in SUBSET Nat /\ \A k \in Bad : k \in 0 .. n
    OBVIOUS
  <2> HIDE DEF Bad
  <2>3. PICK k \in Bad : \A j \in Bad : k <= j
    BY <2>1, <2>2, LeastNumber
  <2>4. k \in 0 .. n /\ k # 0
    BY <1>1, <2>2, <2>3
  <2>5. k - 1 \in 0 .. n /\ k - 1 # n /\ ~ (k <= k - 1) /\ k - 1 + 1 = k
    BY <2>4
  <2>6. k - 1 \notin Bad
    BY <2>3, <2>5
  <2> QED
    BY <1>2, <2>3, <2>5, <2>6
<1>4. Places(P(n), F, offset, n)
  <2> HIDE DEF offset
  <2> QED
    BY <1>3
<1>5. [i \in 1 .. n |-> F[i]] = F
  OBVIOUS
<1> QED
  BY <1>4, <1>5

\* Where the bytes of the blocks are in the payload of a chunk.
LEMMA ChunkPlaces ==
  ASSUME NEW c \in Nat, NEW e \in Seq(Nat)
  PROVE  /\ \A b \in 1 .. Len(e) : \A k \in 1 .. e[b] :
              /\ Total(e, 1 .. b - 1) + k \in 1 .. Len(EncodedPayload(c, e))
              /\ EncodedPayload(c, e)[Total(e, 1 .. b - 1) + k] = <<<<c, b>>, k>>
         /\ \A p \in 1 .. Len(EncodedPayload(c, e)) :
              \E b \in 1 .. Len(e) : \E k \in 1 .. e[b] : p = Total(e, 1 .. b - 1) + k
         /\ \A b \in 1 .. Len(e) : Total(e, 1 .. b - 1) \in Nat
<1> DEFINE F == [b \in 1 .. Len(e) |-> Stored(<<c, b>>, e[b])]
           n == Len(e)
           offset == [b \in 1 .. n |-> Total(e, 1 .. b - 1)]
           s == EncodedPayload(c, e)
<1>1. ASSUME NEW b \in 1 .. n
      PROVE  /\ F[b] \in Seq(Token) /\ Len(F[b]) = e[b] /\ e[b] \in Nat
             /\ \A k \in 1 .. e[b] : F[b][k] = <<<<c, b>>, k>>
  <2>1. e[b] \in Nat /\ b \in Nat
    OBVIOUS
  <2>2. \A k \in 1 .. e[b] : <<<<c, b>>, k>> \in Token
    BY <2>1 DEF Token
  <2> DEFINE f == Stored(<<c, b>>, e[b])
  <2>3. f \in Seq(Token) /\ Len(f) = e[b]
    BY <2>1, <2>2 DEF Stored
  <2>4. \A k \in 1 .. e[b] : f[k] = <<<<c, b>>, k>>
    BY <2>1 DEF Stored
  <2>5. F[b] = f
    OBVIOUS
  <2> HIDE DEF f, F
  <2> QED
    BY <2>1, <2>3, <2>4, <2>5
<1>2. n \in Nat /\ F \in [1 .. n -> Seq(Token)] /\ \A b \in 1 .. n : e[b] = Len(F[b])
  BY <1>1
<1>3. s = FlattenSeq(F)
  BY DEF EncodedPayload
<1>4. ASSUME NEW b \in 1 .. n PROVE Total(e, 1 .. b - 1) \in Nat
  <2> DEFINE j == b - 1
  <2>1. j \in Nat /\ \A i \in 1 .. j : e[i] \in Nat
    BY <1>1
  <2> HIDE DEF j
  <2>2. IsFiniteSet(1 .. j)
    BY <2>1, IntervalsAreFinite
  <2>3. Total(e, 1 .. j) \in Nat
    BY <2>1, <2>2, TotalIsSize
  <2> QED
    BY <2>3 DEF j
<1>5. \A b \in 1 .. n : offset[b] = Total(e, 1 .. b - 1)
  OBVIOUS
<1> HIDE DEF F, s
<1>6. Places(s, F, offset, n)
  <2> HIDE DEF n
  <2> QED
    BY <1>2, <1>3, FlattenPlaces
<1> HIDE DEF n, offset
<1>7. ASSUME NEW b \in 1 .. n, NEW k \in 1 .. e[b]
      PROVE  offset[b] + k \in 1 .. Len(s) /\ s[offset[b] + k] = <<<<c, b>>, k>>
  <2>1. k \in 1 .. Len(F[b]) /\ F[b][k] = <<<<c, b>>, k>>
    BY <1>1
  <2> QED
    BY <1>6, <2>1 DEF Places
<1>8. ASSUME NEW p \in 1 .. Len(s) PROVE \E b \in 1 .. n : \E k \in 1 .. e[b] : p = offset[b] + k
  <2>1. PICK b \in 1 .. n : \E k \in 1 .. Len(F[b]) : p = offset[b] + k
    BY <1>6 DEF Places
  <2>2. Len(F[b]) = e[b]
    BY <1>1
  <2> QED
    BY <2>1, <2>2
<1>9. \A b \in 1 .. n : \A k \in 1 .. e[b] :
          Total(e, 1 .. b - 1) + k \in 1 .. Len(s) /\ s[Total(e, 1 .. b - 1) + k] = <<<<c, b>>, k>>
  BY <1>5, <1>7
<1>10. \A p \in 1 .. Len(s) : \E b \in 1 .. n : \E k \in 1 .. e[b] : p = Total(e, 1 .. b - 1) + k
  BY <1>5, <1>8
<1> QED
  BY <1>4, <1>9, <1>10 DEF s, n

\* How an entry lies in the archive: block b is the b-th of the source s, its
\* bytes are at its offset, and every byte of the payload is one of a block.
Layout(t, bytes, s) ==
  /\ t \in Seq(Block) /\ bytes \in Seq(Token) /\ s \in Seq(Nat \X Nat) /\ Len(s) = Len(t)
  /\ \A b \in 1 .. Len(t) :
       /\ t[b].id = s[b] /\ s[b] # Garbage
       /\ \A k \in 1 .. t[b].enc : /\ t[b].off + k \in 1 .. Len(bytes)
                                   /\ bytes[t[b].off + k] = <<s[b], k>>
  /\ \A p \in 1 .. Len(bytes) : \E b \in 1 .. Len(t) : \E k \in 1 .. t[b].enc : p = t[b].off + k

\* A block that has a k-th byte has payload.
LEMMA TokenOfABlock ==
  ASSUME NEW e \in Seq(Nat), NEW i \in 1 .. Len(e), NEW k \in 1 .. e[i]
  PROVE  e[i] # 0 /\ k \in Nat
<1>1. e[i] \in Nat
  OBVIOUS
<1> QED
  BY <1>1

\* Sums of offsets in either order.
LEMMA SumsMove == \A u, v, w \in Nat : u + (v + w) = (v + u) + w
OBVIOUS

\* An entry written by EncodePipeline is laid out in this way.
LEMMA SequentialLayout ==
  ASSUME NEW file \in Seq(Seq(Nat \ {0})), NEW n \in 0 .. Len(file), NEW en, Results(file, en, n)
  PROVE  Layout(SequentialBlocks(file, en, n), SequentialPayload(file, en, n),
                SequentialContent(file, n))
<1> DEFINE B == SequentialBlocks(file, en, n)
           P == SequentialPayload(file, en, n)
           S == SequentialContent(file, n)
           before == [c \in 1 .. n |-> Before(file, en, c)]
           FB == [c \in 1 .. n |-> BlocksBehind(before[c], c, file[c], en[c])]
           FP == [c \in 1 .. n |-> EncodedPayload(c, en[c])]
           FS == [c \in 1 .. n |-> Content(c, file[c])]
           L == [c \in 1 .. n |-> Len(file[c])]
           LP == [d \in DOMAIN file |-> Len(EncodedPayload(d, en[d]))]
           first == [c \in 1 .. n |-> Total(L, 1 .. c - 1)]
<1>1. /\ n \in Nat /\ DOMAIN file = 1 .. Len(file)
      /\ \A c \in 1 .. n : /\ c \in Nat /\ c # 0 /\ c \in DOMAIN file
                           /\ file[c] \in Seq(Nat \ {0}) /\ Len(file[c]) \in Nat
                           /\ en[c] \in Encodings(file[c]) /\ en[c] \in Seq(Nat)
                           /\ Len(en[c]) = Len(file[c])
  <2>1. ASSUME NEW c \in 1 .. n
        PROVE  c \in Nat /\ c # 0 /\ c \in DOMAIN file /\ file[c] \in Seq(Nat \ {0})
    OBVIOUS
  <2>2. \A c \in 1 .. n : en[c] \in Encodings(file[c])
    BY DEF Results
  <2>3. ASSUME NEW c \in 1 .. n PROVE en[c] \in Seq(Nat) /\ Len(en[c]) = Len(file[c])
    BY <2>1, <2>2, EncodingOfAChunk
  <2>4. \A c \in 1 .. n : Len(file[c]) \in Nat
    BY <2>1
  <2> QED
    BY <2>1, <2>2, <2>3, <2>4
<1>2. ASSUME NEW c \in 1 .. n PROVE before[c] \in Nat /\ before[c] = Before(file, en, c)
  <2> DEFINE m == c - 1
  <2>1. m \in 0 .. Len(file) /\ m + 1 = c /\ \A d \in 1 .. m : d \in 1 .. n
    BY <1>1
  <2>2. Results(file, en, m)
    BY <2>1 DEF Results
  <2> HIDE DEF m
  <2>3. Before(file, en, m + 1) = Len(SequentialPayload(file, en, m))
        /\ SequentialPayload(file, en, m) \in Seq(Token)
    BY <2>1, <2>2, SequentialLength
  <2>4. Before(file, en, m + 1) \in Nat
    BY <2>3
  <2> QED
    BY <2>1, <2>4
<1>3. B = FlattenSeq(FB)
  <2> DEFINE Chunk(c) ==
               LET base == Total([d \in DOMAIN file |-> Len(EncodedPayload(d, en[d]))], 1 .. c - 1)
               IN  [b \in 1 .. Len(file[c]) |->
                      [EncodedBlocks(c, file[c], en[c])[b] EXCEPT !.off = @ + base]]
  <2>1. \A c \in 1 .. n : Chunk(c) = BlocksBehind(Before(file, en, c), c, file[c], en[c])
    BY DEF BlocksBehind, Before
  <2>2. B = FlattenSeq([c \in 1 .. n |-> Chunk(c)])
    BY DEF SequentialBlocks
  <2> HIDE DEF Chunk
  <2>3. [c \in 1 .. n |-> Chunk(c)] = FB
    BY <2>1
  <2> HIDE DEF B, FB
  <2> QED
    BY <2>2, <2>3
<1>4. P = FlattenSeq(FP) /\ S = FlattenSeq(FS)
  BY DEF SequentialPayload, SequentialContent
<1>5. \A c \in 1 .. n : /\ FB[c] = BlocksBehind(before[c], c, file[c], en[c])
                        /\ FP[c] = EncodedPayload(c, en[c]) /\ FS[c] = Content(c, file[c])
                        /\ L[c] = Len(file[c]) /\ LP[c] = Len(FP[c])
  BY <1>1
<1>6. before = [c \in 1 .. n |-> Total(LP, 1 .. c - 1)]
  BY DEF Before
<1>7. /\ FB \in [1 .. n -> Seq(Block)] /\ \A c \in 1 .. n : L[c] = Len(FB[c])
      /\ \A c \in 1 .. n : \A b \in 1 .. Len(file[c]) :
           /\ FB[c][b].id = <<c, b>> /\ FB[c][b].enc = en[c][b]
           /\ en[c][b] # 0 => FB[c][b].off = Total(en[c], 1 .. b - 1) + before[c]
  <2> HIDE DEF before, L
  <2>1. ASSUME NEW c \in 1 .. n
        PROVE  /\ FB[c] \in Seq(Block) /\ Len(FB[c]) = Len(file[c])
               /\ \A b \in 1 .. Len(file[c]) :
                    /\ FB[c][b].id = <<c, b>> /\ FB[c][b].enc = en[c][b]
                    /\ en[c][b] # 0 => FB[c][b].off = Total(en[c], 1 .. b - 1) + before[c]
    <3>1. /\ before[c] \in Nat /\ c \in Nat /\ file[c] \in Seq(Nat \ {0})
          /\ en[c] \in Encodings(file[c]) /\ FB[c] = BlocksBehind(before[c], c, file[c], en[c])
      BY <1>1, <1>2
    <3> DEFINE lens == file[c]
               e == en[c]
               base == before[c]
               made == BlocksBehind(base, c, lens, e)
    <3>2. base \in Nat /\ c \in Nat /\ lens \in Seq(Nat \ {0}) /\ e \in Encodings(lens)
      BY <3>1
    <3> HIDE DEF lens, e, base
    <3>3. /\ made \in Seq(Block) /\ Len(made) = Len(lens)
          /\ \A b \in 1 .. Len(lens) :
               /\ made[b].id = <<c, b>> /\ made[b].len = lens[b] /\ made[b].enc = e[b]
               /\ e[b] # 0 => made[b].off = Total(e, 1 .. b - 1) + base
      BY <3>2, BlocksOfAChunk
    <3>4. FB[c] = made
      BY <3>1 DEF lens, e, base
    <3> HIDE DEF made, FB
    <3> QED
      BY <3>3, <3>4 DEF lens, e, base
  <2>2. FB \in [1 .. n -> Seq(Block)]
    BY <2>1
  <2> HIDE DEF FB
  <2> QED
    BY <1>5, <2>1, <2>2
<1>8. /\ FS \in [1 .. n -> Seq(Nat \X Nat)] /\ \A c \in 1 .. n : L[c] = Len(FS[c])
      /\ \A c \in 1 .. n : \A b \in 1 .. Len(file[c]) : FS[c][b] = <<c, b>>
  <2>1. ASSUME NEW c \in 1 .. n
        PROVE  /\ FS[c] \in Seq(Nat \X Nat) /\ Len(FS[c]) = Len(file[c])
               /\ \A b \in 1 .. Len(file[c]) : FS[c][b] = <<c, b>>
    <3>1. Len(file[c]) \in Nat /\ \A b \in 1 .. Len(file[c]) : <<c, b>> \in Nat \X Nat
      BY <1>1
    <3> QED
      BY <3>1 DEF Content
  <2> QED
    BY <2>1
<1>9. FP \in [1 .. n -> Seq(Token)]
  <2>1. \A c \in 1 .. n : EncodedPayload(c, en[c]) \in Seq(Token)
    BY <1>1, PayloadOfAChunk
  <2> QED
    BY <2>1
<1> HIDE DEF B, P, S, before, FB, FP, FS, L, LP
<1>10. /\ Places(B, FB, first, n) /\ Places(S, FS, first, n) /\ Places(P, FP, before, n)
       /\ B \in Seq(Block) /\ S \in Seq(Nat \X Nat) /\ P \in Seq(Token) /\ Len(S) = Len(B)
  <2>1. Places(B, FB, first, n) /\ Places(S, FS, first, n)
    BY <1>1, <1>3, <1>4, <1>7, <1>8, FlattenPlaces
  <2>2. Places(P, FP, before, n)
    BY <1>1, <1>4, <1>5, <1>6, <1>9, FlattenPlaces
  <2>3. Len(S) = Total(L, 1 .. n) /\ Len(B) = Total(L, 1 .. n)
    <3>1. n \in Nat /\ FB \in [1 .. n -> Seq(Block)] /\ \A c \in 1 .. n : L[c] = Len(FB[c])
      BY <1>1, <1>7
    <3>2. Len(FlattenSeq(FB)) = Total(L, 1 .. n)
      BY <3>1, FlattenLength
    <3>3. FS \in [1 .. n -> Seq(Nat \X Nat)] /\ \A c \in 1 .. n : L[c] = Len(FS[c])
      BY <1>8
    <3>4. Len(FlattenSeq(FS)) = Total(L, 1 .. n)
      BY <3>1, <3>3, FlattenLength
    <3> QED
      BY <1>3, <1>4, <3>2, <3>4
  <2>4. FB \in Seq(Seq(Block)) /\ FS \in Seq(Seq(Nat \X Nat)) /\ FP \in Seq(Seq(Token))
    BY <1>1, <1>7, <1>8, <1>9
  <2>5. B \in Seq(Block) /\ S \in Seq(Nat \X Nat) /\ P \in Seq(Token)
    BY <1>3, <1>4, <2>4, FlattenType
  <2> QED
    BY <2>1, <2>2, <2>3, <2>5
<1> HIDE DEF first
<1>11. ASSUME NEW c \in 1 .. n, NEW i \in 1 .. Len(file[c]), NEW k \in 1 .. en[c][i]
       PROVE  /\ FB[c][i].off + k \in 1 .. Len(P) /\ P[FB[c][i].off + k] = <<<<c, i>>, k>>
  <2> DEFINE e == en[c]
             at == Total(e, 1 .. i - 1)
             q == at + k
  <2>1. e \in Seq(Nat) /\ c \in Nat /\ i \in 1 .. Len(e) /\ k \in 1 .. e[i] /\ e[i] # 0 /\ k \in Nat
    <3> HIDE DEF B, P, S, before, FB, FP, FS, L, LP, at, q
    <3>1. en[c] \in Seq(Nat) /\ Len(en[c]) = Len(file[c]) /\ c \in Nat
      BY <1>1
    <3>2. i \in 1 .. Len(en[c])
      BY <3>1
    <3>3. k \in 1 .. en[c][i]
      OBVIOUS
    <3>4. en[c][i] # 0 /\ k \in Nat
      BY <3>1, <3>2, <3>3, TokenOfABlock
    <3> QED
      BY <3>1, <3>2, <3>3, <3>4
  <2> HIDE DEF e
  <2>2. q \in 1 .. Len(EncodedPayload(c, e)) /\ EncodedPayload(c, e)[q] = <<<<c, i>>, k>> /\ at \in Nat
    BY <2>1, ChunkPlaces
  <2>3. before[c] + q \in 1 .. Len(P) /\ P[before[c] + q] = <<<<c, i>>, k>>
    <3> HIDE DEF q
    <3>1. FP[c] = EncodedPayload(c, e)
      BY <1>5 DEF e
    <3>2. \A j \in 1 .. Len(FP[c]) : before[c] + j \in 1 .. Len(P) /\ P[before[c] + j] = FP[c][j]
      BY <1>10 DEF Places
    <3>3. q \in 1 .. Len(FP[c]) /\ FP[c][q] = <<<<c, i>>, k>>
      BY <2>2, <3>1
    <3> QED
      BY <3>2, <3>3
  <2>4. FB[c][i].off = at + before[c]
    BY <1>7, <2>1 DEF e
  <2> HIDE DEF at
  <2>5. FB[c][i].off + k = before[c] + q
    <3>1. before[c] \in Nat /\ at \in Nat /\ k \in Nat
      BY <1>2, <2>1, <2>2
    <3>2. before[c] + (at + k) = (at + before[c]) + k
      BY <3>1, SumsMove
    <3> QED
      BY <2>4, <3>2
  <2> QED
    BY <2>3, <2>5
<1>12. ASSUME NEW b \in 1 .. Len(B)
       PROVE  /\ B[b].id = S[b] /\ S[b] # Garbage
              /\ \A k \in 1 .. B[b].enc : /\ B[b].off + k \in 1 .. Len(P)
                                          /\ P[B[b].off + k] = <<S[b], k>>
  <2>0. PICK c \in 1 .. n : \E i \in 1 .. Len(FB[c]) : b = first[c] + i
    BY <1>10 DEF Places
  <2>1. PICK i \in 1 .. Len(FB[c]) : b = first[c] + i
    BY <2>0
  <2>2. i \in 1 .. Len(FS[c]) /\ i \in 1 .. Len(file[c])
    BY <1>5, <1>7, <1>8
  <2>3. B[b] = FB[c][i] /\ S[b] = FS[c][i]
    BY <1>10, <2>1, <2>2 DEF Places
  <2>4. S[b] = <<c, i>> /\ B[b].id = <<c, i>> /\ B[b].enc = en[c][i] /\ c # 0
    <3>1. FS[c][i] = <<c, i>>
      BY <1>8, <2>2
    <3>2. FB[c][i].id = <<c, i>> /\ FB[c][i].enc = en[c][i]
      BY <1>7, <2>2
    <3>3. c # 0
      BY <1>1
    <3> QED
      BY <2>3, <3>1, <3>2, <3>3
  <2>5. S[b] # Garbage
    BY <2>4 DEF Garbage
  <2>6. \A k \in 1 .. en[c][i] : B[b].off + k \in 1 .. Len(P) /\ P[B[b].off + k] = <<<<c, i>>, k>>
    BY <1>11, <2>2, <2>3
  <2> QED
    BY <2>4, <2>5, <2>6
<1>13. ASSUME NEW p \in 1 .. Len(P)
       PROVE  \E b \in 1 .. Len(B) : \E k \in 1 .. B[b].enc : p = B[b].off + k
  <2>0. PICK c \in 1 .. n : \E q \in 1 .. Len(FP[c]) : p = before[c] + q
    BY <1>10 DEF Places
  <2>1. PICK q \in 1 .. Len(FP[c]) : p = before[c] + q
    BY <2>0
  <2> DEFINE e == en[c]
  <2>2. e \in Seq(Nat) /\ c \in Nat /\ Len(e) = Len(file[c]) /\ FP[c] = EncodedPayload(c, e)
    BY <1>1, <1>5
  <2> HIDE DEF e
  <2>9. PICK i \in 1 .. Len(e) : \E k \in 1 .. e[i] : q = Total(e, 1 .. i - 1) + k
    <3>1. q \in 1 .. Len(EncodedPayload(c, e))
      BY <2>2
    <3>2. \A j \in 1 .. Len(EncodedPayload(c, e)) :
            \E b \in 1 .. Len(e) : \E k \in 1 .. e[b] : j = Total(e, 1 .. b - 1) + k
      BY <2>2, ChunkPlaces
    <3> QED
      BY <3>1, <3>2
  <2>3. PICK k \in 1 .. e[i] : q = Total(e, 1 .. i - 1) + k
    BY <2>9
  <2> DEFINE at == Total(e, 1 .. i - 1)
             b == first[c] + i
  <2>4. at \in Nat
    BY <2>2, ChunkPlaces
  <2>5. /\ i \in 1 .. Len(file[c]) /\ i \in 1 .. Len(FB[c])
        /\ e[i] \in Nat /\ e[i] # 0 /\ k \in Nat
    <3>1. e[i] \in Nat
      <4>1. e \in Seq(Nat) /\ i \in 1 .. Len(e)
        BY <2>2
      <4> QED
        BY <4>1
    <3>2. e[i] # 0 /\ k \in Nat
      BY <3>1
    <3>3. Len(FB[c]) = Len(file[c])
      BY <1>5, <1>7
    <3> QED
      BY <2>2, <3>1, <3>2, <3>3
  <2>6. b \in 1 .. Len(B) /\ B[b] = FB[c][i]
    BY <1>10, <2>5 DEF Places
  <2>7. B[b].enc = e[i] /\ B[b].off = at + before[c]
    BY <1>7, <2>5, <2>6 DEF e
  <2> HIDE DEF at, b
  <2>8. p = B[b].off + k
    <3>1. q = at + k
      BY <2>3 DEF at
    <3> QED
      <4>1. before[c] \in Nat
        BY <1>2
      <4>2. at \in Nat /\ k \in Nat /\ p = before[c] + q /\ B[b].off = at + before[c]
        BY <2>1, <2>4, <2>5, <2>7
      <4>3. p = before[c] + (at + k) /\ B[b].off + k = (at + before[c]) + k
        BY <3>1, <4>2
      <4>4. before[c] + (at + k) = (at + before[c]) + k
        BY <4>1, <4>2, SumsMove
      <4> QED
        BY <4>3, <4>4
  <2> QED
    BY <2>3, <2>6, <2>7, <2>8
<1>14. Layout(B, P, S)
  BY <1>10, <1>12, <1>13 DEF Layout
<1> QED
  BY <1>14 DEF B, P, S

-----------------------------------------------------------------------------
(* Windows *)

\* The least number of a set that is not empty.
LEMMA MinOfNumbers ==
  ASSUME NEW S \in SUBSET Nat, S # {}
  PROVE  Min(S) \in S /\ \A x \in S : Min(S) <= x
<1>1. \E m \in S : \A x \in S : m <= x
  BY LeastNumber
<1> QED
  BY <1>1 DEF Min

\* The largest number of a set that is not empty and is bounded.
LEMMA MaxOfNumbers ==
  ASSUME NEW S \in SUBSET Nat, S # {}, NEW bound \in Nat, \A x \in S : x <= bound
  PROVE  Max(S) \in S /\ \A x \in S : x <= Max(S)
<1> DEFINE R == {y \in Nat : \E x \in S : y + x = bound}
<1>1. \A x \in S : bound - x \in Nat /\ bound - x + x = bound
  OBVIOUS
<1>2. R \in SUBSET Nat /\ R # {}
  BY <1>1
<1>3. PICK m \in R : \A y \in R : m <= y
  <2> HIDE DEF R
  <2> QED
    BY <1>2, LeastNumber
<1>4. PICK x \in S : m + x = bound
  BY <1>3
<1>5. ASSUME NEW y \in S PROVE x >= y
  <2>1. bound - y \in R
    BY <1>1
  <2>2. m <= bound - y /\ m \in Nat /\ x \in Nat /\ y \in Nat
    BY <1>3, <2>1
  <2> QED
    BY <1>4, <2>2
<1>6. \E z \in S : \A y \in S : z >= y
  BY <1>5
<1>7. Max(S) \in S /\ \A y \in S : Max(S) >= y
  BY <1>6 DEF Max
<1> QED
  BY <1>7

\* Descriptors that point into the payload.
InRange(t, d) ==
  /\ t \in Seq(Block) /\ d \in Seq(Token)
  /\ \A b \in 1 .. Len(t) : t[b].enc > 0 => t[b].off + t[b].enc <= Len(d)

\* What every block decodes to when it is read from the whole payload.
BytesOf(t, d, b) == SubSeq(d, t[b].off + 1, t[b].off + t[b].enc)
Whole(t, d) == [b \in 1 .. Len(t) |-> DecodedBlock(t[b], BytesOf(t, d, b))]

\* It is a sequence with a member for each block.
LEMMA WholeType ==
  ASSUME NEW t \in Seq(Block), NEW d
  PROVE  \E T : Whole(t, d) \in Seq(T) /\ Len(Whole(t, d)) = Len(t)
<1> DEFINE f == [b \in 1 .. Len(t) |-> DecodedBlock(t[b], BytesOf(t, d, b))]
           T == {f[b] : b \in 1 .. Len(t)}
<1>1. Len(t) \in Nat
  OBVIOUS
<1>2. \A b \in 1 .. Len(t) : f[b] \in T
  OBVIOUS
<1>3. f = [b \in 1 .. Len(t) |-> f[b]]
  OBVIOUS
<1>4. Whole(t, d) = f
  BY DEF Whole
<1> HIDE DEF f, T
<1>5. f \in Seq(T) /\ Len(f) = Len(t)
  BY <1>1, <1>2, <1>3
<1> QED
  BY <1>4, <1>5

\* A fill block decodes to the value in its descriptor.
LEMMA FillDecodes ==
  ASSUME NEW block, ~HasPayload(block), NEW bytes
  PROVE  DecodedBlock(block, bytes) = block.id
BY DEF DecodedBlock

\* The payload of a window, read from the archive in one piece, holds the bytes
\* of each of its blocks.
LEMMA WindowBytes ==
  ASSUME NEW t, NEW d, InRange(t, d),
         NEW w, w.first \in 1 .. Len(t), w.end \in 1 .. Len(t),
         NEW b \in WithPayload(t, w)
  PROVE  LET start == PayloadStart(t, w)
             piece == SubSeq(d, start + 1, PayloadEnd(t, w))
         IN  SubSeq(piece, t[b].off - start + 1, t[b].off - start + t[b].enc) = BytesOf(t, d, b)
<1> DEFINE start == PayloadStart(t, w)
           end == PayloadEnd(t, w)
           starts == {t[i].off : i \in WithPayload(t, w)}
           ends == {t[i].off + t[i].enc : i \in WithPayload(t, w)}
<1>1. ASSUME NEW i \in WithPayload(t, w)
      PROVE  /\ i \in 1 .. Len(t) /\ t[i].off \in Nat /\ t[i].enc \in Nat /\ t[i].enc > 0
             /\ t[i].off + t[i].enc <= Len(d)
  <2>1. i \in w.first .. w.end /\ HasPayload(t[i])
    BY DEF WithPayload
  <2>2. i \in 1 .. Len(t) /\ t \in Seq(Block)
    BY <2>1 DEF InRange
  <2>3. t[i] \in Block
    BY <2>2
  <2> QED
    BY <2>1, <2>2, <2>3 DEF InRange, HasPayload, Block
<1>2. starts \in SUBSET Nat /\ starts # {} /\ ends \in SUBSET Nat /\ ends # {}
  BY <1>1
<1>3. Len(d) \in Nat /\ d \in Seq(Token) /\ \A x \in ends : x <= Len(d)
  BY <1>1 DEF InRange
<1>4. t[b].off \in starts /\ t[b].off + t[b].enc \in ends
  OBVIOUS
<1>5. start = Min(starts) /\ end = Max(ends)
  BY DEF PayloadStart, PayloadEnd
<1> HIDE DEF start, end, starts, ends
<1>6. start \in Nat /\ start <= t[b].off
  BY <1>2, <1>4, <1>5, MinOfNumbers
<1>7. end \in Nat /\ end <= Len(d) /\ t[b].off + t[b].enc <= end
  <2>1. Max(ends) \in ends /\ \A x \in ends : x <= Max(ends)
    BY <1>2, <1>3, MaxOfNumbers
  <2> QED
    BY <1>2, <1>3, <1>4, <1>5, <2>1
<1> DEFINE off == t[b].off
           n == t[b].enc
<1>8. off \in Nat /\ n \in Nat /\ n > 0
  BY <1>1
<1> HIDE DEF off, n
<1>9. start <= off /\ off + n <= end
  BY <1>6, <1>7 DEF off, n
<1>10. /\ start + 1 \in 1 .. Len(d) /\ end \in 1 .. Len(d)
       /\ off - start + 1 \in 1 .. end - (start + 1) + 1
       /\ off - start + n \in 1 .. end - (start + 1) + 1
       /\ start + 1 + (off - start + 1) - 1 = off + 1
       /\ start + 1 + (off - start + n) - 1 = off + n
  BY <1>3, <1>6, <1>7, <1>8, <1>9
<1>11. SubSeq(SubSeq(d, start + 1, end), off - start + 1, off - start + n) =
         SubSeq(d, start + 1 + (off - start + 1) - 1, start + 1 + (off - start + n) - 1)
  <2> DEFINE i == start + 1
             p == off - start + 1
             q == off - start + n
  <2>1. /\ i \in 1 .. Len(d) /\ end \in 1 .. Len(d)
        /\ p \in 1 .. end - i + 1 /\ q \in 1 .. end - i + 1
    BY <1>10
  <2> HIDE DEF i, p, q
  <2>2. SubSeq(SubSeq(d, i, end), p, q) = SubSeq(d, i + p - 1, i + q - 1)
    BY <1>3, <2>1, SubSeqOfSubSeq
  <2> QED
    BY <2>2 DEF i, p, q
<1>12. SubSeq(SubSeq(d, start + 1, end), off - start + 1, off - start + n) =
         SubSeq(d, off + 1, off + n)
  BY <1>10, <1>11
<1> QED
  BY <1>12 DEF start, end, off, n, BytesOf

\* A window decodes to what its blocks decode to in the whole payload.
LEMMA WindowDecodes ==
  ASSUME NEW t, NEW d, InRange(t, d),
         NEW w, w.first \in 1 .. Len(t), w.end \in 1 .. Len(t), w.first <= w.end
  PROVE  DecodedWindow(t, d, w) = SubSeq(Whole(t, d), w.first, w.end)
<1> DEFINE start == IF WithPayload(t, w) = {} THEN 0 ELSE PayloadStart(t, w)
           end == IF WithPayload(t, w) = {} THEN 0 ELSE PayloadEnd(t, w)
           piece == SubSeq(d, start + 1, end)
           bytes == [b \in 1 .. Len(t) |->
                       SubSeq(piece, t[b].off - start + 1, t[b].off - start + t[b].enc)]
           n == w.end - w.first + 1
           f == [k \in 1 .. n |-> DecodedBlock(t[w.first + k - 1], bytes[w.first + k - 1])]
           W == Whole(t, d)
<1>1. /\ t \in Seq(Block) /\ Len(t) \in Nat /\ n \in Nat /\ n > 0
      /\ w.first \in Nat /\ w.end \in Nat
      /\ \A k \in 1 .. n : w.first + k - 1 \in w.first .. w.end /\ w.first + k - 1 \in 1 .. Len(t)
  <2>1. t \in Seq(Block) /\ Len(t) \in Nat
    BY DEF InRange
  <2>2. \A l \in Nat : \A a, z \in 1 .. l : a <= z =>
          /\ z - a + 1 \in Nat /\ z - a + 1 > 0 /\ a \in Nat /\ z \in Nat
          /\ \A k \in 1 .. z - a + 1 : a + k - 1 \in a .. z /\ a + k - 1 \in 1 .. l
    OBVIOUS
  <2> HIDE DEF start, end, piece, bytes, f, W
  <2> QED
    BY <2>1, <2>2
<1>2. DecodedWindow(t, d, w) = f
  <2>1. DecodedWindow(t, d, w) =
          [k \in 1 .. n |->
             DecodedBlock(t[w.first + k - 1],
                          SubSeq(piece, t[w.first + k - 1].off - start + 1,
                                 t[w.first + k - 1].off - start + t[w.first + k - 1].enc))]
    BY DEF DecodedWindow
  <2>2. \A b \in 1 .. Len(t) :
          bytes[b] = SubSeq(piece, t[b].off - start + 1, t[b].off - start + t[b].enc)
    OBVIOUS
  <2> HIDE DEF start, piece, bytes, n
  <2> QED
    BY <1>1, <2>1, <2>2
<1>3. ASSUME NEW b \in w.first .. w.end
      PROVE  DecodedBlock(t[b], bytes[b]) = DecodedBlock(t[b], BytesOf(t, d, b))
  <2>1. CASE ~HasPayload(t[b])
    BY <2>1, FillDecodes
  <2>2. CASE HasPayload(t[b])
    <3>1. b \in WithPayload(t, w) /\ b \in 1 .. Len(t)
      BY <1>1, <2>2 DEF WithPayload
    <3>2. start = PayloadStart(t, w) /\ end = PayloadEnd(t, w)
      BY <3>1
    <3>3. bytes[b] = SubSeq(piece, t[b].off - start + 1, t[b].off - start + t[b].enc)
      BY <3>1
    <3>4. piece = SubSeq(d, start + 1, end)
      OBVIOUS
    <3> HIDE DEF start, end, piece, bytes
    <3>5. SubSeq(piece, t[b].off - start + 1, t[b].off - start + t[b].enc) = BytesOf(t, d, b)
      BY <3>1, <3>2, <3>4, WindowBytes
    <3> QED
      BY <3>3, <3>5
  <2> QED
    BY <2>1, <2>2
<1> HIDE DEF bytes
<1>4. \A b \in 1 .. Len(t) : W[b] = DecodedBlock(t[b], BytesOf(t, d, b))
  BY DEF Whole
<1>5. \A k \in 1 .. n : f[k] = W[w.first + k - 1]
  BY <1>1, <1>3, <1>4
<1>6. PICK T : W \in Seq(T) /\ Len(W) = Len(t)
  BY <1>1, WholeType
<1>7. f = [k \in 1 .. n |-> f[k]]
  OBVIOUS
<1> HIDE DEF W, f, n
<1> DEFINE i == w.first
           j == w.end
           g == SubSeq(W, i, j)
<1>8. /\ i \in Int /\ j \in Int /\ i <= j /\ n = j - i + 1
      /\ \A b \in i .. j : W[b] \in T
  BY <1>1, <1>6 DEF n
<1> HIDE DEF i, j
<1>9. g \in Seq(T) /\ Len(g) = j - i + 1 /\ \A k \in 1 .. j - i + 1 : g[k] = W[i + k - 1]
  BY <1>8, SubSeqProperties
<1>10. g \in Seq(T) /\ Len(g) = n /\ \A k \in 1 .. n : g[k] = W[i + k - 1]
  BY <1>8, <1>9
<1> HIDE DEF g
<1>11. \A k \in 1 .. n : f[k] = g[k]
  BY <1>5, <1>10 DEF i
<1>12. f \in Seq(T) /\ Len(f) = n
  <2>1. \A k \in 1 .. n : g[k] \in T
    BY <1>10
  <2>2. \A k \in 1 .. n : f[k] \in T
    BY <1>11, <2>1
  <2>3. f \in [1 .. n -> T] /\ n \in Nat
    BY <1>1, <1>7, <2>2
  <2> QED
    BY <2>3
<1>13. f = g
  BY <1>10, <1>11, <1>12, SeqEqual
<1> QED
  BY <1>2, <1>13 DEF g, i, j, W

-----------------------------------------------------------------------------
(* Intact and damaged entries *)

\* Bytes of the payload, at an offset that leaves room for them.
LEMMA BytesProperties ==
  ASSUME NEW d \in Seq(Token), NEW t, NEW b, t[b].off \in Nat, t[b].enc \in Nat,
         t[b].off + t[b].enc <= Len(d)
  PROVE  /\ BytesOf(t, d, b) \in Seq(Token) /\ Len(BytesOf(t, d, b)) = t[b].enc
         /\ \A k \in 1 .. t[b].enc : BytesOf(t, d, b)[k] = d[t[b].off + k]
<1> DEFINE off == t[b].off
           n == t[b].enc
           i == off + 1
           j == off + n
           g == SubSeq(d, i, j)
<1>1. off \in Nat /\ n \in Nat /\ off + n <= Len(d) /\ Len(d) \in Nat
  OBVIOUS
<1> HIDE DEF off, n
<1>2. /\ i \in Int /\ j \in Int /\ j - i + 1 = n
      /\ (IF i <= j THEN j - i + 1 ELSE 0) = n
      /\ \A k \in i .. j : k \in 1 .. Len(d)
      /\ \A k \in 1 .. n : i + k - 1 = off + k
  BY <1>1
<1>3. \A k \in i .. j : d[k] \in Token
  BY <1>2
<1> HIDE DEF i, j
<1>4. /\ g \in Seq(Token) /\ Len(g) = IF i <= j THEN j - i + 1 ELSE 0
      /\ \A k \in 1 .. j - i + 1 : g[k] = d[i + k - 1]
  BY <1>2, <1>3, SubSeqProperties
<1> HIDE DEF g
<1>5. g \in Seq(Token) /\ Len(g) = n /\ \A k \in 1 .. n : g[k] = d[off + k]
  BY <1>2, <1>4
<1> QED
  BY <1>5 DEF g, i, j, off, n, BytesOf

\* The fields of a block descriptor.
LEMMA BlockTypes ==
  ASSUME NEW t \in Seq(Block), NEW b \in 1 .. Len(t)
  PROVE  /\ t[b].id \in Nat \X Nat /\ t[b].len \in Nat /\ t[b].enc \in Nat /\ t[b].off \in Nat
         /\ HasPayload(t[b]) <=> t[b].enc # 0
<1>1. t[b] \in Block
  OBVIOUS
<1>2. /\ t[b].id \in Nat \X Nat /\ t[b].len \in Nat /\ t[b].enc \in Nat /\ t[b].off \in Nat
  BY <1>1 DEF Block
<1> QED
  BY <1>2 DEF HasPayload

\* A block with payload decodes to what its bytes are the encoding of.
LEMMA PayloadDecodes ==
  ASSUME NEW block, HasPayload(block), NEW bytes
  PROVE  DecodedBlock(block, bytes) =
           IF bytes = Stored(bytes[1][1], block.enc) THEN bytes[1][1] ELSE Garbage
BY DEF DecodedBlock

\* The offsets of a laid out entry are in its payload.
LEMMA LayoutInRange ==
  ASSUME NEW t, NEW p, NEW s, Layout(t, p, s)
  PROVE  /\ InRange(t, p)
         /\ \A b \in 1 .. Len(t) : HasPayload(t[b]) => t[b].off + t[b].enc <= Len(p)
<1>1. t \in Seq(Block) /\ p \in Seq(Token)
  BY DEF Layout
<1>2. ASSUME NEW b \in 1 .. Len(t), t[b].enc # 0 PROVE t[b].off + t[b].enc <= Len(p)
  <2>1. t[b].enc \in Nat /\ t[b].off \in Nat /\ Len(p) \in Nat
    BY <1>1, BlockTypes
  <2>2. t[b].enc \in 1 .. t[b].enc
    BY <1>2, <2>1
  <2>3. t[b].off + t[b].enc \in 1 .. Len(p)
    BY <2>2 DEF Layout
  <2> QED
    BY <2>1, <2>3
<1>3. \A b \in 1 .. Len(t) : HasPayload(t[b]) => t[b].enc # 0
  BY <1>1, BlockTypes
<1>4. \A b \in 1 .. Len(t) : t[b].enc > 0 => t[b].enc # 0
  OBVIOUS
<1> QED
  BY <1>1, <1>2, <1>3, <1>4 DEF InRange

\* What was written decodes to the source.
LEMMA IntactDecodes ==
  ASSUME NEW t, NEW p, NEW s, Layout(t, p, s)
  PROVE  Whole(t, p) = s
<1>1. t \in Seq(Block) /\ p \in Seq(Token) /\ s \in Seq(Nat \X Nat) /\ Len(s) = Len(t)
  BY DEF Layout
<1>2. ASSUME NEW b \in 1 .. Len(t) PROVE DecodedBlock(t[b], BytesOf(t, p, b)) = s[b]
  <2>1. t[b].id = s[b] /\ t[b].enc \in Nat /\ t[b].off \in Nat
    BY <1>1, BlockTypes DEF Layout
  <2>2. CASE ~HasPayload(t[b])
    BY <2>1, <2>2, FillDecodes
  <2>3. CASE HasPayload(t[b])
    <3> DEFINE bytes == BytesOf(t, p, b)
               n == t[b].enc
    <3>1. t[b].off + t[b].enc <= Len(p) /\ n # 0 /\ n \in Nat
      BY <1>1, <2>1, <2>3, LayoutInRange, BlockTypes
    <3>2. /\ bytes \in Seq(Token) /\ Len(bytes) = n
          /\ \A k \in 1 .. n : bytes[k] = p[t[b].off + k]
      <4>1. p \in Seq(Token) /\ t[b].off \in Nat /\ t[b].enc \in Nat
            /\ t[b].off + t[b].enc <= Len(p)
        BY <1>1, <2>1, <3>1
      <4> QED
        BY <4>1, BytesProperties
    <3>3. \A k \in 1 .. n : p[t[b].off + k] = <<s[b], k>>
      BY DEF Layout
    <3> HIDE DEF bytes, n
    <3>4. \A k \in 1 .. n : bytes[k] = <<s[b], k>>
      BY <3>2, <3>3
    <3>5. bytes[1][1] = s[b]
      <4>1. 1 \in 1 .. n
        BY <3>1
      <4>2. bytes[1] = <<s[b], 1>>
        BY <3>4, <4>1
      <4> QED
        BY <4>2
    <3>6. bytes = Stored(s[b], n)
      <4>1. bytes = [k \in 1 .. n |-> bytes[k]]
        BY <3>1, <3>2
      <4> QED
        BY <3>4, <4>1 DEF Stored
    <3>7. bytes = Stored(bytes[1][1], n)
      BY <3>5, <3>6
    <3>8. DecodedBlock(t[b], bytes) = bytes[1][1]
      BY <2>3, <3>7, PayloadDecodes DEF n
    <3> QED
      BY <3>5, <3>8 DEF bytes
  <2> QED
    BY <2>2, <2>3
<1>3. s = [b \in 1 .. Len(t) |-> s[b]]
  BY <1>1
<1> QED
  BY <1>2, <1>3 DEF Whole

\* One byte of the payload, or the value of one fill block, has changed.
ByteReplaced(d, p, k) == d = [p EXCEPT ![k] = <<Garbage, 0>>]
FillReplaced(u, t, b) == u = [t EXCEPT ![b].id = Garbage]

\* A sequence in which one member is replaced.
LEMMA MemberReplaced ==
  ASSUME NEW T, NEW s \in Seq(T), NEW k \in 1 .. Len(s), NEW x \in T
  PROVE  /\ [s EXCEPT ![k] = x] \in Seq(T) /\ Len([s EXCEPT ![k] = x]) = Len(s)
         /\ [s EXCEPT ![k] = x][k] = x
         /\ \A i \in 1 .. Len(s) : i # k => [s EXCEPT ![k] = x][i] = s[i]
  OBVIOUS

\* A changed byte of the payload makes its block decode to something else.
LEMMA DamagedByte ==
  ASSUME NEW t, NEW p, NEW s, Layout(t, p, s), NEW k \in 1 .. Len(p), NEW d, ByteReplaced(d, p, k)
  PROVE  InRange(t, d) /\ Whole(t, d) # s
<1>1. t \in Seq(Block) /\ p \in Seq(Token) /\ s \in Seq(Nat \X Nat) /\ Len(s) = Len(t)
  BY DEF Layout
<1>2. d \in Seq(Token) /\ Len(d) = Len(p) /\ d[k] = <<Garbage, 0>>
  <2>1. <<Garbage, 0>> \in Token
    BY DEF Token, Garbage
  <2> QED
    BY <1>1, <2>1, MemberReplaced DEF ByteReplaced
<1>3. InRange(t, p) /\ InRange(t, d)
  BY <1>2, LayoutInRange DEF InRange
<1>4. PICK b \in 1 .. Len(t) : \E j \in 1 .. t[b].enc : k = t[b].off + j
  BY DEF Layout
<1>5. PICK j \in 1 .. t[b].enc : k = t[b].off + j
  BY <1>4
<1> DEFINE bytes == BytesOf(t, d, b)
           n == t[b].enc
<1>6. n \in Nat /\ t[b].off \in Nat /\ j \in Nat /\ j # 0 /\ n # 0 /\ HasPayload(t[b])
  <2>1. n \in Nat /\ t[b].off \in Nat /\ (HasPayload(t[b]) <=> n # 0)
    BY <1>1, BlockTypes
  <2>2. j \in Nat /\ j # 0 /\ n # 0
    BY <1>5, <2>1
  <2> QED
    BY <2>1, <2>2
<1>7. t[b].off + t[b].enc <= Len(d)
  <2>1. t[b].off + t[b].enc <= Len(p)
    BY <1>6, LayoutInRange
  <2> QED
    BY <1>2, <2>1
<1>8. \A i \in 1 .. n : bytes[i] = d[t[b].off + i]
  BY <1>2, <1>6, <1>7, BytesProperties
<1>9. bytes[j] = <<Garbage, 0>>
  BY <1>2, <1>5, <1>8
<1>10. bytes # Stored(bytes[1][1], n)
  <2>1. j \in 1 .. n
    BY <1>5
  <2>2. Stored(bytes[1][1], n)[j] = <<bytes[1][1], j>>
    BY <2>1 DEF Stored
  <2> DEFINE x == bytes[1][1]
  <2> HIDE DEF x
  <2>3. <<x, j>> # <<Garbage, 0>>
    BY <1>6
  <2> HIDE DEF bytes
  <2> QED
    BY <1>9, <2>2, <2>3 DEF x
<1>11. DecodedBlock(t[b], bytes) = Garbage
  BY <1>6, <1>10, PayloadDecodes
<1>12. Whole(t, d)[b] = Garbage /\ s[b] # Garbage
  BY <1>11 DEF Whole, Layout
<1> QED
  BY <1>3, <1>12

\* So does a changed fill value.
LEMMA DamagedFill ==
  ASSUME NEW t, NEW p, NEW s, Layout(t, p, s),
         NEW b \in 1 .. Len(t), ~HasPayload(t[b]), NEW u, FillReplaced(u, t, b)
  PROVE  /\ InRange(u, p) /\ Whole(u, p) # s
         /\ Len(u) = Len(t) /\ \A i \in 1 .. Len(t) : u[i].len = t[i].len
<1>1. t \in Seq(Block) /\ p \in Seq(Token) /\ s \in Seq(Nat \X Nat) /\ Len(s) = Len(t)
  BY DEF Layout
<1> DEFINE block == [t[b] EXCEPT !.id = Garbage]
<1>2. /\ block \in Block /\ block.id = Garbage /\ block.len = t[b].len
      /\ block.enc = t[b].enc /\ block.off = t[b].off
  <2>1. t[b] \in Block /\ Garbage \in Nat \X Nat
    BY <1>1 DEF Garbage
  <2> HIDE DEF block
  <2> QED
    BY <2>1 DEF Block, block
<1> HIDE DEF block
<1>3. u = [t EXCEPT ![b] = block]
  BY DEF block, FillReplaced
<1>4. /\ u \in Seq(Block) /\ Len(u) = Len(t) /\ u[b] = block
      /\ \A i \in 1 .. Len(t) : i # b => u[i] = t[i]
  <2>1. t \in Seq(Block) /\ block \in Block
    BY <1>1, <1>2
  <2> QED
    BY <1>3, <2>1, MemberReplaced
<1>5. \A i \in 1 .. Len(t) : u[i].len = t[i].len /\ u[i].enc = t[i].enc /\ u[i].off = t[i].off
  BY <1>2, <1>4
<1>6. InRange(u, p)
  BY <1>1, <1>4, <1>5, LayoutInRange DEF InRange
<1>7. ~HasPayload(u[b]) /\ u[b].id = Garbage
  BY <1>2, <1>4 DEF HasPayload
<1>8. Whole(u, p)[b] = Garbage /\ s[b] # Garbage
  <2>1. DecodedBlock(u[b], BytesOf(u, p, b)) = Garbage
    BY <1>7, FillDecodes
  <2> QED
    BY <1>4, <2>1 DEF Whole, Layout
<1> QED
  BY <1>4, <1>5, <1>6, <1>8

\* A member is at most the sum, and alone it is the sum.
LEMMA TotalBoundsMembers ==
  ASSUME NEW S, IsFiniteSet(S), NEW f, \A x \in S : f[x] \in Nat, NEW y \in S
  PROVE  Total(f, {y}) = f[y] /\ f[y] <= Total(f, S)
<1>1. f[y] \in Nat /\ IsFiniteSet({y}) /\ IsFiniteSet({}) /\ y \notin {}
  BY FS_Singleton, FS_EmptySet
<1>2. Cardinality(Units(f, {} \cup {y})) = Cardinality(Units(f, {})) + f[y]
  <2>1. \A x \in {} : f[x] \in Nat
    OBVIOUS
  <2> QED
    BY <1>1, <2>1, UnitsOfOneMore
<1>3. Units(f, {}) = {} /\ {} \cup {y} = {y}
  BY DEF Units
<1>4. Cardinality({}) = 0
  BY FS_EmptySet
<1>5. Cardinality(Units(f, {y})) = f[y]
  BY <1>1, <1>2, <1>3, <1>4
<1>6. Total(f, {y}) = Cardinality(Units(f, {y}))
  <2>1. \A x \in {y} : f[x] \in Nat
    BY <1>1
  <2> QED
    BY <1>1, <2>1, TotalIsSize
<1>7. Units(f, {y}) \subseteq Units(f, S)
  BY DEF Units
<1>8. IsFiniteSet(Units(f, S)) /\ Total(f, S) = Cardinality(Units(f, S))
  BY UnitsAreFinite, TotalIsSize
<1>9. Cardinality(Units(f, {y})) <= Cardinality(Units(f, S))
  BY <1>7, <1>8, FS_Subset
<1> QED
  BY <1>5, <1>6, <1>8, <1>9

\* resolve_decode_block_window: a window has at least one block.
LEMMA WindowIsThere ==
  ASSUME NEW t \in Seq(Block), NEW limit \in Nat, \A b \in 1 .. Len(t) : t[b].len <= limit,
         NEW first \in 1 .. Len(t)
  PROVE  WindowEnd(t, first, limit) \in first .. Len(t)
<1> DEFINE len == [b \in DOMAIN t |-> t[b].len]
           S == {end \in first .. Len(t) : Total(len, first .. end) <= limit}
<1>1. Len(t) \in Nat /\ first \in Nat /\ DOMAIN t = 1 .. Len(t)
  OBVIOUS
<1>2. len[first] \in Nat /\ len[first] <= limit
  BY <1>1, BlockTypes
<1> HIDE DEF len
<1>3. Total(len, {first}) = len[first]
  <2>1. IsFiniteSet({first}) /\ \A x \in {first} : len[x] \in Nat
    BY <1>2, FS_Singleton
  <2> QED
    BY <2>1, TotalBoundsMembers
<1>4. first .. first = {first}
  BY <1>1
<1>5. first \in S
  <2>1. Total(len, first .. first) <= limit
    BY <1>2, <1>3, <1>4
  <2> QED
    BY <1>1, <2>1
<1>6. S \in SUBSET Nat /\ S # {} /\ \A x \in S : x <= Len(t)
  <2>1. S # {}
    BY <1>5
  <2> QED
    BY <1>1, <2>1
<1>7. \A x \in S : x \in first .. Len(t)
  OBVIOUS
<1>8. WindowEnd(t, first, limit) = Max(S)
  BY DEF WindowEnd, len
<1> HIDE DEF S
<1>9. Max(S) \in S
  BY <1>1, <1>6, MaxOfNumbers
<1> QED
  BY <1>7, <1>8, <1>9

-----------------------------------------------------------------------------
(* The queue of windows *)

\* The queue of a reader: windows of n blocks that follow each other and end
\* before block `following`.
Windows == [first : Nat, end : Nat]
Consecutive(p, n, following) ==
  /\ p \in Seq(Windows)
  /\ \A k \in 1 .. Len(p) :
       /\ p[k].first \in 1 .. n /\ p[k].end \in p[k].first .. n
       /\ p[k].end + 1 = IF k = Len(p) THEN following ELSE p[k + 1].first

\* How many blocks have left the queue.
Done(p, following) == IF p = <<>> THEN following - 1 ELSE Head(p).first - 1

\* A window that starts at block `following` is queued.
LEMMA QueueAppend ==
  ASSUME NEW n \in Nat, NEW following \in 1 .. n, NEW p, Consecutive(p, n, following),
         NEW end \in following .. n,
         NEW q, q = Append(p, [first |-> following, end |-> end])
  PROVE  Consecutive(q, n, end + 1) /\ Done(q, end + 1) = Done(p, following)
<1> DEFINE w == [first |-> following, end |-> end]
           m == Len(p)
<1>1. p \in Seq(Windows) /\ m \in Nat /\ following \in Nat /\ end \in Nat /\ w \in Windows
  BY DEF Consecutive, Windows
<1>2. w.first = following /\ w.end = end
  OBVIOUS
<1> HIDE DEF w, m
<1>3. q \in Seq(Windows) /\ Len(q) = m + 1 /\ q[m + 1] = w /\ \A k \in 1 .. m : q[k] = p[k]
  <2>1. q = Append(p, w)
    BY DEF w
  <2> QED
    BY <1>1, <2>1, AppendProperties DEF m
<1>4. ASSUME NEW k \in 1 .. Len(q)
      PROVE  /\ q[k].first \in 1 .. n /\ q[k].end \in q[k].first .. n
             /\ q[k].end + 1 = IF k = Len(q) THEN end + 1 ELSE q[k + 1].first
  <2>1. CASE k = m + 1
    BY <1>1, <1>2, <1>3, <2>1
  <2>2. CASE k # m + 1
    <3>1. k \in 1 .. m /\ k # Len(q) /\ q[k] = p[k]
      BY <1>1, <1>3, <2>2
    <3>2. p[k].first \in 1 .. n /\ p[k].end \in p[k].first .. n
          /\ p[k].end + 1 = IF k = m THEN following ELSE p[k + 1].first
      BY <3>1 DEF Consecutive, m
    <3>3. q[k + 1].first = IF k = m THEN following ELSE p[k + 1].first
      <4>1. CASE k = m
        BY <1>2, <1>3, <4>1
      <4>2. CASE k # m
        <5>1. k + 1 \in 1 .. m
          BY <1>1, <3>1, <4>2
        <5> QED
          BY <1>3, <4>2, <5>1
      <4> QED
        BY <4>1, <4>2
    <3> QED
      BY <3>1, <3>2, <3>3
  <2> QED
    BY <2>1, <2>2
<1>5. Done(q, end + 1) = Done(p, following)
  <2>1. q # <<>> /\ Head(q) = q[1]
    BY <1>1, <1>3
  <2>2. CASE m = 0
    <3>1. p = <<>> /\ q[1] = w
      BY <1>1, <1>3, <2>2 DEF m
    <3> QED
      BY <1>2, <2>1, <3>1 DEF Done
  <2>3. CASE m # 0
    <3>1. p # <<>> /\ Head(p) = p[1] /\ q[1] = p[1]
      BY <1>1, <1>3, <2>3 DEF m
    <3> QED
      BY <2>1, <3>1 DEF Done
  <2> QED
    BY <2>2, <2>3
<1> QED
  BY <1>3, <1>4, <1>5 DEF Consecutive

\* The oldest window starts right behind the blocks that have left the queue.
LEMMA QueuePop ==
  ASSUME NEW n \in Nat, NEW following \in 1 .. n + 1, NEW p, Consecutive(p, n, following),
         p # <<>>
  PROVE  /\ Head(p).first \in 1 .. n /\ Head(p).end \in Head(p).first .. n
         /\ Done(p, following) = Head(p).first - 1
         /\ Consecutive(Tail(p), n, following) /\ Done(Tail(p), following) = Head(p).end
<1> DEFINE m == Len(p)
           q == Tail(p)
<1>1. p \in Seq(Windows) /\ m \in Nat /\ m # 0 /\ Head(p) = p[1] /\ 1 \in 1 .. m
  BY DEF Consecutive
<1>2. q \in Seq(Windows) /\ Len(q) = m - 1 /\ \A k \in 1 .. m - 1 : q[k] = p[k + 1]
  BY <1>1
<1>3. \A k \in 1 .. m :
         /\ p[k].first \in 1 .. n /\ p[k].end \in p[k].first .. n
         /\ p[k].end + 1 = IF k = m THEN following ELSE p[k + 1].first
  BY DEF Consecutive
<1> HIDE DEF m, q
<1>4. ASSUME NEW k \in 1 .. Len(q)
      PROVE  /\ q[k].first \in 1 .. n /\ q[k].end \in q[k].first .. n
             /\ q[k].end + 1 = IF k = Len(q) THEN following ELSE q[k + 1].first
  <2>1. k \in 1 .. m - 1 /\ k + 1 \in 1 .. m /\ q[k] = p[k + 1]
    BY <1>1, <1>2
  <2>2. /\ p[k + 1].first \in 1 .. n /\ p[k + 1].end \in p[k + 1].first .. n
        /\ p[k + 1].end + 1 = IF k + 1 = m THEN following ELSE p[(k + 1) + 1].first
    BY <1>3, <2>1
  <2>3. CASE k = m - 1
    BY <1>1, <1>2, <2>1, <2>2, <2>3
  <2>4. CASE k # m - 1
    <3>1. k + 1 \in 1 .. m - 1 /\ k + 1 # m /\ k # Len(q)
      BY <1>1, <1>2, <2>1, <2>4
    <3>2. q[k + 1] = p[(k + 1) + 1]
      BY <1>2, <3>1
    <3> QED
      BY <2>1, <2>2, <3>1, <3>2
  <2> QED
    BY <2>3, <2>4
<1>5. Done(q, following) = p[1].end
  <2>1. p[1].end \in Nat /\ p[1].end + 1 = IF 1 = m THEN following ELSE p[1 + 1].first
    BY <1>1, <1>3
  <2>2. CASE m = 1
    <3>1. q = <<>>
      BY <1>2, <2>2
    <3> QED
      BY <2>1, <2>2, <3>1 DEF Done
  <2>3. CASE m # 1
    <3>1. 1 \in 1 .. m - 1
      BY <1>1, <2>3
    <3>2. q # <<>> /\ Head(q).first = p[1 + 1].first
      BY <1>2, <3>1
    <3>3. Done(q, following) = p[1 + 1].first - 1
      BY <3>2 DEF Done
    <3>4. p[1 + 1].first = p[1].end + 1
      BY <2>1, <2>3
    <3> QED
      BY <2>1, <3>3, <3>4
  <2> QED
    BY <2>2, <2>3
<1>6. Consecutive(q, n, following)
  BY <1>2, <1>4 DEF Consecutive
<1>7. Done(p, following) = Head(p).first - 1
  BY DEF Done
<1>8. Head(p).first \in 1 .. n /\ Head(p).end \in Head(p).first .. n
  BY <1>1, <1>3
<1> QED
  BY <1>1, <1>5, <1>6, <1>7, <1>8 DEF q

\* A window as large as the largest block holds each of them.
LEMMA WindowHoldsBlocks ==
  ASSUME NEW t \in Seq(Block), NEW chunk_size \in Nat,
         NEW m, m = Max({chunk_size} \cup {t[b].len : b \in DOMAIN t})
  PROVE  m \in Nat /\ \A b \in 1 .. Len(t) : t[b].len <= m
<1> DEFINE B == 1 .. Len(t)
           len == [b \in B |-> t[b].len]
           S == {chunk_size} \cup {t[b].len : b \in DOMAIN t}
           bound == chunk_size + Total(len, B)
<1>1. IsFiniteSet(B) /\ DOMAIN t = B /\ \A b \in B : len[b] = t[b].len /\ len[b] \in Nat
  <2>1. Len(t) \in Nat
    OBVIOUS
  <2>2. \A b \in B : t[b].len \in Nat
    BY BlockTypes
  <2> QED
    BY <2>1, <2>2, IntervalsAreFinite
<1>2. S \in SUBSET Nat /\ S # {} /\ \A b \in B : t[b].len \in S
  BY <1>1
<1> HIDE DEF B, len
<1>3. Total(len, B) \in Nat
  BY <1>1, TotalIsSize, UnitsAreFinite, FS_CardinalityType
<1>4. \A b \in B : len[b] <= Total(len, B)
  BY <1>1, TotalBoundsMembers
<1>5. bound \in Nat /\ \A x \in S : x <= bound
  BY <1>1, <1>3, <1>4
<1> HIDE DEF S, bound
<1>6. Max(S) \in S /\ \A x \in S : x <= Max(S)
  BY <1>2, <1>5, MaxOfNumbers
<1>7. m = Max(S)
  BY DEF S
<1> QED
  BY <1>2, <1>6, <1>7 DEF B

-----------------------------------------------------------------------------
(* The inductive invariant of the reader *)

\* The whole entry decodes to the source exactly when it is not damaged, and no
\* block is larger than a window.
EntryFacts ==
  /\ InRange(entry.blocks, data)
  /\ window \in Nat /\ \A b \in 1 .. Len(entry.blocks) : entry.blocks[b].len <= window
  /\ entry.crc = Source
  /\ damaged <=> Whole(entry.blocks, data) # Source

\* Where the main thread is in the block table.
Position ==
  /\ next \in 1 .. Len(entry.blocks) + 1
  /\ phase = "submit" => next # Len(entry.blocks) + 1
  /\ phase \in {"drain", "check", "accepted", "rejected"} => next = Len(entry.blocks) + 1
  /\ phase \in {"check", "accepted", "rejected"} => queue = <<>>
  /\ Consecutive(queue, Len(entry.blocks), next)

\* What has left the queue is in the CRC, and in the output unless that failed.
Consumed ==
  LET whole == Whole(entry.blocks, data)
  IN  /\ \E m \in 0 .. Len(entry.blocks) : crc32 = SubSeq(whole, 1, m)
      /\ phase # "failed" => crc32 = SubSeq(whole, 1, Done(queue, next))
      /\ \E m \in 0 .. Len(entry.blocks) : output = SubSeq(whole, 1, m)
      /\ ~verifying /\ writable => output = crc32

\* The verdict is that of the CRCs.
Verdict ==
  /\ phase = "accepted" => writable /\ crc32 = entry.crc
  /\ phase = "rejected" => crc32 # entry.crc

DecodeInv == EntryFacts /\ Position /\ Consumed /\ Verdict

\* The archive a reader may be given: the written one, or that with one change.
LEMMA ArchiveInit == ASSUME DecodeInit PROVE EntryFacts
<1>1. PICK en \in [Chunks -> UNION {Encodings(File[c]) : c \in Chunks}] :
         /\ \A c \in Chunks : en[c] \in Encodings(File[c])
         /\ LET d == SequentialPayload(File, en, Len(File))
                e == [blocks |-> SequentialBlocks(File, en, Len(File)),
                      payload_size |-> Len(d), size |-> FileSize(File), crc |-> Source]
            IN \/ damaged = FALSE /\ entry = e /\ data = d
               \/ damaged = TRUE /\ Damaged(e, d)
  BY DEF DecodeInit
<1> DEFINE t == SequentialBlocks(File, en, Len(File))
           p == SequentialPayload(File, en, Len(File))
           e == [blocks |-> t, payload_size |-> Len(p), size |-> FileSize(File), crc |-> Source]
<1>2. Layout(t, p, Source)
  <2>1. Results(File, en, Len(File))
    BY <1>1 DEF Results, Chunks
  <2>2. File \in Seq(Seq(Nat \ {0})) /\ Len(File) \in 0 .. Len(File)
    BY DecodeAssumption DEF DecodeAssumption
  <2> QED
    BY <2>1, <2>2, SequentialLayout DEF Source
<1>3. \/ damaged = FALSE /\ entry = e /\ data = p
      \/ damaged = TRUE /\ Damaged(e, p)
  BY <1>1
<1>4. e.blocks = t /\ e.crc = Source
  OBVIOUS
<1> HIDE DEF t, p, e
<1>5. t \in Seq(Block) /\ p \in Seq(Token)
  BY <1>2 DEF Layout
<1>6. /\ InRange(entry.blocks, data) /\ entry.crc = Source
      /\ damaged <=> Whole(entry.blocks, data) # Source
  <2>1. CASE damaged = FALSE /\ entry = e /\ data = p
    BY <1>2, <1>4, <2>1, IntactDecodes, LayoutInRange
  <2>2. CASE damaged = TRUE /\ Damaged(e, p)
    <3>1. CASE \E k \in DOMAIN p : entry = e /\ data = Replaced(p, k)
      <4>1. PICK k \in DOMAIN p : entry = e /\ data = Replaced(p, k)
        BY <3>1
      <4>2. k \in 1 .. Len(p) /\ ByteReplaced(data, p, k)
        BY <1>5, <4>1 DEF ByteReplaced, Replaced
      <4>3. InRange(t, data) /\ Whole(t, data) # Source
        BY <1>2, <4>2, DamagedByte
      <4> QED
        BY <1>2, <1>4, <2>2, <4>1, <4>3
    <3>2. CASE \E b \in DOMAIN e.blocks : /\ ~HasPayload(e.blocks[b])
                                          /\ entry = [e EXCEPT !.blocks[b].id = Garbage]
                                          /\ data = p
      <4>1. PICK b \in DOMAIN t : /\ ~HasPayload(t[b])
                                  /\ entry = [e EXCEPT !.blocks[b].id = Garbage]
                                  /\ data = p
        BY <1>4, <3>2
      <4>2. b \in 1 .. Len(t)
        BY <1>5
      <4>3. FillReplaced(entry.blocks, t, b) /\ entry.crc = Source
        BY <1>4, <4>1 DEF FillReplaced, e
      <4>4. ~HasPayload(t[b]) /\ data = p
        BY <4>1
      <4>5. InRange(entry.blocks, p) /\ Whole(entry.blocks, p) # Source
        BY <1>2, <4>2, <4>3, <4>4, DamagedFill
      <4> QED
        BY <1>2, <2>2, <4>3, <4>4, <4>5
    <3> QED
      BY <2>2, <3>1, <3>2 DEF Damaged
  <2> QED
    BY <1>3, <2>1, <2>2
<1>7. PICK chunk_size \in ChunkSizes : window = DecodeWindowBytes(chunk_size)
  BY DEF DecodeInit
<1>8. entry.blocks \in Seq(Block) /\ chunk_size \in Nat
  BY <1>6, DecodeAssumption DEF InRange, DecodeAssumption
<1>9. window \in Nat /\ \A b \in 1 .. Len(entry.blocks) : entry.blocks[b].len <= window
  BY <1>7, <1>8, WindowHoldsBlocks DEF DecodeWindowBytes
<1> QED
  BY <1>6, <1>9 DEF EntryFacts

\* A number of decoded blocks is a prefix of the whole, the empty one included.
LEMMA WholeFacts ==
  ASSUME EntryFacts
  PROVE  /\ Len(entry.blocks) \in Nat /\ Len(Whole(entry.blocks, data)) = Len(entry.blocks)
         /\ \E T : Whole(entry.blocks, data) \in Seq(T)
         /\ SubSeq(Whole(entry.blocks, data), 1, 0) = <<>>
<1>1. entry.blocks \in Seq(Block)
  BY DEF EntryFacts, InRange
<1>2. Len(entry.blocks) \in Nat
  BY <1>1
<1> QED
  BY <1>1, <1>2, WholeType, SubSeqEmpty

\* At first nothing is queued and nothing has left the queue.
LEMMA DecodeInvInit == ASSUME DecodeInit PROVE DecodeInv
<1>1. EntryFacts
  BY ArchiveInit
<1>2. Len(entry.blocks) \in Nat /\ SubSeq(Whole(entry.blocks, data), 1, 0) = <<>>
  BY <1>1, WholeFacts
<1>3. next = 1 /\ queue = <<>> /\ crc32 = <<>> /\ output = <<>> /\ phase = NextWindow(1)
  BY DEF DecodeInit
<1>4. /\ phase \in {"submit", "drain"}
      /\ phase = "submit" => 1 # Len(entry.blocks) + 1
      /\ phase = "drain" => 1 = Len(entry.blocks) + 1
  BY <1>2, <1>3 DEF NextWindow
<1>5. Position
  <2>1. Consecutive(<<>>, Len(entry.blocks), 1)
    BY DEF Consecutive
  <2> QED
    BY <1>2, <1>3, <1>4, <2>1 DEF Position
<1>6. Consumed
  <2>1. Done(<<>>, 1) = 0 /\ 0 \in 0 .. Len(entry.blocks)
    BY <1>2 DEF Done
  <2> QED
    BY <1>2, <1>3, <2>1 DEF Consumed
<1>7. Verdict
  BY <1>4 DEF Verdict
<1> QED
  BY <1>1, <1>5, <1>6, <1>7 DEF DecodeInv

\* No step changes the archive.
LEMMA ArchiveStays ==
  ASSUME EntryFacts, UNCHANGED archive
  PROVE  /\ EntryFacts' /\ entry' = entry /\ data' = data /\ verifying' = verifying
         /\ Whole(entry'.blocks, data') = Whole(entry.blocks, data)
BY DEF archive, EntryFacts

\* The next window is queued behind the others.
LEMMA SubmitStep == ASSUME DecodeInv, Submit PROVE DecodeInv'
<1> DEFINE n == Len(entry.blocks)
           end == WindowEnd(entry.blocks, next, window)
           w == [first |-> next, end |-> end]
<1>1. EntryFacts /\ Position /\ Consumed /\ Verdict
  BY DEF DecodeInv
<1>2. /\ phase = "submit" /\ UNCHANGED archive /\ UNCHANGED <<output, crc32, writable>>
      /\ next' = end + 1 /\ queue' = Append(queue, w)
      /\ phase' = IF Len(queue) + 1 >= inflight THEN "flush" ELSE NextWindow(end + 1)
  BY DEF Submit
<1>3. n \in Nat /\ next \in 1 .. n /\ Consecutive(queue, n, next)
  <2>1. n \in Nat
    BY <1>1, WholeFacts
  <2>2. next \in 1 .. n + 1 /\ next # n + 1 /\ Consecutive(queue, n, next)
    BY <1>1, <1>2 DEF Position
  <2> QED
    BY <2>1, <2>2
<1>4. end \in next .. n
  <2>1. entry.blocks \in Seq(Block) /\ window \in Nat
        /\ \A b \in 1 .. n : entry.blocks[b].len <= window
    BY <1>1 DEF EntryFacts, InRange
  <2> QED
    BY <1>3, <2>1, WindowIsThere
<1>5. EntryFacts' /\ entry' = entry /\ data' = data /\ verifying' = verifying
      /\ Whole(entry'.blocks, data') = Whole(entry.blocks, data)
  BY <1>1, <1>2, ArchiveStays
<1>6. Consecutive(queue', n, end + 1) /\ Done(queue', end + 1) = Done(queue, next)
  <2> HIDE DEF end
  <2>1. queue' = Append(queue, [first |-> next, end |-> end])
    BY <1>2
  <2> HIDE DEF n
  <2> QED
    BY <1>3, <1>4, <2>1, QueueAppend
<1>7. phase' \in {"flush", "submit", "drain"} /\ (phase' = "submit" => end # n) /\ (phase' = "drain" => end = n)
  <2> HIDE DEF end
  <2> QED
    BY <1>2, <1>3, <1>4 DEF NextWindow
<1> HIDE DEF end
<1>8. end \in Nat /\ next \in Nat /\ end + 1 \in 1 .. n + 1
  BY <1>3, <1>4
<1>9. Position'
  <2>1. next' \in 1 .. n + 1
    BY <1>2, <1>8
  <2>2. (phase' = "submit" => next' # n + 1) /\ (phase' = "drain" => next' = n + 1)
    BY <1>2, <1>3, <1>7, <1>8
  <2>3. Consecutive(queue', n, next')
    BY <1>2, <1>6
  <2> QED
    BY <1>5, <1>7, <2>1, <2>2, <2>3 DEF Position
<1>10. Consumed'
  <2>1. Done(queue', next') = Done(queue, next)
    BY <1>2, <1>6
  <2> QED
    BY <1>1, <1>2, <1>5, <2>1 DEF Consumed
<1>11. Verdict'
  BY <1>7 DEF Verdict
<1> QED
  BY <1>5, <1>9, <1>10, <1>11 DEF DecodeInv

\* The oldest window leaves the queue: it decodes to the next part of the whole.
LEMMA FlushStep == ASSUME DecodeInv, FlushOne PROVE DecodeInv'
<1> DEFINE n == Len(entry.blocks)
           whole == Whole(entry.blocks, data)
           w == Head(queue)
           decoded == DecodedWindow(entry.blocks, data, w)
<1>1. EntryFacts /\ Position /\ Consumed /\ Verdict
  BY DEF DecodeInv
<1>2. /\ phase \in {"flush", "drain"} /\ queue # <<>> /\ UNCHANGED archive /\ next' = next
      /\ queue' = Tail(queue) /\ crc32' = crc32 \o decoded /\ Consume(decoded)
  BY DEF FlushOne
<1>3. n \in Nat /\ Len(whole) = n /\ next \in 1 .. n + 1 /\ Consecutive(queue, n, next)
  BY <1>1, WholeFacts DEF Position
<1>4. /\ w.first \in 1 .. n /\ w.end \in w.first .. n /\ Done(queue, next) = w.first - 1
      /\ Consecutive(queue', n, next) /\ Done(queue', next) = w.end
  <2> HIDE DEF n
  <2>1. queue # <<>> /\ queue' = Tail(queue)
    BY <1>2
  <2>2. n \in Nat /\ next \in 1 .. n + 1 /\ Consecutive(queue, n, next)
    BY <1>3
  <2>3. /\ w.first \in 1 .. n /\ w.end \in w.first .. n /\ Done(queue, next) = w.first - 1
        /\ Consecutive(Tail(queue), n, next) /\ Done(Tail(queue), next) = w.end
    BY <2>1, <2>2, QueuePop
  <2> QED
    BY <2>1, <2>3
<1>5. EntryFacts' /\ entry' = entry /\ data' = data /\ verifying' = verifying
      /\ Whole(entry'.blocks, data') = whole
  BY <1>1, <1>2, ArchiveStays
<1>6. decoded = SubSeq(whole, w.first, w.end)
  <2>1. InRange(entry.blocks, data)
    BY <1>1 DEF EntryFacts
  <2>2. w.first \in 1 .. n /\ w.end \in 1 .. n /\ w.first <= w.end
    BY <1>3, <1>4
  <2> QED
    BY <2>1, <2>2, WindowDecodes
<1>7. crc32 = SubSeq(whole, 1, w.first - 1)
  <2>1. phase # "failed"
    BY <1>2
  <2> QED
    BY <1>1, <1>4, <2>1 DEF Consumed
<1>8. crc32' = SubSeq(whole, 1, w.end)
  <2> DEFINE k == w.first - 1
             e == w.end
  <2>1. 1 \in 1 .. n + 1 /\ k \in 0 .. n /\ e \in k .. n /\ w.first = k + 1
    BY <1>3, <1>4
  <2>2. PICK T : whole \in Seq(T)
    BY <1>1, WholeFacts
  <2>3. decoded = SubSeq(whole, k + 1, e) /\ crc32 = SubSeq(whole, 1, k)
    BY <1>6, <1>7, <2>1
  <2> HIDE DEF k, e, whole
  <2>4. SubSeq(whole, 1, k) \o SubSeq(whole, k + 1, e) = SubSeq(whole, 1, e)
    BY <1>3, <2>1, <2>2, ConcatAdjacentSubSeq
  <2> QED
    BY <1>2, <2>3, <2>4 DEF e
<1>9. phase' \in {"unwind", AfterFlush}
      /\ \/ output' = output /\ writable' = writable /\ verifying
         \/ output' = output \o decoded /\ writable' = writable /\ writable /\ ~verifying
         \/ output' = output /\ writable' = FALSE
  BY <1>2 DEF Consume
<1>10. Position'
  <2>1. phase' \in {"unwind", "submit", "drain"} /\ (phase' = "submit" => next # n + 1)
        /\ (phase' = "drain" => next = n + 1)
    <3>1. phase = "drain" => next = n + 1
      BY <1>1 DEF Position
    <3>2. next \in Nat /\ (~(next <= n) => next = n + 1)
      BY <1>3
    <3> QED
      BY <1>2, <1>3, <1>9, <3>1, <3>2 DEF AfterFlush, NextWindow
  <2> HIDE DEF n
  <2>2. Len(entry'.blocks) = n
    BY <1>5 DEF n
  <2> QED
    BY <1>2, <1>3, <1>4, <2>1, <2>2 DEF Position
<1>11. Consumed'
  <2>1. w.end \in 0 .. n
    BY <1>3, <1>4
  <2>2. \E m \in 0 .. n : crc32' = SubSeq(whole, 1, m)
    BY <1>8, <2>1
  <2>3. crc32' = SubSeq(whole, 1, Done(queue', next'))
    BY <1>2, <1>4, <1>8
  <2>4. (\E m \in 0 .. n : output = SubSeq(whole, 1, m)) /\ (~verifying /\ writable => output = crc32)
    BY <1>1 DEF Consumed
  <2>5. (\E m \in 0 .. n : output' = SubSeq(whole, 1, m)) /\ (~verifying /\ writable' => output' = crc32')
    <3> HIDE DEF n, whole, w, decoded
    <3>1. CASE output' = output /\ writable' = writable /\ verifying
      BY <2>4, <3>1
    <3>2. CASE output' = output \o decoded /\ writable' = writable /\ writable /\ ~verifying
      <4>1. output' = crc32'
        BY <1>2, <2>4, <3>2
      <4> QED
        BY <2>2, <4>1
    <3>3. CASE output' = output /\ writable' = FALSE
      BY <2>4, <3>3
    <3> QED
      BY <1>9, <3>1, <3>2, <3>3
  <2> HIDE DEF n, whole
  <2>6. Len(entry'.blocks) = n /\ Whole(entry'.blocks, data') = whole
    BY <1>5 DEF n, whole
  <2> QED
    BY <1>5, <2>2, <2>3, <2>5, <2>6 DEF Consumed
<1>12. Verdict'
  <2>1. phase' \in {"unwind", "submit", "drain"}
    BY <1>9 DEF AfterFlush, NextWindow
  <2> QED
    BY <2>1 DEF Verdict
<1> QED
  BY <1>5, <1>10, <1>11, <1>12 DEF DecodeInv

\* The steps of the main thread that change no more than its position, and the
\* steps of the others.
LEMMA QuietStep ==
  ASSUME DecodeInv, UNCHANGED <<archive, next, queue, output, crc32, writable>>,
         \/ phase' = phase
         \/ phase' = "unwind" /\ phase # "failed"
  PROVE  DecodeInv'
<1>1. EntryFacts /\ Position /\ Consumed /\ Verdict
  BY DEF DecodeInv
<1>2. EntryFacts' /\ entry' = entry /\ data' = data /\ verifying' = verifying
      /\ Whole(entry'.blocks, data') = Whole(entry.blocks, data)
  BY <1>1, ArchiveStays
<1>3. Position'
  BY <1>1, <1>2 DEF Position
<1>4. Consumed'
  <2>1. phase' # "failed" => phase # "failed"
    OBVIOUS
  <2>2. Done(queue', next') = Done(queue, next)
    OBVIOUS
  <2> QED
    BY <1>1, <1>2, <2>1, <2>2 DEF Consumed
<1>5. Verdict'
  BY <1>1, <1>2 DEF Verdict
<1> QED
  BY <1>2, <1>3, <1>4, <1>5 DEF DecodeInv

\* The queue is drained, the verdict is given, or the queue is unwound.
LEMMA EndStep ==
  ASSUME DecodeInv, Drained \/ Check \/ DecodeUnwind
  PROVE  DecodeInv'
<1>1. EntryFacts /\ Position /\ Consumed /\ Verdict
  BY DEF DecodeInv
<1>2. UNCHANGED archive /\ UNCHANGED <<next, output, crc32, writable>>
      /\ phase' \in {"check", "accepted", "rejected", "failed"}
  BY DEF Drained, Check, DecodeUnwind
<1>3. EntryFacts' /\ entry' = entry /\ data' = data /\ verifying' = verifying
      /\ Whole(entry'.blocks, data') = Whole(entry.blocks, data)
  BY <1>1, <1>2, ArchiveStays
<1>4. CASE DecodeUnwind
  <2>1. phase' = "failed" /\ queue' = <<>>
    BY <1>4 DEF DecodeUnwind
  <2>2. Consecutive(<<>>, Len(entry.blocks), next)
    BY DEF Consecutive
  <2>3. Position'
    BY <1>1, <1>2, <1>3, <2>1, <2>2 DEF Position
  <2>4. Consumed'
    BY <1>1, <1>2, <1>3, <2>1 DEF Consumed
  <2>5. Verdict'
    BY <2>1 DEF Verdict
  <2> QED
    BY <1>3, <2>3, <2>4, <2>5 DEF DecodeInv
<1>5. CASE Drained \/ Check
  <2>1. /\ queue = <<>> /\ queue' = queue /\ next = Len(entry.blocks) + 1
        /\ phase' \in {"check", "accepted", "rejected", "failed"} /\ phase # "failed"
    BY <1>1, <1>2, <1>5 DEF Drained, Check, Position
  <2>2. Position'
    BY <1>1, <1>2, <1>3, <2>1 DEF Position
  <2>3. Consumed'
    BY <1>1, <1>2, <1>3, <2>1 DEF Consumed
  <2>4. Verdict'
    BY <1>2, <1>3, <1>5 DEF Drained, Check, Verdict
  <2> QED
    BY <1>3, <2>2, <2>3, <2>4 DEF DecodeInv
<1> QED
  BY <1>4, <1>5

\* Every step of the specification.
LEMMA DecodeStep == ASSUME DecodeInv, [DecodeNext]_decodeVars PROVE DecodeInv'
<1>1. CASE Submit
  BY <1>1, SubmitStep
<1>2. CASE FlushOne
  BY <1>2, FlushStep
<1>3. CASE Drained \/ Check \/ DecodeUnwind
  BY <1>3, EndStep
<1>4. CASE PayloadReadFails \/ OldestWindowFailed \/ CloseFails
  <2>1. /\ UNCHANGED <<archive, next, queue, output, crc32, writable>>
        /\ phase' = "unwind" /\ phase # "failed"
    BY <1>4 DEF PayloadReadFails, OldestWindowFailed, CloseFails, DecodeThrows
  <2> QED
    BY <2>1, QuietStep
<1>5. CASE (\E b \in DOMAIN decoder : Decoder(b)) \/ ObserverRefuses \/ Decided \/ UNCHANGED decodeVars
  <2>1. UNCHANGED <<archive, next, queue, output, crc32, writable>> /\ phase' = phase
    BY <1>5 DEF Decoder, ObserverRefuses, Decided, decodeVars
  <2> QED
    BY <2>1, QuietStep
<1> QED
  BY <1>1, <1>2, <1>3, <1>4, <1>5 DEF DecodeNext, DecodeMain

\* The invariant holds of every behaviour.
LEMMA DecodeInvAlways == DecodeSpec => []DecodeInv
<1>1. DecodeInit => DecodeInv
  BY DecodeInvInit
<1>2. DecodeInv /\ [DecodeNext]_decodeVars => DecodeInv'
  BY DecodeStep
<1> QED
  BY <1>1, <1>2, PTL DEF DecodeSpec

\* An accepted entry has the CRC of the source, and its CRC is that of the whole.
LEMMA AcceptedInv == DecodeInv => AcceptedIsSource
<1> SUFFICES ASSUME DecodeInv, phase = "accepted"
             PROVE  ~damaged /\ crc32 = Source /\ (~verifying => output = Source)
  BY DEF AcceptedIsSource
<1>1. EntryFacts /\ Position /\ Consumed /\ Verdict
  BY DEF DecodeInv
<1>2. queue = <<>> /\ next = Len(entry.blocks) + 1 /\ writable /\ crc32 = Source
  BY <1>1 DEF Position, Verdict, EntryFacts
<1>3. crc32 = Whole(entry.blocks, data)
  <2>1. Len(entry.blocks) \in Nat
    BY <1>1, WholeFacts
  <2>2. Done(queue, next) = Len(entry.blocks)
    BY <1>2, <2>1 DEF Done
  <2>3. SubSeq(Whole(entry.blocks, data), 1, Len(entry.blocks)) = Whole(entry.blocks, data)
    <3>1. PICK T : Whole(entry.blocks, data) \in Seq(T)
      BY <1>1, WholeFacts
    <3>2. Len(Whole(entry.blocks, data)) = Len(entry.blocks)
      BY <1>1, WholeFacts
    <3> QED
      BY <3>1, <3>2, SubSeqFull
  <2> QED
    BY <1>1, <2>2, <2>3 DEF Consumed
<1> QED
  BY <1>1, <1>2, <1>3 DEF Consumed, EntryFacts

\* The whole of an intact entry is the source, and all else is a prefix of it.
LEMMA IntactInv == DecodeInv => IntactNeverRejected
<1> SUFFICES ASSUME DecodeInv, ~damaged
             PROVE  phase # "rejected" /\ IsPrefix(crc32, Source) /\ IsPrefix(output, Source)
  BY DEF IntactNeverRejected
<1> DEFINE n == Len(entry.blocks)
<1>1. EntryFacts /\ Position /\ Consumed /\ Verdict
  BY DEF DecodeInv
<1>2. Whole(entry.blocks, data) = Source /\ entry.crc = Source
  BY <1>1 DEF EntryFacts
<1>3. n \in Nat /\ Len(Source) = n
  BY <1>1, <1>2, WholeFacts
<1>4. PICK T : Source \in Seq(T)
  BY <1>1, <1>2, WholeFacts
<1>5. ASSUME NEW m \in 0 .. n, NEW s, s = SubSeq(Source, 1, m)
      PROVE  IsPrefix(s, Source)
  <2>1. \A i \in 1 .. m : Source[i] \in T
    BY <1>3, <1>4
  <2>2. Len(s) = m
    BY <1>5, <2>1, SubSeqProperties
  <2> QED
    BY <1>3, <1>5, <2>2 DEF IsPrefix
<1>6. IsPrefix(crc32, Source) /\ IsPrefix(output, Source)
  BY <1>1, <1>2, <1>5 DEF Consumed
<1>7. phase # "rejected"
  <2> SUFFICES ASSUME phase = "rejected" PROVE FALSE
    OBVIOUS
  <2>1. Done(queue, next) = n
    BY <1>1, <1>3 DEF Position, Done
  <2>2. crc32 = SubSeq(Source, 1, n) /\ crc32 # Source
    BY <1>1, <1>2, <2>1 DEF Consumed, Verdict
  <2>3. SubSeq(Source, 1, n) = Source
    BY <1>3, <1>4, SubSeqFull
  <2> QED
    BY <2>2, <2>3
<1> QED
  BY <1>6, <1>7

-----------------------------------------------------------------------------
\* A file that is accepted has the bytes of the source, for every file, every
\* encoding of its blocks, every grouping into windows and every order in which
\* their decoders end; one with a changed byte is never accepted, as far as a
\* CRC tells contents apart (the checks of extract_suzip and verify_suzip after
\* decode_entry_streaming and verify_entry_streaming).
THEOREM OnlyTheSourceIsAccepted == DecodeSpec => []AcceptedIsSource
BY DecodeInvAlways, AcceptedInv, PTL

\* An archive nobody changed is never reported as corrupt, whatever the chunk
\* size of the reader, and what it yields is always a prefix of the source.
THEOREM IntactIsNeverRejected == DecodeSpec => []IntactNeverRejected
BY DecodeInvAlways, IntactInv, PTL

\* The two pipelines together: of the entry that compress_manifest_file_entry
\* returns every window a reader may form, whatever its chunk size, decodes to
\* those blocks of the source.
THEOREM FinishedEntryIsReadable ==
  Spec => [](pc = "done" =>
               \A first, end \in 1 .. Len(blocks) :
                 first <= end =>
                   DecodedWindow(blocks, payload, [first |-> first, end |-> end]) =
                     SubSeq(Source, first, end))
<1>1. ASSUME Inv, EntryInv, WrittenInOrder, pc = "done"
      PROVE  Layout(blocks, payload, Source)
  <2> DEFINE n == Len(File)
  <2>1. File \in Seq(Seq(Nat \ {0})) /\ n \in 0 .. Len(File) /\ Chunks = 1 .. n
    BY FileFacts
  <2>2. read - Len(pending) = n
    BY <1>1 DEF WrittenInOrder
  <2>3. /\ \A c \in 1 .. n : task[c] = "ready"
        /\ blocks = SequentialBlocks(File, enc, n)
        /\ payload = SequentialPayload(File, enc, n)
    BY <1>1, <2>2 DEF WrittenInOrder
  <2>4. Results(File, enc, n)
    BY <1>1, <2>1, <2>3 DEF EntryInv, ResultTypes, Results
  <2>5. Layout(SequentialBlocks(File, enc, n), SequentialPayload(File, enc, n),
               SequentialContent(File, n))
    <3> HIDE DEF n
    <3> QED
      BY <2>1, <2>4, SequentialLayout
  <2> QED
    BY <2>3, <2>5 DEF Source
<1>2. ASSUME Layout(blocks, payload, Source),
             NEW first \in 1 .. Len(blocks), NEW end \in 1 .. Len(blocks), first <= end
      PROVE  DecodedWindow(blocks, payload, [first |-> first, end |-> end]) =
               SubSeq(Source, first, end)
  <2> DEFINE w == [first |-> first, end |-> end]
  <2>1. InRange(blocks, payload) /\ Whole(blocks, payload) = Source
    BY <1>2, LayoutInRange, IntactDecodes
  <2>2. w.first = first /\ w.end = end
    OBVIOUS
  <2> HIDE DEF w
  <2>3. w.first \in 1 .. Len(blocks) /\ w.end \in 1 .. Len(blocks) /\ w.first <= w.end
    BY <1>2, <2>2
  <2>4. DecodedWindow(blocks, payload, w) = SubSeq(Whole(blocks, payload), w.first, w.end)
    BY <2>1, <2>3, WindowDecodes
  <2> QED
    BY <2>1, <2>2, <2>4 DEF w
<1>3. Inv /\ EntryInv /\ WrittenInOrder =>
        (pc = "done" =>
           \A first, end \in 1 .. Len(blocks) :
             first <= end =>
               DecodedWindow(blocks, payload, [first |-> first, end |-> end]) =
                 SubSeq(Source, first, end))
  BY <1>1, <1>2
<1> QED
  BY EntryInvAlways, EntryIsSequential, <1>3, PTL

-----------------------------------------------------------------------------
(* The encoder never stalls and runs out of work *)

\* The main thread can take a step: the guards of its actions.
MainGoes ==
  \/ pc \in {"read", "publish"}
  \/ pc \in {"write", "drain"} /\ pending # <<>> /\ task[Head(pending)] \in {"ready", "failed"}
  \/ pc = "drain" /\ pending = <<>>
  \/ pc = "unwind" /\ \A c \in Range(pending) : task[c] # "running"

\* It is done, or can go on, or an encoder of a queued chunk is at work.
WaitsForEncodersOnly ==
  \/ pc \in {"done", "failed"} \/ MainGoes
  \/ \E c \in Range(pending) : task[c] = "running"

\* Every queued chunk has a thread, no other chunk has one yet, and the writer is
\* only called with a chunk in the queue.
Started ==
  /\ \A k \in 1 .. Len(pending) : task[pending[k]] # "none"
  /\ \A c \in Chunks : c > read => task[c] = "none"
  /\ pc = "write" => pending # <<>>

\* Three for every chunk that is not read, one for every queued chunk and every
\* encoder that has not ended, and the steps of the main thread to the end of its loop.
StepsLeft == [s \in Steps |-> CASE s = "publish" -> 3 [] s \in {"read", "write", "drain"} -> 2
                                [] s = "unwind" -> 1 [] OTHER -> 0]
Unended == {c \in Chunks : task[c] \in {"none", "running"}}
WorkLeft == 3 * (Len(File) - read) + Len(pending) + StepsLeft[pc] + Cardinality(Unended)

\* At first nothing is queued.
LEMMA StartedInit == Init => Started
  BY FileLength DEF Init, Started

\* A thread is started with its chunk, and the writer is called by the loop that
\* has just queued one, or by the drain.
LEMMA StartedStep == Inv /\ Started /\ [Next]_vars => Started'
<1> SUFFICES ASSUME Inv, Started, [Next]_vars PROVE Started'
  OBVIOUS
<1>0. /\ pending \in Seq(Chunks) /\ read \in 0 .. Len(File) /\ Len(File) \in Nat /\ Chunks = 1 .. Len(File)
      /\ task \in [Chunks -> {"none", "running", "ready", "failed"}]
  BY FileLength DEF Inv, MainTypes, Chunks
<1>1. CASE ReadChunk
  <2>1. /\ read + 1 \in Chunks /\ pending' = Append(pending, read + 1) /\ read' = read + 1
        /\ task' = [task EXCEPT ![read + 1] = "running"] /\ pc' = "publish"
    BY <1>0, <1>1 DEF ReadChunk, Inv, QueueBound
  <2>2. /\ Len(pending') = Len(pending) + 1 /\ pending'[Len(pending) + 1] = read + 1
        /\ \A k \in 1 .. Len(pending) : pending'[k] = pending[k] /\ pending[k] \in Chunks
    BY <1>0, <2>1
  <2>3. ASSUME NEW k \in 1 .. Len(pending') PROVE task'[pending'[k]] # "none"
    <3>1. CASE k = Len(pending) + 1
      BY <1>0, <2>1, <2>2, <3>1
    <3>2. CASE k # Len(pending) + 1
      <4>1. k \in 1 .. Len(pending)
        BY <1>0, <2>2, <3>2
      <4> QED
        BY <1>0, <2>1, <2>2, <4>1 DEF Started
    <3> QED
      BY <3>1, <3>2
  <2>4. \A c \in Chunks : c > read' => task'[c] = "none"
    BY <1>0, <2>1 DEF Started
  <2> QED
    BY <2>1, <2>3, <2>4 DEF Started
<1>2. CASE WriteOldest \/ WriteFails
  <2>1. /\ pending # <<>> /\ pending' = Tail(pending) /\ UNCHANGED <<read, task>> /\ pc' # "write"
    BY <1>2 DEF WriteOldest, WriteFails, OldestReady, AfterWrite, Loop
  <2>2. Len(pending') = Len(pending) - 1 /\ \A k \in 1 .. Len(pending') : pending'[k] = pending[k + 1]
    BY <1>0, <2>1
  <2>3. \A k \in 1 .. Len(pending') : k + 1 \in 1 .. Len(pending)
    BY <1>0, <2>1, <2>2
  <2> QED
    BY <2>1, <2>2, <2>3 DEF Started
<1>3. CASE PublishProgress
  <2>1. UNCHANGED <<read, pending, task>> /\ (pc' = "write" => Len(pending) >= Inflight)
    BY <1>3 DEF PublishProgress, QueueIsFull, Loop
  <2>2. Inflight > 0 /\ Inflight \in Nat
    BY EncodeAssumption DEF EncodeAssumption
  <2>3. pc' = "write" => pending # <<>>
    BY <1>0, <2>1, <2>2
  <2> QED
    BY <2>1, <2>3 DEF Started
<1>4. CASE ReadFails \/ ObserverThrows \/ OldestFailed \/ Finish
  <2>1. UNCHANGED <<read, pending, task>> /\ pc' # "write"
    BY <1>4 DEF ReadFails, ObserverThrows, OldestFailed, Finish, Throw
  <2> QED
    BY <2>1 DEF Started
<1>5. CASE Unwind
  <2>1. UNCHANGED <<read, task>> /\ pending' = <<>> /\ pc' = "failed"
    BY <1>5 DEF Unwind
  <2> QED
    BY <2>1 DEF Started
<1>6. CASE \E c \in Chunks : Encoder(c)
  <2>1. PICK c \in Chunks : Encoder(c)
    BY <1>6
  <2>2. /\ UNCHANGED <<read, pending, pc>> /\ task[c] = "running"
        /\ \E st \in {"ready", "failed"} : task' = [task EXCEPT ![c] = st]
    BY <2>1 DEF Encoder, Encodes, EncodeFails, CheckpointThrows
  <2>3. \A d \in Chunks : task'[d] = "none" <=> task[d] = "none"
    BY <1>0, <2>2
  <2>4. \A k \in 1 .. Len(pending) : pending[k] \in Chunks
    BY <1>0
  <2> QED
    BY <2>2, <2>3, <2>4 DEF Started
<1>7. CASE Stop \/ Returned \/ UNCHANGED vars
  <2>1. UNCHANGED <<read, pending, task, pc>>
    BY <1>7 DEF Stop, Returned, vars
  <2> QED
    BY <2>1 DEF Started
<1> QED
  BY <1>1, <1>2, <1>3, <1>4, <1>5, <1>6, <1>7 DEF Next, Main

\* It holds of every behaviour.
LEMMA StartedAlways == Spec => [](Inv /\ Started)
<1>1. Spec => []Inv
  BY InvAlways
<1> QED
  BY <1>1, StartedInit, StartedStep, PTL DEF Spec

\* No thread of the operation is ever stuck: until compress_manifest_file_entry has
\* returned or thrown, the main thread can take a step or an encoder of a queued
\* chunk is at work.  It never asks for the front of an empty queue, and never
\* joins a thread that was not started.
THEOREM EncodingNeverStalls == Spec => []WaitsForEncodersOnly
<1>1. Inv /\ Started => WaitsForEncodersOnly
  <2> SUFFICES ASSUME Inv, Started PROVE WaitsForEncodersOnly
    OBVIOUS
  <2>1. pending \in Seq(Chunks) /\ task \in [Chunks -> {"none", "running", "ready", "failed"}] /\ pc \in Steps
    BY DEF Inv, MainTypes
  <2>2. ASSUME pending # <<>> PROVE Head(pending) \in Range(pending) /\ task[Head(pending)] \in {"running", "ready", "failed"}
    <3>1. 1 \in 1 .. Len(pending) /\ Head(pending) = pending[1] /\ pending[1] \in Chunks
          /\ 1 \in DOMAIN pending
      BY <2>1, <2>2
    <3> QED
      BY <2>1, <3>1 DEF Started, Range
  <2> QED
    BY <2>1, <2>2 DEF WaitsForEncodersOnly, MainGoes, Started, Steps
<1> QED
  BY <1>1, StartedAlways, PTL

\* Each part of the work is a natural number.
LEMMA WorkIsCounted ==
  ASSUME Inv
  PROVE  /\ IsFiniteSet(Unended) /\ Cardinality(Unended) \in Nat
         /\ StepsLeft[pc] \in 0 .. 3 /\ Len(pending) \in Nat
         /\ Len(File) \in Nat /\ read \in 0 .. Len(File)
<1>1. /\ pending \in Seq(Chunks) /\ read \in 0 .. Len(File) /\ Len(File) \in Nat /\ Chunks = 1 .. Len(File)
      /\ pc \in Steps
  BY FileLength DEF Inv, MainTypes, Chunks
<1>2. IsFiniteSet(Chunks)
  BY <1>1, IntervalsAreFinite
<1>3. IsFiniteSet(Unended)
  BY <1>2, FS_Subset DEF Unended
<1>4. Cardinality(Unended) \in Nat
  BY <1>3, FS_CardinalityType
<1>5. StepsLeft[pc] \in 0 .. 3
  BY <1>1 DEF StepsLeft, Steps
<1> QED
  BY <1>1, <1>3, <1>4, <1>5

\* A chunk that is read costs three and gives at most two; every other step only takes.
LEMMA WorkShrinks ==
  ASSUME Inv, Started, Inv', Main \/ \E c \in Chunks : Encoder(c)
  PROVE  WorkLeft' < WorkLeft
<1>1. /\ IsFiniteSet(Unended) /\ Cardinality(Unended) \in Nat /\ StepsLeft[pc] \in 0 .. 3
      /\ Len(pending) \in Nat /\ Len(File) \in Nat /\ read \in 0 .. Len(File) /\ pc \in Steps
  BY WorkIsCounted DEF Inv, MainTypes
<1>2. /\ pending \in Seq(Chunks) /\ Chunks = 1 .. Len(File)
      /\ task \in [Chunks -> {"none", "running", "ready", "failed"}]
  BY DEF Inv, MainTypes, Chunks
<1>3. /\ StepsLeft["publish"] = 3 /\ StepsLeft["read"] = 2 /\ StepsLeft["write"] = 2
      /\ StepsLeft["drain"] = 2 /\ StepsLeft["unwind"] = 1 /\ StepsLeft["done"] = 0
      /\ StepsLeft["failed"] = 0
  BY DEF StepsLeft, Steps
<1>4. ASSUME task' = task PROVE Unended' = Unended
  BY <1>4 DEF Unended
<1>5. CASE ReadChunk
  <2>1. /\ read + 1 \in Chunks /\ pending' = Append(pending, read + 1) /\ read' = read + 1
        /\ task' = [task EXCEPT ![read + 1] = "running"] /\ pc = "read" /\ pc' = "publish"
    BY <1>1, <1>2, <1>5 DEF ReadChunk, Inv, QueueBound
  <2>2. Len(pending') = Len(pending) + 1
    BY <1>2, <2>1
  <2>3. Unended' = Unended
    <3>1. task[read + 1] = "none"
      BY <1>1, <2>1 DEF Started
    <3> QED
      BY <1>2, <2>1, <3>1 DEF Unended
  <2>4. /\ WorkLeft = 3 * (Len(File) - read) + Len(pending) + 2 + Cardinality(Unended)
        /\ WorkLeft' = 3 * (Len(File) - (read + 1)) + (Len(pending) + 1) + 3 + Cardinality(Unended)
    BY <1>3, <2>1, <2>2, <2>3 DEF WorkLeft
  <2> QED
    BY <1>1, <2>4
<1>6. CASE WriteOldest \/ WriteFails
  <2>1. /\ pending # <<>> /\ pending' = Tail(pending) /\ UNCHANGED <<read, task>>
        /\ pc \in {"write", "drain"} /\ pc' \in {"read", "drain", "unwind"}
    BY <1>6 DEF WriteOldest, WriteFails, OldestReady, AfterWrite, Loop
  <2>2. Len(pending') = Len(pending) - 1
    BY <1>2, <2>1
  <2>3. StepsLeft[pc'] <= StepsLeft[pc] /\ StepsLeft[pc'] \in 0 .. 3
    BY <1>3, <2>1
  <2>4. Cardinality(Unended') = Cardinality(Unended) /\ StepsLeft' = StepsLeft
    BY <1>4, <2>1 DEF StepsLeft, Steps
  <2>5. WorkLeft' = 3 * (Len(File) - read) + (Len(pending) - 1) + StepsLeft[pc'] + Cardinality(Unended)
    BY <2>1, <2>2, <2>4 DEF WorkLeft
  <2>6. StepsLeft[pc] \in Nat /\ StepsLeft[pc'] \in Nat /\ Len(pending) \in Nat
    BY <1>1, <2>3
  <2> QED
    BY <1>1, <2>3, <2>5, <2>6 DEF WorkLeft
<1>7. CASE PublishProgress \/ ReadFails \/ ObserverThrows \/ OldestFailed \/ Finish
  <2>1. /\ UNCHANGED <<read, pending, task>>
        /\ \/ pc = "publish" /\ pc' \in {"write", "read", "drain", "unwind"}
           \/ pc \in {"read", "write", "drain"} /\ pc' \in {"unwind", "done"}
    BY <1>7 DEF PublishProgress, Loop, ReadFails, ObserverThrows, OldestFailed, Finish, Throw
  <2>2. StepsLeft[pc'] < StepsLeft[pc] /\ StepsLeft[pc'] \in 0 .. 3
    BY <1>3, <2>1
  <2> QED
    BY <1>1, <1>4, <2>1, <2>2, SMTT(30) DEF WorkLeft
<1>8. CASE Unwind
  <2>1. UNCHANGED <<read, task>> /\ pending' = <<>> /\ pc = "unwind" /\ pc' = "failed"
    BY <1>8 DEF Unwind
  <2>2. Len(pending') = 0
    BY <2>1
  <2> QED
    BY <1>1, <1>3, <1>4, <2>1, <2>2 DEF WorkLeft
<1>9. CASE \E c \in Chunks : Encoder(c)
  <2>1. PICK c \in Chunks : Encoder(c)
    BY <1>9
  <2>2. /\ UNCHANGED <<read, pending, pc>> /\ task[c] = "running"
        /\ \E st \in {"ready", "failed"} : task' = [task EXCEPT ![c] = st]
    BY <2>1 DEF Encoder, Encodes, EncodeFails, CheckpointThrows
  <2>3. c \in Unended /\ Unended' = Unended \ {c}
    BY <1>2, <2>2 DEF Unended
  <2>4. Cardinality(Unended') = Cardinality(Unended) - 1
    BY <1>1, <2>3, FS_RemoveElement
  <2> QED
    BY <1>1, <2>2, <2>4 DEF WorkLeft
<1> QED
  BY <1>5, <1>6, <1>7, <1>8, <1>9 DEF Main

\* Each step of a thread of the operation, also one that throws, leaves less work:
\* compress_manifest_file_entry ends after at most 3 * Len(File) + Len(File) + 2 of
\* them, for every order in which the encoders end.
THEOREM EncodingRunsOut ==
  Spec => [][Main \/ (\E c \in Chunks : Encoder(c)) => WorkLeft \in Nat /\ WorkLeft' < WorkLeft]_vars
<1>1. Inv /\ Started /\ Inv' /\ [Next]_vars
        => [Main \/ (\E c \in Chunks : Encoder(c)) => WorkLeft \in Nat /\ WorkLeft' < WorkLeft]_vars
  <2> SUFFICES ASSUME Inv, Started, Inv', Main \/ (\E c \in Chunks : Encoder(c))
               PROVE  WorkLeft \in Nat /\ WorkLeft' < WorkLeft
    OBVIOUS
  <2>1. WorkLeft \in Nat
    BY WorkIsCounted DEF WorkLeft
  <2> QED
    BY <2>1, WorkShrinks
<1> QED
  BY <1>1, StartedAlways, PTL DEF Spec

-----------------------------------------------------------------------------
(* Neither does the reader *)

\* The decoders and the queue: a window of the queue has a decoder, a block that
\* is not submitted has none yet, every running decoder belongs to a window of the
\* queue, and flush_one is only called with a window in the queue.
Borrowed ==
  /\ inflight \in Nat \ {0}
  /\ phase \in {"submit", "flush", "drain", "check", "unwind", "accepted", "rejected", "failed"}
  /\ decoder \in [1 .. Len(entry.blocks) -> {"none", "running", "ready", "failed"}]
  /\ \A k \in 1 .. Len(queue) : decoder[queue[k].first] # "none"
  /\ \A b \in 1 .. Len(entry.blocks) : b >= next => decoder[b] = "none"
  /\ \A b \in 1 .. Len(entry.blocks) :
       decoder[b] = "running" => \E k \in 1 .. Len(queue) : queue[k].first = b
  /\ phase = "flush" => queue # <<>>
  /\ Len(queue) <= inflight /\ (phase = "submit" => Len(queue) < inflight)

\* At first nothing is queued.
LEMMA BorrowedInit == ASSUME DecodeInit PROVE Borrowed
<1>1. /\ inflight \in Nat \ {0} /\ next = 1 /\ queue = <<>> /\ phase = NextWindow(1)
      /\ decoder = [b \in DOMAIN entry.blocks |-> "none"]
  BY DecodeAssumption DEF DecodeInit, DecodeAssumption
<1>2. DOMAIN entry.blocks = 1 .. Len(entry.blocks) /\ Len(entry.blocks) \in Nat
  <2>1. entry.blocks \in Seq(Block)
    BY DecodeInvInit DEF DecodeInv, EntryFacts, InRange
  <2> QED
    BY <2>1
<1>3. phase \in {"submit", "drain"} /\ Len(queue) = 0
  BY <1>1 DEF NextWindow
<1> QED
  BY <1>1, <1>2, <1>3 DEF Borrowed

\* What the steps of the main thread need to know of the queue.
LEMMA QueueFacts ==
  ASSUME DecodeInv
  PROVE  /\ Len(entry.blocks) \in Nat /\ next \in 1 .. Len(entry.blocks) + 1
         /\ queue \in Seq(Windows) /\ Len(queue) \in Nat
         /\ \A k \in 1 .. Len(queue) : queue[k].first \in 1 .. Len(entry.blocks)
<1>1. EntryFacts /\ Position
  BY DEF DecodeInv
<1>2. Len(entry.blocks) \in Nat /\ next \in 1 .. Len(entry.blocks) + 1
      /\ Consecutive(queue, Len(entry.blocks), next)
  BY <1>1, WholeFacts DEF Position
<1> QED
  BY <1>2 DEF Consecutive

\* The next window and its decoder.
LEMMA BorrowedSubmit == ASSUME DecodeInv, Borrowed, Submit PROVE Borrowed'
<1> DEFINE n == Len(entry.blocks)
           end == WindowEnd(entry.blocks, next, window)
           w == [first |-> next, end |-> end]
<1>1. /\ phase = "submit" /\ entry' = entry /\ inflight' = inflight /\ next' = end + 1
      /\ queue' = Append(queue, w) /\ decoder' = [decoder EXCEPT ![next] = "running"]
      /\ phase' = IF Len(queue) + 1 >= inflight THEN "flush" ELSE NextWindow(end + 1)
  BY DEF Submit, archive
<1>2. n \in Nat /\ next \in 1 .. n /\ queue \in Seq(Windows) /\ Len(queue) \in Nat
      /\ \A k \in 1 .. Len(queue) : queue[k].first \in 1 .. n
  <2>1. next # n + 1
    BY <1>1 DEF DecodeInv, Position
  <2> QED
    BY <2>1, QueueFacts
<1>3. end \in next .. n
  <2>1. entry.blocks \in Seq(Block) /\ window \in Nat
        /\ \A b \in 1 .. n : entry.blocks[b].len <= window
    BY DEF DecodeInv, EntryFacts, InRange
  <2> QED
    BY <1>2, <2>1, WindowIsThere
<1> HIDE DEF end
<1>4. next \in Nat /\ end \in Nat /\ w.first = next /\ w \in Windows
  BY <1>2, <1>3 DEF Windows
<1> HIDE DEF w
<1>5. /\ Len(queue') = Len(queue) + 1 /\ queue'[Len(queue) + 1] = w
      /\ \A k \in 1 .. Len(queue) : queue'[k] = queue[k]
  BY <1>1, <1>2, <1>4, AppendProperties
<1> HIDE DEF n
<1>6. ASSUME NEW k \in 1 .. Len(queue') PROVE decoder'[queue'[k].first] # "none"
  <2>1. CASE k = Len(queue) + 1
    BY <1>1, <1>2, <1>4, <1>5, <2>1 DEF Borrowed, n
  <2>2. CASE k # Len(queue) + 1
    <3>1. k \in 1 .. Len(queue) /\ queue'[k] = queue[k] /\ queue[k].first \in 1 .. n
      BY <1>2, <1>5, <2>2
    <3> QED
      BY <1>1, <1>2, <3>1 DEF Borrowed, n
  <2> QED
    BY <2>1, <2>2
<1>7. ASSUME NEW b \in 1 .. n PROVE b >= next' => decoder'[b] = "none"
  BY <1>1, <1>2, <1>3, <1>4 DEF Borrowed, n
<1>8. ASSUME NEW b \in 1 .. n, decoder'[b] = "running"
      PROVE  \E k \in 1 .. Len(queue') : queue'[k].first = b
  <2>1. CASE b = next
    <3>1. Len(queue) + 1 \in 1 .. Len(queue') /\ queue'[Len(queue) + 1].first = b
      BY <1>2, <1>4, <1>5, <2>1
    <3> QED
      BY <3>1
  <2>2. CASE b # next
    <3>1. decoder[b] = "running"
      BY <1>1, <1>8, <2>2 DEF Borrowed, n
    <3>2. PICK k \in 1 .. Len(queue) : queue[k].first = b
      BY <3>1 DEF Borrowed, n
    <3>3. k \in 1 .. Len(queue') /\ queue'[k].first = b
      BY <1>2, <1>5, <3>2
    <3> QED
      BY <3>3
  <2> QED
    BY <2>1, <2>2
<1>9. phase' \in {"flush", "submit", "drain"} /\ (phase' # "flush" => Len(queue) + 1 < inflight)
  BY <1>1, <1>2 DEF NextWindow, Borrowed
<1>10. queue' # <<>> /\ Len(queue') <= inflight /\ (phase' = "submit" => Len(queue') < inflight)
  <2>1. Len(queue) < inflight /\ inflight \in Nat
    BY <1>1 DEF Borrowed
  <2>2. queue' # <<>>
    BY <1>2, <1>5
  <2> QED
    BY <1>2, <1>5, <1>9, <2>1, <2>2
<1>11. decoder' \in [1 .. n -> {"none", "running", "ready", "failed"}]
  BY <1>1, <1>2 DEF Borrowed, n
<1>12. Len(entry'.blocks) = n /\ inflight' \in Nat \ {0}
  BY <1>1 DEF Borrowed, n
<1> QED
  BY <1>1, <1>6, <1>7, <1>8, <1>9, <1>10, <1>11, <1>12 DEF Borrowed

\* The oldest window leaves the queue, and only one whose decoder has ended.
LEMMA BorrowedFlush == ASSUME DecodeInv, Borrowed, FlushOne PROVE Borrowed'
<1> DEFINE n == Len(entry.blocks)
<1>1. /\ phase \in {"flush", "drain"} /\ queue # <<>> /\ entry' = entry /\ inflight' = inflight
      /\ next' = next /\ queue' = Tail(queue) /\ decoder' = decoder
      /\ decoder[Head(queue).first] = "ready" /\ phase' \in {"unwind", "submit", "drain"}
  BY DEF FlushOne, archive, Consume, AfterFlush, NextWindow
<1>2. queue \in Seq(Windows) /\ Len(queue) \in Nat
  BY QueueFacts
<1>3. /\ Len(queue') = Len(queue) - 1 /\ Head(queue) = queue[1]
      /\ \A k \in 1 .. Len(queue') : queue'[k] = queue[k + 1] /\ k + 1 \in 1 .. Len(queue)
  BY <1>1, <1>2
<1>4. \A k \in 1 .. Len(queue') : decoder'[queue'[k].first] # "none"
  BY <1>1, <1>3 DEF Borrowed
<1>5. ASSUME NEW b \in 1 .. n, decoder'[b] = "running"
      PROVE  \E k \in 1 .. Len(queue') : queue'[k].first = b
  <2>1. PICK k \in 1 .. Len(queue) : queue[k].first = b
    BY <1>1, <1>5 DEF Borrowed
  <2>2. k # 1
    BY <1>1, <1>3, <1>5, <2>1
  <2>3. k - 1 \in 1 .. Len(queue') /\ queue'[k - 1] = queue[k]
    <3>1. k - 1 \in 1 .. Len(queue') /\ (k - 1) + 1 = k
      BY <1>2, <1>3, <2>2
    <3> QED
      BY <1>3, <3>1
  <2> QED
    BY <2>1, <2>3
<1>6. Len(queue') <= inflight /\ Len(queue') < inflight
  BY <1>2, <1>3 DEF Borrowed
<1> QED
  BY <1>1, <1>4, <1>5, <1>6 DEF Borrowed

\* Every step; the destructor of the queue has joined each of its threads.
LEMMA BorrowedStep == ASSUME DecodeInv, Borrowed, [DecodeNext]_decodeVars PROVE Borrowed'
<1>1. CASE Submit
  BY <1>1, BorrowedSubmit
<1>2. CASE FlushOne
  BY <1>2, BorrowedFlush
<1>3. CASE PayloadReadFails \/ OldestWindowFailed \/ CloseFails \/ Drained \/ Check
  <2>1. /\ UNCHANGED <<entry, inflight, next, queue, decoder>>
        /\ phase' \in {"unwind", "check", "accepted", "rejected", "failed"}
    BY <1>3 DEF PayloadReadFails, OldestWindowFailed, CloseFails, DecodeThrows, Drained, Check, archive
  <2> QED
    BY <2>1 DEF Borrowed
<1>4. CASE DecodeUnwind
  <2>1. /\ UNCHANGED <<entry, inflight, next, decoder>> /\ queue' = <<>> /\ phase' = "failed"
        /\ \A k \in DOMAIN queue : decoder[queue[k].first] # "running"
    BY <1>4 DEF DecodeUnwind, archive
  <2>2. \A b \in 1 .. Len(entry.blocks) : decoder[b] # "running"
    <3>1. DOMAIN queue = 1 .. Len(queue)
      BY QueueFacts
    <3> QED
      BY <2>1, <3>1 DEF Borrowed
  <2>3. Len(queue') = 0
    BY <2>1
  <2> QED
    BY <2>1, <2>2, <2>3 DEF Borrowed
<1>5. CASE \E b \in DOMAIN decoder : Decoder(b)
  <2>1. PICK b \in DOMAIN decoder : Decoder(b)
    BY <1>5
  <2>2. /\ UNCHANGED <<entry, inflight, next, queue, phase>> /\ decoder[b] = "running"
        /\ \E st \in {"ready", "failed"} : decoder' = [decoder EXCEPT ![b] = st]
    BY <2>1 DEF Decoder, archive
  <2>3. /\ decoder' \in [1 .. Len(entry.blocks) -> {"none", "running", "ready", "failed"}]
        /\ \A c \in 1 .. Len(entry.blocks) : decoder'[c] = "none" <=> decoder[c] = "none"
        /\ \A c \in 1 .. Len(entry.blocks) : decoder'[c] = "running" => decoder[c] = "running"
    BY <2>2 DEF Borrowed
  <2>4. \A k \in 1 .. Len(queue) : queue[k].first \in 1 .. Len(entry.blocks)
    BY QueueFacts
  <2> QED
    BY <2>2, <2>3, <2>4 DEF Borrowed
<1>6. CASE ObserverRefuses \/ Decided \/ UNCHANGED decodeVars
  <2>1. UNCHANGED <<entry, inflight, next, queue, decoder, phase>>
    BY <1>6 DEF ObserverRefuses, Decided, decodeVars, archive
  <2> QED
    BY <2>1 DEF Borrowed
<1> QED
  BY <1>1, <1>2, <1>3, <1>4, <1>5, <1>6 DEF DecodeNext, DecodeMain

\* It holds of every behaviour.
LEMMA BorrowedAlways == DecodeSpec => [](DecodeInv /\ Borrowed)
<1>1. DecodeInit => Borrowed
  BY BorrowedInit
<1>2. DecodeInv /\ Borrowed /\ [DecodeNext]_decodeVars => Borrowed'
  BY BorrowedStep
<1> QED
  BY <1>1, <1>2, DecodeInvAlways, PTL DEF DecodeSpec

\* The reader never holds more windows than its budget counts, and no decoder
\* works on a window that is not queued.
THEOREM DecodersAreJoined == DecodeSpec => []DecodersAreBounded
<1>1. DecodeInv /\ Borrowed => DecodersAreBounded
  <2> SUFFICES ASSUME DecodeInv, Borrowed PROVE DecodersAreBounded
    OBVIOUS
  <2>1. DOMAIN queue = 1 .. Len(queue) /\ DOMAIN decoder = 1 .. Len(entry.blocks)
    BY QueueFacts DEF Borrowed
  <2> QED
    BY <2>1 DEF DecodersAreBounded, Borrowed
<1> QED
  BY <1>1, BorrowedAlways, PTL

\* The main thread can take a step: its actions' guards.
DecodeMainGoes ==
  \/ phase \in {"submit", "check"}
  \/ phase \in {"flush", "drain"} /\ queue # <<>> /\ decoder[Head(queue).first] \in {"ready", "failed"}
  \/ phase = "drain" /\ queue = <<>>
  \/ phase = "unwind" /\ \A k \in 1 .. Len(queue) : decoder[queue[k].first] # "running"

\* It is done, or can go on, or a decoder of a queued window is at work.
WaitsForDecodersOnly ==
  \/ phase \in {"accepted", "rejected", "failed"} \/ DecodeMainGoes
  \/ \E k \in 1 .. Len(queue) : decoder[queue[k].first] = "running"

\* No thread of the reader is ever stuck.
THEOREM DecodingNeverStalls == DecodeSpec => []WaitsForDecodersOnly
<1>1. DecodeInv /\ Borrowed => WaitsForDecodersOnly
  <2> SUFFICES ASSUME DecodeInv, Borrowed PROVE WaitsForDecodersOnly
    OBVIOUS
  <2>1. queue \in Seq(Windows) /\ Len(queue) \in Nat
        /\ \A k \in 1 .. Len(queue) : queue[k].first \in 1 .. Len(entry.blocks)
    BY QueueFacts
  <2>2. ASSUME queue # <<>> PROVE 1 \in 1 .. Len(queue) /\ Head(queue) = queue[1]
    BY <2>1, <2>2
  <2>3. ASSUME queue # <<>> PROVE decoder[queue[1].first] \in {"running", "ready", "failed"}
    BY <2>1, <2>2, <2>3 DEF Borrowed
  <2> QED
    BY <2>1, <2>2, <2>3 DEF WaitsForDecodersOnly, DecodeMainGoes, Borrowed
<1> QED
  BY <1>1, BorrowedAlways, PTL

\* Two for every block not submitted, one for every queued window and every decoder
\* that has not ended, and the phases the main thread has still to go through.
PhasesLeft == [p \in {"submit", "flush", "drain", "check", "unwind", "accepted", "rejected", "failed"} |->
                 CASE p \in {"submit", "flush", "drain"} -> 3 [] p = "check" -> 2
                   [] p = "unwind" -> 1 [] OTHER -> 0]
Undecoded == {b \in 1 .. Len(entry.blocks) : decoder[b] \in {"none", "running"}}
DecodeWork == 2 * (Len(entry.blocks) + 1 - next) + Len(queue) + PhasesLeft[phase] + Cardinality(Undecoded)

\* Each part of the work is a natural number.
LEMMA DecodeWorkIsCounted ==
  ASSUME DecodeInv, Borrowed
  PROVE  /\ IsFiniteSet(Undecoded) /\ Cardinality(Undecoded) \in Nat
         /\ PhasesLeft[phase] \in 0 .. 3 /\ Len(queue) \in Nat
         /\ Len(entry.blocks) \in Nat /\ next \in 1 .. Len(entry.blocks) + 1
<1>1. Len(queue) \in Nat /\ Len(entry.blocks) \in Nat /\ next \in 1 .. Len(entry.blocks) + 1
  BY QueueFacts
<1>2. IsFiniteSet(1 .. Len(entry.blocks))
  BY <1>1, IntervalsAreFinite
<1>3. IsFiniteSet(Undecoded)
  BY <1>2, FS_Subset DEF Undecoded
<1>4. Cardinality(Undecoded) \in Nat
  BY <1>3, FS_CardinalityType
<1>5. PhasesLeft[phase] \in 0 .. 3
  BY DEF PhasesLeft, Borrowed
<1> QED
  BY <1>1, <1>3, <1>4, <1>5

\* A window takes at least one block, two, and gives one; every other step only takes.
LEMMA DecodeWorkShrinks ==
  ASSUME DecodeInv, Borrowed, DecodeInv', DecodeMain \/ \E b \in DOMAIN decoder : Decoder(b)
  PROVE  DecodeWork' < DecodeWork
<1> DEFINE n == Len(entry.blocks)
<1>1. /\ IsFiniteSet(Undecoded) /\ Cardinality(Undecoded) \in Nat /\ PhasesLeft[phase] \in Nat
      /\ Len(queue) \in Nat /\ n \in Nat /\ next \in 1 .. n + 1
  BY DecodeWorkIsCounted
<1>2. /\ queue \in Seq(Windows) /\ decoder \in [1 .. n -> {"none", "running", "ready", "failed"}]
  BY QueueFacts DEF Borrowed
<1>3. /\ PhasesLeft["submit"] = 3 /\ PhasesLeft["flush"] = 3 /\ PhasesLeft["drain"] = 3
      /\ PhasesLeft["check"] = 2 /\ PhasesLeft["unwind"] = 1
      /\ \A p \in {"accepted", "rejected", "failed"} : PhasesLeft[p] = 0
  BY DEF PhasesLeft
<1>4. ASSUME UNCHANGED <<entry, decoder>> PROVE Undecoded' = Undecoded
  BY <1>4 DEF Undecoded
<1>5. CASE Submit
  <2> DEFINE end == WindowEnd(entry.blocks, next, window)
             w == [first |-> next, end |-> end]
  <2>1. /\ phase = "submit" /\ entry' = entry /\ next' = end + 1 /\ queue' = Append(queue, w)
        /\ decoder' = [decoder EXCEPT ![next] = "running"]
        /\ phase' \in {"flush", "submit", "drain"}
    BY <1>5 DEF Submit, archive, NextWindow
  <2>2. next \in 1 .. n /\ end \in next .. n
    <3>1. next # n + 1
      BY <2>1 DEF DecodeInv, Position
    <3>2. entry.blocks \in Seq(Block) /\ window \in Nat
          /\ \A b \in 1 .. n : entry.blocks[b].len <= window
      BY DEF DecodeInv, EntryFacts, InRange
    <3>3. next \in 1 .. n
      BY <1>1, <3>1
    <3> QED
      BY <3>2, <3>3, WindowIsThere
  <2> HIDE DEF end
  <2>3. Len(queue') = Len(queue) + 1
    <3>1. w \in Windows
      BY <1>1, <2>2 DEF Windows
    <3> HIDE DEF w
    <3> QED
      BY <1>2, <2>1, <3>1, AppendProperties
  <2>4. Undecoded' = Undecoded
    <3>1. decoder[next] = "none"
      BY <1>1, <2>2 DEF Borrowed
    <3> QED
      BY <1>1, <1>2, <2>1, <2>2, <3>1 DEF Undecoded
  <2>5. /\ DecodeWork = 2 * (n + 1 - next) + Len(queue) + 3 + Cardinality(Undecoded)
        /\ DecodeWork' = 2 * (n + 1 - (end + 1)) + (Len(queue) + 1) + 3 + Cardinality(Undecoded)
    BY <1>3, <2>1, <2>3, <2>4 DEF DecodeWork, PhasesLeft
  <2> HIDE DEF n
  <2>6. next \in Nat /\ end \in Nat /\ next <= end
    BY <1>1, <2>2
  <2> QED
    BY <1>1, <2>5, <2>6
<1>6. CASE FlushOne
  <2>1. /\ phase \in {"flush", "drain"} /\ phase' \in {"unwind", "submit", "drain"} /\ queue # <<>>
        /\ queue' = Tail(queue) /\ UNCHANGED <<entry, next, decoder>>
    BY <1>6 DEF FlushOne, archive, Consume, AfterFlush, NextWindow
  <2>2. Len(queue') = Len(queue) - 1 /\ Undecoded' = Undecoded
    BY <1>2, <1>4, <2>1
  <2>3. PhasesLeft[phase] = 3 /\ PhasesLeft[phase'] \in 1 .. 3 /\ PhasesLeft' = PhasesLeft
    BY <1>3, <2>1 DEF PhasesLeft
  <2>4. /\ DecodeWork = 2 * (n + 1 - next) + Len(queue) + 3 + Cardinality(Undecoded)
        /\ DecodeWork' = 2 * (n + 1 - next) + (Len(queue) - 1) + PhasesLeft[phase'] + Cardinality(Undecoded)
    BY <2>1, <2>2, <2>3 DEF DecodeWork
  <2> HIDE DEF n
  <2> QED
    BY <1>1, <2>3, <2>4
<1>7. CASE PayloadReadFails \/ OldestWindowFailed \/ CloseFails \/ Drained \/ Check
  <2>1. /\ UNCHANGED <<entry, next, queue, decoder>>
        /\ \/ phase \in {"submit", "flush", "drain"} /\ phase' \in {"unwind", "check"}
           \/ phase = "check" /\ phase' \in {"unwind", "accepted", "rejected", "failed"}
    BY <1>7 DEF PayloadReadFails, OldestWindowFailed, CloseFails, DecodeThrows, Drained, Check, archive
  <2>2. PhasesLeft[phase'] < PhasesLeft[phase] /\ PhasesLeft[phase'] \in Nat /\ PhasesLeft' = PhasesLeft
    BY <1>3, <2>1 DEF PhasesLeft
  <2>3. DecodeWork' = 2 * (n + 1 - next) + Len(queue) + PhasesLeft[phase'] + Cardinality(Undecoded)
    BY <1>4, <2>1, <2>2 DEF DecodeWork
  <2> QED
    BY <1>1, <2>2, <2>3, SMTT(30) DEF DecodeWork
<1>8. CASE DecodeUnwind
  <2>1. UNCHANGED <<entry, next, decoder>> /\ queue' = <<>> /\ phase = "unwind" /\ phase' = "failed"
    BY <1>8 DEF DecodeUnwind, archive
  <2>2. Len(queue') = 0 /\ PhasesLeft' = PhasesLeft
    BY <2>1 DEF PhasesLeft
  <2>3. /\ DecodeWork = 2 * (n + 1 - next) + Len(queue) + 1 + Cardinality(Undecoded)
        /\ DecodeWork' = 2 * (n + 1 - next) + 0 + 0 + Cardinality(Undecoded)
    BY <1>3, <1>4, <2>1, <2>2 DEF DecodeWork
  <2> HIDE DEF n
  <2> QED
    BY <1>1, <2>3
<1>9. CASE \E b \in DOMAIN decoder : Decoder(b)
  <2>1. PICK b \in DOMAIN decoder : Decoder(b)
    BY <1>9
  <2>2. /\ UNCHANGED <<entry, next, queue, phase>> /\ decoder[b] = "running"
        /\ \E st \in {"ready", "failed"} : decoder' = [decoder EXCEPT ![b] = st]
    BY <2>1 DEF Decoder, archive
  <2>3. b \in Undecoded /\ Undecoded' = Undecoded \ {b}
    BY <1>2, <2>2 DEF Undecoded
  <2>4. Cardinality(Undecoded') = Cardinality(Undecoded) - 1 /\ PhasesLeft' = PhasesLeft
    BY <1>1, <2>3, FS_RemoveElement DEF PhasesLeft
  <2>5. DecodeWork' = 2 * (n + 1 - next) + Len(queue) + PhasesLeft[phase] + (Cardinality(Undecoded) - 1)
    BY <2>2, <2>4 DEF DecodeWork
  <2> QED
    BY <1>1, <2>5 DEF DecodeWork
<1> QED
  BY <1>5, <1>6, <1>7, <1>8, <1>9 DEF DecodeMain

\* Each step of a thread of the reader, also one that throws, leaves less work: a
\* verdict or an error comes after at most 3 * Len(entry.blocks) + 3 of them.
THEOREM DecodingRunsOut ==
  DecodeSpec => [][DecodeMain \/ (\E b \in DOMAIN decoder : Decoder(b))
                     => DecodeWork \in Nat /\ DecodeWork' < DecodeWork]_decodeVars
<1>1. DecodeInv /\ Borrowed /\ DecodeInv' /\ [DecodeNext]_decodeVars
        => [DecodeMain \/ (\E b \in DOMAIN decoder : Decoder(b))
              => DecodeWork \in Nat /\ DecodeWork' < DecodeWork]_decodeVars
  <2> SUFFICES ASSUME DecodeInv, Borrowed, DecodeInv', DecodeMain \/ (\E b \in DOMAIN decoder : Decoder(b))
               PROVE  DecodeWork \in Nat /\ DecodeWork' < DecodeWork
    OBVIOUS
  <2>1. DecodeWork \in Nat
    <3>1. /\ Cardinality(Undecoded) \in Nat /\ PhasesLeft[phase] \in 0 .. 3 /\ Len(queue) \in Nat
          /\ Len(entry.blocks) \in Nat /\ next \in 1 .. Len(entry.blocks) + 1
      BY DecodeWorkIsCounted
    <3> QED
      BY <3>1, SMTT(30) DEF DecodeWork
  <2> QED
    BY <2>1, DecodeWorkShrinks
<1> QED
  BY <1>1, BorrowedAlways, PTL DEF DecodeSpec
=============================================================================
