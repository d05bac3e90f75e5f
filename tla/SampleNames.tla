----------------------------- MODULE SampleNames -----------------------------
(***************************************************************************)
(* Names and manifests that the samples of all formats are built from.     *)
(***************************************************************************)
EXTENDS Integers, Sequences, SequencesExt, FiniteSets

a == <<97>>
A == <<65>>
b == <<98>>
c == <<99>>
ab == <<97, 47, 98>>            \* a/b
aDashC == <<97, 45, 99>>        \* a-c, which sorts between a and a/b
up == <<46, 46, 47, 97>>        \* ../a

\* What a walk over the sources can find, in the order of its sort: a name that
\* needs no field of its own, one in a directory, one for two fields, one too
\* long for them, and one beyond ASCII; sizes around the limits of the fields.
Sized(n) == [i \in 1 .. n |-> 16 * n + i]
Found == <<
  [path |-> aDashC, dir |-> FALSE, data |-> Sized(8)],
  [path |-> <<97, 97, 97, 97, 97>>, dir |-> FALSE, data |-> Sized(7)],
  [path |-> <<100>>, dir |-> TRUE, data |-> << >>],
  [path |-> <<100, 47, 97, 98, 99>>, dir |-> FALSE, data |-> Sized(1)],
  [path |-> <<101>>, dir |-> FALSE, data |-> << >>],
  [path |-> <<195, 169>>, dir |-> FALSE, data |-> Sized(2)] >>

Manifests ==
  {[i \in DOMAIN SetToSortSeq(s, <) |-> Found[SetToSortSeq(s, <)[i]]] :
     s \in {t \in SUBSET DOMAIN Found : Cardinality(t) \in 1 .. 3}}
=============================================================================
