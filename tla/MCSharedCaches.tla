---------------------------- MODULE MCSharedCaches ----------------------------
(***************************************************************************)
(* Two windows of two sizes with a cache of one buffer and memory for two, *)
(* or two folders in the queue of the window.  The two caches share no     *)
(* state: a behaviour is one of PinnedMemory or one of FolderSize, and the *)
(* other cache stays as it is when the program has started.                *)
(***************************************************************************)
EXTENDS PinnedMemory, FolderSize

Pins(step) == step /\ Init /\ UNCHANGED vars
Sizing(step) == step /\ PinnedInit /\ UNCHANGED pinnedVars
allVars == <<vars, pinnedVars>>

\* Closing ends in a window that is gone, or in a join that waits for ever
\* because CloseReturns does not hold.
AtRest == ui \in {"join", "closed"} /\ UNCHANGED allVars

CachesInit == PinnedInit /\ Init
CachesNext == Pins(PinnedNext) \/ Sizing(Next) \/ AtRest

\* The fairness of FolderSize's FairSpec.
CachesSpec ==
  /\ CachesInit /\ [][CachesNext]_allVars
  /\ WF_allVars(Sizing(Ui)) /\ WF_allVars(Sizing(Worker)) /\ WF_allVars(Sizing(Metadata))
=============================================================================
