---------------------------- MODULE AtomicOutput ----------------------------
(***************************************************************************)
(* What file publication promises its callers, whatever happens in         *)
(* between: each request either puts its complete file at its target in    *)
(* one step, or gives up and leaves the target as it found it.  A request  *)
(* made without the overwrite option never takes the place of a file that  *)
(* is there.                                                               *)
(*                                                                         *)
(* Publication implements this module; Extraction and CompressJob are      *)
(* built on top of it.                                                     *)
(***************************************************************************)
CONSTANTS
  Txs,      \* the publication requests
  Targets,  \* the final paths
  Absent,   \* content of a path at which there is no file
  User      \* the author of files that other programs write

VARIABLES
  final,    \* what a reader finds at each final path
  request,  \* the target and the overwrite option of each request
  outcome   \* what became of each request

vars == <<final, request, outcome>>

Requests == [target : Targets, overwrite : BOOLEAN]
Outcomes == {"pending", "published", "abandoned"}

\* A complete file written by request t, and one that is not ours.
Complete(t) == [by |-> t, whole |-> TRUE]
UserFile == [by |-> User, whole |-> TRUE]

Init ==
  /\ final \in [Targets -> {Absent, UserFile}]
  /\ request \in [Txs -> Requests]
  /\ outcome = [t \in Txs |-> "pending"]

\* The only way a request changes its target.
Publish(t) ==
  /\ outcome[t] = "pending"
  /\ request[t].overwrite \/ final[request[t].target] = Absent
  /\ final' = [final EXCEPT ![request[t].target] = Complete(t)]
  /\ outcome' = [outcome EXCEPT ![t] = "published"]
  /\ UNCHANGED request

\* Refused, failed, cancelled or killed before it published.
Abandon(t) ==
  /\ outcome[t] = "pending"
  /\ outcome' = [outcome EXCEPT ![t] = "abandoned"]
  /\ UNCHANGED <<final, request>>

\* Other programs use the same directory.
UserCreates(g) ==
  /\ final[g] = Absent
  /\ final' = [final EXCEPT ![g] = UserFile]
  /\ UNCHANGED <<request, outcome>>

UserDeletes(g) ==
  /\ final[g] # Absent
  /\ final' = [final EXCEPT ![g] = Absent]
  /\ UNCHANGED <<request, outcome>>

Next ==
  \/ \E t \in Txs : Publish(t) \/ Abandon(t)
  \/ \E g \in Targets : UserCreates(g) \/ UserDeletes(g)

Spec == Init /\ [][Next]_vars
=============================================================================
