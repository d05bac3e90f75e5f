----------------------------- MODULE PinnedMemory -----------------------------
(***************************************************************************)
(* Page-locked output buffers of GPU decoding: PinnedHostBudget of         *)
(* gpu/pinned_host_budget.hpp, try_allocate_hip_host_output and            *)
(* HipHostOutputPool of gpu/hip_device.cpp, and the storage owners of      *)
(* core/decoded_chunk.cpp.                                                 *)
(*                                                                         *)
(* An owner is a window of DecodePipeline: its thread acquires a buffer,   *)
(* and whoever consumes the window gives it back.  The budget is one       *)
(* atomic counter of the process, the pool a list under a mutex, and       *)
(* between the two HIP allocates and frees, which may fail.                *)
(***************************************************************************)
EXTENDS Integers, FiniteSets

CONSTANTS
  Owners,      \* windows in flight
  Buffers,     \* addresses hipHostMalloc can return
  Sizes,       \* decoded sizes of windows, of those a pinned buffer may have
  Maximum,     \* PinnedHostBudget::maximum_bytes
  Allowances,  \* results of allowance; 0 when memory or HIP is unavailable
  Capacity     \* kMaxInflightArchiveChunks

ASSUME PinnedMemoryAssumption ==
  /\ IsFiniteSet(Owners) /\ IsFiniteSet(Buffers)
  /\ Sizes \subseteq Nat \ {0}
  /\ Maximum \in Nat /\ Allowances \subseteq 0 .. Maximum
  /\ Capacity \in Nat

VARIABLES
  reserved,  \* PinnedHostBudget::reserved_
  extent,    \* size of the allocation at each address, 0 if there is none
  lost,      \* allocations that hipHostFree refused to free
  idle,      \* HipHostOutputPool::idle_
  open,      \* an operation is under way
  pooled,    \* it has a pool: make_owned_decode_pool
  pc,        \* step of each owner
  want,      \* the size it asked for, or 0
  limit,     \* allowance of its memory snapshot
  current,   \* the counter as it last read it
  flux,      \* bytes it has reserved and no allocation for
  hold       \* its buffer, or the buffers it has to free

pool == <<idle, open, pooled>>
heap == <<extent, lost>>
admission == <<limit, current, flux>>
pinnedVars == <<reserved, heap, pool, pc, want, admission, hold>>

Steps == {"idle", "acquire", "snapshot", "load", "swap", "malloc", "using",
          "free", "return"}

PinnedTypeOK ==
  /\ reserved \in Nat /\ extent \in [Buffers -> Sizes \cup {0}]
  /\ lost \subseteq Buffers /\ idle \subseteq Buffers
  /\ open \in BOOLEAN /\ pooled \in BOOLEAN
  /\ pc \in [Owners -> Steps]
  /\ want \in [Owners -> Sizes \cup {0}]
  /\ limit \in [Owners -> Allowances \cup {0}]
  /\ current \in [Owners -> Nat] /\ flux \in [Owners -> Sizes \cup {0}]
  /\ hold \in [Owners -> SUBSET Buffers]

PinnedInit ==
  /\ reserved = 0
  /\ extent = [b \in Buffers |-> 0] /\ lost = {} /\ idle = {}
  /\ open = FALSE /\ pooled = FALSE
  /\ pc = [t \in Owners |-> "idle"] /\ want = [t \in Owners |-> 0]
  /\ limit = [t \in Owners |-> 0] /\ current = [t \in Owners |-> 0]
  /\ flux = [t \in Owners |-> 0]
  /\ hold = [t \in Owners |-> {}]

Go(t, from, to) ==
  /\ pc[t] = from
  /\ pc' = [pc EXCEPT ![t] = to]

AllIdle == \A t \in Owners : pc[t] = "idle"

-----------------------------------------------------------------------------
(* Operations and their windows *)

Begin ==
  /\ ~open /\ AllIdle
  /\ open' = TRUE /\ pooled' \in BOOLEAN
  /\ UNCHANGED <<reserved, heap, idle, pc, want, admission, hold>>

\* Faulty variant: the buffers of the cache are left to themselves.
EndForgettingIdle(t) ==
  /\ open /\ AllIdle
  /\ open' = FALSE /\ idle' = {}
  /\ UNCHANGED <<reserved, heap, pooled, pc, want, admission, hold>>

\* The last owner of the pool is gone: its destructor frees the idle buffers.
End(t) ==
  /\ open /\ AllIdle
  /\ open' = FALSE /\ idle' = {}
  /\ hold' = [hold EXCEPT ![t] = idle]
  /\ pc' = [pc EXCEPT ![t] = "free"]
  /\ UNCHANGED <<reserved, heap, pooled, want, admission>>

\* allocate_decoded_storage for blocks the GPU can decode.
Ask(t) ==
  /\ open /\ Go(t, "idle", IF pooled THEN "acquire" ELSE "snapshot")
  /\ \E n \in Sizes : want' = [want EXCEPT ![t] = n]
  /\ UNCHANGED <<reserved, heap, pool, admission, hold>>

\* The window uses ordinary memory.
FallBack(t, from) ==
  /\ Go(t, from, "idle")
  /\ want' = [want EXCEPT ![t] = 0]

-----------------------------------------------------------------------------
(* HipHostOutputPool *)

Fitting(t) == {b \in idle : extent[b] >= want[t]}
Smallest(t) == {b \in Fitting(t) : \A c \in Fitting(t) : extent[b] <= extent[c]}

\* Faulty variant: the buffer stays in the list.
TakeWithoutErase(t) ==
  /\ Go(t, "acquire", "using")
  /\ \E b \in Smallest(t) : hold' = [hold EXCEPT ![t] = {b}]
  /\ UNCHANGED <<reserved, heap, pool, want, admission>>

\* acquire, when an idle buffer fits.
Take(t) ==
  /\ Go(t, "acquire", "using")
  /\ \E b \in Smallest(t) : /\ idle' = idle \ {b}
                           /\ hold' = [hold EXCEPT ![t] = {b}]
  /\ UNCHANGED <<reserved, heap, open, pooled, want, admission>>

\* acquire, when none does: the idle buffers are freed before the allocation.
Evict(t) ==
  /\ Fitting(t) = {}
  /\ Go(t, "acquire", "free")
  /\ idle' = {} /\ hold' = [hold EXCEPT ![t] = idle]
  /\ UNCHANGED <<reserved, heap, open, pooled, want, admission>>

\* release, when there is room.
Cache(t) ==
  /\ pooled /\ Cardinality(idle) < Capacity
  /\ FallBack(t, "using")
  /\ idle' = idle \cup hold[t] /\ hold' = [hold EXCEPT ![t] = {}]
  /\ UNCHANGED <<reserved, heap, open, pooled, admission>>

\* release_hip_host_output: there is no pool, no room, or no memory for the list.
Discard(t) ==
  /\ Go(t, "using", "free")
  /\ want' = [want EXCEPT ![t] = 0]
  /\ UNCHANGED <<reserved, heap, pool, admission, hold>>

-----------------------------------------------------------------------------
(* PinnedHostBudget and HIP *)

\* GlobalMemoryStatusEx and the test of the limit.
Snapshot(t) ==
  /\ \E n \in Allowances :
       \/ /\ want[t] <= n /\ Go(t, "snapshot", "load")
          /\ limit' = [limit EXCEPT ![t] = n] /\ UNCHANGED want
       \/ /\ want[t] > n /\ FallBack(t, "snapshot")
          /\ UNCHANGED limit
  /\ UNCHANGED <<reserved, heap, pool, current, flux, hold>>

Load(t) ==
  /\ Go(t, "load", "swap")
  /\ current' = [current EXCEPT ![t] = reserved]
  /\ UNCHANGED <<reserved, heap, pool, want, limit, flux, hold>>

\* Faulty variant: the bytes asked for are not part of the comparison.
AdmitsFull(t) == current[t] <= limit[t]

\* current <= limit - bytes
Admits(t) == current[t] <= limit[t] - want[t]

\* Faulty variant: the sum is stored whatever the counter is now.
SwapWithoutCompare(t) ==
  /\ Admits(t)
  /\ Go(t, "swap", "malloc")
  /\ reserved' = current[t] + want[t]
  /\ flux' = [flux EXCEPT ![t] = want[t]]
  /\ UNCHANGED <<heap, pool, want, limit, current, hold>>

\* compare_exchange_weak succeeds.
Swap(t) ==
  /\ Admits(t) /\ reserved = current[t]
  /\ Go(t, "swap", "malloc")
  /\ reserved' = current[t] + want[t]
  /\ flux' = [flux EXCEPT ![t] = want[t]]
  /\ UNCHANGED <<heap, pool, want, limit, current, hold>>

\* It fails and reads the counter again.
Reload(t) ==
  /\ Admits(t) /\ pc[t] = "swap"
  /\ current' = [current EXCEPT ![t] = reserved]
  /\ UNCHANGED <<reserved, heap, pool, pc, want, limit, flux, hold>>

Refused(t) ==
  /\ ~Admits(t) /\ FallBack(t, "swap")
  /\ UNCHANGED <<reserved, heap, pool, admission, hold>>

\* hipHostMalloc
Allocate(t) ==
  /\ Go(t, "malloc", "using")
  /\ \E b \in Buffers : /\ extent[b] = 0
                       /\ extent' = [extent EXCEPT ![b] = want[t]]
                       /\ hold' = [hold EXCEPT ![t] = {b}]
  /\ flux' = [flux EXCEPT ![t] = 0]
  /\ UNCHANGED <<reserved, lost, pool, want, limit, current>>

AllocateFails(t) ==
  /\ Go(t, "malloc", "return")
  /\ want' = [want EXCEPT ![t] = 0]
  /\ UNCHANGED <<reserved, heap, pool, admission, hold>>

\* hipHostFree: when it fails the reservation stays.
HipFree(t) ==
  /\ pc[t] = "free"
  /\ \E b \in hold[t] :
       /\ hold' = [hold EXCEPT ![t] = @ \ {b}]
       /\ \/ /\ extent' = [extent EXCEPT ![b] = 0] /\ UNCHANGED lost
             /\ flux' = [flux EXCEPT ![t] = extent[b]]
             /\ pc' = [pc EXCEPT ![t] = "return"]
          \/ /\ lost' = lost \cup {b} /\ UNCHANGED <<extent, flux, pc>>
  /\ UNCHANGED <<reserved, pool, want, limit, current>>

\* PinnedHostBudget::release
Return(t) ==
  /\ Go(t, "return", "free")
  /\ reserved' = reserved - flux[t]
  /\ flux' = [flux EXCEPT ![t] = 0]
  /\ UNCHANGED <<heap, pool, want, limit, current, hold>>

\* Everything is freed; acquire goes on to its allocation.
Freed(t) ==
  /\ hold[t] = {}
  /\ Go(t, "free", IF want[t] > 0 THEN "snapshot" ELSE "idle")
  /\ UNCHANGED <<reserved, heap, pool, want, admission, hold>>

-----------------------------------------------------------------------------
Step(t) ==
  \/ End(t) \/ Ask(t)
  \/ Take(t) \/ Evict(t) \/ Cache(t) \/ Discard(t)
  \/ Snapshot(t) \/ Load(t) \/ Swap(t) \/ Reload(t) \/ Refused(t)
  \/ Allocate(t) \/ AllocateFails(t) \/ HipFree(t) \/ Return(t) \/ Freed(t)

PinnedNext == Begin \/ \E t \in Owners : Step(t)

PinnedSpec == PinnedInit /\ [][PinnedNext]_pinnedVars

-----------------------------------------------------------------------------
(* Properties *)

\* The bytes of several amounts, each with the thing it is the amount of.
Bytes(amount) == UNION {{x} \X (1 .. amount[x]) : x \in DOMAIN amount}

\* The counter is what is allocated and what is being allocated or returned,
\* whatever the order of the owners and whatever HIP refuses: a lost update or a
\* reservation given back twice would let later operations pin too much, or none.
PinsAreCounted ==
  reserved = Cardinality(Bytes(extent)) + Cardinality(Bytes(flux))

\* "failed pin admission never exceeds the cap"
PinsAreBounded == reserved <= Maximum

\* "Returns uniquely borrowed pinned storage": a buffer is in use by one window,
\* idle, being freed by one owner or lost; it is allocated, and a window's own is
\* as large as the window.
BuffersAreExclusive ==
  /\ \A t \in Owners :
       /\ hold[t] \cap (idle \cup lost) = {}
       /\ \A u \in Owners \ {t} : hold[t] \cap hold[u] = {}
       /\ pc[t] = "using" => \E b \in Buffers : hold[t] = {b} /\ extent[b] >= want[t]
  /\ idle \cap lost = {}
  /\ \A b \in idle \cup lost \cup UNION {hold[t] : t \in Owners} : extent[b] > 0

\* Between operations nothing is pinned but what HIP refused to free, and the
\* counter is exactly that.
NothingStaysPinned ==
  ~open /\ AllIdle =>
    /\ \A b \in Buffers \ lost : extent[b] = 0
    /\ reserved = Cardinality(Bytes([b \in lost |-> extent[b]]))
=============================================================================
