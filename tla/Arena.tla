------------------------------- MODULE Arena --------------------------------
(***************************************************************************)
(* matchx-arena (crates/matchx-arena/src/lib.rs): a pre-allocated array of *)
(* orders whose free slots are chained through the parallel array          *)
(* next_free.  data[i] = UNINIT models a slot whose MaybeUninit holds no   *)
(* order.  free, get and get_mut are only ever called on an occupied slot  *)
(* ("caller responsibility"); the guard i \in Occupied is that contract.   *)
(***************************************************************************)
EXTENDS Integers, FiniteSets

CONSTANTS
  Capacity,        \* number of slots
  FREE_LIST_END,   \* u32::MAX in the code: ends the free list
  Orders,          \* the orders that may be stored
  UNINIT,          \* an uninitialized slot
  MaxGeneration    \* bound of the model on a slot's generation counter

ASSUME ArenaAssumption ==
  /\ Capacity \in Nat
  /\ FREE_LIST_END \in Nat /\ FREE_LIST_END >= Capacity
  /\ UNINIT \notin Orders
  /\ MaxGeneration \in Nat \ {0}

VARIABLES
  data,         \* slot contents
  next_free,    \* the next free slot, meaningful for free slots only
  free_head,    \* first free slot
  len,          \* number of occupied slots
  generation,   \* debug builds: odd while the slot is occupied
  returned      \* result of the last alloc: a slot, or FREE_LIST_END for None

vars == <<data, next_free, free_head, len, generation, returned>>

Slots == 0 .. Capacity - 1
Links == Slots \cup {FREE_LIST_END}
Occupied == {i \in Slots : data[i] # UNINIT}

\* generation += 1; at the bound the counter steps back instead, which keeps
\* the parity that the assertions read
Bump(g) == IF g < MaxGeneration THEN g + 1 ELSE g - 1
-----------------------------------------------------------------------------
New ==
  /\ data = [i \in Slots |-> UNINIT]
  /\ next_free = [i \in Slots |-> IF i + 1 < Capacity THEN i + 1 ELSE FREE_LIST_END]
  /\ free_head = IF Capacity > 0 THEN 0 ELSE FREE_LIST_END
  /\ len = 0
  /\ generation = [i \in Slots |-> 0]
  /\ returned = FREE_LIST_END

AllocFull ==
  /\ free_head = FREE_LIST_END
  /\ returned' = FREE_LIST_END
  /\ UNCHANGED <<data, next_free, free_head, len, generation>>

Alloc(o) ==
  /\ free_head # FREE_LIST_END
  /\ free_head' = next_free[free_head]
  /\ data' = [data EXCEPT ![free_head] = o]
  /\ len' = len + 1
  /\ generation' = [generation EXCEPT ![free_head] = Bump(@)]
  /\ returned' = free_head
  /\ UNCHANGED next_free

\* Mutant: the freed slot is linked but never made the head.
FreeLeaksSlot(i) ==
  /\ i \in Occupied
  /\ generation' = [generation EXCEPT ![i] = Bump(@)]
  /\ data' = [data EXCEPT ![i] = UNINIT]
  /\ next_free' = [next_free EXCEPT ![i] = free_head]
  /\ len' = len - 1
  /\ UNCHANGED <<free_head, returned>>

\* Mutant: the new head keeps the link it had when it was last free.
FreeKeepsOldLink(i) ==
  /\ i \in Occupied
  /\ generation' = [generation EXCEPT ![i] = Bump(@)]
  /\ data' = [data EXCEPT ![i] = UNINIT]
  /\ free_head' = i
  /\ len' = len - 1
  /\ UNCHANGED <<next_free, returned>>

Free(i) ==
  /\ i \in Occupied
  /\ generation' = [generation EXCEPT ![i] = Bump(@)]
  /\ data' = [data EXCEPT ![i] = UNINIT]
  /\ next_free' = [next_free EXCEPT ![i] = free_head]
  /\ free_head' = i
  /\ len' = len - 1
  /\ UNCHANGED returned

GetMut(i, o) ==
  /\ i \in Occupied
  /\ data' = [data EXCEPT ![i] = o]
  /\ UNCHANGED <<next_free, free_head, len, generation, returned>>

Next ==
  \/ AllocFull
  \/ \E o \in Orders : Alloc(o)
  \/ \E i \in Slots : Free(i)
  \/ \E i \in Slots, o \in Orders : GetMut(i, o)

Spec == New /\ [][Next]_vars
-----------------------------------------------------------------------------
\* Every field keeps its type; next_free and free_head name slots or the end
\* of the list (the fields of struct Arena, lib.rs:21-29).
TypeOK ==
  /\ data \in [Slots -> Orders \cup {UNINIT}]
  /\ next_free \in [Slots -> Links]
  /\ free_head \in Links
  /\ len \in Nat
  /\ generation \in [Slots -> Nat]
  /\ returned \in Links

\* f lists the free slots in the order alloc would hand them out.
IsFreeList(f, n) ==
  /\ \A i, j \in 1 .. n : f[i] = f[j] => i = j
  /\ \A i \in 1 .. n : f[i] \notin Occupied
  /\ \A s \in Slots \ Occupied : \E i \in 1 .. n : f[i] = s
  /\ free_head = IF n = 0 THEN FREE_LIST_END ELSE f[1]
  /\ \A i \in 1 .. n : next_free[f[i]] = IF i = n THEN FREE_LIST_END ELSE f[i + 1]

\* The chain that starts at free_head visits every free slot once, visits no
\* occupied slot and ends: whatever the order of alloc and free, no slot is
\* handed out twice and none leaks (alloc and free, lib.rs:56-94).
FreeListThreadsFreeSlots ==
  \E n \in 0 .. Capacity : \E f \in [1 .. n -> Slots] : IsFreeList(f, n)

\* len() is the number of occupied slots, so is_empty() is exact (lib.rs:134-143).
LenCountsOccupied == len = Cardinality(Occupied)

\* The debug generation of a slot is odd exactly while the slot is occupied, so
\* the use-after-free and double-free assertions of get, get_mut and free fire on
\* every misuse and on nothing else (lib.rs:79-88, 102-110).
GenerationTellsOccupied ==
  \A i \in Slots : generation[i] % 2 = IF i \in Occupied THEN 1 ELSE 0

\* After any sequence of alloc, free and get_mut, links, length and generations all
\* describe the same set of occupied slots (struct Arena, lib.rs:21-143).
Inv ==
  /\ TypeOK
  /\ FreeListThreadsFreeSlots
  /\ LenCountsOccupied
  /\ GenerationTellsOccupied

Map == INSTANCE ArenaMap WITH
         store <- [i \in Occupied |-> data[i]], result <- returned, None <- FREE_LIST_END

\* The free-list arena implements the plain map: alloc never returns a slot in
\* use, it fails only when every slot is in use, and no operation on one slot
\* changes the order in another (lib.rs:54-132).
ImplementsMap == Map!MapSpec
=============================================================================
