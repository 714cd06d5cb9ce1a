------------------------------ MODULE ArenaMap ------------------------------
(***************************************************************************)
(* What matchx-arena promises its callers, without the free list: a store  *)
(* of at most Capacity orders, each under a slot index that stays its own  *)
(* until it is freed.  An allocation may return any slot that is not in    *)
(* use, and fails exactly when every slot is.                              *)
(***************************************************************************)
EXTENDS Integers

CONSTANTS
  Capacity,   \* number of slots
  Orders,     \* the orders that may be stored
  None        \* the result of an allocation that failed

VARIABLES
  store,      \* a function from the slots in use to their orders
  result      \* what the last allocation returned

Slots == 0 .. Capacity - 1

Bind(f, k, v) == [x \in DOMAIN f \cup {k} |-> IF x = k THEN v ELSE f[x]]

MapInit == store = [i \in {} |-> {}] /\ result = None

\* alloc(order) = Some(i): a slot that nobody holds now holds the order.
MapAlloc(i, o) ==
  /\ i \in Slots \ DOMAIN store
  /\ store' = Bind(store, i, o)
  /\ result' = i

\* alloc(order) = None: every slot is held.
MapFull ==
  /\ DOMAIN store = Slots
  /\ result' = None
  /\ UNCHANGED store

\* free(i): the slot is given back.
MapFree(i) ==
  /\ i \in DOMAIN store
  /\ store' = [x \in DOMAIN store \ {i} |-> store[x]]
  /\ UNCHANGED result

\* *get_mut(i) = order: only the order at i changes.
MapWrite(i, o) ==
  /\ i \in DOMAIN store
  /\ store' = [store EXCEPT ![i] = o]
  /\ UNCHANGED result

MapNext ==
  \/ MapFull
  \/ \E i \in Slots :
       \/ \E o \in Orders : MapAlloc(i, o) \/ MapWrite(i, o)
       \/ MapFree(i)

MapSpec == MapInit /\ [][MapNext]_<<store, result>>
=============================================================================
