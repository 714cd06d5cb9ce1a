----------------------------- MODULE LevelList ------------------------------
(***************************************************************************)
(* matchx-book over matchx-arena: the orders of a level form a doubly      *)
(* linked list through their slots (Order::prev, Order::next), the level   *)
(* keeps head and tail, and order_index finds the slot of an id.  Here     *)
(* insert_order and remove_order are the sequences of arena calls they     *)
(* make; what else they do (totals, volume indices, best prices) is in the *)
(* module OrderBook, where a level is the sequence this list stands for.   *)
(* ARENA_NULL and Option::None are both FREE_LIST_END (u32::MAX).          *)
(***************************************************************************)
EXTENDS Arena, Sequences

CONSTANTS
  Ids,         \* order ids
  Levels       \* price levels: a side and a price

ASSUME LevelAssumption ==
  Orders = [id : Ids, level : Levels, prev : Links, next : Links]

VARIABLES
  head,          \* PriceLevel::head of each level
  tail,          \* PriceLevel::tail
  order_index,   \* id -> slot
  step,          \* what insert_order or remove_order does next, "idle" between calls
  slot           \* the slot it works on

listVars == <<vars, head, tail, order_index, step, slot>>

ARENA_NULL == FREE_LIST_END

Init ==
  /\ New
  /\ head = [l \in Levels |-> ARENA_NULL]
  /\ tail = [l \in Levels |-> ARENA_NULL]
  /\ order_index = [id \in Ids |-> ARENA_NULL]
  /\ step = "idle"
  /\ slot = ARENA_NULL
-----------------------------------------------------------------------------
\* insert_order returns None for an id in use, and when the arena is full.
InsertRefused(id) ==
  /\ step = "idle"
  /\ order_index[id] = ARENA_NULL
  /\ AllocFull
  /\ UNCHANGED <<head, tail, order_index, step, slot>>

InsertAlloc(id, l) ==
  /\ step = "idle"
  /\ order_index[id] = ARENA_NULL
  /\ Alloc([id |-> id, level |-> l, prev |-> ARENA_NULL, next |-> ARENA_NULL])
  /\ order_index' = [order_index EXCEPT ![id] = free_head]
  /\ slot' = free_head
  /\ step' = "set_links"
  /\ UNCHANGED <<head, tail>>

\* Mutant: the new order does not learn who is in front of it.
InsertKeepsPrev ==
  /\ step = "set_links"
  /\ GetMut(slot, [data[slot] EXCEPT !.next = ARENA_NULL])
  /\ step' = "link_at_tail"
  /\ UNCHANGED <<head, tail, order_index, slot>>

InsertSetLinks ==
  /\ step = "set_links"
  /\ GetMut(slot, [data[slot] EXCEPT !.prev = tail[data[slot].level], !.next = ARENA_NULL])
  /\ step' = "link_at_tail"
  /\ UNCHANGED <<head, tail, order_index, slot>>

InsertLinkAtTail ==
  LET l == data[slot].level
  IN  /\ step = "link_at_tail"
      /\ IF tail[l] # ARENA_NULL
         THEN /\ GetMut(tail[l], [data[tail[l]] EXCEPT !.next = slot])
              /\ UNCHANGED head
         ELSE /\ head' = [head EXCEPT ![l] = slot]
              /\ UNCHANGED vars
      /\ tail' = [tail EXCEPT ![l] = slot]
      /\ step' = "idle"
      /\ UNCHANGED <<order_index, slot>>

\* remove_order(idx): first the link in front of the order,
RemoveUnlinkPrev(id) ==
  LET idx   == order_index[id]
      order == data[idx]
  IN  /\ step = "idle"
      /\ idx # ARENA_NULL
      /\ IF order.prev # ARENA_NULL
         THEN /\ GetMut(order.prev, [data[order.prev] EXCEPT !.next = order.next])
              /\ UNCHANGED head
         ELSE /\ head' = [head EXCEPT ![order.level] = order.next]
              /\ UNCHANGED vars
      /\ slot' = idx
      /\ step' = "unlink_next"
      /\ UNCHANGED <<tail, order_index>>

\* Mutant: the tail is left on the removed order.
RemoveKeepsTail ==
  LET order == data[slot]
  IN  /\ step = "unlink_next"
      /\ IF order.next # ARENA_NULL
         THEN GetMut(order.next, [data[order.next] EXCEPT !.prev = order.prev])
         ELSE UNCHANGED vars
      /\ step' = "free"
      /\ UNCHANGED <<head, tail, order_index, slot>>

\* then the one behind it,
RemoveUnlinkNext ==
  LET order == data[slot]
  IN  /\ step = "unlink_next"
      /\ IF order.next # ARENA_NULL
         THEN /\ GetMut(order.next, [data[order.next] EXCEPT !.prev = order.prev])
              /\ UNCHANGED tail
         ELSE /\ tail' = [tail EXCEPT ![order.level] = order.prev]
              /\ UNCHANGED vars
      /\ step' = "free"
      /\ UNCHANGED <<head, order_index, slot>>

\* Mutant: the id stays in the index.
RemoveKeepsIndex ==
  /\ step = "free"
  /\ Free(slot)
  /\ step' = "idle"
  /\ UNCHANGED <<head, tail, order_index, slot>>

\* and the id and the slot are given back.
RemoveFree ==
  /\ step = "free"
  /\ order_index' = [order_index EXCEPT ![data[slot].id] = ARENA_NULL]
  /\ Free(slot)
  /\ step' = "idle"
  /\ UNCHANGED <<head, tail, slot>>

ListNext ==
  \/ \E id \in Ids : InsertRefused(id)
  \/ \E id \in Ids, l \in Levels : InsertAlloc(id, l)
  \/ InsertSetLinks
  \/ InsertLinkAtTail
  \/ \E id \in Ids : RemoveUnlinkPrev(id)
  \/ RemoveUnlinkNext
  \/ RemoveFree

ListSpec == Init /\ [][ListNext]_listVars
-----------------------------------------------------------------------------
\* The ids met from a slot along next, at most one per slot of the arena.
Walk(l) ==
  LET from[n \in 0 .. Capacity] ==
        [s \in Links |-> IF n = 0 \/ s \notin Occupied THEN <<>>
                         ELSE <<data[s].id>> \o from[n - 1][data[s].next]]
  IN  from[Capacity][head[l]]

Queues == INSTANCE LevelQueues WITH queues <- [l \in Levels |-> Walk(l)]

\* Walking a level from its head visits its orders in the order in which they were
\* inserted: one write makes an order the last of its level and one takes it out, from
\* the front, the middle or the end (book lib.rs:291-304, 452-466).
ImplementsQueues == Queues!QueuesSpec

\* Between calls each list is the same backwards: the prev of every order names the order
\* whose next names it, and tail the last one (book lib.rs:293-304, 455-464).
BackLinksMirror ==
  step = "idle" =>
    /\ \A s \in Occupied :
         LET o == data[s]
         IN  /\ IF o.prev = ARENA_NULL THEN head[o.level] = s
                ELSE o.prev \in Occupied /\ data[o.prev].next = s
             /\ IF o.next = ARENA_NULL THEN tail[o.level] = s
                ELSE o.next \in Occupied /\ data[o.next].prev = s
    /\ \A l \in Levels : (head[l] = ARENA_NULL) = (tail[l] = ARENA_NULL)

\* Between calls the walk meets every order of its level and no other: no write leaves a
\* part of a level behind that its head does not reach, be it a ring (book lib.rs:291-304,
\* 452-466).
WalksMeetEveryOrder ==
  step = "idle" =>
    \A l \in Levels :
      {Walk(l)[i] : i \in DOMAIN Walk(l)} = {data[s].id : s \in {s \in Occupied : data[s].level = l}}

\* Between calls each level is one list, from its head through all its orders to its tail,
\* and the same backwards (book lib.rs:291-304, 452-466).
LevelsAreLists == BackLinksMirror /\ WalksMeetEveryOrder

\* Between calls and between the link writes of one, the index finds every order in the
\* arena under its own id and nothing else: no slot is orphaned and none is reached by two
\* ids.  The index is written next to alloc and free (book lib.rs:288-289, 472-473).
IndexFindsEveryOrder ==
  /\ \A id \in Ids : order_index[id] # ARENA_NULL =>
       order_index[id] \in Occupied /\ data[order_index[id]].id = id
  /\ \A s \in Occupied : order_index[data[s].id] = s
=============================================================================
