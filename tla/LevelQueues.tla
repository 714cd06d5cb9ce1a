---------------------------- MODULE LevelQueues -----------------------------
(***************************************************************************)
(* What the linked lists of the price levels promise: each level is a      *)
(* queue of order ids; an order enters one queue, at its end, and leaves   *)
(* it from any place; the others keep their places.                        *)
(***************************************************************************)
EXTENDS Sequences, SequencesExt

CONSTANTS
  Ids,
  Levels

VARIABLE queues      \* level -> ids, oldest first

QueuesInit == queues = [l \in Levels |-> <<>>]

Enqueue(id, l) ==
  /\ \A k \in Levels : ~Contains(queues[k], id)
  /\ queues' = [queues EXCEPT ![l] = Append(@, id)]

Leave(l, i) == queues' = [queues EXCEPT ![l] = RemoveAt(@, i)]

QueuesNext ==
  \/ \E id \in Ids, l \in Levels : Enqueue(id, l)
  \/ \E l \in Levels : \E i \in DOMAIN queues[l] : Leave(l, i)

QueuesSpec == QueuesInit /\ [][QueuesNext]_queues
=============================================================================
