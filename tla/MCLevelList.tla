----------------------------- MODULE MCLevelList ----------------------------
(* Model-checking instance of the level lists in the arena. *)
EXTENDS LevelList

SlotNumbers == 0 .. Capacity - 1
LinkedOrders == [id : Ids, level : Levels, prev : SlotNumbers \cup {FREE_LIST_END},
                 next : SlotNumbers \cup {FREE_LIST_END}]
=============================================================================
