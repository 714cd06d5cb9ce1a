------------------------------- MODULE MCWal --------------------------------
(* Model-checking instance of the segmented journal. *)
EXTENDS SegmentedWal

Modify == [op |-> "ModifyOrder", id |-> 7, new_price |-> 3, new_qty |-> 2]
\* Some, None, Some: the fields behind an option move.
Iceberg == [op |-> "NewOrder", id |-> 7, instrument_id |-> 1, side |-> "Ask", price |-> 3,
            qty |-> 2, order_type |-> "Iceberg", time_in_force |-> "FOK",
            visible_qty |-> 1, stop_price |-> None, stp_group |-> 4]
WalCommands == {Modify, Iceberg}
=============================================================================
