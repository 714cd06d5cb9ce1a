------------------------------ MODULE MCShared ------------------------------
(* Model-checking instance of a journal shared by threads. *)
EXTENDS SharedJournal

Cancel == [op |-> "CancelOrder", id |-> 7]
OneCommand == {Cancel}
=============================================================================
