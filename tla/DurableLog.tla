----------------------------- MODULE DurableLog -----------------------------
(***************************************************************************)
(* What the asynchronous journal promises while it runs, without threads,  *)
(* queue or batches: records are accepted into a log; the file takes them  *)
(* from it in that order, one after the other and none twice; the durable  *)
(* sequence is only ever moved to that of the last record in the file.     *)
(* Accepted records may stay unwritten for ever.                           *)
(***************************************************************************)
EXTENDS Sequences, SequencesExt

CONSTANT Entries     \* what a log may hold: records with a field sequence

VARIABLES
  log,       \* accepted entries, oldest first
  stored,    \* the entries in the file
  durable    \* the sequence reported as persisted, 0 before the first

LogInit ==
  /\ log = <<>>
  /\ stored = <<>>
  /\ durable = 0

Accept ==
  /\ \E e \in Entries : log' = Append(log, e)
  /\ UNCHANGED <<stored, durable>>

Store ==
  /\ Len(stored) < Len(log)
  /\ stored' = Append(stored, log[Len(stored) + 1])
  /\ UNCHANGED <<log, durable>>

Publish ==
  /\ stored # <<>>
  /\ durable' = Last(stored).sequence
  /\ UNCHANGED <<log, stored>>

LogNext == Accept \/ Store \/ Publish

LogSpec == LogInit /\ [][LogNext]_<<log, stored, durable>>
=============================================================================
