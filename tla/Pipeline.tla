------------------------------ MODULE Pipeline ------------------------------
(***************************************************************************)
(* matchx-bench, pipeline.rs: an engine and an AsyncJournal behind one     *)
(* process(), through crashes, recovery of the file and restarts.  The     *)
(* engine is deterministic, so what it has done is the sequence of the     *)
(* commands it processed, which replay rebuilds from the file.  Nothing    *)
(* makes a caller stop after an error, or recover a file before opening it *)
(* again.  The pipeline has one thread besides the worker.                 *)
(***************************************************************************)
EXTENDS AsyncJournal

CONSTANTS
  MaxCommands,       \* bound of the model on the commands of one session
  MaxSessions        \* bound of the model on the pipelines opened

ASSUME PipelineAssumption ==
  /\ MaxCommands \in Nat /\ MaxSessions \in Nat
  /\ Threads # {}

VARIABLES
  input_seq,         \* field of EndToEndPipeline
  processed,         \* the commands the engine has processed in this session
  alive,             \* the process runs
  base,              \* records in the file when the session began
  clean,             \* the file ended with a whole record when it began
  sessions,          \* pipelines opened so far
  confirmed          \* the records that could be read when the last session ended

pipeline == <<input_seq, processed, alive, base, clean, sessions, confirmed>>
pipelineVars == <<vars, pipeline>>

main == CHOOSE t \in Threads : TRUE
Readable == Scan(file).entries
Session == SubSeq(Readable, base + 1, Len(Readable))

Init ==
  /\ Open
  /\ file = <<>>
  /\ input_seq = 0 /\ processed = <<>>
  /\ alive = FALSE
  /\ base = 0 /\ clean = TRUE
  /\ sessions = 0
  /\ confirmed = <<>>

\* EndToEndPipeline::new appends to the file as it is and counts from 0.
New ==
  /\ ~alive
  /\ sessions < MaxSessions
  /\ Reopen
  /\ input_seq' = 0 /\ processed' = <<>>
  /\ alive' = TRUE
  /\ base' = Len(Readable) /\ clean' = (Scan(file).end = Len(file))
  /\ sessions' = sessions + 1
  /\ UNCHANGED confirmed

\* Mutant: only journalled commands are counted.
ProcessCountsAccepted(c) ==
  /\ alive
  /\ ~closed
  /\ input_seq < MaxCommands
  /\ input_seq' = input_seq + 1
  /\ processed' = Append(processed, c)
  /\ AppendBegin(main, [sequence |-> accepted + 1, command |-> c])
  /\ UNCHANGED <<alive, base, clean, sessions, confirmed>>

\* process: count, let the engine process, append; the rest of append is Journal.
Process(c) ==
  /\ alive
  /\ ~closed
  /\ input_seq < MaxCommands
  /\ input_seq' = input_seq + 1
  /\ processed' = Append(processed, c)
  /\ AppendBegin(main, [sequence |-> input_seq + 1, command |-> c])
  /\ UNCHANGED <<alive, base, clean, sessions, confirmed>>

\* The pipeline is dropped, and with it the journal: AsyncJournal::drop closes it.
Drop ==
  /\ alive
  /\ Close(main)
  /\ UNCHANGED pipeline

Journal ==
  /\ alive
  /\ Call(main) \/ Worker
  /\ UNCHANGED pipeline

\* The process ends, after the drop or by a crash at any point before, and with it all
\* but the file.
Stop ==
  /\ alive
  /\ alive' = FALSE
  /\ confirmed' = Readable
  /\ Reopen
  /\ UNCHANGED <<input_seq, processed, base, clean, sessions>>

\* RecoveryManager::recover_path of the file, while nobody writes to it.
RecoverPath ==
  /\ ~alive
  /\ file' = RecoverFile(file).data
  /\ UNCHANGED <<shared, workers, calls, history, pipeline>>

Next ==
  \/ New
  \/ \E c \in Commands : Process(c)
  \/ Drop
  \/ Journal
  \/ Stop
  \/ RecoverPath

Spec == Init /\ [][Next]_pipelineVars
-----------------------------------------------------------------------------
\* A command the journal refused leaves a gap in the sequences: if what can be read of a
\* session that began on whole records is numbered without one, it is exactly what the
\* engine processed first, so its replay rebuilds the engine (process, pipeline.rs:26-31).
ContiguousReplayIsExact ==
  LET own == Session
  IN  clean /\ (\A i \in DOMAIN own : own[i].sequence = i)
        => [i \in DOMAIN own |-> own[i].command] = SubSeq(processed, 1, Len(own))

\* Whatever a session has reported durable can be read, and so is kept by recover_path
\* (docs/plans/2026-03-02-latency-platform-design.md:98-99).  The code does not hold to this
\* in a session opened over a torn record (pipeline.rs:22, writer.rs:31-41).
DurableIsReadable ==
  alive => {e \in ToSet(sent) : e.sequence <= durable} \subseteq ToSet(Session)

\* What could be read when any session ended, clean or not, is never lost again, by further
\* crashes, torn writes, restarts on the file with or without recovery, or recovery itself;
\* and in a session that began on whole records that includes all it has reported durable
\* (open, writer.rs:31-41; recover_file, recovery.rs:35-63; async_journal.rs:200-216).
ConfirmedSurvives ==
  /\ IsPrefix(confirmed, Readable)
  /\ clean => DurableIsReadable

\* Between calls durability_lag = accepted_sequence - durable_sequence does not
\* underflow, although accepted is stored only after the worker could take the record
\* (async_journal.rs:90-98).
LagDoesNotUnderflow ==
  alive /\ pc[main] = "idle" => durable <= accepted

\* After an orderly drop of a session that began on whole records the file holds exactly
\* the commands for which process returned Ok, however full the queue was, unless a write
\* failed (async_journal.rs:114-138).
DropKeepsEverything ==
  joined /\ ~degraded /\ clean /\ alive
    => {Session[i] : i \in DOMAIN Session} = acked
=============================================================================
