---------------------------- MODULE AsyncJournal ----------------------------
(***************************************************************************)
(* matchx-journal, async_journal.rs: threads that share an AsyncJournal    *)
(* call append and close; one worker takes records from a bounded channel, *)
(* writes them in batches to a single file and publishes the last sequence *)
(* of the batch.  One action per access to what the threads share: a call  *)
(* is interrupted between its loads, its send and its store.               *)
(* sync_channel(capacity) (external) is a sequence of messages: try_send   *)
(* fails on a full one, send waits, both fail once the receiver is gone.   *)
(***************************************************************************)
EXTENDS Codec

CONSTANTS
  Threads,          \* that call append and close
  Commands,         \* the commands they append
  QueueCapacity,
  BatchSize         \* batch_size.max(1)

ASSUME AsyncAssumption ==
  /\ QueueCapacity \in Nat \ {0}      \* 0 would make the channel a rendezvous
  /\ BatchSize \in Nat \ {0}
  /\ \A c \in Commands : IsCommand(c)

VARIABLES
  queue,            \* the channel
  accepted,         \* atomics of struct AsyncJournal
  durable,
  degraded,
  closed,
  worker,           \* where worker_loop is
  batch,            \* the records of the batch that are still to be written
  last_sequence,
  should_exit,
  file,             \* the cells of the file
  pc,               \* where each thread is in its call
  record,           \* the entry each thread appends
  sent,             \* history: the entries in the order in which they were sent
  acked,            \* history: the entries whose append returned Ok
  acked_at_close,   \* history: acked when the first close began
  joined            \* the first close has returned

shared == <<queue, accepted, durable, degraded, closed>>
workers == <<worker, batch, last_sequence, should_exit>>
calls == <<pc, record>>
history == <<sent, acked, acked_at_close, joined>>
vars == <<shared, workers, file, calls, history>>

Shutdown == [op |-> "Shutdown"]
AppendRecord(e) == [op |-> "Append", entry |-> e]

\* open: the rest of the state around whatever the file holds.
Open ==
  /\ queue = <<>>
  /\ accepted = 0 /\ durable = 0
  /\ degraded = FALSE /\ closed = FALSE
  /\ worker = "recv" /\ batch = <<>> /\ last_sequence = 0 /\ should_exit = FALSE
  /\ pc = [t \in Threads |-> "idle"] /\ record = [t \in Threads |-> None]
  /\ sent = <<>> /\ acked = {} /\ acked_at_close = {} /\ joined = FALSE

\* open once more, on the file that an earlier process left.
Reopen ==
  /\ queue' = <<>>
  /\ accepted' = 0 /\ durable' = 0
  /\ degraded' = FALSE /\ closed' = FALSE
  /\ worker' = "recv" /\ batch' = <<>> /\ last_sequence' = 0 /\ should_exit' = FALSE
  /\ pc' = [t \in Threads |-> "idle"] /\ record' = [t \in Threads |-> None]
  /\ sent' = <<>> /\ acked' = {} /\ acked_at_close' = {} /\ joined' = FALSE
  /\ UNCHANGED file
-----------------------------------------------------------------------------
Goto(t, label) == pc' = [pc EXCEPT ![t] = label]

\* append begins with a load of degraded, and may return WriterDegraded.
AppendBegin(t, e) ==
  /\ pc[t] = "idle"
  /\ IF degraded THEN UNCHANGED calls
     ELSE /\ Goto(t, "load_closed")
          /\ record' = [record EXCEPT ![t] = e]
  /\ UNCHANGED <<shared, workers, file, history>>

\* WriterStopped, if close has begun.
AppendLoadClosed(t) ==
  /\ pc[t] = "load_closed"
  /\ Goto(t, IF closed THEN "idle" ELSE "try_send")
  /\ UNCHANGED <<shared, workers, file, record, history>>

\* WriterStopped when the receiver is gone, QueueFull when the channel is full.
AppendRefused(t) ==
  /\ pc[t] = "try_send"
  /\ worker = "exited" \/ Len(queue) >= QueueCapacity
  /\ Goto(t, "idle")
  /\ UNCHANGED <<shared, workers, file, record, history>>

\* Mutant: an unbounded channel.
AppendSendUnbounded(t) ==
  /\ pc[t] = "try_send"
  /\ worker # "exited"
  /\ queue' = Append(queue, AppendRecord(record[t]))
  /\ sent' = Append(sent, record[t])
  /\ Goto(t, "store_accepted")
  /\ UNCHANGED <<accepted, durable, degraded, closed, workers, file, record,
                 acked, acked_at_close, joined>>

AppendTrySend(t) ==
  /\ pc[t] = "try_send"
  /\ worker # "exited" /\ Len(queue) < QueueCapacity
  /\ queue' = Append(queue, AppendRecord(record[t]))
  /\ sent' = Append(sent, record[t])
  /\ Goto(t, "store_accepted")
  /\ UNCHANGED <<accepted, durable, degraded, closed, workers, file, record,
                 acked, acked_at_close, joined>>

\* Mutant: accepted is left where it was.
AppendKeepsAccepted(t) ==
  /\ pc[t] = "store_accepted"
  /\ acked' = acked \cup {record[t]}
  /\ Goto(t, "idle")
  /\ UNCHANGED <<shared, workers, file, record, sent, acked_at_close, joined>>

AppendStoreAccepted(t) ==
  /\ pc[t] = "store_accepted"
  /\ accepted' = record[t].sequence
  /\ acked' = acked \cup {record[t]}
  /\ Goto(t, "idle")
  /\ UNCHANGED <<queue, durable, degraded, closed, workers, file, record,
                 sent, acked_at_close, joined>>

\* A second close finds closed set and returns at once, whether or not the first is done.
CloseAgain(t) ==
  /\ pc[t] = "idle"
  /\ closed
  /\ UNCHANGED vars

Close(t) ==
  /\ pc[t] = "idle"
  /\ ~closed
  /\ closed' = TRUE
  /\ acked_at_close' = acked
  /\ Goto(t, "send_shutdown")
  /\ UNCHANGED <<queue, accepted, durable, degraded, workers, file, record, sent, acked, joined>>

\* The blocking send: it waits for room, and fails when the receiver is gone.
CloseSendShutdown(t) ==
  /\ pc[t] = "send_shutdown"
  /\ worker = "exited" \/ Len(queue) < QueueCapacity
  /\ queue' = IF worker = "exited" THEN queue ELSE Append(queue, Shutdown)
  /\ Goto(t, "join")
  /\ UNCHANGED <<accepted, durable, degraded, closed, workers, file, record, history>>

CloseJoin(t) ==
  /\ pc[t] = "join"
  /\ worker = "exited"
  /\ joined' = TRUE
  /\ Goto(t, "idle")
  /\ UNCHANGED <<shared, workers, file, record, sent, acked, acked_at_close>>
-----------------------------------------------------------------------------
\* The first message of a batch; rx.recv waits for it.
Recv ==
  /\ worker = "recv"
  /\ queue # <<>>
  /\ queue' = Tail(queue)
  /\ IF Head(queue) = Shutdown
     THEN /\ worker' = "leaving"
          /\ UNCHANGED <<batch, last_sequence>>
     ELSE /\ worker' = "drain"
          /\ batch' = <<Head(queue).entry>>
          /\ last_sequence' = Head(queue).entry.sequence
  /\ UNCHANGED <<accepted, durable, degraded, closed, should_exit, file, calls, history>>

\* Mutant: a Shutdown ends the worker with the batch unwritten.
DrainAbandonsBatch ==
  /\ worker = "drain"
  /\ Len(batch) < BatchSize
  /\ queue # <<>>
  /\ queue' = Tail(queue)
  /\ IF Head(queue) = Shutdown
     THEN /\ worker' = "leaving"
          /\ UNCHANGED <<batch, last_sequence>>
     ELSE /\ batch' = Append(batch, Head(queue).entry)
          /\ last_sequence' = Head(queue).entry.sequence
          /\ UNCHANGED worker
  /\ UNCHANGED <<accepted, durable, degraded, closed, should_exit, file, calls, history>>

\* try_recv of one more message.
Drain ==
  /\ worker = "drain"
  /\ Len(batch) < BatchSize
  /\ queue # <<>>
  /\ queue' = Tail(queue)
  /\ IF Head(queue) = Shutdown
     THEN /\ worker' = "write"
          /\ should_exit' = TRUE
          /\ UNCHANGED <<batch, last_sequence>>
     ELSE /\ batch' = Append(batch, Head(queue).entry)
          /\ last_sequence' = Head(queue).entry.sequence
          /\ UNCHANGED <<worker, should_exit>>
  /\ UNCHANGED <<accepted, durable, degraded, closed, file, calls, history>>

\* Mutant: a batch that is not full waits for more.
DrainUntilFull ==
  /\ worker = "drain"
  /\ Len(batch) = BatchSize
  /\ worker' = "write"
  /\ UNCHANGED <<shared, batch, last_sequence, should_exit, file, calls, history>>

DrainEnds ==
  /\ worker = "drain"
  /\ Len(batch) = BatchSize \/ queue = <<>>
  /\ worker' = "write"
  /\ UNCHANGED <<shared, batch, last_sequence, should_exit, file, calls, history>>

\* Mutant: the batch is written from its end.
WriteRecordLastFirst ==
  /\ worker = "write"
  /\ batch # <<>>
  /\ file' = file \o EncodeRecord(Last(batch).sequence, Last(batch).command)
  /\ batch' = Front(batch)
  /\ UNCHANGED <<shared, worker, last_sequence, should_exit, calls, history>>

\* append_raw_batch writes the records of the batch one by one.
WriteRecord ==
  /\ worker = "write"
  /\ batch # <<>>
  /\ file' = file \o EncodeRecord(Head(batch).sequence, Head(batch).command)
  /\ batch' = Tail(batch)
  /\ UNCHANGED <<shared, worker, last_sequence, should_exit, calls, history>>

\* Mutant: the worker tries the record again, behind its torn copy.
WriteFailsAndRetries ==
  /\ worker = "write"
  /\ batch # <<>>
  /\ LET cells == EncodeRecord(Head(batch).sequence, Head(batch).command)
     IN  \E n \in 0 .. Len(cells) - 1 : file' = file \o SubSeq(cells, 1, n)
  /\ degraded' = TRUE
  /\ UNCHANGED <<queue, accepted, durable, closed, workers, calls, history>>

\* write_all fails inside a record: the worker degrades the journal and ends.
WriteFails ==
  /\ worker = "write"
  /\ batch # <<>>
  /\ LET cells == EncodeRecord(Head(batch).sequence, Head(batch).command)
     IN  \E n \in 0 .. Len(cells) - 1 : file' = file \o SubSeq(cells, 1, n)
  /\ degraded' = TRUE
  /\ worker' = "leaving"
  /\ UNCHANGED <<queue, accepted, durable, closed, batch, last_sequence, should_exit, calls, history>>

\* Mutant: a Shutdown behind other messages is forgotten.
PublishAndRecv ==
  /\ worker = "write"
  /\ batch = <<>>
  /\ durable' = last_sequence
  /\ worker' = "recv"
  /\ UNCHANGED <<queue, accepted, degraded, closed, batch, last_sequence, should_exit,
                 file, calls, history>>

\* The whole batch is written; flush does nothing for a File.
PublishDurable ==
  /\ worker = "write"
  /\ batch = <<>>
  /\ durable' = last_sequence
  /\ worker' = IF should_exit THEN "leaving" ELSE "recv"
  /\ UNCHANGED <<queue, accepted, degraded, closed, batch, last_sequence, should_exit,
                 file, calls, history>>

\* worker_loop returns and drops the receiver with what the channel still holds.
Exit ==
  /\ worker = "leaving"
  /\ worker' = "exited"
  /\ queue' = <<>>
  /\ UNCHANGED <<accepted, durable, degraded, closed, batch, last_sequence, should_exit,
                 file, calls, history>>

\* The rest of a call, once begun.
Call(t) ==
  \/ AppendLoadClosed(t)
  \/ AppendRefused(t)
  \/ AppendTrySend(t)
  \/ AppendStoreAccepted(t)
  \/ CloseSendShutdown(t)
  \/ CloseJoin(t)

Worker ==
  \/ Recv
  \/ Drain
  \/ DrainEnds
  \/ WriteRecord
  \/ WriteFails
  \/ PublishDurable
  \/ Exit
=============================================================================
