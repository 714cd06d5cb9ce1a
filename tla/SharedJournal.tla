--------------------------- MODULE SharedJournal ----------------------------
(***************************************************************************)
(* Several threads share one AsyncJournal over a new file: each may append *)
(* the next sequence of a common counter or close the journal, at any time *)
(* and in any order.                                                       *)
(***************************************************************************)
EXTENDS AsyncJournal

CONSTANT MaxSequence     \* bound of the model on the records appended

ASSUME MaxSequenceAssumption == MaxSequence \in Nat

VARIABLE issued          \* the sequence given to the last append

sharedVars == <<vars, issued>>

IssuedEntries == [sequence : 1 .. MaxSequence, command : Commands]

SharedInit ==
  /\ Open
  /\ file = <<>>
  /\ issued = 0

BeginAppend(t) ==
  /\ issued < MaxSequence
  /\ issued' = issued + 1
  /\ \E c \in Commands : AppendBegin(t, [sequence |-> issued + 1, command |-> c])

SharedNext ==
  \/ \E t \in Threads : BeginAppend(t)
  \/ \E t \in Threads : (Close(t) \/ CloseAgain(t)) /\ UNCHANGED issued
  \/ \E t \in Threads : Call(t) /\ UNCHANGED issued
  \/ Worker /\ UNCHANGED issued

SharedSpec ==
  /\ SharedInit /\ [][SharedNext]_sharedVars
  /\ WF_sharedVars(Worker /\ UNCHANGED issued)
  /\ \A t \in Threads : WF_sharedVars(Call(t) /\ UNCHANGED issued)
-----------------------------------------------------------------------------
Written == Scan(file).entries

\* The atomics, the queue and the worker keep their types, and the queue its capacity
\* (struct AsyncJournal, async_journal.rs:29-39).
AsyncTypeOK ==
  /\ queue \in Seq({Shutdown} \cup {AppendRecord(e) : e \in IssuedEntries})
  /\ Len(queue) <= QueueCapacity
  /\ {accepted, durable, last_sequence} \subseteq 0 .. MaxSequence
  /\ worker \in {"recv", "drain", "write", "leaving", "exited"}
  /\ batch \in Seq(IssuedEntries) /\ Len(batch) <= BatchSize
  /\ {degraded, closed, should_exit, joined} \subseteq BOOLEAN
  /\ acked \subseteq IssuedEntries

Log == INSTANCE DurableLog WITH Entries <- IssuedEntries, log <- sent, stored <- Written

\* The file holds what was sent, in the order of the channel and without gaps, whatever
\* the batches and wherever a write fails, and durable never names a record before it is
\* in the file (worker_loop, async_journal.rs:156-218).
ImplementsLog == Log!LogSpec

\* Once close has returned, every record whose append returned Ok before close was
\* called can be read from the file, unless the writer failed.  (An append that overlaps
\* close may return Ok and leave its record behind the Shutdown; async_journal.rs:78-126.)
CloseKeepsAccepted ==
  joined /\ ~degraded => acked_at_close \subseteq {Written[i] : i \in DOMAIN Written}

\* After a failed write the file ends in the torn record: nothing is written behind it
\* and durable stays where it is (async_journal.rs:206-211).
FailedWriteIsTheLast ==
  [][degraded => UNCHANGED <<file, durable>>]_sharedVars

\* A thread in close comes back from it, also when the queue is full or the worker has
\* failed: the worker is always ahead of the Shutdown (async_journal.rs:114-126, 191-216).
CloseReturns ==
  \A t \in Threads : pc[t] = "send_shutdown" ~> pc[t] = "idle"

\* A record whose append returned Ok is in the file sooner or later, however few follow
\* it, unless the writer fails or the journal is closed meanwhile (async_journal.rs:183-212).
AcceptedIsWritten ==
  \A n \in 1 .. MaxSequence :
    (\E e \in acked : e.sequence = n)
      ~> degraded \/ closed \/ (\E i \in DOMAIN Written : Written[i].sequence = n)
=============================================================================
