--------------------------- MODULE PipelineProofs ---------------------------
(***************************************************************************)
(* What the end-to-end pipeline keeps through crashes, restarts and        *)
(* recovery, for any bounds on commands and sessions and any sizes of the  *)
(* queue and of a batch: what could be read once stays readable, a session *)
(* that is numbered without a gap replays exactly, the lag does not        *)
(* underflow, and an orderly drop keeps what was accepted.                 *)
(***************************************************************************)
EXTENDS Pipeline, AsyncProofs

Entries == [sequence : 1 .. MaxCommands, command : Commands]

LEMMA MainIsThread == main \in Threads /\ AreEntries(Entries) /\ CellType(Cells(Entries))
<1>1. main \in Threads
  BY PipelineAssumption DEF main
<1>2. AreEntries(Entries)
  BY AsyncAssumption DEF AreEntries, Entries
<1>3. QED
  BY <1>1, <1>2, CellsAreCells
-----------------------------------------------------------------------------
\* Prefixes, place by place.
LEMMA PrefixPointwise ==
  ASSUME NEW S, NEW a \in Seq(S), NEW b \in Seq(S)
  PROVE  IsPrefix(a, b) <=> Len(a) <= Len(b) /\ \A i \in 1 .. Len(a) : a[i] = b[i]
<1>1. Len(a) \in Nat /\ Len(b) \in Nat
  BY LenProperties
<1>2. CASE Len(a) <= Len(b)
  <2>1. SubSeq(a, 1, Len(a)) = [i \in 1 .. Len(a) |-> a[i]] /\ SubSeq(b, 1, Len(a)) = [i \in 1 .. Len(a) |-> b[i]]
    BY <1>1
  <2>2. SubSeq(a, 1, Len(a)) = SubSeq(b, 1, Len(a)) <=> \A i \in 1 .. Len(a) : a[i] = b[i]
    BY <2>1
  <2>3. QED
    BY <1>2, <2>2 DEF IsPrefix
<1>3. CASE ~(Len(a) <= Len(b))
  BY <1>3 DEF IsPrefix
<1>4. QED
  BY <1>2, <1>3

LEMMA PrefixTransitive ==
  ASSUME NEW a, NEW b, NEW c, IsSequence(a), IsSequence(b), IsSequence(c), IsPrefix(a, b), IsPrefix(b, c)
  PROVE  IsPrefix(a, c)
<1>1. PICK A : a \in Seq(A)
  BY DEF IsSequence
<1>2. PICK B : b \in Seq(B)
  BY DEF IsSequence
<1>3. PICK C : c \in Seq(C)
  BY DEF IsSequence
<1> DEFINE S == A \cup B \cup C
<1>4. a \in Seq(S) /\ b \in Seq(S) /\ c \in Seq(S)
  BY <1>1, <1>2, <1>3
<1> HIDE DEF S
<1>5. Len(a) \in Nat /\ Len(b) \in Nat /\ Len(c) \in Nat
  BY <1>4, LenProperties
<1>6. Len(a) <= Len(b) /\ \A i \in 1 .. Len(a) : a[i] = b[i]
  BY <1>4, PrefixPointwise
<1>7. Len(b) <= Len(c) /\ \A i \in 1 .. Len(b) : b[i] = c[i]
  BY <1>4, PrefixPointwise
<1>8. Len(a) <= Len(c)
  BY <1>5, <1>6, <1>7
<1>9. \A i \in 1 .. Len(a) : i \in 1 .. Len(b)
  BY <1>5, <1>6
<1>10. \A i \in 1 .. Len(a) : a[i] = c[i]
  BY <1>6, <1>7, <1>9
<1>11. QED
  BY <1>4, <1>8, <1>10, PrefixPointwise

LEMMA ReadableIsSequence ==
  file \in Seq(Cells(Entries)) => IsSequence(Readable) /\ Len(Readable) \in Nat
<1> SUFFICES ASSUME file \in Seq(Cells(Entries)) PROVE IsSequence(Readable) /\ Len(Readable) \in Nat
  OBVIOUS
<1>1. Scan(file).entries \in Seq(Frames(file))
  BY MainIsThread, ScanType
<1>2. QED
  BY <1>1, LenProperties DEF Readable, IsSequence

LEMMA ReadableNext == (file \in Seq(Cells(Entries)) => IsSequence(Readable) /\ Len(Readable) \in Nat)'
BY ReadableIsSequence, PTL

\* A step of the journal only appends to the file, so what could be read still can be.
LEMMA FileGrows ==
  ASSUME file \in Seq(Cells(Entries)), TypeInv(Entries), NEW t \in Threads,
         Begin(Entries, t) \/ Call(t) \/ Worker
  PROVE  file' \in Seq(Cells(Entries)) /\ IsPrefix(Readable, Readable')
<1> DEFINE S == Cells(Entries)
<1>1. \E x \in Seq(S) : file' = file \o x
  <2>1. CASE WriteRecord \/ WriteFails
    <3> DEFINE e == Head(batch)
               r == EncodeRecord(e.sequence, e.command)
               R == RecordCells(e.sequence, e.command)
    <3>1. e \in Entries
      BY <2>1, HeadTailProperties DEF WriteRecord, WriteFails, TypeInv
    <3>2. R \subseteq S /\ IsCommand(e.command)
      BY <3>1, MainIsThread DEF Cells, AreEntries
    <3>3. r \in Seq(R)
      BY <3>2, RecordShape
    <3>4. file' = file \o r \/ \E n \in 0 .. Len(r) - 1 : file' = file \o SubSeq(r, 1, n)
      BY <2>1 DEF WriteRecord, WriteFails
    <3> HIDE DEF e, r, R, S
    <3>5. r \in Seq(S)
      BY <3>2, <3>3
    <3>6. \A n \in 0 .. Len(r) - 1 : SubSeq(r, 1, n) \in Seq(S)
      <4>1. Len(r) \in Nat
        BY <3>5, LenProperties
      <4>2. QED
        BY <3>5, <4>1
    <3>7. QED
      BY <3>4, <3>5, <3>6
  <2>2. CASE ~(WriteRecord \/ WriteFails)
    <3>1. file' = file
      <4>1. CASE Begin(Entries, t)
        BY <4>1 DEF Begin, AppendBegin, Close, CloseAgain, vars
      <4>2. CASE Call(t)
        BY <4>2 DEF Call, AppendLoadClosed, AppendRefused, AppendTrySend, AppendStoreAccepted,
                    CloseSendShutdown, CloseJoin
      <4>3. CASE Worker
        BY <2>2, <4>3 DEF Worker, Recv, Drain, DrainEnds, PublishDurable, Exit
      <4>4. QED
        BY <4>1, <4>2, <4>3
    <3>2. <<>> \in Seq(S) /\ file \o <<>> = file
      BY ConcatEmptySeq
    <3>3. QED
      BY <3>1, <3>2
  <2>3. QED
    BY <2>1, <2>2
<1>2. PICK x \in Seq(S) : file' = file \o x
  BY <1>1
<1>3. CellType(S) /\ file \in Seq(S)
  BY MainIsThread
<1> HIDE DEF S
<1>4. IsPrefix(Scan(file).entries, Scan(file \o x).entries)
  <2> DEFINE d == file
  <2>1. d \in Seq(S)
    BY <1>3
  <2> HIDE DEF d
  <2>2. IsPrefix(Scan(d).entries, Scan(d \o x).entries)
    BY <1>3, <2>1, AppendHidesNothing
  <2>3. QED
    BY <2>2 DEF d
<1>5. file' \in Seq(S)
  BY <1>2, <1>3, ConcatProperties
<1>6. QED
  BY <1>2, <1>4, <1>5 DEF Readable, S


-----------------------------------------------------------------------------
Typed ==
  /\ input_seq \in 0 .. MaxCommands
  /\ processed \in Seq(Commands) /\ Len(processed) = input_seq
  /\ file \in Seq(Cells(Entries))
  /\ base \in 0 .. Len(Readable)

Confirmed == IsSequence(confirmed) /\ IsPrefix(confirmed, Readable)

\* The journal of a session, also of one whose file began with a torn record.
InOrder == TypeInv(Entries) /\ OrderInv /\ CloserInv

\* An entry is the command of its number.
IsProcessed(e) == e.sequence \in 1 .. Len(processed) /\ e.command = processed[e.sequence]

LastSent == IF Len(sent) = 0 THEN 0 ELSE sent[Len(sent)].sequence

\* The one thread appends what it has just processed, and has acknowledged what it sent.
SessionInv ==
  /\ \A k \in 1 .. Len(sent) : IsProcessed(sent[k])
  /\ \A j, k \in 1 .. Len(sent) : j < k => sent[j].sequence < sent[k].sequence
  /\ durable = 0 \/ \E k \in 1 .. Len(sent) : durable = sent[k].sequence
  /\ pc[main] \in {"load_closed", "try_send"} =>
       /\ IsProcessed(record[main])
       /\ \A k \in 1 .. Len(sent) : sent[k].sequence < record[main].sequence
  /\ pc[main] = "store_accepted" =>
       /\ Len(sent) >= 1 /\ record[main] = sent[Len(sent)]
       /\ \A k \in 1 .. Len(sent) : k < Len(sent) => sent[k] \in acked
  /\ pc[main] # "store_accepted" =>
       /\ accepted = LastSent
       /\ \A k \in 1 .. Len(sent) : sent[k] \in acked
  /\ closed => acked_at_close = acked /\ pc[main] \in {"idle", "send_shutdown", "join"}
  /\ joined => closed

\* In a session that began on whole records the file goes on from them.
Clean == \E start : IsSequence(start) /\ Len(start) = base /\ AsyncInv(Entries, start)

\* What it has reported durable is the sequence of an entry the file holds.
Published ==
  durable = 0 \/ \E k \in 1 .. Len(sent) : k <= Len(Readable) - base /\ durable = sent[k].sequence

Replayable == \A i \in base + 1 .. Len(Readable) : IsProcessed(Readable[i])

PipelineInv ==
  /\ Typed /\ Confirmed
  /\ alive => InOrder /\ SessionInv
  /\ alive /\ clean => Clean /\ Published
  /\ clean => Replayable
-----------------------------------------------------------------------------
LEMMA InOrderStep ==
  ASSUME InOrder, NEW t \in Threads, Begin(Entries, t) \/ Call(t) \/ Worker
  PROVE  InOrder'
<1>1. CASE Begin(Entries, t)
  BY <1>1, BeginType, BeginOrder, CloserBegin DEF InOrder
<1>2. CASE Call(t)
  <2>1. pc[t] = "send_shutdown" => \A i \in 1 .. Len(queue) : queue[i] # Shutdown
    BY DEF InOrder, CloserInv, StillOpen
  <2>2. QED
    BY <1>2, <2>1, CallType, CallOrder, CloserCall DEF InOrder
<1>3. CASE Worker
  <2>1. TypeInv(Entries)' /\ CloserInv'
    BY <1>3, WorkerType, CloserWorker DEF InOrder
  <2>2. OrderInv'
    BY <1>3, RecvOrder, DrainOrder, WriteOrder, TurnOrder, ExitOrder DEF InOrder, Worker
  <2>3. QED
    BY <2>1, <2>2 DEF InOrder
<1>4. QED
  BY <1>1, <1>2, <1>3

LEMMA CleanStep ==
  ASSUME Clean, NEW t \in Threads, Begin(Entries, t) \/ Call(t) \/ Worker, base' = base
  PROVE  Clean'
<1>1. PICK start : IsSequence(start) /\ Len(start) = base /\ AsyncInv(Entries, start)
  BY DEF Clean
<1>2. JournalNext(Entries)
  BY DEF JournalNext
<1>3. AsyncInv(Entries, start)'
  BY <1>1, <1>2, MainIsThread, AsyncStep
<1>4. QED
  BY <1>1, <1>3 DEF Clean

\* What the file holds of a clean session is the beginning of what was sent.
LEMMA ReadableIsSent ==
  ASSUME NEW start, IsSequence(start), AsyncInv(Entries, start)
  PROVE  /\ Stored(start) \in 0 .. Len(sent) /\ Len(sent) \in Nat /\ Len(start) \in Nat
         /\ Len(Readable) = Len(start) + Stored(start)
         /\ \A k \in 1 .. Stored(start) : Readable[Len(start) + k] = sent[k]
<1>1. PICK S : start \in Seq(S)
  BY DEF IsSequence
<1> DEFINE n == Stored(start)
           s == sent
           V == S \cup Entries
           p == SubSeq(s, 1, n)
<1>2. n \in 0 .. Len(s) /\ Readable = start \o p /\ s \in Seq(V) /\ start \in Seq(V)
  BY <1>1 DEF AsyncInv, FileInv, TypeInv, InFile, Readable
<1> HIDE DEF n, s, V
<1>3. Len(s) \in Nat /\ Len(start) \in Nat
  BY <1>2, LenProperties
<1>4. p \in Seq(V) /\ Len(p) = n /\ \A k \in 1 .. n : p[k] = s[k]
  BY <1>2, <1>3
<1> HIDE DEF p
<1>5. /\ Len(start \o p) = Len(start) + Len(p)
      /\ \A i \in 1 .. Len(start) + Len(p) :
           (start \o p)[i] = IF i <= Len(start) THEN start[i] ELSE p[i - Len(start)]
  BY <1>2, <1>4, ConcatProperties
<1>6. ASSUME NEW k \in 1 .. n PROVE Readable[Len(start) + k] = s[k]
  <2>1. /\ Len(start) + k \in 1 .. Len(start) + Len(p) /\ ~(Len(start) + k <= Len(start))
        /\ Len(start) + k - Len(start) = k
    BY <1>2, <1>3, <1>4
  <2>2. QED
    BY <1>2, <1>4, <1>5, <2>1
<1>7. QED
  BY <1>2, <1>3, <1>4, <1>5, <1>6 DEF n, s

LEMMA CleanIsReplayable == Typed /\ Clean /\ SessionInv => Replayable
<1> SUFFICES ASSUME Typed, Clean, SessionInv PROVE Replayable
  OBVIOUS
<1>1. PICK start : IsSequence(start) /\ Len(start) = base /\ AsyncInv(Entries, start)
  BY DEF Clean
<1> DEFINE n == Stored(start)
<1>2. /\ n \in 0 .. Len(sent) /\ Len(sent) \in Nat /\ base \in Nat
      /\ Len(Readable) = base + n
      /\ \A k \in 1 .. n : Readable[base + k] = sent[k]
  BY <1>1, ReadableIsSent
<1> HIDE DEF n
<1>3. ASSUME NEW i \in base + 1 .. Len(Readable) PROVE IsProcessed(Readable[i])
  <2>1. i - base \in 1 .. n /\ i - base \in 1 .. Len(sent) /\ base + (i - base) = i
    BY <1>2
  <2>2. Readable[i] = sent[i - base]
    BY <1>2, <2>1
  <2>3. QED
    BY <2>1, <2>2 DEF SessionInv
<1>4. QED
  BY <1>3 DEF Replayable

LEMMA CleanReplayableNext == (Typed /\ Clean /\ SessionInv => Replayable)'
BY CleanIsReplayable, PTL

\* The worker publishes the last entry it has written, and the file keeps what it holds.
LEMMA PublishedStep ==
  ASSUME Clean, Published, NEW t \in Threads, Begin(Entries, t) \/ Call(t) \/ Worker, base' = base
  PROVE  Published'
<1>1. PICK start : IsSequence(start) /\ Len(start) = base /\ AsyncInv(Entries, start)
  BY DEF Clean
<1> DEFINE n == Stored(start)
<1>2. n \in 0 .. Len(sent) /\ Len(sent) \in Nat /\ base \in Nat /\ Len(Readable) = base + n
  BY <1>1, ReadableIsSent
<1>3. IsSequence(Readable) /\ sent \in Seq(Entries)
  BY <1>1, ReadableIsSequence DEF AsyncInv, FileInv, TypeInv
<1>4. CASE UNCHANGED <<InFile, sent, durable>>
  BY <1>4 DEF Published, InFile, Readable
<1>5. ASSUME NEW e \in Entries, UNCHANGED <<InFile, durable>>, sent' = Append(sent, e)
      PROVE  Published'
  <2>1. Len(sent') = Len(sent) + 1 /\ \A k \in 1 .. Len(sent) : sent'[k] = sent[k]
    BY <1>3, <1>5, AppendProperties
  <2>2. \A k \in 1 .. Len(sent) : k \in 1 .. Len(sent')
    BY <1>2, <2>1
  <2>3. QED
    BY <1>5, <2>1, <2>2 DEF Published, InFile, Readable
<1>6. ASSUME UNCHANGED <<sent, durable>>, NEW e, InFile' = Append(InFile, e)
      PROVE  Published'
  <2>1. Len(Readable') = Len(Readable) + 1
    BY <1>3, <1>6, AppendProperties DEF InFile, Readable, IsSequence
  <2>2. \A k \in 1 .. Len(sent) : k <= Len(Readable) - base => k <= Len(Readable') - base
    BY <1>2, <2>1
  <2>3. QED
    BY <1>6, <2>2 DEF Published
<1>7. CASE /\ UNCHANGED <<sent, InFile>> /\ n \in 1 .. Len(sent) /\ durable' = sent[n].sequence
  <2>1. n <= Len(Readable) - base
    BY <1>2
  <2>2. QED
    BY <1>7, <2>1 DEF Published, InFile, Readable
<1>8. CASE Begin(Entries, t)
  BY <1>1, <1>4, <1>8, StepOfBegin
<1>9. CASE Call(t)
  BY <1>1, <1>4, <1>5, <1>9, StepOfCall
<1>10. CASE Worker
  BY <1>1, <1>4, <1>6, <1>7, <1>10, MainIsThread, WorkerLog
<1>11. QED
  BY <1>8, <1>9, <1>10


-----------------------------------------------------------------------------
LEMMA SessionWorker ==
  ASSUME InOrder, SessionInv, Worker, processed' = processed
  PROVE  SessionInv'
<1>1. UNCHANGED <<sent, pc, record, accepted, acked, acked_at_close, closed, joined>>
  BY DEF Worker, Recv, Drain, DrainEnds, WriteRecord, WriteFails, PublishDurable, Exit,
         shared, calls, history
<1>2. durable' = 0 \/ \E k \in 1 .. Len(sent) : durable' = sent[k].sequence
  <2>1. CASE PublishDurable
    <3>1. durable' = last_sequence /\ worker = "write"
      BY <2>1 DEF PublishDurable
    <3>2. Taken >= 1 /\ last_sequence = sent[Taken].sequence /\ Taken \in 0 .. Len(sent)
      BY <3>1 DEF InOrder, OrderInv, QueueInv, BatchInv
    <3>3. Len(sent) \in Nat
      BY LenProperties DEF InOrder, TypeInv
    <3> HIDE DEF Taken
    <3>4. Taken \in 1 .. Len(sent)
      BY <3>2, <3>3
    <3>5. QED
      BY <3>1, <3>2, <3>4
  <2>2. CASE ~PublishDurable
    <3>1. durable' = durable
      BY <2>2 DEF Worker, Recv, Drain, DrainEnds, WriteRecord, WriteFails, Exit, shared
    <3>2. QED
      BY <3>1 DEF SessionInv
  <2>3. QED
    BY <2>1, <2>2
<1>3. QED
  BY <1>1, <1>2 DEF SessionInv, IsProcessed, LastSent

LEMMA SessionSend ==
  ASSUME InOrder, SessionInv, AppendTrySend(main), processed' = processed
  PROVE  SessionInv'
<1> DEFINE r == record[main]
           n == Len(sent)
<1>1. /\ sent' = Append(sent, r) /\ r \in Entries /\ sent \in Seq(Entries)
      /\ pc[main] = "try_send" /\ pc'[main] = "store_accepted" /\ record' = record
      /\ UNCHANGED <<accepted, durable, acked, acked_at_close, closed, joined>>
  BY MainIsThread DEF AppendTrySend, InOrder, TypeInv, Goto, workers
<1>2. /\ n \in Nat /\ Len(sent') = n + 1 /\ sent'[n + 1] = r
      /\ \A k \in 1 .. n : sent'[k] = sent[k]
  BY <1>1, AppendProperties, LenProperties
<1>3. IsProcessed(r) /\ \A k \in 1 .. n : IsProcessed(sent[k]) /\ sent[k].sequence < r.sequence /\ sent[k] \in acked
  BY <1>1 DEF SessionInv
<1>4. \A k \in 1 .. Len(sent') : k \in 1 .. n \/ k = n + 1
  BY <1>2
<1> HIDE DEF r
<1>5. \A k \in 1 .. Len(sent') : IsProcessed(sent'[k])
  BY <1>2, <1>3, <1>4
<1>6. ASSUME NEW j \in 1 .. Len(sent'), NEW k \in 1 .. Len(sent'), j < k
      PROVE  sent'[j].sequence < sent'[k].sequence
  <2>1. j \in 1 .. n
    BY <1>2, <1>6
  <2>2. CASE k = n + 1
    BY <1>2, <1>3, <2>1, <2>2
  <2>3. CASE k \in 1 .. n
    BY <1>2, <1>6, <2>1, <2>3 DEF SessionInv
  <2>4. QED
    BY <1>4, <2>2, <2>3
<1>7. durable' = 0 \/ \E k \in 1 .. Len(sent') : durable' = sent'[k].sequence
  <2>1. \A k \in 1 .. n : k \in 1 .. Len(sent')
    BY <1>2
  <2>2. QED
    BY <1>1, <1>2, <2>1 DEF SessionInv
<1>8. /\ Len(sent') >= 1 /\ record'[main] = sent'[Len(sent')]
      /\ \A k \in 1 .. Len(sent') : k < Len(sent') => sent'[k] \in acked'
  <2>1. \A k \in 1 .. Len(sent') : k < Len(sent') => k \in 1 .. n
    BY <1>2
  <2>2. \A k \in 1 .. n : sent'[k] \in acked'
    BY <1>1, <1>2, <1>3
  <2>3. Len(sent') >= 1
    BY <1>2
  <2>4. QED
    BY <1>1, <1>2, <2>1, <2>2, <2>3 DEF r
<1>9. ~closed /\ ~closed' /\ ~joined'
  BY <1>1 DEF SessionInv
<1>10. \A e : IsProcessed(e)' <=> e.sequence \in 1 .. Len(processed) /\ e.command = processed[e.sequence]
  BY DEF IsProcessed
<1>11. \A k \in 1 .. Len(sent') : IsProcessed(sent[k])'
  BY <1>5, <1>10 DEF IsProcessed
<1>12. QED
  BY <1>1, <1>6, <1>7, <1>8, <1>9, <1>11 DEF SessionInv

LEMMA SessionCall ==
  ASSUME InOrder, SessionInv, Call(main), processed' = processed
  PROVE  SessionInv'
<1>1. CASE AppendTrySend(main)
  BY <1>1, SessionSend
<1>2. CASE AppendStoreAccepted(main)
  <2>1. /\ UNCHANGED <<sent, record, durable, closed, acked_at_close, joined>>
        /\ pc[main] = "store_accepted" /\ pc'[main] = "idle"
        /\ accepted' = record[main].sequence /\ acked' = acked \cup {record[main]}
    BY <1>2, MainIsThread DEF AppendStoreAccepted, InOrder, TypeInv, Goto
  <2>2. Len(sent) \in Nat
    BY LenProperties DEF InOrder, TypeInv
  <2>3. /\ Len(sent) >= 1 /\ record[main] = sent[Len(sent)]
        /\ \A k \in 1 .. Len(sent) : k < Len(sent) => sent[k] \in acked
    BY <2>1 DEF SessionInv
  <2>4. \A k \in 1 .. Len(sent) : k < Len(sent) \/ k = Len(sent)
    BY <2>2
  <2>5. \A k \in 1 .. Len(sent) : sent[k] \in acked'
    BY <2>1, <2>3, <2>4
  <2>6. accepted' = LastSent
    BY <2>1, <2>2, <2>3 DEF LastSent
  <2>7. ~closed
    BY <2>1 DEF SessionInv
  <2>8. QED
    BY <2>1, <2>5, <2>6, <2>7 DEF SessionInv, IsProcessed, LastSent
<1>3. CASE AppendLoadClosed(main) \/ AppendRefused(main)
  <2>1. /\ UNCHANGED <<sent, record, accepted, durable, closed, acked, acked_at_close, joined>>
        /\ pc[main] \in {"load_closed", "try_send"}
        /\ pc'[main] \in {"idle", "try_send"}
    BY <1>3, MainIsThread DEF AppendLoadClosed, AppendRefused, InOrder, TypeInv, Goto, shared, history
  <2>2. QED
    BY <2>1 DEF SessionInv, IsProcessed, LastSent
<1>4. CASE CloseSendShutdown(main) \/ CloseJoin(main)
  <2>1. /\ UNCHANGED <<sent, record, accepted, durable, closed, acked, acked_at_close>>
        /\ pc[main] \in {"send_shutdown", "join"} /\ pc'[main] \in {"join", "idle"}
    BY <1>4, MainIsThread DEF CloseSendShutdown, CloseJoin, InOrder, TypeInv, Goto, shared, history
  <2>2. closed
    BY <2>1, MainIsThread DEF InOrder, CloserInv
  <2>3. QED
    BY <2>1, <2>2 DEF SessionInv, IsProcessed, LastSent
<1>5. QED
  BY <1>1, <1>2, <1>3, <1>4 DEF Call

LEMMA SessionClose ==
  ASSUME InOrder, SessionInv, Close(main), processed' = processed
  PROVE  SessionInv'
<1>1. /\ UNCHANGED <<sent, record, accepted, durable, acked, joined>>
      /\ pc[main] = "idle" /\ pc'[main] = "send_shutdown" /\ acked_at_close' = acked /\ ~closed /\ closed'
  BY MainIsThread DEF Close, InOrder, TypeInv, Goto
<1>2. QED
  BY <1>1 DEF SessionInv, IsProcessed, LastSent

\* process: the command is numbered and processed before it is appended.
LEMMA SessionProcess ==
  ASSUME Typed, InOrder, SessionInv, NEW c \in Commands, Process(c)
  PROVE  /\ SessionInv' /\ Begin(Entries, main)
         /\ input_seq' \in 0 .. MaxCommands
         /\ processed' \in Seq(Commands) /\ Len(processed') = input_seq'
         /\ \A e : IsProcessed(e) => IsProcessed(e)'
<1> DEFINE e == [sequence |-> input_seq + 1, command |-> c]
<1>1. /\ input_seq < MaxCommands /\ input_seq' = input_seq + 1 /\ processed' = Append(processed, c)
      /\ AppendBegin(main, e) /\ ~closed
  BY DEF Process
<1>2. /\ input_seq \in Nat /\ input_seq + 1 \in 1 .. MaxCommands
      /\ processed' \in Seq(Commands) /\ Len(processed') = input_seq + 1 /\ Len(processed) = input_seq
      /\ processed'[input_seq + 1] = c
      /\ \A k \in 1 .. input_seq : processed'[k] = processed[k]
  BY <1>1, AppendProperties, PipelineAssumption DEF Typed
<1>3. \A k \in 1 .. input_seq : k \in 1 .. input_seq + 1
  BY <1>2
<1>4. \A x : IsProcessed(x) => IsProcessed(x)'
  <2> TAKE x
  <2>1. IsProcessed(x)' <=> x.sequence \in 1 .. Len(processed') /\ x.command = processed'[x.sequence]
    BY DEF IsProcessed
  <2>2. QED
    BY <1>2, <1>3, <2>1 DEF IsProcessed
<1>5. e \in Entries /\ e.sequence = input_seq + 1 /\ e.command = c
  BY <1>2 DEF Entries
<1>6. \A k \in 1 .. Len(sent) : sent[k].sequence \in Int /\ sent[k].sequence < input_seq + 1
  BY <1>2 DEF SessionInv, IsProcessed
<1>7. UNCHANGED <<sent, accepted, durable, acked, acked_at_close, closed, joined>> /\ pc[main] = "idle"
  BY <1>1 DEF AppendBegin, shared, history
<1>8. \/ pc'[main] = "idle"
      \/ pc'[main] = "load_closed" /\ record'[main] = e
  BY <1>1, <1>7, MainIsThread DEF AppendBegin, calls, Goto, InOrder, TypeInv
<1>9. input_seq + 1 \in 1 .. Len(processed')
  BY <1>2
<1> HIDE DEF e
<1>10. pc'[main] \in {"load_closed", "try_send"} =>
         /\ IsProcessed(record[main])'
         /\ \A k \in 1 .. Len(sent) : sent[k].sequence < record'[main].sequence
  BY <1>2, <1>5, <1>6, <1>8, <1>9 DEF IsProcessed
<1>11. \A k \in 1 .. Len(sent) : IsProcessed(sent[k])'
  <2>1. \A k \in 1 .. Len(sent) : IsProcessed(sent[k])
    BY DEF SessionInv
  <2>2. \A k : sent'[k] = sent[k]
    BY <1>7
  <2>3. QED
    BY <1>2, <1>3, <2>1, <2>2 DEF IsProcessed
<1>12. SessionInv'
  BY <1>1, <1>7, <1>8, <1>10, <1>11 DEF SessionInv, LastSent
<1>13. Begin(Entries, main)
  BY <1>1, <1>5 DEF Begin, e
<1>14. QED
  BY <1>1, <1>2, <1>4, <1>12, <1>13, PipelineAssumption


-----------------------------------------------------------------------------
LEMMA OpenedInOrder == Open => InOrder /\ SessionInv
<1> SUFFICES ASSUME Open PROVE InOrder /\ SessionInv
  OBVIOUS
<1>1. InOrder
  BY OpenBegins DEF InOrder
<1>2. pc[main] = "idle" /\ accepted = 0 /\ durable = 0 /\ ~closed /\ ~joined
  BY MainIsThread DEF Open
<1>3. Len(sent) = 0
  BY DEF Open
<1>4. SessionInv
  BY <1>2, <1>3 DEF SessionInv, LastSent
<1>5. QED
  BY <1>1, <1>4

LEMMA OpenedClean ==
  Open /\ file \in Seq(Cells(Entries)) /\ Whole(file) /\ base = Len(Readable) => Clean
<1> SUFFICES ASSUME Open, file \in Seq(Cells(Entries)), Whole(file), base = Len(Readable)
             PROVE  Clean
  OBVIOUS
<1>1. IsSequence(Readable)
  BY ReadableIsSequence
<1>2. \E start : start = Readable
  OBVIOUS
<1>3. PICK start : start = Readable
  BY <1>2
<1>4. IsSequence(start) /\ InFile = start /\ Len(start) = base
  BY <1>1, <1>3 DEF InFile, Readable
<1>5. AsyncInv(Entries, start)
  BY <1>4, MainIsThread, AsyncBegins
<1>6. QED
  BY <1>4, <1>5 DEF Clean

LEMMA OpenedInOrderNext == (Open => InOrder /\ SessionInv)'
BY OpenedInOrder, PTL

LEMMA OpenedCleanNext ==
  (Open /\ file \in Seq(Cells(Entries)) /\ Whole(file) /\ base = Len(Readable) => Clean)'
BY OpenedClean, PTL

LEMMA PipelineInit == Init => PipelineInv
<1> SUFFICES ASSUME Init PROVE PipelineInv
  OBVIOUS
<1>1. file = <<>> /\ file \in Seq(Cells(Entries)) /\ Readable = <<>>
  BY MainIsThread, EmptyFile DEF Init, Readable
<1>2. <<>> \in Seq(Commands) /\ <<>> \in Seq({}) /\ Len(<<>>) = 0
  OBVIOUS
<1>3. Typed
  <2>1. input_seq = 0 /\ 0 \in 0 .. MaxCommands /\ base = 0 /\ Len(Readable) = 0
    BY <1>1, <1>2, PipelineAssumption DEF Init
  <2>2. processed \in Seq(Commands) /\ Len(processed) = 0
    BY <1>2 DEF Init
  <2>3. QED
    BY <1>1, <2>1, <2>2 DEF Typed
<1>4. IsPrefix(confirmed, Readable)
  BY <1>1, <1>2 DEF Init, IsPrefix
<1>5. Confirmed
  BY <1>2, <1>4 DEF Init, Confirmed, IsSequence
<1>6. Replayable
  <2>1. base + 1 .. Len(Readable) = {}
    BY <1>1, <1>2 DEF Init
  <2>2. QED
    BY <2>1 DEF Replayable
<1>7. QED
  BY <1>3, <1>5, <1>6 DEF Init, PipelineInv

\* A step of the journal of a session keeps what the session relies on.
LEMMA JournalStep ==
  ASSUME PipelineInv, alive, Begin(Entries, main) \/ Call(main) \/ Worker, SessionInv',
         input_seq' \in 0 .. MaxCommands, processed' \in Seq(Commands), Len(processed') = input_seq',
         UNCHANGED <<alive, base, clean, confirmed>>
  PROVE  PipelineInv'
<1>1. Typed /\ Confirmed /\ InOrder /\ SessionInv /\ (clean => Clean /\ Published)
  BY DEF PipelineInv
<1>2. file' \in Seq(Cells(Entries)) /\ IsPrefix(Readable, Readable')
  BY <1>1, MainIsThread, FileGrows DEF Typed, InOrder
<1>3. IsSequence(Readable) /\ Len(Readable) \in Nat
  BY <1>1, ReadableIsSequence DEF Typed
<1>4. IsSequence(Readable') /\ Len(Readable') \in Nat
  BY <1>2, ReadableNext
<1>5. Typed'
  <2>1. Len(Readable) <= Len(Readable')
    BY <1>2 DEF IsPrefix
  <2>2. base \in 0 .. Len(Readable')
    BY <1>1, <1>3, <1>4, <2>1 DEF Typed
  <2>3. QED
    BY <1>2, <2>2 DEF Typed
<1>6. Confirmed'
  <2>1. IsPrefix(confirmed, Readable')
    BY <1>1, <1>2, <1>3, <1>4, PrefixTransitive DEF Confirmed
  <2>2. QED
    BY <1>1, <2>1 DEF Confirmed
<1>7. InOrder'
  BY <1>1, MainIsThread, InOrderStep
<1>8. clean => Clean' /\ Published'
  BY <1>1, MainIsThread, CleanStep, PublishedStep
<1>9. clean => Replayable'
  BY <1>5, <1>8, CleanReplayableNext
<1>10. QED
  BY <1>5, <1>6, <1>7, <1>8, <1>9 DEF PipelineInv


\* new: whatever the file holds is behind this session, and nothing else is left over.
LEMMA NewStep ==
  ASSUME PipelineInv, New
  PROVE  PipelineInv'
<1>1. /\ Open' /\ file' = file /\ input_seq' = 0 /\ processed' = <<>> /\ alive' /\ confirmed' = confirmed
      /\ base' = Len(Readable) /\ clean' = (Scan(file).end = Len(file))
  BY DEF New, Reopen, Open
<1>2. Typed /\ Confirmed
  BY DEF PipelineInv
<1>3. IsSequence(Readable) /\ Len(Readable) \in Nat
  BY <1>2, ReadableIsSequence DEF Typed
<1>4. Readable' = Readable /\ base' = Len(Readable')
  BY <1>1 DEF Readable
<1>5. Typed'
  <2>1. <<>> \in Seq(Commands) /\ Len(<<>>) = 0 /\ 0 \in 0 .. MaxCommands
    BY PipelineAssumption
  <2>2. processed' \in Seq(Commands) /\ Len(processed') = input_seq' /\ input_seq' \in 0 .. MaxCommands
    BY <1>1, <2>1
  <2>3. file' \in Seq(Cells(Entries)) /\ base' \in 0 .. Len(Readable')
    BY <1>1, <1>2, <1>3, <1>4 DEF Typed
  <2>4. QED
    BY <2>2, <2>3 DEF Typed
<1>6. Confirmed'
  BY <1>1, <1>2, <1>4 DEF Confirmed
<1>7. InOrder' /\ SessionInv'
  BY <1>1, OpenedInOrderNext
<1>8. clean' => Clean'
  <2>1. clean' => Whole(file)'
    BY <1>1 DEF Whole
  <2>2. file' \in Seq(Cells(Entries))
    BY <1>5 DEF Typed
  <2>3. QED
    BY <1>1, <1>4, <2>1, <2>2, OpenedCleanNext
<1>9. Replayable' /\ Published'
  <2>1. base' + 1 .. Len(Readable') = {} /\ durable' = 0
    BY <1>1, <1>3, <1>4 DEF Open
  <2>2. QED
    BY <2>1 DEF Replayable, Published
<1>10. QED
  BY <1>5, <1>6, <1>7, <1>8, <1>9 DEF PipelineInv

\* What a session has in the file, counted from its start.
LEMMA SessionLength ==
  ASSUME Typed
  PROVE  /\ Len(Session) = Len(Readable) - base /\ DOMAIN Session = 1 .. Len(Readable) - base
         /\ Len(Readable) - base \in Nat /\ base \in Nat
         /\ \A i \in 1 .. Len(Readable) - base : Session[i] = Readable[base + i] /\ base + i \in base + 1 .. Len(Readable)
<1> DEFINE r == Readable
<1>1. IsSequence(r) /\ Len(r) \in Nat /\ base \in 0 .. Len(r)
  BY ReadableIsSequence DEF Typed
<1>2. Session = SubSeq(r, base + 1, Len(r))
  BY DEF Session
<1> HIDE DEF r
<1>3. PICK S : r \in Seq(S)
  BY <1>1 DEF IsSequence
<1> DEFINE m == Len(r) - base
<1>4. m \in Nat /\ base \in Nat
  BY <1>1
<1>5. SubSeq(r, base + 1, Len(r)) = [i \in 1 .. m |-> r[base + i]]
  <2>1. SubSeq(r, base + 1, Len(r)) = [i \in 1 .. (1 + Len(r) - (base + 1)) |-> r[i + (base + 1) - 1]]
    BY <1>1 DEF SubSeq
  <2>2. 1 + Len(r) - (base + 1) = m
    BY <1>1
  <2>3. \A i \in 1 .. m : i + (base + 1) - 1 = base + i
    BY <1>1
  <2>4. QED
    BY <2>1, <2>2, <2>3
<1>6. \A i \in 1 .. m : r[base + i] \in S /\ base + i \in base + 1 .. Len(r)
  <2>1. \A i \in 1 .. m : base + i \in 1 .. Len(r) /\ base + i \in base + 1 .. Len(r)
    BY <1>1
  <2>2. QED
    BY <1>3, <2>1, ElementOfSeq
<1>7. Len([i \in 1 .. m |-> r[base + i]]) = m
  BY <1>4, <1>6, SeqOfFunction
<1>8. QED
  BY <1>2, <1>4, <1>5, <1>6, <1>7 DEF r

\* The process ends, and what can be read then is what must stay.
LEMMA StopStep ==
  ASSUME PipelineInv, Stop
  PROVE  PipelineInv'
<1>1. ~alive' /\ confirmed' = Readable /\ UNCHANGED <<input_seq, processed, base, clean, file>>
  BY DEF Stop, Reopen
<1>2. Typed /\ IsSequence(Readable) /\ Readable' = Readable
  BY <1>1, ReadableIsSequence DEF PipelineInv, Typed, Readable
<1>3. Typed'
  BY <1>1, <1>2 DEF Typed
<1>4. Confirmed'
  BY <1>1, <1>2, PrefixPointwise DEF Confirmed, IsSequence
<1>5. clean' => Replayable'
  BY <1>1, <1>2 DEF PipelineInv, Replayable, IsProcessed
<1>6. QED
  BY <1>1, <1>3, <1>4, <1>5 DEF PipelineInv

\* recover_path drops nothing that could be read.
LEMMA RecoverStep ==
  ASSUME PipelineInv, RecoverPath
  PROVE  PipelineInv'
<1>1. /\ ~alive /\ file' = RecoverFile(file).data
      /\ UNCHANGED <<input_seq, processed, alive, base, clean, confirmed>>
  BY DEF RecoverPath, pipeline
<1>2. Typed /\ Confirmed
  BY DEF PipelineInv
<1>3. file' \in Seq(Cells(Entries)) /\ Readable' = Readable
  <2> DEFINE S == Cells(Entries)
             d == file
  <2>1. CellType(S) /\ d \in Seq(S)
    BY <1>2, MainIsThread DEF Typed
  <2> HIDE DEF S, d
  <2>2. RecoverFile(d).data \in Seq(S) /\ Scan(RecoverFile(d).data).entries = Scan(d).entries
    BY <2>1, RecoveryIsExact
  <2>3. QED
    BY <1>1, <2>2 DEF S, d, Readable
<1>4. Typed' /\ Confirmed'
  BY <1>1, <1>2, <1>3 DEF Typed, Confirmed
<1>5. clean' => Replayable'
  BY <1>1, <1>3 DEF PipelineInv, Replayable, IsProcessed
<1>6. QED
  BY <1>1, <1>4, <1>5 DEF PipelineInv


LEMMA PipelineStep == PipelineInv /\ [Next]_pipelineVars => PipelineInv'
<1> SUFFICES ASSUME PipelineInv, [Next]_pipelineVars PROVE PipelineInv'
  OBVIOUS
<1>1. Typed /\ (alive => InOrder /\ SessionInv)
  BY DEF PipelineInv
<1>2. ASSUME NEW c \in Commands, Process(c) PROVE PipelineInv'
  <2>1. alive /\ UNCHANGED <<alive, base, clean, confirmed>>
    BY <1>2 DEF Process
  <2>2. QED
    BY <1>1, <1>2, <2>1, SessionProcess, JournalStep
<1>3. CASE Drop \/ Journal
  <2>1. alive /\ UNCHANGED <<input_seq, processed, alive, base, clean, confirmed>>
    BY <1>3 DEF Drop, Journal, pipeline
  <2>2. Close(main) \/ Call(main) \/ Worker
    BY <1>3 DEF Drop, Journal
  <2>3. SessionInv'
    BY <1>1, <2>1, <2>2, SessionClose, SessionCall, SessionWorker
  <2>4. Begin(Entries, main) \/ Call(main) \/ Worker
    BY <2>2 DEF Begin
  <2>5. input_seq' \in 0 .. MaxCommands /\ processed' \in Seq(Commands) /\ Len(processed') = input_seq'
    BY <1>1, <2>1 DEF Typed
  <2>6. QED
    BY <2>1, <2>3, <2>4, <2>5, JournalStep
<1>4. CASE UNCHANGED pipelineVars
  <2>1. UNCHANGED <<input_seq, processed, alive, base, clean, confirmed>> /\ UNCHANGED vars
    BY <1>4 DEF pipelineVars, pipeline
  <2>2. /\ UNCHANGED <<queue, accepted, durable, degraded, closed, worker, batch, last_sequence, should_exit>>
        /\ UNCHANGED <<file, pc, record, sent, acked, acked_at_close, joined>>
    BY <2>1 DEF vars, shared, workers, calls, history
  <2>3. Typed' /\ Confirmed'
    BY <2>1, <2>2 DEF PipelineInv, Typed, Confirmed, Readable
  <2>4. InOrder => InOrder'
    <3>1. OrderInv => OrderInv'
      BY <2>2, OrderUntouched DEF workers
    <3>2. TypeInv(Entries) => TypeInv(Entries)'
      BY <2>2 DEF TypeInv
    <3>3. CloserInv => CloserInv'
      BY <2>2 DEF CloserInv, StillOpen
    <3>4. QED
      BY <3>1, <3>2, <3>3 DEF InOrder
  <2>5. SessionInv => SessionInv'
    BY <2>1, <2>2 DEF SessionInv, IsProcessed, LastSent
  <2>6. Clean => Clean'
    <3>1. SUFFICES ASSUME Clean PROVE Clean'
      OBVIOUS
    <3>2. PICK start : IsSequence(start) /\ Len(start) = base /\ AsyncInv(Entries, start)
      BY <3>1 DEF Clean
    <3>3. JournalNext(Entries)
      BY <2>1 DEF JournalNext
    <3>4. AsyncInv(Entries, start)'
      BY <3>2, <3>3, MainIsThread, AsyncStep
    <3>5. QED
      BY <2>1, <3>2, <3>4 DEF Clean
  <2>7. Replayable => Replayable'
    BY <2>1, <2>2 DEF Replayable, Readable, IsProcessed
  <2>8. Published => Published'
    BY <2>1, <2>2 DEF Published, Readable
  <2>9. QED
    BY <2>1, <2>3, <2>4, <2>5, <2>6, <2>7, <2>8 DEF PipelineInv
<1>5. QED
  BY <1>2, <1>3, <1>4, NewStep, StopStep, RecoverStep DEF Next

\* What the pipeline keeps, in a session, between sessions and through recover_path: the
\* journal's order, the numbers process gives, and that the file only grows
\* (pipeline.rs:10-45, async_journal.rs:55-138, recovery.rs:35-63).
THEOREM PipelineInvariant == Spec => []PipelineInv
<1>1. Init => PipelineInv
  BY PipelineInit
<1>2. QED
  BY <1>1, PipelineStep, PTL DEF Spec
-----------------------------------------------------------------------------
\* Whatever was refused and wherever the process stopped, records of a session that began on
\* whole records and that are numbered without a gap are its first commands (process,
\* pipeline.rs:26-31).
THEOREM ContiguousReplay == Spec => []ContiguousReplayIsExact
<1>1. PipelineInv => ContiguousReplayIsExact
  <2> SUFFICES ASSUME PipelineInv, clean, \A i \in DOMAIN Session : Session[i].sequence = i
               PROVE  [i \in DOMAIN Session |-> Session[i].command] = SubSeq(processed, 1, Len(Session))
    BY DEF ContiguousReplayIsExact
  <2> DEFINE m == Len(Readable) - base
  <2>1. Typed /\ Replayable
    BY DEF PipelineInv
  <2>2. /\ Len(Session) = m /\ DOMAIN Session = 1 .. m /\ m \in Nat
        /\ \A i \in 1 .. m : Session[i] = Readable[base + i] /\ base + i \in base + 1 .. Len(Readable)
    BY <2>1, SessionLength
  <2> HIDE DEF m
  <2>3. \A i \in 1 .. m : IsProcessed(Session[i])
    BY <2>1, <2>2 DEF Replayable
  <2>4. \A i \in 1 .. m : i \in 1 .. Len(processed) /\ Session[i].command = processed[i]
    BY <2>2, <2>3 DEF IsProcessed
  <2>5. SubSeq(processed, 1, m) = [i \in 1 .. m |-> processed[i]]
    BY <2>2 DEF SubSeq
  <2>6. QED
    BY <2>2, <2>4, <2>5
<1>2. QED
  BY <1>1, PipelineInvariant, PTL

\* In a session that began on whole records the sequences sent ascend and the file holds a
\* beginning of them, which reaches at least as far as the one that was published.
LEMMA CleanDurableIsReadable == PipelineInv /\ clean => DurableIsReadable
<1> SUFFICES ASSUME PipelineInv, clean, alive, NEW e \in ToSet(sent), e.sequence <= durable
             PROVE  e \in ToSet(Session)
  BY DEF DurableIsReadable
<1>1. Typed /\ InOrder /\ SessionInv /\ Clean /\ Published
  BY DEF PipelineInv
<1>2. PICK start : IsSequence(start) /\ Len(start) = base /\ AsyncInv(Entries, start)
  BY <1>1 DEF Clean
<1> DEFINE n == Stored(start)
<1>3. /\ n \in 0 .. Len(sent) /\ Len(sent) \in Nat /\ base \in Nat /\ Len(Readable) = base + n
      /\ \A k \in 1 .. n : Readable[base + k] = sent[k]
  BY <1>2, ReadableIsSent
<1>4. PICK k \in 1 .. Len(sent) : e = sent[k]
  BY <1>1 DEF ToSet, InOrder, TypeInv
<1>5. \A j \in 1 .. Len(sent) : sent[j].sequence \in Nat \ {0}
  <2>1. Len(processed) \in Nat
    BY <1>1, LenProperties DEF Typed
  <2>2. QED
    BY <1>1, <2>1 DEF SessionInv, IsProcessed
<1>6. PICK j \in 1 .. Len(sent) : j <= Len(Readable) - base /\ durable = sent[j].sequence
  BY <1>1, <1>4, <1>5 DEF Published
<1>7. j <= n
  BY <1>3, <1>6
<1>8. k <= j
  <2>1. ~(j < k)
    BY <1>1, <1>4, <1>5, <1>6 DEF SessionInv
  <2>2. QED
    BY <1>3, <2>1
<1> HIDE DEF n
<1>9. k \in 1 .. n /\ k \in 1 .. Len(Readable) - base
  BY <1>3, <1>7, <1>8
<1>10. k \in DOMAIN Session /\ Session[k] = e
  BY <1>1, <1>3, <1>4, <1>9, SessionLength
<1>11. QED
  BY <1>10 DEF ToSet

\* What could be read when any session ended can be read in every later one, and in a
\* session that began on whole records so can all it has reported durable (open,
\* writer.rs:31-41; recover_file, recovery.rs:35-63; async_journal.rs:200-216).
THEOREM ConfirmedStays == Spec => []ConfirmedSurvives
<1>1. PipelineInv => ConfirmedSurvives
  BY CleanDurableIsReadable DEF PipelineInv, Confirmed, ConfirmedSurvives
<1>2. QED
  BY <1>1, PipelineInvariant, PTL

\* What the worker publishes has been sent, and between two calls of the one thread the
\* last entry sent is the last accepted (append, async_journal.rs:73-98).
THEOREM LagIsSafe == Spec => []LagDoesNotUnderflow
<1>1. PipelineInv => LagDoesNotUnderflow
  <2> SUFFICES ASSUME PipelineInv, alive, pc[main] = "idle" PROVE durable <= accepted
    BY DEF LagDoesNotUnderflow
  <2>1. SessionInv /\ Len(sent) \in Nat
    BY LenProperties DEF PipelineInv, InOrder, TypeInv
  <2>2. accepted = LastSent
    BY <2>1 DEF SessionInv
  <2>3. \A k \in 1 .. Len(sent) : sent[k].sequence \in Nat \ {0}
    <3>1. Len(processed) \in Nat
      BY LenProperties DEF PipelineInv, Typed
    <3>2. QED
      BY <2>1, <3>1 DEF SessionInv, IsProcessed
  <2>4. CASE Len(sent) = 0
    BY <2>1, <2>2, <2>4 DEF SessionInv, LastSent
  <2>5. CASE Len(sent) # 0
    <3>1. Len(sent) \in 1 .. Len(sent) /\ accepted = sent[Len(sent)].sequence
      BY <2>1, <2>2, <2>5 DEF LastSent
    <3>2. \A k \in 1 .. Len(sent) : sent[k].sequence <= sent[Len(sent)].sequence
      <4>1. \A k \in 1 .. Len(sent) : k < Len(sent) \/ k = Len(sent)
        BY <2>1
      <4>2. QED
        BY <2>1, <2>3, <3>1, <4>1 DEF SessionInv
    <3>3. QED
      BY <2>1, <2>3, <3>1, <3>2 DEF SessionInv
  <2>6. QED
    BY <2>4, <2>5
<1>2. QED
  BY <1>1, PipelineInvariant, PTL

\* The file of a session that began on whole records and was closed in order holds what was
\* accepted in it, and nothing else, unless a write failed (async_journal.rs:114-138).
THEOREM OrderlyDrop == Spec => []DropKeepsEverything
<1>1. PipelineInv => DropKeepsEverything
  <2> SUFFICES ASSUME PipelineInv, joined, ~degraded, clean, alive
               PROVE  {Session[i] : i \in DOMAIN Session} = acked
    BY DEF DropKeepsEverything
  <2>1. Typed /\ InOrder /\ SessionInv /\ Clean
    BY DEF PipelineInv
  <2>2. PICK start : IsSequence(start) /\ Len(start) = base /\ AsyncInv(Entries, start)
    BY <2>1 DEF Clean
  <2> DEFINE n == Stored(start)
  <2>3. /\ n \in 0 .. Len(sent) /\ Len(sent) \in Nat /\ Len(Readable) = base + n /\ base \in Nat
        /\ \A k \in 1 .. n : Readable[base + k] = sent[k]
    BY <2>2, ReadableIsSent
  <2>4. worker = "exited" /\ Len(batch) = 0
    BY <2>1 DEF InOrder, OrderInv, EndInv
  <2>5. closed /\ acked_at_close = acked /\ \A k \in 1 .. Len(sent) : sent[k] \in acked
    BY <2>1 DEF SessionInv
  <2>6. \A e \in acked_at_close : SentUpTo(n + Len(batch), e)
    BY <2>2, <2>4 DEF AsyncInv, CloseInv, AheadInv
  <2> HIDE DEF n
  <2>7. n + Len(batch) = n
    BY <2>3, <2>4
  <2>8. \A e \in acked : \E k \in 1 .. n : sent[k] = e
    BY <2>5, <2>6, <2>7 DEF SentUpTo
  <2>9. DOMAIN Session = 1 .. n /\ \A i \in 1 .. n : Session[i] = sent[i]
    <3>1. Len(Readable) - base = n
      BY <2>3
    <3>2. QED
      BY <2>1, <2>3, <3>1, SessionLength
  <2>10. \A k \in 1 .. n : k \in 1 .. Len(sent)
    BY <2>3
  <2>11. QED
    BY <2>5, <2>8, <2>9, <2>10
<1>2. QED
  BY <1>1, PipelineInvariant, PTL
=============================================================================
