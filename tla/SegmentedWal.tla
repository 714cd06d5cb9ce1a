---------------------------- MODULE SegmentedWal ----------------------------
(***************************************************************************)
(* matchx-journal: a directory of segments (writer.rs), the two readers    *)
(* (reader.rs, streaming_reader.rs) and recovery (recovery.rs).  What is   *)
(* written stays written when the process dies (nothing is synced to the   *)
(* device, so this is not a model of power loss); a write may stop after   *)
(* any cell, by an I/O error the caller sees or by a crash.  The writer    *)
(* never looks at what it appends to, and nothing makes a caller stop      *)
(* after an error or recover before it opens: both happen here.            *)
(***************************************************************************)
EXTENDS Codec, FiniteSets, FiniteSetsExt

CONSTANTS
  Commands,            \* the commands that are appended
  MaxSegmentBytes,     \* in cells
  MaxAppends,          \* bound of the model on the calls of append
  MaxFaults            \* bound of the model on failed writes and crashes

ASSUME WalAssumption ==
  /\ \A c \in Commands : IsCommand(c)
  /\ MaxSegmentBytes \in Nat /\ MaxAppends \in Nat /\ MaxFaults \in Nat

VARIABLES
  segments,               \* the files of the directory: index -> cells
  opened,                 \* a JournalWriter is alive
  current_segment_index,
  current_segment_size,
  file,                   \* the segment its file handle writes to
  sequence,               \* sequence of the last append
  acked,                  \* what append returned Ok for, oldest first; behind a torn record or not
  torn,                   \* segments in which a write stopped inside a record
  faults,                 \* failed writes and crashes so far
  report                  \* of the last recover_dir, None if something was written since

writer == <<opened, current_segment_index, current_segment_size, file>>
vars == <<segments, writer, sequence, acked, torn, faults, report>>
-----------------------------------------------------------------------------
\* list_segment_paths: names are padded to eight digits, so string order is the order
\* of the indices.
ListSegmentPaths ==
  CHOOSE paths \in Bijection(1 .. Cardinality(DOMAIN segments), DOMAIN segments) :
    \A j, k \in DOMAIN paths : j < k => paths[j] < paths[k]

\* max_segment_bytes.max(1)
Limit == IF MaxSegmentBytes > 1 THEN MaxSegmentBytes ELSE 1

Create(index) ==
  [i \in DOMAIN segments \cup {index} |-> IF i \in DOMAIN segments THEN segments[i] ELSE <<>>]

Write(disk, index, cells) == [disk EXCEPT ![index] = @ \o cells]

Init ==
  /\ segments = <<>>
  /\ opened = FALSE
  /\ current_segment_index = 0
  /\ current_segment_size = 0
  /\ file = 0
  /\ sequence = 0
  /\ acked = <<>>
  /\ torn = {}
  /\ faults = 0
  /\ report = None

\* Mutant: a new writer always starts at the first segment.
OpenFirstSegment ==
  /\ ~opened
  /\ opened' = TRUE
  /\ current_segment_index' = 1
  /\ file' = 1
  /\ segments' = Create(1)
  /\ current_segment_size' = Len(Create(1)[1])
  /\ UNCHANGED <<sequence, acked, torn, faults, report>>

\* The last segment of the directory, torn or not, or the first one.
OpenSegmented ==
  LET last == IF segments = <<>> THEN 1 ELSE Last(ListSegmentPaths)
  IN  /\ ~opened
      /\ opened' = TRUE
      /\ current_segment_index' = last
      /\ file' = last
      /\ segments' = Create(last)
      /\ current_segment_size' = Len(Create(last)[last])
      /\ UNCHANGED <<sequence, acked, torn, faults, report>>

MustRotate(record) ==
  current_segment_size > 0 /\ current_segment_size + Len(record) > Limit

\* append_raw of the first n cells of a record: rotate_segment if it must, then write.
\* The size grows when the whole record was written.
AppendRaw(record, n) ==
  LET rotates == MustRotate(record)
      target  == IF rotates THEN current_segment_index + 1 ELSE file
      size    == IF rotates THEN 0 ELSE current_segment_size
  IN  /\ file' = target
      /\ torn' = IF n \in 1 .. Len(record) - 1 THEN torn \cup {target} ELSE torn
      /\ current_segment_index' = IF rotates THEN target ELSE current_segment_index
      /\ segments' = Write(Create(target), target, SubSeq(record, 1, n))
      /\ current_segment_size' = IF n = Len(record) THEN size + n ELSE size

BeginAppend ==
  /\ opened
  /\ sequence < MaxAppends
  /\ sequence' = sequence + 1
  /\ report' = None

AppendCommand(cmd) ==
  LET record == EncodeRecord(sequence + 1, cmd)
  IN  /\ BeginAppend
      /\ AppendRaw(record, Len(record))
      /\ acked' = Append(acked, [sequence |-> sequence + 1, command |-> cmd, behind |-> file' \in torn])
      /\ UNCHANGED <<opened, faults>>

\* write_all gives up after n cells: append returns the error, the writer lives on.
AppendFails(cmd, n) ==
  LET record == EncodeRecord(sequence + 1, cmd)
  IN  /\ faults < MaxFaults
      /\ n < Len(record)
      /\ BeginAppend
      /\ AppendRaw(record, n)
      /\ faults' = faults + 1
      /\ UNCHANGED <<opened, acked>>

\* The next segment cannot be opened: the index has been advanced, the old file stays.
RotateFails(cmd) ==
  /\ faults < MaxFaults
  /\ BeginAppend
  /\ MustRotate(EncodeRecord(sequence + 1, cmd))
  /\ current_segment_index' = current_segment_index + 1
  /\ faults' = faults + 1
  /\ UNCHANGED <<segments, opened, current_segment_size, file, acked, torn>>

\* The process dies after the write and before append returns.  (To die inside the write
\* is AppendFails and then Drop.)
CrashInAppend(cmd) ==
  LET record == EncodeRecord(sequence + 1, cmd)
  IN  /\ faults < MaxFaults
      /\ BeginAppend
      /\ AppendRaw(record, Len(record))
      /\ opened' = FALSE
      /\ faults' = faults + 1
      /\ UNCHANGED acked

\* The writer is dropped, or the process dies between two calls.
Drop ==
  /\ opened
  /\ opened' = FALSE
  /\ UNCHANGED <<segments, current_segment_index, current_segment_size, file,
                 sequence, acked, torn, faults, report>>
-----------------------------------------------------------------------------
\* Mutant: the last segment decides, also when nothing in it is valid.
LastSequenceOfLastSegment(reports) ==
  IF reports = <<>> THEN 0 ELSE Last(reports).last_valid_sequence

LastSequence(reports) ==
  LET valid == {k \in DOMAIN reports : reports[k].last_valid_sequence # 0}
  IN  IF valid = {} THEN 0 ELSE reports[Max(valid)].last_valid_sequence

\* The files after the first n segments have been recovered.
RecoveredUpTo(n) ==
  [i \in DOMAIN segments |->
     IF i \in ToSet(SubSeq(ListSegmentPaths, 1, n)) THEN RecoverFile(segments[i]).data ELSE segments[i]]

Recovered == RecoveredUpTo(Cardinality(DOMAIN segments))

RecoveryReport ==
  LET reports == [k \in DOMAIN ListSegmentPaths |-> RecoverFile(segments[ListSegmentPaths[k]])]
  IN  [last_valid_sequence |-> LastSequence(reports),
       truncated_bytes |-> FoldLeft(LAMBDA s, r : s + r.truncated_bytes, 0, reports)]

RecoverDir ==
  /\ ~opened
  /\ segments # <<>>
  /\ segments' = Recovered
  /\ report' = RecoveryReport
  /\ torn' = {}
  /\ UNCHANGED <<writer, sequence, acked, faults>>

\* The process dies during recovery, after the first n segments.
CrashInRecovery(n) ==
  /\ ~opened
  /\ faults < MaxFaults
  /\ n \in 1 .. Cardinality(DOMAIN segments) - 1
  /\ segments' = RecoveredUpTo(n)
  /\ torn' = torn \ ToSet(SubSeq(ListSegmentPaths, 1, n))
  /\ report' = None
  /\ faults' = faults + 1
  /\ UNCHANGED <<writer, sequence, acked>>
-----------------------------------------------------------------------------
\* JournalReader::read_all: every segment, or an error.
ReadAll(disk, paths) ==
  LET scans == [k \in DOMAIN paths |-> Scan(disk[paths[k]])]
  IN  [ok      |-> \A k \in DOMAIN paths : scans[k].end = Len(disk[paths[k]]),
       entries |-> FlattenSeq([k \in DOMAIN paths |-> scans[k].entries])]

\* Mutant: a torn length header ends the journal, not only its segment.
StreamEndsAtTornHeader(disk, paths) ==
  LET scans == [k \in DOMAIN paths |-> Scan(disk[paths[k]])]
      tails == [k \in DOMAIN paths |-> Len(disk[paths[k]]) - scans[k].end]
      ends  == {k \in DOMAIN paths : tails[k] > 0}
      seen  == IF ends = {} THEN Len(paths) ELSE Min(ends)
  IN  [ok      |-> ends = {} \/ tails[seen] < HeaderLen,
       entries |-> FlattenSeq([k \in 1 .. seen |-> scans[k].entries])]

\* StreamingReader: next_entry until None or an error.  A segment that ends inside a
\* length header ends there; one that ends inside a body is an error.
Stream(disk, paths) ==
  LET scans == [k \in DOMAIN paths |-> Scan(disk[paths[k]])]
      stops == {k \in DOMAIN paths : Len(disk[paths[k]]) - scans[k].end >= HeaderLen}
      seen  == IF stops = {} THEN Len(paths) ELSE Min(stops)
  IN  [ok |-> stops = {}, entries |-> FlattenSeq([k \in 1 .. seen |-> scans[k].entries])]

Next ==
  \/ OpenSegmented
  \/ \E c \in Commands : AppendCommand(c)
  \/ \E c \in Commands : \E n \in 0 .. Len(EncodeRecord(0, c)) : AppendFails(c, n)
  \/ \E c \in Commands : RotateFails(c)
  \/ \E c \in Commands : CrashInAppend(c)
  \/ Drop
  \/ RecoverDir
  \/ \E n \in 1 .. MaxAppends : CrashInRecovery(n)

Spec == Init /\ [][Next]_vars
-----------------------------------------------------------------------------
Kept == ReadAll(Recovered, ListSegmentPaths).entries

Entry(r) == [sequence |-> r.sequence, command |-> r.command]

\* A record whose append returned Ok comes back from recovery, with the command it was
\* given, after any crashes and reopenings - unless it was appended to a segment that
\* already held a torn record, behind which recovery cannot look (append_raw,
\* writer.rs:88-103; open_segmented, writer.rs:43-71; recover_file, recovery.rs:35-63).
AckedSurvives ==
  LET kept == ToSet(Kept)
  IN  \A r \in ToSet(acked) : r.behind \/ Entry(r) \in kept

\* Recovery keeps records in the order in which they were appended, none twice: a
\* reopened or rotated journal continues behind its last segment (writer.rs:47-54, 114-123).
KeptInOrder ==
  LET kept == Kept
  IN  \A i, j \in DOMAIN kept : i < j => kept[i].sequence < kept[j].sequence

\* What recovery leaves can be read to the end by both readers, which return the same
\* records, and a second recovery has nothing left to cut; this holds however often
\* recovery itself is interrupted (recovery.rs:14-63, reader.rs:34-48).
RecoveredIsReadable ==
  LET disk == Recovered
      read == ReadAll(disk, ListSegmentPaths)
  IN  /\ read.ok
      /\ Stream(disk, ListSegmentPaths) = read
      /\ \A i \in DOMAIN disk : RecoverFile(disk[i]).truncated_bytes = 0

\* The streaming reader never returns a record that recovery would drop: if it reaches
\* the end of an unrecovered journal it has returned all that recovery keeps, and if it
\* fails, the beginning of it (next_entry, streaming_reader.rs:44-80).
StreamAgreesWithRecovery ==
  LET s    == Stream(segments, ListSegmentPaths)
      kept == Kept
  IN  IF s.ok THEN s.entries = kept ELSE IsPrefix(s.entries, kept)

\* After recovery the report names the sequence of the last record in the journal, also
\* when the last segment holds none (recover_dir, recovery.rs:14-25).
ReportNamesTheLast ==
  report # None =>
    report.last_valid_sequence =
      LET entries == ReadAll(segments, ListSegmentPaths).entries
      IN  IF entries = <<>> THEN 0 ELSE Last(entries).sequence

\* "On recovery, scan sequentially and truncate at first invalid/torn record": what
\* recovery keeps has no hole (recover_dir, recovery.rs:17).
NoHole ==
  LET kept == ToSet(Kept)
  IN  \A r, s \in ToSet(acked) :
        r.sequence < s.sequence /\ Entry(s) \in kept => Entry(r) \in kept
=============================================================================
