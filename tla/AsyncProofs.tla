---------------------------- MODULE AsyncProofs -----------------------------
(***************************************************************************)
(* The invariant of an AsyncJournal, for any threads, any queue capacity   *)
(* and any batch size, and that every step of a call and of the worker     *)
(* keeps it: the file holds the sent entries up to a point, the batch goes *)
(* on from there and the queue from the batch, and what was acknowledged   *)
(* before close stands in front of the Shutdown.  The entries the file     *)
(* held before the journal was opened are a parameter.  From it, what      *)
(* threads that share a journal over a new file may rely on: the journal   *)
(* implements DurableLog, close keeps what was accepted, and nothing is    *)
(* written after a failed write.                                           *)
(***************************************************************************)
EXTENDS SharedJournal, CodecProofs

\* How far down a log of n entries a queue is at place i: an append stands for the entry
\* at that place of the log, a Shutdown was sent after that many.  Place 0 is what was
\* taken last.
Place(q, n, i) ==
  n - Len(q) + i + (IF \E k \in i + 1 .. Len(q) : q[k] = Shutdown THEN 1 ELSE 0)

Messages(E) == {Shutdown} \cup {AppendRecord(e) : e \in E}

OneShutdown(q) == \A i, j \in 1 .. Len(q) : q[i] = Shutdown /\ q[j] = Shutdown => i = j

LEMMA AppendIsNoShutdown == \A e : AppendRecord(e) # Shutdown /\ AppendRecord(e).entry = e
<1> TAKE e
<1>1. AppendRecord(e).op = "Append" /\ AppendRecord(e).entry = e /\ Shutdown.op = "Shutdown"
  BY DEF AppendRecord, Shutdown
<1>2. QED
  BY <1>1

LEMMA PlaceBounds ==
  ASSUME NEW M, NEW q \in Seq(M), NEW n \in Nat
  PROVE  /\ \A i \in 0 .. Len(q) : /\ Place(q, n, i) \in Int
                                   /\ Place(q, n, i) <= n
                                   /\ Place(q, n, 0) <= Place(q, n, i)
         /\ Place(q, n, Len(q)) = n
<1>1. Len(q) \in Nat
  BY LenProperties
<1>2. ASSUME NEW i \in 0 .. Len(q)
      PROVE  Place(q, n, i) \in Int /\ Place(q, n, i) <= n /\ Place(q, n, 0) <= Place(q, n, i)
  <2>1. CASE i = Len(q)
    BY <1>1, <2>1 DEF Place
  <2>2. CASE i # Len(q)
    BY <1>1, <2>2 DEF Place
  <2>3. QED
    BY <2>1, <2>2
<1>3. Place(q, n, Len(q)) = n
  BY <1>1 DEF Place
<1>4. QED
  BY <1>2, <1>3

\* An append in the queue stands for an entry that has not been taken.
LEMMA PlaceOfAppend ==
  ASSUME NEW M, NEW q \in Seq(M), NEW n \in Nat, NEW i \in 1 .. Len(q), q[i] # Shutdown,
         Place(q, n, 0) >= 0
  PROVE  Place(q, n, i) \in Place(q, n, 0) + 1 .. n /\ Place(q, n, i) \in 1 .. n
<1>1. Len(q) \in Nat
  BY LenProperties
<1>2. i \in 0 .. Len(q) /\ 0 \in 0 .. Len(q)
  BY <1>1
<1>3. Place(q, n, i) \in Int /\ Place(q, n, i) <= n /\ Place(q, n, 0) \in Int
  BY <1>2, PlaceBounds
<1>4. Place(q, n, 0) + 1 <= Place(q, n, i)
  <2>1. CASE \E k \in i + 1 .. Len(q) : q[k] = Shutdown
    <3>1. \E k \in 0 + 1 .. Len(q) : q[k] = Shutdown
      BY <1>1, <2>1
    <3>2. n - Len(q) + 0 + 1 + 1 <= n - Len(q) + i + 1
      BY <1>1
    <3>3. QED
      BY <2>1, <3>1, <3>2 DEF Place
  <2>2. CASE /\ ~\E k \in i + 1 .. Len(q) : q[k] = Shutdown
             /\ \E k \in 0 + 1 .. Len(q) : q[k] = Shutdown
    <3>1. PICK k \in 0 + 1 .. Len(q) : q[k] = Shutdown
      BY <2>2
    <3>2. k # i /\ k \notin i + 1 .. Len(q)
      BY <2>2, <3>1
    <3>3. i >= 2
      BY <1>1, <3>1, <3>2
    <3>4. n - Len(q) + 0 + 1 + 1 <= n - Len(q) + i + 0
      BY <1>1, <3>3
    <3>5. QED
      BY <2>2, <3>4 DEF Place
  <2>3. CASE ~\E k \in 0 + 1 .. Len(q) : q[k] = Shutdown
    <3>1. ~\E k \in i + 1 .. Len(q) : q[k] = Shutdown
      <4>1. \A k \in i + 1 .. Len(q) : k \in 0 + 1 .. Len(q)
        BY <1>1
      <4>2. QED
        BY <2>3, <4>1
    <3>2. n - Len(q) + 0 + 0 + 1 <= n - Len(q) + i + 0
      BY <1>1
    <3>3. QED
      BY <2>3, <3>1, <3>2 DEF Place
  <2>4. QED
    BY <2>1, <2>2, <2>3
<1>5. QED
  BY <1>3, <1>4

\* A message sent moves no other; it goes to the end of the log.
LEMMA PlaceAfterSend ==
  ASSUME NEW M, NEW q \in Seq(M), NEW n \in Nat, NEW m \in M, m # Shutdown
  PROVE  /\ \A i \in 0 .. Len(q) : Place(Append(q, m), n + 1, i) = Place(q, n, i)
         /\ Place(Append(q, m), n + 1, Len(q) + 1) = n + 1
<1> DEFINE r == Append(q, m)
<1>1. /\ Len(q) \in Nat /\ Len(r) = Len(q) + 1 /\ r[Len(q) + 1] = m
      /\ \A i \in 1 .. Len(q) : r[i] = q[i]
  BY LenProperties, AppendProperties
<1> HIDE DEF r
<1>2. ASSUME NEW i \in 0 .. Len(q) PROVE Place(r, n + 1, i) = Place(q, n, i)
  <2>1. (\E k \in i + 1 .. Len(r) : r[k] = Shutdown) <=> (\E k \in i + 1 .. Len(q) : q[k] = Shutdown)
    <3>1. \A k \in i + 1 .. Len(r) : k = Len(q) + 1 \/ k \in i + 1 .. Len(q)
      BY <1>1
    <3>2. \A k \in i + 1 .. Len(q) : k \in 1 .. Len(q) /\ k \in i + 1 .. Len(r)
      BY <1>1
    <3>3. QED
      BY <1>1, <3>1, <3>2
  <2>2. n + 1 - Len(r) + i = n - Len(q) + i
    BY <1>1
  <2>3. QED
    BY <2>1, <2>2 DEF Place
<1>3. Place(r, n + 1, Len(q) + 1) = n + 1
  <2>1. ~\E k \in (Len(q) + 1) + 1 .. Len(r) : r[k] = Shutdown
    BY <1>1
  <2>2. n + 1 - Len(r) + (Len(q) + 1) + 0 = n + 1
    BY <1>1
  <2>3. QED
    BY <2>1, <2>2 DEF Place
<1>4. QED
  BY <1>2, <1>3 DEF r

LEMMA PlaceAfterShutdown ==
  ASSUME NEW M, NEW q \in Seq(M), NEW n \in Nat, Shutdown \in M,
         \A i \in 1 .. Len(q) : q[i] # Shutdown
  PROVE  /\ \A i \in 0 .. Len(q) : Place(Append(q, Shutdown), n, i) = Place(q, n, i)
         /\ Place(Append(q, Shutdown), n, Len(q) + 1) = n
<1> DEFINE r == Append(q, Shutdown)
<1>1. /\ Len(q) \in Nat /\ Len(r) = Len(q) + 1 /\ r[Len(q) + 1] = Shutdown
      /\ \A i \in 1 .. Len(q) : r[i] = q[i]
  BY LenProperties, AppendProperties
<1> HIDE DEF r
<1>2. ASSUME NEW i \in 0 .. Len(q) PROVE Place(r, n, i) = Place(q, n, i)
  <2>1. \E k \in i + 1 .. Len(r) : r[k] = Shutdown
    <3>1. Len(q) + 1 \in i + 1 .. Len(r)
      BY <1>1
    <3>2. QED
      BY <1>1, <3>1
  <2>2. ~\E k \in i + 1 .. Len(q) : q[k] = Shutdown
    <3>1. \A k \in i + 1 .. Len(q) : k \in 1 .. Len(q)
      BY <1>1
    <3>2. QED
      BY <3>1
  <2>3. n - Len(r) + i + 1 = n - Len(q) + i + 0
    BY <1>1
  <2>4. QED
    BY <2>1, <2>2, <2>3 DEF Place
<1>3. Place(r, n, Len(q) + 1) = n
  <2>1. ~\E k \in (Len(q) + 1) + 1 .. Len(r) : r[k] = Shutdown
    BY <1>1
  <2>2. n - Len(r) + (Len(q) + 1) + 0 = n
    BY <1>1
  <2>3. QED
    BY <2>1, <2>2 DEF Place
<1>4. QED
  BY <1>2, <1>3 DEF r

\* A message taken shifts the others, and is one entry of the log unless it is a Shutdown.
LEMMA PlaceAfterTake ==
  ASSUME NEW M, NEW q \in Seq(M), NEW n \in Nat, q # <<>>, OneShutdown(q)
  PROVE  /\ Len(q) >= 1 /\ Head(q) = q[1] /\ Tail(q) \in Seq(M) /\ Len(Tail(q)) = Len(q) - 1
         /\ \A i \in 1 .. Len(Tail(q)) : Tail(q)[i] = q[i + 1] /\ i + 1 \in 1 .. Len(q)
         /\ \A i \in 0 .. Len(Tail(q)) : Place(Tail(q), n, i) = Place(q, n, i + 1)
         /\ q[1] # Shutdown => Place(q, n, 1) = Place(q, n, 0) + 1
         /\ q[1] = Shutdown => /\ Place(q, n, 1) = Place(q, n, 0)
                               /\ \A i \in 1 .. Len(Tail(q)) : Tail(q)[i] # Shutdown
<1> DEFINE r == Tail(q)
<1>1. /\ Len(q) \in Nat /\ Len(q) >= 1 /\ Head(q) = q[1]
      /\ r \in Seq(M) /\ Len(r) = Len(q) - 1
      /\ \A i \in 1 .. Len(r) : r[i] = q[i + 1]
  <2>1. Len(q) \in Nat /\ Len(q) # 0
    BY LenProperties, EmptySeq
  <2>2. QED
    BY <2>1, HeadTailProperties
<1> HIDE DEF r
<1>2. \A i \in 1 .. Len(r) : i + 1 \in 1 .. Len(q)
  BY <1>1
<1>3. ASSUME NEW i \in 0 .. Len(r) PROVE Place(r, n, i) = Place(q, n, i + 1)
  <2>1. (\E k \in i + 1 .. Len(r) : r[k] = Shutdown) <=> (\E k \in (i + 1) + 1 .. Len(q) : q[k] = Shutdown)
    <3>1. \A k \in i + 1 .. Len(r) : k \in 1 .. Len(r) /\ k + 1 \in (i + 1) + 1 .. Len(q)
      BY <1>1
    <3>2. \A k \in (i + 1) + 1 .. Len(q) : /\ k - 1 \in i + 1 .. Len(r) /\ k - 1 \in 1 .. Len(r)
                                           /\ (k - 1) + 1 = k
      BY <1>1
    <3>3. \A k \in i + 1 .. Len(r) : r[k] = q[k + 1]
      BY <1>1, <3>1
    <3>4. \A k \in (i + 1) + 1 .. Len(q) : r[k - 1] = q[k]
      BY <1>1, <3>2
    <3>5. ASSUME NEW k \in i + 1 .. Len(r), r[k] = Shutdown
          PROVE  \E j \in (i + 1) + 1 .. Len(q) : q[j] = Shutdown
      BY <3>1, <3>3, <3>5
    <3>6. ASSUME NEW k \in (i + 1) + 1 .. Len(q), q[k] = Shutdown
          PROVE  \E j \in i + 1 .. Len(r) : r[j] = Shutdown
      BY <3>2, <3>4, <3>6
    <3>7. QED
      BY <3>5, <3>6
  <2>2. n - Len(r) + i = n - Len(q) + (i + 1)
    BY <1>1
  <2>3. QED
    BY <2>1, <2>2 DEF Place
<1>4. (\E k \in 0 + 1 .. Len(q) : q[k] = Shutdown)
        <=> (q[1] = Shutdown \/ \E k \in 1 + 1 .. Len(q) : q[k] = Shutdown)
  <2>1. \A k \in 0 + 1 .. Len(q) : k = 1 \/ k \in 1 + 1 .. Len(q)
    BY <1>1
  <2>2. 1 \in 0 + 1 .. Len(q) /\ \A k \in 1 + 1 .. Len(q) : k \in 0 + 1 .. Len(q)
    BY <1>1
  <2>3. QED
    BY <2>1, <2>2
<1>5. CASE q[1] # Shutdown
  <2>1. Place(q, n, 1) = Place(q, n, 0) + 1
    BY <1>1, <1>4, <1>5 DEF Place
  <2>2. QED
    BY <1>1, <1>2, <1>3, <1>5, <2>1 DEF r
<1>6. CASE q[1] = Shutdown
  <2>1. \A k \in 1 + 1 .. Len(q) : q[k] # Shutdown
    <3>1. \A k \in 1 + 1 .. Len(q) : 1 \in 1 .. Len(q) /\ k \in 1 .. Len(q) /\ k # 1
      BY <1>1
    <3>2. QED
      BY <1>6, <3>1 DEF OneShutdown
  <2>2. Place(q, n, 1) = Place(q, n, 0)
    BY <1>1, <1>4, <1>6, <2>1 DEF Place
  <2>3. \A i \in 1 .. Len(r) : r[i] # Shutdown
    <3>1. \A i \in 1 .. Len(r) : i + 1 \in 1 + 1 .. Len(q)
      BY <1>1
    <3>2. QED
      BY <1>1, <2>1, <3>1
  <2>4. QED
    BY <1>1, <1>2, <1>3, <1>6, <2>2, <2>3 DEF r
<1>7. QED
  BY <1>5, <1>6

-----------------------------------------------------------------------------
Labels == {"idle", "load_closed", "try_send", "store_accepted", "send_shutdown", "join"}
SequencesOf(E) == {0} \cup {e.sequence : e \in E}
Position(i) == Place(queue, Len(sent), i)
Taken == Position(0)

TypeInv(E) ==
  /\ queue \in Seq(Messages(E)) /\ Len(queue) <= QueueCapacity
  /\ accepted \in SequencesOf(E) /\ durable \in SequencesOf(E) /\ last_sequence \in SequencesOf(E)
  /\ worker \in {"recv", "drain", "write", "leaving", "exited"}
  /\ batch \in Seq(E) /\ Len(batch) <= BatchSize
  /\ degraded \in BOOLEAN /\ closed \in BOOLEAN /\ should_exit \in BOOLEAN /\ joined \in BOOLEAN
  /\ pc \in [Threads -> Labels]
  /\ record \in [Threads -> E \cup {None}]
  /\ \A t \in Threads : pc[t] \in {"load_closed", "try_send", "store_accepted"} => record[t] \in E
  /\ sent \in Seq(E)
  /\ acked \in SUBSET E /\ acked_at_close \in SUBSET E

\* The steps of a journal to which threads append entries of E.
Begin(E, t) == (\E e \in E : AppendBegin(t, e)) \/ Close(t) \/ CloseAgain(t)
JournalNext(E) ==
  \/ \E t \in Threads : Begin(E, t)
  \/ \E t \in Threads : Call(t)
  \/ Worker
  \/ UNCHANGED vars

LEMMA BeginType ==
  ASSUME NEW E, TypeInv(E), NEW t \in Threads, Begin(E, t)
  PROVE  TypeInv(E)'
<1>1. ASSUME NEW e \in E, AppendBegin(t, e) PROVE TypeInv(E)'
  <2>1. CASE degraded
    BY <1>1, <2>1 DEF TypeInv, AppendBegin, shared, workers, calls, history
  <2>2. CASE ~degraded
    <3>1. /\ pc' = [pc EXCEPT ![t] = "load_closed"] /\ record' = [record EXCEPT ![t] = e]
          /\ UNCHANGED <<shared, workers, file, history>>
      BY <1>1, <2>2 DEF AppendBegin, Goto
    <3>2. pc' \in [Threads -> Labels] /\ record' \in [Threads -> E \cup {None}]
      BY <3>1 DEF TypeInv, Labels
    <3>3. \A u \in Threads : pc'[u] \in {"load_closed", "try_send", "store_accepted"} => record'[u] \in E
      BY <3>1 DEF TypeInv
    <3>4. QED
      BY <3>1, <3>2, <3>3 DEF TypeInv, shared, workers, history
  <2>3. QED
    BY <2>1, <2>2
<1>2. ASSUME Close(t) PROVE TypeInv(E)'
  <2>1. pc' \in [Threads -> Labels]
    BY <1>2 DEF TypeInv, Labels, Close, Goto
  <2>2. \A u \in Threads : pc'[u] \in {"load_closed", "try_send", "store_accepted"} => record'[u] \in E
    BY <1>2 DEF TypeInv, Close, Goto
  <2>3. QED
    BY <1>2, <2>1, <2>2 DEF TypeInv, Close, workers
<1>3. ASSUME CloseAgain(t) PROVE TypeInv(E)'
  BY <1>3 DEF TypeInv, CloseAgain, vars, shared, workers, calls, history
<1>4. QED
  BY <1>1, <1>2, <1>3 DEF Begin

LEMMA CallType ==
  ASSUME NEW E, TypeInv(E), NEW t \in Threads, Call(t)
  PROVE  TypeInv(E)'
<1>1. ASSUME NEW l \in {"idle", "try_send", "store_accepted", "join"}, Goto(t, l), record' = record,
             l = "try_send" => pc[t] = "load_closed", l = "store_accepted" => pc[t] = "try_send"
      PROVE  /\ pc' \in [Threads -> Labels] /\ record' \in [Threads -> E \cup {None}]
             /\ \A u \in Threads : pc'[u] \in {"load_closed", "try_send", "store_accepted"} => record'[u] \in E
  <2>1. pc' \in [Threads -> Labels] /\ record' \in [Threads -> E \cup {None}]
    BY <1>1 DEF TypeInv, Labels, Goto
  <2>2. ASSUME NEW u \in Threads, pc'[u] \in {"load_closed", "try_send", "store_accepted"}
        PROVE  record'[u] \in E
    <3>1. CASE u = t
      <4>1. pc'[u] = l
        BY <1>1, <3>1 DEF TypeInv, Goto
      <4>2. QED
        BY <1>1, <2>2, <3>1, <4>1 DEF TypeInv
    <3>2. CASE u # t
      BY <1>1, <2>2, <3>2 DEF TypeInv, Goto
    <3>3. QED
      BY <3>1, <3>2
  <2>3. QED
    BY <2>1, <2>2
<1>2. ASSUME AppendLoadClosed(t) PROVE TypeInv(E)'
  <2>1. PICK l \in {"idle", "try_send"} : Goto(t, l)
    BY <1>2 DEF AppendLoadClosed
  <2>2. record' = record /\ pc[t] = "load_closed"
    BY <1>2 DEF AppendLoadClosed
  <2>3. /\ pc' \in [Threads -> Labels] /\ record' \in [Threads -> E \cup {None}]
        /\ \A u \in Threads : pc'[u] \in {"load_closed", "try_send", "store_accepted"} => record'[u] \in E
    BY <1>1, <2>1, <2>2
  <2>4. QED
    BY <1>2, <2>3 DEF TypeInv, AppendLoadClosed, shared, workers, history
<1>3. ASSUME AppendRefused(t) PROVE TypeInv(E)'
  <2>1. /\ pc' \in [Threads -> Labels] /\ record' \in [Threads -> E \cup {None}]
        /\ \A u \in Threads : pc'[u] \in {"load_closed", "try_send", "store_accepted"} => record'[u] \in E
    BY <1>1, <1>3 DEF AppendRefused
  <2>2. QED
    BY <1>3, <2>1 DEF TypeInv, AppendRefused, shared, workers, history
<1>4. ASSUME AppendTrySend(t) PROVE TypeInv(E)'
  <2>1. /\ pc' \in [Threads -> Labels] /\ record' \in [Threads -> E \cup {None}]
        /\ \A u \in Threads : pc'[u] \in {"load_closed", "try_send", "store_accepted"} => record'[u] \in E
    BY <1>1, <1>4 DEF AppendTrySend
  <2>2. record[t] \in E /\ AppendRecord(record[t]) \in Messages(E)
    BY <1>4 DEF TypeInv, AppendTrySend, Messages
  <2>3. queue' \in Seq(Messages(E)) /\ Len(queue') = Len(queue) + 1 /\ Len(queue) \in Nat
    BY <1>4, <2>2, AppendProperties, LenProperties DEF TypeInv, AppendTrySend
  <2>4. sent' \in Seq(E)
    BY <1>4, <2>2, AppendProperties DEF TypeInv, AppendTrySend
  <2>5. Len(queue') <= QueueCapacity
    BY <1>4, <2>3, AsyncAssumption DEF AppendTrySend
  <2>6. QED
    BY <1>4, <2>1, <2>3, <2>4, <2>5 DEF TypeInv, AppendTrySend, workers
<1>5. ASSUME AppendStoreAccepted(t) PROVE TypeInv(E)'
  <2>1. /\ pc' \in [Threads -> Labels] /\ record' \in [Threads -> E \cup {None}]
        /\ \A u \in Threads : pc'[u] \in {"load_closed", "try_send", "store_accepted"} => record'[u] \in E
    BY <1>1, <1>5 DEF AppendStoreAccepted
  <2>2. record[t] \in E
    BY <1>5 DEF TypeInv, AppendStoreAccepted
  <2>3. accepted' \in SequencesOf(E) /\ acked' \in SUBSET E
    BY <1>5, <2>2 DEF TypeInv, AppendStoreAccepted, SequencesOf
  <2>4. QED
    BY <1>5, <2>1, <2>3 DEF TypeInv, AppendStoreAccepted, workers
<1>6. ASSUME CloseSendShutdown(t) PROVE TypeInv(E)'
  <2>1. /\ pc' \in [Threads -> Labels] /\ record' \in [Threads -> E \cup {None}]
        /\ \A u \in Threads : pc'[u] \in {"load_closed", "try_send", "store_accepted"} => record'[u] \in E
    BY <1>1, <1>6 DEF CloseSendShutdown
  <2>2. Shutdown \in Messages(E)
    BY DEF Messages
  <2>3. queue' \in Seq(Messages(E)) /\ Len(queue') <= QueueCapacity
    <3>1. CASE worker = "exited"
      BY <1>6, <3>1 DEF TypeInv, CloseSendShutdown
    <3>2. CASE worker # "exited"
      <4>1. queue' = Append(queue, Shutdown) /\ Len(queue) < QueueCapacity
        BY <1>6, <3>2 DEF CloseSendShutdown
      <4>2. queue' \in Seq(Messages(E)) /\ Len(queue') = Len(queue) + 1 /\ Len(queue) \in Nat
        BY <2>2, <4>1, AppendProperties, LenProperties DEF TypeInv
      <4>3. QED
        BY <4>1, <4>2, AsyncAssumption
    <3>3. QED
      BY <3>1, <3>2
  <2>4. QED
    BY <1>6, <2>1, <2>3 DEF TypeInv, CloseSendShutdown, workers, history
<1>7. ASSUME CloseJoin(t) PROVE TypeInv(E)'
  <2>1. /\ pc' \in [Threads -> Labels] /\ record' \in [Threads -> E \cup {None}]
        /\ \A u \in Threads : pc'[u] \in {"load_closed", "try_send", "store_accepted"} => record'[u] \in E
    BY <1>1, <1>7 DEF CloseJoin
  <2>2. QED
    BY <1>7, <2>1 DEF TypeInv, CloseJoin, shared, workers
<1>8. QED
  BY <1>2, <1>3, <1>4, <1>5, <1>6, <1>7 DEF Call

LEMMA WorkerType ==
  ASSUME NEW E, TypeInv(E), Worker
  PROVE  TypeInv(E)'
<1>1. ASSUME queue # <<>>
      PROVE  /\ Tail(queue) \in Seq(Messages(E)) /\ Len(Tail(queue)) <= QueueCapacity
             /\ Head(queue) # Shutdown => /\ Head(queue).entry \in E
                                          /\ Head(queue).entry.sequence \in SequencesOf(E)
  <2>1. /\ Head(queue) \in Messages(E) /\ Tail(queue) \in Seq(Messages(E))
        /\ Len(Tail(queue)) = Len(queue) - 1 /\ Len(queue) \in Nat
    BY <1>1, HeadTailProperties, LenProperties DEF TypeInv
  <2>2. Len(Tail(queue)) <= QueueCapacity
    BY <2>1, AsyncAssumption DEF TypeInv
  <2>3. ASSUME Head(queue) # Shutdown PROVE Head(queue).entry \in E
    BY <2>1, <2>3, AppendIsNoShutdown DEF Messages
  <2>4. QED
    BY <2>1, <2>2, <2>3 DEF SequencesOf
<1>2. ASSUME NEW e \in E, Len(batch) < BatchSize
      PROVE  Append(batch, e) \in Seq(E) /\ Len(Append(batch, e)) <= BatchSize
  <2>1. Append(batch, e) \in Seq(E) /\ Len(Append(batch, e)) = Len(batch) + 1 /\ Len(batch) \in Nat
    BY AppendProperties, LenProperties DEF TypeInv
  <2>2. QED
    BY <1>2, <2>1, AsyncAssumption
<1>3. ASSUME batch # <<>> PROVE Tail(batch) \in Seq(E) /\ Len(Tail(batch)) <= BatchSize
  <2>1. Tail(batch) \in Seq(E) /\ Len(Tail(batch)) = Len(batch) - 1 /\ Len(batch) \in Nat
    BY <1>3, HeadTailProperties, LenProperties DEF TypeInv
  <2>2. QED
    BY <2>1, AsyncAssumption DEF TypeInv
<1>4. \A e \in E : <<e>> \in Seq(E) /\ Len(<<e>>) <= BatchSize
  <2>1. \A e \in E : <<e>> \in Seq(E) /\ Len(<<e>>) = 1
    OBVIOUS
  <2>2. 1 <= BatchSize
    BY AsyncAssumption
  <2>3. QED
    BY <2>1, <2>2
<1>5. ASSUME Recv PROVE TypeInv(E)'
  <2>1. CASE Head(queue) = Shutdown
    BY <1>1, <1>5, <2>1 DEF TypeInv, Recv, calls, history
  <2>2. CASE Head(queue) # Shutdown
    <3>1. /\ queue # <<>> /\ queue' = Tail(queue) /\ worker' = "drain" /\ batch' = <<Head(queue).entry>>
          /\ last_sequence' = Head(queue).entry.sequence
          /\ UNCHANGED <<accepted, durable, degraded, closed, should_exit, file, calls, history>>
      BY <1>5, <2>2 DEF Recv
    <3>2. batch' \in Seq(E) /\ Len(batch') <= BatchSize
      BY <1>1, <1>4, <2>2, <3>1
    <3>3. QED
      BY <1>1, <2>2, <3>1, <3>2 DEF TypeInv, calls, history
  <2>3. QED
    BY <2>1, <2>2
<1>6. ASSUME Drain PROVE TypeInv(E)'
  <2>1. CASE Head(queue) = Shutdown
    BY <1>1, <1>6, <2>1 DEF TypeInv, Drain, calls, history
  <2>2. CASE Head(queue) # Shutdown
    <3>1. /\ queue # <<>> /\ queue' = Tail(queue) /\ batch' = Append(batch, Head(queue).entry)
          /\ last_sequence' = Head(queue).entry.sequence /\ Len(batch) < BatchSize
          /\ UNCHANGED <<worker, accepted, durable, degraded, closed, should_exit, file, calls, history>>
      BY <1>6, <2>2 DEF Drain
    <3>2. batch' \in Seq(E) /\ Len(batch') <= BatchSize
      BY <1>1, <1>2, <2>2, <3>1
    <3>3. QED
      BY <1>1, <2>2, <3>1, <3>2 DEF TypeInv, calls, history
  <2>3. QED
    BY <2>1, <2>2
<1>7. ASSUME DrainEnds PROVE TypeInv(E)'
  BY <1>7 DEF TypeInv, DrainEnds, shared, calls, history
<1>8. ASSUME WriteRecord PROVE TypeInv(E)'
  BY <1>3, <1>8 DEF TypeInv, WriteRecord, shared, calls, history
<1>9. ASSUME WriteFails PROVE TypeInv(E)'
  BY <1>9 DEF TypeInv, WriteFails, calls, history
<1>10. ASSUME PublishDurable PROVE TypeInv(E)'
  BY <1>10 DEF TypeInv, PublishDurable, calls, history
<1>11. ASSUME Exit PROVE TypeInv(E)'
  <2>1. <<>> \in Seq(Messages(E)) /\ Len(<<>>) = 0 /\ 0 <= QueueCapacity
    BY AsyncAssumption
  <2>2. QED
    BY <1>11, <2>1 DEF TypeInv, Exit, calls, history
<1>12. QED
  BY <1>5, <1>6, <1>7, <1>8, <1>9, <1>10, <1>11 DEF Worker

LEMMA TypeStep == \A E : TypeInv(E) /\ JournalNext(E) => TypeInv(E)'
<1> SUFFICES ASSUME NEW E, TypeInv(E), JournalNext(E) PROVE TypeInv(E)'
  OBVIOUS
<1>1. CASE UNCHANGED vars
  BY <1>1 DEF TypeInv, vars, shared, workers, calls, history
<1>2. QED
  BY <1>1, BeginType, CallType, WorkerType DEF JournalNext
-----------------------------------------------------------------------------
\* The queue holds the entries of the log that come next, in its order.
QueueInv ==
  /\ Taken \in 0 .. Len(sent)
  /\ OneShutdown(queue)
  /\ \A i \in 1 .. Len(queue) : queue[i] # Shutdown => queue[i].entry = sent[Position(i)]
  /\ worker = "exited" => queue = <<>>

\* The batch holds those before them.
BatchInv ==
  /\ worker = "recv" => batch = <<>>
  /\ worker # "exited" =>
       /\ Len(batch) <= Taken
       /\ \A i \in 1 .. Len(batch) : batch[i] = sent[Taken - Len(batch) + i]
  /\ worker \in {"drain", "write"} => Taken >= 1 /\ last_sequence = sent[Taken].sequence

\* A failed write and a Shutdown end the worker, and nothing else does.
EndInv ==
  /\ degraded => worker \in {"leaving", "exited"}
  /\ should_exit => worker \in {"write", "leaving", "exited"}
  /\ ~degraded /\ worker \in {"leaving", "exited"} => batch = <<>>
  /\ joined => worker = "exited"

\* The cells of the records that may be written.
Cells(E) == UNION {RecordCells(e.sequence, e.command) : e \in E}

InFile == Scan(file).entries

\* How many entries of this journal are in a file that began with the entries of start.
Stored(start) == Len(InFile) - Len(start)

\* The file: what it began with, then the log up to the batch.
FileInv(E, start) ==
  /\ file \in Seq(Cells(E))
  /\ degraded \/ Whole(file)
  /\ Stored(start) \in 0 .. Len(sent)
  /\ InFile = start \o SubSeq(sent, 1, Stored(start))
  /\ worker # "exited" => Stored(start) = Taken - Len(batch)

SentUpTo(n, e) == \E k \in 1 .. n : sent[k] = e

\* No Shutdown was sent: nothing but a failed write ends the worker.
StillOpen ==
  /\ \A i \in 1 .. Len(queue) : queue[i] # Shutdown
  /\ ~should_exit
  /\ worker \in {"leaving", "exited"} => degraded

\* One call closes the journal.
CloserInv ==
  /\ \A t, u \in Threads : pc[t] \in {"send_shutdown", "join"} /\ pc[u] \in {"send_shutdown", "join"} => t = u
  /\ \A t \in Threads : pc[t] \in {"send_shutdown", "join"} => closed
  /\ ~closed \/ (\E t \in Threads : pc[t] = "send_shutdown") => StillOpen

\* What was acknowledged was sent.
AckedInv ==
  /\ \A t \in Threads : pc[t] = "store_accepted" => SentUpTo(Len(sent), record[t])
  /\ \A e \in acked \cup acked_at_close : SentUpTo(Len(sent), e)

\* What was acknowledged before close is in front of the Shutdown, then in the last batch
\* or in the file.
AheadInv(start) ==
  /\ \A i \in 1 .. Len(queue) : queue[i] = Shutdown =>
       \A e \in acked_at_close : SentUpTo(Position(i), e)
  /\ ~degraded /\ (should_exit \/ worker \in {"leaving", "exited"}) =>
       \A e \in acked_at_close : SentUpTo(Stored(start) + Len(batch), e)

CloseInv(start) == CloserInv /\ AckedInv /\ AheadInv(start)
-----------------------------------------------------------------------------
-----------------------------------------------------------------------------
\* The queue and the log, after an entry was sent.
LEMMA SentQueue ==
  ASSUME NEW E, TypeInv(E), QueueInv, worker # "exited", NEW e \in E,
         queue' = Append(queue, AppendRecord(e)), sent' = Append(sent, e), worker' = worker
  PROVE  /\ QueueInv' /\ Taken' = Taken
         /\ Len(sent') = Len(sent) + 1 /\ Len(sent) \in Nat
         /\ \A k \in 1 .. Len(sent) : sent'[k] = sent[k]
         /\ sent'[Len(sent) + 1] = e
         /\ Len(queue') = Len(queue) + 1 /\ Len(queue) \in Nat
         /\ queue'[Len(queue) + 1] # Shutdown
         /\ \A i \in 1 .. Len(queue) : queue'[i] = queue[i] /\ Position(i)' = Position(i)
<1> DEFINE m == AppendRecord(e)
           n == Len(sent)
<1>1. m \in Messages(E) /\ m # Shutdown /\ m.entry = e
  BY AppendIsNoShutdown DEF Messages
<1>2. /\ Len(sent') = n + 1 /\ n \in Nat
      /\ \A k \in 1 .. n : sent'[k] = sent[k]
      /\ sent'[n + 1] = e
  BY AppendProperties, LenProperties DEF TypeInv
<1> HIDE DEF m
<1>3. queue \in Seq(Messages(E)) /\ queue' = Append(queue, m)
  BY DEF TypeInv, m
<1>4. /\ queue' \in Seq(Messages(E)) /\ Len(queue') = Len(queue) + 1 /\ Len(queue) \in Nat
      /\ \A i \in 1 .. Len(queue) : queue'[i] = queue[i]
      /\ queue'[Len(queue) + 1] = m
  BY <1>1, <1>3, AppendProperties, LenProperties
<1> HIDE DEF n
<1>5. /\ \A i \in 0 .. Len(queue) : Place(queue', n + 1, i) = Place(queue, n, i)
      /\ Place(queue', n + 1, Len(queue) + 1) = n + 1
  <2> DEFINE M == Messages(E)
             q == queue
  <2>1. q \in Seq(M) /\ n \in Nat /\ m \in M /\ m # Shutdown
    BY <1>1, <1>2, <1>3
  <2> HIDE DEF M, q
  <2>2. /\ \A i \in 0 .. Len(q) : Place(Append(q, m), n + 1, i) = Place(q, n, i)
        /\ Place(Append(q, m), n + 1, Len(q) + 1) = n + 1
    BY <2>1, PlaceAfterSend
  <2>3. QED
    BY <1>3, <2>2 DEF q
<1>6. \A i \in 0 .. Len(queue) : Position(i)' = Position(i)
  BY <1>2, <1>5 DEF Position, n
<1>7. \A i : i = Len(queue) + 1 => Position(i)' = n + 1
  BY <1>2, <1>5 DEF Position, n
<1>8. Taken' = Taken
  <2>1. 0 \in 0 .. Len(queue)
    BY <1>4
  <2>2. QED
    BY <1>6, <2>1 DEF Taken
<1>9. Taken' \in 0 .. Len(sent')
  BY <1>2, <1>8 DEF QueueInv, n
<1>10. \A i \in 1 .. Len(queue') : i \in 1 .. Len(queue) \/ i = Len(queue) + 1
  BY <1>4
<1>11. OneShutdown(queue')
  BY <1>1, <1>4, <1>10 DEF QueueInv, OneShutdown
<1>12. ASSUME NEW i \in 1 .. Len(queue'), queue'[i] # Shutdown
       PROVE  queue'[i].entry = sent'[Position(i)']
  <2>1. CASE i = Len(queue) + 1
    BY <1>1, <1>2, <1>4, <1>7, <2>1 DEF n
  <2>2. CASE i # Len(queue) + 1
    <3>1. i \in 1 .. Len(queue) /\ i \in 0 .. Len(queue)
      BY <1>4, <1>10, <2>2
    <3>2. queue[i] # Shutdown /\ queue'[i] = queue[i] /\ Position(i)' = Position(i)
      BY <1>4, <1>6, <1>12, <3>1
    <3>3. queue[i].entry = sent[Position(i)]
      BY <3>1, <3>2 DEF QueueInv
    <3>4. Position(i) \in 1 .. n
      <4>1. Place(queue, n, 0) >= 0
        BY <1>2 DEF QueueInv, Taken, Position, n
      <4>2. QED
        BY <1>2, <1>3, <3>1, <3>2, <4>1, PlaceOfAppend DEF Position, n
    <3>5. QED
      BY <1>2, <3>2, <3>3, <3>4
  <2>3. QED
    BY <2>1, <2>2
<1>13. QueueInv'
  BY <1>9, <1>11, <1>12 DEF QueueInv
<1>14. QED
  BY <1>1, <1>2, <1>4, <1>6, <1>8, <1>13 DEF n

\* The queue, after the Shutdown was sent.
LEMMA ClosedQueue ==
  ASSUME NEW E, TypeInv(E), QueueInv, worker # "exited",
         \A i \in 1 .. Len(queue) : queue[i] # Shutdown,
         queue' = Append(queue, Shutdown), sent' = sent, worker' = worker
  PROVE  /\ QueueInv' /\ Taken' = Taken
         /\ Len(queue') = Len(queue) + 1 /\ Len(queue) \in Nat
         /\ queue'[Len(queue) + 1] = Shutdown
         /\ \A i \in 1 .. Len(queue) : queue'[i] = queue[i] /\ Position(i)' = Position(i)
         /\ \A i : i = Len(queue) + 1 => Position(i)' = Len(sent)
<1> DEFINE n == Len(sent)
<1>1. Shutdown \in Messages(E) /\ queue \in Seq(Messages(E)) /\ n \in Nat /\ n = Len(sent)
  BY LenProperties DEF Messages, TypeInv
<1>2. /\ queue' \in Seq(Messages(E)) /\ Len(queue') = Len(queue) + 1 /\ Len(queue) \in Nat
      /\ \A i \in 1 .. Len(queue) : queue'[i] = queue[i]
      /\ queue'[Len(queue) + 1] = Shutdown
  BY <1>1, AppendProperties, LenProperties
<1> HIDE DEF n
<1>3. /\ \A i \in 0 .. Len(queue) : Place(queue', n, i) = Place(queue, n, i)
      /\ Place(queue', n, Len(queue) + 1) = n
  BY <1>1, PlaceAfterShutdown
<1>4. \A i \in 0 .. Len(queue) : Position(i)' = Position(i)
  BY <1>3 DEF Position, n
<1>5. \A i : i = Len(queue) + 1 => Position(i)' = n
  BY <1>3 DEF Position, n
<1>6. Taken' = Taken
  <2>1. 0 \in 0 .. Len(queue)
    BY <1>2
  <2>2. QED
    BY <1>4, <2>1 DEF Taken
<1>7. \A i \in 1 .. Len(queue') : i \in 1 .. Len(queue) \/ i = Len(queue) + 1
  BY <1>2
<1>8. OneShutdown(queue')
  BY <1>2, <1>7 DEF OneShutdown
<1>9. ASSUME NEW i \in 1 .. Len(queue'), queue'[i] # Shutdown
      PROVE  queue'[i].entry = sent[Position(i)']
  <2>1. i \in 1 .. Len(queue)
    BY <1>2, <1>7, <1>9
  <2>2. i \in 0 .. Len(queue)
    BY <1>2, <2>1
  <2>3. queue[i] # Shutdown /\ queue'[i] = queue[i] /\ Position(i)' = Position(i)
    BY <1>2, <1>4, <1>9, <2>1, <2>2
  <2>4. QED
    BY <2>1, <2>3 DEF QueueInv
<1>10. QueueInv'
  BY <1>6, <1>8, <1>9 DEF QueueInv
<1>11. \A i \in 1 .. Len(queue) : i \in 0 .. Len(queue)
  BY <1>2
<1>12. QED
  BY <1>2, <1>4, <1>5, <1>6, <1>10, <1>11 DEF n

\* The queue, after the worker took a message.
LEMMA TakenQueue ==
  ASSUME NEW E, TypeInv(E), QueueInv, queue # <<>>,
         queue' = Tail(queue), sent' = sent, worker' # "exited"
  PROVE  /\ QueueInv'
         /\ Head(queue) # Shutdown => /\ Taken' = Taken + 1
                                      /\ Head(queue).entry = sent[Taken + 1]
         /\ Head(queue) = Shutdown => /\ Taken' = Taken /\ Position(1) = Taken
                                      /\ \A i \in 1 .. Len(queue') : queue'[i] # Shutdown
         /\ 1 \in 1 .. Len(queue) /\ Head(queue) = queue[1]
         /\ \A i \in 1 .. Len(queue') : /\ queue'[i] = queue[i + 1] /\ i + 1 \in 1 .. Len(queue)
                                        /\ Position(i)' = Position(i + 1)
<1> DEFINE n == Len(sent)
           q == queue
           r == Tail(queue)
<1>1. q \in Seq(Messages(E)) /\ n \in Nat /\ q # <<>> /\ OneShutdown(q)
  BY LenProperties DEF QueueInv, TypeInv
<1> HIDE DEF n, q
<1>2. /\ Len(q) >= 1 /\ Head(q) = q[1] /\ Tail(q) \in Seq(Messages(E)) /\ Len(Tail(q)) = Len(q) - 1
      /\ \A i \in 1 .. Len(Tail(q)) : Tail(q)[i] = q[i + 1] /\ i + 1 \in 1 .. Len(q)
      /\ \A i \in 0 .. Len(Tail(q)) : Place(Tail(q), n, i) = Place(q, n, i + 1)
      /\ q[1] # Shutdown => Place(q, n, 1) = Place(q, n, 0) + 1
      /\ q[1] = Shutdown => /\ Place(q, n, 1) = Place(q, n, 0)
                            /\ \A i \in 1 .. Len(Tail(q)) : Tail(q)[i] # Shutdown
  BY <1>1, PlaceAfterTake
<1>3. Len(q) \in Nat
  BY <1>1, LenProperties
<1>4. /\ Len(queue) >= 1 /\ Head(queue) = queue[1] /\ r \in Seq(Messages(E)) /\ Len(r) = Len(queue) - 1
      /\ \A i \in 1 .. Len(r) : r[i] = queue[i + 1] /\ i + 1 \in 1 .. Len(queue)
      /\ queue[1] = Shutdown => \A i \in 1 .. Len(r) : r[i] # Shutdown
      /\ Len(queue) \in Nat
  BY <1>2, <1>3 DEF q
<1>5. \A i \in 0 .. Len(r) : Position(i)' = Position(i + 1)
  BY <1>2 DEF Position, n, q
<1>6. /\ queue[1] # Shutdown => Position(1) = Taken + 1
      /\ queue[1] = Shutdown => Position(1) = Taken
  BY <1>2 DEF Position, Taken, n, q
<1> HIDE DEF r
<1>7. Taken' = Position(1)
  <2>1. 0 \in 0 .. Len(r) /\ 0 + 1 = 1
    BY <1>4
  <2>2. Position(0)' = Position(0 + 1)
    BY <1>5, <2>1
  <2>3. QED
    BY <2>1, <2>2 DEF Taken
<1>8. Taken' \in 0 .. Len(sent')
  <2>1. CASE queue[1] = Shutdown
    BY <1>6, <1>7, <2>1 DEF QueueInv
  <2>2. CASE queue[1] # Shutdown
    <3>1. Place(q, n, 0) >= 0 /\ 1 \in 1 .. Len(q) /\ q[1] # Shutdown
      BY <1>4, <2>2 DEF QueueInv, Taken, Position, n, q
    <3>2. Place(q, n, 1) \in 1 .. n
      BY <1>1, <3>1, PlaceOfAppend
    <3>3. QED
      BY <1>1, <1>7, <3>2 DEF Position, n, q
  <2>3. QED
    BY <2>1, <2>2
<1>9. OneShutdown(queue')
  <2>1. \A i, j \in 1 .. Len(r) : i + 1 = j + 1 => i = j
    BY <1>4
  <2>2. \A i, j \in 1 .. Len(r) : r[i] = Shutdown /\ r[j] = Shutdown => i + 1 = j + 1
    BY <1>4 DEF QueueInv, OneShutdown
  <2>3. QED
    BY <2>1, <2>2 DEF OneShutdown, r
<1>10. ASSUME NEW i \in 1 .. Len(r) PROVE Position(i)' = Position(i + 1)
  <2>1. i \in 0 .. Len(r)
    BY <1>4
  <2>2. QED
    BY <1>5, <2>1
<1>11. ASSUME NEW i \in 1 .. Len(r), r[i] # Shutdown PROVE r[i].entry = sent[Position(i)']
  <2>1. r[i] = queue[i + 1] /\ i + 1 \in 1 .. Len(queue)
    BY <1>4
  <2>2. queue[i + 1].entry = sent[Position(i + 1)]
    BY <1>11, <2>1 DEF QueueInv
  <2>3. QED
    BY <1>10, <2>1, <2>2
<1>12. QueueInv'
  BY <1>8, <1>9, <1>11 DEF QueueInv, r
<1>13. Head(queue) # Shutdown => Head(queue).entry = sent[Taken + 1]
  <2>1. 1 \in 1 .. Len(queue)
    BY <1>4
  <2>2. QED
    BY <1>4, <1>6, <2>1 DEF QueueInv
<1>14. 1 \in 1 .. Len(queue)
  BY <1>4
<1>15. QED
  BY <1>4, <1>6, <1>7, <1>10, <1>12, <1>13, <1>14 DEF r

-----------------------------------------------------------------------------
OrderInv == QueueInv /\ BatchInv /\ EndInv

LEMMA OrderUntouched ==
  ASSUME OrderInv, UNCHANGED <<queue, sent, workers, degraded, joined>>
  PROVE  OrderInv' /\ Taken' = Taken
BY DEF OrderInv, QueueInv, BatchInv, EndInv, Taken, Position, workers

LEMMA BeginOrder ==
  ASSUME NEW E, OrderInv, NEW t, Begin(E, t)
  PROVE  OrderInv' /\ Taken' = Taken
<1>1. UNCHANGED <<queue, sent, workers, degraded, joined>>
  <2>1. ASSUME NEW e, AppendBegin(t, e) PROVE UNCHANGED <<queue, sent, workers, degraded, joined>>
    BY <2>1 DEF AppendBegin, shared, history
  <2>2. ASSUME Close(t) PROVE UNCHANGED <<queue, sent, workers, degraded, joined>>
    BY <2>2 DEF Close
  <2>3. ASSUME CloseAgain(t) PROVE UNCHANGED <<queue, sent, workers, degraded, joined>>
    BY <2>3 DEF CloseAgain, vars, shared, history
  <2>4. QED
    BY <2>1, <2>2, <2>3 DEF Begin
<1>2. QED
  BY <1>1, OrderUntouched

LEMMA TrySendOrder ==
  ASSUME NEW E, TypeInv(E), OrderInv, NEW t \in Threads, AppendTrySend(t)
  PROVE  OrderInv' /\ Taken' = Taken
<1>1. /\ worker # "exited" /\ queue' = Append(queue, AppendRecord(record[t]))
      /\ sent' = Append(sent, record[t]) /\ record[t] \in E
      /\ UNCHANGED <<workers, degraded, joined>> /\ worker' = worker
  BY DEF AppendTrySend, TypeInv, workers
<1>2. /\ QueueInv' /\ Taken' = Taken /\ Len(sent) \in Nat
      /\ \A k \in 1 .. Len(sent) : sent'[k] = sent[k]
  BY <1>1, SentQueue DEF OrderInv
<1>3. BatchInv'
  <2>1. batch \in Seq(E) /\ Len(batch) \in Nat /\ Taken \in 0 .. Len(sent)
    BY LenProperties DEF TypeInv, OrderInv, QueueInv
  <2>2. /\ worker = "recv" => batch = <<>>
        /\ Len(batch) <= Taken
        /\ \A i \in 1 .. Len(batch) : batch[i] = sent[Taken - Len(batch) + i]
        /\ worker \in {"drain", "write"} => Taken >= 1 /\ last_sequence = sent[Taken].sequence
    BY <1>1 DEF OrderInv, BatchInv
  <2> HIDE DEF Taken
  <2>3. \A i \in 1 .. Len(batch) : Taken - Len(batch) + i \in 1 .. Len(sent)
    BY <1>2, <2>1, <2>2
  <2>4. \A i \in 1 .. Len(batch) : batch[i] = sent'[Taken - Len(batch) + i]
    BY <1>2, <2>2, <2>3
  <2>5. worker \in {"drain", "write"} => Taken >= 1 /\ last_sequence = sent'[Taken].sequence
    BY <1>2, <2>1, <2>2
  <2>6. QED
    BY <1>1, <1>2, <2>2, <2>4, <2>5 DEF BatchInv, workers
<1>4. EndInv'
  BY <1>1 DEF OrderInv, EndInv, workers
<1>5. QED
  BY <1>2, <1>3, <1>4 DEF OrderInv

LEMMA CallOrder ==
  ASSUME NEW E, TypeInv(E), OrderInv, NEW t \in Threads, Call(t),
         pc[t] = "send_shutdown" => \A i \in 1 .. Len(queue) : queue[i] # Shutdown
  PROVE  OrderInv' /\ Taken' = Taken
<1>1. ASSUME AppendLoadClosed(t) \/ AppendRefused(t) \/ AppendStoreAccepted(t)
      PROVE  OrderInv' /\ Taken' = Taken
  <2>1. UNCHANGED <<queue, sent, workers, degraded, joined>>
    BY <1>1 DEF AppendLoadClosed, AppendRefused, AppendStoreAccepted, shared, history
  <2>2. QED
    BY <2>1, OrderUntouched
<1>2. ASSUME CloseSendShutdown(t) PROVE OrderInv' /\ Taken' = Taken
  <2>1. UNCHANGED <<sent, workers, degraded, joined>> /\ worker' = worker
    BY <1>2 DEF CloseSendShutdown, workers, history
  <2>2. CASE worker = "exited"
    <3>1. queue' = queue
      BY <1>2, <2>2 DEF CloseSendShutdown
    <3>2. QED
      BY <2>1, <3>1, OrderUntouched
  <2>3. CASE worker # "exited"
    <3>1. queue' = Append(queue, Shutdown) /\ \A i \in 1 .. Len(queue) : queue[i] # Shutdown
      BY <1>2, <2>3 DEF CloseSendShutdown
    <3>2. QueueInv' /\ Taken' = Taken
      BY <2>1, <2>3, <3>1, ClosedQueue DEF OrderInv
    <3>3. BatchInv'
      BY <2>1, <3>2 DEF OrderInv, BatchInv, workers
    <3>4. EndInv'
      BY <2>1 DEF OrderInv, EndInv, workers
    <3>5. QED
      BY <3>2, <3>3, <3>4 DEF OrderInv
  <2>4. QED
    BY <2>2, <2>3
<1>3. ASSUME CloseJoin(t) PROVE OrderInv' /\ Taken' = Taken
  <2>1. UNCHANGED <<queue, sent, workers, degraded>> /\ worker = "exited" /\ joined' = TRUE
    BY <1>3 DEF CloseJoin, shared
  <2>2. QueueInv' /\ BatchInv' /\ Taken' = Taken
    BY <2>1 DEF OrderInv, QueueInv, BatchInv, Taken, Position, workers
  <2>3. EndInv'
    BY <2>1 DEF OrderInv, EndInv, workers
  <2>4. QED
    BY <2>2, <2>3 DEF OrderInv
<1>4. QED
  BY <1>1, <1>2, <1>3, TrySendOrder DEF Call

LEMMA RecvOrder ==
  ASSUME NEW E, TypeInv(E), OrderInv, Recv
  PROVE  OrderInv' /\ (Taken - Len(batch))' = Taken - Len(batch)
<1>1. /\ worker = "recv" /\ queue # <<>> /\ queue' = Tail(queue) /\ batch = <<>>
      /\ UNCHANGED <<sent, degraded, should_exit, joined>>
      /\ Taken \in 0 .. Len(sent) /\ Len(sent) \in Nat
  BY LenProperties DEF Recv, history, OrderInv, QueueInv, BatchInv, TypeInv
<1>2. worker' # "exited"
  BY DEF Recv
<1>3. /\ QueueInv'
      /\ Head(queue) # Shutdown => Taken' = Taken + 1 /\ Head(queue).entry = sent[Taken + 1]
      /\ Head(queue) = Shutdown => Taken' = Taken
  BY <1>1, <1>2, TakenQueue DEF OrderInv
<1>4. CASE Head(queue) = Shutdown
  <2>1. worker' = "leaving" /\ UNCHANGED <<batch, last_sequence>>
    BY <1>4 DEF Recv
  <2>2. BatchInv'
    BY <1>1, <1>3, <1>4, <2>1 DEF OrderInv, BatchInv
  <2>3. EndInv'
    BY <1>1, <2>1 DEF OrderInv, EndInv
  <2>4. QED
    BY <1>3, <1>4, <2>1, <2>2, <2>3 DEF OrderInv
<1>5. CASE Head(queue) # Shutdown
  <2>1. /\ worker' = "drain" /\ batch' = <<Head(queue).entry>>
        /\ last_sequence' = Head(queue).entry.sequence
    BY <1>5 DEF Recv
  <2>2. Len(batch') = 1 /\ batch'[1] = sent[Taken + 1] /\ Len(batch) = 0
    BY <1>1, <1>3, <1>5, <2>1
  <2>3. Taken' = Taken + 1 /\ last_sequence' = sent'[Taken']
          .sequence
    BY <1>1, <1>3, <1>5, <2>1
  <2> HIDE DEF Taken
  <2>4. /\ Len(batch') <= Taken' /\ Taken' >= 1
        /\ \A i \in 1 .. Len(batch') : batch'[i] = sent'[Taken' - Len(batch') + i]
    <3>1. Taken' - 1 + 1 = Taken + 1 /\ 1 <= Taken' /\ \A i \in 1 .. 1 : i = 1
      BY <1>1, <2>3
    <3>2. QED
      BY <1>1, <2>2, <2>3, <3>1
  <2>5. BatchInv'
    BY <2>1, <2>3, <2>4 DEF BatchInv
  <2>6. EndInv'
    BY <1>1, <2>1 DEF OrderInv, EndInv
  <2>7. Taken' - Len(batch') = Taken - Len(batch)
    BY <1>1, <2>2, <2>3
  <2>8. QED
    BY <1>3, <2>5, <2>6, <2>7 DEF OrderInv
<1>6. QED
  BY <1>4, <1>5

LEMMA DrainOrder ==
  ASSUME NEW E, TypeInv(E), OrderInv, Drain
  PROVE  OrderInv' /\ (Taken - Len(batch))' = Taken - Len(batch)
<1>1. /\ worker = "drain" /\ queue # <<>> /\ queue' = Tail(queue)
      /\ UNCHANGED <<sent, degraded, joined>>
      /\ Taken \in 0 .. Len(sent) /\ Len(sent) \in Nat
      /\ batch \in Seq(E) /\ Len(batch) \in Nat /\ Len(batch) <= Taken
      /\ \A i \in 1 .. Len(batch) : batch[i] = sent[Taken - Len(batch) + i]
  BY LenProperties DEF Drain, history, OrderInv, QueueInv, BatchInv, TypeInv
<1>2. worker' # "exited"
  BY DEF Drain
<1>3. /\ QueueInv'
      /\ Head(queue) # Shutdown => Taken' = Taken + 1 /\ Head(queue).entry = sent[Taken + 1]
      /\ Head(queue) = Shutdown => Taken' = Taken
  BY <1>1, <1>2, TakenQueue DEF OrderInv
<1>4. CASE Head(queue) = Shutdown
  <2>1. worker' = "write" /\ should_exit' = TRUE /\ UNCHANGED <<batch, last_sequence>>
    BY <1>4 DEF Drain
  <2>2. BatchInv'
    BY <1>1, <1>3, <1>4, <2>1 DEF OrderInv, BatchInv
  <2>3. EndInv'
    BY <1>1, <2>1 DEF OrderInv, EndInv
  <2>4. QED
    BY <1>3, <1>4, <2>1, <2>2, <2>3 DEF OrderInv
<1>5. CASE Head(queue) # Shutdown
  <2> DEFINE e == Head(queue).entry
  <2>1. /\ worker' = worker /\ should_exit' = should_exit /\ batch' = Append(batch, e)
        /\ last_sequence' = e.sequence
    BY <1>5 DEF Drain
  <2>2. e = sent[Taken + 1] /\ Taken' = Taken + 1
    BY <1>3, <1>5
  <2>3. e \in E
    <3>1. Head(queue) \in Messages(E)
      BY <1>1, HeadTailProperties DEF TypeInv
    <3>2. QED
      BY <1>5, <3>1, AppendIsNoShutdown DEF Messages
  <2> HIDE DEF e
  <2>4. /\ Len(batch') = Len(batch) + 1 /\ batch'[Len(batch) + 1] = e
        /\ \A i \in 1 .. Len(batch) : batch'[i] = batch[i]
    BY <1>1, <2>1, <2>3, AppendProperties
  <2> HIDE DEF Taken
  <2>5. Taken' - Len(batch') = Taken - Len(batch) /\ Len(batch') <= Taken' /\ Taken' >= 1
    BY <1>1, <2>2, <2>4
  <2>6. ASSUME NEW i \in 1 .. Len(batch') PROVE batch'[i] = sent'[Taken' - Len(batch') + i]
    <3>1. CASE i = Len(batch) + 1
      <4>1. Taken - Len(batch) + i = Taken + 1
        BY <1>1, <3>1
      <4>2. QED
        BY <1>1, <2>2, <2>4, <2>5, <3>1, <4>1
    <3>2. CASE i # Len(batch) + 1
      <4>1. i \in 1 .. Len(batch)
        BY <1>1, <2>4, <3>2
      <4>2. QED
        BY <1>1, <2>4, <2>5, <4>1
    <3>3. QED
      BY <3>1, <3>2
  <2>7. BatchInv'
    <3>1. last_sequence' = sent'[Taken'].sequence
      BY <1>1, <2>1, <2>2
    <3>2. QED
      BY <1>1, <2>1, <2>5, <2>6, <3>1 DEF BatchInv
  <2>8. EndInv'
    BY <1>1, <2>1 DEF OrderInv, EndInv
  <2>9. QED
    BY <1>3, <2>5, <2>7, <2>8 DEF OrderInv
<1>6. QED
  BY <1>4, <1>5

LEMMA WriteOrder ==
  ASSUME NEW E, TypeInv(E), OrderInv, WriteRecord
  PROVE  /\ OrderInv' /\ Taken' = Taken /\ Len(batch') = Len(batch) - 1
         /\ Taken - Len(batch) + 1 \in 1 .. Len(sent)
         /\ Head(batch) = sent[Taken - Len(batch) + 1] /\ Head(batch) \in E
<1>1. /\ worker = "write" /\ worker' = worker /\ batch # <<>> /\ batch' = Tail(batch)
      /\ UNCHANGED <<queue, sent, degraded, should_exit, last_sequence, joined>>
      /\ Taken \in 0 .. Len(sent) /\ Len(sent) \in Nat
      /\ batch \in Seq(E) /\ Len(batch) <= Taken
      /\ \A i \in 1 .. Len(batch) : batch[i] = sent[Taken - Len(batch) + i]
  BY LenProperties DEF WriteRecord, shared, history, OrderInv, QueueInv, BatchInv, TypeInv
<1>2. /\ Len(batch) \in Nat /\ Len(batch) >= 1 /\ Head(batch) = batch[1] /\ Head(batch) \in E
      /\ Len(batch') = Len(batch) - 1
      /\ \A i \in 1 .. Len(batch') : batch'[i] = batch[i + 1]
  <2>1. Len(batch) \in Nat /\ Len(batch) # 0
    BY <1>1, LenProperties, EmptySeq
  <2>2. QED
    BY <1>1, <2>1, HeadTailProperties
<1>3. Taken' = Taken
  BY <1>1 DEF Taken, Position
<1>4. QueueInv'
  BY <1>1, <1>3 DEF OrderInv, QueueInv, Position
<1> HIDE DEF Taken
<1>5. 1 \in 1 .. Len(batch) /\ Taken - Len(batch) + 1 \in 1 .. Len(sent) /\ Len(batch') <= Taken'
  BY <1>1, <1>2, <1>3
<1>6. ASSUME NEW i \in 1 .. Len(batch') PROVE batch'[i] = sent'[Taken' - Len(batch') + i]
  <2>1. i + 1 \in 1 .. Len(batch) /\ Taken - Len(batch) + (i + 1) = Taken - Len(batch') + i
    BY <1>1, <1>2
  <2>2. QED
    BY <1>1, <1>2, <1>3, <2>1
<1>7. BatchInv'
  BY <1>1, <1>3, <1>5, <1>6 DEF OrderInv, BatchInv
<1>8. EndInv'
  BY <1>1 DEF OrderInv, EndInv
<1>9. QED
  BY <1>1, <1>2, <1>3, <1>4, <1>5, <1>7, <1>8 DEF OrderInv

\* The steps of the worker that leave queue and batch as they are.
LEMMA TurnOrder ==
  ASSUME OrderInv, DrainEnds \/ WriteFails \/ PublishDurable
  PROVE  OrderInv' /\ Taken' = Taken
<1>1. /\ UNCHANGED <<queue, sent, batch, last_sequence, should_exit, joined>>
      /\ worker \in {"drain", "write"} /\ worker' # "exited"
  BY DEF DrainEnds, WriteFails, PublishDurable, shared, history
<1>2. Taken' = Taken
  BY <1>1 DEF Taken, Position
<1>3. QueueInv'
  BY <1>1, <1>2 DEF OrderInv, QueueInv, Position
<1>4. BatchInv'
  <2>1. worker' = "recv" => batch = <<>>
    BY DEF DrainEnds, WriteFails, PublishDurable
  <2> HIDE DEF Taken
  <2>2. QED
    BY <1>1, <1>2, <2>1 DEF OrderInv, BatchInv
<1>5. EndInv'
  BY <1>1 DEF OrderInv, EndInv, DrainEnds, WriteFails, PublishDurable, shared
<1>6. QED
  BY <1>2, <1>3, <1>4, <1>5 DEF OrderInv

LEMMA ExitOrder ==
  ASSUME NEW E, TypeInv(E), OrderInv, Exit
  PROVE  OrderInv'
<1>1. /\ worker = "leaving" /\ worker' = "exited" /\ queue' = <<>>
      /\ UNCHANGED <<sent, batch, last_sequence, should_exit, degraded, joined>>
  BY DEF Exit, history
<1>2. Len(sent) \in Nat
  BY LenProperties DEF TypeInv
<1>3. Taken' = Len(sent)
  <2>1. Len(queue') = 0 /\ ~\E k \in 0 + 1 .. Len(queue') : queue'[k] = Shutdown
    BY <1>1
  <2>2. QED
    BY <1>1, <1>2, <2>1 DEF Taken, Position, Place
<1>4. QueueInv'
  <2>1. Taken' \in 0 .. Len(sent')
    BY <1>1, <1>2, <1>3
  <2>2. OneShutdown(queue') /\ 1 .. Len(queue') = {}
    BY <1>1 DEF OneShutdown
  <2>3. QED
    BY <1>1, <2>1, <2>2 DEF QueueInv
<1>5. BatchInv' /\ EndInv'
  BY <1>1 DEF OrderInv, BatchInv, EndInv
<1>6. QED
  BY <1>4, <1>5 DEF OrderInv

-----------------------------------------------------------------------------
\* What a journal may append: records of a sequence and a command.
AreEntries(E) ==
  \A e \in E : IsCommand(e.command) /\ e = [sequence |-> e.sequence, command |-> e.command]

\* What may have been read from a file before.
IsSequence(s) == \E S : s \in Seq(S)

LEMMA CellsAreCells ==
  ASSUME NEW E, AreEntries(E)
  PROVE  /\ CellType(Cells(E))
         /\ \A e \in E : Cells(E) \cup RecordCells(e.sequence, e.command) = Cells(E)
<1>1. \A e \in E : CellType(RecordCells(e.sequence, e.command))
  BY RecordShape DEF AreEntries
<1>2. QED
  BY <1>1 DEF CellType, Cells

LEMMA PrefixOfLonger ==
  ASSUME NEW E, NEW s \in Seq(E), NEW e \in E, NEW n \in 0 .. Len(s)
  PROVE  SubSeq(Append(s, e), 1, n) = SubSeq(s, 1, n) /\ n \in 0 .. Len(Append(s, e))
<1>1. /\ Len(s) \in Nat /\ Append(s, e) \in Seq(E) /\ Len(Append(s, e)) = Len(s) + 1
      /\ \A i \in 1 .. Len(s) : Append(s, e)[i] = s[i]
  BY AppendProperties, LenProperties
<1> DEFINE t == Append(s, e)
<1> HIDE DEF t
<1>2. /\ t \in Seq(E) /\ Len(t) = Len(s) + 1 /\ \A i \in 1 .. Len(s) : t[i] = s[i]
  BY <1>1 DEF t
<1>3. \A i \in 1 .. n : i \in 1 .. Len(s)
  BY <1>1
<1>4. SubSeq(t, 1, n) = [i \in 1 .. n |-> t[i]] /\ SubSeq(s, 1, n) = [i \in 1 .. n |-> s[i]]
  BY <1>1
<1>5. n \in 0 .. Len(t)
  BY <1>1, <1>2
<1>6. QED
  BY <1>2, <1>3, <1>4, <1>5 DEF t

LEMMA PrefixGrows ==
  ASSUME NEW E, NEW a \in Seq(E), NEW s \in Seq(E), NEW n \in 0 .. Len(s), n + 1 \in 1 .. Len(s)
  PROVE  /\ Append(a \o SubSeq(s, 1, n), s[n + 1]) = a \o SubSeq(s, 1, n + 1)
         /\ Len(a \o SubSeq(s, 1, n)) = Len(a) + n
         /\ Len(a \o SubSeq(s, 1, n + 1)) = Len(a) + n + 1
         /\ Len(a) \in Nat
<1> DEFINE p == SubSeq(s, 1, n)
           r == SubSeq(s, 1, n + 1)
           e == s[n + 1]
<1>1. Len(s) \in Nat /\ Len(a) \in Nat /\ n \in Nat
  BY LenProperties
<1>2. e \in E
  BY ElementOfSeq
<1>3. p \in Seq(E) /\ Len(p) = n /\ \A i \in 1 .. n : p[i] = s[i]
  BY <1>1
<1>4. r \in Seq(E) /\ Len(r) = n + 1 /\ \A i \in 1 .. n + 1 : r[i] = s[i]
  BY <1>1
<1> HIDE DEF p, r, e
<1>5. r = p \o <<e>>
  <2>1. r = SubSeq(s, 1, (n + 1) - 1) \o <<s[n + 1]>>
    <3>1. 1 \in 1 .. Len(s) /\ n + 1 \in 1 .. Len(s)
      BY <1>1
    <3>2. QED
      BY <3>1, SubSeqRecursiveSecond DEF r
  <2>2. (n + 1) - 1 = n
    BY <1>1
  <2>3. QED
    BY <2>1, <2>2 DEF p, e
<1>6. a \o p \in Seq(E) /\ Len(a \o p) = Len(a) + n
  <2>1. a \o p \in Seq(E) /\ Len(a \o p) = Len(a) + Len(p)
    BY <1>3, ConcatProperties
  <2>2. QED
    BY <1>3, <2>1
<1>7. Len(a \o r) = Len(a) + n + 1
  <2>1. Len(a \o r) = Len(a) + Len(r)
    BY <1>4, ConcatProperties
  <2>2. QED
    BY <1>1, <1>4, <2>1
<1>8. Append(a \o p, e) = (a \o p) \o <<e>>
  <2> DEFINE b == a \o p
  <2>1. b \in Seq(E)
    BY <1>6
  <2> HIDE DEF b
  <2>2. Append(b, e) = b \o <<e>>
    BY <1>2, <2>1, AppendIsConcat
  <2>3. QED
    BY <2>2 DEF b
<1>9. (a \o p) \o <<e>> = a \o (p \o <<e>>)
  <2>1. <<e>> \in Seq(E)
    BY <1>2
  <2> DEFINE u == <<e>>
  <2> HIDE DEF u
  <2>2. u \in Seq(E)
    BY <2>1 DEF u
  <2>3. a \o (p \o u) = (a \o p) \o u
    BY <1>3, <2>2, Associative
  <2>4. QED
    BY <2>3 DEF u
<1>10. QED
  BY <1>1, <1>5, <1>6, <1>7, <1>8, <1>9 DEF p, r, e

\* The file is not written.
LEMMA FileUntouched ==
  ASSUME NEW E, NEW start, TypeInv(E), FileInv(E, start), file' = file,
         \/ sent' = sent
         \/ \E e \in E : sent' = Append(sent, e),
         degraded' = degraded,
         worker' # "exited" => worker # "exited" /\ (Taken - Len(batch))' = Taken - Len(batch)
  PROVE  FileInv(E, start)' /\ Stored(start)' = Stored(start)
<1>1. Stored(start)' = Stored(start) /\ InFile' = InFile
  BY DEF Stored, InFile
<1>2. Stored(start) \in 0 .. Len(sent') /\ SubSeq(sent', 1, Stored(start)) = SubSeq(sent, 1, Stored(start))
  <2>1. CASE sent' = sent
    BY <2>1 DEF FileInv
  <2>2. CASE \E e \in E : sent' = Append(sent, e)
    <3>1. PICK e \in E : sent' = Append(sent, e)
      BY <2>2
    <3>2. Stored(start) \in 0 .. Len(sent) /\ sent \in Seq(E)
      BY DEF FileInv, TypeInv
    <3>3. QED
      BY <3>1, <3>2, PrefixOfLonger
  <2>3. QED
    BY <2>1, <2>2
<1>3. QED
  BY <1>1, <1>2 DEF FileInv

\* A record of the batch is written: it is the next entry of the log.
LEMMA WriteFile ==
  ASSUME NEW E, NEW start, IsSequence(start), AreEntries(E), TypeInv(E), OrderInv, FileInv(E, start),
         WriteRecord
  PROVE  /\ FileInv(E, start)' /\ Stored(start)' = Stored(start) + 1
         /\ InFile' = Append(InFile, sent[Stored(start) + 1])
         /\ Stored(start) + 1 \in 1 .. Len(sent)
<1> DEFINE e == Head(batch)
           n == Stored(start)
           r == EncodeRecord(e.sequence, e.command)
<1>1. /\ Taken' = Taken /\ Len(batch') = Len(batch) - 1
      /\ Taken - Len(batch) + 1 \in 1 .. Len(sent)
      /\ e = sent[Taken - Len(batch) + 1] /\ e \in E
  BY WriteOrder
<1>2. /\ worker = "write" /\ file' = file \o r /\ sent' = sent /\ degraded' = degraded /\ worker' = worker
  BY DEF WriteRecord, shared, history
<1>3. ~degraded
  BY <1>2 DEF OrderInv, EndInv
<1>4. n = Taken - Len(batch) /\ n \in 0 .. Len(sent)
  BY <1>2 DEF FileInv
<1>5. n + 1 \in 1 .. Len(sent) /\ e = sent[n + 1]
  BY <1>1, <1>4
<1>6. file \in Seq(Cells(E)) /\ Whole(file) /\ CellType(Cells(E)) /\ IsCommand(e.command)
  BY <1>1, <1>3, CellsAreCells DEF FileInv, AreEntries
<1> HIDE DEF e, n
<1>7. /\ file' \in Seq(Cells(E))
      /\ Scan(file').entries = Append(Scan(file).entries, e)
      /\ Whole(file')
  <2>1. /\ file \o r \in Seq(Cells(E) \cup RecordCells(e.sequence, e.command))
        /\ Scan(file \o r).entries = Append(Scan(file).entries, [sequence |-> e.sequence, command |-> e.command])
        /\ Whole(file \o r)
    <3> DEFINE S == Cells(E)
               d == file
               m == e.sequence
               c == e.command
    <3>1. CellType(S) /\ d \in Seq(S) /\ Whole(d) /\ IsCommand(c)
      BY <1>6
    <3> HIDE DEF S, d, m, c
    <3>2. /\ d \o EncodeRecord(m, c) \in Seq(S \cup RecordCells(m, c))
          /\ Scan(d \o EncodeRecord(m, c)).entries = Append(Scan(d).entries, [sequence |-> m, command |-> c])
          /\ Whole(d \o EncodeRecord(m, c))
      BY <3>1, RecordIsRead
    <3>3. QED
      BY <3>2 DEF S, d, m, c
  <2>2. Cells(E) \cup RecordCells(e.sequence, e.command) = Cells(E)
    BY <1>1, CellsAreCells
  <2>3. e = [sequence |-> e.sequence, command |-> e.command]
    BY <1>1 DEF AreEntries
  <2> HIDE DEF r
  <2>4. QED
    BY <1>2, <2>1, <2>2, <2>3
<1>8. /\ InFile' = Append(InFile, e) /\ InFile = start \o SubSeq(sent, 1, n)
  BY <1>7 DEF InFile, FileInv, n
<1>9. /\ Append(start \o SubSeq(sent, 1, n), sent[n + 1]) = start \o SubSeq(sent, 1, n + 1)
      /\ Len(start \o SubSeq(sent, 1, n)) = Len(start) + n
      /\ Len(start \o SubSeq(sent, 1, n + 1)) = Len(start) + n + 1
      /\ Len(start) \in Nat
  <2>1. PICK F : start \in Seq(F)
    BY DEF IsSequence
  <2> DEFINE s == sent
             V == E \cup F
  <2>2. s \in Seq(V) /\ start \in Seq(V) /\ n \in 0 .. Len(s) /\ n + 1 \in 1 .. Len(s)
    BY <1>4, <1>5, <2>1 DEF TypeInv
  <2> HIDE DEF s, V
  <2>3. /\ Append(start \o SubSeq(s, 1, n), s[n + 1]) = start \o SubSeq(s, 1, n + 1)
        /\ Len(start \o SubSeq(s, 1, n)) = Len(start) + n
        /\ Len(start \o SubSeq(s, 1, n + 1)) = Len(start) + n + 1
        /\ Len(start) \in Nat
    BY <2>2, PrefixGrows
  <2>4. QED
    BY <2>3 DEF s
<1>10. InFile' = start \o SubSeq(sent, 1, n + 1)
  BY <1>5, <1>8, <1>9
<1>11. Stored(start)' = n + 1
  <2>1. Stored(start)' = Len(InFile') - Len(start)
    BY DEF Stored
  <2>2. Len(InFile') = Len(start) + n + 1
    BY <1>9, <1>10
  <2>3. (Len(start) + n + 1) - Len(start) = n + 1
    BY <1>4, <1>9
  <2>4. QED
    BY <2>1, <2>2, <2>3
<1>12. (Taken - Len(batch))' = n + 1 /\ n + 1 \in 0 .. Len(sent)
  <2>1. batch \in Seq(E) /\ Len(batch) \in Nat /\ Taken \in Int
    BY LenProperties DEF TypeInv, OrderInv, QueueInv
  <2>2. (Taken - Len(batch))' = Taken - (Len(batch) - 1)
    BY <1>1
  <2> HIDE DEF Taken
  <2>3. Taken - (Len(batch) - 1) = n + 1
    BY <1>4, <2>1
  <2>4. QED
    BY <1>4, <1>5, <2>2, <2>3
<1>13. FileInv(E, start)'
  BY <1>2, <1>7, <1>10, <1>11, <1>12 DEF FileInv
<1>14. QED
  BY <1>5, <1>8, <1>11, <1>13 DEF n

\* A write that fails leaves a torn record, and the entries as they were.
LEMMA TornFile ==
  ASSUME NEW E, NEW start, AreEntries(E), TypeInv(E), OrderInv, FileInv(E, start), WriteFails
  PROVE  FileInv(E, start)' /\ Stored(start)' = Stored(start) /\ InFile' = InFile
<1> DEFINE e == Head(batch)
<1>1. /\ worker = "write" /\ batch # <<>> /\ worker' = "leaving" /\ degraded'
      /\ UNCHANGED <<queue, sent, batch>>
  BY DEF WriteFails, calls, history
<1>2. PICK x \in Torn(e.sequence, e.command) : file' = file \o x
  BY DEF WriteFails, Torn
<1>3. ~degraded
  BY <1>1 DEF OrderInv, EndInv
<1>4. e \in E
  BY <1>1, HeadTailProperties DEF TypeInv
<1>5. file \in Seq(Cells(E)) /\ Whole(file) /\ CellType(Cells(E)) /\ IsCommand(e.command)
  BY <1>3, <1>4, CellsAreCells DEF FileInv, AreEntries
<1> HIDE DEF e
<1>6. file' \in Seq(Cells(E)) /\ Scan(file').entries = Scan(file).entries
  <2>1. /\ file \o x \in Seq(Cells(E) \cup RecordCells(e.sequence, e.command))
        /\ Scan(file \o x).entries = Scan(file).entries
    <3> DEFINE S == Cells(E)
               d == file
               m == e.sequence
               c == e.command
    <3>1. CellType(S) /\ d \in Seq(S) /\ Whole(d) /\ IsCommand(c) /\ x \in Torn(m, c)
      BY <1>5
    <3> HIDE DEF S, d, m, c
    <3>2. d \o x \in Seq(S \cup RecordCells(m, c)) /\ Scan(d \o x).entries = Scan(d).entries
      BY <3>1, TornRecordIsIgnored
    <3>3. QED
      BY <3>2 DEF S, d, m, c
  <2>2. Cells(E) \cup RecordCells(e.sequence, e.command) = Cells(E)
    BY <1>4, CellsAreCells
  <2>3. QED
    BY <1>2, <2>1, <2>2
<1>7. InFile' = InFile /\ Stored(start)' = Stored(start)
  BY <1>6 DEF InFile, Stored
<1>8. Taken' = Taken
  BY <1>1 DEF Taken, Position
<1>9. QED
  BY <1>1, <1>6, <1>7, <1>8 DEF FileInv

-----------------------------------------------------------------------------
\* The one call that closes the journal, and what it relies on.
LEMMA CloserBegin ==
  ASSUME NEW E, TypeInv(E), CloserInv, NEW t \in Threads, Begin(E, t)
  PROVE  CloserInv'
<1>1. ASSUME NEW e, AppendBegin(t, e) PROVE CloserInv'
  <2>1. UNCHANGED <<queue, closed, degraded, workers>>
    BY <1>1 DEF AppendBegin, shared
  <2>2. \A u \in Threads : pc'[u] \in {"send_shutdown", "join"} => pc[u] = pc'[u]
    BY <1>1 DEF AppendBegin, calls, Goto, TypeInv
  <2>3. QED
    BY <2>1, <2>2 DEF CloserInv, StillOpen, workers
<1>2. ASSUME Close(t) PROVE CloserInv'
  <2>1. /\ ~closed /\ closed' = TRUE /\ UNCHANGED <<queue, degraded, workers>>
        /\ pc'[t] = "send_shutdown" /\ \A u \in Threads : u # t => pc'[u] = pc[u]
    BY <1>2 DEF Close, Goto, TypeInv
  <2>2. (\A u \in Threads : pc[u] \notin {"send_shutdown", "join"}) /\ StillOpen
    BY <2>1 DEF CloserInv
  <2>3. QED
    BY <2>1, <2>2 DEF CloserInv, StillOpen, workers
<1>3. ASSUME CloseAgain(t) PROVE CloserInv'
  BY <1>3 DEF CloseAgain, vars, shared, workers, calls, CloserInv, StillOpen
<1>4. QED
  BY <1>1, <1>2, <1>3 DEF Begin

LEMMA CloserCall ==
  ASSUME NEW E, TypeInv(E), CloserInv, NEW t \in Threads, Call(t)
  PROVE  CloserInv'
<1>1. UNCHANGED <<closed, degraded, workers>>
  BY DEF Call, AppendLoadClosed, AppendRefused, AppendTrySend, AppendStoreAccepted,
         CloseSendShutdown, CloseJoin, shared
<1>2. /\ \A u \in Threads : u # t => pc'[u] = pc[u]
      /\ pc'[t] # "send_shutdown"
      /\ pc'[t] = "join" => pc[t] = "send_shutdown"
  BY DEF Call, AppendLoadClosed, AppendRefused, AppendTrySend, AppendStoreAccepted,
         CloseSendShutdown, CloseJoin, Goto, TypeInv
<1>3. ASSUME ~closed' \/ \E u \in Threads : pc'[u] = "send_shutdown"
      PROVE  StillOpen'
  <2>1. StillOpen /\ pc[t] # "send_shutdown"
    BY <1>1, <1>2, <1>3 DEF CloserInv
  <2>2. CASE AppendTrySend(t)
    <3>1. queue \in Seq(Messages(E)) /\ AppendRecord(record[t]) \in Messages(E)
          /\ AppendRecord(record[t]) # Shutdown /\ queue' = Append(queue, AppendRecord(record[t]))
      BY <2>2, AppendIsNoShutdown DEF AppendTrySend, TypeInv, Messages
    <3>2. /\ Len(queue') = Len(queue) + 1 /\ Len(queue) \in Nat
          /\ queue'[Len(queue) + 1] # Shutdown
          /\ \A i \in 1 .. Len(queue) : queue'[i] = queue[i]
      BY <3>1, AppendProperties, LenProperties
    <3>3. \A i \in 1 .. Len(queue') : i \in 1 .. Len(queue) \/ i = Len(queue) + 1
      BY <3>2
    <3>4. QED
      BY <1>1, <2>1, <3>2, <3>3 DEF StillOpen, workers
  <2>3. CASE ~AppendTrySend(t)
    <3>1. queue' = queue
      BY <2>1, <2>3 DEF Call, AppendLoadClosed, AppendRefused, AppendStoreAccepted,
                        CloseSendShutdown, CloseJoin, shared
    <3>2. QED
      BY <1>1, <2>1, <3>1 DEF StillOpen, workers
  <2>4. QED
    BY <2>2, <2>3
<1>4. QED
  BY <1>1, <1>2, <1>3 DEF CloserInv

LEMMA CloserWorker ==
  ASSUME NEW E, TypeInv(E), OrderInv, CloserInv, Worker
  PROVE  CloserInv'
<1>1. UNCHANGED <<pc, closed>>
  BY DEF Worker, Recv, Drain, DrainEnds, WriteRecord, WriteFails, PublishDurable, Exit, shared, calls
<1>2. ASSUME StillOpen PROVE StillOpen'
  <2>1. CASE Recv \/ Drain
    <3>1. queue # <<>> /\ queue' = Tail(queue) /\ worker' # "exited" /\ UNCHANGED <<sent, degraded>>
      BY <2>1 DEF Recv, Drain, history
    <3>2. /\ 1 \in 1 .. Len(queue) /\ Head(queue) = queue[1]
          /\ \A i \in 1 .. Len(queue') : queue'[i] = queue[i + 1] /\ i + 1 \in 1 .. Len(queue)
      BY <3>1, TakenQueue DEF OrderInv
    <3>3. Head(queue) # Shutdown
      BY <1>2, <3>2 DEF StillOpen
    <3>4. worker' = "drain" /\ should_exit' = should_exit
      BY <2>1, <3>3 DEF Recv, Drain
    <3>5. QED
      BY <1>2, <3>2, <3>4 DEF StillOpen
  <2>2. CASE Exit
    BY <1>2, <2>2 DEF Exit, StillOpen
  <2>3. CASE DrainEnds \/ WriteRecord \/ WriteFails \/ PublishDurable
    BY <1>2, <2>3 DEF DrainEnds, WriteRecord, WriteFails, PublishDurable, StillOpen, shared
  <2>4. QED
    BY <2>1, <2>2, <2>3 DEF Worker
<1>3. QED
  BY <1>1, <1>2 DEF CloserInv

-----------------------------------------------------------------------------
\* A call moves on, and nothing but its place and its own record changes.
LEMMA CloseWhenMoving ==
  ASSUME NEW E, NEW start, TypeInv(E), CloseInv(start), NEW t \in Threads,
         NEW l \in {"idle", "load_closed", "try_send"}, Goto(t, l),
         \A u \in Threads : u # t => record'[u] = record[u],
         UNCHANGED <<queue, sent, degraded, workers, file, acked, acked_at_close>>, CloserInv'
  PROVE  CloseInv(start)'
<1>1. /\ pc'[t] = l /\ \A u \in Threads : u # t => pc'[u] = pc[u]
  BY DEF TypeInv, Goto
<1>2. \A u \in Threads : pc'[u] \in {"send_shutdown", "join", "store_accepted"}
                           => u # t /\ pc'[u] = pc[u] /\ record'[u] = record[u]
  BY <1>1
<1>3. AckedInv'
  BY <1>2 DEF CloseInv, AckedInv, SentUpTo
<1>4. AheadInv(start)'
  BY DEF CloseInv, AheadInv, SentUpTo, Position, Stored, InFile, workers
<1>5. QED
  BY <1>3, <1>4 DEF CloseInv

LEMMA CloseBegin ==
  ASSUME NEW E, NEW start, TypeInv(E), CloseInv(start), NEW t \in Threads, Begin(E, t)
  PROVE  CloseInv(start)'
<1>1. CloserInv'
  BY CloserBegin DEF CloseInv
<1>2. ASSUME NEW e \in E, AppendBegin(t, e) PROVE CloseInv(start)'
  <2>1. /\ UNCHANGED <<queue, sent, closed, degraded, workers, file, acked, acked_at_close>>
        /\ pc[t] = "idle"
    BY <1>2 DEF AppendBegin, shared, history
  <2>2. CASE degraded
    <3>1. pc' = pc /\ record' = record
      BY <1>2, <2>2 DEF AppendBegin, calls
    <3>2. QED
      BY <1>1, <2>1, <3>1 DEF CloseInv, AckedInv, AheadInv, SentUpTo, Position, Stored, InFile, workers
  <2>3. CASE ~degraded
    <3>1. Goto(t, "load_closed") /\ record' = [record EXCEPT ![t] = e]
      BY <1>2, <2>3 DEF AppendBegin
    <3>2. \A u \in Threads : u # t => record'[u] = record[u]
      BY <3>1 DEF TypeInv
    <3>3. QED
      BY <1>1, <2>1, <3>1, <3>2, CloseWhenMoving
  <2>4. QED
    BY <2>2, <2>3
<1>3. ASSUME Close(t) PROVE CloseInv(start)'
  <2>1. /\ ~closed /\ closed' = TRUE /\ acked_at_close' = acked
        /\ UNCHANGED <<queue, sent, degraded, workers, file, record, acked>>
        /\ pc'[t] = "send_shutdown" /\ \A u \in Threads : u # t => pc'[u] = pc[u]
    BY <1>3 DEF Close, Goto, TypeInv
  <2>2. StillOpen
    BY <2>1 DEF CloseInv, CloserInv
  <2>3. AckedInv'
    BY <2>1 DEF CloseInv, AckedInv, SentUpTo
  <2>4. AheadInv(start)'
    BY <2>1, <2>2 DEF AheadInv, StillOpen, workers
  <2>5. QED
    BY <1>1, <2>3, <2>4 DEF CloseInv
<1>4. ASSUME CloseAgain(t) PROVE CloseInv(start)'
  BY <1>1, <1>4 DEF CloseAgain, vars, shared, workers, calls, history,
                    CloseInv, AckedInv, AheadInv, SentUpTo, Position, Stored, InFile
<1>5. QED
  BY <1>2, <1>3, <1>4 DEF Begin

LEMMA CloseTrySend ==
  ASSUME NEW E, NEW start, TypeInv(E), OrderInv, FileInv(E, start), CloseInv(start),
         NEW t \in Threads, AppendTrySend(t)
  PROVE  CloseInv(start)'
<1>1. /\ worker # "exited" /\ worker' = worker /\ queue' = Append(queue, AppendRecord(record[t]))
      /\ sent' = Append(sent, record[t]) /\ record[t] \in E
      /\ UNCHANGED <<workers, degraded, closed, file, record, acked, acked_at_close>>
      /\ pc[t] = "try_send"
      /\ pc'[t] = "store_accepted" /\ \A u \in Threads : u # t => pc'[u] = pc[u]
  BY DEF AppendTrySend, TypeInv, workers, Goto
<1>2. /\ Len(sent') = Len(sent) + 1 /\ Len(sent) \in Nat
      /\ \A k \in 1 .. Len(sent) : sent'[k] = sent[k]
      /\ sent'[Len(sent) + 1] = record[t]
      /\ Len(queue') = Len(queue) + 1 /\ Len(queue) \in Nat
      /\ queue'[Len(queue) + 1] # Shutdown
      /\ \A i \in 1 .. Len(queue) : queue'[i] = queue[i] /\ Position(i)' = Position(i)
  BY <1>1, SentQueue DEF OrderInv
<1>3. \A i \in 1 .. Len(queue') : queue'[i] = Shutdown => i \in 1 .. Len(queue) /\ queue[i] = Shutdown
  BY <1>2
<1>4. CloserInv'
  BY CloserCall DEF CloseInv, Call
<1>5. \A n \in Int : \A e : n <= Len(sent) /\ SentUpTo(n, e) => \E k \in 1 .. n : sent'[k] = e
  <2>1. \A n \in Int : n <= Len(sent) => \A k \in 1 .. n : k \in 1 .. Len(sent)
    BY <1>2
  <2>2. QED
    BY <1>2, <2>1 DEF SentUpTo
<1>6. \A e : SentUpTo(Len(sent), e) => \E k \in 1 .. Len(sent') : sent'[k] = e
  <2>1. \A k \in 1 .. Len(sent) : k \in 1 .. Len(sent')
    BY <1>2
  <2>2. QED
    BY <1>2, <2>1 DEF SentUpTo
<1>7. AckedInv'
  <2>1. \E k \in 1 .. Len(sent') : sent'[k] = record[t]
    <3>1. Len(sent) + 1 \in 1 .. Len(sent')
      BY <1>2
    <3>2. QED
      BY <1>2, <3>1
  <2>2. \A u \in Threads : pc'[u] = "store_accepted" => \E k \in 1 .. Len(sent') : sent'[k] = record'[u]
    BY <1>1, <1>6, <2>1 DEF CloseInv, AckedInv
  <2>3. \A e \in acked' \cup acked_at_close' : \E k \in 1 .. Len(sent') : sent'[k] = e
    BY <1>1, <1>6 DEF CloseInv, AckedInv
  <2>4. QED
    BY <2>2, <2>3 DEF AckedInv, SentUpTo
<1>8. AheadInv(start)'
  <2>1. ASSUME NEW i \in 1 .. Len(queue'), queue'[i] = Shutdown, NEW e \in acked_at_close'
        PROVE  \E k \in 1 .. Position(i)' : sent'[k] = e
    <3>1. i \in 1 .. Len(queue) /\ queue[i] = Shutdown /\ e \in acked_at_close
      BY <1>1, <1>3, <2>1
    <3>2. SentUpTo(Position(i), e)
      BY <3>1 DEF CloseInv, AheadInv
    <3>3. Position(i) \in Int /\ Position(i) <= Len(sent)
      <4>1. queue \in Seq(Messages(E)) /\ i \in 0 .. Len(queue)
        BY <1>2, <3>1 DEF TypeInv
      <4>2. QED
        BY <1>2, <4>1, PlaceBounds DEF Position
    <3>4. QED
      BY <1>2, <1>5, <3>1, <3>2, <3>3
  <2>2. Stored(start)' = Stored(start)
    BY <1>1 DEF Stored, InFile
  <2>3. ASSUME ~degraded, should_exit \/ worker \in {"leaving", "exited"}, NEW e \in acked_at_close
        PROVE  \E k \in 1 .. Stored(start) + Len(batch) : sent'[k] = e
    <3> DEFINE m == Stored(start) + Len(batch)
    <3>1. SentUpTo(m, e)
      BY <2>3 DEF CloseInv, AheadInv
    <3>2. m \in Int /\ m <= Len(sent)
      <4>1. Stored(start) = Taken - Len(batch) /\ Taken \in 0 .. Len(sent)
        BY <1>1 DEF FileInv, OrderInv, QueueInv
      <4>2. Len(batch) \in Nat
        BY LenProperties DEF TypeInv
      <4> HIDE DEF Taken, Stored
      <4>3. QED
        BY <1>2, <4>1, <4>2
    <3> HIDE DEF m
    <3>3. \E k \in 1 .. m : sent'[k] = e
      BY <1>5, <3>1, <3>2
    <3>4. QED
      BY <3>3 DEF m
  <2>4. QED
    BY <1>1, <2>1, <2>2, <2>3 DEF AheadInv, SentUpTo, workers
<1>9. QED
  BY <1>4, <1>7, <1>8 DEF CloseInv


LEMMA CloseSend ==
  ASSUME NEW E, NEW start, TypeInv(E), OrderInv, CloseInv(start), NEW t \in Threads, CloseSendShutdown(t)
  PROVE  CloseInv(start)'
<1>1. /\ UNCHANGED <<sent, closed, degraded, workers, file, record, acked, acked_at_close>>
      /\ pc[t] = "send_shutdown" /\ closed
      /\ pc'[t] = "join" /\ \A u \in Threads : u # t => pc'[u] = pc[u]
  BY DEF CloseSendShutdown, TypeInv, Goto, history, CloseInv, CloserInv
<1>2. CloserInv'
  BY CloserCall DEF CloseInv, Call
<1>3. AckedInv'
  <2>1. \A u \in Threads : pc'[u] = "store_accepted" => pc[u] = "store_accepted" /\ record'[u] = record[u]
    BY <1>1
  <2>2. QED
    BY <1>1, <2>1 DEF CloseInv, AckedInv, SentUpTo
<1>4. ASSUME NEW i \in 1 .. Len(queue'), queue'[i] = Shutdown, NEW e \in acked_at_close
      PROVE  SentUpTo(Position(i), e)'
  <2>1. CASE worker = "exited"
    <3>1. queue' = queue
      BY <2>1 DEF CloseSendShutdown
    <3>2. QED
      BY <1>1, <1>4, <3>1 DEF CloseInv, AheadInv, SentUpTo, Position
  <2>2. CASE worker # "exited"
    <3>1. \A j \in 1 .. Len(queue) : queue[j] # Shutdown
      BY <1>1 DEF CloseInv, CloserInv, StillOpen
    <3>2. queue' = Append(queue, Shutdown) /\ sent' = sent /\ worker' = worker
      BY <1>1, <2>2 DEF CloseSendShutdown, workers
    <3>3. /\ Len(queue') = Len(queue) + 1 /\ Len(queue) \in Nat
          /\ \A j \in 1 .. Len(queue) : queue'[j] = queue[j]
          /\ \A j : j = Len(queue) + 1 => Position(j)' = Len(sent)
      BY <2>2, <3>1, <3>2, ClosedQueue DEF OrderInv
    <3>4. i = Len(queue) + 1
      BY <1>4, <3>1, <3>3
    <3>5. Position(i)' = Len(sent)
      BY <3>3, <3>4
    <3>6. SentUpTo(Len(sent), e)
      BY DEF CloseInv, AckedInv
    <3>7. QED
      BY <3>2, <3>5, <3>6 DEF SentUpTo
  <2>3. QED
    BY <2>1, <2>2
<1>5. AheadInv(start)'
  <2>1. Stored(start)' = Stored(start)
    BY <1>1 DEF Stored, InFile
  <2>2. QED
    BY <1>1, <1>4, <2>1 DEF CloseInv, AheadInv, SentUpTo, workers
<1>6. QED
  BY <1>2, <1>3, <1>5 DEF CloseInv

LEMMA CloseCall ==
  ASSUME NEW E, NEW start, TypeInv(E), OrderInv, FileInv(E, start), CloseInv(start),
         NEW t \in Threads, Call(t)
  PROVE  CloseInv(start)'
<1>1. CloserInv'
  BY CloserCall DEF CloseInv
<1>2. ASSUME NEW l \in {"idle", "load_closed", "try_send"}, Goto(t, l),
             UNCHANGED <<record, queue, sent, degraded, workers, file, acked, acked_at_close>>
      PROVE  CloseInv(start)'
  BY <1>1, <1>2, CloseWhenMoving
<1>3. CASE AppendLoadClosed(t)
  <2>1. PICK l \in {"idle", "load_closed", "try_send"} : Goto(t, l)
    BY <1>3 DEF AppendLoadClosed
  <2>2. QED
    BY <1>2, <1>3, <2>1 DEF AppendLoadClosed, shared, history
<1>4. CASE AppendRefused(t)
  BY <1>2, <1>4 DEF AppendRefused, shared, history
<1>5. CASE AppendTrySend(t)
  BY <1>5, CloseTrySend
<1>6. CASE AppendStoreAccepted(t)
  <2>1. /\ UNCHANGED <<queue, sent, closed, degraded, workers, file, record, acked_at_close>>
        /\ acked' = acked \cup {record[t]} /\ pc[t] = "store_accepted"
        /\ pc'[t] = "idle" /\ \A u \in Threads : u # t => pc'[u] = pc[u]
    BY <1>6 DEF AppendStoreAccepted, TypeInv, Goto
  <2>2. \A u \in Threads : pc'[u] = "store_accepted" => pc'[u] = pc[u]
    BY <2>1
  <2>3. SentUpTo(Len(sent), record[t])
    BY <2>1 DEF CloseInv, AckedInv
  <2>4. AckedInv'
    BY <2>1, <2>2, <2>3 DEF CloseInv, AckedInv, SentUpTo
  <2>5. AheadInv(start)'
    BY <2>1 DEF CloseInv, AheadInv, SentUpTo, Position, Stored, InFile, workers
  <2>6. QED
    BY <1>1, <2>4, <2>5 DEF CloseInv
<1>7. CASE CloseSendShutdown(t)
  BY <1>7, CloseSend
<1>8. CASE CloseJoin(t)
  BY <1>2, <1>8 DEF CloseJoin, shared
<1>9. QED
  BY <1>3, <1>4, <1>5, <1>6, <1>7, <1>8 DEF Call

\* The worker acknowledges nothing.
LEMMA CloseOfWorker ==
  ASSUME NEW E, NEW start, TypeInv(E), OrderInv, CloseInv(start), AheadInv(start)', Worker
  PROVE  CloseInv(start)'
<1>1. CloserInv'
  BY CloserWorker DEF CloseInv
<1>2. UNCHANGED <<pc, record, sent, acked, acked_at_close>>
  BY DEF Worker, Recv, Drain, DrainEnds, WriteRecord, WriteFails, PublishDurable, Exit, calls, history
<1>3. AckedInv'
  BY <1>2 DEF CloseInv, AckedInv, SentUpTo
<1>4. QED
  BY <1>1, <1>3 DEF CloseInv

\* The worker takes a message.  If it is the Shutdown, all that was acknowledged before
\* close is in the batch or in the file.
LEMMA CloseTake ==
  ASSUME NEW E, NEW start, TypeInv(E), OrderInv, FileInv(E, start), CloseInv(start), Recv \/ Drain
  PROVE  CloseInv(start)'
<1>1. /\ queue # <<>> /\ queue' = Tail(queue) /\ worker \in {"recv", "drain"} /\ worker' # "exited"
      /\ UNCHANGED <<sent, closed, degraded, file, pc, record, acked, acked_at_close>>
  BY DEF Recv, Drain, calls, history
<1>2. /\ Head(queue) = Shutdown => /\ Position(1) = Taken
                                   /\ \A i \in 1 .. Len(queue') : queue'[i] # Shutdown
      /\ 1 \in 1 .. Len(queue) /\ Head(queue) = queue[1]
      /\ \A i \in 1 .. Len(queue') : /\ queue'[i] = queue[i + 1] /\ i + 1 \in 1 .. Len(queue)
                                     /\ Position(i)' = Position(i + 1)
  BY <1>1, TakenQueue DEF OrderInv
<1>3. ~should_exit
  BY <1>1 DEF OrderInv, EndInv
<1>4. ASSUME NEW i \in 1 .. Len(queue'), queue'[i] = Shutdown, NEW e \in acked_at_close
      PROVE  SentUpTo(Position(i), e)'
  <2>1. SentUpTo(Position(i + 1), e)
    BY <1>2, <1>4 DEF CloseInv, AheadInv
  <2>2. QED
    BY <1>1, <1>2, <2>1 DEF SentUpTo
<1>5. Stored(start)' = Stored(start)
  BY <1>1 DEF Stored, InFile
<1>6. ASSUME should_exit' \/ worker' \in {"leaving", "exited"}, NEW e \in acked_at_close
      PROVE  SentUpTo(Stored(start) + Len(batch), e)'
  <2>1. Head(queue) = Shutdown /\ batch' = batch
    BY <1>3, <1>6 DEF Recv, Drain
  <2>2. SentUpTo(Taken, e)
    BY <1>2, <2>1 DEF CloseInv, AheadInv
  <2>3. Stored(start) + Len(batch) = Taken
    <3>1. Stored(start) = Taken - Len(batch) /\ Taken \in 0 .. Len(sent)
      BY <1>1 DEF FileInv, OrderInv, QueueInv
    <3>2. Len(batch) \in Nat /\ Len(sent) \in Nat
      BY LenProperties DEF TypeInv
    <3> HIDE DEF Taken, Stored
    <3>3. QED
      BY <3>1, <3>2
  <2>4. QED
    BY <1>1, <1>5, <2>1, <2>2, <2>3 DEF SentUpTo
<1>7. AheadInv(start)'
  BY <1>1, <1>4, <1>6 DEF AheadInv
<1>8. QED
  BY <1>7, CloseOfWorker DEF Worker

LEMMA CloseWorker ==
  ASSUME NEW E, NEW start, IsSequence(start), AreEntries(E), TypeInv(E), OrderInv, FileInv(E, start),
         CloseInv(start), Worker
  PROVE  CloseInv(start)'
<1>1. CASE Recv \/ Drain
  BY <1>1, CloseTake
<1>2. CASE DrainEnds
  <2>1. UNCHANGED <<queue, sent, closed, degraded, file, pc, record, acked, acked_at_close, batch, should_exit>>
        /\ worker = "drain" /\ worker' = "write"
    BY <1>2 DEF DrainEnds, shared, calls, history
  <2>2. AheadInv(start)'
    BY <2>1 DEF CloseInv, AheadInv, SentUpTo, Position, Stored, InFile
  <2>3. QED
    BY <2>2, CloseOfWorker
<1>3. CASE WriteRecord
  <2>1. UNCHANGED <<queue, sent, closed, degraded, pc, record, acked, acked_at_close, worker, should_exit>>
    BY <1>3 DEF WriteRecord, shared, calls, history
  <2>2. (Stored(start) + Len(batch))' = Stored(start) + Len(batch)
    <3>1. Stored(start)' = Stored(start) + 1 /\ Len(batch') = Len(batch) - 1
      BY <1>3, WriteFile, WriteOrder
    <3>2. Stored(start) \in Int /\ Len(batch) \in Int
      BY LenProperties DEF FileInv, TypeInv
    <3> HIDE DEF Stored
    <3>3. QED
      BY <3>1, <3>2
  <2>3. AheadInv(start)'
    BY <2>1, <2>2 DEF CloseInv, AheadInv, SentUpTo, Position
  <2>4. QED
    BY <2>3, CloseOfWorker
<1>4. CASE WriteFails
  <2>1. UNCHANGED <<queue, sent, closed, pc, record, acked, acked_at_close, batch, should_exit>> /\ degraded'
    BY <1>4 DEF WriteFails, calls, history
  <2>2. AheadInv(start)'
    BY <2>1 DEF CloseInv, AheadInv, SentUpTo, Position
  <2>3. QED
    BY <2>2, CloseOfWorker
<1>5. CASE PublishDurable
  <2>1. UNCHANGED <<queue, sent, closed, degraded, file, pc, record, acked, acked_at_close, batch, should_exit>>
        /\ worker' = IF should_exit THEN "leaving" ELSE "recv"
    BY <1>5 DEF PublishDurable, calls, history
  <2>2. AheadInv(start)'
    BY <2>1 DEF CloseInv, AheadInv, SentUpTo, Position, Stored, InFile
  <2>3. QED
    BY <2>2, CloseOfWorker
<1>6. CASE Exit
  <2>1. UNCHANGED <<sent, closed, degraded, file, pc, record, acked, acked_at_close, batch, should_exit>>
        /\ worker = "leaving" /\ 1 .. Len(queue') = {}
    BY <1>6 DEF Exit, calls, history
  <2>2. AheadInv(start)'
    BY <2>1 DEF CloseInv, AheadInv, SentUpTo, Stored, InFile
  <2>3. QED
    BY <2>2, CloseOfWorker
<1>7. QED
  BY <1>1, <1>2, <1>3, <1>4, <1>5, <1>6 DEF Worker

-----------------------------------------------------------------------------
\* The whole, and that every step keeps it.
AsyncInv(E, start) == TypeInv(E) /\ OrderInv /\ FileInv(E, start) /\ CloseInv(start)

LEMMA StepOfBegin ==
  ASSUME NEW E, NEW start, AsyncInv(E, start), NEW t \in Threads, Begin(E, t)
  PROVE  AsyncInv(E, start)' /\ UNCHANGED <<InFile, sent, durable>>
<1>1. TypeInv(E)' /\ OrderInv' /\ Taken' = Taken
  BY BeginType, BeginOrder DEF AsyncInv
<1>2. UNCHANGED <<file, sent, durable, degraded, worker, batch>>
  <2>1. ASSUME NEW e, AppendBegin(t, e) PROVE UNCHANGED <<file, sent, durable, degraded, worker, batch>>
    BY <2>1 DEF AppendBegin, shared, workers, history
  <2>2. ASSUME Close(t) PROVE UNCHANGED <<file, sent, durable, degraded, worker, batch>>
    BY <2>2 DEF Close, workers
  <2>3. ASSUME CloseAgain(t) PROVE UNCHANGED <<file, sent, durable, degraded, worker, batch>>
    BY <2>3 DEF CloseAgain, vars, shared, workers, history
  <2>4. QED
    BY <2>1, <2>2, <2>3 DEF Begin
<1>3. FileInv(E, start)'
  BY <1>1, <1>2, FileUntouched DEF AsyncInv
<1>4. CloseInv(start)'
  BY CloseBegin DEF AsyncInv
<1>5. QED
  BY <1>1, <1>2, <1>3, <1>4 DEF AsyncInv, InFile

LEMMA StepOfCall ==
  ASSUME NEW E, NEW start, AsyncInv(E, start), NEW t \in Threads, Call(t)
  PROVE  /\ AsyncInv(E, start)' /\ UNCHANGED <<InFile, durable>>
         /\ sent' = sent \/ \E e \in E : sent' = Append(sent, e)
<1>1. pc[t] = "send_shutdown" => \A i \in 1 .. Len(queue) : queue[i] # Shutdown
  BY DEF AsyncInv, CloseInv, CloserInv, StillOpen
<1>2. TypeInv(E)' /\ OrderInv' /\ Taken' = Taken
  BY <1>1, CallType, CallOrder DEF AsyncInv
<1>3. UNCHANGED <<file, durable, degraded, worker, batch>>
  BY DEF Call, AppendLoadClosed, AppendRefused, AppendTrySend, AppendStoreAccepted,
         CloseSendShutdown, CloseJoin, shared, workers
<1>4. sent' = sent \/ \E e \in E : sent' = Append(sent, e)
  <2>1. CASE AppendTrySend(t)
    BY <2>1 DEF AppendTrySend, AsyncInv, TypeInv
  <2>2. CASE ~AppendTrySend(t)
    BY <2>2 DEF Call, AppendLoadClosed, AppendRefused, AppendStoreAccepted,
                CloseSendShutdown, CloseJoin, history
  <2>3. QED
    BY <2>1, <2>2
<1>5. FileInv(E, start)'
  BY <1>2, <1>3, <1>4, FileUntouched DEF AsyncInv
<1>6. CloseInv(start)'
  BY CloseCall DEF AsyncInv
<1>7. QED
  BY <1>2, <1>3, <1>4, <1>5, <1>6 DEF AsyncInv, InFile

LEMMA StepOfWorker ==
  ASSUME NEW E, NEW start, IsSequence(start), AreEntries(E), AsyncInv(E, start), Worker
  PROVE  AsyncInv(E, start)'
<1>1. /\ TypeInv(E) /\ OrderInv /\ FileInv(E, start) /\ CloseInv(start)
      /\ TypeInv(E)' /\ CloseInv(start)'
  BY WorkerType, CloseWorker DEF AsyncInv
<1>2. CASE Recv
  <2>1. OrderInv' /\ (Taken - Len(batch))' = Taken - Len(batch)
    BY <1>1, <1>2, RecvOrder
  <2>2. UNCHANGED <<file, sent, degraded>> /\ worker # "exited"
    BY <1>2 DEF Recv, history
  <2>3. FileInv(E, start)'
    BY <1>1, <2>1, <2>2, FileUntouched
  <2>4. QED
    BY <1>1, <2>1, <2>3 DEF AsyncInv
<1>3. CASE Drain
  <2>1. OrderInv' /\ (Taken - Len(batch))' = Taken - Len(batch)
    BY <1>1, <1>3, DrainOrder
  <2>2. UNCHANGED <<file, sent, degraded>> /\ worker # "exited"
    BY <1>3 DEF Drain, history
  <2>3. FileInv(E, start)'
    BY <1>1, <2>1, <2>2, FileUntouched
  <2>4. QED
    BY <1>1, <2>1, <2>3 DEF AsyncInv
<1>4. CASE DrainEnds \/ PublishDurable
  <2>1. OrderInv' /\ Taken' = Taken
    BY <1>1, <1>4, TurnOrder
  <2>2. UNCHANGED <<file, sent, degraded, batch>> /\ worker # "exited"
    BY <1>4 DEF DrainEnds, PublishDurable, shared, history
  <2>3. FileInv(E, start)'
    BY <1>1, <2>1, <2>2, FileUntouched
  <2>4. QED
    BY <1>1, <2>1, <2>3 DEF AsyncInv
<1>5. CASE WriteRecord
  BY <1>1, <1>5, WriteOrder, WriteFile DEF AsyncInv
<1>6. CASE WriteFails
  BY <1>1, <1>6, TurnOrder, TornFile DEF AsyncInv
<1>7. CASE Exit
  <2>1. OrderInv'
    BY <1>1, <1>7, ExitOrder
  <2>2. UNCHANGED <<file, sent, degraded>> /\ worker' = "exited"
    BY <1>7 DEF Exit, history
  <2>3. FileInv(E, start)'
    BY <1>1, <2>2, FileUntouched
  <2>4. QED
    BY <1>1, <2>1, <2>3 DEF AsyncInv
<1>8. QED
  BY <1>2, <1>3, <1>4, <1>5, <1>6, <1>7 DEF Worker

\* Every step of an AsyncJournal keeps its invariant.
THEOREM AsyncStep ==
  \A E, start : AreEntries(E) /\ IsSequence(start) /\ AsyncInv(E, start) /\ JournalNext(E)
                  => AsyncInv(E, start)'
<1> SUFFICES ASSUME NEW E, NEW start, AreEntries(E), IsSequence(start), AsyncInv(E, start), JournalNext(E)
             PROVE  AsyncInv(E, start)'
  OBVIOUS
<1>1. CASE UNCHANGED vars
  <2>1. /\ UNCHANGED <<queue, accepted, durable, degraded, closed, workers, file, pc, record>>
        /\ UNCHANGED <<sent, acked, acked_at_close, joined>>
    BY <1>1 DEF vars, shared, calls, history
  <2>2. TypeInv(E)'
    BY <1>1, TypeStep DEF AsyncInv, JournalNext
  <2>3. OrderInv' /\ Taken' = Taken
    BY <2>1, OrderUntouched DEF AsyncInv
  <2>4. FileInv(E, start)'
    BY <2>1, <2>3, FileUntouched DEF AsyncInv, workers
  <2>5. CloseInv(start)'
    BY <2>1 DEF AsyncInv, CloseInv, CloserInv, StillOpen, AckedInv, AheadInv, SentUpTo, Position,
                Stored, InFile, workers
  <2>6. QED
    BY <2>2, <2>3, <2>4, <2>5 DEF AsyncInv
<1>2. QED
  BY <1>1, StepOfBegin, StepOfCall, StepOfWorker DEF JournalNext

\* A journal that was just opened, on whatever file.
LEMMA OpenBegins ==
  ASSUME NEW E, Open
  PROVE  /\ TypeInv(E) /\ OrderInv /\ CloserInv /\ AckedInv
         /\ Taken = 0 /\ \A start : AheadInv(start)
<1>1. TypeInv(E)
  <2>1. 0 <= QueueCapacity /\ 0 <= BatchSize
    BY AsyncAssumption
  <2>2. <<>> \in Seq(Messages(E)) /\ <<>> \in Seq(E) /\ Len(<<>>) = 0
    OBVIOUS
  <2>3. pc \in [Threads -> Labels] /\ \A t \in Threads : pc[t] = "idle"
    BY DEF Open, Labels
  <2>4. record \in [Threads -> E \cup {None}]
    BY DEF Open
  <2>5. QED
    BY <2>1, <2>2, <2>3, <2>4 DEF Open, TypeInv, SequencesOf
<1>2. Taken = 0
  <2>1. Len(queue) = 0 /\ Len(sent) = 0 /\ ~\E k \in 0 + 1 .. Len(queue) : queue[k] = Shutdown
    BY DEF Open
  <2>2. QED
    BY <2>1 DEF Taken, Position, Place
<1>3. OrderInv
  <2>1. 1 .. Len(queue) = {} /\ 1 .. Len(batch) = {} /\ Len(sent) = 0 /\ Len(batch) = 0
    BY DEF Open
  <2>2. QueueInv
    BY <1>2, <2>1 DEF Open, QueueInv, OneShutdown
  <2>3. BatchInv
    BY <1>2, <2>1 DEF Open, BatchInv
  <2>4. EndInv
    BY DEF Open, EndInv
  <2>5. QED
    BY <2>2, <2>3, <2>4 DEF OrderInv
<1>4. CloserInv /\ AckedInv /\ \A start : AheadInv(start)
  <2>1. 1 .. Len(queue) = {}
    BY DEF Open
  <2>2. QED
    BY <2>1 DEF Open, CloserInv, StillOpen, AckedInv, AheadInv
<1>5. QED
  BY <1>1, <1>2, <1>3, <1>4

\* The invariant holds around a file of whole records, when the journal is opened on it.
LEMMA AsyncBegins ==
  ASSUME NEW E, NEW start, AreEntries(E), Open, file \in Seq(Cells(E)), Whole(file), InFile = start,
         IsSequence(start)
  PROVE  AsyncInv(E, start)
<1>1. FileInv(E, start)
  <2>1. Len(start) \in Nat
    BY LenProperties DEF IsSequence
  <2>2. Stored(start) = 0
    BY <2>1 DEF Stored
  <2>3. Len(sent) = 0 /\ Len(batch) = 0 /\ SubSeq(sent, 1, 0) = <<>>
    BY DEF Open
  <2>4. start \o <<>> = start
    BY ConcatEmptySeq DEF IsSequence
  <2>5. InFile = start \o SubSeq(sent, 1, Stored(start))
    BY <2>2, <2>3, <2>4
  <2>6. Stored(start) \in 0 .. Len(sent) /\ Stored(start) = Taken - Len(batch)
    <3>1. Taken = 0
      BY OpenBegins
    <3>2. QED
      BY <2>2, <2>3, <3>1
  <2>7. QED
    BY <2>5, <2>6 DEF FileInv
<1>2. QED
  BY <1>1, OpenBegins DEF AsyncInv, CloseInv

\* What a step of the worker does to the file and to durable.
LEMMA WorkerLog ==
  ASSUME NEW E, NEW start, IsSequence(start), AreEntries(E), AsyncInv(E, start), Worker
  PROVE  \/ UNCHANGED <<InFile, sent, durable>>
         \/ /\ UNCHANGED <<sent, durable>>
            /\ Stored(start) + 1 \in 1 .. Len(sent)
            /\ InFile' = Append(InFile, sent[Stored(start) + 1])
         \/ /\ UNCHANGED <<sent, InFile>>
            /\ Stored(start) \in 1 .. Len(sent)
            /\ durable' = sent[Stored(start)].sequence
<1>1. CASE Recv \/ Drain \/ DrainEnds \/ Exit
  BY <1>1 DEF Recv, Drain, DrainEnds, Exit, InFile, shared, history
<1>2. CASE WriteRecord
  BY <1>2, WriteFile DEF AsyncInv, WriteRecord, shared, history
<1>3. CASE WriteFails
  BY <1>3, TornFile DEF AsyncInv, WriteFails, history
<1>4. CASE PublishDurable
  <2>1. /\ worker = "write" /\ batch = <<>> /\ durable' = last_sequence /\ UNCHANGED <<file, sent>>
    BY <1>4 DEF PublishDurable, history
  <2>2. Taken >= 1 /\ last_sequence = sent[Taken].sequence /\ Stored(start) = Taken - Len(batch)
        /\ Taken \in 0 .. Len(sent)
    BY <2>1 DEF AsyncInv, OrderInv, QueueInv, BatchInv, FileInv
  <2>3. Len(batch) = 0 /\ Len(sent) \in Nat
    BY <2>1, LenProperties DEF AsyncInv, TypeInv
  <2> HIDE DEF Taken, Stored
  <2>4. Stored(start) = Taken /\ Taken \in 1 .. Len(sent)
    BY <2>2, <2>3
  <2>5. QED
    BY <2>1, <2>2, <2>4 DEF InFile
<1>5. QED
  BY <1>1, <1>2, <1>3, <1>4 DEF Worker


LEMMA EmptyFile ==
  ASSUME NEW S, CellType(S)
  PROVE  <<>> \in Seq(S) /\ Scan(<<>>).entries = <<>> /\ Whole(<<>>)
<1> DEFINE d == <<>>
<1>1. d \in Seq(S) /\ Len(d) = 0 /\ 0 \in 0 .. Len(d)
  OBVIOUS
<1> HIDE DEF d
<1>2. Loop(d)[0] = [entries |-> <<>>, end |-> 0]
  BY <1>1, LoopMeans
<1>3. Scan(d) = [entries |-> <<>>, end |-> 0]
  BY <1>2, ScanLoop
<1>4. QED
  BY <1>1, <1>3 DEF d, Whole
-----------------------------------------------------------------------------
(* Threads that share a journal over a new file.                           *)

SharedInv == issued \in 0 .. MaxSequence /\ AsyncInv(IssuedEntries, <<>>)

LEMMA EntriesAreEntries == AreEntries(IssuedEntries) /\ IsSequence(<<>>)
<1>1. AreEntries(IssuedEntries)
  BY AsyncAssumption DEF AreEntries, IssuedEntries
<1>2. <<>> \in Seq(IssuedEntries)
  OBVIOUS
<1>3. QED
  BY <1>1, <1>2 DEF IsSequence

LEMMA NextIsJournal ==
  ASSUME issued \in 0 .. MaxSequence, SharedNext
  PROVE  JournalNext(IssuedEntries) /\ issued' \in 0 .. MaxSequence
<1>1. ASSUME NEW t \in Threads, BeginAppend(t)
      PROVE  Begin(IssuedEntries, t) /\ issued' \in 0 .. MaxSequence
  <2>1. PICK c \in Commands : AppendBegin(t, [sequence |-> issued + 1, command |-> c])
    BY <1>1 DEF BeginAppend
  <2>2. issued + 1 \in 1 .. MaxSequence /\ issued' = issued + 1
    BY <1>1, MaxSequenceAssumption DEF BeginAppend
  <2>3. [sequence |-> issued + 1, command |-> c] \in IssuedEntries
    BY <2>2 DEF IssuedEntries
  <2>4. QED
    BY <2>1, <2>2, <2>3, MaxSequenceAssumption DEF Begin
<1>2. ASSUME NEW t \in Threads, (Close(t) \/ CloseAgain(t)) /\ UNCHANGED issued
      PROVE  Begin(IssuedEntries, t) /\ issued' \in 0 .. MaxSequence
  BY <1>2 DEF Begin
<1>3. QED
  BY <1>1, <1>2 DEF SharedNext, JournalNext

LEMMA SharedBegins == SharedInit => SharedInv
<1> SUFFICES ASSUME SharedInit PROVE SharedInv
  OBVIOUS
<1>1. file \in Seq(Cells(IssuedEntries)) /\ Whole(file) /\ InFile = <<>>
  BY EntriesAreEntries, CellsAreCells, EmptyFile DEF SharedInit, InFile
<1>2. AsyncInv(IssuedEntries, <<>>)
  BY <1>1, EntriesAreEntries, AsyncBegins DEF SharedInit
<1>3. QED
  BY <1>2, MaxSequenceAssumption DEF SharedInit, SharedInv

LEMMA SharedStep == SharedInv /\ [SharedNext]_sharedVars => SharedInv'
<1> SUFFICES ASSUME SharedInv, [SharedNext]_sharedVars PROVE SharedInv'
  OBVIOUS
<1>1. JournalNext(IssuedEntries) /\ issued' \in 0 .. MaxSequence
  BY NextIsJournal DEF SharedInv, sharedVars, JournalNext
<1>2. AsyncInv(IssuedEntries, <<>>)'
  BY <1>1, EntriesAreEntries, AsyncStep DEF SharedInv
<1>3. QED
  BY <1>1, <1>2 DEF SharedInv

\* The invariant of the shared journal: the types, the order in which entries are in the
\* file, the batch and the queue, and what a close finds (async_journal.rs).
THEOREM SharedInvariant == SharedSpec => []SharedInv
<1>1. QED
  BY SharedBegins, SharedStep, PTL DEF SharedSpec
-----------------------------------------------------------------------------
LEMMA SharedTypes == SharedInv => AsyncTypeOK
<1> SUFFICES ASSUME SharedInv PROVE AsyncTypeOK
  OBVIOUS
<1>1. TypeInv(IssuedEntries)
  BY DEF SharedInv, AsyncInv
<1>2. SequencesOf(IssuedEntries) \subseteq 0 .. MaxSequence
  BY MaxSequenceAssumption DEF SequencesOf, IssuedEntries
<1>3. QED
  BY <1>1, <1>2 DEF TypeInv, AsyncTypeOK, Messages

\* Every variable keeps its type, and neither the queue nor a batch outgrows its bound,
\* with any number of threads in append and close (struct AsyncJournal).
THEOREM AsyncTypes == SharedSpec => []AsyncTypeOK
<1>1. QED
  BY SharedInvariant, SharedTypes, PTL
-----------------------------------------------------------------------------
LEMMA WrittenIsSent ==
  ASSUME SharedInv
  PROVE  /\ Written = SubSeq(sent, 1, Stored(<<>>)) /\ Written = InFile
         /\ Stored(<<>>) = Len(Written) /\ Stored(<<>>) \in 0 .. Len(sent)
         /\ DOMAIN Written = 1 .. Stored(<<>>)
         /\ \A k \in 1 .. Stored(<<>>) : Written[k] = sent[k]
<1> DEFINE n == Stored(<<>>)
           s == sent
<1>1. n \in 0 .. Len(s) /\ InFile = <<>> \o SubSeq(s, 1, n) /\ s \in Seq(IssuedEntries)
  BY DEF SharedInv, AsyncInv, FileInv, TypeInv
<1> HIDE DEF n, s
<1>2. Len(s) \in Nat
  BY <1>1, LenProperties
<1>3. SubSeq(s, 1, n) \in Seq(IssuedEntries) /\ Len(SubSeq(s, 1, n)) = n
      /\ DOMAIN SubSeq(s, 1, n) = 1 .. n /\ \A k \in 1 .. n : SubSeq(s, 1, n)[k] = s[k]
  BY <1>1, <1>2
<1>4. InFile = SubSeq(s, 1, n)
  BY <1>1, <1>3, ConcatEmptySeq
<1>5. Written = InFile
  BY DEF Written, InFile
<1>6. QED
  BY <1>1, <1>3, <1>4, <1>5 DEF n, s

LEMMA SharedClose == SharedInv => CloseKeepsAccepted
<1> SUFFICES ASSUME SharedInv, joined, ~degraded, NEW e \in acked_at_close
             PROVE  \E i \in DOMAIN Written : Written[i] = e
  BY DEF CloseKeepsAccepted
<1>1. worker = "exited" /\ batch = <<>>
  BY DEF SharedInv, AsyncInv, OrderInv, EndInv
<1>2. SentUpTo(Stored(<<>>) + Len(batch), e)
  BY <1>1 DEF SharedInv, AsyncInv, CloseInv, AheadInv
<1>3. Stored(<<>>) + Len(batch) = Stored(<<>>)
  <2>1. Len(batch) = 0 /\ Stored(<<>>) \in Int
    BY <1>1, WrittenIsSent
  <2> DEFINE n == Stored(<<>>)
  <2> HIDE DEF n
  <2>2. n \in Int => n + 0 = n
    OBVIOUS
  <2>3. QED
    BY <2>1, <2>2 DEF n
<1>4. PICK k \in 1 .. Stored(<<>>) : sent[k] = e
  BY <1>2, <1>3 DEF SentUpTo
<1>5. QED
  BY <1>4, WrittenIsSent

\* When close returns, all that was acknowledged before it was called is in the file,
\* however the threads interleave: the Shutdown is behind it in the queue, and the worker
\* writes its last batch before it leaves (close, async_journal.rs:114-126).
THEOREM CloseLosesNothing == SharedSpec => []CloseKeepsAccepted
<1>1. QED
  BY SharedInvariant, SharedClose, PTL
-----------------------------------------------------------------------------
LEMMA DegradedStays ==
  ASSUME SharedInv, [SharedNext]_sharedVars, degraded
  PROVE  UNCHANGED <<file, durable>>
<1>1. worker \in {"leaving", "exited"}
  BY DEF SharedInv, AsyncInv, OrderInv, EndInv
<1>2. CASE UNCHANGED sharedVars
  BY <1>2 DEF sharedVars, vars, shared
<1>3. CASE \E t \in Threads : BeginAppend(t)
  BY <1>3 DEF BeginAppend, AppendBegin, shared
<1>4. CASE \E t \in Threads : Close(t) \/ CloseAgain(t)
  BY <1>4 DEF Close, CloseAgain, vars, shared
<1>5. CASE \E t \in Threads : Call(t)
  BY <1>5 DEF Call, AppendLoadClosed, AppendRefused, AppendTrySend, AppendStoreAccepted,
              CloseSendShutdown, CloseJoin, shared
<1>6. CASE Worker
  BY <1>1, <1>6 DEF Worker, Recv, Drain, DrainEnds, WriteRecord, WriteFails, PublishDurable, Exit
<1>7. QED
  BY <1>2, <1>3, <1>4, <1>5, <1>6 DEF SharedNext

\* A journal whose writer failed never writes again, nor moves durable, whatever is still
\* sent to it (async_journal.rs:206-211).
THEOREM NothingAfterAFailedWrite == SharedSpec => FailedWriteIsTheLast
<1>1. SharedInv /\ [SharedNext]_sharedVars => [degraded => UNCHANGED <<file, durable>>]_sharedVars
  BY DegradedStays
<1>2. QED
  BY <1>1, SharedInvariant, PTL DEF SharedSpec, FailedWriteIsTheLast
-----------------------------------------------------------------------------
LEMMA LogBegins == SharedInit => Log!LogInit
<1> SUFFICES ASSUME SharedInit PROVE Log!LogInit
  OBVIOUS
<1>1. Written = <<>>
  BY EntriesAreEntries, CellsAreCells, EmptyFile DEF SharedInit, Written
<1>2. QED
  BY <1>1 DEF SharedInit, Open, Log!LogInit

LEMMA LogStep ==
  ASSUME SharedInv, [SharedNext]_sharedVars
  PROVE  [Log!LogNext]_<<sent, Written, durable>>
<1>1. Written' = InFile' /\ Written = InFile
  BY DEF Written, InFile
<1>2. AsyncInv(IssuedEntries, <<>>)
  BY DEF SharedInv
<1>3. CASE UNCHANGED vars
  BY <1>3 DEF vars, shared, history, Written
<1>4. CASE \E t \in Threads : Begin(IssuedEntries, t)
  BY <1>1, <1>2, <1>4, StepOfBegin
<1>5. CASE \E t \in Threads : Call(t)
  <2>1. UNCHANGED <<InFile, durable>> /\ (sent' = sent \/ \E e \in IssuedEntries : sent' = Append(sent, e))
    BY <1>2, <1>5, StepOfCall
  <2>2. QED
    BY <1>1, <2>1 DEF Log!LogNext, Log!Accept
<1>6. CASE Worker
  <2> DEFINE n == Stored(<<>>)
  <2>1. \/ UNCHANGED <<InFile, sent, durable>>
        \/ /\ UNCHANGED <<sent, durable>>
           /\ n + 1 \in 1 .. Len(sent)
           /\ InFile' = Append(InFile, sent[n + 1])
        \/ /\ UNCHANGED <<sent, InFile>>
           /\ n \in 1 .. Len(sent)
           /\ durable' = sent[n].sequence
    BY <1>2, <1>6, EntriesAreEntries, WorkerLog
  <2>2. /\ n = Len(Written) /\ n \in 0 .. Len(sent) /\ \A k \in 1 .. n : Written[k] = sent[k]
    BY WrittenIsSent
  <2>3. Len(sent) \in Nat
    BY <1>2, LenProperties DEF AsyncInv, TypeInv
  <2> HIDE DEF n
  <2>4. CASE /\ UNCHANGED <<sent, durable>> /\ n + 1 \in 1 .. Len(sent)
             /\ InFile' = Append(InFile, sent[n + 1])
    <3>1. n < Len(sent)
      BY <2>2, <2>3, <2>4
    <3>2. Log!Store
      BY <1>1, <2>2, <2>4, <3>1 DEF Log!Store
    <3>3. QED
      BY <3>2 DEF Log!LogNext
  <2>5. CASE UNCHANGED <<sent, InFile>> /\ n \in 1 .. Len(sent) /\ durable' = sent[n].sequence
    <3>1. n \in 1 .. n /\ Len(Written) # 0
      BY <2>2, <2>3, <2>5
    <3>2. Last(Written) = sent[n] /\ Written # <<>>
      BY <2>2, <3>1 DEF Last
    <3>3. Log!Publish
      BY <1>1, <2>5, <3>2 DEF Log!Publish, Log!Last, Last
    <3>4. QED
      BY <3>3 DEF Log!LogNext
  <2>6. QED
    BY <1>1, <2>1, <2>4, <2>5
<1>7. QED
  BY <1>3, <1>4, <1>5, <1>6, NextIsJournal DEF SharedInv, sharedVars, JournalNext

\* The journal implements the log: entries reach the file in the order in which they were
\* sent, each once and without a gap, and durable only ever becomes the sequence of the
\* last record in the file, whatever the threads and the batches, and wherever a write
\* fails (worker_loop, async_journal.rs:156-218).
THEOREM JournalImplementsLog == SharedSpec => ImplementsLog
<1>1. SharedInv /\ [SharedNext]_sharedVars => [Log!LogNext]_<<sent, Written, durable>>
  BY LogStep
<1>2. QED
  BY <1>1, LogBegins, SharedInvariant, PTL DEF SharedSpec, ImplementsLog, Log!LogSpec
=============================================================================
