# A verification project for matchX

matchX is an order-matching engine: a library that takes commands (new order,
cancel, modify), keeps a limit order book, and returns events (accepted,
rejected, fill, cancelled, book update, stop triggered). This directory models
it in TLA+, from the arena slots to the journal on disk, checks it on small
instances with TLC, and proves with TLAPS the invariants of the arena, the lists,
the volume indices, the order book, the engine, the codec, the segmented and the asynchronous journal and
the pipeline.

Paths below are relative to the repository root; `book lib.rs` is
`crates/matchx-book/src/lib.rs`, and so on.

## 1. Inventory

| Component | State it keeps | Operations | Used by |
|---|---|---|---|
| types (`matchx-types`) | – | `Order::remaining`, `matchable_qty`, `is_valid_state`; `Command`, `MatchEvent` | all |
| arena (`matchx-arena`) | slots, free list through `next_free`, `len`, debug generations | `alloc`, `free`, `get`, `get_mut` | book, engine |
| order book (`matchx-book`) | dense window and sparse maps of levels, occupancy bitsets, cached best prices, `order_index`, volume indices | `insert_order`, `remove_order`, `reduce_order_qty`, `maybe_recenter`, `force_recenter`, liquidity queries | engine |
| volume indices (in `matchx-book`) | Fenwick tree per side over the window, sorted arrays and a tree for sparse prices | `add`, `sub`, prefix and range sums | book |
| level list (in `matchx-book`) | `head`, `tail`, `prev`, `next` through arena slots | link at tail, unlink anywhere | book |
| matching engine (`matchx-engine`) | book, arena, pending stops, last trade price, event buffer | `process` | pipeline, tests |
| matching policy (`policy.rs`) | – | `is_price_acceptable`; `match_order` is never called | engine |
| journal codec (`matchx-journal`) | – | framing, CRC, encode, decode | writer, readers |
| journal writer, segments | open file; segment size and number | `open`, `open_segmented`, `append`, rotation | async journal |
| journal readers | position | `read_all`, `next_entry` | replay |
| recovery | – | `recover_dir`, `recover_path`: truncate a torn tail | startup |
| async journal | bounded queue, `accepted`, `durable`, `closed`, `degraded`, worker thread | `append`, `close`, the worker's batches | pipeline |
| pipeline (`matchx-bench`) | engine, journal, `input_seq` | `process` | benchmarks, integration tests |

**How they interact.** `process()` is a plain call on one thread. It changes the
book and the arena together; the book names arena slots in its lists and in
`order_index`, and the engine's matching loop also writes orders in the arena
and level totals in the book directly, behind the book's own operations. Stop
orders re-enter the engine: draining triggered stops calls the function that
may trade and so trigger further stops. The only concurrency is the journal:
callers append to a bounded queue and a worker thread writes batches. The only
persistence is the journal's files. `AsyncJournal` writes one file through the
single-file mode of `JournalWriter`; the segmented mode is for direct users.

**What is hard here.**

* Several representations of one fact: the queue of a level, its total, two
  bitsets, a cached best price, two volume indices, each updated by hand on
  each path.
* Two places for a level (window and sparse map), and `force_recenter`, which
  moves all levels between them.
* A matching loop that edits the structure it walks, with four self-trade modes
  that leave it in different ways.
* A cascade of stops that reads a price before the orders it triggers change it.
* Fixed capacities (arena, event buffer, queue) against unbounded work.
* For the journal: races of `append` and `close`, batches that fail part way, a
  crash at any byte, recovery segment by segment.

`PROJECT.json` lists each of these at its line under `hazards`, with the
properties aimed at it.

**What makes each component correct.** Arena: it is a map; nothing leaks,
nothing is handed out twice. Book: the representations agree and time priority
is kept. Engine: never crossed, price and time priority, quantity conserved and
reported, no self-trades, every call returns, no reached stop left waiting.
Journal: what is reported durable is in the files, in order, and recovery
returns a prefix of what was accepted. Pipeline: replay rebuilds the engine.

## 2. Modules

| Module | Models | Role |
|---|---|---|
| `ArenaMap` | – | what an arena promises: a partial map of slots to orders |
| `Arena` | `matchx-arena` `Arena` | free list; implements `ArenaMap` |
| `LevelQueues` | – | what the lists of the levels promise: queues of ids |
| `LevelList` | linked lists and `order_index` of `matchx-book` | built on `Arena`; implements `LevelQueues` |
| `LevelListProofs` | – | proofs about `Arena` and `LevelList` |
| `VolumeIndex` | `FenwickTree`, `SparseVolumeIndex` | update and query loops against plain sums |
| `VolumeProofs` | – | proofs about `VolumeIndex` |
| `OrderBook` | `matchx-book` | the book, one action per operation, over queues and sums |
| `BookProofs` | – | proofs about `OrderBook` |
| `Engine` | `matchx-engine` | `process()` in the steps of its loops, on top of `OrderBook` |
| `EngineHistory` | – | `Engine` with an observer of commands and events |
| `EngineProofs` | – | proofs about `Engine` and `EngineHistory` |
| `Codec` | `codec.rs`, `recover_file` | records as cells, decoding, scanning and cutting a file |
| `CodecProofs` | – | proofs about `Codec` |
| `SegmentedWal` | `writer.rs`, `reader.rs`, `streaming_reader.rs`, `recovery.rs` | a directory of segments with torn writes and crashes |
| `WalProofs` | – | proofs about `SegmentedWal` |
| `DurableLog` | – | what the asynchronous journal promises |
| `AsyncJournal` | `async_journal.rs` | calls and worker, in their atomic accesses |
| `SharedJournal` | – | threads that share one `AsyncJournal`; implements `DurableLog` |
| `AsyncProofs` | – | the invariant of `AsyncJournal`, for both modules that use it; proofs about `SharedJournal` |
| `Pipeline` | `pipeline.rs` | engine and journal, crashes and restarts, on top of `AsyncJournal` |
| `PipelineProofs` | – | proofs about `Pipeline` |
| `MC…` | – | instances for TLC |

The modules stack up the way the code does. `Arena` as a map is what `LevelList`
uses; `LevelList` as queues and `VolumeIndex` as sums are what `OrderBook` uses;
`OrderBook` is what `Engine` uses; `Codec` is under both journals, and
`AsyncJournal` under `SharedJournal` and `Pipeline`.

Definitions marked `Mutant` sit next to the definition they distort. They are
not part of the model; each is a plausible slip that one of the properties must
notice.

### Arena

`data`, `next_free`, `free_head`, `len` and `generation` are the fields of the
struct; `returned` is the result of the last `alloc`. `u32::MAX` is the constant
`FREE_LIST_END`, which is only assumed to lie past the slots. The contract
"caller responsibility" of `free`, `get` and `get_mut` is the guard
`i \in Occupied`. The generation is a counter of debug builds of which only the
parity is read; the model counts up to `MaxGeneration` and then steps back,
which keeps the parity. The refinement mapping to `ArenaMap` forgets the links
and the free slots.

### LevelList

`insert_order` and `remove_order` as the arena calls they make: `alloc`, the
links of the new order, the link at the tail; the link in front, the link behind,
`order_index` and `free`. `step` and `slot` are the place in the call and the slot
it works on. `ARENA_NULL` and `None` are both `u32::MAX`, as in the free list.
The refinement mapping walks each level from its head; exactly one write of an
insertion and one of a removal change the walk, all others are stutters.

### VolumeIndex

One index at a time, dense or sparse, and `volume`, what was added and not taken
off. `UpdatePath` and `PrefixSum` follow the lowest set bit; prices enter and
leave the sorted array and the tree over the ranks is rebuilt. Nodes wrap at
`Modulus`; `overflowed` remembers that a total has reached it. Callers take off
at most what they added, and nothing for an order that fills completed.

### OrderBook

* An order is found by its id: `order_index` composed with the arena, whose
  behaviour as a map is what `Arena` establishes. `Cardinality(DOMAIN orders) <
  Capacity` is the condition under which `alloc` succeeds.
* A level is its total and the sequence of ids its intrusive list stands for.
* `dense[s]` is indexed by tick offset, `sparse[s]` by price; `occupied[s]` is
  the set of bits. The scans of the bitsets and of the ordered maps are `FindBest`.
* `depth` and `sparse_index` hold the quantity per tick and per price that the
  Fenwick trees hold; sums over them are the queries. They are not derived from
  the levels: fills bypass them in the code (`engine lib.rs:526-566`) and in the
  model (`FillOrder`).
* `panicked` is set where the code panics: a sparse price without an entry, an
  underflow, a window that would pass `u64::MAX`. Nothing happens after it.
* `InsertOrder`, `RemoveOrder`, `ReduceOrderQty`, `ForceRecenter` and
  `MaybeRecenter` are the public operations, each with everything it calls.
  `FillOrder` is the part of the matching loop that writes to the book.
* `BookNext` allows the operations in any order, with the contracts callers
  keep: a fill takes between one lot and all that is left, a reduction leaves
  something, a removed order is live. `UsesTheBook` checks that the engine keeps
  to them.

### Engine

A call of `process()` takes several steps: `pc` is where it stands, `taker`
holds the locals of `process_new_order`, `back` the place it returns to (the
drain after a command, or the side being drained).

| Code | Actions |
|---|---|
| `process` | `SubmitNew`, `SubmitCancel`, `SubmitModify` |
| `process_new_order`, up to the match | `PostOnly`, `StopLimit`, `Validate` |
| one turn of `match_against_book` | `StopMatching`, `DropStaleMaker`, `CancelOldest`, `CancelBoth`, `DecrementAndCancel`, `FillMaker` |
| remainder | `HandleRemainder` |
| `drain_stop_triggers` | `DrainStart`, `TriggerStop`, `DrainDone` |

`stop_bids` and `stop_asks` are two sequences kept in the order of the code,
including that an entry goes in front of entries with an equal price. `events`
is the filled part of the buffer; the sequence numbers and timestamps of events
are left out. An index past the buffer panics, so a call stops at that point
(`Running`).

`EngineHistory` adds an observer who folds the event stream into what is left of
each order (`ledger`), and who remembers the group each order was entered with
(`declared`) and which orders have been modified.

### Codec and SegmentedWal

A file is a sequence of cells: two for the length header, one for the sequence,
for each field of the payload and for the checksum. `Encode` and `Decode` keep the
tags, options and enum codes of `codec.rs`; the checksum is taken to be perfect. A
write may stop after any cell, and what was written stays (the code syncs nothing,
so this is a model of process crashes and I/O errors, not of power loss).

| Code | Definitions |
|---|---|
| `open_segmented` | `OpenSegmented` |
| `append`, `append_raw`, `rotate_segment` | `AppendCommand`; with a failure `AppendFails`, `RotateFails`; with a crash `CrashInAppend` |
| dropping the writer, a crash between calls | `Drop` |
| `recover_dir`, `recover_file` | `RecoverDir`, `CrashInRecovery`, `RecoverFile` |
| `read_all`, `next_entry` until the end | `ReadAll`, `Stream` |

A caller may go on after an error and may open a directory without recovering it,
as nothing in the code prevents either. `acked` is what `append` returned `Ok`
for, with a mark for records whose segment already held a torn one.

### AsyncJournal, SharedJournal and Pipeline

`append` is four actions (load `degraded`, load `closed`, `try_send`, store
`accepted`), `close` three (swap `closed`, `send`, `join`). The worker receives,
drains into its batch, writes record by record, publishes and exits; each write
may fail after any cell. The channel is a bounded sequence; leaving the loop drops
it with what it holds.

`SharedJournal` lets several threads append and close at any time. `Pipeline` has
one thread and the worker; `Process` counts, records the command as processed by the
engine and begins the append, `Drop` closes the journal, `Stop` ends the process at
any point, `RecoverPath` and `New` follow in any order. The engine is deterministic
sequential code, so its state is represented by the sequence of commands it
has processed.

## 3. What is checked

| Run | Instance | Shows |
|---|---|---|
| `slots` | 3 slots, 4 ids, 2 levels | every write of the linked lists keeps the levels queues that hold every order, and the index complete; `Inv`, the invariant that is proved for the arena; the arena implements the map |
| `book` | prices 0–3, window of 2 ticks, 3 ids, 2 slots, quantities up to 2 | `BookInv`, the invariant that is proved; totals and volume indices agree with it after any sequence of operations with moves of the window; time priority; no panic |
| `core` | 3 commands out of 14, cancels, modifications, reused ids | never crossed, price priority and limits, types of all locals, the book used within its contracts (under which run `book` shows that it does not panic) |
| `cascade` | 4 commands out of 8, 3 slots, three self-trade modes | every call returns, uncrossed, with no reached stop waiting, and within the contracts of the book; with groups, icebergs, empty post-only makers and a full arena |
| `events` | 3 commands out of 12, modifications (one to a quantity of 0, which is rejected), all four modes | events account for the quantity of each order at each step; a group never trades with itself unless an order was modified; what the cached best price may overlook |
| `wal` | 3 appends of 2 commands, segments of 16 cells, 2 faults | acknowledged records survive and stay in order; recovery leaves a readable journal and a true report; the readers agree |
| `shared` | 2 threads, queue of 2, batches of 2, 3 records | the journal implements `DurableLog`; nothing follows a failed write; `close` returns and keeps what was accepted; accepted records are written |
| `pipeline` | queue of 1, batches of 2, 3 commands in each of 2 sessions | what could be read when a session ended stays readable, through restarts over torn tails too; the lag does not underflow; and in sessions that began on whole records: a gapless one replays exactly, durable records can be read, an orderly drop loses nothing |
| `volumes` | 7 ticks, 5 sparse prices, volumes up to 3, modulus 16 | range queries are exact until a total overflows; no panic before |

Three further runs show that the code does something else than a document of the
repository says; see section 6.

**Bounds and why they are enough.** The window is two ticks with prices
on both sides of it, so a level can be dense, sparse below and sparse above, and
move between these. Two orders on the book of run `book` suffice for a shared
level, for two levels, and for a level that empties while another is live; a
removal from the *middle* of a queue needs three, and is covered by the proof,
which has no bound. Quantities up to two distinguish a partial from a complete
fill. Fills leave quantity behind in the volume indices, without limit;
`MaxExcess` bounds it in run `book`. Three commands make two makers and a taker,
four make a cascade of two stops. `ForceRecenter` is public and nothing in the
engine calls it or `MaybeRecenter`; the book run calls both at any time.

Run `slots` has three slots in up to two levels, so an order is removed from the
front, the middle and the end of a list and alone, while slots are reused; a fourth
id meets a full arena. Run `volumes` has seven ticks, all shapes of a
path in a tree that is no power of two, and enough volume to pass the modulus.
Run `wal` has one record of which two fill a segment exactly and one
that is larger than a segment, so rotation, a torn record in the middle of
the journal, good records behind it and records in the next segment all occur; two
faults allow a crash during recovery after a torn write. Run `shared` needs a queue
that fills, a batch that fills and one that does not, and a second thread between
any two accesses of the first. Run `pipeline` needs a refused command in the middle
of a session and a second session on the file of the first.

Runs `core` and `cascade` keep bids in or below the window and asks in or above
it. That is the regime in which the cached best price is the best price; `events`
leaves it and checks what remains true there (`BestSeesTheWindow`). `CancelNewest`
is left out of `cascade`: `cancel_newest_crosses` shows why. Runs `book` and
`volumes` have orders of at least one lot, because an empty post-only order can make
the code panic (section 6).

**Fairness.** In `Engine`, `WF_vars(Step)`: a call that has begun takes its next step.
`process()` is sequential code without a wait, a lock or an await, so nothing can
hold it up; clients need not send anything, so submissions have no fairness. For
`CallReturns` this leaves only one way to fail: a loop that goes round for ever.

In `SharedJournal`, the worker and, for each thread, the rest of a call it has begun
are weakly fair: these are operating-system threads, and one that can take a step is
scheduled. Starting a call is not fair. The blocking `send` and `join` are
steps that are not enabled until the worker has made room or has exited, so
`CloseReturns` is about the worker getting there. A write that fails is a
choice of the worker and no fairness prevents or forces it.

Deadlock is checked in all passing runs. In the engine a client may always ask to
cancel an order it has sent, so between calls there is always a step; within a call,
a deadlock would be a state for which no branch of the code was modelled. A journal
may always be closed again, reopened or recovered.

## 4. What is proved

All theorems hold for every value of the constants that satisfies the named
assumptions, and are checked to the last leaf. `PROJECT.json` lists the theorems, each
with the property it states where a run of section 3 checks that property as well.

**Arena and lists** (`LevelListProofs`, from `ArenaAssumption`: the list end lies
past the slots, an uninitialized slot holds no order; and `LevelAssumption`: an order
is an id, a level and two links).

* `ArenaInvariant`, `ArenaImplementsMap`: types are right, *some* enumeration of the
  free slots without repetition is what the links spell, `len` is the number of
  occupied slots, and generations are odd exactly for these. The enumeration is the
  strengthening: `alloc` needs that the head is free and that the rest of the chain
  lists the remaining free slots.
* `ListsRunOnAMap`: every write of `insert_order` and `remove_order` keeps the arena's
  contract, so both theorems above hold under the lists.
* `ListsMirror`, `IndexIsExact`: between calls `prev` mirrors `next` and `tail` mirrors
  `head`; `order_index` and the arena are inverse to each other, also between the link writes
  of a call. The first is far from inductive, since a call tears the lists apart between two
  writes. `ListInv` therefore speaks of the links *as the call will have left them*
  (`PrevOf`, `TailOf`): `remove_order`'s first write is then the removal, and its second
  changes nothing.
* `ListsImplementQueues`, `WalksAreComplete`: walked from its head, a level is a queue of
  `LevelQueues`, one write of each call changes it, and the walk meets every order of
  the level. Links that mirror each other would also allow a ring beside the list; so the
  invariant `LevelsAreChains` enumerates the slots of each level in order, without
  repetition and without omission. That the last of them is the tail, and that the
  neighbours of a removed order are its neighbours there, comes from `ListInv`.
  `ChainIsWalked` says that the recursive walk yields the enumeration, by induction on
  what is left of it.
* `LevelsStayLists`: mirrored links and complete walks together, as run `slots` checks them.

**Volume indices** (`VolumeProofs`, from `IndexAssumption`: the window has a tick, the
prices outside it are finitely many numbers and at least one, `Modulus` is positive).

* `DenseIndexIsExact`, `SparseIndexIsExact`, `SparseSubFinds`: the three properties of
  run `volumes`, for any number of ticks, any prices and any width of a node.

In `VolumeInv`, node `j` holds the sum of what is at `Below(j) + 1 .. j`, where
`Below(j)` is `j` without its lowest set bit; in the sparse index the prices ascend, are
exactly those with a volume, and the quantities next to them are the volumes. All of it
holds as long as no total has reached the width of a node. That an update keeps the nodes
is `UpdatePathCovers`: the nodes visited from `i` are exactly those whose range
holds `i`. The ranges end where lower bits begin, so that two of them are nested or apart;
this is proved by halving both indices (`InnerRangeEndsInside`, `OuterRangeCovers`).
The loops are recursive functions that read one value of lower rank, which are shown once
to be defined (`RecursionHasSolution`). The total of the book's volume fits a node only if
clients keep it so: nothing in the code bounds it, and the hazards say so.

**Order book** (`BookProofs`, from `BookAssumption`: the initial window ends
below the largest price, prices orders are entered at exist, `NONE` is no
number).

* `BookInvariant`: `BookInv == BookTypeOK /\ QueuesHoldTheOrders /\
  LevelsAreInPlace /\ BestIsLive` is inductive. No part stands alone. That the
  best price names a level with orders after a removal rests on the bitset and
  the sparse keys being exactly the levels with orders (`LevelsAreInPlace`);
  that these are kept by a removal rests on the removed order being in the queue
  of its own level and nowhere else (`QueuesHoldTheOrders`), without which the
  level written and the level emptied could differ; both need types.
* `BestPriceIsLive`: the last part by itself, which is what the matching loop
  relies on when it looks up the level at the best price.
* `TimePriority`: two orders that stay in a queue keep their order and a new one
  enters behind both. `RecenterMovesLevelsOnly`: a move of the window changes no
  order, no best price, and neither the queue nor the total of any level.
* `TotalsAreSums`: the total of a level is the sum of what its orders have left.
* `AvailableIsEnough`: the fill-or-kill query never answers *less* than the levels
  hold. `IndicesCover` says it for every tick and price, in one direction only,
  because fills bypass the indices; that it answers *more* is `fill_or_kill`.
* `BookNeverPanics`: no `expect` and no underflow check fires, *if* orders have at least
  one lot (`MinQuantity >= 1`) and `p + MaxTicks <= MaxPrice` for every price used. Both
  conditions are needed; section 6 and the hazards say what happens otherwise.

The proof has one lemma per operation, and under it one step per part of the
invariant. `WriteLevel` is treated once: the level at one price changes and every
other level stays, in whichever container they are. `ForceRecenter` is the case
where all levels keep their content and change their place. Sums are folds over
finite sets in the library; the lemmas at the top of the module say what adding and
removing an element does to one, by induction on the size of the set.

**Engine** (`EngineProofs`, from `EngineAssumption`: ids are numbers up to `MaxOrders`,
what clients send is typed, an order that carries a peak may be left without).

* `EngineImplementsBook`: `Spec => UsesTheBook`, so all that is proved of the book holds
  in the engine; the matching loop fills at most what the maker has left, which needs
  `BookInv` and the type of the taker. `EngineTypes`: the types and the locals of a call.
* `StopsAreQuiescent`: no reached stop waits when a call returns. `EngineInv` adds to the
  types and `BookInv` that the stop lists are sorted, so that an untriggered head means an
  untriggered list, and `BidsDrained`: while the asks are scanned no waiting bid stop
  is reached by the price the round began with. The round ends only when the price is
  still the same.
* `BestOverlooksOnlyBeyond`: the cached best price overlooks nothing but levels beyond
  the window on its better side.
* `PricePriority`, `BookIsUncrossed`: under `RestingOrdersInReach` (whatever may come to
  rest is priced where the scan of its side does not overlook it) a fill is at the
  best live price and within the taker's limit, and no bid reaches an ask; the second
  also without `CancelNewest` among the modes. Without these conditions the code
  does cross (`cancel_newest_crosses`, and section 6 on prices beyond the window).

**Events** (`EngineProofs`, from `HistoryAssumption`: ids are not reused, an order
carries a peak and a group; both theorems ask for `Capacity >= MaxOrders`, because a full
arena drops a resting taker without a word).

* `EventsAccount`: what the stream says is left of an order is what the engine holds of
  it, at every step of every call.
* `GroupsDoNotTrade`: no fill joins two unmodified orders of one group, in any mode.

`HistoryInv` is about places: an order is on the book, in the hands of
`process_new_order`, waiting as a stop, or nowhere, and never in two of these; its
account backs the quantity at that place; and the group it carries there is the one it
was entered with unless it was modified. That the places exclude each other is what
makes a sum over them one number, and `StopsApart` (no two stops under one id) is the
part of it that a reused id breaks, as the hazards note. The comparison of groups in the
matching loop then speaks about the groups that were declared.

**Codec** (`CodecProofs`, for every typed command).

* `CommandRoundTrip`: `decode` undoes `encode`. `AppendHidesNothing`: whatever is
  appended, what could be read is still read, and first. `RecordIsRead`,
  `TornRecordIsIgnored`: a record behind a whole file is read, any proper part of one is
  not, and the scan ends where it starts. `RecoveryIsExact`: `recover_file` keeps what
  can be read, leaves a file that scans to its end, and is idempotent.

`Scan` is a recursive function over the offsets of a file. What it yields is proved by
well-founded induction on the distance to the end, with the induction done
on a set of naturals (`WFMin`) since the library's induction theorems need an operator.

**Segmented journal** (`WalProofs`, from `WalAssumption`: the commands are typed, the bounds
are naturals).

* `AcknowledgedIsRecovered`, `RecoveredInOrder`, `RecoveryLeavesReadable`,
  `StreamIsConservative`, `ReportIsRight`: all five properties of run `wal`, for any
  commands, segment size and number of appends, failed writes, crashes, reopenings and
  interrupted recoveries.

`WalInv` says of each segment either that it scans to its end, or (`torn`) that the scan
ends at a proper beginning of a record behind which the file ends or another record starts
(`Stuck`). The second is the strengthening: that what is appended behind a torn record never
completes it into something readable is proved from where the fields of a record
stand, with the checksum taken to be perfect (`TornNeverDecodes`). `WalInv` also keeps the
records of every segment in order and in front of those of all later segments; that an append
cannot break this rests on the writer being at the last segment of the directory
(`WriterOK`), also after a failed rotation, which advances the index and not the file. What
the whole directory reads as is the concatenation of its segments in the order of the
listing; the lemmas about `Joined` say what it holds, how it is ordered, how it
ends and what its beginnings are, by induction on the number of segments.

**Asynchronous journal** (`AsyncProofs`, from `AsyncAssumption`: queue and batch hold at
least one entry, commands are typed; for any set of threads).

* `AsyncInv` says where each sent entry is: the file holds them up to a place, the batch
  goes on from there (`Taken`), the queue from the batch, and a `Shutdown` in the queue
  stands behind all that was acknowledged before `close`. `AsyncStep`: every step of a
  caller and of the worker keeps it. What the file held before is a parameter, so that
  the pipeline can use the same proof for its later sessions.
* `AsyncTypes`, `CloseLosesNothing`, `NothingAfterAFailedWrite`, and
  `JournalImplementsLog`: each step maps to a step of `DurableLog` or to a stutter.

**Pipeline** (`PipelineProofs`, from `PipelineAssumption`: the bounds are naturals, there
is a caller).

* `ContiguousReplay`, `ConfirmedStays`, `LagIsSafe`, `OrderlyDrop`, from `PipelineInv`:
  what could be read when any session ended (`confirmed`) is a prefix of what can be read;
  in a session that began on whole records the journal goes on from them (`Clean`, which is
  `AsyncInv` for that file), every entry of the session is the command of its number
  (`Replayable`), and what it reports durable is in the file (`Published`). In a
  session opened over a torn tail nothing can be said of the file but that it only grows,
  and `AppendHidesNothing` is all that is needed there; what such a session reports durable
  is lost (section 6).

**Only model-checked.**

* Liveness under fairness (`CallReturns`, `CloseReturns`, `AcceptedIsWritten`), which the
  prover does not support.

## 5. What is not modelled

Not modelled, and why:

* `HugePageArena`: the same free list over memory from `mmap`.
* `match_order` and `FillSink` in `policy.rs`: nothing calls them.
* `snapshot()`: it formats three counters. Latency metrics: no part of the system.
* Power loss: the code calls `flush`, which does nothing for a `File`, and never
  syncs, so nothing could be claimed after one.
* A channel of capacity 0, which would be a rendezvous; the sequence numbers and
  timestamps of events; a window at the top of `u64`.
* Collisions of the checksum, and damage to cells already written.
* Segment numbers above 99999999, where the order of names is no longer that of
  numbers.

Left to do: nothing that the prover can reach; every invariant and action property the
runs check is also proved, some of those of the engine and the book under the conditions
that section 4 names.

## 6. Where code and documents differ

`D` is `docs/plans/2026-02-26-matching-engine-core-design.md`, `H` is
`docs/superpowers/specs/2026-03-30-matchx-hardening-design.md`.

| Run | What the code does | What is said |
|---|---|---|
| `fill_or_kill` | Fills do not touch the volume indices, so a FOK order is accepted against quantity that is gone, filled in part and cancelled. | `D`:154 "reject if insufficient, else fill all" |
| `cancel_newest_crosses` | `CancelNewest` pre-checks the first maker only; behind another maker the loop breaks and the remainder rests across the spread. | `D`:264 "Bid/ask never cross" |
| `journal_hole` | `recover_dir` cuts every segment at its own first invalid record and keeps all later segments, so records behind a torn one are dropped and later ones kept. | `docs/plans/2026-03-02-latency-platform-design.md`:104 "On recovery, scan sequentially and truncate at first invalid/torn record." |

The following were met while modelling and have no run of their own.

Engine and book:

* Beyond the window: when the best level empties, a dense level is preferred to a
  better sparse one (`book lib.rs:516`) and the engine never recenters, where
  `engine lib.rs:404` says "the BBO is always current". `BestSeesTheWindow` is what
  remains true.
* The event buffer: a sweep of 32 makers emits 65 events and panics, where
  `engine lib.rs:110` says "emits ≤ 64 events".
* The `BookUpdate` of a resting order carries that order's quantity, where
  `types lib.rs:231` says "new total at this level".
* `process_modify` drops the self-trade group, where `D`:162 says "Orders with same
  `stp_group` don't trade."
* A full arena: `insert_order` returns `None`, the engine ignores it, and an order
  that was accepted and announced is neither on the book nor cancelled
  (`engine lib.rs:349`; `EventsAccountForOrders` fails with `Capacity = 1`).
* Stops are drained once per command against the last price, so one that a fill in
  the middle of a sweep reached may stay asleep, where `D`:149 says "after each fill".
* Two empty post-only orders at one sparse price: removing the first deletes the
  entry of the volume index, removing the second panics (`book lib.rs:110`; `NoPanic`
  fails with such orders), where `H`:125 says "no panics".

Journal and pipeline:

* An `append` that overlaps `close` may return `Ok` after the `Shutdown` is in the
  queue; its record is dropped with the channel (`async_journal.rs:82-92`).
* With several appending threads `accepted` may move backwards, since it is stored
  after the send (`async_journal.rs:98`).
* A command the journal refuses has already been processed by the engine
  (`pipeline.rs:28-29`).
* A restarted pipeline counts from 1 again in the same file, so sequences repeat
  (`pipeline.rs:22`).
* A pipeline opens the file as a crash left it (`writer.rs:37`). What a session writes and
  reports durable behind a torn record is never read again and is cut off by
  `recover_path`, where `docs/plans/2026-03-02-latency-platform-design.md`:98 says
  "Entries not yet durable may be lost on crash." and :99 "Recovery starts from last valid
  durable boundary." `ConfirmedSurvives` therefore asks for `DurableIsReadable` in clean
  sessions only; checked as an invariant by itself it fails, in the second session.
* `flush_interval_ms` and `segment_max_bytes` of `AsyncJournalConfig` have no effect.
