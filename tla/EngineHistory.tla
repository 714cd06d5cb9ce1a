--------------------------- MODULE EngineHistory ----------------------------
(***************************************************************************)
(* The matching engine together with an observer who sees the commands and *)
(* the event stream and nothing else.  The observer keeps what the stream  *)
(* says is left of each order, the group each order was entered with and   *)
(* whether it has been modified since.  Ids are not reused here.           *)
(***************************************************************************)
EXTENDS Engine

\* What an order carries besides its price and quantity (Order, types lib.rs:96-113).
ASSUME HistoryAssumption ==
  /\ ~ReuseIds
  /\ \A t \in Terms : DOMAIN t = {"peak", "stp_group"}

VARIABLES
  ledger,     \* id -> quantity left according to the events
  declared,   \* id -> self-trade prevention group in the NewOrder command
  modified    \* ids that a ModifyOrder command has replaced

history == <<ledger, declared, modified>>
hvars == <<vars, history>>

Account(l, e) ==
  CASE e.kind = "OrderAccepted" -> [l EXCEPT ![e.id] = e.qty]
    [] e.kind = "Fill" -> [l EXCEPT ![e.maker] = @ - e.qty, ![e.taker] = @ - e.qty]
    [] e.kind = "OrderCancelled" -> [l EXCEPT ![e.id] = @ - e.remaining]
    [] e.kind \in {"OrderModified", "StopTriggered"} -> [l EXCEPT ![e.id] = 0]
    [] OTHER -> l

HInit ==
  /\ Init
  /\ ledger = [id \in OrderIds |-> 0]
  /\ declared = [id \in OrderIds |-> STP_NONE]
  /\ modified = {}

\* A new call starts with an empty buffer; other steps append to it.
Observe(new) ==
  LET after[n \in 0 .. Len(new)] == IF n = 0 THEN ledger ELSE Account(after[n - 1], new[n])
  IN  ledger' = after[Len(new)]

HStep ==
  /\ Step
  /\ Observe(SubSeq(events', Len(events) + 1, Len(events')))
  /\ UNCHANGED <<declared, modified>>

HNext ==
  \/ HStep
  \/ /\ Submit
     /\ Observe(events')
     /\ declared' = IF submitted' # submitted
                    THEN [declared EXCEPT ![taker'.id] = taker'.terms.stp_group] ELSE declared
     /\ modified' = modified \cup {e.id : e \in {x \in ToSet(events') : x.kind = "OrderModified"}}

HSpec == HInit /\ [][HNext]_hvars /\ WF_hvars(HStep)
-----------------------------------------------------------------------------
\* What the code itself holds of an order: on the book, in the hands of the
\* matching loop, or waiting as a stop.
Waiting == UNION {{s} \X DOMAIN stops[s] : s \in Side}
Held(id) ==
  (IF id \in DOMAIN orders THEN Remaining(orders[id]) ELSE 0)
    + (IF pc \in {"Match", "Rest"} /\ taker.id = id THEN taker.qty ELSE 0)
    + SumFunctionOnSet([w \in Waiting |-> stops[w[1]][w[2]].qty],
                       {w \in Waiting : stops[w[1]][w[2]].id = id})

\* Quantity is conserved and the events account for all of it: at every step, what
\* the stream says is left of an order is what the engine holds of it, so no fill,
\* cancellation, modification or trigger goes unreported or is reported twice
\* (match_against_book, process_modify and drain_stop_triggers; "fills conserve
\* quantity", docs/superpowers/specs/2026-03-30-matchx-hardening-design.md:125).
\* DecrementAndCancel takes quantity off a maker and reports only the level
\* (lib.rs:496-519): under it the stream may say that more is left, and never less.
EventsAccountForOrders ==
  \A id \in OrderIds :
    IF stp_mode = "DecrementAndCancel" THEN ledger[id] >= Held(id) ELSE ledger[id] = Held(id)

FillsOfThisCall == {e \in ToSet(events) : e.kind = "Fill"}
SameGroup(a, b) == declared[a] # STP_NONE /\ declared[a] = declared[b]

\* Orders entered with the same group never trade with each other, whatever the mode
\* and wherever in the queue the group is met, unless one of them was modified, which
\* loses its group (match_against_book, lib.rs:447-521; the pre-check
\* stp_first_maker_matches, lib.rs:378-401; process_modify, lib.rs:704-721).
UnmodifiedGroupsDoNotTrade ==
  \A e \in FillsOfThisCall : {e.maker, e.taker} \cap modified = {} => ~SameGroup(e.maker, e.taker)
=============================================================================
