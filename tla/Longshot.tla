------------------------------ MODULE Longshot ------------------------------
(***************************************************************************)
(* bots/bot_g_longshot: the scan loop of the longshot bot, which buys the  *)
(* cheap side of a market in its last seconds, in paper or in live, with   *)
(* taker orders or with resting maker bids.                                *)
(*                                                                         *)
(* One process runs the loop; `pc' is the part of run_loop it is in.  The  *)
(* set _entered_this_session and the counts of a scan live in memory and   *)
(* die with the process; the orders, trades and positions tables survive.  *)
(* Portfolio.on_fill is one step: two processes whose sessions overlap     *)
(* inside it are not modelled.  An operator's script may run               *)
(* reconcile_paper_resolutions from a second process at any time.          *)
(*                                                                         *)
(* A market is traded as one token, and its clock as a phase: the jackpot  *)
(* window, the scalp window, past the entry and cancel lead, resolved.     *)
(* A share costs one unit.  Whether a market looks cheap (book, purity,    *)
(* CEX confirmation, fleet cap) is left open: a scan may skip any market.  *)
(***************************************************************************)
EXTENDS Integers, Sequences, FiniteSets, FiniteSetsExt

CONSTANTS
  Markets,
  FixedSize,      \* BOT_G_FIXED_TRADE_USD
  MaxConcurrent,  \* BOT_G_[LIVE_]MAX_CONCURRENT_POSITIONS
  MaxDaily,       \* BOT_G_[LIVE_]MAX_DAILY_ENTRIES, a function of `paper'
  MaxGross,       \* BOT_G_LIVE_MAX_DAILY_GROSS_NOTIONAL_USD
  Modes,          \* the pairs <<paper, maker>> the bot may be started in
  Bounds,         \* bound: the <<orders placed, matches or recorder prints>>,
                  \* a function of `paper'
  MaxDay,         \* bound: days
  MaxRows         \* bound: the orders and positions liveness is asked of

ASSUME LongshotAssumption ==
  /\ FixedSize \in Nat \ {0}
  /\ MaxConcurrent \in Nat /\ MaxDaily \in [BOOLEAN -> Nat] /\ MaxGross \in Nat
  /\ Modes \subseteq BOOLEAN \X BOOLEAN
  /\ Bounds \in [BOOLEAN -> SUBSET (Nat \X Nat)]
  /\ MaxDay \in Nat /\ MaxRows \in Nat

VARIABLES
  paper, maker,  \* _clob_effective_paper, BOT_G_EXECUTION_STYLE = "maker"
  phase,         \* [Markets -> 0..3]
  day,
  halted,        \* halt flag, emergency file or ROI kill, as the loop reads it
  orders,        \* the orders the CLOB wrapper has taken, in order
  left,          \* <<Nat, ...>>: what rests of each on the exchange (live)
  tape,          \* the matches of live orders, or the recorder's SELL prints
  row,           \* <<status, ...>>: the orders table; "absent" or PAPER_OPEN,
                 \* live, matched, PARTIAL, FILLED, CANCELLED, EXCHANGE_CLOSED
  trades,        \* the trades table
  positions,     \* the positions table, in id order
  entered,       \* _entered_this_session: {<<market, mode>>, ...}
  pc, pending,   \* the part of run_loop, the order of the entry in progress
  scan,          \* the counts read at the top of the scan
  settling       \* [{"bot", "script"} -> positions read for settlement]

world   == <<paper, maker, phase, day, halted, left, tape>>
tables  == <<row, trades, positions>>
memory  == <<entered, scan>>
vars == <<paper, maker, phase, day, halted, orders, left, tape, row, trades,
          positions, entered, pc, pending, scan, settling>>

Resolved == 3
LeadPast == 2   \* less than BOT_G_MIN_ENTRY_LEAD_SECONDS, cancel lead reached

Ids == 1 .. Len(orders)
OpenAt(m) == {p \in 1 .. Len(positions) :
                positions[p].market = m /\ positions[p].status = "OPEN"}
AllOpen == {p \in 1 .. Len(positions) : positions[p].status = "OPEN"}
Recorded == {o \in Ids : row[o] # "absent"}
Sizes(seq) == [i \in DOMAIN seq |-> seq[i].size]
SumSizes(S) == SumFunctionOnSet([t \in S |-> t.size], S)

NoScan == [open |-> 0, daily |-> 0, gross |-> 0, placed |-> 0,
           missed |-> [daily |-> 0, gross |-> 0],
           seen |-> [m \in Markets |-> Resolved]]

Init ==
  /\ \E mode \in Modes : paper = mode[1] /\ maker = mode[2]
  /\ phase = [m \in Markets |-> 0]
  /\ day = 1
  /\ halted = FALSE
  /\ orders = <<>> /\ left = <<>> /\ tape = <<>>
  /\ row = <<>> /\ trades = {} /\ positions = <<>>
  /\ entered = {}
  /\ pc = "top" /\ pending = 0
  /\ scan = NoScan
  /\ settling = [a \in {"bot", "script"} |-> {}]

-----------------------------------------------------------------------------
(* core/portfolio.py: on_fill, one transaction.                            *)

\* Row p after one more BUY, after a SELL; `buys' is history.
ToppedUp(p, t) == [p EXCEPT !.size = @ + t.size, !.buys = @ \cup {t.order}]
SoldDown(p, t) ==
  [p EXCEPT !.size = IF t.size < @ THEN @ - t.size ELSE 0,
            !.status = IF t.size < p.size THEN "OPEN" ELSE "CLOSED"]

\* _apply_to_position: the first OPEN row of the token, whatever row the
\* caller had in mind; a SELL that finds none only writes a warning.
Applied(t) ==
  LET open == OpenAt(t.market)
  IN  IF open # {} THEN [positions EXCEPT ![Min(open)] =
                           IF t.side = "BUY" THEN ToppedUp(@, t) ELSE SoldDown(@, t)]
      ELSE IF t.side = "BUY"
           THEN Append(positions, [market |-> t.market, size |-> t.size,
                                   status |-> "OPEN", buys |-> {t.order}])
           ELSE positions

\* Mutant: the idempotency test is gone.
OnFillTwice(t) ==
  /\ trades' = trades \cup {t}
  /\ row' = [o \in Ids |-> IF o # t.order THEN row[o]
                           ELSE IF t.size < orders[o].size THEN "PARTIAL" ELSE "FILLED"]
  /\ positions' = Applied(t)

\* Idempotent on trade_id; the order's status is decided by this fill alone.
OnFill(t) ==
  IF \E u \in trades : u.id = t.id THEN UNCHANGED tables
  ELSE /\ trades' = trades \cup {t}
       /\ row' = [o \in Ids |-> IF o # t.order THEN row[o]
                                ELSE IF t.size < orders[o].size THEN "PARTIAL"
                                ELSE "FILLED"]
       /\ positions' = Applied(t)

BuyOf(o, id, n) == [id |-> id, order |-> o, market |-> orders[o].market,
                    side |-> "BUY", size |-> n]
\* A synthetic SELL has no order.
SellOf(m, id, n) == [id |-> id, order |-> 0, market |-> m,
                     side |-> "SELL", size |-> n]

-----------------------------------------------------------------------------
(* The world: time, the exchange or the recorder, the operator.            *)

Advance(m) ==
  /\ phase[m] < Resolved
  /\ phase' = [phase EXCEPT ![m] = @ + 1]
  \* a resolved market's orders leave the book
  /\ left' = [o \in Ids |-> IF orders[o].market = m /\ phase[m] = Resolved - 1
                            THEN 0 ELSE left[o]]
  /\ UNCHANGED <<paper, maker, day, halted, orders, tape, tables, memory, pc,
                 pending, settling>>

NewDay ==
  /\ day < MaxDay /\ day' = day + 1
  /\ UNCHANGED <<paper, maker, phase, halted, orders, left, tape, tables,
                 memory, pc, pending, settling>>

\* The loop looks at the halts at the top of a scan only.
HaltChanges ==
  /\ pc = "top"
  /\ halted' = ~halted
  /\ UNCHANGED <<paper, maker, phase, day, orders, left, tape, tables, memory,
                 pc, pending, settling>>

\* Live: the exchange matches n shares of order o.
Match(o, n) ==
  /\ ~paper /\ <<Len(orders), Len(tape) + 1>> \in Bounds[paper]
  /\ n \in 1 .. left[o]
  /\ left' = [left EXCEPT ![o] = @ - n]
  /\ tape' = Append(tape, [of |-> o, market |-> orders[o].market, size |-> n])
  /\ UNCHANGED <<paper, maker, phase, day, halted, orders, tables, memory, pc,
                 pending, settling>>

\* Paper: the recorder logs a SELL print at or below the bids of market m.
Printed(m, n) ==
  /\ paper /\ maker /\ <<Len(orders), Len(tape) + 1>> \in Bounds[paper]
  /\ phase[m] < Resolved
  /\ tape' = Append(tape, [of |-> 0, market |-> m, size |-> n])
  /\ UNCHANGED <<paper, maker, phase, day, halted, orders, left, tables, memory,
                 pc, pending, settling>>

-----------------------------------------------------------------------------
(* run_loop, the entries.                                                  *)

\* The bot's orders of day d that have a row, and their dollars.
PlacedOn(d) == {o \in Recorded : orders[o].day = d}
GrossOn(d)  == SumFunctionOnSet(Sizes(orders), PlacedOn(d))

\* What a query adds to a scan, and what a failed one leaves out of it.
Queries == {"open", "daily", "gross"}
Count(q)  == IF q = "open" THEN Cardinality(AllOpen)
             ELSE IF q = "daily" THEN Cardinality(PlacedOn(day))
             ELSE IF paper THEN 0 ELSE GrossOn(day)
Got(q, failed)  == IF q \in failed THEN 0 ELSE Count(q)
Lost(q, failed) == IF q \in failed THEN Count(q) ELSE 0

\* The counts are read once, each by a query that returns 0 when it fails
\* (`missed' is history).  The markets and their modes are those of now_ms.
StartScan(failed) ==
  /\ pc = "top" /\ ~halted
  /\ pc' = "enter"
  /\ scan' = [open   |-> Got("open", failed),
              daily  |-> Got("daily", failed), gross |-> Got("gross", failed),
              placed |-> 0,
              missed |-> [daily |-> Lost("daily", failed),
                          gross |-> Lost("gross", failed)],
              seen   |-> phase]
  /\ UNCHANGED <<world, orders, tables, entered, pending, settling>>

\* Mutant: the entries of this scan are not added to the counts.
CapsFromDatabase ==
  /\ scan.open < MaxConcurrent
  /\ scan.daily < MaxDaily[paper]
  /\ paper \/ scan.gross + FixedSize =< MaxGross

CapsAllow ==
  /\ scan.open + scan.placed < MaxConcurrent
  /\ scan.daily + scan.placed < MaxDaily[paper]
  /\ paper \/ scan.gross + (scan.placed + 1) * FixedSize =< MaxGross

Key(m) == <<m, scan.seen[m]>>
Attempts(m) ==
  /\ pc = "enter" /\ CapsAllow
  /\ scan.seen[m] < LeadPast
  /\ Key(m) \notin entered

\* Mutant: only positions are looked up.
GateBlocksPositions(m) == OpenAt(m) # {}

\* The database gate: an OPEN position or an order in one of three statuses.
GateBlocks(m) ==
  \/ OpenAt(m) # {}
  \/ \E o \in Ids : /\ orders[o].market = m
                    /\ row[o] \in {"PAPER_OPEN", "OPEN", "PARTIAL"}

\* The loop goes to the next market: `seen' forgets this one.
Done(m) == [scan EXCEPT !.seen[m] = Resolved]

EntryBlocked(m) ==
  /\ Attempts(m) /\ GateBlocks(m)
  /\ entered' = entered \cup {Key(m)}
  /\ scan' = Done(m)
  /\ UNCHANGED <<world, orders, tables, pc, pending, settling>>

NewOrder(m, n) ==
  [market |-> m, size |-> n, day |-> day, from |-> Len(tape),
   unchecked |-> GateBlocks(m), missed |-> scan.missed]

\* place_limit is called: a maker bid has the fixed size, a taker order at most
\* what the ask offers.  The fresh clock is read just before.  A gate whose
\* query fails lets the entry through (`unchecked': it would have blocked it).
Submit(m, n) ==
  /\ Attempts(m)
  /\ phase[m] < LeadPast
  /\ <<Len(orders) + 1, Len(tape)>> \in Bounds[paper]
  /\ maker => n = FixedSize
  /\ orders' = Append(orders, NewOrder(m, n))
  /\ left' = Append(left, IF paper THEN 0 ELSE n)
  /\ row' = Append(row, "absent")
  /\ UNCHANGED <<paper, maker, phase, day, halted, tape, trades, positions,
                 entered, settling>>

PlaceEntry(m, n) ==
  /\ Submit(m, n)
  /\ pc' = "placed" /\ pending' = Len(orders')
  /\ UNCHANGED scan

\* The live call raises after the exchange took the order: the scan goes on,
\* the key is not added and nothing is counted.
PlaceEntryLost(m, n) ==
  /\ ~paper /\ Submit(m, n)
  /\ scan' = Done(m)
  /\ UNCHANGED <<pc, pending>>

\* _entered_this_session.add(key) and n_placed += 1.
EntryEnds ==
  LET m == orders[pending].market
  IN  /\ pc' = "enter" /\ pending' = 0
      /\ entered' = entered \cup {Key(m)}
      /\ scan' = [Done(m) EXCEPT !.placed = @ + 1]

EagerFills == paper /\ ~maker

\* The Order row and its entry_placed event are committed.
PersistEntry ==
  /\ pc = "placed"
  /\ \E s \in IF paper THEN {"PAPER_OPEN"} ELSE {"live", "matched"} :
       /\ s = "matched" => left[pending] = 0
       /\ row' = [row EXCEPT ![pending] = s]
  /\ IF EagerFills THEN pc' = "filling" /\ UNCHANGED <<pending, memory>>
                   ELSE EntryEnds
  /\ UNCHANGED <<world, orders, trades, positions, settling>>

\* The commit raises: the order has no row, the entry still counts.  An eager
\* fill would then break the trades' foreign key, which is caught as well.
PersistFails ==
  /\ pc = "placed"
  /\ EntryEnds
  /\ UNCHANGED <<world, orders, tables, settling>>

\* The paper fill of a taker order, and FILLED, which on_fill has written.
EagerFill ==
  /\ pc = "filling"
  /\ OnFill(BuyOf(pending, <<"fill", pending, 0>>, orders[pending].size))
  /\ EntryEnds
  /\ UNCHANGED <<world, orders, settling>>

\* on_fill raises: the order stays PAPER_OPEN.
EagerFillFails ==
  /\ pc = "filling"
  /\ EntryEnds
  /\ UNCHANGED <<world, orders, tables, settling>>

-----------------------------------------------------------------------------
(* run_loop, the reconciliation, in its order.                             *)

NextPart ==
  [enter  |-> IF paper THEN "book" ELSE "clob",
   book   |-> "prints", prints |-> "expire",
   clob   |-> "close",  close  |-> "expire",
   expire |-> IF paper THEN "profit" ELSE "resolve",
   profit |-> "resolve", resolve |-> "top", settle |-> "top"]

\* The loop leaves a part when it has done what it will do there.
Proceed ==
  /\ pc \in DOMAIN NextPart
  /\ pc = "settle" => settling["bot"] = {}
  /\ pc' = NextPart[pc]
  /\ scan' = NoScan
  /\ UNCHANGED <<world, orders, tables, entered, pending, settling>>

\* One try block holds the whole reconciliation: an exception ends it.
ReconcileFails ==
  /\ pc \in {"book", "prints", "clob", "close", "expire", "profit"}
  /\ pc' = "resolve"
  /\ UNCHANGED <<world, orders, tables, memory, pending, settling>>

\* simulate_paper_fills: an open paper order whose limit the last Book row
\* crosses is filled in full.
SimulateFill(o) ==
  /\ pc = "book"
  /\ row[o] \in {"OPEN", "PARTIAL", "PAPER_OPEN"}
  /\ OnFill(BuyOf(o, <<"fill", o, 0>>, orders[o].size))
  /\ UNCHANGED <<world, orders, memory, pc, pending, settling>>

BoughtBy(o) == SumSizes({t \in trades : t.order = o})
\* Mutant: what earlier passes have filled is forgotten.
RemainingNone(o) == orders[o].size
\* _simulate_maker_paper_fills: order size less the sum of its trades.
Remaining(o) == orders[o].size - BoughtBy(o)

\* Mutant: prints from before the placement count.
MakerFillAnyPrint(o, i) ==
  LET id == <<"maker", o, i>>
      n  == IF tape[i].size < Remaining(o) THEN tape[i].size ELSE Remaining(o)
  IN  /\ pc = "prints" /\ maker
      /\ row[o] \in {"PAPER_OPEN", "PARTIAL"}
      /\ Remaining(o) > 0
      /\ tape[i].market = orders[o].market
      /\ \A t \in trades : t.id # id
      /\ OnFill(BuyOf(o, id, n))
      /\ UNCHANGED <<world, orders, memory, pc, pending, settling>>

\* A print after the placement, used once per order.
MakerFill(o, i) ==
  LET id == <<"maker", o, i>>
      n  == IF tape[i].size < Remaining(o) THEN tape[i].size ELSE Remaining(o)
  IN  /\ pc = "prints" /\ maker
      /\ row[o] \in {"PAPER_OPEN", "PARTIAL"}
      /\ Remaining(o) > 0
      /\ i > orders[o].from /\ tape[i].market = orders[o].market
      /\ \A t \in trades : t.id # id
      /\ OnFill(BuyOf(o, id, n))
      /\ UNCHANGED <<world, orders, memory, pc, pending, settling>>

\* reconcile_live_fills with require_known_order; LiveLedger has the detail.
\* Any trade of the batch may be missing from it.
BookLiveFill(i) ==
  LET o == tape[i].of
  IN  /\ pc = "clob"
      /\ row[o] # "absent"
      /\ OnFill(BuyOf(o, <<"clob", 0, i>>, tape[i].size))
      /\ UNCHANGED <<world, orders, memory, pc, pending, settling>>

LiveOpen == {o \in Ids : row[o] \in {"OPEN", "PARTIAL", "live"}}

\* Mutant: only rows without any trade are closed.
ReconcileUnfilledOnly ==
  LET gone == {o \in LiveOpen : left[o] = 0 /\ BoughtBy(o) = 0}
  IN  /\ pc = "close" /\ gone # {}
      /\ row' = [o \in Ids |-> IF o \in gone THEN "EXCHANGE_CLOSED" ELSE row[o]]
      /\ UNCHANGED <<world, orders, trades, positions, memory, pc, pending,
                     settling>>

\* _reconcile_live_open_orders: one commit for all rows whose order is not on
\* the exchange's open list.
ReconcileOpenOrders ==
  LET gone == {o \in LiveOpen : left[o] = 0}
  IN  /\ pc = "close" /\ gone # {}
      /\ row' = [o \in Ids |-> IF o \in gone THEN "EXCHANGE_CLOSED" ELSE row[o]]
      /\ UNCHANGED <<world, orders, trades, positions, memory, pc, pending,
                     settling>>

Expired(o) ==
  /\ pc = "expire" /\ maker
  /\ row[o] \in {"PAPER_OPEN", "OPEN", "PARTIAL", "live"}
  /\ phase[orders[o].market] >= LeadPast

\* _cancel_expired_maker_orders: live, the row changes only when the exchange
\* cancelled a resting order.
CancelExpired(o) ==
  /\ Expired(o)
  /\ paper \/ left[o] > 0
  /\ left' = [left EXCEPT ![o] = 0]
  /\ row' = [row EXCEPT ![o] = "CANCELLED"]
  /\ UNCHANGED <<paper, maker, phase, day, halted, orders, tape, trades,
                 positions, memory, pc, pending, settling>>

\* The answer is lost, or the process dies before the commit.
CancelExpiredLost(o) ==
  /\ Expired(o) /\ ~paper
  /\ left[o] > 0
  /\ left' = [left EXCEPT ![o] = 0]
  /\ UNCHANGED <<paper, maker, phase, day, halted, orders, tape, tables, memory,
                 pc, pending, settling>>

\* _paper_take_profit_exits, in its slice of the last seconds.
TakeProfit(p) ==
  LET q == positions[p]
  IN  /\ pc = "profit" /\ q.status = "OPEN"
      /\ phase[q.market] = 1
      /\ \A t \in trades : t.id # <<"profit", p, 0>>
      /\ OnFill(SellOf(q.market, <<"profit", p, 0>>, q.size))
      /\ UNCHANGED <<world, orders, memory, pc, pending, settling>>

-----------------------------------------------------------------------------
(* Portfolio.reconcile_paper_resolutions, hourly in the loop (paper or     *)
(* live: it does not ask), and from the operator's script.                 *)

\* The OPEN rows and their sizes are read before Gamma is asked.
ReadOpenRows(a) ==
  settling' = [settling EXCEPT ![a] =
    {[pos |-> p, market |-> positions[p].market, size |-> positions[p].size] :
      p \in AllOpen}]

BotReads ==
  /\ pc = "resolve" /\ AllOpen # {}
  /\ ReadOpenRows("bot")
  /\ pc' = "settle"
  /\ UNCHANGED <<world, orders, tables, memory, pending>>

ScriptReads ==
  /\ settling["script"] = {} /\ AllOpen # {}
  /\ ReadOpenRows("script")
  /\ UNCHANGED <<world, orders, tables, memory, pc, pending>>

\* Mutant: one trade id for all settlements of a market.
SettleByMarket(a, r) ==
  /\ r \in settling[a] /\ phase[r.market] = Resolved
  /\ settling' = [settling EXCEPT ![a] = @ \ {r}]
  /\ OnFill(SellOf(r.market, <<"resolve", r.market, 0>>, r.size))
  /\ UNCHANGED <<world, orders, memory, pc, pending>>

\* Gamma says the market is closed: the size read is sold at the outcome.
Settle(a, r) ==
  /\ r \in settling[a] /\ phase[r.market] = Resolved
  /\ settling' = [settling EXCEPT ![a] = @ \ {r}]
  /\ OnFill(SellOf(r.market, <<"resolve", r.pos, 0>>, r.size))
  /\ UNCHANGED <<world, orders, memory, pc, pending>>

\* The market is still open, or Gamma does not answer.
SkipRow(a, r) ==
  /\ r \in settling[a]
  /\ settling' = [settling EXCEPT ![a] = @ \ {r}]
  /\ UNCHANGED <<world, orders, tables, memory, pc, pending>>

\* The process dies and systemd restarts it.
Crash ==
  /\ pc # "top" \/ entered # {}
  /\ pc' = "top" /\ pending' = 0
  /\ entered' = {} /\ scan' = NoScan
  /\ settling' = [settling EXCEPT !["bot"] = {}]
  /\ UNCHANGED <<world, orders, tables>>

-----------------------------------------------------------------------------
World ==
  \/ NewDay \/ HaltChanges
  \/ \E m \in Markets : Advance(m)
  \/ \E n \in 1 .. FixedSize :
       \/ \E o \in Ids : Match(o, n)
       \/ \E m \in Markets : Printed(m, n)

Entries ==
  \/ PersistEntry \/ EagerFill
  \/ \E failed \in SUBSET Queries : StartScan(failed)
  \/ \E m \in Markets : EntryBlocked(m) \/ \E n \in 1 .. FixedSize : PlaceEntry(m, n)

Reconciliation ==
  \/ Proceed \/ ReconcileOpenOrders \/ BotReads
  \/ \E o \in Ids : SimulateFill(o) \/ CancelExpired(o)
  \/ \E i \in 1 .. Len(tape) : BookLiveFill(i) \/ \E o \in Ids : MakerFill(o, i)
  \/ \E p \in AllOpen : TakeProfit(p)
  \/ \E a \in {"bot", "script"} : \E r \in settling[a] : Settle(a, r) \/ SkipRow(a, r)

LostAnswers ==
  \/ \E m \in Markets, n \in 1 .. FixedSize : PlaceEntryLost(m, n)
  \/ \E o \in Ids : CancelExpiredLost(o)
FailedWrites == PersistFails \/ EagerFillFails

Next ==
  World \/ Entries \/ Reconciliation \/ LostAnswers \/ FailedWrites
    \/ ScriptReads \/ Crash \/ ReconcileFails
Spec == Init /\ [][Next]_vars

\* The process stays up and its reconciliation does not raise; an answer may
\* be lost, a commit fail, Gamma be silent.
SteadyNext ==
  World \/ Entries \/ Reconciliation \/ LostAnswers \/ FailedWrites \/ ScriptReads

\* From some time on the process stays up; the loop then goes round, its hourly
\* pass comes due, and the CLOB and Gamma answer again and again.
LoopStep ==
  \/ PersistEntry \/ EagerFill \/ Proceed
  \/ \E failed \in SUBSET Queries : StartScan(failed)
  \/ \E r \in settling["bot"] : Settle("bot", r) \/ SkipRow("bot", r)
Fairness ==
  /\ WF_vars(LoopStep)
  /\ SF_vars(ReconcileOpenOrders) /\ SF_vars(BotReads)
  /\ \A p \in 1 .. MaxRows :
       SF_vars(\E r \in settling["bot"] : r.pos = p /\ Settle("bot", r))
FairSpec == Spec /\ Fairness /\ <>[][SteadyNext]_vars

-----------------------------------------------------------------------------
(* Properties.                                                             *)

\* The daily caps hold for the orders the ledger knows, whatever crashes,
\* failed commits and midnights fall between the count and the orders: a scan
\* counts once and then adds up what it places (run_loop's caps).  A day exceeds
\* a cap at most by what the failed query of one of its orders did not count.
RecordedWithinDailyCaps ==
  \A d \in 1 .. MaxDay :
    LET placed == {o \in Recorded : orders[o].day = d}
    IN  placed # {} =>
          /\ \E o \in placed :
               Cardinality(placed) =< MaxDaily[paper] + orders[o].missed.daily
          /\ paper \/ \E o \in placed :
               SumFunctionOnSet(Sizes(orders), placed)
                 =< MaxGross + orders[o].missed.gross

\* The orders through which the bot is in market m.
Engaged(m) == {o \in Ids :
  orders[o].market = m /\ \/ row[o] \in {"PAPER_OPEN", "PARTIAL"}
                          \/ \E p \in OpenAt(m) : o \in positions[p].buys}

\* In paper only a gate whose query failed lets a second order into a market
\* the bot is in, also after a restart that forgets the session's keys and when
\* a second mode's window opens ("check BOTH Position AND Order",
\* _try_enter_market).
PaperEntersOnce ==
  paper => \A m \in Markets : \A o, q \in Engaged(m) :
    o < q => orders[q].unchecked

Bought(m) == SumSizes({t \in trades : t.market = m /\ t.side = "BUY"})
Sales(m)  == {t \in trades : t.market = m /\ t.side = "SELL"}
Shown(m)  == SumFunctionOnSet(Sizes(positions), OpenAt(m))

\* A settlement and another SELL of one market: one was decided on a row the
\* other had sold.
Oversold(m) == \E t, u \in Sales(m) : t # u /\ t.id[1] = "resolve"

\* The open rows of a market show what the booked trades bought and did not
\* sell, whatever is replayed after a crash (on_fill's trade_id test).  Only
\* where a settlement follows another sale do they show more: the shares it
\* sells beyond the row are dropped (_apply_to_position).
PositionsMatchTrades ==
  \A m \in Markets :
    /\ Shown(m) + SumSizes(Sales(m)) >= Bought(m)
    /\ Oversold(m) \/ Shown(m) + SumSizes(Sales(m)) = Bought(m)

\* What order o is booked for, but for the fill of a Book row, which takes the
\* whole order whatever it has got before (simulate_paper_fills).
BookedApart(o) == SumSizes({t \in trades : t.order = o /\ t.id[1] # "fill"})

\* Matches and prints together never fill an order for more than its size,
\* whatever else has filled it (_simulate_maker_paper_fills: "remaining").
FillsFitOrder == \A o \in Ids : BookedApart(o) =< orders[o].size

\* Shares of the prints a maker order could have been filled by.
PrintedFor(o) ==
  SumFunctionOnSet(Sizes(tape),
    {i \in orders[o].from + 1 .. Len(tape) : tape[i].market = orders[o].market})

\* What a resting paper bid is booked for, but for a Book row's fill, was
\* printed after its placement (_simulate_maker_paper_fills: "placed_at").
MakerFillsHavePrints ==
  paper /\ maker => \A o \in Ids : BookedApart(o) =< PrintedFor(o)

\* "A maker BUY can be filled only by a later taker SELL print at or below our
\* bid" (_simulate_maker_paper_fills).
MakerFillsWerePrinted ==
  paper /\ maker => \A o \in Ids : BoughtBy(o) =< PrintedFor(o)

SettledOnce(p) == \E t \in trades : t.id = <<"resolve", p, 0>>

\* A position of a resolved market does not stay open unsettled: the hourly pass
\* gets to it, unless the bot is halted.  It may stay open settled: a settlement
\* of the script that read the row before its last fills takes the trade id.
ResolvedIsBooked ==
  \A p \in 1 .. MaxRows :
    (p \in AllOpen /\ phase[positions[p].market] = Resolved)
      ~> (p \notin AllOpen \/ SettledOnce(p) \/ halted)

\* A live row whose order has left the exchange does not stay open, even when
\* a late fill makes it PARTIAL again (_reconcile_live_open_orders).
GoneRowCloses ==
  \A o \in 1 .. MaxRows :
    (o \in Ids /\ ~paper /\ o \in LiveOpen /\ left[o] = 0)
      ~> (o \notin LiveOpen \/ halted)
=============================================================================
