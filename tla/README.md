# A verification project for polymarket-bot-lab

The repository runs a fleet of trading bots against Polymarket's CLOB from one
wallet.  Every bot is a process of its own; they share one SQLite database and
the wallet.  The money is lost or kept where these processes, the exchange and
the database meet: when a fill is booked, when a bot is halted, when a cap is
checked.  This directory models those meetings in TLA+, checks them with TLC on
small instances and proves the central ones with TLAPS for every instance.

## 1. Inventory

| Part | State it keeps | Operations | Talks to |
|---|---|---|---|
| `core/portfolio.py` | `trades`, `positions`, order statuses, the fill cursor (an event row) | `reconcile_live_fills`, `on_fill`, `_apply_to_position`, `on_redeem`, paper fills and settlements, wallet sync, profit accounting | CLOB wrapper, database |
| `core/clob_v2.py` | none (rate bucket, tick cache) | `place_limit`, `cancel_order`, `cancel_all`, `get_user_orders`, `get_user_trades` | the exchange |
| `core/db.py` | the SQLite file: WAL, foreign keys on, autoflush off | sessions, migrations | everyone |
| `bots/bot_d_weather/maker_live.py` | nothing across scans but the database | `scan_once`: sync, reconcile, cancel stale, quote | portfolio, fleet cap, CLOB |
| `core/watchdog.py`, `bots/watchdog_daemon.py` | `halt_flags`, alert memory | `run_once`, `_halt`, `unhalt`, `dispatch_cancel` | database, CLOB |
| `core/emergency_halt.py` | the row `__ALL__` of `halt_flags`, or the variable `EMERGENCY_HALT` | set, clear, test (fails open) | every bot |
| `core/fleet.py` | none | `snapshot_fleet_exposure`, `check_fleet_exposure` | database |
| `core/exec_policy.py` | active limits, recent cancels | ladder steps, cancel-storm breaker | not wired into a bot |
| `bots/bot_d_weather/executor.py`, `__main__.py` | orders, positions | `run_loop`: reconcile, wallet sync, enter, review orders, review positions | portfolio, fleet cap, CLOB |
| `bots/bot_l_complete_set` | order rows of two-leg bundles, attempt events | a timer's pass: reconcile, `place_buy_bundle` | CLOB, database |
| `bots/bot_g_longshot` | `_entered_this_session`, the scan's counts, orders, trades, positions | `run_loop`: entries, fills, exchange reconciliation, expiry, settlement | CLOB or recorder, portfolio, halt flags |
| `core/notify.py` | pending confirmations | commands, confirmed unhalt | watchdog |
| `core/clob.py` | token bucket | `acquire` | every caller |
| recorders and ingestion | append-only tables | capture | external feeds |
| `scripts/reconcile_paper_resolutions.py` | `trades`, `positions` | settles resolved positions, with `--execute` | portfolio, Gamma |
| dashboard, other scripts, research, backtests | none of the system's | reports; operators' repairs by hand | database |

How they interact: a bot places an order with the CLOB and then commits an
`orders` row; later it polls the wallet's trades and books those that are its
own; every entry first tests the halt flags and (for most bots) the fleet cap,
which is computed from all bots' rows; the watchdog cancels and halts through
the same database and the same wallet.  Nothing is sent from process to
process: the database and the wallet are the only channels.

What is hard here, and hence what the modules are about:

- *Two copies of the truth.*  An order is on the exchange before it has a row,
  and a fill is on the tape before it is booked.  Crashes and lost answers fall
  between.  Correct means: no fill lost, doubled or booked by the wrong bot; no
  order that rests forgotten.
- *Sessions that read what they have not written.*  With autoflush off, a batch
  of fills chooses position rows by committed columns only.
- *Read, decide, act.*  Halt flags and caps are read long before the order they
  permit reaches the exchange.  Correct means: what goes wrong is bounded by
  what happened in between.
- *Two sources that disagree.*  The order list, the trades, the wallet's holdings
  and the cancel's answer each say something of an order at a moment of its own.
  Correct means: no status claims more than the trades, nothing is sold twice,
  and nothing that is gone stays open for good.
- *Replays.*  Paper fills and settlements are synthesised, partly, and again
  after every crash.  Correct means: each share is applied once.
- *Shared rates.*  Threads leave the bucket's lock between the count and the
  sleep.  Correct means: the rate holds and nobody waits for ever.
- *A daemon that must act in spite of itself.*  The watchdog's checks raise, its
  cancels fail, operators unhalt under its hands.  Correct means: a condition
  that persists halts its bots, and a flag that is up lets one order pass at most.

`PROJECT.json` lists the components with their status and the hazards at their
lines.

## 2. Modules

| Module | Models | Composition |
|---|---|---|
| `LiveLedger` | live fills from the exchange's tape to the ledger of one bot, beside a second bot of the wallet | |
| `MakerLive` | the scan loop of bot D's maker | EXTENDS `LiveLedger`, whose actions it schedules |
| `HaltControl` | watchdog, daemon, halt flags, emergency flag, the bots' tests | |
| `FleetCap` | the fleet's exposure check between any number of bots | |
| `WeatherLive` | the live loop of bot D's taker | EXTENDS `LiveLedger`, whose actions it schedules, and adds three writers |
| `CompleteSet` | a pass of bot L's live probe | EXTENDS `LiveLedger` likewise |
| `Longshot` | the loop of bot G, paper and live, taker and maker | |
| `TokenBucket` | the rate limiter's threads | |
| `FillJournal` | what the ledger promises about fills, in three variables and a tape | implemented by `LiveLedger` and `WeatherLive` (`BooksLikeJournal`) |
| `RateMeter` | what a rate limiter promises, in one variable | implemented by `TokenBucket` (`GrantsKeepToMeter`) |
| `SumLemmas` | nothing: the laws of sums over finite sets, which the proofs cite | |
| `LiveLedger_proofs` | theorems on the ledger and its refinement of the journal | EXTENDS `LiveLedger`, `SumLemmas` |
| `BuyingBots_proofs` | theorems on the two bots that only buy, the maker and bot L | EXTENDS `MakerLive`, `CompleteSet`, `LiveLedger_proofs` |
| `WeatherLive_proofs` | theorems on the weather taker and its refinement of the journal | EXTENDS `WeatherLive`, `LiveLedger_proofs` |
| `FleetCap_proofs`, `Longshot_proofs` | theorems | EXTEND their module and `SumLemmas` |
| `HaltControl_proofs`, `TokenBucket_proofs` | theorems | EXTEND their module |
| `MC*` | instances: named orders and bots for TLC | EXTEND their module |

### LiveLedger

State and code:  `accepted`, `left` and `tape` are the exchange (external: known
through `core/clob_v2.py`); `row`, `trades`, `positions`, `cursor` are the four
tables' committed content; `fetched`, `todo`, `booking`, `work`, `marks` are one
SQLAlchemy session of `reconcile_live_fills`; `pc` and `pending` are where the
bot's thread stands.  `Fetch` reads the cursor and polls; `SkipTrade` and
`BookTrade` are one turn of the loop, in any order of the answer; `Commit` makes
trades, statuses, positions and cursor visible together; `Abort` is a flush that
raises, with the rollback; `Crash` drops whatever is not committed.  `PlaceLimit`
and `RecordOrder` are apart because the row is committed after the call;
`PlaceLimitLost` and `CancelOrderLost` are the calls whose answer never comes.

`stale` stands for SQLite's rule that a WAL read snapshot which is older than the
last commit cannot be upgraded to a write: the savepoint holds a snapshot from
its first query on, so the other bot's commit makes the flush raise.  This rule
is what keeps the other bot's fills out of the ledger when its row appears in
mid-session, and `OnlyOwnFillsBooked` depends on it.

Abstractions: prices, fees and cost bases are left out (sizes are kept); sizes
are small naturals for the decimal shares; an order id is used once; timestamps
are whole seconds because the CLOB's `match_time` is.  The status the CLOB
answers is `live` or, for an order matched at once, `matched`.

### MakerLive

`step` says which part of `scan_once` runs; each part is LiveLedger's action at
that point of the loop.  Sells are not made by this bot.  Which market is
quotable is left open, so the caps, the dedupe and the concurrency limit are the
only things that hold it back.  One share costs one unit.

### WeatherLive

`step` goes round the parts of `run_loop` and `run_scan`.  `LoopFetch`, `LoopBook`,
`Enter`, `Record` and `Exit` are LiveLedger's actions at their place; `SyncBuys`
(`_sync_live_open_order_statuses`), `WalletSync`
(`reconcile_live_positions_against_wallet`) and the cancels are writers LiveLedger
does not have, so the ledger's theorems do not carry over by themselves and
`WeatherBooksLikeJournal` is checked anew.  The cancels close the row whatever
`cancel_order` answers, as the code does.  Only the live branch is modelled.
Which edge collapses, which price is hit and how old an exit is are left open, so
any open order may be cancelled and any position sold.  `CLOSED_EXTERNAL_SYNC` is
`CLOSED`: every reader asks for `OPEN`.  The Data API answers with what the wallet
holds now.

### CompleteSet

A pass is a process started by a timer: `Start` (a signal), the reconciliation,
`PlaceYes`, `PlaceNo` or `PlaceNoFails` and `CancelYes`, then `Save`, the one commit
of the rows and the event; `PassCrash` ends it anywhere.  The status the pass
writes, `OPEN`, is LiveLedger's `live`: both are open to every reader here.  A share
of a leg costs one unit.  `OpenExposure` counts open orders twice because
`current_open_exposure_usd` adds them to a sum that holds them.

### Longshot

`pc` is the part of `run_loop`; `entered` and `scan` are the process's memory;
`orders`, `left` and `tape` are what the exchange (live) or the recorder (paper)
knows; `row`, `trades`, `positions` are the tables.  `OnFill` is `Portfolio.on_fill`, a
transaction, and it is atomic between processes, as the batch of a live
reconciliation, here trade by trade, is in LiveLedger's detail.  A market is one
token and its clock a phase.  The tests that make a market look cheap are left
open.  Each query may fail: a count or a sum that does is taken for zero and the
scan goes on (`StartScan`, with any set of failed queries), and a gate that does lets
the entry through (`Submit` does not ask `GateBlocks`).  What the caps and the gate
would have said is kept with the order as history, `missed` and `unchecked`.  The
halts are read at the top of a scan only, so `OneOrderAfterHalt`, which is about bots
that read them for each quote, does not speak of this bot.  `ReadOpenRows` and
`Settle` are apart because Gamma is asked in between; the bot's hourly pass and the
operator's script do so in two processes.  `on_fill` is one step: two sessions of it
that overlap, each having read the row before the other writes it, could lose an
update, and are left out.  `SimulateFill` is a `Book` row of the bot's own or of another
process (`core/portfolio.py:929`), `MakerFill` a print of the recorder.

### TokenBucket

A token is `Cost` ticks of refill, so all times are integers.  `since`, `left` and
`nap` are relative to now.  `Take` and `ComeShort` are the two outcomes of the
locked region, `GiveUp` and `Sleep` what follows outside it.  `acquire` is called
with its defaults everywhere (`n = 1`, blocking), so only that is modelled; its
`False` is ignored by every caller.

### HaltControl

A check stands for one family of kill messages.  A tick runs all checks, and
only then acts: for each bot in scope `Decide` (read the flag, skip the cancel or
not), `CancelAll` / `CancelSkipped`, `ReadFlag` and `WriteFlag`.
Read and write are two steps because the driver opens no transaction for a
SELECT; the write carries only the columns the session changed, which is how
SQLAlchemy emits the UPDATE.  `CheckRaises` ends the daemon, since nothing around
`run_once` catches it; the next daemon starts with a new tick.

A bot reads its own flag and the repo-wide one in two sessions, in an order that
differs between bots (`halt_reason`, `try_enter`): `TestFlag` is one of the two, and what
either reads may change before the other is read.  `EmergencyUnread` is the failed
read of the repo-wide flag, which counts as clear.  `late` counts for each flag the
orders a bot placed while it was up, having read it clear; `calls` the `cancel_all`
calls of the daemon now alive.  Both are history and saturate just past the bound
of their property.

The book is not part of this module: no halt test and no halt reads it, and a failed
`cancel_all` changes nothing in what the watchdog does next.  That a halted bot's book
empties is promised nowhere and is not claimed here: `cancel_all` comes before the
flag, an order may be placed in between, later ticks skip the cancel, and a maker's
own review cancels only orders that have an open row.

### FleetCap

A check is two reads at two moments, `ReadPositions` and `ReadOrders`; the
verdict, the submission and the commit of the row are further steps of each bot.
Every bot's positions and orders change in between.  `behind` and `freed` are
history: what the caller's mode gained and gave up where the check could not see
it.  The row is stored with the status the CLOB answered: `live` counts like `OPEN`,
lower-case `matched` is in no list of open statuses, so such an order is in neither
sum (`Uncounted`) until its fill is booked.  Which mode a bot is in
(`_bot_is_paper`, from registry and environment) is a constant.  An order's notional is a small natural; how fills become positions is
LiveLedger's business and is one atomic step here.

## 3. What the runs check

| Run | Result | Shows |
|---|---|---|
| `ledger_faults` | holds | type, `BookedBehindCursor`, `EachBuyInOneRow`, `OnlyOwnFillsBooked`, `RestingRowIsOpen`, `SkippedSharesItsSecond`, `FilledIsFinal`, `BooksLikeJournal` under all faults, without `require_known_order`, two trades per second |
| `ledger_seconds` | violated | `NoFillSkipped`: a fill in the cursor's own second is lost |
| `maker_faults` | holds | `OneQuotePerMarket`, `QuoteWithinCap`, `SharesNotUnderstated` under the scan's schedule, all faults, two trades per second |
| `longshot_faults` | holds | `RecordedWithinDailyCaps` across midnights, restarts, failed commits, failed counts, two settling processes |
| `longshot_progress` | holds | `PaperEntersOnce`, `PositionsMatchTrades`, `FillsFitOrder`, `MakerFillsHavePrints`, `ResolvedIsBooked`, `GoneRowCloses` for resting bids in paper and live, with `Book` rows and the settlement script |
| `longshot_prints` | violated | `MakerFillsWerePrinted`: a `Book` row fills a resting bid without any print |
| `weather_progress` | holds | `FilledMeansBooked`, `ExitNotDoubled`, `WeatherBooksLikeJournal`, `GhostRowCloses`, `GoneExitCloses`, `EveryTradePassed` with lost answers and restarts |
| `complete_set` | holds | `SignalBoughtOnce`, `DailyCapHolds`, `OpenCapHolds`, `LegNotWrittenOff` for two bundles over two days |
| `bucket_fair` | holds | type, `GrantsKeepToMeter`, `AcquireReturns` for three threads |
| `halt_faults` | holds | type, `OneOrderAfterHalt`, `FewCancels`, `EveryKillHalts` with two checks that raise and overwrite each other's reason, hand-made halts, failed reads, restarts |
| `fleet_faults` | holds | type, `OvershootIsUnseen`, `RefusedOnlyIfFull` for three live bots and one on paper, orders stored as `matched` among them |
| `halt_raises` | violated | `FailsClosed`: a failed check need not halt anybody |

The three violated runs are the findings of `PROJECT.json`.  `core/watchdog.py:15`
promises that an uncaught exception halts, and it does not.  `reconcile_live_fills` is
to push "each" trade into `on_fill` (`core/portfolio.py:761`), but the filter `ts <= since`
(`core/clob_v2.py:664`) drops one that is matched in the second of the newest trade
already fetched.  And `bots/bot_g_longshot/__main__.py:1452` says that a maker bid "can
be filled only by a later taker SELL print", while the same loop lets
`simulate_paper_fills` fill it from a `Book` row.

### Where the properties stop holding

A property that holds has a border, and for each of these the other side is one
edit of a configuration away:

- `NoFillSkipped` fails (`ledger_seconds`), `SkippedSharesItsSecond` holds: a fill is
  lost only to an earlier trade of its own second.
- `SharesNotUnderstated`: check it in `ledger_faults`, whose bot also sells.  A sell
  that empties a row closes it in the session only, and a later buy of the batch
  finds the row by its committed status and tops up a CLOSED row
  (`core/portfolio.py:407`).
- `QuoteWithinCap` holds, and without `Uncounted` it would not: the cap is exceeded
  exactly by what the database could not know, orders without a row and
  fills of rows that the sync closed before they were booked.
- `OvershootIsUnseen` holds, and without `behind` it would not: two bots that check
  before either row is committed both pass, although `core/fleet.py:28-32` argues
  that the last submitter sees the other's order; and a row stored as `matched` is
  in no later check's sum.
- `RecordedWithinDailyCaps` and `PaperEntersOnce` hold but for failed queries: without
  `missed` and `unchecked` both fail, as one query that raises voids a cap or the gate.
- `ResolvedIsBooked` lets a position stay open that is settled.  Without the
  disjunct `SettledOnce(p)` it fails: the script sells the size it read before the bot
  booked the rest of an order; the trade id `paper-resolve-<position>` is then used
  up, and what remains of the row stays open for ever, although
  `scripts/reconcile_paper_resolutions.py:15` calls itself "Safe to re-run".  The bot
  alone is safe: it books and settles in one thread.
- `PositionsMatchTrades` exempts a market with a settlement beside another sale
  (`Oversold`), where the rows may show more than the trades: the script reads an
  open row, the bot takes its profit and closes that row, the market resolves, and
  the script's settlement books a second SELL, which no row held.
- `FillsFitOrder` and `MakerFillsHavePrints` leave a `Book` row's fill out
  (`BookedApart`).  With it both fail: `simulate_paper_fills` fills a resting maker bid in
  full, one that prints have partly filled included.
- `RestingRowIsOpen` fails in `weather_progress`: `review_open_orders` and
  `_review_stale_exit_orders` ignore the answer of `cancel_order`, so the row of an
  order that still rests may say CANCELLED.  `ExitNotDoubled` says what is left.
- `SignalBoughtOnce` is about attempts the database knows.  When the answer of the
  YES leg is lost, or the pass is killed before `Save`, nothing is written, so the next
  pass may buy the signal again (`PlaceYesLost`, `PassCrash`), and each such bundle
  leaves a leg no cap counts.
- `DailyCapHolds` and `OpenCapHolds` count the orders with a row that was not cancelled.
  A YES leg that was partly filled before its cancel succeeded has a CANCELLED row,
  and what it cost is in neither sum, as it is in neither of the code's.

Also seen while modelling.  Without `require_known_order`, which no live bot leaves out
(`RequireKnown = FALSE`), `EveryTradePassed` fails: a trade whose order has no row
breaks the foreign key at every poll and takes its batch with it.  Two buys of a
new token in one batch make two OPEN rows, since the second query does not see
the first row; the sums the caps use stay right.  The reason of a halted bot can
be the text of an unhalt that raced `_halt`.  The two reads of
`snapshot_fleet_exposure` are not one transaction, though its comment says so: a
fill committed between them is missing from the sum (`OvershootIsUnseen` counts
it under `behind`).  `bots/bot_d_spike` enters without asking the cap
(`EnterUnchecked`).  Both `live` and `matched` come back from the CLOB, but the
makers' open statuses hold upper-case `MATCHED` only, so an order that matched at
once is in no cap until its fill is booked.  Bot G's concurrency cap counts
positions, so resting bids are not in it.  The bucket bounds every window by its
burst plus its refill, which for the whole period is twice its capacity: the
"80% of published CLOB limits" of `core/clob.py:135` is 160% in the worst window.
Bot L never closes the row of an order that left the book unfilled, so such rows
use up its open cap for good.

### Bounds, and why they are enough

`MaxFills = 3` trades on the tape: one booked before a batch and two in it, which
is what a duplicate row, a closed row or a tie needs.  `MaxClock` of 2 or 3
seconds: before, at and after the cursor.  Orders: one of size two, so that a
partial fill exists; a second of the same token, so that they compete for a row;
a sell; one order of the other bot.  The theorems of section 4 hold without these
bounds.  `MaxManual` (2 in `halt_faults`): an operator's halt and an unhalt, or both
ways of the emergency flag; two checks, so that one overwrites the other's
reason; one bot, since the flags of two bots share the repo-wide one only, which the
two tests of one bot show.  In `fleet_faults` each bot has
one order, two of them fit the cap of 3 only apart, one beside the small one:
every comparison can go both ways, and each check can be overtaken by three
bots.  Deadlock is checked except in the fleet's run, where the orders, which are
used once each, run out.

In the runs of `Longshot` the bound `Bounds` lists the pairs of orders placed and of
matches or prints that may come about, for paper and for live.  `longshot_faults`
(`PlacedBounds`): two markets (symmetric), two days, one entry a day, two live orders
or one in paper and no fill, since no count depends on one; the dollar cap of 3
against entries of up to 2 lets one query's failure pass the one cap while the other
still binds, and a midnight falls between any two steps.  `longshot_progress`
(`FilledBounds`): one market; two orders, so that a second window, a restart or a
failed gate can enter again, or one order with a match or two prints, so that it is
filled in two parts and by too much.  `MaxRows = 2`: liveness is asked of each order
and position there can be.  `weather_progress`: an entry of two
shares and two exits of one token, three trades: a partial entry, a partial exit
and a second one.  `complete_set`: two bundles of four units against caps of 5 a
day and 6 open, so that a second bundle fits neither unless something was
forgotten; two signals, two days, two trades.  `bucket_fair`: five units of
burst, a token of two, so that the refill leaves remainders; three threads, one
of which can always be overtaken by the other two; a deadline of four ticks, a
nap of one, so that a waiter goes round several times and may also give up.

### Fairness

`HaltControl!FairSpec`: weak fairness of the tick and of a halt once started, for a
daemon that is not killed again and again.  It may end by
an exception and is assumed to be started again (the unit file is
`Restart=on-failure`); conditions, exceptions and people come and go as they
like, so `EveryKillHalts` speaks of conditions that persist and exceptions that
end.

`Longshot!FairSpec` and `WeatherLive!FairWeather` say that from some time on the
process stays up (`<>[][SteadyNext]_vars`: restarts are finitely many, but may fall
anywhere), that the loop goes round (weak fairness: it catches its exceptions),
and that a service asked again and again answers again and again: strong
fairness of `ReconcileOpenOrders`, of reading and settling each position, of
`LoopFetch`, `WalletSync`, `SyncBuys` and the stale review of each exit.  Strong fairness is
needed as the loop leaves and re-enters the part where each is enabled.  In
`Longshot` it also says that the reconciliation's `try` block, which one exception
ends, does not raise for ever.  Lost answers, failed queries and failed commits may
go on for ever, and the script may run at any time.  `EveryTradePassed` is checked in
`weather_progress`, whose bot polls like the others.

`TokenBucket!FairSpec`: time passes, and each thread is scheduled again and again.
Nothing is assumed of the order in which threads get the lock.

## 4. What is proved

TLAPS checks every proof to the last leaf, for every value of the constants that
satisfies the modules' named assumptions, which TLC evaluates on every run:

- `LedgerAssumption`: the orders are a finite set, sizes are positive, at least one
  trade fits in a second.
- `MakerAssumption`, `CompleteSetAssumption`: caps are naturals, the bot only buys and
  calls the reconciliation with `require_known_order`, as the code does; the legs of
  a bundle are two orders of one size.
- `HaltAssumption`, `FleetAssumption`, `LongshotAssumption`, `BucketAssumption`: types of the
  constants; bots, checks and the fleet's orders are finite sets; the bucket holds
  at least one token.

No theorem has a hypothesis beyond these.

### Sums

Caps, exposures and fills are sums over finite sets.  `SumLemmas` derives their laws
from the definition of the fold: that the function which satisfies its equation
exists and is one (`SolExists`, `SolUnique`), and from this that any element may be
taken off, added or changed, that disjoint sets add up, that sums are monotonic,
and that the sum of the sums of groups is the sum over all (`SumGroups`).  Induction
goes over a set: the subsets of `S` for which the claim holds (`SetInduction`).

### The ledger

The inductive invariant is `LedgerInv`: the books (`BooksInv`), which every loop over the
ledger keeps, and the statuses (`StatusInv`), which only some do.

- `CursorInv`: booked trades are at or behind the cursor, fetched ones ahead.
  This makes a booked trade and a fetched one different, so idempotence never has
  to be argued from ids.
- `SessionInv`: a trade of another bot is in the session only while its order has
  no row or the session is stale.  The foreign key refuses the one, the snapshot
  the other.
- `RowsInv`: each booked BUY is on one row of the committed positions, and each
  booked or pending one on one row of the session's.
- `FillsInv`: one trade, and two trades, of an order fit in its size with what is
  left.  Two are what the step of a match preserves and what
  `FilledIsFinal` needs.
- `OrdersInv`, `FilledInv`: orders that were not accepted leave no trace; all the fills of
  an order and what is left of it fit in its size.
- `MarksInv`: a status that a session will write has a row and a pending trade, and
  says FILLED only for a trade of the whole size.
- `StatusInv`: closed rows have nothing left; a FILLED row has a booked fill of the
  whole size.

None of the six properties is inductive alone.  `LedgerInvariant` proves
`Spec => []LedgerInv`; `LedgerTypes`, `LedgerCursor`, `LedgerRows`, `LedgerOwner`,
`LedgerResting` follow, and `LedgerFinal` is an action property from the same
invariant.  They hold with and without `require_known_order`, for any number of
trades per second, and under all faults.

`LedgerSkipsNone` proves `SkippedSharesItsSecond`, for any number of trades per second.
`TimesInv` says that trades have times in the past, the cursor's among them; `SkipInv`
that the own trades behind the cursor are booked or not the first of their second
(`Twin`), that an own trade which a session's commit will pass is in its answer or a
twin, and that one in the answer is booked or pending once the loop is past it.

`LedgerImplementsJournal`: the ledger implements `FillJournal`, whose `Book` books a
whole batch in one step.  Fetching, looking at trades, savepoints, aborts and kills
are stutters; `Commit` is `Book`.  The pair of a position row and a BUY on it (`home`)
never goes away, so what is to be proved is that the session's copy of the rows
lost none: `LedgerInv` does not say so, since it speaks of the committed rows and of
the session's apart, and `WorkInv` adds that each row of the copy holds at least the
buys of its committed row, and only buys.  That a buy has exactly one home comes
from `RowsInv`.

`SharesInv` is for a wallet whose bot does not sell: the rows of any set of tokens add
up to the booked fills in them, committed and in the session, and no row is closed.

### The maker

Each part of the scan is a step of the ledger's bot or leaves the ledger alone
(`ScanStepsLedger`), by the way the module is built, so every theorem above holds of
the maker: `MakerResting` and `MakerBooksLikeJournal` are stated.

- `MakerSharesShown`: from `SharesInv`.
- `MakerOneQuote`: `QuoteInv` extends the claim to the order that was placed and has no
  row yet; the dedupe sees every order with a row that can be matched, as such rows
  are open (`LedgerInv`), and from a placement to its row the thread does nothing
  else.
- `MakerCap` is an action property.  The exposure the bot reads is its positions and the
  full size of its open orders.  The true one is at most that plus what is
  uncounted (`StakeIsCounted`): by `SharesInv` the positions are the booked fills, and an
  order's stake is either in them, on an open row, or among the two kinds the
  database does not know.

### Bot L

The pass is not a schedule of the ledger, since it cancels without reading a row
and writes two rows at once, but each of its steps keeps `LedgerInv` and `SharesInv`,
so the ledger's invariant holds of it all the same.  `SetInv` (`SetInvariant`) adds
`BundleInv` (what a pass holds in each part: a YES order without a row, and from then
on either both legs or a cancelled or resting one), `RecordsInv` (a row that was
not cancelled is counted until it is filled, under the day it was saved) and
`CapsInv` (what the caps test, by whole sizes, with room for the bundle in hand).
`SetBuysOnce`, `SetLegs`, `SetDailyCap` and `SetOpenCap` follow.  The caps' tests are
before the first order and the rows after the last: `CapsInv` keeps the room
between them, and a midnight that falls there only makes more.

### The weather taker

`StatusInv` is false of this loop: its stale review closes the row of an exit that may
still rest, and its order sync calls a row FILLED on the sum of the trades.
`WeatherInv` (`WeatherInvariant`) keeps `BooksInv` and replaces it by `MatchedInv` (an order
the CLOB matched at once has nothing left) and `FilledMeansBooked` itself.  A step of
the loop is one of the ledger's bot, or the wallet sync, or a review or sync of
order rows (`LoopSteps`); `ReviewsMoveOrders` and `WalletKeepsBooks` say what little the
last two do to the books, `OrdersMove` that this keeps them, for bot L as well.

- `WeatherFilled`: a session makes a row FILLED by one booked trade of the whole size,
  the sync by booked trades that add up to it, and nothing booked is taken back
  (`BookedStays`).
- `WeatherImplementsJournal`: reviews and syncs are stutters of the journal; in
  particular the wallet sync, which rewrites position rows, moves no BUY off its row.
- `WeatherExits`: the pending-exit test sees open rows only, so what is to be shown is
  that a resting exit whose row is not open was given up.  A `matched` row has nothing
  left by `MatchedInv`; nor has a FILLED one, since its booked trades fill it and no
  order is filled beyond its size (`FilledInv`).

### The fleet's cap

`FleetInv` (`FleetInvariant`): an entering bot's order is its own and has no row yet;
while a check reads, what it has seen is what is at stake but for `behind`, and what
it could see but for `freed`; past its verdict, its order fits beside what is at
stake, `matched` rows included, but for `behind`.  `FleetOvershoot` and
`FleetRefusal` (both action properties) and `FleetTypes` follow, for any number of bots
and orders.

### The halt

`HaltInv` adds to the types that halts to carry out exist only while the watchdog
acts, and that no late order is counted for a flag which the bot is past the test of,
or which is down (`InFlightIsFirst`): the claim is made for each flag apart, so it
survives any change of the one between the tests of both.  `HaltInvariant`, `HaltTypes` and `HaltOrders` (`OneOrderAfterHalt`) follow.

`HaltFewCancels`: nothing bounds the calls of one bot by looking at the bot alone, since
each check of a tick may call once.  `CallsInv` bounds calls made plus halts of the
bot still to carry out by the number of checks that halt it, until it is halted;
from then on ticks skip the call.  The attempt to prove it showed that the bound
does not hold across daemons: one that dies between two halts of a tick leaves a
bot it has cancelled for, but not halted, to its successor.  So the calls are
counted for each daemon's life, which is what the flag's test in `_halt` can
bound.

### Bot G

`BaseInv` (`LongshotInvariant`) is inductive: types; `LoopInv`
(which parts a mode has, and that the order in hand has no row, or the one just
written); `BooksInv` (a trade is a BUY of an order or a SELL of none, one open row to
a market, orders and prints dated in the past); `CountsInv`; `EngagedInv`.

- `LongshotDailyCaps`: `CountsInv` says that what is recorded of a day is at most what
  the scan has counted, what its failed queries missed and what it has placed, for
  today and for the day of the order in hand, which a midnight may have made
  yesterday.  An order keeps what its scan missed, so the last one placed is the
  witness when a day exceeds a cap.
- `LongshotEntersOnce`: `EngagedInv` is the claim for the orders with a row, and that
  the order on its way into the table went unchecked or found none in its market.
- `LongshotFillsFit`, `LongshotPrints`: `TapeInv` says that what matches and prints have
  booked of an order, the matches not booked yet, and what is left of it fit in its
  size; and that in paper a resting bid has bought from prints no more than the
  prints it used.  A `Book` row's fill leaves all of these sums alone.
- `LongshotPositions`: `HeldInv` says that a market's open rows show what was bought less
  what was sold, or more where it is oversold, and that a row read for settlement by
  either process is open with at least the size read, unless its market has sold
  since; a second sale makes it oversold.

### The bucket

`BucketTypes` proves the type invariant, which says that the bucket is neither over
full nor in debt.  `BucketImplementsMeter` maps the bucket to `RateMeter` by
`level = Capacity - (tokens + refill due)`: a tick drains the meter, a grant raises it,
and every other step, the refill included, leaves it alone.  So the bound of the
meter holds for the grants in every window, for any number of threads.

### Only model-checked

The liveness properties (`EveryTradePassed`, `EveryKillHalts`,
`ResolvedIsBooked`, `GoneRowCloses`, `GhostRowCloses`, `GoneExitCloses`, `AcquireReturns`),
which are out of the prover's reach.  `FailsClosed`, `NoFillSkipped` and
`MakerFillsWerePrinted` are violated.

## 5. What is not modelled

Numeric pipelines (forecasts, fair values, fees, FIFO profit), wire formats,
signing and pagination; recorders, feeds, the dashboard and the reporting scripts, which
write no state that a trading decision of these modules reads; the scripts by which
operators redeem or repair rows (`scripts/reconcile_paper_resolutions.py`, which is
modelled, is the one meant to run beside the bots); `core/exec_policy.py`, whose
`LadderManager` no bot instantiates; archived bot A, bot E and the paper bots
beyond what they share with the modules above; `on_redeem`, `snapshot_daily` and the
notifier's dialogue (see the plan).  `PROJECT.json` gives the reason for each
component.  The repository's source is large (dashboard, research scripts and
feature pipelines are most of it), the part that decides about orders and money
is small, and the share of lines the modules stand for is small accordingly.

## 6. Plan

Done: `LiveLedger`, `MakerLive`, `HaltControl`, `FleetCap`, `Longshot`, `WeatherLive`,
`CompleteSet`, `TokenBucket`; the refinements of `FillJournal` by the ledger and
by the weather taker, and of `RateMeter`; the proofs of every safety property of all
of them.

Left, in this order:

1. The notifier's confirmed unhalt (`core/notify.py`) in front of `HaltControl!Unhalt`.
2. `on_redeem` beside the wallet sync.
3. Two overlapping sessions of `on_fill` in `Longshot`.
4. The bots' shared paper loop (bots C and E) as an instance of `Longshot`'s tables.
