----------------------------- MODULE MakerLive -----------------------------
(***************************************************************************)
(* The scan loop of bots/bot_d_weather/maker_live.py over the live ledger: *)
(* scan_once synchronises the open orders, reconciles the fills, cancels   *)
(* stale quotes and then quotes the markets it likes, within the dollar    *)
(* caps it computes from its own database.                                 *)
(*                                                                         *)
(* The loop is a schedule laid over LiveLedger's actions: `step' says      *)
(* which part of scan_once runs, the ledger's own `pc' where that part     *)
(* stands.  A share is worth one unit, so a notional is a size.  Whether a *)
(* market is quotable (forecast, book, edge, halt flag, fleet cap) is left *)
(* open: the loop may skip any market.                                     *)
(***************************************************************************)
EXTENDS LiveLedger

CONSTANTS
  MaxOpenExposure, \* cfg.max_open_exposure_usd, the smaller of it and wallet_usd
  MaxDailyGross,   \* cfg.max_daily_gross_usd
  MaxConcurrent    \* cfg.max_concurrent

ASSUME MakerAssumption ==
  /\ MaxOpenExposure \in Nat /\ MaxDailyGross \in Nat /\ MaxConcurrent \in Nat
  /\ RequireKnown
  /\ \A o \in Mine : SideOf[o] = "BUY"

VARIABLE step   \* "sync", "fetch", "book", "cancel", "quote"

makerVars == <<vars, step>>
MakerInit == Init /\ step = "sync"

-----------------------------------------------------------------------------
(* What the bot reads from its database.                                   *)

OpenOrders == {o \in Mine : row[o] \in OpenStatus}
Recorded   == {o \in Mine : row[o] # "absent"}
OpenPositions == {p \in 1 .. Len(positions) : positions[p].status = "OPEN"}

\* open_exposure: cost of the open positions plus the full size of every open
\* order, a partly filled one included.
LocalExposure ==
  SumFunctionOnSet(Sizes(positions), OpenPositions) + Notional(OpenOrders)

\* daily_gross, within one day.
DailyGross == Notional(Recorded)

\* count_open and has_open_order_or_position; a market trades as one token.
BusyTokens == {TokenOf[o] : o \in OpenOrders}
                \cup {positions[p].token : p \in OpenPositions}

\* Mutants: the cap forgets the open orders; the dedupe forgets them.
PositionsOnly(o) ==
  /\ TokenOf[o] \notin BusyTokens
  /\ Cardinality(BusyTokens) < MaxConcurrent
  /\ SumFunctionOnSet(Sizes(positions), OpenPositions) + SizeOf[o]
       =< MaxOpenExposure
  /\ DailyGross + SizeOf[o] =< MaxDailyGross
NoDedupe(o) ==
  /\ Cardinality(BusyTokens) < MaxConcurrent
  /\ LocalExposure + SizeOf[o] =< MaxOpenExposure
  /\ DailyGross + SizeOf[o] =< MaxDailyGross

\* quote_for_decision's dedupe, concurrency and cap tests.
MayQuote(o) ==
  /\ TokenOf[o] \notin BusyTokens
  /\ Cardinality(BusyTokens) < MaxConcurrent
  /\ LocalExposure + SizeOf[o] =< MaxOpenExposure
  /\ DailyGross + SizeOf[o] =< MaxDailyGross

-----------------------------------------------------------------------------
(* scan_once, part by part.                                                *)

\* A failed get_user_orders, or nothing to change, leaves the rows alone.
ScanSync ==
  /\ step = "sync" /\ step' = "fetch"
  /\ SyncOpenOrders \/ UNCHANGED vars

ScanFetch ==
  /\ step = "fetch" /\ step' = "book"
  /\ Fetch

\* get_user_trades raises: reconcile_live_fills returns 0 and the scan goes on.
ScanFetchFails ==
  /\ step = "fetch" /\ step' = "cancel"
  /\ UNCHANGED vars

ScanBook ==
  /\ step = "book"
  /\ \/ (\E i \in todo : SkipTrade(i) \/ BookTrade(i)) /\ UNCHANGED step
     \/ Commit /\ step' = "cancel"
     \/ Abort /\ step' = "sync"

\* cancel_stale_quotes, for any of the open orders: ages are not modelled.
ScanCancel(o) ==
  /\ step = "cancel" /\ UNCHANGED step
  /\ CancelOrder(o)

ScanCancelLost(o) ==
  /\ step = "cancel" /\ UNCHANGED step
  /\ CancelOrderLost(o)

ScanQuotes ==
  /\ step = "cancel" /\ step' = "quote"
  /\ UNCHANGED vars

ScanQuote(o) ==
  /\ step = "quote" /\ UNCHANGED step
  /\ MayQuote(o)
  /\ PlaceLimit(o)

\* place_quote raises after the CLOB accepted: the scan logs quote_failed.
ScanQuoteLost(o) ==
  /\ step = "quote" /\ UNCHANGED step
  /\ MayQuote(o)
  /\ PlaceLimitLost(o)

ScanRecord ==
  /\ step = "quote" /\ UNCHANGED step
  /\ RecordOrder

\* The scan ends, or finds the halt flag up, and the loop sleeps.
ScanEnd ==
  /\ step = "quote" /\ pc = "idle"
  /\ step' = "sync"
  /\ UNCHANGED vars

\* The service is killed and restarted: the loop starts over.
ScanCrash ==
  /\ step' = "sync"
  /\ IF pc = "idle" THEN step # "sync" /\ UNCHANGED vars ELSE Crash

-----------------------------------------------------------------------------
Scan ==
  \/ ScanSync \/ ScanFetch \/ ScanBook \/ ScanQuotes \/ ScanRecord \/ ScanEnd
  \/ \E o \in Mine : ScanCancel(o) \/ ScanQuote(o)

ScanFaults ==
  \/ ScanFetchFails \/ ScanCrash
  \/ \E o \in Mine : ScanCancelLost(o) \/ ScanQuoteLost(o)

World == Exchange /\ UNCHANGED step

MakerNext == Scan \/ ScanFaults \/ World
MakerSpec == MakerInit /\ [][MakerNext]_makerVars

-----------------------------------------------------------------------------
(* Properties.                                                             *)

\* What the wallet really has at stake through this bot: a BUY costs its size
\* while it rests and after it is matched.
AtStake == [o \in Orders |-> left[o] + Filled(o)]
TrueExposure == SumFunctionOnSet(AtStake, Mine)

\* What the database cannot know when a quote is decided: orders without a row,
\* and unbooked fills of orders whose row is closed.
Uncounted ==
  SumFunctionOnSet(AtStake, {o \in Mine : row[o] = "absent"})
  + SumFunctionOnSet(Sizes(tape),
      {i \in Ids \ trades : /\ tape[i].order \in Recorded
                            /\ row[tape[i].order] \notin OpenStatus})

\* Whenever a quote is placed, the money really at stake stays within the cap
\* but for what the database could not know: quote_for_decision reads nothing
\* stale of its own, in whatever order fills, cancels and crashes arrive.
QuoteWithinCap ==
  [][accepted' # accepted
       => TrueExposure' =< MaxOpenExposure + Uncounted]_makerVars

\* The bot rests at most one quote per market among the orders it has a row
\* for (has_open_order_or_position).
OneQuotePerMarket ==
  \A o, q \in Recorded :
    left[o] > 0 /\ left[q] > 0 /\ TokenOf[o] = TokenOf[q] => o = q
=============================================================================
