---------------------------- MODULE CompleteSet ----------------------------
(***************************************************************************)
(* The live probe of the complete-set bot, scripts/                        *)
(* bot_l_complete_set_live_probe.py over bots/bot_l_complete_set/          *)
(* live_executor.py: a timer starts a process that takes the newest        *)
(* executable signal, reconciles the live fills, checks its caps and buys  *)
(* both legs of the bundle, one order after the other.  The rows of both   *)
(* are written only then, so the process can die, or an answer be lost,    *)
(* with one or two orders on the book that no row tells of.                *)
(*                                                                         *)
(* The module is a schedule over LiveLedger: `part' is where the pass      *)
(* stands; the status "OPEN" of the bot's rows is LiveLedger's "live".     *)
(* Nothing here cancels a row or closes a position once the pass has       *)
(* ended.                                                                  *)
(***************************************************************************)
EXTENDS LiveLedger

CONSTANTS
  Bundles,     \* the <<YES order, NO order>> pairs the passes may place
  DailyCap,    \* --daily-gross-cap-usd
  OpenCap,     \* --open-exposure-cap-usd
  MaxSignals,  \* bound: executable signals
  MaxDay       \* bound: UTC days

ASSUME CompleteSetAssumption ==
  /\ Bundles \subseteq Mine \X Mine
  /\ \A b \in Bundles : b[1] # b[2] /\ SizeOf[b[1]] = SizeOf[b[2]]
  /\ \A o \in Mine : SideOf[o] = "BUY"
  /\ RequireKnown
  /\ {DailyCap, OpenCap, MaxSignals, MaxDay} \subseteq Nat

VARIABLES
  part,      \* the part of the pass; "off": no process runs
  today,     \* UTC day
  signal,    \* the newest executable signal
  bundle,    \* <<YES, NO>>: what the pass has placed, NoOrder for neither
  yesStatus, \* what the pass will write for the YES row
  attempts,  \* the bundle_attempt and bundle_incomplete events
  placedOn   \* [Orders -> Nat]: the day of placed_at

passVars == <<part, today, signal, bundle, yesStatus, attempts, placedOn>>
setVars  == <<vars, passVars>>

Nothing == <<NoOrder, NoOrder>>

SetInit ==
  /\ Init
  /\ part = "off" /\ today = 1 /\ signal = 0
  /\ bundle = Nothing /\ yesStatus = "live"
  /\ attempts = {}
  /\ placedOn = [o \in Orders |-> 0]

-----------------------------------------------------------------------------
(* What the pass reads from the database.                                  *)

\* Mutant: only complete bundles are looked for.
AttemptedBundles == {a.signal : a \in {a \in attempts : a.no # NoOrder}}
\* _signal_already_attempted
Attempted == {a.signal : a \in attempts}

\* Mutant: an order that has been filled is not counted.
DailyGrossOpenOnly == Notional({o \in Mine : placedOn[o] = today
                                             /\ row[o] \in OpenStatus})
\* daily_gross_used_usd
DailyGrossUsed == Notional({o \in Mine : placedOn[o] = today
                                         /\ row[o] \in OpenStatus \cup {"FILLED"}})

OpenNotional == Notional({o \in Mine : row[o] \in OpenStatus})
PositionCost == SumFunctionOnSet(Sizes(positions),
                  {p \in 1 .. Len(positions) : positions[p].status = "OPEN"})

\* Mutant: the open orders alone.
OpenExposureOrders == 2 * OpenNotional
\* current_open_exposure_usd: get_total_exposure already holds the open orders,
\* and they are added once more.
OpenExposure == PositionCost + 2 * OpenNotional

Gross(b) == SizeOf[b[1]] + SizeOf[b[2]]

\* The tests of place_buy_bundle: dedupe, daily cap, open cap.
MayBuy(b) ==
  /\ signal \notin Attempted
  /\ DailyGrossUsed + Gross(b) =< DailyCap
  /\ OpenExposure + Gross(b) =< OpenCap

-----------------------------------------------------------------------------
(* The pass: main of the probe.                                            *)

Goes(from, to) == part = from /\ part' = to
EndPass == part' = "off" /\ bundle' = Nothing /\ yesStatus' = "live"

\* The timer fires and latest_executable_signal finds one.
Start ==
  /\ Goes("off", "fetch")
  /\ signal' \in {signal, signal + 1} \cap 1 .. MaxSignals
  /\ UNCHANGED <<vars, today, bundle, yesStatus, attempts, placedOn>>

\* reconcile_live; a failed get_user_trades books nothing and the pass goes on.
ReconcileFetch ==
  /\ Goes("fetch", "book")
  /\ Fetch
  /\ UNCHANGED <<today, signal, bundle, yesStatus, attempts, placedOn>>

ReconcileFetchFails ==
  /\ Goes("fetch", "yes")
  /\ UNCHANGED <<vars, today, signal, bundle, yesStatus, attempts, placedOn>>

\* An error of the commit is not caught: the process ends.
ReconcileBook ==
  /\ part = "book"
  /\ \/ (\E i \in todo : SkipTrade(i) \/ BookTrade(i)) /\ UNCHANGED part
     \/ Commit /\ part' = "yes"
     \/ Abort /\ part' = "off"
  /\ UNCHANGED <<today, signal, bundle, yesStatus, attempts, placedOn>>

\* A test of place_buy_bundle fails, a book cannot be read, or the YES order is
\* refused.
Quit ==
  /\ part = "yes" /\ EndPass
  /\ UNCHANGED <<vars, today, signal, attempts, placedOn>>

Accepts(o) == Accept(o) /\ UNCHANGED <<pc, pending, dbVars, sessionVars>>

PlaceYes(b) ==
  /\ Goes("yes", "no")
  /\ MayBuy(b) /\ b[2] \notin accepted
  /\ Accepts(b[1])
  /\ bundle' = <<b[1], NoOrder>>
  /\ UNCHANGED <<today, signal, yesStatus, attempts, placedOn>>

\* The CLOB accepts the YES order and place_limit raises.
PlaceYesLost(b) ==
  /\ part = "yes" /\ EndPass
  /\ MayBuy(b) /\ b[2] \notin accepted
  /\ Accepts(b[1])
  /\ UNCHANGED <<today, signal, attempts, placedOn>>

PlaceNo(b) ==
  /\ Goes("no", "save")
  /\ b[1] = bundle[1] /\ Accepts(b[2])
  /\ bundle' = b
  /\ UNCHANGED <<today, signal, yesStatus, attempts, placedOn>>

\* No order id came back: the NO order was refused, or its answer was lost.
PlaceNoFails(b) ==
  /\ Goes("no", "cancel")
  /\ b[1] = bundle[1]
  /\ Accepts(b[2]) \/ UNCHANGED vars
  /\ UNCHANGED <<today, signal, bundle, yesStatus, attempts, placedOn>>

\* Mutant: the cancel is taken to have worked.
CancelYesUnchecked ==
  /\ Goes("cancel", "save")
  /\ left' \in {left, [left EXCEPT ![bundle[1]] = 0]}
  /\ yesStatus' = "CANCELLED"
  /\ UNCHANGED <<now, accepted, tape, dbVars, pc, pending, sessionVars,
                 today, signal, bundle, attempts, placedOn>>

\* The YES leg is cancelled.  The CLOB says so only of an order that rested; it
\* may say no, or the answer may be lost, whether or not the order is gone.
CancelYes ==
  /\ Goes("cancel", "save")
  /\ LET y == bundle[1]
         gone == [left EXCEPT ![y] = 0]
     IN  \/ left[y] > 0 /\ left' = gone /\ yesStatus' = "CANCELLED"
         \/ left' \in {left, gone} /\ UNCHANGED yesStatus
  /\ UNCHANGED <<now, accepted, tape, dbVars, pc, pending, sessionVars,
                 today, signal, bundle, attempts, placedOn>>

\* The last commit of place_buy_bundle, or _persist_incomplete_bundle: the rows
\* of the orders with an id and the event, together.
Save ==
  LET rows == {bundle[1], bundle[2]} \ {NoOrder}
  IN  /\ part = "save" /\ EndPass
      /\ row' = [o \in Orders |-> IF o = bundle[1] THEN yesStatus
                                  ELSE IF o \in rows THEN "live" ELSE row[o]]
      /\ placedOn' = [o \in Orders |-> IF o \in rows THEN today ELSE placedOn[o]]
      /\ attempts' = attempts \cup {[signal |-> signal, yes |-> bundle[1],
                                     no |-> bundle[2], status |-> yesStatus]}
      /\ UNCHANGED <<exchangeVars, trades, positions, cursor, pc, pending,
                     sessionVars, today, signal>>

\* The process is killed; the next timer starts another one.
PassCrash ==
  /\ part # "off" /\ EndPass
  /\ IF pc = "idle" THEN UNCHANGED vars ELSE Crash
  /\ UNCHANGED <<today, signal, attempts, placedOn>>

Midnight ==
  /\ today < MaxDay /\ today' = today + 1
  /\ UNCHANGED <<vars, part, signal, bundle, yesStatus, attempts, placedOn>>

-----------------------------------------------------------------------------
Pass ==
  \/ Start \/ ReconcileFetch \/ ReconcileFetchFails \/ ReconcileBook \/ Quit
  \/ CancelYes \/ Save
  \/ \E b \in Bundles : PlaceYes(b) \/ PlaceNo(b) \/ PlaceNoFails(b)

PassFaults == PassCrash \/ \E b \in Bundles : PlaceYesLost(b)

SetNext ==
  Pass \/ PassFaults \/ Midnight \/ (Exchange /\ UNCHANGED passVars)
SetSpec == SetInit /\ [][SetNext]_setVars

-----------------------------------------------------------------------------
(* Properties.                                                             *)

\* The recorded orders that were not cancelled, and what an order has cost or
\* can still cost: its trades on the exchange and what rests of it.
Kept == UNION {({a.yes, a.no} \ {NoOrder}) : a \in {a \in attempts : a.status = "live"}}
CostOf == [o \in Orders |-> left[o] + Filled(o)]
CostOfAll(S) == SumFunctionOnSet(CostOf, S)

\* No signal is bought twice as far as the ledger goes: an incomplete bundle, a
\* crash or a newer signal in between does not open the way for a second attempt
\* (_signal_already_attempted).
SignalBoughtOnce ==
  \A a, b \in attempts : a.signal = b.signal => a = b

\* The recorded orders of one UTC day cost no more than the daily cap, whatever
\* was filled, reconciled late or saved after midnight (daily_gross_used_usd).
DailyCapHolds ==
  \A d \in 1 .. MaxDay : CostOfAll({o \in Kept : placedOn[o] = d}) =< DailyCap

\* All the recorded orders together cost no more than the open cap: between a
\* fill on the exchange, its booking and the order's new status no share of
\* either leg drops out of the count (current_open_exposure_usd).
OpenCapHolds == CostOfAll(Kept) =< OpenCap

\* A leg that may still be filled is not written off: when the NO leg fails and
\* the cancel of the YES leg is refused or lost, its row stays open.
LegNotWrittenOff == RestingRowIsOpen
=============================================================================
