---------------------------- MODULE WeatherLive ----------------------------
(***************************************************************************)
(* The live loop of the weather taker, bots/bot_d_weather/__main__.py and  *)
(* executor.py, over the live ledger: reconcile the fills, once an hour    *)
(* close the positions the wallet no longer holds, enter the markets with  *)
(* an edge, review the open orders, review the open positions.             *)
(*                                                                         *)
(* As in MakerLive the loop is a schedule over LiveLedger's actions:       *)
(* `step' is the part of the loop, the ledger's `pc' where it stands in    *)
(* it.  An edge may collapse at any time, so any open order may be         *)
(* cancelled and any position sold; sizing, caps and halts are left open.  *)
(***************************************************************************)
EXTENDS LiveLedger

VARIABLE step

weatherVars == <<vars, step>>
WeatherInit == Init /\ step = "fetch"

\* The parts of one turn of run_loop, in order.
NextStep ==
  [fetch |-> "wallet", book |-> "wallet", wallet |-> "enter", enter |-> "sync",
   sync |-> "stale", stale |-> "collapse", collapse |-> "exit", exit |-> "fetch"]

IsSell(o)  == SideOf[o] = "SELL"
OpenRowsOf(side) == {o \in Mine : SideOf[o] = side /\ row[o] \in OpenStatus}
BookedOf(o) == SumFunctionOnSet(Sizes(tape), {i \in trades : tape[i].order = o})

\* The loop goes on to its next part, having done there what it will do.
StepEnds ==
  /\ pc = "idle" /\ step # "book"
  /\ step' = NextStep[step]
  /\ UNCHANGED vars

-----------------------------------------------------------------------------
(* run_loop: reconcile_live_fills, then the hourly wallet sync.            *)

LoopFetch == step = "fetch" /\ Fetch /\ step' = "book"

LoopBook ==
  /\ step = "book"
  /\ \/ (\E i \in todo : SkipTrade(i) \/ BookTrade(i)) /\ UNCHANGED step
     \/ (Commit \/ Abort) /\ step' = "wallet"

\* Rows OPEN in the ledger of a token the wallet does not hold.
GhostRows == {p \in 1 .. Len(positions) :
                positions[p].status = "OPEN" /\ Holding(positions[p].token) = 0}

\* Mutant: only rows whose exit the ledger knows of are closed.
WalletSyncKnownExits ==
  LET known == {p \in GhostRows : \E o \in Mine : /\ IsSell(o) /\ row[o] # "absent"
                                                  /\ TokenOf[o] = positions[p].token}
  IN  /\ step = "wallet" /\ known # {}
      /\ positions' = [p \in 1 .. Len(positions) |->
                         IF p \in known THEN [positions[p] EXCEPT !.status = "CLOSED"]
                         ELSE positions[p]]
      /\ step' = "enter"
      /\ UNCHANGED <<exchangeVars, row, trades, cursor, pc, pending, sessionVars>>

\* Mutant: the rows are deleted.
WalletSyncDeletes ==
  /\ step = "wallet" /\ GhostRows # {}
  /\ positions' = SelectSeq(positions, LAMBDA r : r.status # "OPEN" \/ Holding(r.token) > 0)
  /\ step' = "enter"
  /\ UNCHANGED <<exchangeVars, row, trades, cursor, pc, pending, sessionVars>>

\* reconcile_live_positions_against_wallet: their status becomes
\* CLOSED_EXTERNAL_SYNC, which every reader treats as closed; no trade is
\* written.  The Data API answers with all the wallet holds now.
WalletSync ==
  /\ step = "wallet" /\ GhostRows # {}
  /\ positions' = [p \in 1 .. Len(positions) |->
                     IF p \in GhostRows THEN [positions[p] EXCEPT !.status = "CLOSED"]
                     ELSE positions[p]]
  /\ step' = "enter"
  /\ UNCHANGED <<exchangeVars, row, trades, cursor, pc, pending, sessionVars>>

-----------------------------------------------------------------------------
(* try_enter.                                                              *)

\* has_open_order, of either side, and has_position.
Busy(k) == \/ \E o \in Mine : TokenOf[o] = k /\ row[o] \in OpenStatus
           \/ OpenRows(k) # {}

Enter(o) ==
  /\ step = "enter" /\ UNCHANGED step
  /\ ~IsSell(o) /\ ~Busy(TokenOf[o])
  /\ PlaceLimit(o) \/ PlaceLimitLost(o)

\* The Order row of an entry or of an exit.
Record == RecordOrder /\ UNCHANGED step

-----------------------------------------------------------------------------
(* review_open_orders.                                                     *)

\* Mutant: an order that has any fill counts as filled.
SyncedStatusAny(o) == IF BookedOf(o) > 0 THEN "FILLED" ELSE "CANCELLED"
\* What the ledger's trades say of an order that has left the exchange.
SyncedStatus(o) == IF BookedOf(o) >= SizeOf[o] THEN "FILLED" ELSE "CANCELLED"

\* _sync_live_open_order_statuses: BUY rows only.
SyncBuys ==
  LET gone == {o \in OpenRowsOf("BUY") : left[o] = 0}
  IN  /\ step = "sync" /\ gone # {}
      /\ row' = [o \in Orders |-> IF o \in gone THEN SyncedStatus(o) ELSE row[o]]
      /\ step' = "stale"
      /\ UNCHANGED <<exchangeVars, trades, positions, cursor, pc, pending,
                     sessionVars>>

\* cancel_order was called and did not raise: the exchange may have cancelled
\* the order, or answered that it did not.  The answer is not looked at.
RowCancelled(o) ==
  /\ left' \in {left, [left EXCEPT ![o] = 0]}
  /\ row' = [row EXCEPT ![o] = "CANCELLED"]
  /\ UNCHANGED <<now, accepted, tape, trades, positions, cursor, pc, pending,
                 sessionVars>>

\* It raised: the order may be gone, the row is left as it was.
CancelRaised(o) ==
  /\ left' = [left EXCEPT ![o] = 0]
  /\ UNCHANGED <<now, accepted, tape, dbVars, pc, pending, sessionVars>>

\* Mutant: the row is closed only if the exchange cancelled the order.
CancelStaleExitChecked(o) ==
  /\ step = "stale" /\ UNCHANGED step
  /\ o \in OpenRowsOf("SELL")
  /\ left[o] > 0
  /\ RowCancelled(o) /\ left' # left

\* _review_stale_exit_orders, for any open exit: ages are not modelled.
CancelStaleExit(o) ==
  /\ step = "stale" /\ UNCHANGED step
  /\ o \in OpenRowsOf("SELL")
  /\ RowCancelled(o)

\* The edge of an open entry has collapsed or flipped.
CancelEntry(o) ==
  /\ step = "collapse" /\ pc = "idle" /\ UNCHANGED step
  /\ o \in OpenRowsOf("BUY")
  /\ RowCancelled(o)

CancelLost(o) ==
  /\ pc = "idle" /\ UNCHANGED step
  /\ \/ step = "stale" /\ o \in OpenRowsOf("SELL")
     \/ step = "collapse" /\ o \in OpenRowsOf("BUY")
  /\ CancelRaised(o)

-----------------------------------------------------------------------------
(* _exit_position, from both reviews.                                      *)

\* Mutant: a pending exit is not looked for.
MayExitAgain(o) == IsSell(o)

\* _has_pending_exit_order: no open SELL row of the token.
MayExit(o) ==
  IsSell(o) /\ \A q \in OpenRowsOf("SELL") : TokenOf[q] # TokenOf[o]

\* The whole of the OPEN row is offered (PlaceLimit's Sellable).
Exit(o) ==
  /\ step \in {"collapse", "exit"} /\ UNCHANGED step
  /\ MayExit(o)
  /\ PlaceLimit(o) \/ PlaceLimitLost(o)

\* The process is killed and restarted.
LoopCrash ==
  /\ step' = "fetch"
  /\ IF pc = "idle" THEN step # "fetch" /\ UNCHANGED vars ELSE Crash

-----------------------------------------------------------------------------
Loop ==
  \/ StepEnds \/ LoopFetch \/ LoopBook \/ WalletSync \/ Record \/ SyncBuys
  \/ \E o \in Mine : Enter(o) \/ CancelStaleExit(o) \/ CancelEntry(o) \/ Exit(o)

World == Exchange /\ UNCHANGED step

SteadyNext == Loop \/ World \/ \E o \in Mine : CancelLost(o)
WeatherNext == SteadyNext \/ LoopCrash
WeatherSpec == WeatherInit /\ [][WeatherNext]_weatherVars

\* From some time on the process stays up; its loop goes round, the Data API
\* and the CLOB answer again and again, and an exit grows stale.
WeatherFairness ==
  /\ WF_weatherVars(StepEnds \/ LoopBook \/ Record)
  /\ SF_weatherVars(LoopFetch) /\ SF_weatherVars(WalletSync)
  /\ SF_weatherVars(SyncBuys)
  /\ \A o \in Mine : SF_weatherVars(CancelStaleExit(o))
FairWeather ==
  WeatherSpec /\ WeatherFairness /\ <>[][SteadyNext]_weatherVars

-----------------------------------------------------------------------------
(* Properties.                                                             *)

\* A FILLED row is backed by booked trades for the whole order, however many
\* parts it was filled in and whenever the order list and the trades disagreed
\* (_sync_live_open_order_statuses against _do_on_fill).
FilledMeansBooked ==
  \A o \in Mine : row[o] = "FILLED" => BookedOf(o) >= SizeOf[o]

\* Beside the reconciler two more writers change the rows here, the order sync
\* and the wallet sync; fills are still booked once, whole and for good.
WeatherBooksLikeJournal == BooksLikeJournal

\* A second exit of a token joins one that still rests on the exchange only if
\* the ledger had given the first up: its cancel was tried, or its row was never
\* written.  An exit of unknown fate is not doubled by the next review
\* ("live pending exists", _exit_position).
ExitNotDoubled ==
  [][\A o \in accepted' \ accepted : IsSell(o) =>
       \A q \in accepted : IsSell(q) /\ TokenOf[q] = TokenOf[o] /\ left[q] > 0
                            => row[q] \in {"CANCELLED", "absent"}]_weatherVars

\* A position the wallet no longer holds does not stay open: an exit whose row
\* was never written cannot be booked, and the hourly wallet sync closes it
\* (reconcile_live_positions_against_wallet).
GhostRowCloses ==
  \A p \in 1 .. Cardinality(Orders) :
    (p \in GhostRows) ~> (p \notin GhostRows)

\* An exit order that has left the exchange does not block later exits for
\* ever: nothing syncs SELL rows but the stale review, which closes them
\* whatever the cancel answers (_review_stale_exit_orders).
GoneExitCloses ==
  \A o \in Mine :
    (o \in OpenRowsOf("SELL") /\ left[o] = 0) ~> (o \notin OpenRowsOf("SELL"))
=============================================================================
