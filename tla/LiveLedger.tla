----------------------------- MODULE LiveLedger -----------------------------
(***************************************************************************)
(* The live half of core/portfolio.py: how fills of one bot's CLOB orders  *)
(* travel from the exchange's trade tape into the bot's SQLite ledger.     *)
(*                                                                         *)
(* One bot process is modelled (Mine: the orders it places).  Another bot  *)
(* shares the wallet, hence the trade tape and the orders table; its       *)
(* orders are Orders \ Mine.  The bot is sequential: it places an order    *)
(* and then commits the Order row, or it polls get_user_trades and books   *)
(* the answer in one SQLAlchemy session.  It can die between two steps.    *)
(*                                                                         *)
(* The session factory of core/db.py has autoflush off: rows added in a    *)
(* session are invisible to its own queries until the commit, and a query  *)
(* filters on the committed columns even when it hands back an object the  *)
(* session has already changed.  Hence the two copies of the positions:    *)
(* `positions' (committed) and `work' (the session's objects).             *)
(***************************************************************************)
EXTENDS Integers, Sequences, FiniteSets, Functions

CONSTANTS
  Orders,        \* order ids; each is used at most once
  Mine,          \* the orders this bot places
  Tokens,        \* outcome tokens
  TokenOf,       \* [Orders -> Tokens]
  SideOf,        \* [Orders -> {"BUY", "SELL"}]
  SizeOf,        \* [Orders -> Nat \ {0}], in shares
  RequireKnown,  \* the require_known_order argument of reconcile_live_fills
  FillsPerSecond,\* trades the exchange may stamp with the same match_time
  MaxFills,      \* bound: trades on the tape
  MaxClock       \* bound: seconds

ASSUME LedgerAssumption ==
  /\ IsFiniteSet(Orders) /\ "none" \notin Orders
  /\ Mine \subseteq Orders
  /\ TokenOf \in [Orders -> Tokens]
  /\ SideOf \in [Orders -> {"BUY", "SELL"}]
  /\ SizeOf \in [Orders -> Nat \ {0}]
  /\ RequireKnown \in BOOLEAN
  /\ FillsPerSecond \in Nat \ {0}
  /\ MaxFills \in Nat
  /\ MaxClock \in Nat

VARIABLES
  now,        \* the exchange's clock, in whole seconds (match_time)
  accepted,   \* orders the CLOB has accepted
  left,       \* [Orders -> Nat]: unmatched size resting on the CLOB
  tape,       \* the wallet's trades on the exchange: <<[order, size, ts], ...>>
  row,        \* [Orders -> RowStatus]: the orders table
  trades,     \* the trades table: the trades booked for this bot
  positions,  \* the positions table, in id order
  cursor,     \* since_ts of the last portfolio.fill_cursor.<bot> event
  pc,         \* where the bot's single thread stands
  pending,    \* the order accepted whose row is not committed ("placed")
  fetched,    \* the answer of get_user_trades being booked ("session")
  todo,       \* the trades of `fetched' the loop has not reached
  booking,    \* Trade rows added to the session, not flushed
  work,       \* the session's Position objects, new ones at the end
  marks,      \* [Orders -> RowStatus]: order statuses the session will write
  stale       \* another process has committed since the session's first read

exchangeVars == <<now, accepted, left, tape>>
dbVars       == <<row, trades, positions, cursor>>
sessionVars  == <<fetched, todo, booking, work, marks, stale>>
vars == <<now, accepted, left, tape, row, trades, positions, cursor,
          pc, pending, fetched, todo, booking, work, marks, stale>>

NoOrder   == "none"
\* "absent" is an order with no row.
RowStatus == {"absent", "live", "matched", "PARTIAL", "FILLED", "CANCELLED"}
\* OPEN_ORDER_STATUSES of the makers; "MATCHED" is there, the CLOB's "matched"
\* is not.
OpenStatus == {"live", "PARTIAL"}

Ids == 1 .. Len(tape)
IsBuy(i)  == SideOf[tape[i].order] = "BUY"
TokenOfTrade(i) == TokenOf[tape[i].order]

\* What a set of orders costs in full; a share costs one unit.
Notional(S) == SumFunctionOnSet(SizeOf, S)

\* The sizes of the trades on a tape, or of the rows of a positions table.
Sizes(rows) == [j \in 1 .. Len(rows) |-> rows[j].size]

\* `buys' and `sells' are history: the trades applied to the row.
PositionType == [token: Tokens, size: Nat, status: {"OPEN", "CLOSED"},
                 buys: SUBSET Nat, sells: SUBSET Nat]

Init ==
  /\ now = 1
  /\ accepted = {}
  /\ left = [o \in Orders |-> 0]
  /\ tape = <<>>
  /\ row = [o \in Orders |-> "absent"]
  /\ trades = {}
  /\ positions = <<>>
  /\ cursor = 0
  /\ pc = "idle"
  /\ pending = NoOrder
  /\ fetched = {} /\ todo = {} /\ booking = {}
  /\ work = <<>>
  /\ marks = [o \in Orders |-> "absent"]
  /\ stale = FALSE

-----------------------------------------------------------------------------
(* The exchange (external: known only through core/clob_v2.py).            *)

Tick ==
  /\ now < MaxClock
  /\ now' = now + 1
  /\ UNCHANGED <<accepted, left, tape, dbVars, pc, pending, sessionVars>>

\* Shares of token k the wallet holds; outcome tokens cannot be sold short.
Holding(k) ==
  SumFunctionOnSet([i \in Ids |-> IF IsBuy(i) THEN tape[i].size ELSE -tape[i].size],
                   {i \in Ids : TokenOfTrade(i) = k})

\* A resting order is matched, in whole or in part, and the trade is stamped
\* with the current second.
Match(o, n) ==
  /\ Len(tape) < MaxFills
  /\ n \in 1 .. left[o]
  /\ SideOf[o] = "SELL" => Holding(TokenOf[o]) >= n
  /\ Cardinality({i \in Ids : tape[i].ts = now}) < FillsPerSecond
  /\ tape' = Append(tape, [order |-> o, size |-> n, ts |-> now])
  /\ left' = [left EXCEPT ![o] = @ - n]
  /\ UNCHANGED <<now, accepted, dbVars, pc, pending, sessionVars>>

-----------------------------------------------------------------------------
(* Placing and cancelling.                                                 *)

Accept(o) ==
  /\ o \notin accepted
  /\ accepted' = accepted \cup {o}
  /\ left' = [left EXCEPT ![o] = SizeOf[o]]
  /\ UNCHANGED <<now, tape>>

\* A bot sells the whole of a position its ledger shows (try_cut_loss).
Sellable(o) == \E p \in 1 .. Len(positions) :
                 /\ positions[p].token = TokenOf[o]
                 /\ positions[p].status = "OPEN"
                 /\ positions[p].size = SizeOf[o]

\* place_limit returns the order id; the Order row is not committed yet.
PlaceLimit(o) ==
  /\ pc = "idle" /\ o \in Mine
  /\ SideOf[o] = "SELL" => Sellable(o)
  /\ Accept(o)
  /\ pc' = "placed" /\ pending' = o
  /\ UNCHANGED <<dbVars, sessionVars>>

\* The CLOB accepts the order but the caller sees an exception (a read
\* timeout is not retried): no row is ever written for it.
PlaceLimitLost(o) ==
  /\ pc = "idle" /\ o \in Mine
  /\ SideOf[o] = "SELL" => Sellable(o)
  /\ Accept(o)
  /\ UNCHANGED <<pc, pending, dbVars, sessionVars>>

\* The caller commits the Order row with the status the CLOB answered: "live",
\* or "matched" for an order that was matched at once.
RecordOrder ==
  /\ pc = "placed"
  /\ \E s \in {"live", "matched"} :
       /\ s = "matched" => left[pending] = 0
       /\ row' = [row EXCEPT ![pending] = s]
  /\ pc' = "idle" /\ pending' = NoOrder
  /\ UNCHANGED <<exchangeVars, trades, positions, cursor, sessionVars>>

\* The wallet's other bot does the same in its own process.  The savepoint of
\* reconcile_live_fills holds a WAL read snapshot from its first query on.
OtherPlaces(o) ==
  /\ o \in Orders \ Mine
  /\ Accept(o)
  /\ UNCHANGED <<pc, pending, dbVars, sessionVars>>

OtherRecords(o) ==
  /\ o \in accepted \ Mine
  /\ row[o] = "absent"
  /\ row' = [row EXCEPT ![o] = "live"]
  /\ stale' = (stale \/ todo # fetched)
  /\ UNCHANGED <<exchangeVars, trades, positions, cursor, pc, pending,
                 fetched, todo, booking, work, marks>>

\* Mutant: the row is closed whatever the CLOB answered.
CancelUnchecked(o) ==
  /\ pc = "idle" /\ o \in Mine
  /\ row[o] \in OpenStatus
  /\ row' = [row EXCEPT ![o] = "CANCELLED"]
  /\ UNCHANGED <<exchangeVars, trades, positions, cursor, pc, pending,
                 sessionVars>>

\* cancel_stale_quotes on one order: the row changes only if the CLOB says
\* that it cancelled the order, which it does only for a resting one.
CancelOrder(o) ==
  /\ pc = "idle" /\ o \in Mine
  /\ row[o] \in OpenStatus
  /\ left[o] > 0
  /\ left' = [left EXCEPT ![o] = 0]
  /\ row' = [row EXCEPT ![o] = "CANCELLED"]
  /\ UNCHANGED <<now, accepted, tape, trades, positions, cursor, pc, pending,
                 sessionVars>>

\* The cancel reaches the CLOB but its answer is lost: the row stays open.
CancelOrderLost(o) ==
  /\ pc = "idle" /\ o \in Mine
  /\ row[o] \in OpenStatus
  /\ left[o] > 0
  /\ left' = [left EXCEPT ![o] = 0]
  /\ UNCHANGED <<now, accepted, tape, dbVars, pc, pending, sessionVars>>

\* Mutant: the query forgets the status filter.
SyncAnyStatus ==
  LET gone == {o \in Mine : row[o] # "absent" /\ left[o] = 0}
  IN  /\ pc = "idle"
      /\ gone # {}
      /\ row' = [o \in Orders |-> IF o \in gone THEN "CANCELLED" ELSE row[o]]
      /\ UNCHANGED <<exchangeVars, trades, positions, cursor, pc, pending,
                     sessionVars>>

\* _sync_open_orders: every open row whose order is not on the exchange's
\* open list becomes CANCELLED, filled orders included.
SyncOpenOrders ==
  LET gone == {o \in Mine : row[o] \in OpenStatus /\ left[o] = 0}
  IN  /\ pc = "idle"
      /\ gone # {}
      /\ row' = [o \in Orders |-> IF o \in gone THEN "CANCELLED" ELSE row[o]]
      /\ UNCHANGED <<exchangeVars, trades, positions, cursor, pc, pending,
                     sessionVars>>

-----------------------------------------------------------------------------
(* reconcile_live_fills.                                                   *)

\* Read the cursor and call get_user_trades(since=cursor).  A failed call
\* returns 0 and changes nothing.
Fetch ==
  LET answer == {i \in Ids : tape[i].ts > cursor}
  IN  /\ pc = "idle"
      /\ pc' = "session"
      /\ fetched' = answer /\ todo' = answer
      /\ booking' = {}
      /\ work' = positions
      /\ marks' = [o \in Orders |-> "absent"]
      /\ stale' = FALSE
      /\ UNCHANGED <<exchangeVars, dbVars, pending>>

\* Mutants: the owner test is dropped; the known-order test is dropped.
SkippedAnyOwner(i) ==
  i \in trades \/ (RequireKnown /\ row[tape[i].order] = "absent")
SkippedUnknownToo(i) ==
  i \in trades \/ (tape[i].order \notin Mine /\ row[tape[i].order] # "absent")

\* The loop's three `continue' tests, all against committed rows.
Skipped(i) ==
  LET o == tape[i].order
  IN  \/ i \in trades
      \/ RequireKnown /\ row[o] = "absent"
      \/ o \notin Mine /\ row[o] # "absent"

\* select(Position) for the token and status OPEN: the first committed match.
OpenRows(k) == {p \in 1 .. Len(positions) :
                  positions[p].token = k /\ positions[p].status = "OPEN"}
IsFirstOpen(p, k) == p \in OpenRows(k) /\ \A q \in OpenRows(k) : p =< q

\* Mutant: the new Position is built but not added to the session.
ApplyBuyNotAdded(i) ==
  LET k == TokenOfTrade(i)
  IN  \/ OpenRows(k) = {} /\ UNCHANGED work
      \/ \E p \in OpenRows(k) :
           /\ IsFirstOpen(p, k)
           /\ work' = [work EXCEPT ![p].size = @ + tape[i].size,
                                  ![p].buys = @ \cup {i}]

\* _apply_to_position, BUY: top up the row found, or add a new one.
ApplyBuy(i) ==
  LET k == TokenOfTrade(i)
      n == tape[i].size
  IN  \/ /\ OpenRows(k) = {}
         /\ work' = Append(work, [token |-> k, size |-> n, status |-> "OPEN",
                                  buys |-> {i}, sells |-> {}])
      \/ \E p \in OpenRows(k) :
           /\ IsFirstOpen(p, k)
           /\ work' = [work EXCEPT ![p].size = @ + n, ![p].buys = @ \cup {i}]

\* Shares that stay on row p after trade i takes off what it can.
Rest(p, i) == IF tape[i].size < work[p].size THEN work[p].size - tape[i].size
                                             ELSE 0

\* _apply_to_position, SELL: take off what the row has; with no row, or an
\* empty one, only a warning event is written.
ApplySell(i) ==
  LET k == TokenOfTrade(i)
  IN  \/ OpenRows(k) = {} /\ UNCHANGED work
      \/ \E p \in OpenRows(k) :
           /\ IsFirstOpen(p, k)
           /\ work' = IF work[p].size = 0 THEN work
                      ELSE [work EXCEPT
                              ![p].size = Rest(p, i),
                              ![p].status = IF Rest(p, i) = 0 THEN "CLOSED" ELSE @,
                              ![p].sells = @ \cup {i}]

\* _do_on_fill: the order's status is decided by this fill alone.
StatusAfter(i) ==
  IF SizeOf[tape[i].order] - tape[i].size =< 0 THEN "FILLED" ELSE "PARTIAL"

SkipTrade(i) ==
  /\ pc = "session" /\ i \in todo
  /\ Skipped(i)
  /\ todo' = todo \ {i}
  /\ UNCHANGED <<exchangeVars, dbVars, pc, pending, fetched, booking, work, marks,
                 stale>>

BookTrade(i) ==
  LET o == tape[i].order
  IN  /\ pc = "session" /\ i \in todo
      /\ ~Skipped(i)
      /\ todo' = todo \ {i}
      /\ booking' = booking \cup {i}
      /\ marks' = IF row[o] = "absent" THEN marks
                  ELSE [marks EXCEPT ![o] = StatusAfter(i)]
      /\ IF IsBuy(i) THEN ApplyBuy(i) ELSE ApplySell(i)
      /\ UNCHANGED <<exchangeVars, dbVars, pc, pending, fetched, stale>>

\* trades.order_id is a foreign key and the pragma enforces it.
ForeignKeysHold == \A i \in booking : row[tape[i].order] # "absent"

\* Mutants: max_ts is never advanced; the cursor is the time of the commit.
MaxTsStuck(t) == t = cursor
MaxTsNow(t) == t = now

\* max_ts runs over every trade of the answer, skipped ones included, and
\* starts from the old cursor.
IsMaxTs(t) ==
  /\ t \in {cursor} \cup {tape[i].ts : i \in fetched}
  /\ cursor =< t /\ \A i \in fetched : tape[i].ts =< t

\* Mutant: the session's pending rows survive its end.
EndSessionKeepsRows ==
  /\ pc' = "idle"
  /\ fetched' = {} /\ todo' = {} /\ booking' = booking
  /\ work' = <<>>
  /\ marks' = [o \in Orders |-> "absent"]
  /\ stale' = FALSE

\* The session closes, after a commit or a rollback.
EndSession ==
  /\ pc' = "idle"
  /\ fetched' = {} /\ todo' = {} /\ booking' = {}
  /\ work' = <<>>
  /\ marks' = [o \in Orders |-> "absent"]
  /\ stale' = FALSE

\* Mutant: the cursor event is left to a commit of its own.
CommitCursorLater ==
  /\ pc = "session" /\ todo = {}
  /\ ForeignKeysHold /\ ~stale
  /\ trades' = trades \cup booking
  /\ row' = [o \in Orders |-> IF marks[o] = "absent" THEN row[o] ELSE marks[o]]
  /\ positions' = work
  /\ EndSession
  /\ UNCHANGED <<exchangeVars, pending, cursor>>

\* Release of the savepoint and commit: the trades, the order statuses, the
\* positions and the cursor event become visible together.
Commit ==
  /\ pc = "session" /\ todo = {}
  /\ ForeignKeysHold /\ ~stale
  /\ trades' = trades \cup booking
  /\ row' = [o \in Orders |-> IF marks[o] = "absent" THEN row[o] ELSE marks[o]]
  /\ positions' = work
  /\ \E t \in 0 .. MaxClock : IsMaxTs(t) /\ cursor' = t
  /\ EndSession
  /\ UNCHANGED <<exchangeVars, pending>>

\* The flush raises (a foreign key fails, or SQLite refuses to turn a stale
\* read snapshot into a write): the whole session is rolled back, and the
\* daemon's loop logs reconcile_fail and carries on.
Abort ==
  /\ pc = "session" /\ todo = {}
  /\ ~ForeignKeysHold \/ stale
  /\ EndSession
  /\ UNCHANGED <<exchangeVars, dbVars, pending>>

\* The process dies and systemd restarts it: only committed rows survive.
Crash ==
  /\ pc # "idle"
  /\ EndSession
  /\ pending' = NoOrder
  /\ UNCHANGED <<exchangeVars, dbVars>>

-----------------------------------------------------------------------------
Exchange == Tick \/ \E o \in Orders : \E n \in 1 .. SizeOf[o] : Match(o, n)

Bot ==
  \/ \E o \in Mine : PlaceLimit(o) \/ CancelOrder(o)
  \/ RecordOrder
  \/ SyncOpenOrders
  \/ Fetch
  \/ \E i \in todo : SkipTrade(i) \/ BookTrade(i)
  \/ Commit
  \/ Abort

OtherBot == \E o \in Orders : OtherPlaces(o) \/ OtherRecords(o)

Faults ==
  \/ Crash
  \/ \E o \in Mine : PlaceLimitLost(o) \/ CancelOrderLost(o)

Next == Exchange \/ Bot \/ OtherBot \/ Faults
Spec == Init /\ [][Next]_vars

-----------------------------------------------------------------------------
(* Properties.                                                             *)

\* Shares of order o that have been matched.
Filled(o) == SumFunctionOnSet(Sizes(tape), {i \in Ids : tape[i].order = o})

TradeType == [order: Orders, size: Nat \ {0}, ts: Nat]

\* Every variable keeps its type.
TypeOK ==
  /\ now \in Nat
  /\ accepted \subseteq Orders
  /\ left \in [Orders -> Nat]
  /\ tape \in Seq(TradeType)
  /\ row \in [Orders -> RowStatus]
  /\ trades \subseteq Ids
  /\ positions \in Seq(PositionType)
  /\ cursor \in Nat
  /\ pc \in {"idle", "placed", "session"}
  /\ pending \in Mine \cup {NoOrder}
  /\ fetched \subseteq Ids /\ todo \subseteq fetched
  /\ booking \subseteq fetched
  /\ work \in Seq(PositionType)
  /\ marks \in [Orders -> RowStatus]
  /\ stale \in BOOLEAN

\* A booked trade is never ahead of the cursor: the Trade rows and the cursor
\* event reach the database together, so a crash can neither lose the one nor
\* re-import the other (reconcile_live_fills, one savepoint per batch).
BookedBehindCursor == \A i \in trades : tape[i].ts =< cursor

\* Every booked BUY is in exactly one position row, whatever the order of a
\* batch and however the session's stale queries pick the row
\* (_do_on_fill's idempotency test and _apply_to_position's BUY branch).
EachBuyInOneRow ==
  \A i \in trades : IsBuy(i) =>
    \E p \in 1 .. Len(positions) :
      \A q \in 1 .. Len(positions) : i \in positions[q].buys <=> p = q

\* The bot books fills of its own recorded orders only, with require_known_order
\* or without, even when the other bot commits its Order row in the middle of
\* the session ("trade belongs to the other bot", reconcile_live_fills).
OnlyOwnFillsBooked ==
  \A i \in trades : tape[i].order \in Mine /\ row[tape[i].order] # "absent"

\* Between two polls: the fills of recorded orders of the bot that the cursor has
\* passed and that are not booked.  No later poll will return them.
SkippedFills ==
  {i \in Ids : /\ tape[i].order \in Mine /\ row[tape[i].order] # "absent"
               /\ tape[i].ts =< cursor /\ i \notin trades}

\* reconcile_live_fills "polls the exchange for user trades and pushes each
\* into on_fill": no fill is skipped.
NoFillSkipped == pc = "idle" => SkippedFills = {}

\* The cursor skips a fill in one way only: an earlier trade of the same whole
\* second was in an answer that the fill was too late for.  The first trade of
\* each second is never skipped, whatever crash, rollback or other order comes
\* between the fetch, the bookings and the cursor (get_user_trades drops
\* ts <= since).
SkippedSharesItsSecond ==
  pc = "idle" =>
    \A i \in SkippedFills : \E j \in 1 .. i - 1 : tape[j].ts = tape[i].ts

\* Shares of token k booked as bought, as sold, and on the open rows.
BookedShares(k, side) ==
  SumFunctionOnSet(Sizes(tape),
    {i \in trades : TokenOfTrade(i) = k /\ SideOf[tape[i].order] = side})
OpenShares(k) ==
  SumFunctionOnSet(Sizes(positions), OpenRows(k))

\* The open rows never show fewer shares of a token than the bot has booked as
\* bought and not sold: get_open_exposure and the caps read these rows.
SharesNotUnderstated ==
  \A k \in Tokens :
    OpenShares(k) >= BookedShares(k, "BUY") - BookedShares(k, "SELL")

\* A row that says FILLED is final: no later poll, cancel or sync reopens the
\* order or calls it cancelled (one fill of the whole size was booked, and the
\* CLOB has nothing left to match).
FilledIsFinal ==
  [][\A o \in Orders : row[o] = "FILLED" => row'[o] = "FILLED"]_vars

\* An order that can still match is known to the bot as open, or has no row: no
\* cancel, sync or fill makes the bot forget an order that rests on the book.
RestingRowIsOpen ==
  \A o \in Mine : left[o] > 0 /\ row[o] # "absent" => row[o] \in OpenStatus

\* The pairs of a position row and a BUY on it, in the committed rows.
Homes(rows) == {h \in (1 .. Len(rows)) \X Ids : h[2] \in rows[h[1]].buys}

\* The ledger implements FillJournal: whatever dies, aborts or is lost, fills
\* are booked in batches that take effect whole, each BUY once and on one row
\* which it never leaves (reconcile_live_fills with on_fill's session).
Journal == INSTANCE FillJournal WITH journal <- trades, home <- Homes(positions)
BooksLikeJournal == Journal!Spec

\* Every trade on the tape is eventually passed by the cursor, if the bot keeps
\* polling: no trade makes each poll fail and so blocks the fills behind it for
\* good, not even one of an order whose answer was lost (require_known_order).
EveryTradePassed ==
  \A i \in 1 .. MaxFills :
    i \in Ids ~> (i \in Ids /\ cursor >= tape[i].ts)
=============================================================================
