--------------------------- MODULE Longshot_proofs ---------------------------
(***************************************************************************)
(* Proofs about Longshot, for every set of markets, every cap and every    *)
(* bound: what crashes, lost answers, failed commits, midnights and        *)
(* replayed fills can do to the bot's tables.                              *)
(*                                                                         *)
(* LoopInv says what the parts of run_loop may assume, BooksInv what is in *)
(* the tables whatever the loop does, CountsInv that what a scan has read, *)
(* missed and placed bounds the orders the ledger knows, EngagedInv which  *)
(* orders went past the gate.  TapeInv relates the booked fills to the     *)
(* matches or prints they came from, HeldInv the open rows to the trades   *)
(* and to the rows read for a settlement in progress.                      *)
(***************************************************************************)
EXTENDS Longshot, SumLemmas

Actors == {"bot", "script"}
Parts == {"top", "enter", "placed", "filling", "book", "prints", "clob", "close",
          "expire", "profit", "resolve", "settle"}
RowStatus == {"absent", "PAPER_OPEN", "live", "matched", "PARTIAL", "FILLED",
              "CANCELLED", "EXCHANGE_CLOSED"}

MissedType == [daily : Nat, gross : Nat]
OrderType == [market : Markets, size : 1 .. FixedSize, day : Nat, from : Nat,
              unchecked : BOOLEAN, missed : MissedType]
TapeType == [of : Nat, market : Markets, size : Nat]
PositionType == [market : Markets, size : Nat, status : {"OPEN", "CLOSED"},
                 buys : SUBSET Nat]
ScanType == [open : Nat, daily : Nat, gross : Nat, placed : Nat, missed : MissedType,
             seen : [Markets -> 0 .. Resolved]]
ReadType == [pos : Nat, market : Markets, size : Nat]

TypeInv ==
  /\ paper \in BOOLEAN /\ maker \in BOOLEAN /\ <<paper, maker>> \in Modes
  /\ phase \in [Markets -> 0 .. Resolved]
  /\ day \in Nat
  /\ orders \in Seq(OrderType)
  /\ left \in Seq(Nat) /\ Len(left) = Len(orders)
  /\ row \in Seq(RowStatus) /\ Len(row) = Len(orders)
  /\ tape \in Seq(TapeType)
  /\ positions \in Seq(PositionType)
  /\ pc \in Parts
  /\ scan \in ScanType
  /\ settling \in [Actors -> SUBSET ReadType]

\* A part is entered in its mode only; the order of an entry in progress has no
\* row, or the row just written.
LoopInv ==
  /\ paper => pc \notin {"clob", "close"}
  /\ ~paper => pc \notin {"filling", "book", "prints", "profit"}
  /\ pc = "filling" => EagerFills /\ pending \in Ids /\ row[pending] = "PAPER_OPEN"
  /\ pc = "placed" => pending \in Ids /\ row[pending] = "absent"
  /\ pc # "settle" => settling["bot"] = {}

\* A trade is a BUY of an order or a SELL of none.
TradeFits(t) ==
  /\ t.market \in Markets /\ t.size \in Nat
  /\ \/ t.side = "BUY" /\ t.order \in Ids /\ t.market = orders[t.order].market
     \/ t.side = "SELL" /\ t.order = 0

BooksInv ==
  /\ IsFiniteSet(trades) /\ \A t \in trades : TradeFits(t)
  /\ \A p \in 1 .. Len(positions) : positions[p].buys \subseteq Ids
  /\ \A o \in Ids : orders[o].day =< day /\ orders[o].from =< Len(tape)
  /\ \A i \in 1 .. Len(tape) : IF paper THEN tape[i].of = 0 ELSE tape[i].of \in Ids
  /\ paper => \A o \in Ids : row[o] \notin {"live", "matched"}
  /\ \A p, q \in AllOpen : positions[p].market = positions[q].market => p = q

\* The days an order of the scan in progress may be booked on.
Counted == {day} \cup (IF pc = "placed" THEN {orders[pending].day} ELSE {})

\* What a day's orders may come to.
DayFits(d) ==
  PlacedOn(d) # {} =>
    /\ \E o \in PlacedOn(d) :
         Cardinality(PlacedOn(d)) =< MaxDaily[paper] + orders[o].missed.daily
    /\ paper \/ \E o \in PlacedOn(d) : GrossOn(d) =< MaxGross + orders[o].missed.gross

\* What the scan in progress has read, missed and placed covers a day.
ScanCovers(d) ==
  /\ Cardinality(PlacedOn(d))
       =< scan.missed.daily + scan.daily + scan.placed + (IF pc = "filling" THEN 1 ELSE 0)
  /\ paper \/ GrossOn(d) =< scan.missed.gross + scan.gross + scan.placed * FixedSize

CountsInv ==
  /\ \A d \in 1 .. MaxDay : DayFits(d)
  /\ pc \in {"enter", "placed", "filling"} => \A d \in Counted : ScanCovers(d)
  /\ pc \in {"placed", "filling"} => CapsAllow
  /\ pc = "placed" => orders[pending].missed = scan.missed

\* Every order but the first through which the bot is in a market got past its
\* gate; so does the one on its way into the orders table, which is the last.
EngagedLater == \A m \in Markets : \A o, q \in Engaged(m) : o < q => orders[q].unchecked
EngagedNext ==
  pc = "placed" =>
    /\ pending = Len(orders)
    /\ orders[pending].unchecked \/ Engaged(orders[pending].market) = {}
EngagedInv == paper => EngagedLater /\ EngagedNext

\* The matches of o that no trade has booked yet; the prints that have filled it.
Unbooked(o) == {i \in 1 .. Len(tape) :
                  tape[i].of = o /\ \A t \in trades : t.id # <<"clob", 0, i>>}
Used(o) == {i \in orders[o].from + 1 .. Len(tape) :
              /\ tape[i].market = orders[o].market
              /\ \E t \in trades : t.id = <<"maker", o, i>>}

TapeInv ==
  /\ paper => \A o \in Ids : left[o] = 0
  /\ \A t \in trades : t.id[1] \in {"clob", "maker"} => t.id[3] \in 1 .. Len(tape)
  /\ \A o \in Ids : BookedApart(o) + SumFunctionOnSet(Sizes(tape), Unbooked(o)) + left[o]
                      =< orders[o].size
  /\ paper /\ maker => \A o \in Ids :
       BookedApart(o) =< SumFunctionOnSet(Sizes(tape), Used(o))

\* What the rows of a market show is what was bought and not sold, unless one of
\* its sales is a settlement of a row that another had sold; a row read for
\* settlement shows no less than was read, unless its market has sold since.
HeldInv ==
  /\ PositionsMatchTrades
  /\ \A a \in Actors : \A r \in settling[a] :
       /\ r.pos \in 1 .. Len(positions) /\ positions[r.pos].market = r.market
       /\ \/ Sales(r.market) # {}
          \/ r.pos \in AllOpen /\ r.size =< positions[r.pos].size

BaseInv == TypeInv /\ LoopInv /\ BooksInv /\ CountsInv /\ EngagedInv

-----------------------------------------------------------------------------
(* The sequences.                                                          *)

LEMMA FcnIsSeq ==
  ASSUME NEW S, NEW n \in Nat, NEW f \in [1 .. n -> S]
  PROVE  f \in Seq(S) /\ Len(f) = n
OBVIOUS

LEMMA OrderFields ==
  ASSUME TypeInv, NEW o \in Ids
  PROVE  /\ orders[o].market \in Markets /\ orders[o].size \in Nat \ {0}
         /\ orders[o].size =< FixedSize
         /\ orders[o].day \in Nat /\ orders[o].from \in Nat
         /\ left[o] \in Nat /\ row[o] \in RowStatus
<1>1. orders[o] \in OrderType
  BY DEF TypeInv, Ids
<1>2. left[o] \in Nat /\ row[o] \in RowStatus
  BY DEF TypeInv, Ids
<1> QED BY <1>1, <1>2, LongshotAssumption DEF OrderType, LongshotAssumption

LEMMA NewOrderIs ==
  ASSUME TypeInv, NEW m \in Markets, NEW n \in 1 .. FixedSize
  PROVE  /\ NewOrder(m, n) \in OrderType
         /\ NewOrder(m, n).market = m /\ NewOrder(m, n).size = n
         /\ NewOrder(m, n).day = day /\ NewOrder(m, n).from = Len(tape)
         /\ NewOrder(m, n).unchecked = GateBlocks(m)
         /\ NewOrder(m, n).missed = scan.missed
<1>1. scan.missed \in MissedType /\ day \in Nat /\ Len(tape) \in Nat
  BY DEF TypeInv, ScanType
<1>2. GateBlocks(m) \in BOOLEAN
  BY DEF GateBlocks
<1> QED BY <1>1, <1>2 DEF NewOrder, OrderType

LEMMA PositionFields ==
  ASSUME TypeInv, NEW p \in 1 .. Len(positions)
  PROVE  /\ positions[p] \in PositionType
         /\ positions[p].market \in Markets /\ positions[p].size \in Nat
         /\ positions[p].status \in {"OPEN", "CLOSED"}
         /\ positions[p].buys \subseteq Nat
<1>1. positions[p] \in PositionType
  BY DEF TypeInv
<1> QED BY <1>1 DEF PositionType

LEMMA TapeFields ==
  ASSUME TypeInv, NEW i \in 1 .. Len(tape)
  PROVE  tape[i].of \in Nat /\ tape[i].market \in Markets /\ tape[i].size \in Nat
<1>1. tape[i] \in TapeType
  BY DEF TypeInv
<1> QED BY <1>1 DEF TapeType

\* The trades of EagerFill, SimulateFill, MakerFill, BookLiveFill; of TakeProfit
\* and Settle.
LEMMA BuyFits ==
  ASSUME TypeInv, NEW o \in Ids, NEW id, NEW n \in Nat
  PROVE  TradeFits(BuyOf(o, id, n))
BY OrderFields DEF TradeFits, BuyOf

LEMMA SellFits ==
  ASSUME NEW m \in Markets, NEW id, NEW n \in Nat
  PROVE  TradeFits(SellOf(m, id, n))
BY DEF TradeFits, SellOf

-----------------------------------------------------------------------------
(* What on_fill does to the positions.                                     *)

\* A market's open row is the only one.
LEMMA OpenRowIsOne ==
  ASSUME TypeInv, BooksInv, NEW m, NEW p \in OpenAt(m)
  PROVE  OpenAt(m) = {p} /\ Min(OpenAt(m)) = p
<1>1. OpenAt(m) = {p}
  BY DEF OpenAt, AllOpen, BooksInv
<1>2. p \in Int
  BY DEF OpenAt
<1>3. Min({p}) = p
  BY <1>2 DEF Min
<1> QED BY <1>1, <1>3

LEMMA FillRows ==
  ASSUME TypeInv, BooksInv, NEW t, TradeFits(t)
  PROVE  \/ \E p \in OpenAt(t.market) :
              Applied(t) = [positions EXCEPT ![p] =
                              IF t.side = "BUY" THEN ToppedUp(@, t) ELSE SoldDown(@, t)]
         \/ /\ OpenAt(t.market) = {} /\ t.side = "BUY"
            /\ Applied(t) = Append(positions, [market |-> t.market, size |-> t.size,
                                   status |-> "OPEN", buys |-> {t.order}])
         \/ OpenAt(t.market) = {} /\ t.side # "BUY" /\ Applied(t) = positions
<1>1. CASE OpenAt(t.market) # {}
  <2>1. PICK p \in OpenAt(t.market) : TRUE
    BY <1>1
  <2>2. Min(OpenAt(t.market)) = p
    BY <2>1, OpenRowIsOne
  <2> QED BY <1>1, <2>1, <2>2 DEF Applied
<1>2. CASE OpenAt(t.market) = {}
  BY <1>2 DEF Applied
<1> QED BY <1>1, <1>2

\* A row topped up, a row sold down.
LEMMA RowAfter ==
  ASSUME TypeInv, NEW t, TradeFits(t), NEW p \in 1 .. Len(positions)
  PROVE  /\ ToppedUp(positions[p], t) \in PositionType
         /\ ToppedUp(positions[p], t).market = positions[p].market
         /\ ToppedUp(positions[p], t).size = positions[p].size + t.size
         /\ ToppedUp(positions[p], t).status = positions[p].status
         /\ ToppedUp(positions[p], t).buys = positions[p].buys \cup {t.order}
         /\ SoldDown(positions[p], t) \in PositionType
         /\ SoldDown(positions[p], t).market = positions[p].market
         /\ SoldDown(positions[p], t).size =
              IF t.size < positions[p].size THEN positions[p].size - t.size ELSE 0
         /\ SoldDown(positions[p], t).status =
              IF t.size < positions[p].size THEN "OPEN" ELSE "CLOSED"
         /\ SoldDown(positions[p], t).buys = positions[p].buys
<1> DEFINE q == positions[p]
<1>1. q \in PositionType
  BY PositionFields
<1>2. t.size \in Nat /\ t.order \in Nat
  BY DEF TradeFits, Ids
<1> HIDE DEF q
<1>3. q.size + t.size \in Nat /\ q.buys \cup {t.order} \in SUBSET Nat
      /\ q.size - t.size \in Int /\ q.size \in Nat
  BY <1>1, <1>2 DEF PositionType
<1>4. /\ ToppedUp(q, t) \in PositionType
      /\ ToppedUp(q, t).market = q.market
      /\ ToppedUp(q, t).size = q.size + t.size
      /\ ToppedUp(q, t).status = q.status
      /\ ToppedUp(q, t).buys = q.buys \cup {t.order}
  BY <1>1, <1>3 DEF ToppedUp, PositionType
<1>5. CASE t.size < q.size
  <2>1. q.size - t.size \in Nat
    BY <1>2, <1>3, <1>5
  <2>2. SoldDown(q, t) = [q EXCEPT !.size = q.size - t.size, !.status = "OPEN"]
    BY <1>1, <1>5 DEF SoldDown, PositionType
  <2>3. /\ SoldDown(q, t) \in PositionType /\ SoldDown(q, t).market = q.market
        /\ SoldDown(q, t).size = q.size - t.size /\ SoldDown(q, t).status = "OPEN"
        /\ SoldDown(q, t).buys = q.buys
    BY <1>1, <2>1, <2>2 DEF PositionType
  <2> QED BY <1>4, <1>5, <2>3 DEF q
<1>6. CASE ~(t.size < q.size)
  <2>1. PICK n \in Nat : n = 0
    OBVIOUS
  <2>2. SoldDown(q, t) = [q EXCEPT !.size = n, !.status = "CLOSED"]
    BY <1>1, <1>6, <2>1 DEF SoldDown, PositionType
  <2>3. /\ SoldDown(q, t) \in PositionType /\ SoldDown(q, t).market = q.market
        /\ SoldDown(q, t).size = n /\ SoldDown(q, t).status = "CLOSED"
        /\ SoldDown(q, t).buys = q.buys
    BY <1>1, <2>2 DEF PositionType
  <2> QED BY <1>4, <1>6, <2>1, <2>3 DEF q
<1> QED BY <1>5, <1>6

\* The types and the markets' rows survive a fill.
LEMMA FillTypes ==
  ASSUME TypeInv, BooksInv, NEW t, TradeFits(t), OnFill(t)
  PROVE  /\ positions' \in Seq(PositionType) /\ Len(positions) =< Len(positions')
         /\ row' \in Seq(RowStatus) /\ Len(row') = Len(row)
         /\ \A o \in Ids : o # t.order => row'[o] = row[o]
         /\ \A o \in Ids : row'[o] \in {row[o], "PARTIAL", "FILLED"}
<1>1. CASE UNCHANGED tables
  BY <1>1, OrderFields DEF tables, TypeInv
<1>2. CASE ~ UNCHANGED tables
  <2>1. /\ row' = [o \in Ids |-> IF o # t.order THEN row[o]
                                 ELSE IF t.size < orders[o].size THEN "PARTIAL" ELSE "FILLED"]
        /\ positions' = Applied(t)
    BY <1>2 DEF OnFill
  <2>2. /\ row' \in [1 .. Len(orders) -> RowStatus]
        /\ \A o \in Ids : o # t.order => row'[o] = row[o]
        /\ \A o \in Ids : row'[o] \in {row[o], "PARTIAL", "FILLED"}
    BY <2>1, OrderFields DEF RowStatus, Ids
  <2>3. row' \in Seq(RowStatus) /\ Len(row') = Len(row)
    <3>1. Len(orders) \in Nat /\ Len(row) = Len(orders)
      BY DEF TypeInv
    <3> QED BY <2>2, <3>1, FcnIsSeq
  <2>4. positions \in Seq(PositionType) /\ Len(positions) \in Nat
    BY DEF TypeInv
  <2>5. CASE \E p \in OpenAt(t.market) :
              Applied(t) = [positions EXCEPT ![p] =
                              IF t.side = "BUY" THEN ToppedUp(@, t) ELSE SoldDown(@, t)]
    <3>1. PICK p \in 1 .. Len(positions) :
              Applied(t) = [positions EXCEPT ![p] =
                              IF t.side = "BUY" THEN ToppedUp(positions[p], t)
                              ELSE SoldDown(positions[p], t)]
      BY <2>5 DEF OpenAt
    <3>2. (IF t.side = "BUY" THEN ToppedUp(positions[p], t)
           ELSE SoldDown(positions[p], t)) \in PositionType
      BY RowAfter
    <3> QED BY <2>1, <2>2, <2>3, <2>4, <3>1, <3>2
  <2>6. CASE Applied(t) = Append(positions, [market |-> t.market, size |-> t.size,
                                   status |-> "OPEN", buys |-> {t.order}])
    <3>1. [market |-> t.market, size |-> t.size, status |-> "OPEN", buys |-> {t.order}]
            \in PositionType
      BY DEF TradeFits, PositionType, Ids
    <3> QED BY <2>1, <2>2, <2>3, <2>4, <2>6, <3>1
  <2>7. CASE Applied(t) = positions
    BY <2>1, <2>2, <2>3, <2>4, <2>7
  <2> QED BY <2>5, <2>6, <2>7, FillRows
<1> QED BY <1>1, <1>2

-----------------------------------------------------------------------------
(* The steps that book a fill.                                             *)

Fills(t) ==
  /\ OnFill(t) /\ TradeFits(t)
  /\ t.side = "BUY" => /\ row[t.order] # "absent"
                       /\ paper => row[t.order] \in {"PAPER_OPEN", "PARTIAL"}
  /\ UNCHANGED world /\ orders' = orders

LEMMA EagerFills1 ==
  ASSUME TypeInv, LoopInv, EagerFill
  PROVE  Fills(BuyOf(pending, <<"fill", pending, 0>>, orders[pending].size))
<1>1. pending \in Ids /\ row[pending] = "PAPER_OPEN"
  BY DEF LoopInv, EagerFill
<1>2. TradeFits(BuyOf(pending, <<"fill", pending, 0>>, orders[pending].size))
  BY <1>1, BuyFits, OrderFields
<1> QED BY <1>1, <1>2 DEF EagerFill, Fills, BuyOf

LEMMA SimulateFills ==
  ASSUME TypeInv, LoopInv, NEW o \in Ids, SimulateFill(o)
  PROVE  Fills(BuyOf(o, <<"fill", o, 0>>, orders[o].size))
<1>1. TradeFits(BuyOf(o, <<"fill", o, 0>>, orders[o].size))
  BY BuyFits, OrderFields
<1>2. row[o] \in {"PAPER_OPEN", "PARTIAL"}
  BY OrderFields DEF SimulateFill, RowStatus
<1> QED BY <1>1, <1>2 DEF SimulateFill, Fills, BuyOf

\* The shares booked for an order.
LEMMA SizesSum ==
  ASSUME TypeInv, BooksInv, NEW S \in SUBSET trades
  PROVE  /\ IsFiniteSet(S) /\ SumSizes(S) \in Nat
         /\ \A t \in S : [u \in S |-> u.size][t] \in Nat
<1>1. IsFiniteSet(S) /\ \A t \in S : t.size \in Nat
  BY FS_Subset DEF BooksInv, TradeFits
<1> DEFINE f == [t \in S |-> t.size]
<1>2. \A t \in S : f[t] \in Nat
  BY <1>1
<1> HIDE DEF f
<1>3. SumFunctionOnSet(f, S) \in Nat
  BY <1>1, <1>2, SumType
<1> QED BY <1>1, <1>2, <1>3 DEF SumSizes, f

LEMMA BoughtNat ==
  ASSUME TypeInv, BooksInv, NEW o
  PROVE  BoughtBy(o) \in Nat
BY SizesSum DEF BoughtBy

LEMMA MakerFills ==
  ASSUME TypeInv, LoopInv, BooksInv, NEW o \in Ids, NEW i \in 1 .. Len(tape),
         MakerFill(o, i)
  PROVE  \E n \in Nat : /\ n =< tape[i].size /\ n =< Remaining(o)
                        /\ Fills(BuyOf(o, <<"maker", o, i>>, n))
<1> DEFINE n == IF tape[i].size < Remaining(o) THEN tape[i].size ELSE Remaining(o)
<1>1. Remaining(o) \in Int /\ Remaining(o) > 0
  BY BoughtNat, OrderFields DEF MakerFill, Remaining
<1>2. n \in Nat /\ n =< tape[i].size /\ n =< Remaining(o)
  BY <1>1, TapeFields
<1>3. /\ row[o] \in {"PAPER_OPEN", "PARTIAL"}
      /\ OnFill(BuyOf(o, <<"maker", o, i>>, n)) /\ UNCHANGED world /\ orders' = orders
  BY DEF MakerFill
<1> HIDE DEF n
<1>4. TradeFits(BuyOf(o, <<"maker", o, i>>, n))
  BY <1>2, BuyFits
<1>5. Fills(BuyOf(o, <<"maker", o, i>>, n))
  BY <1>3, <1>4 DEF Fills, BuyOf
<1> QED BY <1>2, <1>5

LEMMA LiveFills ==
  ASSUME TypeInv, LoopInv, BooksInv, NEW i \in 1 .. Len(tape), BookLiveFill(i)
  PROVE  /\ tape[i].of \in Ids
         /\ Fills(BuyOf(tape[i].of, <<"clob", 0, i>>, tape[i].size))
<1>1. ~paper /\ tape[i].of \in Ids
  BY DEF LoopInv, BooksInv, BookLiveFill
<1>2. TradeFits(BuyOf(tape[i].of, <<"clob", 0, i>>, tape[i].size))
  BY <1>1, BuyFits, TapeFields
<1>3. /\ row[tape[i].of] # "absent"
      /\ OnFill(BuyOf(tape[i].of, <<"clob", 0, i>>, tape[i].size))
      /\ UNCHANGED world /\ orders' = orders
  BY DEF BookLiveFill
<1> QED BY <1>1, <1>2, <1>3 DEF Fills, BuyOf

LEMMA ProfitFills ==
  ASSUME TypeInv, NEW p \in AllOpen, TakeProfit(p)
  PROVE  Fills(SellOf(positions[p].market, <<"profit", p, 0>>, positions[p].size))
<1>1. TradeFits(SellOf(positions[p].market, <<"profit", p, 0>>, positions[p].size))
  BY SellFits, PositionFields DEF AllOpen
<1> QED BY <1>1 DEF TakeProfit, Fills, SellOf

LEMMA SettleFills ==
  ASSUME TypeInv, NEW a \in Actors, NEW r \in settling[a], Settle(a, r)
  PROVE  Fills(SellOf(r.market, <<"resolve", r.pos, 0>>, r.size))
<1>1. r \in ReadType
  BY DEF TypeInv
<1>2. TradeFits(SellOf(r.market, <<"resolve", r.pos, 0>>, r.size))
  BY <1>1, SellFits DEF ReadType
<1> QED BY <1>2 DEF Settle, Fills, SellOf

\* A step of the loop or of the script that books something.
FillAction ==
  \/ EagerFill
  \/ \E o \in Ids : SimulateFill(o)
  \/ \E i \in 1 .. Len(tape) : BookLiveFill(i) \/ \E o \in Ids : MakerFill(o, i)
  \/ \E p \in AllOpen : TakeProfit(p)
  \/ \E a \in Actors : \E r \in settling[a] : Settle(a, r)

LEMMA FillActionFills ==
  ASSUME TypeInv, LoopInv, BooksInv, FillAction
  PROVE  \E t : Fills(t)
BY EagerFills1, SimulateFills, MakerFills, LiveFills, ProfitFills, SettleFills
   DEF FillAction

\* The other steps that touch orders, tables, matches or prints.
EntryAction ==
  \/ PersistEntry
  \/ \E m \in Markets, n \in 1 .. FixedSize : PlaceEntry(m, n) \/ PlaceEntryLost(m, n)
RowAction == ReconcileOpenOrders \/ \E o \in Ids : CancelExpired(o)
TapeAction == \E n \in 1 .. FixedSize : \/ \E o \in Ids : Match(o, n)
                                        \/ \E m \in Markets : Printed(m, n)
Scans == \E failed \in SUBSET Queries : StartScan(failed)
MemoryAction ==
  \/ NewDay \/ HaltChanges \/ Scans \/ Proceed \/ BotReads \/ ScriptReads
  \/ PersistFails \/ EagerFillFails \/ Crash \/ ReconcileFails
  \/ \E m \in Markets : Advance(m) \/ EntryBlocked(m)
  \/ \E o \in Ids : CancelExpiredLost(o)
  \/ \E a \in Actors : \E r \in settling[a] : SkipRow(a, r)

LEMMA NextIs == Next => FillAction \/ EntryAction \/ RowAction \/ TapeAction \/ MemoryAction
<1>1. World => TapeAction \/ MemoryAction
  BY DEF World, TapeAction, MemoryAction
<1>2. Entries => FillAction \/ EntryAction \/ MemoryAction
  BY DEF Entries, FillAction, EntryAction, MemoryAction, Scans
<1>3. Reconciliation => FillAction \/ RowAction \/ MemoryAction
  BY DEF Reconciliation, FillAction, RowAction, MemoryAction, Actors
<1>4. LostAnswers \/ FailedWrites \/ ScriptReads \/ Crash \/ ReconcileFails
        => EntryAction \/ MemoryAction
  BY DEF LostAnswers, FailedWrites, EntryAction, MemoryAction
<1> QED BY <1>1, <1>2, <1>3, <1>4 DEF Next

-----------------------------------------------------------------------------
(* Types.                                                                  *)

LEMMA ScanTypes ==
  ASSUME TypeInv, NEW m
  PROVE  /\ Done(m) \in ScanType
         /\ [Done(m) EXCEPT !.placed = @ + 1] \in ScanType
         /\ NoScan \in ScanType
<1>1. scan \in ScanType
  BY DEF TypeInv
<1>2. Done(m) \in ScanType
  BY <1>1 DEF Done, ScanType, Resolved
<1>3. [Done(m) EXCEPT !.placed = @ + 1] \in ScanType
  BY <1>2 DEF ScanType
<1>4. NoScan \in ScanType
  BY DEF NoScan, ScanType, MissedType, Resolved
<1> QED BY <1>2, <1>3, <1>4

\* A fill's step leaves everything else alone but the part and the reads.
LEMMA FillFrame ==
  ASSUME TypeInv, FillAction
  PROVE  /\ pc' \in Parts /\ scan' \in ScanType /\ settling' \in [Actors -> SUBSET ReadType]
<1>1. CASE EagerFill
  <2>1. pc' = "enter" /\ UNCHANGED settling
    BY <1>1 DEF EagerFill, EntryEnds
  <2>2. scan' = [Done(orders[pending].market) EXCEPT !.placed = @ + 1]
    BY <1>1 DEF EagerFill, EntryEnds
  <2>3. scan' \in ScanType
    BY <2>2, ScanTypes
  <2> QED BY <2>1, <2>3 DEF TypeInv, Parts
<1>2. CASE ~EagerFill
  <2>1. UNCHANGED <<scan, pc>>
    BY <1>2 DEF FillAction, SimulateFill, MakerFill, BookLiveFill, TakeProfit, Settle,
                memory
  <2>2. \/ UNCHANGED settling
        \/ \E a \in Actors : \E r \in settling[a] :
             settling' = [settling EXCEPT ![a] = @ \ {r}]
    BY <1>2 DEF FillAction, SimulateFill, MakerFill, BookLiveFill, TakeProfit, Settle
  <2> QED BY <2>1, <2>2 DEF TypeInv
<1> QED BY <1>1, <1>2

LEMMA TodayFinite ==
  ASSUME TypeInv, NEW S \in SUBSET Ids
  PROVE  /\ IsFiniteSet(S) /\ Cardinality(S) \in Nat
         /\ \A o \in Ids : Sizes(orders)[o] = orders[o].size /\ Sizes(orders)[o] \in Nat
         /\ SumFunctionOnSet(Sizes(orders), S) \in Nat
<1>1. Len(orders) \in Nat /\ DOMAIN orders = Ids
  BY DEF TypeInv, Ids
<1>2. IsFiniteSet(Ids)
  BY <1>1, FS_Interval DEF Ids
<1>3. IsFiniteSet(S) /\ Cardinality(S) \in Nat
  BY <1>2, FS_Subset, FS_CardinalityType
<1>4. \A o \in Ids : Sizes(orders)[o] = orders[o].size /\ Sizes(orders)[o] \in Nat
  BY <1>1, OrderFields DEF Sizes
<1>5. \A o \in S : Sizes(orders)[o] \in Nat
  BY <1>4
<1> QED BY <1>3, <1>4, <1>5, SumType

\* The counts of a scan.
LEMMA CountTypes ==
  ASSUME TypeInv, NEW q \in Queries
  PROVE  Count(q) \in Nat
<1>1. \A d : Cardinality(PlacedOn(d)) \in Nat /\ GrossOn(d) \in Nat
  BY TodayFinite DEF PlacedOn, Recorded, GrossOn
<1>2. Len(positions) \in Nat
  BY DEF TypeInv
<1>3. IsFiniteSet(1 .. Len(positions))
  BY <1>2, FS_Interval
<1>4. IsFiniteSet(AllOpen)
  BY <1>3, FS_Subset DEF AllOpen
<1>5. Cardinality(AllOpen) \in Nat
  BY <1>4, FS_CardinalityType
<1> QED BY <1>1, <1>5 DEF Count, Queries

LEMMA EntryFrame ==
  ASSUME TypeInv, LoopInv, EntryAction
  PROVE  /\ orders' \in Seq(OrderType) /\ left' \in Seq(Nat) /\ row' \in Seq(RowStatus)
         /\ Len(left') = Len(orders') /\ Len(row') = Len(orders')
         /\ Len(orders) =< Len(orders') /\ \A o \in Ids : orders'[o] = orders[o]
         /\ pc' \in Parts /\ scan' \in ScanType
<1>0. /\ orders \in Seq(OrderType) /\ left \in Seq(Nat) /\ row \in Seq(RowStatus)
      /\ Len(left) = Len(orders) /\ Len(row) = Len(orders) /\ Len(orders) \in Nat
      /\ scan \in ScanType /\ pc \in Parts
  BY DEF TypeInv
<1>1. CASE PersistEntry
  <2>1. PICK s \in RowStatus : row' = [row EXCEPT ![pending] = s]
    BY <1>1 DEF PersistEntry, RowStatus
  <2>2. row' \in Seq(RowStatus) /\ Len(row') = Len(row)
    BY <1>0, <2>1, <1>1 DEF LoopInv, PersistEntry, Ids
  <2>3. pc' \in {"enter", "filling"}
        /\ scan' \in {scan, [Done(orders[pending].market) EXCEPT !.placed = @ + 1]}
    BY <1>1 DEF PersistEntry, EntryEnds, memory
  <2>4. UNCHANGED <<orders, left>>
    BY <1>1 DEF PersistEntry, world
  <2> QED BY <1>0, <2>2, <2>3, <2>4, ScanTypes DEF Parts, Ids
<1>2. ASSUME NEW m \in Markets, NEW n \in 1 .. FixedSize, Submit(m, n)
      PROVE  /\ orders' \in Seq(OrderType) /\ left' \in Seq(Nat) /\ row' \in Seq(RowStatus)
             /\ Len(left') = Len(orders') /\ Len(row') = Len(orders')
             /\ Len(orders) =< Len(orders') /\ \A o \in Ids : orders'[o] = orders[o]
  <2> DEFINE new == NewOrder(m, n)
  <2>1. new \in OrderType
    BY NewOrderIs
  <2>2. orders' = Append(orders, new) /\ row' = Append(row, "absent")
        /\ left' = Append(left, IF paper THEN 0 ELSE n)
    BY <1>2 DEF Submit
  <2>3. (IF paper THEN 0 ELSE n) \in Nat /\ "absent" \in RowStatus
    BY LongshotAssumption DEF RowStatus, LongshotAssumption
  <2> HIDE DEF new
  <2> QED BY <1>0, <2>1, <2>2, <2>3 DEF Ids
<1>3. ASSUME NEW m \in Markets, NEW n \in 1 .. FixedSize,
             PlaceEntry(m, n) \/ PlaceEntryLost(m, n)
      PROVE  pc' \in Parts /\ scan' \in ScanType /\ Submit(m, n)
  BY <1>0, <1>3, ScanTypes DEF PlaceEntry, PlaceEntryLost, Parts
<1> QED BY <1>1, <1>2, <1>3 DEF EntryAction

LEMMA TypeStep ==
  ASSUME TypeInv, LoopInv, BooksInv, [Next]_vars
  PROVE  TypeInv'
<1>0. /\ orders \in Seq(OrderType) /\ left \in Seq(Nat) /\ row \in Seq(RowStatus)
      /\ Len(left) = Len(orders) /\ Len(row) = Len(orders) /\ Len(orders) \in Nat
      /\ tape \in Seq(TapeType)
  BY DEF TypeInv
<1>1. CASE FillAction
  <2>1. PICK t : Fills(t)
    BY <1>1, FillActionFills
  <2>2. /\ positions' \in Seq(PositionType) /\ row' \in Seq(RowStatus)
        /\ Len(row') = Len(row) /\ UNCHANGED world /\ orders' = orders
    BY <2>1, FillTypes DEF Fills
  <2> QED BY <1>1, <2>2, FillFrame DEF TypeInv, world
<1>2. CASE EntryAction
  <2>1. UNCHANGED <<paper, maker, phase, day, tape, positions, settling>>
    BY <1>2 DEF EntryAction, PersistEntry, PlaceEntry, PlaceEntryLost, Submit, world
  <2> QED BY <1>2, <2>1, EntryFrame DEF TypeInv
<1>3. CASE RowAction
  <2>1. UNCHANGED <<paper, maker, phase, day, orders, tape, positions, pc, scan, settling>>
    BY <1>3 DEF RowAction, ReconcileOpenOrders, CancelExpired, world, memory
  <2>2. CASE ReconcileOpenOrders
    <3>1. row' \in [1 .. Len(orders) -> RowStatus] /\ UNCHANGED left
      BY <2>2, OrderFields DEF ReconcileOpenOrders, RowStatus, world, Ids
    <3>2. row' \in Seq(RowStatus) /\ Len(row') = Len(orders)
      BY <1>0, <3>1, FcnIsSeq
    <3> QED BY <1>0, <2>1, <3>1, <3>2 DEF TypeInv
  <2>3. ASSUME NEW o \in Ids, CancelExpired(o) PROVE TypeInv'
    <3>1. left' = [left EXCEPT ![o] = 0] /\ row' = [row EXCEPT ![o] = "CANCELLED"]
      BY <2>3 DEF CancelExpired
    <3>2. /\ left' \in Seq(Nat) /\ Len(left') = Len(left)
          /\ row' \in Seq(RowStatus) /\ Len(row') = Len(row)
      BY <1>0, <3>1 DEF Ids, RowStatus
    <3> QED BY <1>0, <2>1, <3>2 DEF TypeInv
  <2> QED BY <1>3, <2>2, <2>3 DEF RowAction
<1>4. CASE TapeAction
  <2>1. UNCHANGED <<paper, maker, phase, day, orders, row, positions, pc, scan, settling>>
    BY <1>4 DEF TapeAction, Match, Printed, tables, memory
  <2>2. ASSUME NEW n \in 1 .. FixedSize, NEW o \in Ids, Match(o, n) PROVE TypeInv'
    <3>1. [of |-> o, market |-> orders[o].market, size |-> n] \in TapeType
      BY OrderFields, LongshotAssumption DEF TapeType, Ids, LongshotAssumption
    <3>2. tape' \in Seq(TapeType)
      BY <1>0, <2>2, <3>1 DEF Match
    <3>3. left[o] - n \in Nat
      BY <2>2, OrderFields DEF Match
    <3>4. left' = [left EXCEPT ![o] = left[o] - n]
      BY <2>2 DEF Match
    <3>5. left' \in Seq(Nat) /\ Len(left') = Len(left)
      BY <1>0, <3>3, <3>4 DEF Ids
    <3> QED BY <1>0, <2>1, <3>2, <3>5 DEF TypeInv
  <2>3. ASSUME NEW n \in 1 .. FixedSize, NEW m \in Markets, Printed(m, n) PROVE TypeInv'
    <3>1. [of |-> 0, market |-> m, size |-> n] \in TapeType
      BY LongshotAssumption DEF TapeType, LongshotAssumption
    <3>2. tape' \in Seq(TapeType) /\ UNCHANGED left
      BY <1>0, <2>3, <3>1 DEF Printed
    <3> QED BY <1>0, <2>1, <3>2 DEF TypeInv
  <2> QED BY <1>4, <2>2, <2>3 DEF TapeAction
<1>5. CASE MemoryAction
  <2>1. UNCHANGED <<paper, maker, orders, tape, row, positions>>
    BY <1>5 DEF MemoryAction, NewDay, HaltChanges, Scans, StartScan, Proceed, BotReads,
         ScriptReads, PersistFails, EagerFillFails, Crash, ReconcileFails, Advance,
         EntryBlocked, CancelExpiredLost, SkipRow, world, tables, memory
  <2>2. pc' \in Parts
    BY <1>5 DEF MemoryAction, NewDay, HaltChanges, Scans, StartScan, Proceed, NextPart, BotReads,
         ScriptReads, PersistFails, EagerFillFails, EntryEnds, Crash, ReconcileFails,
         Advance, EntryBlocked, CancelExpiredLost, SkipRow, TypeInv, Parts
  <2>3. phase' \in [Markets -> 0 .. Resolved] /\ day' \in Nat
    <3>1. \/ UNCHANGED <<phase, day>>
          \/ NewDay \/ \E m \in Markets : Advance(m)
      BY <1>5 DEF MemoryAction, HaltChanges, Scans, StartScan, Proceed, BotReads,
           ScriptReads, PersistFails, EagerFillFails, Crash, ReconcileFails,
           EntryBlocked, CancelExpiredLost, SkipRow, world
    <3>2. phase \in [Markets -> 0 .. Resolved] /\ day \in Nat
      BY DEF TypeInv
    <3>3. NewDay => phase' = phase /\ day' \in Nat
      BY <3>2 DEF NewDay
    <3>4. ASSUME NEW m \in Markets, Advance(m)
          PROVE  phase' \in [Markets -> 0 .. Resolved] /\ day' = day
      BY <3>2, <3>4 DEF Advance, Resolved
    <3> QED BY <3>1, <3>2, <3>3, <3>4
  <2>4. left' \in Seq(Nat) /\ Len(left') = Len(orders)
    <3>1. \/ UNCHANGED left
          \/ \E m \in Markets : Advance(m)
          \/ \E o \in Ids : CancelExpiredLost(o)
      BY <1>5 DEF MemoryAction, NewDay, HaltChanges, Scans, StartScan, Proceed, BotReads,
           ScriptReads, PersistFails, EagerFillFails, Crash, ReconcileFails,
           EntryBlocked, SkipRow, world
    <3>2. ASSUME NEW m \in Markets, Advance(m)
          PROVE  left' \in [1 .. Len(orders) -> Nat]
      BY <3>2, OrderFields DEF Advance, Ids
    <3>3. ASSUME NEW o \in Ids, CancelExpiredLost(o)
          PROVE  left' \in Seq(Nat) /\ Len(left') = Len(orders)
      BY <1>0, <3>3 DEF CancelExpiredLost, Ids
    <3> QED BY <1>0, <3>1, <3>2, <3>3, FcnIsSeq
  <2>5. scan' \in ScanType
    <3>1. \/ Scans \/ scan' = NoScan \/ scan' = scan
          \/ \E m : scan' = Done(m) \/ scan' = [Done(m) EXCEPT !.placed = @ + 1]
      BY <1>5 DEF MemoryAction, NewDay, HaltChanges, Proceed, BotReads,
           ScriptReads, PersistFails, EagerFillFails, EntryEnds, Crash, ReconcileFails,
           Advance, EntryBlocked, CancelExpiredLost, SkipRow, memory
    <3>2. CASE Scans
      <4>1. PICK failed \in SUBSET Queries : StartScan(failed)
        BY <3>2 DEF Scans
      <4>2. \A q \in Queries : Got(q, failed) \in Nat /\ Lost(q, failed) \in Nat
        BY CountTypes DEF Got, Lost
      <4>3. "open" \in Queries /\ "daily" \in Queries /\ "gross" \in Queries
        BY DEF Queries
      <4>4. scan' = [open |-> Got("open", failed),
                     daily |-> Got("daily", failed), gross |-> Got("gross", failed),
                     placed |-> 0,
                     missed |-> [daily |-> Lost("daily", failed),
                                 gross |-> Lost("gross", failed)],
                     seen |-> phase]
        BY <4>1 DEF StartScan
      <4>5. PICK z \in Nat : z = 0
        OBVIOUS
      <4>6. phase \in [Markets -> 0 .. Resolved]
        BY DEF TypeInv
      <4> QED BY <4>2, <4>3, <4>4, <4>5, <4>6 DEF ScanType, MissedType
    <3> QED BY <3>1, <3>2, ScanTypes DEF TypeInv
  <2>6. settling' \in [Actors -> SUBSET ReadType]
    <3>1. \/ UNCHANGED settling \/ BotReads \/ ScriptReads \/ Crash
          \/ \E a \in Actors : \E r \in settling[a] : SkipRow(a, r)
      BY <1>5 DEF MemoryAction, NewDay, HaltChanges, Scans, StartScan, Proceed,
           PersistFails, EagerFillFails, ReconcileFails,
           Advance, EntryBlocked, CancelExpiredLost
    <3>2. {[pos |-> p, market |-> positions[p].market, size |-> positions[p].size] :
             p \in AllOpen} \subseteq ReadType
      BY PositionFields DEF AllOpen, ReadType
    <3> QED BY <3>1, <3>2 DEF BotReads, ScriptReads, ReadOpenRows, Crash, SkipRow,
                              TypeInv, Actors
  <2> QED BY <1>0, <2>1, <2>2, <2>3, <2>4, <2>5, <2>6 DEF TypeInv
<1>6. CASE UNCHANGED vars
  BY <1>6 DEF TypeInv, vars
<1> QED BY <1>1, <1>2, <1>3, <1>4, <1>5, <1>6, NextIs

-----------------------------------------------------------------------------
(* The parts of the loop, and the tables whatever the loop does.           *)

LEMMA ModeKept ==
  ASSUME Next
  PROVE  paper' = paper /\ maker' = maker
<1>1. FillAction => UNCHANGED <<paper, maker>>
  BY DEF FillAction, EagerFill, SimulateFill, MakerFill, BookLiveFill, TakeProfit,
         Settle, world
<1>2. EntryAction \/ RowAction \/ TapeAction => UNCHANGED <<paper, maker>>
  BY DEF EntryAction, PersistEntry, PlaceEntry, PlaceEntryLost, Submit, RowAction,
         ReconcileOpenOrders, CancelExpired, TapeAction, Match, Printed, world
<1>3. MemoryAction => UNCHANGED <<paper, maker>>
  BY DEF MemoryAction, NewDay, HaltChanges, Scans, StartScan, Proceed, BotReads,
         ScriptReads, PersistFails, EagerFillFails, Crash, ReconcileFails, Advance,
         EntryBlocked, CancelExpiredLost, SkipRow, world
<1> QED BY <1>1, <1>2, <1>3, NextIs

\* A step of the memory leaves the tables and what the exchange knows alone, but for
\* orders that leave the book.
LEMMA MemoryFrame ==
  ASSUME MemoryAction
  PROVE  /\ UNCHANGED <<orders, tape, row, trades, positions>>
         /\ UNCHANGED left \/ (\E m \in Markets : Advance(m))
              \/ \E o \in Ids : CancelExpiredLost(o)
         /\ day' = day \/ NewDay
BY DEF MemoryAction, NewDay, HaltChanges, Scans, StartScan, Proceed, BotReads,
       ScriptReads, PersistFails, EagerFillFails, Crash, ReconcileFails, Advance,
       EntryBlocked, CancelExpiredLost, SkipRow, world, tables

LEMMA LoopInvStep ==
  ASSUME TypeInv, LoopInv, BooksInv, [Next]_vars
  PROVE  LoopInv'
<1>1. CASE FillAction
  <2>1. PICK t : Fills(t)
    BY <1>1, FillActionFills
  <2>2. UNCHANGED <<paper, maker, orders>>
    BY <2>1 DEF Fills, world
  <2>3. CASE EagerFill
    BY <2>2, <2>3 DEF EagerFill, EntryEnds, LoopInv
  <2>4. CASE FillAction /\ pc \in {"book", "prints", "clob", "profit"} /\ UNCHANGED <<pc, settling>>
    BY <2>2, <2>4 DEF LoopInv
  <2>5. ASSUME NEW a \in Actors, NEW r \in settling[a], Settle(a, r)
        PROVE  LoopInv'
    <3>1. Fills(SellOf(r.market, <<"resolve", r.pos, 0>>, r.size))
      BY <2>5, SettleFills
    <3>2. \A o \in Ids : row'[o] = row[o]
      BY <3>1, FillTypes DEF Fills, SellOf, Ids
    <3>3. UNCHANGED <<pc, pending>> /\ settling' = [settling EXCEPT ![a] = @ \ {r}]
      BY <2>5 DEF Settle
    <3>4. settling'["bot"] \subseteq settling["bot"]
      BY <3>3 DEF TypeInv, Actors
    <3> QED BY <2>2, <3>2, <3>3, <3>4 DEF LoopInv, Ids, EagerFills
  <2> QED BY <1>1, <2>3, <2>4, <2>5 DEF FillAction, SimulateFill, MakerFill, BookLiveFill,
                                        TakeProfit
<1>2. CASE EntryAction
  <2>1. CASE PersistEntry
    <3>1. pending \in Ids /\ pc = "placed" /\ UNCHANGED <<paper, maker, orders, settling>>
      BY <2>1 DEF PersistEntry, LoopInv, world
    <3>2. \/ pc' = "enter"
          \/ /\ EagerFills /\ pc' = "filling" /\ pending' = pending
             /\ row' = [row EXCEPT ![pending] = "PAPER_OPEN"]
      BY <2>1 DEF PersistEntry, EntryEnds, EagerFills
    <3>3. row \in Seq(RowStatus) /\ Len(row) = Len(orders)
      BY DEF TypeInv
    <3>4. CASE pc' = "enter"
      BY <3>1, <3>4 DEF LoopInv
    <3>5. CASE /\ EagerFills /\ pc' = "filling" /\ pending' = pending
               /\ row' = [row EXCEPT ![pending] = "PAPER_OPEN"]
      <4>1. row'[pending] = "PAPER_OPEN"
        BY <3>1, <3>3, <3>5 DEF Ids
      <4> QED BY <3>1, <3>5, <4>1 DEF LoopInv, Ids, EagerFills
    <3> QED BY <3>2, <3>4, <3>5
  <2>2. ASSUME NEW m \in Markets, NEW n \in 1 .. FixedSize, PlaceEntry(m, n)
        PROVE  LoopInv'
    <3>1. /\ pc = "enter" /\ pc' = "placed" /\ pending' = Len(orders')
          /\ orders' = Append(orders, NewOrder(m, n))
          /\ row' = Append(row, "absent") /\ UNCHANGED <<paper, maker, settling>>
      BY <2>2 DEF PlaceEntry, Submit, Attempts
    <3>2. row \in Seq(RowStatus) /\ Len(row) = Len(orders) /\ Len(orders) \in Nat
          /\ orders \in Seq(OrderType) /\ "absent" \in RowStatus
          /\ NewOrder(m, n) \in OrderType
      BY NewOrderIs DEF TypeInv, RowStatus
    <3>3. Len(orders') = Len(orders) + 1 /\ row'[Len(orders) + 1] = "absent"
      BY <3>1, <3>2
    <3> QED BY <3>1, <3>2, <3>3 DEF LoopInv, Ids
  <2>3. ASSUME NEW m \in Markets, NEW n \in 1 .. FixedSize, PlaceEntryLost(m, n)
        PROVE  LoopInv'
    BY <2>3 DEF PlaceEntryLost, Submit, Attempts, LoopInv
  <2> QED BY <1>2, <2>1, <2>2, <2>3 DEF EntryAction
<1>3. CASE RowAction
  BY <1>3 DEF RowAction, ReconcileOpenOrders, CancelExpired, Expired, LoopInv, world
<1>4. CASE TapeAction
  <2>1. UNCHANGED <<paper, maker, orders, row, pc, pending, settling>>
    BY <1>4 DEF TapeAction, Match, Printed, tables
  <2> QED BY <2>1 DEF LoopInv, Ids, EagerFills
<1>5. CASE MemoryAction
  <2>1. UNCHANGED <<paper, maker, orders, row>>
    BY <1>5, MemoryFrame, ModeKept, NextIs DEF MemoryAction, NewDay, HaltChanges, Scans, StartScan,
         Proceed, BotReads, ScriptReads, PersistFails, EagerFillFails, Crash,
         ReconcileFails, Advance, EntryBlocked, CancelExpiredLost, SkipRow, world
  <2>2. CASE NewDay \/ HaltChanges \/ Scans \/ (\E m \in Markets : Advance(m) \/ EntryBlocked(m))
             \/ \E o \in Ids : CancelExpiredLost(o)
    BY <2>1, <2>2 DEF NewDay, HaltChanges, Scans, StartScan, Advance, EntryBlocked,
         CancelExpiredLost, LoopInv, Ids, EagerFills
  <2>3. CASE Proceed
    <3>1. pc' \in Parts \ {"placed", "filling", "settle"} /\ UNCHANGED settling
      BY <2>3 DEF Proceed, NextPart, Parts
    <3>2. pc' \in {"clob", "close"} => ~paper
      BY <2>3 DEF Proceed, NextPart, LoopInv
    <3>3. pc' \in {"book", "prints", "profit"} => paper
      BY <2>3 DEF Proceed, NextPart, LoopInv
    <3>4. settling["bot"] = {}
      BY <2>3 DEF Proceed, LoopInv
    <3> QED BY <2>1, <3>1, <3>2, <3>3, <3>4 DEF LoopInv, Parts
  <2>4. CASE BotReads
    BY <2>1, <2>4 DEF BotReads, LoopInv
  <2>5. CASE ScriptReads
    <3>1. UNCHANGED <<pc, pending>> /\ settling'["bot"] = settling["bot"]
      BY <2>5 DEF ScriptReads, ReadOpenRows, TypeInv, Actors
    <3> QED BY <2>1, <3>1 DEF LoopInv, Ids, EagerFills
  <2>6. CASE PersistFails \/ EagerFillFails
    BY <2>1, <2>6 DEF PersistFails, EagerFillFails, EntryEnds, LoopInv
  <2>7. CASE Crash
    BY <2>1, <2>7 DEF Crash, LoopInv, TypeInv, Actors
  <2>8. CASE ReconcileFails
    BY <2>1, <2>8 DEF ReconcileFails, LoopInv
  <2>9. ASSUME NEW a \in Actors, NEW r \in settling[a], SkipRow(a, r)
        PROVE  LoopInv'
    <3>1. UNCHANGED <<pc, pending>> /\ settling'["bot"] \subseteq settling["bot"]
      BY <2>9 DEF SkipRow, TypeInv, Actors
    <3> QED BY <2>1, <3>1 DEF LoopInv, Ids, EagerFills
  <2> QED BY <1>5, <2>2, <2>3, <2>4, <2>5, <2>6, <2>7, <2>8, <2>9 DEF MemoryAction
<1>6. CASE UNCHANGED vars
  BY <1>6 DEF LoopInv, vars, Ids, EagerFills
<1> QED BY <1>1, <1>2, <1>3, <1>4, <1>5, <1>6, NextIs

LEMMA RowsClose ==
  ASSUME TypeInv, RowAction
  PROVE  \A o \in Ids : row'[o] \in {row[o], "EXCHANGE_CLOSED", "CANCELLED"}
<1>1. row \in Seq(RowStatus) /\ Len(row) = Len(orders)
  BY DEF TypeInv
<1>2. CASE ReconcileOpenOrders
  BY <1>2 DEF ReconcileOpenOrders, Ids
<1>3. ASSUME NEW q \in Ids, CancelExpired(q)
      PROVE  \A o \in Ids : row'[o] \in {row[o], "CANCELLED"}
  BY <1>1, <1>3 DEF CancelExpired, Ids
<1> QED BY <1>2, <1>3 DEF RowAction

\* What a fill leaves of the rows: the same markets, buys that are orders, and no
\* second open row of a market.
RowsAfter(t) ==
  /\ Len(positions) =< Len(positions')
  /\ \A q \in 1 .. Len(positions) : positions'[q].market = positions[q].market
  /\ \A q \in 1 .. Len(positions') : positions'[q].buys \subseteq Ids
  /\ \A q, r \in AllOpen' : positions'[q].market = positions'[r].market => q = r
  /\ \A q \in AllOpen' : \A o \in positions'[q].buys :
       \/ o = t.order /\ t.side = "BUY"
       \/ q \in AllOpen /\ o \in positions[q].buys

LEMMA FillPositions ==
  ASSUME TypeInv, BooksInv, NEW t, Fills(t)
  PROVE  RowsAfter(t)
<1>0. /\ positions \in Seq(PositionType) /\ Len(positions) \in Nat
      /\ TradeFits(t) /\ OnFill(t)
      /\ \A p \in 1 .. Len(positions) : positions[p].buys \subseteq Ids
      /\ \A p, q \in 1 .. Len(positions) :
           positions[p].status = "OPEN" /\ positions[q].status = "OPEN"
             /\ positions[p].market = positions[q].market => p = q
  BY DEF TypeInv, BooksInv, AllOpen, Fills
<1>1. CASE UNCHANGED positions
  BY <1>0, <1>1 DEF AllOpen, RowsAfter
<1>2. ASSUME positions' = Applied(t), NEW p \in OpenAt(t.market),
             Applied(t) = [positions EXCEPT ![p] =
                             IF t.side = "BUY" THEN ToppedUp(@, t) ELSE SoldDown(@, t)]
      PROVE  RowsAfter(t)
  <2>1. p \in 1 .. Len(positions) /\ positions[p].status = "OPEN"
    BY DEF OpenAt
  <2> DEFINE new == IF t.side = "BUY" THEN ToppedUp(positions[p], t)
                    ELSE SoldDown(positions[p], t)
  <2>2. /\ new \in PositionType /\ new.market = positions[p].market
        /\ new.buys \subseteq positions[p].buys \cup (IF t.side = "BUY" THEN {t.order} ELSE {})
    BY <1>0, <2>1, RowAfter
  <2>3. t.side = "BUY" => t.order \in Ids
    BY <1>0 DEF TradeFits
  <2>4. positions' = [positions EXCEPT ![p] = new]
    BY <1>2, <1>0, <2>1
  <2> HIDE DEF new
  <2>5. /\ Len(positions') = Len(positions)
        /\ \A q \in 1 .. Len(positions) : positions'[q] = IF q = p THEN new ELSE positions[q]
    BY <1>0, <2>1, <2>2, <2>4
  <2>6. /\ \A q \in 1 .. Len(positions) : positions'[q].market = positions[q].market
        /\ \A q \in 1 .. Len(positions) :
             positions'[q].status = "OPEN" => positions[q].status = "OPEN"
        /\ \A q \in 1 .. Len(positions) : positions'[q].buys \subseteq Ids
        /\ \A q \in 1 .. Len(positions) : \A o \in positions'[q].buys :
             (o = t.order /\ t.side = "BUY") \/ o \in positions[q].buys
    BY <1>0, <2>1, <2>2, <2>3, <2>5
  <2> QED BY <1>0, <2>5, <2>6 DEF AllOpen, RowsAfter
<1>3. ASSUME positions' = Applied(t), OpenAt(t.market) = {}, t.side = "BUY",
             Applied(t) = Append(positions, [market |-> t.market, size |-> t.size,
                                   status |-> "OPEN", buys |-> {t.order}])
      PROVE  RowsAfter(t)
  <2> DEFINE new == [market |-> t.market, size |-> t.size, status |-> "OPEN",
                     buys |-> {t.order}]
  <2>1. /\ new \in PositionType /\ new.market = t.market
        /\ new.buys = {t.order} /\ t.order \in Ids
    BY <1>0, <1>3 DEF TradeFits, PositionType, Ids
  <2>2. positions' = Append(positions, new)
    BY <1>3
  <2> HIDE DEF new
  <2>3. /\ Len(positions') = Len(positions) + 1
        /\ \A q \in 1 .. Len(positions) : positions'[q] = positions[q]
        /\ positions'[Len(positions) + 1] = new
    BY <1>0, <2>1, <2>2
  <2>4. \A q \in 1 .. Len(positions) :
          positions[q].status = "OPEN" => positions[q].market # t.market
    BY <1>3 DEF OpenAt
  <2>5. \A q \in AllOpen' : q \in AllOpen \/ q = Len(positions) + 1
    BY <1>0, <2>3 DEF AllOpen
  <2>6. \A q \in AllOpen : positions'[q] = positions[q] /\ positions[q].market # t.market
    BY <2>3, <2>4 DEF AllOpen
  <2>7. \A q, r \in AllOpen' : positions'[q].market = positions'[r].market => q = r
    BY <1>0, <2>1, <2>3, <2>5, <2>6 DEF AllOpen
  <2>8. \A q \in AllOpen' : \A o \in positions'[q].buys :
          (o = t.order /\ t.side = "BUY") \/ (q \in AllOpen /\ o \in positions[q].buys)
    BY <1>3, <2>1, <2>3, <2>5, <2>6
  <2>9. \A q \in 1 .. Len(positions') : positions'[q].buys \subseteq Ids
    BY <1>0, <2>1, <2>3
  <2> QED BY <1>0, <2>3, <2>7, <2>8, <2>9 DEF RowsAfter
<1>4. positions' = Applied(t) \/ UNCHANGED positions
  BY <1>0 DEF OnFill, tables
<1>5. CASE positions' = Applied(t)
  <2>1. CASE \E p \in OpenAt(t.market) :
              Applied(t) = [positions EXCEPT ![p] =
                              IF t.side = "BUY" THEN ToppedUp(@, t) ELSE SoldDown(@, t)]
    BY <1>2, <1>5, <2>1
  <2>2. CASE Applied(t) = positions
    BY <1>1, <1>5, <2>2
  <2> QED BY <1>0, <1>3, <1>5, <2>1, <2>2, FillRows
<1> QED BY <1>1, <1>4, <1>5

LEMMA BooksStep ==
  ASSUME TypeInv, LoopInv, BooksInv, [Next]_vars
  PROVE  BooksInv'
<1>0. /\ orders \in Seq(OrderType) /\ tape \in Seq(TapeType) /\ Len(tape) \in Nat
      /\ row \in Seq(RowStatus) /\ Len(row) = Len(orders) /\ Len(orders) \in Nat /\ day \in Nat
      /\ positions \in Seq(PositionType)
  BY DEF TypeInv
<1>1. CASE FillAction
  <2>1. PICK t : Fills(t)
    BY <1>1, FillActionFills
  <2>2. /\ UNCHANGED <<paper, maker, day, orders, tape>>
        /\ OnFill(t) /\ TradeFits(t)
        /\ t.side = "BUY" /\ paper => row[t.order] \in {"PAPER_OPEN", "PARTIAL"}
    BY <2>1 DEF Fills, world
  <2>3. trades' = trades \cup {t} \/ trades' = trades
    BY <2>2 DEF OnFill, tables
  <2>4. IsFiniteSet(trades') /\ \A u \in trades' : TradeFits(u)
    BY <2>2, <2>3, FS_AddElement DEF BooksInv
  <2>5. \A u \in trades' : TradeFits(u)'
    BY <2>2, <2>4 DEF TradeFits, Ids
  <2>6. \A o \in Ids : row'[o] \in {row[o], "PARTIAL", "FILLED"}
    BY <2>2, FillTypes
  <2>7. Ids' = Ids
    BY <2>2 DEF Ids
  <2> QED BY <2>1, <2>2, <2>4, <2>5, <2>6, <2>7, FillPositions DEF BooksInv, RowsAfter
<1>2. CASE EntryAction
  <2>1. UNCHANGED <<paper, maker, day, tape, positions, trades>>
    BY <1>2 DEF EntryAction, PersistEntry, PlaceEntry, PlaceEntryLost, Submit, world
  <2>2. \A o \in Ids : o \in Ids' /\ orders'[o] = orders[o]
    BY <1>0, <1>2, EntryFrame DEF Ids
  <2>3. \A u \in trades' : TradeFits(u)'
    BY <2>1, <2>2 DEF BooksInv, TradeFits
  <2>4. CASE PersistEntry
    <3>1. UNCHANGED orders /\ pending \in Ids
      BY <2>4 DEF PersistEntry, world, LoopInv
    <3>2. paper => row' = [row EXCEPT ![pending] = "PAPER_OPEN"]
      BY <2>4 DEF PersistEntry
    <3>3. paper => \A o \in Ids : row'[o] \in {row[o], "PAPER_OPEN"}
      BY <1>0, <3>1, <3>2 DEF Ids
    <3>4. Ids' = Ids /\ AllOpen' = AllOpen
      BY <2>1, <3>1 DEF Ids, AllOpen
    <3>5. paper' => \A o \in Ids' : row'[o] \notin {"live", "matched"}
      BY <2>1, <3>3, <3>4 DEF BooksInv
    <3>6. /\ \A p \in 1 .. Len(positions') : positions'[p].buys \subseteq Ids'
          /\ \A o \in Ids' : orders'[o].day =< day' /\ orders'[o].from =< Len(tape')
          /\ \A i \in 1 .. Len(tape') :
               IF paper' THEN tape'[i].of = 0 ELSE tape'[i].of \in Ids'
          /\ \A p, q \in AllOpen' : positions'[p].market = positions'[q].market => p = q
      BY <2>1, <3>1, <3>4 DEF BooksInv
    <3> QED BY <2>1, <2>3, <3>5, <3>6 DEF BooksInv
  <2>5. ASSUME NEW m \in Markets, NEW n \in 1 .. FixedSize, Submit(m, n)
        PROVE  BooksInv'
    <3> DEFINE new == NewOrder(m, n)
    <3>1. new \in OrderType /\ new.day = day /\ new.from = Len(tape)
      BY NewOrderIs
    <3>2. orders' = Append(orders, new) /\ row' = Append(row, "absent")
      BY <2>5 DEF Submit
    <3> HIDE DEF new
    <3>3. "absent" \in RowStatus
      BY DEF RowStatus
    <3>4. /\ Len(orders') = Len(orders) + 1 /\ orders'[Len(orders) + 1] = new
          /\ row'[Len(orders) + 1] = "absent" /\ \A o \in Ids : row'[o] = row[o]
      BY <1>0, <3>1, <3>2, <3>3 DEF Ids
    <3>5. \A o \in Ids' : o \in Ids \/ o = Len(orders) + 1
      BY <1>0, <3>4 DEF Ids
    <3>6. \A o \in Ids' : orders'[o].day =< day /\ orders'[o].from =< Len(tape)
      BY <1>0, <2>2, <3>1, <3>4, <3>5 DEF BooksInv
    <3>7. paper => \A o \in Ids' : row'[o] \notin {"live", "matched"}
      BY <3>4, <3>5 DEF BooksInv
    <3>8. \A p \in 1 .. Len(positions) : positions[p].buys \subseteq Ids'
      BY <2>2 DEF BooksInv
    <3>9. \A i \in 1 .. Len(tape) : IF paper THEN tape[i].of = 0 ELSE tape[i].of \in Ids'
      BY <2>2 DEF BooksInv
    <3> QED BY <2>1, <2>3, <3>6, <3>7, <3>8, <3>9 DEF BooksInv, AllOpen
  <2> QED BY <1>2, <2>4, <2>5 DEF EntryAction, PlaceEntry, PlaceEntryLost
<1>3. CASE RowAction
  <2>1. UNCHANGED <<paper, maker, day, orders, tape, positions, trades>>
    BY <1>3 DEF RowAction, ReconcileOpenOrders, CancelExpired, world
  <2>2. \A o \in Ids : row'[o] \in {row[o], "EXCHANGE_CLOSED", "CANCELLED"}
    BY <1>3, RowsClose
  <2> QED BY <2>1, <2>2 DEF BooksInv, TradeFits, Ids, AllOpen
<1>4. CASE TapeAction
  <2>1. UNCHANGED <<paper, maker, day, orders, row, positions, trades>>
    BY <1>4 DEF TapeAction, Match, Printed, tables
  <2>2. PICK new \in TapeType : /\ tape' = Append(tape, new)
                                /\ IF paper THEN new.of = 0 ELSE new.of \in Ids
    <3>1. ASSUME NEW n \in 1 .. FixedSize, NEW o \in Ids, Match(o, n)
          PROVE  /\ [of |-> o, market |-> orders[o].market, size |-> n] \in TapeType
                 /\ tape' = Append(tape, [of |-> o, market |-> orders[o].market, size |-> n])
                 /\ ~paper
      BY <3>1, OrderFields, LongshotAssumption DEF Match, TapeType, Ids, LongshotAssumption
    <3>2. ASSUME NEW n \in 1 .. FixedSize, NEW m \in Markets, Printed(m, n)
          PROVE  /\ [of |-> 0, market |-> m, size |-> n] \in TapeType
                 /\ tape' = Append(tape, [of |-> 0, market |-> m, size |-> n])
                 /\ paper
      BY <3>2, LongshotAssumption DEF Printed, TapeType, LongshotAssumption
    <3> QED BY <1>4, <3>1, <3>2 DEF TapeAction
  <2>3. /\ Len(tape') = Len(tape) + 1 /\ tape'[Len(tape) + 1] = new
        /\ \A i \in 1 .. Len(tape) : tape'[i] = tape[i]
    BY <1>0, <2>2
  <2>4. \A o \in Ids : orders[o].from =< Len(tape')
    BY <1>0, <2>3, OrderFields DEF BooksInv
  <2>5. \A i \in 1 .. Len(tape') : IF paper THEN tape'[i].of = 0 ELSE tape'[i].of \in Ids
    BY <1>0, <2>2, <2>3 DEF BooksInv
  <2>6. Ids' = Ids /\ AllOpen' = AllOpen /\ \A t \in trades' : TradeFits(t)'
    BY <2>1 DEF Ids, AllOpen, TradeFits, BooksInv
  <2> QED BY <2>1, <2>4, <2>5, <2>6 DEF BooksInv
<1>5. CASE MemoryAction
  <2>1. UNCHANGED <<paper, maker, orders, tape, row, trades, positions>>
    BY <1>5, MemoryFrame, ModeKept, NextIs DEF MemoryAction, NewDay, HaltChanges, Scans, StartScan,
         Proceed, BotReads, ScriptReads, PersistFails, EagerFillFails, Crash,
         ReconcileFails, Advance, EntryBlocked, CancelExpiredLost, SkipRow, world
  <2>2. day' \in Nat /\ day =< day'
    BY <1>0, <1>5, MemoryFrame DEF NewDay
  <2>3. Ids' = Ids /\ AllOpen' = AllOpen /\ \A t \in trades' : TradeFits(t)'
    BY <2>1 DEF Ids, AllOpen, TradeFits, BooksInv
  <2>4. \A o \in Ids : orders[o].day =< day'
    BY <1>0, <2>2, OrderFields DEF BooksInv
  <2> QED BY <2>1, <2>3, <2>4 DEF BooksInv
<1>6. CASE UNCHANGED vars
  BY <1>6 DEF BooksInv, vars, Ids, AllOpen, TradeFits
<1> QED BY <1>1, <1>2, <1>3, <1>4, <1>5, <1>6, NextIs

-----------------------------------------------------------------------------
(* The daily caps.                                                         *)

LEMMA Times == \A a, b \in Nat : (a + 1) * b = a * b + b /\ a * b \in Nat /\ 0 * b = 0
OBVIOUS

\* Only PersistEntry makes an order known.
LEMMA PlacedKept ==
  ASSUME TypeInv, LoopInv, BooksInv, [Next]_vars, ~PersistEntry
  PROVE  \A d : /\ PlacedOn(d)' = PlacedOn(d) /\ GrossOn(d)' = GrossOn(d)
                /\ \A o \in PlacedOn(d) : orders'[o] = orders[o]
<1>0. /\ orders \in Seq(OrderType) /\ row \in Seq(RowStatus)
      /\ Len(row) = Len(orders) /\ Len(orders) \in Nat
  BY DEF TypeInv
<1>1. /\ \A o \in Ids : o \in Ids' /\ orders'[o] = orders[o]
      /\ \A o \in Ids : row'[o] = "absent" <=> row[o] = "absent"
      /\ \A o \in Ids' : o \in Ids \/ row'[o] = "absent"
  <2>1. CASE FillAction
    <3>1. PICK t : Fills(t)
      BY <2>1, FillActionFills
    <3>2. /\ orders' = orders
          /\ \A o \in Ids : o # t.order => row'[o] = row[o]
          /\ \A o \in Ids : row'[o] \in {row[o], "PARTIAL", "FILLED"}
          /\ t.order \in Ids => row[t.order] # "absent"
      BY <3>1, FillTypes DEF Fills, TradeFits, Ids
    <3> QED BY <3>2 DEF Ids
  <2>2. CASE EntryAction
    <3>1. PICK m \in Markets, n \in 1 .. FixedSize : Submit(m, n)
      BY <2>2 DEF EntryAction, PlaceEntry, PlaceEntryLost
    <3>2. row' = Append(row, "absent") /\ "absent" \in RowStatus
      BY <3>1 DEF Submit, RowStatus
    <3>3. /\ \A o \in Ids : row'[o] = row[o]
          /\ row'[Len(orders) + 1] = "absent" /\ Len(row') = Len(orders) + 1
      BY <1>0, <3>2 DEF Ids
    <3>4. \A o \in Ids' : o \in Ids \/ o = Len(orders) + 1
      BY <1>0, <2>2, <3>3, EntryFrame DEF Ids
    <3>5. \A o \in Ids : o \in Ids' /\ orders'[o] = orders[o]
      BY <1>0, <2>2, EntryFrame DEF Ids
    <3> QED BY <3>3, <3>4, <3>5
  <2>3. CASE RowAction
    <3>1. orders' = orders
      BY <2>3 DEF RowAction, ReconcileOpenOrders, CancelExpired
    <3>2. CASE ReconcileOpenOrders
      BY <3>1, <3>2 DEF ReconcileOpenOrders, LiveOpen, Ids
    <3>3. ASSUME NEW q \in Ids, CancelExpired(q)
          PROVE  \A o \in Ids : row'[o] = "absent" <=> row[o] = "absent"
      BY <1>0, <3>3 DEF CancelExpired, Expired, Ids
    <3> QED BY <2>3, <3>1, <3>2, <3>3 DEF RowAction, Ids
  <2>4. CASE TapeAction
    BY <2>4 DEF TapeAction, Match, Printed, tables, Ids
  <2>5. CASE MemoryAction
    BY <2>5, MemoryFrame DEF Ids
  <2>6. CASE UNCHANGED vars
    BY <2>6 DEF vars, Ids
  <2> QED BY <2>1, <2>2, <2>3, <2>4, <2>5, <2>6, NextIs
<1> TAKE d
<1>2. PlacedOn(d)' = PlacedOn(d)
  BY <1>1 DEF PlacedOn, Recorded
<1>3. TypeInv'
  BY TypeStep
<1>4. \A o \in PlacedOn(d) : Sizes(orders')[o] = Sizes(orders)[o]
  <2>1. \A o \in Ids : Sizes(orders)[o] = orders[o].size
    BY <1>0 DEF Sizes, Ids
  <2>2. \A o \in Ids' : Sizes(orders')[o] = orders'[o].size
    BY <1>3 DEF Sizes, Ids, TypeInv
  <2> QED BY <1>1, <2>1, <2>2 DEF PlacedOn, Recorded
<1>5. IsFiniteSet(PlacedOn(d))
  BY TodayFinite DEF PlacedOn, Recorded
<1>6. SumFunctionOnSet(Sizes(orders), PlacedOn(d)) = SumFunctionOnSet(Sizes(orders'), PlacedOn(d))
  BY <1>4, <1>5, SumEqual
<1>7. \A o \in PlacedOn(d) : orders'[o] = orders[o]
  BY <1>1 DEF PlacedOn, Recorded
<1> QED BY <1>2, <1>6, <1>7 DEF GrossOn

\* PersistEntry makes the order of the entry in progress known.
LEMMA PlacedAdded ==
  ASSUME TypeInv, LoopInv, PersistEntry
  PROVE  \A d : /\ Cardinality(PlacedOn(d)') \in Nat /\ GrossOn(d)' \in Nat
                /\ Cardinality(PlacedOn(d)) \in Nat /\ GrossOn(d) \in Nat
                /\ d # orders[pending].day =>
                     /\ PlacedOn(d)' = PlacedOn(d)
                     /\ Cardinality(PlacedOn(d)') = Cardinality(PlacedOn(d))
                     /\ GrossOn(d)' = GrossOn(d)
                /\ d = orders[pending].day =>
                     /\ pending \in PlacedOn(d)'
                     /\ Cardinality(PlacedOn(d)') = Cardinality(PlacedOn(d)) + 1
                     /\ GrossOn(d)' =< GrossOn(d) + FixedSize
<1>0. /\ orders \in Seq(OrderType) /\ row \in Seq(RowStatus)
      /\ Len(row) = Len(orders) /\ Len(orders) \in Nat
  BY DEF TypeInv
<1>1. pending \in Ids /\ row[pending] = "absent" /\ orders' = orders
  BY DEF LoopInv, PersistEntry, world
<1>2. PICK s : s # "absent" /\ row' = [row EXCEPT ![pending] = s]
  BY DEF PersistEntry
<1>3. \A o \in Ids : row'[o] = IF o = pending THEN s ELSE row[o]
  BY <1>0, <1>1, <1>2 DEF Ids
<1> TAKE d
<1>4. PlacedOn(d)' = PlacedOn(d) \cup (IF d = orders[pending].day THEN {pending} ELSE {})
  BY <1>1, <1>2, <1>3 DEF PlacedOn, Recorded, Ids
<1>5. pending \notin PlacedOn(d) /\ PlacedOn(d) \in SUBSET Ids
  BY <1>1 DEF PlacedOn, Recorded
<1>6. /\ IsFiniteSet(PlacedOn(d)) /\ Cardinality(PlacedOn(d)) \in Nat
      /\ GrossOn(d) \in Nat
      /\ \A o \in Ids : Sizes(orders)[o] = orders[o].size /\ Sizes(orders)[o] \in Nat
  BY <1>5, TodayFinite DEF GrossOn
<1>7. CASE d # orders[pending].day
  BY <1>1, <1>4, <1>6, <1>7 DEF GrossOn
<1>8. CASE d = orders[pending].day
  <2>1. Cardinality(PlacedOn(d)') = Cardinality(PlacedOn(d)) + 1
    BY <1>4, <1>5, <1>6, <1>8, FS_AddElement
  <2>2. \A o \in PlacedOn(d) \cup {pending} : Sizes(orders)[o] \in Int
    BY <1>1, <1>5, <1>6
  <2>3. SumFunctionOnSet(Sizes(orders), PlacedOn(d) \cup {pending})
          = SumFunctionOnSet(Sizes(orders), PlacedOn(d)) + Sizes(orders)[pending]
    <3> DEFINE f == Sizes(orders)
               S == PlacedOn(d)
    <3>1. IsFiniteSet(S) /\ pending \notin S /\ \A o \in S \cup {pending} : f[o] \in Int
      BY <1>5, <1>6, <2>2
    <3> HIDE DEF f, S
    <3>2. SumFunctionOnSet(f, S \cup {pending}) = SumFunctionOnSet(f, S) + f[pending]
      BY <3>1, SumAdd
    <3> QED BY <3>2 DEF f, S
  <2>4. GrossOn(d)' = GrossOn(d) + orders[pending].size
    BY <1>1, <1>4, <1>6, <1>8, <2>3 DEF GrossOn
  <2>5. FixedSize \in Nat /\ orders[pending].size \in Nat /\ orders[pending].size =< FixedSize
    BY <1>1, OrderFields, LongshotAssumption DEF LongshotAssumption
  <2>6. pending \in PlacedOn(d)'
    BY <1>4, <1>8
  <2> QED BY <1>6, <1>8, <2>1, <2>4, <2>5, <2>6
<1> QED BY <1>7, <1>8

\* What a step does to the part of the scan and its counts.
LEMMA ScanSteps ==
  ASSUME TypeInv, LoopInv, [Next]_vars
  PROVE  \/ /\ pc' = pc /\ scan'.daily = scan.daily /\ scan'.gross = scan.gross
            /\ scan'.placed = scan.placed /\ scan'.open = scan.open
            /\ scan'.missed = scan.missed
            /\ pc = "placed" => pending' = pending
            /\ pc \in {"placed", "filling"} => scan' = scan
         \/ pc' \notin {"enter", "placed", "filling"}
         \/ Scans
         \/ PersistEntry
         \/ /\ PersistFails \/ EagerFillFails \/ EagerFill
            /\ pc' = "enter" /\ scan'.daily = scan.daily /\ scan'.gross = scan.gross
            /\ scan'.placed = scan.placed + 1 /\ scan'.missed = scan.missed
         \/ \E m \in Markets, n \in 1 .. FixedSize : PlaceEntry(m, n)
<1>0. scan \in ScanType
  BY DEF TypeInv
<1>1. \A m : /\ Done(m).daily = scan.daily /\ Done(m).gross = scan.gross
             /\ Done(m).placed = scan.placed /\ Done(m).open = scan.open
             /\ Done(m).missed = scan.missed
  BY <1>0 DEF Done, ScanType
<1>2. \A m : /\ [Done(m) EXCEPT !.placed = @ + 1].daily = scan.daily
             /\ [Done(m) EXCEPT !.placed = @ + 1].gross = scan.gross
             /\ [Done(m) EXCEPT !.placed = @ + 1].placed = scan.placed + 1
             /\ [Done(m) EXCEPT !.placed = @ + 1].missed = scan.missed
  BY <1>0, <1>1, ScanTypes DEF ScanType
<1>3. CASE PersistFails \/ EagerFillFails \/ EagerFill
  BY <1>2, <1>3 DEF PersistFails, EagerFillFails, EagerFill, EntryEnds
<1>4. CASE FillAction /\ ~EagerFill
  BY <1>4 DEF FillAction, SimulateFill, MakerFill, BookLiveFill, TakeProfit, Settle, memory
<1>5. CASE EntryAction /\ ~PersistEntry
  BY <1>1, <1>5 DEF EntryAction, PlaceEntryLost, Submit, Attempts
<1>6. CASE RowAction \/ TapeAction
  BY <1>6 DEF RowAction, ReconcileOpenOrders, CancelExpired, TapeAction, Match, Printed, memory
<1>7. CASE Proceed \/ BotReads \/ Crash \/ ReconcileFails
  BY <1>7 DEF Proceed, NextPart, BotReads, Crash, ReconcileFails
<1>8. CASE \E m \in Markets : EntryBlocked(m)
  BY <1>1, <1>8 DEF EntryBlocked, Attempts
<1>9. CASE MemoryAction /\ ~(PersistFails \/ EagerFillFails \/ Proceed \/ BotReads \/ Crash
                             \/ ReconcileFails \/ Scans \/ \E m \in Markets : EntryBlocked(m))
  BY <1>9 DEF MemoryAction, NewDay, HaltChanges, ScriptReads, Advance, CancelExpiredLost,
              SkipRow, memory
<1>10. CASE UNCHANGED vars
  BY <1>10 DEF vars
<1> QED BY <1>3, <1>4, <1>5, <1>6, <1>7, <1>8, <1>9, <1>10, NextIs DEF EntryAction

LEMMA PlacedNat ==
  ASSUME TypeInv
  PROVE  \A d : Cardinality(PlacedOn(d)) \in Nat /\ GrossOn(d) \in Nat
BY TodayFinite DEF PlacedOn, Recorded, GrossOn

\* What a scan has read and what it has missed are the day's orders together.
LEMMA ScanCounts ==
  ASSUME TypeInv, NEW failed \in SUBSET Queries, StartScan(failed)
  PROVE  /\ scan'.missed.daily + scan'.daily = Cardinality(PlacedOn(day))
         /\ paper \/ scan'.missed.gross + scan'.gross = GrossOn(day)
         /\ scan'.placed = 0
<1>1. /\ scan'.daily = Got("daily", failed) /\ scan'.missed.daily = Lost("daily", failed)
      /\ scan'.gross = Got("gross", failed) /\ scan'.missed.gross = Lost("gross", failed)
      /\ scan'.placed = 0
  BY DEF StartScan
<1>2. /\ "daily" \in Queries /\ Count("daily") = Cardinality(PlacedOn(day))
      /\ "gross" \in Queries
      /\ paper \/ Count("gross") = GrossOn(day)
  BY DEF Count, Queries
<1>3. ASSUME NEW q \in Queries
      PROVE  Lost(q, failed) + Got(q, failed) = Count(q)
  BY CountTypes DEF Got, Lost
<1>4. Lost("daily", failed) + Got("daily", failed) = Cardinality(PlacedOn(day))
  BY <1>2, <1>3
<1>5. Lost("gross", failed) + Got("gross", failed) = Count("gross")
  BY <1>3 DEF Queries
<1> QED BY <1>1, <1>2, <1>4, <1>5

\* The order made known is the witness of its day.
LEMMA CountsPersist ==
  ASSUME TypeInv, TypeInv', LoopInv, BooksInv, CountsInv, PersistEntry
  PROVE  CountsInv'
<1>0. /\ scan \in ScanType /\ FixedSize \in Nat /\ MaxGross \in Nat /\ paper \in BOOLEAN
      /\ MaxDaily[paper] \in Nat /\ day \in Nat
  BY LongshotAssumption DEF TypeInv, LongshotAssumption
<1>1. /\ scan.daily \in Nat /\ scan.gross \in Nat /\ scan.placed \in Nat /\ scan.open \in Nat
      /\ scan.missed.daily \in Nat /\ scan.missed.gross \in Nat
      /\ scan.placed * FixedSize \in Nat
      /\ (scan.placed + 1) * FixedSize = scan.placed * FixedSize + FixedSize
  BY <1>0, Times DEF ScanType, MissedType
<1>2. \A d : Cardinality(PlacedOn(d)) \in Nat /\ GrossOn(d) \in Nat
  BY PlacedNat
<1>3. /\ pc = "placed" /\ UNCHANGED <<day, paper, orders>>
      /\ \/ pc' = "filling" /\ paper /\ scan' = scan
         \/ /\ pc' = "enter" /\ scan'.daily = scan.daily /\ scan'.gross = scan.gross
            /\ scan'.placed = scan.placed + 1 /\ scan'.missed = scan.missed
  <2>1. \A m : /\ [Done(m) EXCEPT !.placed = @ + 1].daily = scan.daily
               /\ [Done(m) EXCEPT !.placed = @ + 1].gross = scan.gross
               /\ [Done(m) EXCEPT !.placed = @ + 1].placed = scan.placed + 1
               /\ [Done(m) EXCEPT !.placed = @ + 1].missed = scan.missed
    BY <1>0 DEF Done, ScanType
  <2> QED BY <2>1 DEF PersistEntry, EntryEnds, EagerFills, memory, world
<1> PICK dd, today : dd = orders[pending].day /\ today = day
  OBVIOUS
<1>4. /\ Counted' = {today} /\ dd \in Counted /\ today \in Counted
      /\ orders[pending].missed = scan.missed /\ pending \in Ids
  BY <1>3 DEF Counted, CountsInv, LoopInv
<1>5. /\ Cardinality(PlacedOn(dd)) =< scan.missed.daily + scan.daily + scan.placed
      /\ paper \/ GrossOn(dd) =< scan.missed.gross + scan.gross + scan.placed * FixedSize
      /\ Cardinality(PlacedOn(today)) =< scan.missed.daily + scan.daily + scan.placed
      /\ paper \/ GrossOn(today) =< scan.missed.gross + scan.gross + scan.placed * FixedSize
      /\ scan.daily + scan.placed < MaxDaily[paper]
      /\ paper \/ scan.gross + (scan.placed + 1) * FixedSize =< MaxGross
  BY <1>1, <1>2, <1>3, <1>4 DEF CountsInv, ScanCovers, CapsAllow
<1>6. \A d : /\ Cardinality(PlacedOn(d)') \in Nat /\ GrossOn(d)' \in Nat
             /\ d # dd => /\ PlacedOn(d)' = PlacedOn(d)
                          /\ Cardinality(PlacedOn(d)') = Cardinality(PlacedOn(d))
                          /\ GrossOn(d)' = GrossOn(d)
             /\ d = dd => /\ pending \in PlacedOn(d)'
                          /\ Cardinality(PlacedOn(d)') = Cardinality(PlacedOn(d)) + 1
                          /\ GrossOn(d)' =< GrossOn(d) + FixedSize
  BY PlacedAdded
<1>7. DayFits(dd)'
  <2>1. pending \in PlacedOn(dd)'
    BY <1>6
  <2>2. /\ Cardinality(PlacedOn(dd)') =< MaxDaily[paper] + scan.missed.daily
        /\ paper \/ GrossOn(dd)' =< MaxGross + scan.missed.gross
    BY <1>0, <1>1, <1>2, <1>5, <1>6
  <2> QED BY <1>3, <1>4, <2>1, <2>2 DEF DayFits
<1>8. \A d \in 1 .. MaxDay : d # dd => DayFits(d)'
  BY <1>3, <1>6 DEF DayFits, CountsInv
<1>9. ScanCovers(today)'
  <2>1. /\ Cardinality(PlacedOn(today)') =< scan.missed.daily + scan.daily + scan.placed + 1
        /\ paper \/ GrossOn(today)' =< scan.missed.gross + scan.gross + (scan.placed + 1) * FixedSize
    BY <1>0, <1>1, <1>2, <1>5, <1>6
  <2>2. CASE pc' = "filling" /\ paper /\ scan' = scan
    BY <1>3, <2>1, <2>2 DEF ScanCovers
  <2>3. CASE /\ pc' = "enter" /\ scan'.daily = scan.daily /\ scan'.gross = scan.gross
             /\ scan'.placed = scan.placed + 1 /\ scan'.missed = scan.missed
    BY <1>1, <1>3, <1>6, <2>1, <2>3 DEF ScanCovers
  <2> QED BY <1>3, <2>2, <2>3
<1>10. pc' = "filling" => CapsAllow'
  BY <1>3 DEF CountsInv, CapsAllow
<1> QED BY <1>3, <1>4, <1>7, <1>8, <1>9, <1>10 DEF CountsInv

LEMMA CountsStep ==
  ASSUME TypeInv, TypeInv', LoopInv, BooksInv, CountsInv, [Next]_vars
  PROVE  CountsInv'
<1>0. /\ scan \in ScanType /\ FixedSize \in Nat /\ MaxGross \in Nat /\ paper \in BOOLEAN
      /\ MaxDaily[paper] \in Nat /\ day \in Nat
  BY LongshotAssumption DEF TypeInv, LongshotAssumption
<1>1. /\ scan.daily \in Nat /\ scan.gross \in Nat /\ scan.placed \in Nat /\ scan.open \in Nat
      /\ scan.missed.daily \in Nat /\ scan.missed.gross \in Nat
      /\ scan.placed * FixedSize \in Nat
      /\ (scan.placed + 1) * FixedSize = scan.placed * FixedSize + FixedSize
  BY <1>0, Times DEF ScanType, MissedType
<1>2. paper' = paper
  BY ModeKept DEF vars
<1>3. \A d : Cardinality(PlacedOn(d)) \in Nat /\ GrossOn(d) \in Nat
  BY PlacedNat
<1>4. CASE PersistEntry
  BY <1>4, CountsPersist
<1>5. CASE ~PersistEntry
  <2>1. \A d : /\ PlacedOn(d)' = PlacedOn(d) /\ GrossOn(d)' = GrossOn(d)
               /\ \A o \in PlacedOn(d) : orders'[o] = orders[o]
    BY <1>5, PlacedKept
  <2>2. \A d \in 1 .. MaxDay : DayFits(d)'
    BY <1>2, <2>1 DEF CountsInv, DayFits
  <2>3. CASE pc' \notin {"enter", "placed", "filling"}
    BY <2>2, <2>3 DEF CountsInv
  <2>4. CASE Scans
    <3>1. PICK failed \in SUBSET Queries : StartScan(failed)
      BY <2>4 DEF Scans
    <3>2. pc' = "enter" /\ day' = day
      BY <3>1 DEF StartScan, world
    <3> PICK today : today = day
      OBVIOUS
    <3>3. Counted' = {today}
      BY <3>2 DEF Counted
    <3>4. /\ scan'.missed.daily + scan'.daily = Cardinality(PlacedOn(today))
          /\ paper \/ scan'.missed.gross + scan'.gross = GrossOn(today)
          /\ scan'.placed = 0
      BY <3>1, ScanCounts
    <3>5. scan'.missed.daily + scan'.daily + scan'.placed + 0 = Cardinality(PlacedOn(today))
      BY <1>3, <3>4
    <3>6. paper \/ scan'.missed.gross + scan'.gross + scan'.placed * FixedSize = GrossOn(today)
      BY <1>0, <1>3, <3>4, Times
    <3>7. ScanCovers(today)'
      BY <1>2, <1>3, <2>1, <3>2, <3>5, <3>6 DEF ScanCovers
    <3> QED BY <2>2, <3>2, <3>3, <3>7 DEF CountsInv
  <2>5. CASE \E m \in Markets, n \in 1 .. FixedSize : PlaceEntry(m, n)
    <3>1. PICK m \in Markets, n \in 1 .. FixedSize : PlaceEntry(m, n)
      BY <2>5
    <3>2. /\ pc = "enter" /\ pc' = "placed" /\ scan' = scan /\ day' = day /\ CapsAllow
          /\ orders' = Append(orders, NewOrder(m, n))
          /\ pending' = Len(orders')
      BY <3>1 DEF PlaceEntry, Submit, Attempts
    <3>3. orders'[pending'].day = day /\ orders'[pending'].missed = scan.missed
      <4>1. /\ orders \in Seq(OrderType) /\ Len(orders) \in Nat
            /\ NewOrder(m, n) \in OrderType
        BY NewOrderIs DEF TypeInv
      <4>2. orders'[pending'] = NewOrder(m, n)
        BY <3>2, <4>1
      <4> QED BY <4>2, NewOrderIs
    <3> PICK today : today = day
      OBVIOUS
    <3>4. Counted' = {today} /\ today \in Counted
      BY <3>2, <3>3 DEF Counted
    <3>5. CapsAllow'
      BY <1>2, <3>2 DEF CapsAllow
    <3>6. ScanCovers(today)
      BY <3>2, <3>4 DEF CountsInv
    <3>7. ScanCovers(today)'
      BY <1>2, <2>1, <3>2, <3>6 DEF ScanCovers
    <3> QED BY <2>2, <3>2, <3>3, <3>4, <3>5, <3>7 DEF CountsInv
  <2>6. CASE /\ PersistFails \/ EagerFillFails \/ EagerFill
             /\ pc' = "enter" /\ scan'.daily = scan.daily /\ scan'.gross = scan.gross
             /\ scan'.placed = scan.placed + 1 /\ scan'.missed = scan.missed
    <3>1. pc \in {"placed", "filling"} /\ day' = day
      BY <2>6 DEF PersistFails, EagerFillFails, EagerFill, world
    <3> PICK today : today = day
      OBVIOUS
    <3>2. Counted' = {today} /\ today \in Counted
      BY <2>6, <3>1 DEF Counted
    <3>3. /\ Cardinality(PlacedOn(today))
               =< scan.missed.daily + scan.daily + scan.placed + (IF pc = "filling" THEN 1 ELSE 0)
          /\ paper \/ GrossOn(today)
               =< scan.missed.gross + scan.gross + scan.placed * FixedSize
      BY <3>1, <3>2 DEF CountsInv, ScanCovers
    <3>4. /\ Cardinality(PlacedOn(today)) =< scan.missed.daily + scan.daily + (scan.placed + 1) + 0
          /\ paper \/ GrossOn(today)
               =< scan.missed.gross + scan.gross + (scan.placed + 1) * FixedSize
      BY <1>0, <1>1, <1>3, <3>3
    <3>5. ScanCovers(today)'
      BY <1>2, <2>1, <2>6, <3>1, <3>4 DEF ScanCovers
    <3> QED BY <2>2, <2>6, <3>2, <3>5 DEF CountsInv
  <2>7. CASE /\ pc' = pc /\ scan'.daily = scan.daily /\ scan'.gross = scan.gross
             /\ scan'.placed = scan.placed /\ scan'.open = scan.open
             /\ scan'.missed = scan.missed
             /\ pc = "placed" => pending' = pending
             /\ pc \in {"placed", "filling"} => scan' = scan
    <3>0. pc = "placed" => orders'[pending] = orders[pending]
      <4>1. pc = "placed" => pending \in Ids
        BY DEF LoopInv
      <4>2. EntryAction => \A o \in Ids : orders'[o] = orders[o]
        BY EntryFrame
      <4>3. FillAction \/ RowAction \/ TapeAction \/ MemoryAction => UNCHANGED orders
        BY MemoryFrame DEF FillAction, EagerFill, SimulateFill, MakerFill, BookLiveFill,
               TakeProfit, Settle, RowAction, ReconcileOpenOrders, CancelExpired,
               TapeAction, Match, Printed
      <4> QED BY <4>1, <4>2, <4>3, NextIs DEF vars
    <3>1. CapsAllow => CapsAllow'
      BY <1>2, <2>7 DEF CapsAllow
    <3>2. ASSUME NEW d \in Counted', d \notin Counted
          PROVE  PlacedOn(d) = {}
      <4>1. CASE d = day'
        <5>1. day' # day
          BY <3>2, <4>1 DEF Counted
        <5>2. NewDay
          <6>1. FillAction \/ EntryAction \/ RowAction \/ TapeAction => UNCHANGED day
            BY DEF FillAction, EagerFill, SimulateFill, MakerFill, BookLiveFill, TakeProfit,
                   Settle, EntryAction, PersistEntry, PlaceEntry, PlaceEntryLost, Submit,
                   RowAction, ReconcileOpenOrders, CancelExpired, TapeAction, Match,
                   Printed, world
          <6> QED BY <5>1, <6>1, MemoryFrame, NextIs DEF vars
        <5>3. \A o \in Ids : orders[o].day # day'
          BY <1>0, <5>2, OrderFields DEF NewDay, BooksInv
        <5> QED BY <4>1, <5>3 DEF PlacedOn, Recorded
      <4>2. CASE d # day'
        BY <2>7, <3>0, <3>2, <4>2 DEF Counted
      <4> QED BY <4>1, <4>2
    <3>3. ASSUME NEW d \in Counted', pc \in {"enter", "placed", "filling"}
          PROVE  ScanCovers(d)'
      <4>1. CASE d \in Counted
        <5>1. ScanCovers(d)
          BY <3>3, <4>1 DEF CountsInv
        <5> QED BY <1>2, <2>1, <2>7, <5>1 DEF ScanCovers
      <4>2. CASE d \notin Counted
        <5>1. PlacedOn(d) = {}
          BY <3>2, <4>2
        <5>2. Cardinality(PlacedOn(d)) = 0 /\ GrossOn(d) = 0
          BY <5>1, FS_EmptySet, SumEmpty DEF GrossOn
        <5>3. /\ Cardinality(PlacedOn(d))
                   =< scan.missed.daily + scan.daily + scan.placed + (IF pc = "filling" THEN 1 ELSE 0)
              /\ GrossOn(d) =< scan.missed.gross + scan.gross + scan.placed * FixedSize
          BY <1>1, <5>2
        <5> QED BY <1>2, <2>1, <2>7, <5>3 DEF ScanCovers
      <4> QED BY <4>1, <4>2
    <3>4. pc = "placed" => orders'[pending'].missed = scan'.missed
      BY <2>7, <3>0 DEF CountsInv
    <3> QED BY <2>2, <2>7, <3>1, <3>3, <3>4 DEF CountsInv
  <2> QED BY <1>5, <2>3, <2>4, <2>5, <2>6, <2>7, ScanSteps
<1> QED BY <1>4, <1>5

-----------------------------------------------------------------------------
(* One order at a time.                                                    *)

\* Only PersistEntry puts the bot into a market.
LEMMA EngagedKept ==
  ASSUME TypeInv, LoopInv, BooksInv, paper, [Next]_vars, ~PersistEntry, NEW m
  PROVE  Engaged(m)' \subseteq Engaged(m)
<1>0. /\ orders \in Seq(OrderType) /\ row \in Seq(RowStatus)
      /\ Len(row) = Len(orders) /\ Len(orders) \in Nat
  BY DEF TypeInv
<1>1. CASE FillAction
  <2>1. PICK t : Fills(t)
    BY <1>1, FillActionFills
  <2>2. /\ orders' = orders /\ TradeFits(t)
        /\ \A o \in Ids : o # t.order => row'[o] = row[o]
        /\ t.side = "BUY" => row[t.order] \in {"PAPER_OPEN", "PARTIAL"}
    BY <2>1, FillTypes DEF Fills
  <2>3. ASSUME NEW o \in Ids, orders[o].market = m,
               o = t.order /\ t.side = "BUY"
        PROVE  o \in Engaged(m)
    BY <2>2, <2>3 DEF Engaged
  <2>4. ASSUME NEW o \in Ids, orders[o].market = m, row'[o] \in {"PAPER_OPEN", "PARTIAL"}
        PROVE  o \in Engaged(m)
    <3>1. CASE o = t.order
      BY <2>2, <2>3, <2>4, <3>1 DEF TradeFits, Ids
    <3>2. CASE o # t.order
      BY <2>2, <2>4, <3>2 DEF Engaged
    <3> QED BY <3>1, <3>2
  <2>5. ASSUME NEW o \in Ids, orders[o].market = m, NEW p \in OpenAt(m)',
               o \in positions'[p].buys
        PROVE  o \in Engaged(m)
    <3>1. /\ p \in 1 .. Len(positions') /\ positions'[p].status = "OPEN"
          /\ positions'[p].market = m
      BY DEF OpenAt
    <3>2. CASE o = t.order /\ t.side = "BUY"
      BY <2>3, <2>5, <3>2
    <3>3. CASE p \in AllOpen /\ o \in positions[p].buys
      <4>1. positions[p].market = m
        BY <2>1, <3>1, <3>3, FillPositions DEF RowsAfter, AllOpen
      <4> QED BY <2>5, <3>3, <4>1 DEF Engaged, OpenAt, AllOpen
    <3>4. p \in AllOpen'
      BY <3>1 DEF AllOpen
    <3> QED BY <2>1, <2>5, <3>2, <3>3, <3>4, FillPositions DEF RowsAfter
  <2> QED BY <2>2, <2>4, <2>5 DEF Engaged, Ids
<1>2. CASE EntryAction
  <2>1. PICK k \in Markets, n \in 1 .. FixedSize : Submit(k, n)
    BY <1>2 DEF EntryAction, PlaceEntry, PlaceEntryLost
  <2>2. row' = Append(row, "absent") /\ "absent" \in RowStatus /\ UNCHANGED positions
    BY <2>1 DEF Submit, RowStatus
  <2>3. /\ \A o \in Ids : row'[o] = row[o]
        /\ row'[Len(orders) + 1] = "absent" /\ Len(row') = Len(orders) + 1
    BY <1>0, <2>2 DEF Ids
  <2>4. \A o \in Ids' : o \in Ids \/ o = Len(orders) + 1
    BY <1>0, <1>2, <2>3, EntryFrame DEF Ids
  <2>5. \A o \in Ids : orders'[o] = orders[o]
    BY <1>2, EntryFrame
  <2>6. \A p \in 1 .. Len(positions) : ~ (Len(orders) + 1 \in positions[p].buys)
    BY <1>0 DEF BooksInv, Ids
  <2> QED BY <2>2, <2>3, <2>4, <2>5, <2>6 DEF Engaged, OpenAt
<1>3. CASE RowAction
  <2>1. UNCHANGED <<orders, positions>>
    BY <1>3 DEF RowAction, ReconcileOpenOrders, CancelExpired
  <2>2. \A o \in Ids : row'[o] \in {row[o], "EXCHANGE_CLOSED", "CANCELLED"}
    BY <1>3, RowsClose
  <2> QED BY <2>1, <2>2 DEF Engaged, OpenAt, Ids
<1>4. CASE TapeAction
  <2>1. UNCHANGED <<orders, row, positions>>
    BY <1>4 DEF TapeAction, Match, Printed, tables
  <2> QED BY <2>1 DEF Engaged, OpenAt, Ids
<1>5. CASE MemoryAction
  <2>1. UNCHANGED <<orders, row, positions>>
    BY <1>5, MemoryFrame
  <2> QED BY <2>1 DEF Engaged, OpenAt, Ids
<1>6. CASE UNCHANGED vars
  BY <1>6 DEF Engaged, OpenAt, Ids, vars
<1> QED BY <1>1, <1>2, <1>3, <1>4, <1>5, <1>6, NextIs DEF EntryAction

LEMMA EngagedStep ==
  ASSUME TypeInv, LoopInv, BooksInv, EngagedInv, [Next]_vars
  PROVE  EngagedInv'
<1>0. /\ orders \in Seq(OrderType) /\ row \in Seq(RowStatus)
      /\ Len(row) = Len(orders) /\ Len(orders) \in Nat
  BY DEF TypeInv
<1>1. paper' = paper /\ paper \in BOOLEAN
  BY ModeKept DEF vars, TypeInv
<1> SUFFICES ASSUME paper'
             PROVE  EngagedLater' /\ EngagedNext'
  BY DEF EngagedInv
<1>2. paper /\ EngagedLater /\ EngagedNext
  BY <1>1 DEF EngagedInv
<1>3. \A m : \A o \in Engaged(m) : o \in Ids
  BY DEF Engaged
<1>4. \A o \in Ids : orders'[o] = orders[o]
  <2>1. EntryAction => \A o \in Ids : orders'[o] = orders[o]
    BY EntryFrame
  <2>2. FillAction \/ RowAction \/ TapeAction \/ MemoryAction => UNCHANGED orders
    BY MemoryFrame DEF FillAction, EagerFill, SimulateFill, MakerFill, BookLiveFill,
           TakeProfit, Settle, RowAction, ReconcileOpenOrders, CancelExpired,
           TapeAction, Match, Printed
  <2> QED BY <2>1, <2>2, NextIs DEF vars
<1>5. CASE PersistEntry
  <2>1. /\ pc = "placed" /\ pc' # "placed" /\ pending \in Ids
        /\ UNCHANGED <<orders, positions>>
        /\ row' = [row EXCEPT ![pending] = "PAPER_OPEN"]
    BY <1>2, <1>5 DEF PersistEntry, EntryEnds, LoopInv, world
  <2>2. \A o \in Ids : o # pending => row'[o] = row[o]
    BY <1>0, <2>1 DEF Ids
  <2>3. ASSUME NEW m \in Markets, NEW o \in Engaged(m)'
        PROVE  o \in Engaged(m) \/ (o = pending /\ m = orders[pending].market)
    BY <2>1, <2>2 DEF Engaged, OpenAt, Ids
  <2>4. /\ pending = Len(orders)
        /\ orders[pending].unchecked \/ Engaged(orders[pending].market) = {}
    BY <1>2, <2>1 DEF EngagedNext
  <2>5. ASSUME NEW m \in Markets, NEW o \in Engaged(m)', NEW q \in Engaged(m)', o < q
        PROVE  orders[q].unchecked
    <3>1. CASE q = pending
      <4>1. o # pending
        BY <1>0, <2>4, <2>5, <3>1
      <4>2. orders[pending].market = m
        BY <2>1, <3>1 DEF Engaged
      <4>3. o \in Engaged(m)
        BY <2>3, <4>1
      <4> QED BY <2>4, <3>1, <4>2, <4>3
    <3>2. CASE q # pending
      <4>1. q \in Engaged(m) /\ q \in Ids
        BY <1>3, <2>3, <3>2
      <4>2. o # pending
        BY <1>0, <2>4, <2>5, <4>1 DEF Ids
      <4> QED BY <1>2, <2>3, <2>5, <4>1, <4>2 DEF EngagedLater
    <3> QED BY <3>1, <3>2
  <2> QED BY <2>1, <2>5 DEF EngagedLater, EngagedNext
<1>6. CASE ~PersistEntry
  <2>1. \A m : Engaged(m)' \subseteq Engaged(m)
    BY <1>2, <1>6, EngagedKept
  <2>2. EngagedLater'
    <3>1. ASSUME NEW m \in Markets, NEW o \in Engaged(m)', NEW q \in Engaged(m)', o < q
          PROVE  orders'[q].unchecked
      <4>1. o \in Engaged(m) /\ q \in Engaged(m) /\ q \in Ids
        BY <1>3, <2>1
      <4> QED BY <1>2, <1>4, <3>1, <4>1 DEF EngagedLater
    <3> QED BY <3>1 DEF EngagedLater
  <2>3. ASSUME NEW m \in Markets, NEW n \in 1 .. FixedSize, PlaceEntry(m, n)
        PROVE  EngagedNext'
    <3>1. /\ pending' = Len(orders') /\ orders' = Append(orders, NewOrder(m, n))
      BY <2>3 DEF PlaceEntry, Submit
    <3>2. NewOrder(m, n) \in OrderType /\ NewOrder(m, n).market = m
          /\ NewOrder(m, n).unchecked = GateBlocks(m)
      BY NewOrderIs
    <3>3. orders'[pending'] = NewOrder(m, n)
      BY <1>0, <3>1, <3>2
    <3>4. GateBlocks(m) \/ Engaged(m)' = {}
      BY <2>1 DEF GateBlocks, Engaged
    <3>5. orders'[pending'].market = m /\ orders'[pending'].unchecked = GateBlocks(m)
      BY <3>2, <3>3
    <3> QED BY <3>1, <3>4, <3>5 DEF EngagedNext, Engaged, OpenAt, Ids
  <2>4. ASSUME pc = "placed", pending' = pending, ~EntryAction
        PROVE  EngagedNext'
    <3>1. pending \in Ids /\ orders'[pending] = orders[pending]
      BY <1>4, <2>4 DEF LoopInv
    <3>2. orders' = orders
      BY <2>4, MemoryFrame, NextIs DEF FillAction, EagerFill, SimulateFill, MakerFill,
           BookLiveFill, TakeProfit, Settle, RowAction, ReconcileOpenOrders, CancelExpired,
           TapeAction, Match, Printed, vars
    <3>3. /\ pending = Len(orders)
          /\ orders[pending].unchecked \/ Engaged(orders[pending].market) = {}
      BY <1>2, <2>4 DEF EngagedNext
    <3> PICK m : m = orders[pending].market
      OBVIOUS
    <3>4. orders[pending].unchecked \/ Engaged(m)' = {}
      BY <2>1, <3>3
    <3>5. orders'[pending'].market = m /\ orders'[pending'].unchecked = orders[pending].unchecked
      BY <2>4, <3>2
    <3> QED BY <2>4, <3>2, <3>3, <3>4, <3>5 DEF EngagedNext, Engaged, OpenAt, Ids
  <2>5. pc' = "placed" => \/ pc = "placed" /\ pending' = pending /\ ~EntryAction
                          \/ \E m \in Markets, n \in 1 .. FixedSize : PlaceEntry(m, n)
    <3>1. pc' = "placed" => \/ pc = "placed" /\ pending' = pending
                            \/ \E m \in Markets, n \in 1 .. FixedSize : PlaceEntry(m, n)
      BY <1>6, ScanSteps DEF Scans, StartScan
    <3>2. EntryAction => pc = "enter"
      BY <1>6 DEF EntryAction, PlaceEntry, PlaceEntryLost, Submit, Attempts
    <3> QED BY <3>1, <3>2
  <2> QED BY <2>2, <2>3, <2>4, <2>5 DEF EngagedNext
<1> QED BY <1>5, <1>6

-----------------------------------------------------------------------------
(* Fills against matches and prints.                                       *)

LEMMA SizesAdd ==
  ASSUME NEW S, IsFiniteSet(S), NEW t, t \notin S, \A u \in S \cup {t} : u.size \in Nat
  PROVE  SumSizes(S \cup {t}) = SumSizes(S) + t.size
<1> DEFINE R == S \cup {t}
           f == [u \in R |-> u.size]
           g == [u \in S |-> u.size]
<1>1. /\ \A u \in S : g[u] = f[u]
      /\ \A u \in S \cup {t} : f[u] \in Int
      /\ f[t] = t.size
  OBVIOUS
<1>2. SumSizes(R) = SumFunctionOnSet(f, R) /\ SumSizes(S) = SumFunctionOnSet(g, S)
  BY DEF SumSizes
<1> HIDE DEF f, g
<1>3. SumFunctionOnSet(g, S) = SumFunctionOnSet(f, S)
  BY <1>1, SumEqual
<1>4. SumFunctionOnSet(f, S \cup {t}) = SumFunctionOnSet(f, S) + f[t]
  BY <1>1, SumAdd
<1> QED BY <1>1, <1>2, <1>3, <1>4

LEMMA SizesSubset ==
  ASSUME TypeInv, BooksInv, NEW S \in SUBSET trades, NEW R \in SUBSET S
  PROVE  SumSizes(R) =< SumSizes(S)
<1> DEFINE f == [u \in S |-> u.size]
           g == [u \in R |-> u.size]
<1>1. IsFiniteSet(S) /\ IsFiniteSet(R) /\ \A u \in S : f[u] \in Nat
  BY SizesSum, FS_Subset
<1>2. \A u \in R : g[u] = f[u]
  OBVIOUS
<1>3. SumSizes(S) = SumFunctionOnSet(f, S) /\ SumSizes(R) = SumFunctionOnSet(g, R)
  BY DEF SumSizes
<1> HIDE DEF f, g
<1>4. SumFunctionOnSet(g, R) = SumFunctionOnSet(f, R)
  BY <1>1, <1>2, SumEqual
<1>5. SumFunctionOnSet(f, R) =< SumFunctionOnSet(f, S)
  BY <1>1, SumSubset
<1> QED BY <1>3, <1>4, <1>5

LEMMA ApartNat ==
  ASSUME TypeInv, BooksInv, NEW o
  PROVE  BookedApart(o) \in Nat /\ BookedApart(o) =< BoughtBy(o)
<1> DEFINE S == {t \in trades : t.order = o}
           R == {t \in trades : t.order = o /\ t.id[1] # "fill"}
<1>1. R \in SUBSET S /\ S \in SUBSET trades /\ R \in SUBSET trades
  OBVIOUS
<1>2. BookedApart(o) = SumSizes(R) /\ BoughtBy(o) = SumSizes(S)
  BY DEF BookedApart, BoughtBy, SumSizes
<1> HIDE DEF S, R
<1> QED BY <1>1, <1>2, SizesSum, SizesSubset

\* A fill is a new trade, with a new id, of one order, or nothing.
LEMMA FillBooks ==
  ASSUME TypeInv, BooksInv, NEW t, Fills(t), ~UNCHANGED tables
  PROVE  /\ \A u \in trades : u.id # t.id
         /\ trades' = trades \cup {t}
         /\ \A o : BookedApart(o)' =
                BookedApart(o) + (IF o = t.order /\ t.id[1] # "fill" THEN t.size ELSE 0)
<1>1. /\ \A u \in trades : u.id # t.id
      /\ trades' = trades \cup {t} /\ t \notin trades /\ t.size \in Nat
  BY DEF Fills, OnFill, TradeFits
<1>2. ASSUME NEW o
      PROVE  BookedApart(o)' =
               BookedApart(o) + (IF o = t.order /\ t.id[1] # "fill" THEN t.size ELSE 0)
  <2> DEFINE S == {u \in trades : u.order = o /\ u.id[1] # "fill"}
             R == {u \in trades' : u.order = o /\ u.id[1] # "fill"}
  <2>1. S \in SUBSET trades /\ t \notin S
    BY <1>1
  <2>2. IsFiniteSet(S) /\ \A u \in S \cup {t} : u.size \in Nat
    BY <1>1, <2>1, SizesSum DEF BooksInv, TradeFits
  <2>3. SumSizes(S \cup {t}) = SumSizes(S) + t.size /\ SumSizes(S) \in Nat
    BY <2>1, <2>2, SizesAdd, SizesSum
  <2>4. R = IF o = t.order /\ t.id[1] # "fill" THEN S \cup {t} ELSE S
    BY <1>1
  <2>5. BookedApart(o) = SumSizes(S) /\ BookedApart(o)' = SumSizes(R)
    BY DEF BookedApart, SumSizes
  <2> HIDE DEF S, R
  <2> QED BY <2>3, <2>4, <2>5
<1> QED BY <1>1, <1>2

\* The terms of the sums over the tape.
LEMMA TapeSums ==
  ASSUME TypeInv, BooksInv, NEW S \in SUBSET (1 .. Len(tape))
  PROVE  /\ IsFiniteSet(S)
         /\ \A i \in 1 .. Len(tape) : /\ Sizes(tape)[i] = tape[i].size
                                      /\ Sizes(tape)[i] \in Nat
         /\ SumFunctionOnSet(Sizes(tape), S) \in Nat
<1>1. Len(tape) \in Nat /\ DOMAIN tape = 1 .. Len(tape)
  BY DEF TypeInv
<1>2. IsFiniteSet(1 .. Len(tape))
  BY <1>1, FS_Interval
<1>3. IsFiniteSet(S)
  BY <1>2, FS_Subset
<1>4. \A i \in 1 .. Len(tape) : Sizes(tape)[i] = tape[i].size /\ Sizes(tape)[i] \in Nat
  BY <1>1, TapeFields DEF Sizes
<1>5. \A i \in S : Sizes(tape)[i] \in Nat
  BY <1>4
<1> QED BY <1>3, <1>4, <1>5, SumType

LEMMA TapeParts ==
  ASSUME TypeInv, BooksInv, NEW o \in Ids
  PROVE  Unbooked(o) \in SUBSET (1 .. Len(tape)) /\ Used(o) \in SUBSET (1 .. Len(tape))
<1>1. orders[o].from \in Nat /\ orders[o].from =< Len(tape) /\ Len(tape) \in Nat
  BY OrderFields DEF BooksInv, TypeInv
<1> QED BY <1>1 DEF Unbooked, Used

\* Nothing is booked, matched or printed; an order may leave the book.
LEMMA TapeQuiet ==
  ASSUME TypeInv, TapeInv, UNCHANGED <<paper, maker, orders, tape, trades>>,
         \A o \in Ids : left'[o] \in Nat /\ left'[o] =< left[o]
  PROVE  BooksInv => TapeInv'
<1> SUFFICES ASSUME BooksInv PROVE TapeInv'
  OBVIOUS
<1>1. Ids' = Ids
  BY DEF Ids
<1>2. \A o \in Ids : /\ BookedApart(o)' = BookedApart(o) /\ Unbooked(o)' = Unbooked(o)
                     /\ Used(o)' = Used(o)
  BY DEF BookedApart, SumSizes, Unbooked, Used
<1>3. ASSUME NEW o \in Ids
      PROVE  /\ BookedApart(o) + SumFunctionOnSet(Sizes(tape), Unbooked(o)) + left'[o]
                  =< orders[o].size
             /\ left[o] = 0 => left'[o] = 0
  <2>1. /\ BookedApart(o) \in Nat /\ SumFunctionOnSet(Sizes(tape), Unbooked(o)) \in Nat
        /\ left[o] \in Nat /\ orders[o].size \in Nat
    BY ApartNat, TapeParts, TapeSums, OrderFields
  <2>2. BookedApart(o) + SumFunctionOnSet(Sizes(tape), Unbooked(o)) + left[o] =< orders[o].size
    BY DEF TapeInv
  <2> QED BY <2>1, <2>2
<1>4. Sizes(tape)' = Sizes(tape)
  BY DEF Sizes
<1> QED BY <1>1, <1>2, <1>3, <1>4 DEF TapeInv

\* A match or a print is added to the tape.
LEMMA TapeGrows ==
  ASSUME TypeInv, BooksInv, TapeInv, TapeAction
  PROVE  TapeInv'
<1>0. /\ tape \in Seq(TapeType) /\ Len(tape) \in Nat /\ left \in Seq(Nat)
      /\ Len(left) = Len(orders) /\ Len(orders) \in Nat
  BY DEF TypeInv
<1>1. UNCHANGED <<paper, maker, orders, trades>>
  BY DEF TapeAction, Match, Printed, tables
<1>2. PICK new \in TapeType :
         /\ tape' = Append(tape, new)
         /\ \/ /\ new.of = 0 /\ UNCHANGED left
            \/ /\ ~paper /\ new.of \in Ids /\ new.size =< left[new.of]
               /\ left' = [left EXCEPT ![new.of] = @ - new.size]
  <2>1. ASSUME NEW n \in 1 .. FixedSize, NEW o \in Ids, Match(o, n)
        PROVE  \E new \in TapeType :
                 /\ tape' = Append(tape, new)
                 /\ ~paper /\ new.of \in Ids /\ new.size =< left[new.of]
                 /\ left' = [left EXCEPT ![new.of] = @ - new.size]
    <3> DEFINE new == [of |-> o, market |-> orders[o].market, size |-> n]
    <3>1. new \in TapeType /\ new.of = o /\ new.size = n
      BY OrderFields, LongshotAssumption DEF TapeType, Ids, LongshotAssumption
    <3>2. /\ tape' = Append(tape, new) /\ ~paper /\ n =< left[o]
          /\ left' = [left EXCEPT ![o] = left[o] - n]
      BY <2>1, OrderFields DEF Match
    <3> HIDE DEF new
    <3> QED BY <3>1, <3>2
  <2>2. ASSUME NEW n \in 1 .. FixedSize, NEW m \in Markets, Printed(m, n)
        PROVE  \E new \in TapeType : tape' = Append(tape, new) /\ new.of = 0 /\ UNCHANGED left
    <3>1. [of |-> 0, market |-> m, size |-> n] \in TapeType
      BY LongshotAssumption DEF TapeType, LongshotAssumption
    <3> QED BY <2>2, <3>1 DEF Printed
  <2> QED BY <2>1, <2>2 DEF TapeAction
<1> DEFINE k == Len(tape) + 1
<1>3. /\ tape' \in Seq(TapeType) /\ Len(tape') = k /\ tape'[k] = new
      /\ \A i \in 1 .. Len(tape) : tape'[i] = tape[i]
  BY <1>0, <1>2
<1>4. Ids' = Ids /\ \A o : BookedApart(o)' = BookedApart(o)
  BY <1>1 DEF Ids, BookedApart, SumSizes
<1>5. /\ \A i \in 1 .. Len(tape) : Sizes(tape')[i] = tape[i].size
      /\ Sizes(tape')[k] = new.size /\ new.size \in Nat /\ new.of \in Nat
  <2>1. new.size \in Nat /\ new.of \in Nat
    BY DEF TapeType
  <2>2. DOMAIN tape' = 1 .. k /\ 1 .. k = (1 .. Len(tape)) \cup {k}
    BY <1>0, <1>3
  <2>3. \A i \in DOMAIN tape' : Sizes(tape')[i] = tape'[i].size
    BY DEF Sizes
  <2> QED BY <1>3, <2>1, <2>2, <2>3
<1>6. ASSUME NEW S \in SUBSET (1 .. Len(tape))
      PROVE  SumFunctionOnSet(Sizes(tape'), S) = SumFunctionOnSet(Sizes(tape), S)
  BY <1>5, TapeSums, SumEqual
<1>7. ASSUME NEW o \in Ids
      PROVE  Used(o)' = Used(o)
  <2>1. /\ orders'[o] = orders[o] /\ orders[o].from \in Nat /\ orders[o].from =< Len(tape)
    BY <1>1, OrderFields DEF BooksInv
  <2>2. \A t \in trades : t.id # <<"maker", o, k>>
    BY <1>0 DEF TapeInv
  <2> QED BY <1>0, <1>1, <1>3, <2>1, <2>2 DEF Used
<1>8. ASSUME NEW o \in Ids
      PROVE  Unbooked(o)' = Unbooked(o) \cup (IF new.of = o THEN {k} ELSE {})
  <2>1. \A t \in trades : t.id # <<"clob", 0, k>>
    BY <1>0 DEF TapeInv
  <2> QED BY <1>0, <1>1, <1>3, <2>1 DEF Unbooked
<1>9. ASSUME NEW o \in Ids
      PROVE  SumFunctionOnSet(Sizes(tape'), Unbooked(o)')
               = SumFunctionOnSet(Sizes(tape), Unbooked(o)) + (IF new.of = o THEN new.size ELSE 0)
  <2> DEFINE S == Unbooked(o)
             f == Sizes(tape')
  <2>1. S \in SUBSET (1 .. Len(tape)) /\ IsFiniteSet(S)
        /\ SumFunctionOnSet(Sizes(tape), S) \in Nat
    BY TapeParts, TapeSums
  <2>2. SumFunctionOnSet(f, S) = SumFunctionOnSet(Sizes(tape), S)
    BY <1>6, <2>1
  <2>3. k \notin S /\ \A i \in S \cup {k} : f[i] \in Int
    <3>1. \A i \in 1 .. Len(tape) : f[i] \in Nat
      BY <1>5, TapeFields
    <3>2. k \notin 1 .. Len(tape) /\ f[k] \in Nat
      BY <1>0, <1>5
    <3>3. S \subseteq 1 .. Len(tape)
      BY <2>1
    <3> HIDE DEF f, S, k
    <3>4. k \notin S
      BY <3>2, <3>3
    <3>5. \A i \in S : f[i] \in Int
      BY <3>1, <3>3
    <3> QED BY <3>2, <3>4, <3>5
  <2>4. f[k] = new.size /\ S = Unbooked(o)
    BY <1>5
  <2> HIDE DEF S, f, k
  <2>5. SumFunctionOnSet(f, S \cup {k}) = SumFunctionOnSet(f, S) + f[k]
    BY <2>1, <2>3, SumAdd
  <2>6. Unbooked(o)' = IF new.of = o THEN S \cup {k} ELSE S
    BY <1>8, <2>4 DEF k
  <2>7. SumFunctionOnSet(f, Unbooked(o)')
          = SumFunctionOnSet(Sizes(tape), S) + (IF new.of = o THEN new.size ELSE 0)
    BY <2>1, <2>2, <2>4, <2>5, <2>6
  <2> QED BY <2>4, <2>7 DEF f
<1>10. ASSUME NEW o \in Ids
       PROVE  /\ BookedApart(o) + SumFunctionOnSet(Sizes(tape'), Unbooked(o)') + left'[o]
                   =< orders[o].size
              /\ paper => left'[o] = 0
  <2>1. /\ BookedApart(o) \in Nat /\ SumFunctionOnSet(Sizes(tape), Unbooked(o)) \in Nat
        /\ left[o] \in Nat /\ orders[o].size \in Nat
    BY ApartNat, TapeParts, TapeSums, OrderFields
  <2>2. /\ BookedApart(o) + SumFunctionOnSet(Sizes(tape), Unbooked(o)) + left[o] =< orders[o].size
        /\ paper => left[o] = 0
    BY DEF TapeInv
  <2>3. left'[o] = left[o] - (IF new.of = o THEN new.size ELSE 0)
    <3>1. o \in 1 .. Len(left) /\ o # 0
      BY <1>0 DEF Ids
    <3>2. CASE new.of = 0 /\ UNCHANGED left
      BY <2>1, <3>1, <3>2
    <3>3. CASE left' = [left EXCEPT ![new.of] = @ - new.size]
      <4>1. left'[o] = IF new.of = o THEN left[o] - new.size ELSE left[o]
        BY <1>0, <3>1, <3>3
      <4> QED BY <2>1, <4>1
    <3> QED BY <1>2, <3>2, <3>3
  <2> QED BY <1>2, <1>5, <1>9, <2>1, <2>2, <2>3 DEF Ids
<1>11. ASSUME paper, maker, NEW o \in Ids
       PROVE  BookedApart(o) =< SumFunctionOnSet(Sizes(tape'), Used(o)')
  <2>1. SumFunctionOnSet(Sizes(tape'), Used(o)) = SumFunctionOnSet(Sizes(tape), Used(o))
    BY <1>6, TapeParts
  <2> QED BY <1>7, <1>11, <2>1 DEF TapeInv
<1>12. \A t \in trades' : t.id[1] \in {"clob", "maker"} => t.id[3] \in 1 .. Len(tape')
  <2>1. \A t \in trades : t.id[1] \in {"clob", "maker"} => t.id[3] \in 1 .. Len(tape)
    BY DEF TapeInv
  <2> QED BY <1>0, <1>1, <1>3, <2>1
<1>13. Sizes(tape)' = Sizes(tape')
  BY DEF Sizes
<1> QED BY <1>1, <1>4, <1>10, <1>11, <1>12, <1>13 DEF TapeInv

\* The four kinds of fill: a paper order taken in full, a print that fills a bid, a
\* match of the exchange, a sale.
WholeFill(t) == paper /\ t.side = "BUY" /\ t.id = <<"fill", t.order, 0>>
PrintFill(t, i) ==
  /\ paper /\ maker /\ t.side = "BUY" /\ t.id = <<"maker", t.order, i>>
  /\ t.size =< tape[i].size
  /\ t.size =< orders[t.order].size - BookedApart(t.order)
  /\ i > orders[t.order].from /\ tape[i].market = orders[t.order].market
MatchFill(t, i) ==
  /\ ~paper /\ t.side = "BUY" /\ t.id = <<"clob", 0, i>>
  /\ t.order = tape[i].of /\ t.size = tape[i].size
Sale(t) == t.order = 0 /\ t.side = "SELL" /\ t.id[1] \in {"profit", "resolve"}

LEMMA FillKinds ==
  ASSUME TypeInv, LoopInv, BooksInv, FillAction
  PROVE  \E t : Fills(t) /\ \/ WholeFill(t) \/ Sale(t)
                            \/ \E i \in 1 .. Len(tape) : PrintFill(t, i) \/ MatchFill(t, i)
<1>1. ASSUME EagerFill
      PROVE  \E t : Fills(t) /\ WholeFill(t)
  <2> DEFINE t == BuyOf(pending, <<"fill", pending, 0>>, orders[pending].size)
  <2>1. Fills(t)
    BY <1>1, EagerFills1
  <2>2. paper
    BY <1>1 DEF EagerFill, LoopInv, EagerFills
  <2>3. WholeFill(t)
    BY <2>2 DEF WholeFill, BuyOf
  <2> HIDE DEF t
  <2> QED BY <2>1, <2>3
<1>2. ASSUME NEW o \in Ids, SimulateFill(o)
      PROVE  \E t : Fills(t) /\ WholeFill(t)
  <2>1. paper
    BY <1>2 DEF SimulateFill, LoopInv, TypeInv
  <2> DEFINE t == BuyOf(o, <<"fill", o, 0>>, orders[o].size)
  <2>2. Fills(t)
    BY <1>2, SimulateFills
  <2>3. WholeFill(t)
    BY <2>1 DEF WholeFill, BuyOf
  <2> HIDE DEF t
  <2> QED BY <2>2, <2>3
<1>3. ASSUME NEW o \in Ids, NEW i \in 1 .. Len(tape), MakerFill(o, i)
      PROVE  \E t : Fills(t) /\ PrintFill(t, i)
  <2>1. PICK n \in Nat : /\ n =< tape[i].size /\ n =< Remaining(o)
                         /\ Fills(BuyOf(o, <<"maker", o, i>>, n))
    BY <1>3, MakerFills
  <2>2. /\ paper /\ maker /\ i > orders[o].from /\ tape[i].market = orders[o].market
    BY <1>3 DEF MakerFill, LoopInv, TypeInv
  <2>3. n =< orders[o].size - BookedApart(o)
    <3>1. /\ BookedApart(o) \in Nat /\ BoughtBy(o) \in Nat /\ orders[o].size \in Nat
          /\ BookedApart(o) =< BoughtBy(o) /\ Remaining(o) = orders[o].size - BoughtBy(o)
      BY ApartNat, BoughtNat, OrderFields DEF Remaining
    <3> QED BY <2>1, <3>1
  <2> QED BY <2>1, <2>2, <2>3 DEF PrintFill, BuyOf
<1>4. ASSUME NEW i \in 1 .. Len(tape), BookLiveFill(i)
      PROVE  \E t : Fills(t) /\ MatchFill(t, i)
  BY <1>4, LiveFills DEF BookLiveFill, LoopInv, MatchFill, BuyOf
<1>5. ASSUME NEW p \in AllOpen, TakeProfit(p)
      PROVE  \E t : Fills(t) /\ Sale(t)
  <2> DEFINE t == SellOf(positions[p].market, <<"profit", p, 0>>, positions[p].size)
  <2>1. Fills(t)
    BY <1>5, ProfitFills
  <2>2. Sale(t)
    BY DEF Sale, SellOf
  <2> QED BY <2>1, <2>2
<1>6. ASSUME NEW a \in Actors, NEW r \in settling[a], Settle(a, r)
      PROVE  \E t : Fills(t) /\ Sale(t)
  <2> DEFINE t == SellOf(r.market, <<"resolve", r.pos, 0>>, r.size)
  <2>1. Fills(t)
    BY <1>6, SettleFills
  <2>2. Sale(t)
    BY DEF Sale, SellOf
  <2> QED BY <2>1, <2>2
<1> QED BY <1>1, <1>2, <1>3, <1>4, <1>5, <1>6 DEF FillAction

\* The matches not booked and the prints used, before and after a new trade.
LEMMA TapeParted ==
  ASSUME TypeInv, BooksInv, NEW t, trades' = trades \cup {t},
         UNCHANGED <<orders, tape>>, NEW o \in Ids
  PROVE  /\ Unbooked(o)' = Unbooked(o) \ {i \in 1 .. Len(tape) : t.id = <<"clob", 0, i>>}
         /\ Used(o)' = Used(o) \cup {i \in orders[o].from + 1 .. Len(tape) :
                                       /\ tape[i].market = orders[o].market
                                       /\ t.id = <<"maker", o, i>>}
BY DEF Unbooked, Used

LEMMA TapeFill ==
  ASSUME TypeInv, LoopInv, BooksInv, TapeInv, NEW t, Fills(t), ~UNCHANGED tables,
         \/ WholeFill(t) \/ Sale(t)
         \/ \E i \in 1 .. Len(tape) : PrintFill(t, i) \/ MatchFill(t, i)
  PROVE  TapeInv'
<1>1. /\ \A u \in trades : u.id # t.id
      /\ trades' = trades \cup {t} /\ TradeFits(t)
      /\ \A o : BookedApart(o)' =
             BookedApart(o) + (IF o = t.order /\ t.id[1] # "fill" THEN t.size ELSE 0)
      /\ UNCHANGED <<paper, maker, orders, left, tape>>
  BY FillBooks DEF Fills, world
<1>2. Ids' = Ids /\ Sizes(tape)' = Sizes(tape) /\ t.size \in Nat /\ t.order \in Nat
  BY <1>1 DEF Ids, Sizes, TradeFits
<1> DEFINE U(o) == SumFunctionOnSet(Sizes(tape), Unbooked(o))
           P(o) == SumFunctionOnSet(Sizes(tape), Used(o))
<1>3. \A o \in Ids : /\ BookedApart(o) \in Nat /\ U(o) \in Nat /\ P(o) \in Nat
                     /\ left[o] \in Nat /\ orders[o].size \in Nat
                     /\ BookedApart(o) + U(o) + left[o] =< orders[o].size
                     /\ paper => left[o] = 0
                     /\ paper /\ maker => BookedApart(o) =< P(o)
  BY ApartNat, TapeParts, TapeSums, OrderFields DEF TapeInv
<1>4. SUFFICES
        /\ t.id[1] \in {"clob", "maker"} => t.id[3] \in 1 .. Len(tape)
        /\ \A o \in Ids :
             /\ BookedApart(o)' + SumFunctionOnSet(Sizes(tape), Unbooked(o)') + left[o]
                  =< orders[o].size
             /\ paper /\ maker => BookedApart(o)' =< SumFunctionOnSet(Sizes(tape), Used(o)')
  BY <1>1, <1>2, <1>3 DEF TapeInv
<1>5. CASE WholeFill(t) \/ Sale(t)
  <2>1. \A o \in Ids : BookedApart(o)' = BookedApart(o)
    <3>1. t.order = 0 \/ t.id[1] = "fill"
      BY <1>5 DEF Sale, WholeFill
    <3>2. \A o \in Ids : o # 0 /\ BookedApart(o) \in Nat
      BY <1>3 DEF Ids
    <3>3. \A o : BookedApart(o)' =
            BookedApart(o) + (IF o = t.order /\ t.id[1] # "fill" THEN t.size ELSE 0)
      BY <1>1
    <3> QED BY <3>1, <3>2, <3>3
  <2>2. /\ t.id[1] \notin {"clob", "maker"}
        /\ \A i, o : t.id # <<"clob", 0, i>> /\ t.id # <<"maker", o, i>>
    BY <1>5 DEF Sale, WholeFill
  <2>3. ASSUME NEW o \in Ids
        PROVE  Unbooked(o)' = Unbooked(o) /\ Used(o)' = Used(o)
    <3>1. {i \in 1 .. Len(tape) : t.id = <<"clob", 0, i>>} = {}
      BY <2>2
    <3>2. {i \in orders[o].from + 1 .. Len(tape) :
             tape[i].market = orders[o].market /\ t.id = <<"maker", o, i>>} = {}
      BY <2>2
    <3>3. /\ Unbooked(o)' = Unbooked(o) \ {i \in 1 .. Len(tape) : t.id = <<"clob", 0, i>>}
          /\ Used(o)' = Used(o) \cup
               {i \in orders[o].from + 1 .. Len(tape) :
                  tape[i].market = orders[o].market /\ t.id = <<"maker", o, i>>}
      BY <1>1, TapeParted
    <3> QED BY <3>1, <3>2, <3>3
  <2> QED BY <1>3, <2>1, <2>2, <2>3
<1>6. ASSUME NEW i \in 1 .. Len(tape), MatchFill(t, i)
      PROVE  /\ t.id[1] \in {"clob", "maker"} => t.id[3] \in 1 .. Len(tape)
             /\ ~paper
             /\ \A o \in Ids :
                  BookedApart(o)' + SumFunctionOnSet(Sizes(tape), Unbooked(o)') + left[o]
                    =< orders[o].size
  <2>1. /\ t.id = <<"clob", 0, i>> /\ t.order = tape[i].of /\ t.size = tape[i].size /\ ~paper
        /\ t.order \in Ids
    BY <1>1, <1>6 DEF MatchFill, TradeFits
  <2>2. i \in Unbooked(t.order)
    BY <1>1, <2>1 DEF Unbooked
  <2>3. \A o \in Ids : Unbooked(o)' = IF o = t.order THEN Unbooked(o) \ {i} ELSE Unbooked(o)
    <3>1. {j \in 1 .. Len(tape) : t.id = <<"clob", 0, j>>} = {i}
      BY <2>1
    <3>2. \A o \in Ids : o # t.order => i \notin Unbooked(o)
      BY <2>1 DEF Unbooked
    <3>3. \A o \in Ids : Unbooked(o)' = Unbooked(o) \ {i}
      BY <1>1, <3>1, TapeParted
    <3> QED BY <3>2, <3>3
  <2>4. ASSUME NEW o \in Ids, o = t.order
        PROVE  SumFunctionOnSet(Sizes(tape), Unbooked(o)') + t.size = U(o)
    <3> DEFINE S == Unbooked(o)
               f == Sizes(tape)
    <3>1. IsFiniteSet(S) /\ (\A j \in S : f[j] \in Int) /\ i \in S /\ f[i] = t.size
      <4>1. S \in SUBSET (1 .. Len(tape)) /\ IsFiniteSet(S)
            /\ \A j \in 1 .. Len(tape) : f[j] = tape[j].size /\ f[j] \in Nat
        BY TapeParts, TapeSums
      <4>2. i \in S
        BY <2>2, <2>4
      <4> HIDE DEF S, f
      <4> QED BY <2>1, <4>1, <4>2
    <3>2. S \ {i} \in SUBSET (1 .. Len(tape))
      BY TapeParts
    <3>3. SumFunctionOnSet(f, S \ {i}) \in Nat
      BY <3>2, TapeSums
    <3> HIDE DEF S, f
    <3>4. SumFunctionOnSet(f, S) = f[i] + SumFunctionOnSet(f, S \ {i})
      BY <3>1, SumRemove
    <3>5. SumFunctionOnSet(f, S \ {i}) + t.size = SumFunctionOnSet(f, S)
      BY <1>2, <3>1, <3>3, <3>4
    <3>6. Unbooked(o)' = S \ {i}
      BY <2>3, <2>4 DEF S
    <3> QED BY <3>5, <3>6 DEF S, f
  <2>5. ASSUME NEW o \in Ids
        PROVE  BookedApart(o)' + SumFunctionOnSet(Sizes(tape), Unbooked(o)') + left[o]
                 =< orders[o].size
    <3>1. CASE o # t.order
      BY <1>1, <1>3, <2>3, <3>1
    <3>2. CASE o = t.order
      <4>1. Unbooked(o)' \in SUBSET (1 .. Len(tape))
        BY <2>3, TapeParts
      <4>2. SumFunctionOnSet(Sizes(tape), Unbooked(o)') \in Nat
        BY <4>1, TapeSums
      <4>3. SumFunctionOnSet(Sizes(tape), Unbooked(o)') + t.size = U(o)
        BY <2>4, <3>2
      <4>4. BookedApart(o)' = BookedApart(o) + t.size
        BY <1>1, <2>1, <3>2
      <4>5. /\ BookedApart(o) \in Nat /\ U(o) \in Nat /\ t.size \in Nat
            /\ left[o] \in Nat /\ orders[o].size \in Nat
            /\ BookedApart(o) + U(o) + left[o] =< orders[o].size
        BY <1>2, <1>3
      <4> HIDE DEF U, P
      <4>6. \A b, n, u, v, l, s \in Nat : u + n = v /\ b + v + l =< s => b + n + u + l =< s
        OBVIOUS
      <4> QED BY <4>2, <4>3, <4>4, <4>5, <4>6
    <3> QED BY <3>1, <3>2
  <2> QED BY <2>1, <2>5
<1>7. ASSUME NEW i \in 1 .. Len(tape), PrintFill(t, i)
      PROVE  /\ t.id[1] \in {"clob", "maker"} => t.id[3] \in 1 .. Len(tape)
             /\ paper /\ maker
             /\ \A o \in Ids :
                  /\ BookedApart(o)' + SumFunctionOnSet(Sizes(tape), Unbooked(o)') + left[o]
                       =< orders[o].size
                  /\ BookedApart(o)' =< SumFunctionOnSet(Sizes(tape), Used(o)')
  <2>1. /\ t.id = <<"maker", t.order, i>> /\ t.size =< tape[i].size
        /\ t.size =< orders[t.order].size - BookedApart(t.order) /\ i > orders[t.order].from
        /\ tape[i].market = orders[t.order].market /\ paper /\ maker
        /\ t.order \in Ids
    BY <1>1, <1>7 DEF PrintFill, TradeFits
  <2>2. \A o \in Ids : Unbooked(o)' = {} /\ U(o) = 0
    <3>1. \A o \in Ids : Unbooked(o) = {}
      BY <2>1 DEF Unbooked, BooksInv, Ids
    <3>2. \A o \in Ids : Unbooked(o)' = {}
      BY <1>1, <3>1, TapeParted
    <3>3. \A o \in Ids : U(o) = 0
      BY <3>1, SumEmpty
    <3> QED BY <3>2, <3>3
  <2>3. ASSUME NEW o \in Ids
        PROVE  Used(o)' = IF o = t.order THEN Used(o) \cup {i} ELSE Used(o)
    <3>1. o # t.order => {j \in orders[o].from + 1 .. Len(tape) :
             tape[j].market = orders[o].market /\ t.id = <<"maker", o, j>>} = {}
      BY <2>1
    <3>2. {j \in orders[t.order].from + 1 .. Len(tape) :
             /\ tape[j].market = orders[t.order].market
             /\ t.id = <<"maker", t.order, j>>} = {i}
      <4>1. orders[t.order].from \in Nat /\ i \in orders[t.order].from + 1 .. Len(tape)
        BY <2>1, OrderFields
      <4> QED BY <2>1, <4>1
    <3>3. Used(o)' = Used(o) \cup
            {j \in orders[o].from + 1 .. Len(tape) :
               tape[j].market = orders[o].market /\ t.id = <<"maker", o, j>>}
      BY <1>1, TapeParted
    <3>4. CASE o = t.order
      BY <3>2, <3>3, <3>4
    <3>5. CASE o # t.order
      BY <3>1, <3>3, <3>5
    <3> QED BY <3>4, <3>5
  <2>4. i \notin Used(t.order)
    BY <1>1, <2>1 DEF Used
  <2>5. ASSUME NEW o \in Ids, o = t.order
        PROVE  SumFunctionOnSet(Sizes(tape), Used(o)') = P(o) + tape[i].size
    <3> DEFINE S == Used(o)
               f == Sizes(tape)
    <3>1. /\ IsFiniteSet(S) /\ (\A j \in S \cup {i} : f[j] \in Int) /\ i \notin S
          /\ f[i] = tape[i].size
      <4>1. S \in SUBSET (1 .. Len(tape)) /\ IsFiniteSet(S)
            /\ \A j \in 1 .. Len(tape) : f[j] = tape[j].size /\ f[j] \in Nat
        BY TapeParts, TapeSums
      <4>2. i \notin S
        BY <2>4, <2>5
      <4> HIDE DEF S, f
      <4>3. f[i] = tape[i].size /\ \A j \in S \cup {i} : f[j] \in Nat
        BY <4>1
      <4> QED BY <4>1, <4>2, <4>3
    <3> HIDE DEF S, f
    <3>2. SumFunctionOnSet(f, S \cup {i}) = SumFunctionOnSet(f, S) + f[i]
      BY <3>1, SumAdd
    <3>3. Used(o)' = S \cup {i}
      BY <2>3, <2>5 DEF S
    <3> QED BY <3>1, <3>2, <3>3 DEF S, f
  <2>6. tape[i].size \in Nat
    BY TapeFields
  <2>7. ASSUME NEW o \in Ids
        PROVE  /\ BookedApart(o)' =< orders[o].size
               /\ BookedApart(o)' \in Nat
               /\ BookedApart(o)' =< SumFunctionOnSet(Sizes(tape), Used(o)')
    <3>1. CASE o # t.order
      <4>1. BookedApart(o)' = BookedApart(o)
        BY <1>1, <1>3, <3>1
      <4>2. SumFunctionOnSet(Sizes(tape), Used(o)') = P(o)
        BY <2>3, <3>1
      <4>3. /\ BookedApart(o) \in Nat /\ left[o] \in Nat /\ orders[o].size \in Nat
            /\ BookedApart(o) + 0 + left[o] =< orders[o].size
            /\ BookedApart(o) =< P(o)
        BY <1>3, <2>1, <2>2
      <4> HIDE DEF U, P
      <4>4. BookedApart(o) =< orders[o].size
        BY <4>3
      <4> QED BY <4>1, <4>2, <4>3, <4>4
    <3>2. CASE o = t.order
      <4>1. SumFunctionOnSet(Sizes(tape), Used(o)') = P(o) + tape[i].size
        BY <2>5, <3>2
      <4> HIDE DEF U, P
      <4>2. BookedApart(o)' = BookedApart(o) + t.size
        BY <1>1, <2>1, <3>2
      <4>3. BookedApart(o) \in Nat /\ P(o) \in Nat /\ BookedApart(o) =< P(o)
            /\ orders[o].size \in Nat /\ t.size \in Nat
        BY <1>2, <1>3, <2>1
      <4>4. t.size =< orders[o].size - BookedApart(o) /\ t.size =< tape[i].size
        BY <2>1, <3>2
      <4>5. /\ BookedApart(o) + t.size =< orders[o].size
            /\ BookedApart(o) + t.size \in Nat
            /\ BookedApart(o) + t.size =< P(o) + tape[i].size
        <5>1. \A b, n, s, p, z \in Nat : n =< s - b /\ n =< z /\ b =< p
                => b + n =< s /\ b + n \in Nat /\ b + n =< p + z
          OBVIOUS
        <5> QED BY <2>6, <4>3, <4>4, <5>1
      <4> QED BY <4>1, <4>2, <4>5
    <3> QED BY <3>1, <3>2
  <2>8. ASSUME NEW o \in Ids
        PROVE  BookedApart(o)' + SumFunctionOnSet(Sizes(tape), Unbooked(o)') + left[o]
                  =< orders[o].size
    <3>1. Unbooked(o)' = {} /\ left[o] = 0
      BY <1>3, <2>1, <2>2
    <3>2. SumFunctionOnSet(Sizes(tape), Unbooked(o)') = 0
      BY <3>1, SumEmpty
    <3> QED BY <1>3, <2>7, <3>1, <3>2
  <2> QED BY <2>1, <2>7, <2>8
<1> QED BY <1>5, <1>6, <1>7

\* A new order has no fill, no match and no print yet.
LEMMA TapeEnters ==
  ASSUME TypeInv, BooksInv, TapeInv, NEW m \in Markets, NEW n \in 1 .. FixedSize, Submit(m, n)
  PROVE  TapeInv'
<1> DEFINE new == NewOrder(m, n)
<1>k. PICK k \in Nat : k = Len(orders) + 1
  BY DEF TypeInv
<1>0. /\ orders \in Seq(OrderType) /\ left \in Seq(Nat) /\ Len(left) = Len(orders)
      /\ Len(orders) \in Nat /\ Len(tape) \in Nat /\ n \in Nat /\ new \in OrderType
  BY NewOrderIs, LongshotAssumption DEF TypeInv, LongshotAssumption
<1>1. /\ UNCHANGED <<paper, maker, tape, trades>>
      /\ orders' = Append(orders, new) /\ left' = Append(left, IF paper THEN 0 ELSE n)
  BY DEF Submit
<1>2. new.size = n /\ new.from = Len(tape)
  BY NewOrderIs
<1> HIDE DEF new
<1>3. /\ Ids' = Ids \cup {k} /\ k \notin Ids /\ k # 0
      /\ orders'[k] = new /\ (paper => left'[k] = 0) /\ left'[k] \in Nat /\ left'[k] =< n
      /\ \A o \in Ids : orders'[o] = orders[o] /\ left'[o] = left[o]
  <2>1. /\ Len(orders') = k /\ orders'[k] = new
        /\ \A o \in Ids : orders'[o] = orders[o]
    BY <1>0, <1>1, <1>k DEF Ids
  <2>2. Ids' = Ids \cup {k} /\ k \notin Ids /\ k # 0
    BY <1>0, <1>k, <2>1 DEF Ids
  <2>3. /\ left'[k] = IF paper THEN 0 ELSE n
        /\ \A o \in Ids : left'[o] = left[o]
    BY <1>0, <1>1, <1>k DEF Ids
  <2> QED BY <1>0, <2>1, <2>2, <2>3
<1>4. Sizes(tape)' = Sizes(tape) /\ \A o : BookedApart(o)' = BookedApart(o) /\ Unbooked(o)' = Unbooked(o)
  BY <1>1 DEF Sizes, BookedApart, SumSizes, Unbooked
<1>5. \A o \in Ids : Used(o)' = Used(o)
  BY <1>1, <1>3 DEF Used
<1>6. BookedApart(k) = 0
  <2>1. {u \in trades : u.order = k /\ u.id[1] # "fill"} = {}
    BY <1>3 DEF BooksInv, TradeFits
  <2>2. SumSizes({}) = 0
    BY SumEmpty DEF SumSizes
  <2> QED BY <2>1, <2>2 DEF BookedApart
<1>7. SumFunctionOnSet(Sizes(tape), Unbooked(k)) = 0
  <2>1. Unbooked(k) = {}
    BY <1>3 DEF Unbooked, BooksInv
  <2> QED BY <2>1, SumEmpty
<1>8. SumFunctionOnSet(Sizes(tape), Used(k)') = 0
  <2>1. orders'[k].from = Len(tape') /\ Len(tape') \in Nat
    BY <1>0, <1>1, <1>2, <1>3
  <2>2. orders'[k].from + 1 .. Len(tape') = {}
    BY <2>1
  <2>3. Used(k)' = {}
    BY <2>2 DEF Used
  <2> QED BY <2>3, SumEmpty
<1>9. \A o \in Ids' :
        /\ paper => left'[o] = 0
        /\ BookedApart(o) + SumFunctionOnSet(Sizes(tape), Unbooked(o)) + left'[o] =< orders'[o].size
        /\ paper /\ maker => BookedApart(o) =< SumFunctionOnSet(Sizes(tape), Used(o)')
  <2>1. ASSUME NEW o \in Ids
        PROVE  /\ paper => left'[o] = 0
               /\ BookedApart(o) + SumFunctionOnSet(Sizes(tape), Unbooked(o)) + left'[o]
                    =< orders'[o].size
               /\ paper /\ maker => BookedApart(o) =< SumFunctionOnSet(Sizes(tape), Used(o)')
    BY <1>3, <1>5 DEF TapeInv
  <2>2. /\ paper => left'[k] = 0
        /\ BookedApart(k) + SumFunctionOnSet(Sizes(tape), Unbooked(k)) + left'[k] =< orders'[k].size
        /\ BookedApart(k) =< SumFunctionOnSet(Sizes(tape), Used(k)')
    BY <1>0, <1>2, <1>3, <1>6, <1>7, <1>8
  <2>3. ASSUME NEW o \in Ids', o \notin Ids
        PROVE  o = k
    BY <1>3, <2>3
  <2> QED BY <2>1, <2>2, <2>3
<1>10. \A t \in trades : t.id[1] \in {"clob", "maker"} => t.id[3] \in 1 .. Len(tape)
  BY DEF TapeInv
<1> QED BY <1>1, <1>4, <1>9, <1>10 DEF TapeInv

LEMMA TapeStep ==
  ASSUME TypeInv, LoopInv, BooksInv, TapeInv, [Next]_vars
  PROVE  TapeInv'
<1>0. \A o \in Ids : left[o] \in Nat
  BY OrderFields
<1>1. CASE FillAction
  <2>1. PICK t : /\ Fills(t)
                 /\ \/ WholeFill(t) \/ Sale(t)
                    \/ \E i \in 1 .. Len(tape) : PrintFill(t, i) \/ MatchFill(t, i)
    BY <1>1, FillKinds
  <2>2. CASE UNCHANGED tables
    <3>1. UNCHANGED world /\ orders' = orders
      BY <2>1 DEF Fills
    <3>2. UNCHANGED <<paper, maker, orders, tape, trades, left>>
      BY <2>2, <3>1 DEF tables, world
    <3> QED BY <1>0, <3>2, TapeQuiet
  <2>3. CASE ~UNCHANGED tables
    BY <2>1, <2>3, TapeFill
  <2> QED BY <2>2, <2>3
<1>2. CASE EntryAction
  <2>1. CASE PersistEntry
    <3>1. UNCHANGED <<paper, maker, orders, tape, trades, left>>
      BY <2>1 DEF PersistEntry, world
    <3> QED BY <1>0, <3>1, TapeQuiet
  <2>2. ASSUME NEW m \in Markets, NEW n \in 1 .. FixedSize, Submit(m, n)
        PROVE  TapeInv'
    BY <2>2, TapeEnters
  <2> QED BY <1>2, <2>1, <2>2 DEF EntryAction, PlaceEntry, PlaceEntryLost
<1>3. CASE TapeAction
  BY <1>3, TapeGrows
<1>4. CASE RowAction \/ MemoryAction \/ UNCHANGED vars
  <2>1. UNCHANGED <<paper, maker, orders, tape, trades>>
    <3>1. UNCHANGED <<orders, tape, trades>>
      BY <1>4, MemoryFrame DEF RowAction, ReconcileOpenOrders, CancelExpired, world, vars
    <3>2. UNCHANGED <<paper, maker>>
      BY ModeKept DEF vars
    <3> QED BY <3>1, <3>2
  <2>2. \A o \in Ids : left'[o] \in Nat /\ left'[o] =< left[o]
    <3>1. CASE UNCHANGED left
      BY <1>0, <3>1
    <3>2. ASSUME NEW o \in Ids, left' = [left EXCEPT ![o] = 0]
          PROVE  \A q \in Ids : left'[q] \in Nat /\ left'[q] =< left[q]
      BY <1>0, <3>2 DEF TypeInv, Ids
    <3>3. ASSUME NEW m \in Markets, Advance(m)
          PROVE  \A q \in Ids : left'[q] \in Nat /\ left'[q] =< left[q]
      BY <1>0, <3>3 DEF Advance, Ids
    <3>4. \/ UNCHANGED left
          \/ \E o \in Ids : left' = [left EXCEPT ![o] = 0]
          \/ \E m \in Markets : Advance(m)
      BY <1>4 DEF RowAction, ReconcileOpenOrders, CancelExpired, world, vars, MemoryAction,
                  NewDay, HaltChanges, Scans, StartScan, Proceed, BotReads, ScriptReads,
                  PersistFails, EagerFillFails, Crash, ReconcileFails, EntryBlocked,
                  CancelExpiredLost, SkipRow
    <3> QED BY <3>1, <3>2, <3>3, <3>4
  <2> QED BY <2>1, <2>2, TapeQuiet
<1> QED BY <1>1, <1>2, <1>3, <1>4, NextIs

-----------------------------------------------------------------------------
(* Positions against trades.                                               *)

Traded(m, side) == {t \in trades : t.market = m /\ t.side = side}

LEMMA TradedIs == \A m : Bought(m) = SumSizes(Traded(m, "BUY")) /\ Sales(m) = Traded(m, "SELL")
BY DEF Bought, Sales, Traded

LEMMA SumOne ==
  ASSUME NEW q \in Seq(PositionType), NEW p \in 1 .. Len(q)
  PROVE  SumFunctionOnSet(Sizes(q), {p}) = q[p].size
<1> DEFINE f == Sizes(q)
<1>1. q[p] \in PositionType /\ f[p] = q[p].size
  BY DEF Sizes
<1>2. f[p] \in Nat
  BY <1>1 DEF PositionType
<1> HIDE DEF f
<1>3. IsFiniteSet({p})
  BY FS_Singleton
<1>4. SumFunctionOnSet(f, {p}) = f[p] + SumFunctionOnSet(f, {p} \ {p})
  <2>1. \A x \in {p} : f[x] \in Int
    BY <1>2
  <2> QED BY <1>3, <2>1, SumRemove
<1>5. SumFunctionOnSet(f, {p}) = f[p]
  <2>1. {p} \ {p} = {}
    OBVIOUS
  <2>2. SumFunctionOnSet(f, {p} \ {p}) = 0
    BY <2>1, SumEmpty
  <2> QED BY <1>2, <1>4, <2>2
<1> QED BY <1>1, <1>5 DEF f

LEMMA ShownOne ==
  ASSUME TypeInv, BooksInv, NEW m
  PROVE  /\ OpenAt(m) = {} => Shown(m) = 0
         /\ \A p \in OpenAt(m) : Shown(m) = positions[p].size
         /\ Shown(m) \in Nat
<1>1. CASE OpenAt(m) = {}
  BY <1>1, SumEmpty DEF Shown
<1>2. ASSUME NEW p \in OpenAt(m)
      PROVE  Shown(m) = positions[p].size /\ Shown(m) \in Nat
  <2>1. OpenAt(m) = {p} /\ p \in 1 .. Len(positions) /\ positions \in Seq(PositionType)
    BY OpenRowIsOne DEF OpenAt, TypeInv
  <2>2. SumFunctionOnSet(Sizes(positions), {p}) = positions[p].size
    BY <2>1, SumOne
  <2> QED BY <2>1, <2>2, PositionFields DEF Shown
<1> QED BY <1>1, <1>2

\* What a new trade adds to what was bought or sold.
LEMMA TradedAfter ==
  ASSUME TypeInv, BooksInv, NEW t, Fills(t), ~UNCHANGED tables, NEW m, NEW side
  PROVE  /\ SumSizes(Traded(m, side)) \in Nat
         /\ SumSizes(Traded(m, side)')
              = SumSizes(Traded(m, side))
                  + (IF t.market = m /\ t.side = side THEN t.size ELSE 0)
<1>1. /\ \A u \in trades : u.id # t.id
      /\ trades' = trades \cup {t} /\ t.size \in Nat
  BY FillBooks DEF Fills, TradeFits
<1> DEFINE S == Traded(m, side)
<1>2. S \in SUBSET trades /\ t \notin S
  BY <1>1 DEF Traded
<1>3. IsFiniteSet(S) /\ SumSizes(S) \in Nat /\ \A u \in S \cup {t} : u.size \in Nat
  BY <1>1, <1>2, SizesSum DEF BooksInv, TradeFits
<1>4. Traded(m, side)' = IF t.market = m /\ t.side = side THEN S \cup {t} ELSE S
  BY <1>1 DEF Traded
<1> HIDE DEF S
<1>5. SumSizes(S \cup {t}) = SumSizes(S) + t.size
  BY <1>2, <1>3, SizesAdd
<1>6. CASE t.market = m /\ t.side = side
  BY <1>3, <1>4, <1>5, <1>6 DEF S
<1>7. CASE ~(t.market = m /\ t.side = side)
  BY <1>3, <1>4, <1>7 DEF S
<1> QED BY <1>6, <1>7

\* What it adds to what the rows show; a sale takes no more than is shown.
LEMMA ShownAfter ==
  ASSUME TypeInv, BooksInv, NEW t, Fills(t), ~UNCHANGED tables,
         TypeInv', BooksInv', NEW m
  PROVE  Shown(m)' = IF m # t.market THEN Shown(m)
                     ELSE IF t.side = "BUY" THEN Shown(m) + t.size
                     ELSE IF t.size < Shown(m) THEN Shown(m) - t.size ELSE 0
<1>0. /\ positions \in Seq(PositionType) /\ Len(positions) \in Nat
      /\ positions' \in Seq(PositionType)
      /\ TradeFits(t) /\ t.size \in Nat /\ positions' = Applied(t)
  BY DEF TypeInv, Fills, TradeFits, OnFill
<1>1. ASSUME NEW p \in 1 .. Len(positions'), OpenAt(m)' = {p}
      PROVE  Shown(m)' = positions'[p].size
  <2>1. SumFunctionOnSet(Sizes(positions'), {p}) = positions'[p].size
    BY <1>0, SumOne
  <2>2. Shown(m)' = SumFunctionOnSet(Sizes(positions'), OpenAt(m)')
    BY DEF Shown, Sizes
  <2> QED BY <1>1, <2>1, <2>2
<1>2. OpenAt(m)' = {} => Shown(m)' = 0
  <2>1. Shown(m)' = SumFunctionOnSet(Sizes(positions'), OpenAt(m)')
    BY DEF Shown, Sizes
  <2> QED BY <2>1, SumEmpty
<1>3. ASSUME NEW p \in OpenAt(t.market),
             Applied(t) = [positions EXCEPT ![p] =
                             IF t.side = "BUY" THEN ToppedUp(@, t) ELSE SoldDown(@, t)]
      PROVE  Shown(m)' = IF m # t.market THEN Shown(m)
                     ELSE IF t.side = "BUY" THEN Shown(m) + t.size
                     ELSE IF t.size < Shown(m) THEN Shown(m) - t.size ELSE 0
  <2>1. p \in 1 .. Len(positions) /\ positions[p].status = "OPEN"
        /\ positions[p].market = t.market /\ OpenAt(t.market) = {p}
    BY OpenRowIsOne DEF OpenAt
  <2> DEFINE new == IF t.side = "BUY" THEN ToppedUp(positions[p], t)
                    ELSE SoldDown(positions[p], t)
  <2>2. Shown(t.market) = positions[p].size /\ positions[p].size \in Nat
    BY <2>1, ShownOne, PositionFields
  <2>3. t.side \in {"BUY", "SELL"}
    BY <1>0 DEF TradeFits
  <2>4. /\ new.market = t.market
        /\ t.side = "BUY" => new.status = "OPEN" /\ new.size = positions[p].size + t.size
        /\ t.side = "SELL" =>
             IF t.size < positions[p].size
             THEN new.status = "OPEN" /\ new.size = positions[p].size - t.size
             ELSE new.status = "CLOSED"
    <3>1. CASE t.side = "BUY"
      BY <1>0, <2>1, <3>1, RowAfter
    <3>2. CASE t.side = "SELL"
      BY <1>0, <2>1, <2>2, <3>2, RowAfter
    <3> QED BY <2>3, <3>1, <3>2
  <2>5. positions' = [positions EXCEPT ![p] = new]
    BY <1>0, <1>3, <2>1
  <2> HIDE DEF new
  <2>6. /\ Len(positions') = Len(positions)
        /\ \A q \in 1 .. Len(positions) : positions'[q] = IF q = p THEN new ELSE positions[q]
    BY <1>0, <2>1, <2>5
  <2>7. CASE m # t.market
    <3>1. OpenAt(m)' = OpenAt(m)
      BY <2>1, <2>4, <2>6, <2>7 DEF OpenAt
    <3>2. \A q \in OpenAt(m) : positions'[q] = positions[q] /\ q \in 1 .. Len(positions')
      BY <2>1, <2>6, <2>7 DEF OpenAt
    <3>3. CASE OpenAt(m) = {}
      BY <1>2, <2>7, <3>1, <3>3, ShownOne
    <3>4. ASSUME NEW q \in OpenAt(m)
          PROVE  Shown(m)' = Shown(m)
      <4>1. OpenAt(m)' = {q}
        BY <3>1, OpenRowIsOne
      <4> QED BY <1>1, <3>2, <4>1, ShownOne
    <3> QED BY <2>7, <3>3, <3>4
  <2>8. CASE m = t.market /\ t.side = "BUY"
    <3>1. OpenAt(m)' = {p} /\ p \in 1 .. Len(positions')
      <4>1. OpenAt(m)' \subseteq {p}
        BY <2>1, <2>4, <2>6, <2>8 DEF OpenAt
      <4>2. p \in OpenAt(m)' /\ p \in 1 .. Len(positions')
        BY <2>1, <2>4, <2>6, <2>8 DEF OpenAt
      <4> QED BY <4>1, <4>2
    <3>2. Shown(m)' = positions[p].size + t.size
      BY <1>1, <2>1, <2>4, <2>6, <2>8, <3>1
    <3> QED BY <2>1, <2>8, <3>2, ShownOne
  <2>9. CASE m = t.market /\ t.side = "SELL" /\ ~(t.size < positions[p].size)
    <3>1. OpenAt(m)' = {}
      BY <2>1, <2>4, <2>6, <2>9 DEF OpenAt
    <3> QED BY <1>0, <1>2, <2>2, <2>9, <3>1
  <2>10. CASE m = t.market /\ t.side = "SELL" /\ t.size < positions[p].size
    <3>1. OpenAt(m)' = {p} /\ p \in 1 .. Len(positions')
      <4>1. OpenAt(m)' \subseteq {p}
        BY <2>1, <2>4, <2>6, <2>10 DEF OpenAt
      <4>2. p \in OpenAt(m)' /\ p \in 1 .. Len(positions')
        BY <2>1, <2>4, <2>6, <2>10 DEF OpenAt
      <4> QED BY <4>1, <4>2
    <3>2. Shown(m)' = positions[p].size - t.size
      BY <1>1, <2>1, <2>4, <2>6, <2>10, <3>1
    <3> QED BY <2>2, <2>10, <3>2
  <2> QED BY <2>3, <2>7, <2>8, <2>9, <2>10
<1>4. ASSUME OpenAt(t.market) = {}, t.side = "BUY",
             Applied(t) = Append(positions, [market |-> t.market, size |-> t.size,
                                   status |-> "OPEN", buys |-> {t.order}])
      PROVE  Shown(m)' = IF m # t.market THEN Shown(m)
                     ELSE IF t.side = "BUY" THEN Shown(m) + t.size
                     ELSE IF t.size < Shown(m) THEN Shown(m) - t.size ELSE 0
  <2> DEFINE new == [market |-> t.market, size |-> t.size, status |-> "OPEN",
                     buys |-> {t.order}]
  <2>1. /\ new \in PositionType /\ new.market = t.market /\ new.size = t.size
        /\ new.status = "OPEN"
    BY <1>0, <1>4 DEF TradeFits, PositionType, Ids
  <2>2. positions' = Append(positions, new)
    BY <1>0, <1>4
  <2> HIDE DEF new
  <2>k. PICK k \in Nat : k = Len(positions) + 1
    BY <1>0
  <2>3. /\ Len(positions') = k /\ positions'[k] = new
        /\ \A q \in 1 .. Len(positions) : positions'[q] = positions[q]
    BY <1>0, <2>1, <2>2, <2>k
  <2>4. CASE m # t.market
    <3>1. OpenAt(m)' = OpenAt(m)
      BY <1>0, <2>1, <2>3, <2>4, <2>k DEF OpenAt
    <3>2. \A q \in OpenAt(m) : positions'[q] = positions[q] /\ q \in 1 .. Len(positions')
      BY <1>0, <2>3, <2>k DEF OpenAt
    <3>3. CASE OpenAt(m) = {}
      BY <1>2, <2>4, <3>1, <3>3, ShownOne
    <3>4. ASSUME NEW q \in OpenAt(m)
          PROVE  Shown(m)' = Shown(m)
      <4>1. OpenAt(m)' = {q}
        BY <3>1, OpenRowIsOne
      <4> QED BY <1>1, <3>2, <4>1, ShownOne
    <3> QED BY <2>4, <3>3, <3>4
  <2>5. CASE m = t.market
    <3>1. \A q \in OpenAt(m)' : q = k
      <4>1. \A q \in 1 .. Len(positions) : positions'[q].market = m =>
              positions'[q].status # "OPEN"
        BY <1>4, <2>3, <2>5 DEF OpenAt
      <4> QED BY <1>0, <2>3, <2>k, <4>1 DEF OpenAt
    <3>2. k \in OpenAt(m)' /\ k \in 1 .. Len(positions')
      BY <1>0, <2>1, <2>3, <2>5, <2>k DEF OpenAt
    <3>3. Shown(m)' = t.size
      BY <1>1, <2>1, <2>3, <3>1, <3>2
    <3>4. Shown(m) = 0
      BY <1>4, <2>5, ShownOne
    <3> QED BY <1>0, <1>4, <2>5, <3>3, <3>4
  <2> QED BY <2>4, <2>5
<1>5. CASE OpenAt(t.market) = {} /\ t.side # "BUY" /\ Applied(t) = positions
  <2>1. Shown(m)' = Shown(m)
    BY <1>0, <1>5 DEF Shown, Sizes, OpenAt
  <2>2. m = t.market => Shown(m) = 0
    BY <1>5, ShownOne
  <2> QED BY <1>0, <1>5, <2>1, <2>2
<1> QED BY <1>0, <1>3, <1>4, <1>5, FillRows

\* A row stays open, and is not sold down, by a fill that is no sale of its market.
LEMMA RowStays ==
  ASSUME TypeInv, BooksInv, NEW t, Fills(t), ~UNCHANGED tables, NEW q \in AllOpen,
         ~(t.side = "SELL" /\ t.market = positions[q].market)
  PROVE  q \in AllOpen' /\ positions[q].size =< positions'[q].size
<1>0. /\ positions \in Seq(PositionType) /\ Len(positions) \in Nat
      /\ TradeFits(t) /\ t.size \in Nat /\ positions' = Applied(t)
      /\ q \in 1 .. Len(positions) /\ positions[q].status = "OPEN"
      /\ positions[q].size \in Nat
  BY PositionFields DEF TypeInv, Fills, TradeFits, OnFill, AllOpen
<1>1. ASSUME NEW p \in OpenAt(t.market),
             Applied(t) = [positions EXCEPT ![p] =
                             IF t.side = "BUY" THEN ToppedUp(@, t) ELSE SoldDown(@, t)]
      PROVE  q \in AllOpen' /\ positions[q].size =< positions'[q].size
  <2>1. p \in 1 .. Len(positions) /\ positions[p].market = t.market
    BY DEF OpenAt
  <2> DEFINE new == IF t.side = "BUY" THEN ToppedUp(positions[p], t)
                    ELSE SoldDown(positions[p], t)
  <2>2. positions' = [positions EXCEPT ![p] = new]
    BY <1>0, <1>1, <2>1
  <2>3. t.side = "BUY" => new.status = positions[p].status
                          /\ new.size = positions[p].size + t.size
    BY <1>0, <2>1, RowAfter
  <2> HIDE DEF new
  <2>4. /\ Len(positions') = Len(positions)
        /\ positions'[q] = IF q = p THEN new ELSE positions[q]
    BY <1>0, <2>1, <2>2
  <2>5. q = p => t.side = "BUY"
    BY <1>0, <2>1 DEF TradeFits
  <2>6. CASE q = p
    <3>1. positions'[q].size = positions[q].size + t.size /\ positions'[q].status = "OPEN"
      BY <1>0, <2>3, <2>4, <2>5, <2>6
    <3> QED BY <1>0, <2>4, <3>1 DEF AllOpen
  <2>7. CASE q # p
    BY <1>0, <2>4, <2>7 DEF AllOpen
  <2> QED BY <2>6, <2>7
<1>2. ASSUME Applied(t) = Append(positions, [market |-> t.market, size |-> t.size,
                                   status |-> "OPEN", buys |-> {t.order}])
      PROVE  q \in AllOpen' /\ positions[q].size =< positions'[q].size
  <2> DEFINE new == [market |-> t.market, size |-> t.size, status |-> "OPEN",
                     buys |-> {t.order}]
  <2>1. positions' = Append(positions, new)
    BY <1>0, <1>2
  <2> HIDE DEF new
  <2>2. Len(positions') = Len(positions) + 1 /\ positions'[q] = positions[q]
    BY <1>0, <2>1
  <2> QED BY <1>0, <2>2 DEF AllOpen
<1>3. CASE Applied(t) = positions
  BY <1>0, <1>3 DEF AllOpen
<1> QED BY <1>0, <1>1, <1>2, <1>3, FillRows

LEMMA OversoldStays == trades \subseteq trades' => \A m : Oversold(m) => Oversold(m)'
BY DEF Oversold, Sales

\* A fill keeps the match, when a sale beyond what is shown oversells its market.
LEMMA HeldFill ==
  ASSUME TypeInv, BooksInv, PositionsMatchTrades, NEW t, Fills(t), ~UNCHANGED tables,
         t.side = "SELL" => t.size =< Shown(t.market) \/ Oversold(t.market)',
         TypeInv', BooksInv'
  PROVE  PositionsMatchTrades'
<1>0. t.side \in {"BUY", "SELL"} /\ t.size \in Nat /\ trades \subseteq trades'
  BY FillBooks DEF Fills, TradeFits
<1>1. ASSUME NEW m \in Markets
      PROVE  /\ Shown(m)' + SumSizes(Traded(m, "SELL")') >= SumSizes(Traded(m, "BUY")')
             /\ \/ Oversold(m)'
                \/ Shown(m)' + SumSizes(Traded(m, "SELL")') = SumSizes(Traded(m, "BUY")')
  <2> DEFINE b == SumSizes(Traded(m, "BUY"))
             c == SumSizes(Traded(m, "SELL"))
             h == Shown(m)
  <2>1. /\ b \in Nat /\ c \in Nat
        /\ SumSizes(Traded(m, "BUY")')
             = b + (IF t.market = m /\ t.side = "BUY" THEN t.size ELSE 0)
        /\ SumSizes(Traded(m, "SELL")')
             = c + (IF t.market = m /\ t.side = "SELL" THEN t.size ELSE 0)
    BY TradedAfter
  <2>2. Shown(m)' = IF m # t.market THEN h
                    ELSE IF t.side = "BUY" THEN h + t.size
                    ELSE IF t.size < h THEN h - t.size ELSE 0
    BY ShownAfter
  <2>3. /\ h \in Nat /\ h + c >= b
        /\ Oversold(m) \/ h + c = b
    BY ShownOne, TradedIs DEF PositionsMatchTrades
  <2>4. /\ Oversold(m) => Oversold(m)'
        /\ m = t.market /\ t.side = "SELL" => t.size =< h \/ Oversold(m)'
    BY <1>0, OversoldStays DEF Oversold, Sales
  <2> HIDE DEF b, c, h
  <2>5. CASE m # t.market
    BY <2>1, <2>2, <2>3, <2>4, <2>5
  <2>6. CASE m = t.market /\ t.side = "BUY"
    BY <1>0, <2>1, <2>2, <2>3, <2>4, <2>6
  <2>7. CASE m = t.market /\ t.side = "SELL"
    <3>1. SumSizes(Traded(m, "BUY")') = b /\ SumSizes(Traded(m, "SELL")') = c + t.size
      BY <2>1, <2>7
    <3>2. Shown(m)' = IF t.size < h THEN h - t.size ELSE 0
      BY <2>2, <2>7
    <3>3. CASE t.size < h
      BY <1>0, <2>1, <2>3, <2>4, <3>1, <3>2, <3>3
    <3>4. CASE ~(t.size < h)
      BY <1>0, <2>1, <2>3, <2>4, <2>7, <3>1, <3>2, <3>4
    <3> QED BY <3>3, <3>4
  <2> QED BY <1>0, <2>5, <2>6, <2>7
<1>2. ASSUME NEW m \in Markets
      PROVE  /\ Shown(m)' + SumSizes(Sales(m))' >= Bought(m)'
             /\ Oversold(m)' \/ Shown(m)' + SumSizes(Sales(m))' = Bought(m)'
  <2>1. /\ SumSizes(Sales(m))' = SumSizes(Traded(m, "SELL")')
        /\ Bought(m)' = SumSizes(Traded(m, "BUY")')
    BY DEF Sales, Bought, Traded, SumSizes
  <2> QED BY <1>1, <2>1
<1> QED BY <1>2 DEF PositionsMatchTrades

\* What a row read for settlement says.
ReadHolds(r) ==
  /\ r.pos \in 1 .. Len(positions) /\ positions[r.pos].market = r.market
  /\ \/ Sales(r.market) # {}
     \/ r.pos \in AllOpen /\ r.size =< positions[r.pos].size

LEMMA ReadKept ==
  ASSUME TypeInv, BooksInv, NEW t, Fills(t), NEW r \in ReadType, ReadHolds(r)
  PROVE  ReadHolds(r)'
<1>1. CASE UNCHANGED tables
  BY <1>1 DEF ReadHolds, Sales, AllOpen, tables
<1>2. CASE ~UNCHANGED tables
  <2>1. trades' = trades \cup {t}
    BY <1>2, FillBooks
  <2>2. /\ Len(positions) =< Len(positions')
        /\ \A q \in 1 .. Len(positions) : positions'[q].market = positions[q].market
    BY FillPositions DEF RowsAfter
  <2>3. /\ Len(positions) \in Nat /\ Len(positions') \in Nat /\ r.size \in Nat
        /\ positions' \in Seq(PositionType) /\ positions[r.pos].size \in Nat
    BY FillTypes, PositionFields DEF TypeInv, Fills, ReadType, ReadHolds
  <2>4. r.pos \in 1 .. Len(positions') /\ positions'[r.pos].market = r.market
    BY <2>2, <2>3 DEF ReadHolds
  <2>5. positions'[r.pos].size \in Nat
    <3>1. positions'[r.pos] \in PositionType
      BY <2>3, <2>4
    <3> QED BY <3>1 DEF PositionType
  <2>6. CASE Sales(r.market) # {} \/ (t.side = "SELL" /\ t.market = r.market)
    BY <2>1, <2>4, <2>6 DEF ReadHolds, Sales
  <2>7. CASE ~(Sales(r.market) # {} \/ (t.side = "SELL" /\ t.market = r.market))
    <3>1. /\ r.pos \in AllOpen /\ r.size =< positions[r.pos].size
          /\ positions[r.pos].market = r.market
      BY <2>7 DEF ReadHolds
    <3>2. r.pos \in AllOpen' /\ positions[r.pos].size =< positions'[r.pos].size
      BY <1>2, <2>7, <3>1, RowStays
    <3> QED BY <2>3, <2>4, <2>5, <3>1, <3>2 DEF ReadHolds
  <2> QED BY <2>6, <2>7
<1> QED BY <1>1, <1>2

\* A sale is of what its row shows, or it settles a row read before another sale.
LEMMA SaleFits ==
  ASSUME TypeInv, LoopInv, BooksInv, HeldInv, FillAction
  PROVE  \E t : Fills(t) /\ (t.side = "SELL" /\ ~UNCHANGED tables =>
                               t.size =< Shown(t.market) \/ Oversold(t.market)')
<1>1. CASE EagerFill \/ \E o \in Ids : SimulateFill(o)
  <2>1. PICK o, id, n : Fills(BuyOf(o, id, n))
    BY <1>1, EagerFills1, SimulateFills
  <2> QED BY <2>1 DEF BuyOf
<1>2. ASSUME NEW i \in 1 .. Len(tape), BookLiveFill(i) \/ \E o \in Ids : MakerFill(o, i)
      PROVE  \E t : Fills(t) /\ t.side = "BUY"
  <2>1. PICK o, id, n : Fills(BuyOf(o, id, n))
    BY <1>2, LiveFills, MakerFills
  <2> QED BY <2>1 DEF BuyOf
<1>3. ASSUME NEW p \in AllOpen, TakeProfit(p)
      PROVE  \E t : Fills(t) /\ t.size =< Shown(t.market)
  <2> DEFINE t == SellOf(positions[p].market, <<"profit", p, 0>>, positions[p].size)
  <2>1. Fills(t) /\ t.market = positions[p].market /\ t.size = positions[p].size
    BY <1>3, ProfitFills DEF SellOf
  <2>2. p \in OpenAt(t.market) /\ positions[p].size \in Nat
    BY PositionFields DEF AllOpen, OpenAt, SellOf
  <2> HIDE DEF t
  <2>3. Shown(t.market) = t.size
    BY <2>1, <2>2, ShownOne
  <2> QED BY <2>1, <2>2, <2>3
<1>4. ASSUME NEW a \in Actors, NEW r \in settling[a], Settle(a, r)
      PROVE  \E t : Fills(t) /\ (~UNCHANGED tables =>
                                   t.size =< Shown(t.market) \/ Oversold(t.market)')
  <2> DEFINE t == SellOf(r.market, <<"resolve", r.pos, 0>>, r.size)
  <2>1. /\ Fills(t) /\ t.market = r.market /\ t.size = r.size /\ t.side = "SELL"
        /\ t.id[1] = "resolve"
    BY <1>4, SettleFills DEF SellOf
  <2>2. ReadHolds(r)
    BY DEF HeldInv, ReadHolds
  <2> HIDE DEF t
  <2>3. CASE r.pos \in AllOpen /\ r.size =< positions[r.pos].size
    <3>1. r.pos \in OpenAt(t.market)
      BY <2>1, <2>2, <2>3 DEF ReadHolds, AllOpen, OpenAt
    <3>2. Shown(t.market) = positions[r.pos].size
      BY <3>1, ShownOne
    <3> QED BY <2>1, <2>3, <3>2
  <2>4. CASE Sales(r.market) # {} /\ ~UNCHANGED tables
    <3>1. trades' = trades \cup {t} /\ \A u \in trades : u.id # t.id
      BY <2>1, <2>4, FillBooks
    <3>2. PICK u \in Sales(r.market) : TRUE
      BY <2>4
    <3>3. u \in trades /\ u.market = t.market /\ u.side = "SELL" /\ u # t
      BY <2>1, <3>1, <3>2 DEF Sales
    <3> PICK m : m = t.market
      OBVIOUS
    <3>4. t \in Sales(m)' /\ u \in Sales(m)'
      BY <2>1, <3>1, <3>3 DEF Sales
    <3>5. Oversold(m)'
      BY <2>1, <3>3, <3>4 DEF Oversold
    <3> QED BY <2>1, <3>5 DEF Oversold, Sales
  <2> QED BY <2>1, <2>2, <2>3, <2>4 DEF ReadHolds
<1> QED BY <1>1, <1>2, <1>3, <1>4 DEF FillAction

LEMMA HeldStep ==
  ASSUME TypeInv, LoopInv, BooksInv, HeldInv, [Next]_vars,
         TypeInv', BooksInv'
  PROVE  HeldInv'
<1>0. /\ settling \in [Actors -> SUBSET ReadType] /\ PositionsMatchTrades
      /\ \A a \in Actors : \A r \in settling[a] : ReadHolds(r)
  BY DEF TypeInv, HeldInv, ReadHolds
<1>s. SUFFICES /\ PositionsMatchTrades'
               /\ \A a \in Actors : \A r \in settling'[a] : ReadHolds(r)'
  BY DEF HeldInv, ReadHolds
<1>1. CASE FillAction
  <2>1. PICK t : Fills(t) /\ (t.side = "SELL" /\ ~UNCHANGED tables =>
                                 t.size =< Shown(t.market) \/ Oversold(t.market)')
    BY <1>1, SaleFits
  <2>2. ASSUME UNCHANGED tables PROVE PositionsMatchTrades'
    BY <1>0, <2>2 DEF PositionsMatchTrades, Shown, Sales, Bought, Oversold, SumSizes, Sizes,
                      OpenAt, tables
  <2>3. ASSUME ~UNCHANGED tables PROVE PositionsMatchTrades'
    BY <1>0, <2>1, <2>3, HeldFill
  <2>4. \A a \in Actors : settling'[a] \subseteq settling[a]
    BY <1>0, <1>1 DEF FillAction, EagerFill, SimulateFill, MakerFill, BookLiveFill,
                      TakeProfit, Settle
  <2>5. \A r \in ReadType : ReadHolds(r) => ReadHolds(r)'
    BY <2>1, ReadKept
  <2> QED BY <1>0, <2>2, <2>3, <2>4, <2>5
<1>2. CASE ~FillAction
  <2>1. UNCHANGED <<trades, positions>>
    <3>1. EntryAction => UNCHANGED <<trades, positions>>
      BY DEF EntryAction, PersistEntry, PlaceEntry, PlaceEntryLost, Submit
    <3>2. RowAction \/ TapeAction \/ MemoryAction => UNCHANGED <<trades, positions>>
      BY MemoryFrame DEF RowAction, ReconcileOpenOrders, CancelExpired, TapeAction, Match,
             Printed, tables
    <3> QED BY <1>2, <3>1, <3>2, NextIs DEF vars
  <2>2. PositionsMatchTrades' /\ \A r : ReadHolds(r) => ReadHolds(r)'
    BY <1>0, <2>1 DEF PositionsMatchTrades, Shown, Sales, Bought, Oversold, SumSizes, Sizes,
                      OpenAt, ReadHolds, AllOpen
  <2>3. ASSUME NEW a \in Actors, NEW r \in settling'[a]
        PROVE  r \in settling[a] \/ ReadHolds(r)
    <3>1. CASE BotReads \/ ScriptReads
      <4>1. \/ r \in settling[a]
            \/ \E p \in AllOpen : r = [pos |-> p, market |-> positions[p].market,
                                      size |-> positions[p].size]
        BY <1>0, <2>3, <3>1 DEF BotReads, ScriptReads, ReadOpenRows, Actors
      <4>2. ASSUME NEW p \in AllOpen
            PROVE  ReadHolds([pos |-> p, market |-> positions[p].market,
                              size |-> positions[p].size])
        BY PositionFields DEF ReadHolds, AllOpen
      <4> QED BY <4>1, <4>2
    <3>2. CASE ~(BotReads \/ ScriptReads)
      <4>1. EntryAction \/ RowAction \/ TapeAction => UNCHANGED settling
        BY DEF EntryAction, PersistEntry, PlaceEntry, PlaceEntryLost, Submit, RowAction,
               ReconcileOpenOrders, CancelExpired, TapeAction, Match, Printed
      <4>2. \/ UNCHANGED settling
            \/ \E b \in Actors : \E u \in settling[b] :
                 settling' = [settling EXCEPT ![b] = @ \ {u}]
            \/ settling' = [settling EXCEPT !["bot"] = {}]
        BY <1>2, <3>2, <4>1, NextIs DEF MemoryAction, Crash, SkipRow, NewDay, HaltChanges,
           Scans, StartScan, Proceed, PersistFails, EagerFillFails, ReconcileFails, Advance,
           EntryBlocked, CancelExpiredLost, vars
      <4> QED BY <1>0, <2>3, <4>2 DEF Actors
    <3> QED BY <3>1, <3>2
  <2> QED BY <1>0, <2>2, <2>3
<1> QED BY <1>1, <1>2

-----------------------------------------------------------------------------
(* The theorems.                                                           *)

LEMMA InitEmpty ==
  ASSUME Init
  PROVE  /\ Ids = {} /\ AllOpen = {} /\ Len(orders) = 0 /\ Len(tape) = 0
         /\ \A m : OpenAt(m) = {}
         /\ pc = "top" /\ settling["bot"] = {} /\ settling["script"] = {}
<1>1. orders = <<>> /\ tape = <<>> /\ positions = <<>>
      /\ settling = [a \in {"bot", "script"} |-> {}] /\ pc = "top"
  BY DEF Init
<1>2. Len(orders) = 0 /\ Len(tape) = 0 /\ Len(positions) = 0
  BY <1>1
<1>3. Ids = {}
  BY <1>2 DEF Ids
<1>4. AllOpen = {} /\ \A m : OpenAt(m) = {}
  BY <1>2 DEF AllOpen, OpenAt
<1> QED BY <1>1, <1>2, <1>3, <1>4

LEMMA InitBase ==
  ASSUME Init
  PROVE  BaseInv
<1>1. TypeInv
  <2>1. paper \in BOOLEAN /\ maker \in BOOLEAN /\ <<paper, maker>> \in Modes
    <3>1. PICK mode \in Modes : paper = mode[1] /\ maker = mode[2]
      BY DEF Init
    <3>2. PICK a \in BOOLEAN, b \in BOOLEAN : mode = <<a, b>>
      BY LongshotAssumption DEF LongshotAssumption
    <3> QED BY <3>1, <3>2
  <2>2. phase \in [Markets -> 0 .. Resolved] /\ day \in Nat
    BY DEF Init, Resolved
  <2>3. /\ orders \in Seq(OrderType) /\ left \in Seq(Nat) /\ Len(left) = Len(orders)
        /\ row \in Seq(RowStatus) /\ Len(row) = Len(orders) /\ tape \in Seq(TapeType)
        /\ positions \in Seq(PositionType)
    BY DEF Init
  <2>4. pc \in Parts /\ settling \in [Actors -> SUBSET ReadType]
    BY DEF Init, Parts, Actors
  <2>5. scan \in ScanType
    BY DEF Init, NoScan, ScanType, MissedType, Resolved
  <2> QED BY <2>1, <2>2, <2>3, <2>4, <2>5 DEF TypeInv
<1>2. LoopInv
  BY InitEmpty DEF LoopInv
<1>3. BooksInv
  <2>1. IsFiniteSet(trades) /\ (\A t \in trades : TradeFits(t)) /\ positions = <<>>
    BY FS_EmptySet DEF Init
  <2>2. Len(positions) = 0
    BY <2>1
  <2> QED BY <2>1, <2>2, InitEmpty DEF BooksInv
<1>4. CountsInv
  <2>1. \A d : PlacedOn(d) = {}
    BY InitEmpty DEF PlacedOn, Recorded
  <2> QED BY <2>1, InitEmpty DEF CountsInv, DayFits
<1>5. EngagedInv
  BY InitEmpty DEF EngagedInv, EngagedLater, EngagedNext, Engaged
<1> QED BY <1>1, <1>2, <1>3, <1>4, <1>5 DEF BaseInv

\* What the loop's parts assume, what the tables hold, what a scan has counted and
\* missed, and which orders went past their gate: an inductive invariant.
THEOREM LongshotInvariant == Spec => []BaseInv
<1>1. Init => BaseInv
  BY InitBase
<1>2. BaseInv /\ [Next]_vars => BaseInv'
  BY TypeStep, LoopInvStep, BooksStep, CountsStep, EngagedStep DEF BaseInv
<1> QED BY <1>1, <1>2, PTL DEF Spec

\* The recorded orders of a day exceed the daily entry cap and, live, the gross cap
\* at most by what a query that failed did not count: run_loop counts once per scan
\* and adds what it places, whatever restarts, failed commits and midnights fall in
\* between.
THEOREM LongshotDailyCaps == Spec => []RecordedWithinDailyCaps
<1>1. CountsInv => RecordedWithinDailyCaps
  BY DEF CountsInv, DayFits, RecordedWithinDailyCaps, PlacedOn, GrossOn
<1> QED BY <1>1, LongshotInvariant, PTL DEF BaseInv

\* In paper a second order through which the bot is in a market got past a gate
\* whose query had failed, also when the keys of the session are forgotten
\* (_try_enter_market looks up positions and orders).
THEOREM LongshotEntersOnce == Spec => []PaperEntersOnce
<1>1. EngagedInv => PaperEntersOnce
  BY DEF EngagedInv, EngagedLater, PaperEntersOnce
<1> QED BY <1>1, LongshotInvariant, PTL DEF BaseInv

\* Fills against the tape, but for those of Book rows.
THEOREM LongshotTape == Spec => [](BaseInv /\ TapeInv)
<1>1. Init => TapeInv
  <2> SUFFICES ASSUME Init PROVE TapeInv
    OBVIOUS
  <2>1. trades = {}
    BY DEF Init
  <2> QED BY <2>1, InitEmpty DEF TapeInv
<1>2. BaseInv /\ TapeInv /\ [Next]_vars => TapeInv'
  BY TapeStep DEF BaseInv
<1> QED BY <1>1, <1>2, LongshotInvariant, PTL DEF Spec

\* Matches and prints book no order for more shares than it was placed for: not by
\* a print that is larger than what is left (_simulate_maker_paper_fills), not by a
\* match read twice (reconcile_live_fills), not beside the fill of a Book row.
THEOREM LongshotFillsFit == Spec => []FillsFitOrder
<1>1. BaseInv /\ TapeInv => FillsFitOrder
  <2> SUFFICES ASSUME BaseInv, TapeInv, NEW o \in Ids
               PROVE  BookedApart(o) =< orders[o].size
    BY DEF FillsFitOrder
  <2>1. TypeInv /\ BooksInv
    BY DEF BaseInv
  <2>2. /\ BookedApart(o) \in Nat /\ SumFunctionOnSet(Sizes(tape), Unbooked(o)) \in Nat
        /\ left[o] \in Nat /\ orders[o].size \in Nat
    BY <2>1, ApartNat, TapeParts, TapeSums, OrderFields
  <2>3. BookedApart(o) + SumFunctionOnSet(Sizes(tape), Unbooked(o)) + left[o] =< orders[o].size
    BY DEF TapeInv
  <2> QED BY <2>2, <2>3
<1> QED BY <1>1, LongshotTape, PTL

\* But for the fills of Book rows, a paper maker bid is filled by later SELL prints
\* of its market only, and by no more shares than they had
\* (_simulate_maker_paper_fills).
THEOREM LongshotPrints == Spec => []MakerFillsHavePrints
<1>1. BaseInv /\ TapeInv => MakerFillsHavePrints
  <2> SUFFICES ASSUME BaseInv, TapeInv, paper, maker, NEW o \in Ids
               PROVE  BookedApart(o) =< PrintedFor(o)
    BY DEF MakerFillsHavePrints
  <2> DEFINE R == {i \in orders[o].from + 1 .. Len(tape) : tape[i].market = orders[o].market}
             S == Used(o)
             f == Sizes(tape)
  <2>1. TypeInv /\ BooksInv
    BY DEF BaseInv
  <2>2. R \in SUBSET (1 .. Len(tape)) /\ S \in SUBSET R
    <3>1. orders[o].from \in Nat /\ Len(tape) \in Nat
      BY <2>1, OrderFields DEF TypeInv
    <3> QED BY <3>1 DEF Used
  <2> HIDE DEF R, S
  <2>3. /\ IsFiniteSet(R) /\ \A i \in 1 .. Len(tape) : f[i] \in Nat
        /\ SumFunctionOnSet(f, R) \in Nat
    BY <2>1, <2>2, TapeSums
  <2>4. SumFunctionOnSet(f, S) \in Nat
    <3>1. S \in SUBSET (1 .. Len(tape))
      BY <2>2
    <3> QED BY <2>1, <3>1, TapeSums
  <2> HIDE DEF f
  <2>5. SumFunctionOnSet(f, S) =< SumFunctionOnSet(f, R)
    <3>1. \A i \in R : f[i] \in Nat
      BY <2>2, <2>3
    <3> QED BY <2>2, <2>3, <3>1, SumSubset
  <2>6. BookedApart(o) =< SumFunctionOnSet(f, S) /\ BookedApart(o) \in Nat
    BY <2>1, ApartNat DEF TapeInv, S, f
  <2>7. PrintedFor(o) = SumFunctionOnSet(f, R)
    BY DEF PrintedFor, R, f
  <2> QED BY <2>3, <2>4, <2>5, <2>6, <2>7
<1> QED BY <1>1, LongshotTape, PTL

\* The open rows of a market show what was bought and not sold, or more where a
\* settlement follows another sale: no fill, exit or settlement is applied twice
\* (on_fill), beside an operator's script that settles as well.
THEOREM LongshotPositions == Spec => []PositionsMatchTrades
<1>1. Init => HeldInv
  <2> SUFFICES ASSUME Init PROVE HeldInv
    OBVIOUS
  <2>1. trades = {} /\ positions = <<>>
    BY DEF Init
  <2>2. PICK n \in Nat : n = 0
    OBVIOUS
  <2>3. \A m, side : Traded(m, side) = {}
    BY <2>1 DEF Traded
  <2>4. SumSizes({}) = n
    BY <2>2, SumEmpty DEF SumSizes
  <2>5. \A m : Shown(m) = n /\ Bought(m) = n /\ SumSizes(Sales(m)) = n
    BY <2>2, <2>3, <2>4, TradedIs, InitEmpty, SumEmpty DEF Shown
  <2>6. n + n >= n /\ n + n = n
    BY <2>2
  <2>7. PositionsMatchTrades
    BY <2>5, <2>6 DEF PositionsMatchTrades
  <2>8. \A a \in Actors : settling[a] = {}
    BY InitEmpty DEF Actors
  <2> QED BY <2>7, <2>8 DEF HeldInv
<1>2. BaseInv /\ BaseInv' /\ HeldInv /\ [Next]_vars => HeldInv'
  BY HeldStep DEF BaseInv
<1>3. HeldInv => PositionsMatchTrades
  BY DEF HeldInv
<1> QED BY <1>1, <1>2, <1>3, LongshotInvariant, PTL DEF Spec
=============================================================================
