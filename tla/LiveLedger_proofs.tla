-------------------------- MODULE LiveLedger_proofs --------------------------
(***************************************************************************)
(* Proofs about LiveLedger, for every set of orders, every size and every  *)
(* bound: what a crash, a lost answer or the wallet's other bot can do to  *)
(* the ledger.                                                             *)
(*                                                                         *)
(* None of the properties is inductive.  LedgerInv adds what relates the   *)
(* open session to the committed rows (SessionInv, RowsInv), the matches   *)
(* on the tape to the sizes of the orders (FillsInv) and the statuses in   *)
(* the orders table to those matches (StatusInv).  All but the last are    *)
(* BooksInv, which the loops that write statuses of their own keep too.    *)
(***************************************************************************)
EXTENDS LiveLedger, SumLemmas

\* The answer being booked lies ahead of the cursor, the booked trades behind.
CursorInv ==
  /\ \A i \in trades : tape[i].ts =< cursor
  /\ \A i \in fetched : cursor < tape[i].ts

\* A trade of another bot gets into the session only while its order has no
\* row; once the row is there, the session is stale.
SessionInv ==
  /\ todo \cap booking = {}
  /\ \A i \in booking : \/ tape[i].order \in Mine
                        \/ row[tape[i].order] = "absent"
                        \/ stale

\* The trades of S that are BUYs are on one row each, and no others are.
BuysOnRows(S, rows) ==
  /\ \A p \in 1 .. Len(rows) : rows[p].buys \subseteq S
  /\ \A i \in S : IsBuy(i) =>
       \E p \in 1 .. Len(rows) :
         \A q \in 1 .. Len(rows) : i \in rows[q].buys <=> p = q

RowsInv ==
  /\ BuysOnRows(trades, positions)
  /\ pc = "session" => /\ BuysOnRows(trades \cup booking, work)
                       /\ Len(positions) =< Len(work)

\* Fills on the tape and what is left fit in the order; two fills and no more
\* are compared, which is what the next match preserves.
FillsInv ==
  /\ \A i \in Ids : /\ tape[i].order \in accepted
                    /\ tape[i].size + left[tape[i].order] =< SizeOf[tape[i].order]
  /\ \A i, j \in Ids :
       i # j /\ tape[i].order = tape[j].order
         => tape[i].size + tape[j].size + left[tape[i].order]
              =< SizeOf[tape[i].order]

\* No order rests with more than its size; one that was not accepted has left
\* no trace.
OrdersInv ==
  /\ \A o \in Orders : left[o] =< SizeOf[o]
  /\ \A o \in Orders \ accepted : left[o] = 0 /\ row[o] = "absent"
  /\ pc = "placed" => pending \in accepted \cap Mine /\ row[pending] = "absent"

\* A fill of the whole order.
FilledBy(o, S) == \E i \in S : tape[i].order = o /\ tape[i].size = SizeOf[o]

\* What a session will write to the orders table.
MarksInv ==
  \A o \in Orders :
    /\ marks[o] \in {"absent", "PARTIAL", "FILLED"}
    /\ marks[o] = "FILLED" => FilledBy(o, booking)
    /\ marks[o] # "absent" => /\ row[o] # "absent"
                              /\ \E i \in booking : tape[i].order = o

\* What the orders table says.
StatusInv ==
  \A o \in Orders :
    /\ row[o] \in {"CANCELLED", "matched"} => left[o] = 0
    /\ row[o] = "FILLED" => FilledBy(o, trades)

\* What was matched and what is left fit in the order.
FilledInv == \A o \in Orders : left[o] + Filled(o) =< SizeOf[o]

\* All but the statuses, which WeatherLive's reviews write on less evidence.
BooksInv ==
  /\ TypeOK
  /\ CursorInv /\ SessionInv /\ RowsInv
  /\ FillsInv /\ OrdersInv /\ FilledInv /\ MarksInv
  /\ OnlyOwnFillsBooked

LedgerInv == BooksInv /\ StatusInv

-----------------------------------------------------------------------------
(* What the operations do to the tape and to the position rows.            *)

\* A match adds one trade to the tape and changes none that is there.
LEMMA MatchExtendsTape ==
  ASSUME TypeOK, NEW o \in Orders, NEW n \in 1 .. SizeOf[o], Match(o, n)
  PROVE  /\ tape' \in Seq(TradeType)
         /\ Len(tape') = Len(tape) + 1
         /\ \A i \in Ids : i \in Ids' /\ tape'[i] = tape[i]
         /\ \A i \in Ids' : i \in Ids \/ i = Len(tape) + 1
         /\ tape'[Len(tape) + 1] = [order |-> o, size |-> n, ts |-> now]
  <1>1. SizeOf[o] \in Nat /\ n \in Nat \ {0}
    BY LedgerAssumption
  <1>2. [order |-> o, size |-> n, ts |-> now] \in TradeType
    BY <1>1 DEF TypeOK, TradeType
  <1>3. tape \in Seq(TradeType) /\ Len(tape) \in Nat
    BY DEF TypeOK
  <1>4. tape' = Append(tape, [order |-> o, size |-> n, ts |-> now])
    BY DEF Match
  <1> QED
    BY <1>2, <1>3, <1>4 DEF Ids

\* A trade has an order, and its fields their types.
LEMMA TradeFields ==
  ASSUME TypeOK, NEW i \in Ids
  PROVE  /\ tape[i].order \in Orders
         /\ tape[i].size \in Nat \ {0}
         /\ tape[i].ts \in Nat
         /\ TokenOfTrade(i) \in Tokens
  <1>1. tape[i] \in TradeType
    BY DEF TypeOK, Ids
  <1> QED
    BY <1>1, LedgerAssumption DEF TradeType, TokenOfTrade

\* A BUY enters exactly one row of the session, an old one or a new one.
LEMMA BuyEntersOneRow ==
  ASSUME TypeOK, NEW i \in Ids, Len(positions) =< Len(work), ApplyBuy(i)
  PROVE  /\ work' \in Seq(PositionType)
         /\ Len(work) =< Len(work')
         /\ \E p \in 1 .. Len(work') : \A q \in 1 .. Len(work') :
              work'[q].buys = (IF q =< Len(work) THEN work[q].buys ELSE {})
                                \cup (IF q = p THEN {i} ELSE {})
  <1>1. work \in Seq(PositionType) /\ positions \in Seq(PositionType)
    BY DEF TypeOK
  <1>2. tape[i].size \in Nat /\ TokenOfTrade(i) \in Tokens /\ i \in Nat
    BY TradeFields DEF Ids
  <1>3. CASE /\ OpenRows(TokenOfTrade(i)) = {}
             /\ work' = Append(work, [token |-> TokenOfTrade(i),
                                      size |-> tape[i].size, status |-> "OPEN",
                                      buys |-> {i}, sells |-> {}])
    <2> DEFINE new == [token |-> TokenOfTrade(i), size |-> tape[i].size,
                       status |-> "OPEN", buys |-> {i}, sells |-> {}]
    <2>1. new \in PositionType
      BY <1>2 DEF PositionType
    <2>2. new.buys = {i}
      OBVIOUS
    <2>3. work' = Append(work, new)
      BY <1>3
    <2> HIDE DEF new
    <2>4. /\ work' \in Seq(PositionType)
          /\ Len(work') = Len(work) + 1 /\ Len(work) \in Nat
          /\ \A q \in 1 .. Len(work) : work'[q] = work[q]
          /\ work'[Len(work) + 1] = new
      BY <2>1, <2>3, <1>1
    <2>5. Len(work) + 1 \in 1 .. Len(work')
      BY <2>4
    <2>6. \A q \in 1 .. Len(work') :
            work'[q].buys = (IF q =< Len(work) THEN work[q].buys ELSE {})
                              \cup (IF q = Len(work) + 1 THEN {i} ELSE {})
      BY <2>2, <2>4
    <2>7. Len(work) =< Len(work')
      BY <2>4
    <2> QED
      BY <2>4, <2>5, <2>6, <2>7, Zenon
  <1>4. ASSUME NEW p \in OpenRows(TokenOfTrade(i)),
               work' = [work EXCEPT ![p].size = @ + tape[i].size,
                                    ![p].buys = @ \cup {i}]
        PROVE  /\ work' \in Seq(PositionType)
               /\ Len(work') = Len(work)
               /\ \A q \in 1 .. Len(work) :
                    work'[q].buys = work[q].buys \cup (IF q = p THEN {i} ELSE {})
               /\ p \in 1 .. Len(work)
    <2>1. p \in 1 .. Len(work)
      BY <1>1 DEF OpenRows
    <2>2. work[p] \in PositionType
      BY <1>1, <2>1
    <2> DEFINE new == [work[p] EXCEPT !.size = @ + tape[i].size,
                                      !.buys = @ \cup {i}]
    <2>3. new \in PositionType /\ new.buys = work[p].buys \cup {i}
      <3>1. /\ work[p].size + tape[i].size \in Nat
            /\ work[p].buys \cup {i} \in SUBSET Nat
        BY <2>2, <1>2 DEF PositionType
      <3> QED
        BY <2>2, <3>1 DEF PositionType
    <2>4. work' = [work EXCEPT ![p] = new]
      BY <1>4, <1>1, <2>1, <2>2 DEF PositionType
    <2> HIDE DEF new
    <2>5. work' \in Seq(PositionType) /\ Len(work') = Len(work)
      BY <2>1, <2>3, <2>4, <1>1
    <2>6. \A q \in 1 .. Len(work) : work'[q] = IF q = p THEN new ELSE work[q]
      BY <2>1, <2>3, <2>4, <1>1
    <2> QED
      BY <2>1, <2>3, <2>5, <2>6
  <1>5. CASE \E p \in OpenRows(TokenOfTrade(i)) :
               work' = [work EXCEPT ![p].size = @ + tape[i].size,
                                    ![p].buys = @ \cup {i}]
    <2>1. PICK p \in OpenRows(TokenOfTrade(i)) :
               work' = [work EXCEPT ![p].size = @ + tape[i].size,
                                    ![p].buys = @ \cup {i}]
      BY <1>5
    <2>2. /\ work' \in Seq(PositionType)
          /\ Len(work') = Len(work)
          /\ \A q \in 1 .. Len(work) :
               work'[q].buys = work[q].buys \cup (IF q = p THEN {i} ELSE {})
          /\ p \in 1 .. Len(work)
      BY <1>4, <2>1
    <2>3. /\ Len(work) =< Len(work')
          /\ \A q \in 1 .. Len(work') :
               work'[q].buys = (IF q =< Len(work) THEN work[q].buys ELSE {})
                                 \cup (IF q = p THEN {i} ELSE {})
          /\ p \in 1 .. Len(work')
      BY <2>2, <1>1
    <2> QED
      BY <2>2, <2>3
  <1> QED
    BY <1>3, <1>5 DEF ApplyBuy

\* A SELL leaves the BUYs of every row alone.
LEMMA SellKeepsBuys ==
  ASSUME TypeOK, NEW i \in Ids, Len(positions) =< Len(work), ApplySell(i)
  PROVE  /\ work' \in Seq(PositionType)
         /\ Len(work') = Len(work)
         /\ \A q \in 1 .. Len(work) : work'[q].buys = work[q].buys
  <1>1. work \in Seq(PositionType) /\ positions \in Seq(PositionType)
    BY DEF TypeOK
  <1>2. tape[i].size \in Nat /\ i \in Nat
    BY TradeFields DEF Ids
  <1>3. ASSUME NEW p \in OpenRows(TokenOfTrade(i)),
               work' = [work EXCEPT
                          ![p].size = Rest(p, i),
                          ![p].status = IF Rest(p, i) = 0 THEN "CLOSED" ELSE @,
                          ![p].sells = @ \cup {i}]
        PROVE  /\ work' \in Seq(PositionType)
               /\ Len(work') = Len(work)
               /\ \A q \in 1 .. Len(work) : work'[q].buys = work[q].buys
    <2>1. p \in 1 .. Len(work)
      BY <1>1 DEF OpenRows
    <2>2. work[p] \in PositionType
      BY <1>1, <2>1
    <2>3. Rest(p, i) \in Nat
      BY <1>2, <2>2 DEF Rest, PositionType
    <2> DEFINE new == [work[p] EXCEPT
                         !.size = Rest(p, i),
                         !.status = IF Rest(p, i) = 0 THEN "CLOSED" ELSE @,
                         !.sells = @ \cup {i}]
    <2>4. new \in PositionType /\ new.buys = work[p].buys
      BY <2>2, <2>3, <1>2 DEF PositionType
    <2>5. work' = [work EXCEPT ![p] = new]
      BY <1>3, <1>1, <2>1, <2>2 DEF PositionType
    <2> HIDE DEF new
    <2>6. work' \in Seq(PositionType) /\ Len(work') = Len(work)
      BY <2>1, <2>4, <2>5, <1>1
    <2>7. \A q \in 1 .. Len(work) : work'[q] = IF q = p THEN new ELSE work[q]
      BY <2>1, <2>4, <2>5, <1>1
    <2> QED
      BY <2>4, <2>6, <2>7
  <1>4. CASE UNCHANGED work
    BY <1>1, <1>4
  <1> QED
    BY <1>3, <1>4 DEF ApplySell

\* A session that ends leaves its variables as they were at the start.
LEMMA SessionEnds ==
  ASSUME EndSession
  PROVE  /\ pc' = "idle"
         /\ fetched' = {} /\ todo' = {} /\ booking' = {}
         /\ work' \in Seq(PositionType)
         /\ marks' \in [Orders -> RowStatus] /\ \A o \in Orders : marks'[o] = "absent"
         /\ stale' \in BOOLEAN
  <1>1. marks' = [o \in Orders |-> "absent"] /\ "absent" \in RowStatus
    BY DEF EndSession, RowStatus
  <1>2. marks' \in [Orders -> RowStatus] /\ \A o \in Orders : marks'[o] = "absent"
    BY <1>1, Zenon
  <1>3. work' \in Seq(PositionType)
    BY DEF EndSession
  <1> QED
    BY <1>2, <1>3 DEF EndSession

-----------------------------------------------------------------------------
(* The parts of the invariant, one lemma each.                             *)

\* Fetch and the end of a session are the only steps that change `fetched'.
LEMMA TypeStep ==
  ASSUME BooksInv, [Next]_vars
  PROVE  TypeOK'
  <1> USE DEF BooksInv
  <1>1. CASE Tick
    BY <1>1 DEF Tick, TypeOK, Ids, dbVars, sessionVars
  <1>2. ASSUME NEW o \in Orders, NEW n \in 1 .. SizeOf[o], Match(o, n)
        PROVE  TypeOK'
    <2>1. left' \in [Orders -> Nat]
      BY <1>2, LedgerAssumption DEF Match, TypeOK
    <2>2. tape' \in Seq(TradeType) /\ Ids \subseteq Ids'
      BY <1>2, MatchExtendsTape
    <2> QED
      BY <1>2, <2>1, <2>2 DEF Match, TypeOK, dbVars, sessionVars
  <1>3. ASSUME NEW o \in Orders, Accept(o),
               UNCHANGED <<dbVars, sessionVars>>,
               pc' \in {pc, "placed"}, pending' \in {pending, o},
               o \in Mine \/ pending' = pending
        PROVE  TypeOK'
    BY <1>3, LedgerAssumption DEF Accept, TypeOK, Ids, dbVars, sessionVars
  <1>4. CASE RecordOrder
    BY <1>4 DEF RecordOrder, TypeOK, RowStatus, Ids, exchangeVars, sessionVars
  <1>5. ASSUME NEW o \in Orders, OtherRecords(o)
        PROVE  TypeOK'
    BY <1>5 DEF OtherRecords, TypeOK, RowStatus, Ids, exchangeVars
  <1>6. ASSUME NEW o \in Mine, CancelOrder(o)
        PROVE  TypeOK'
    BY <1>6 DEF CancelOrder, TypeOK, RowStatus, Ids, sessionVars
  <1>7. ASSUME NEW o \in Mine, CancelOrderLost(o)
        PROVE  TypeOK'
    BY <1>7 DEF CancelOrderLost, TypeOK, Ids, dbVars, sessionVars
  <1>8. CASE SyncOpenOrders
    BY <1>8 DEF SyncOpenOrders, TypeOK, RowStatus, Ids, exchangeVars, sessionVars
  <1>9. CASE Fetch
    BY <1>9 DEF Fetch, TypeOK, RowStatus, Ids, exchangeVars, dbVars
  <1>10. ASSUME NEW i \in todo, SkipTrade(i)
         PROVE  TypeOK'
    BY <1>10 DEF SkipTrade, TypeOK, Ids, exchangeVars, dbVars
  <1>11. ASSUME NEW i \in todo, BookTrade(i)
         PROVE  TypeOK'
    <2>1. i \in Ids /\ pc = "session" /\ Len(positions) =< Len(work)
      BY <1>11 DEF BookTrade, TypeOK, RowsInv
    <2>2. work' \in Seq(PositionType)
      BY <1>11, <2>1, BuyEntersOneRow, SellKeepsBuys DEF BookTrade
    <2>3. marks' \in [Orders -> RowStatus]
      BY <1>11, <2>1, TradeFields DEF BookTrade, StatusAfter, TypeOK, RowStatus
    <2> QED
      BY <1>11, <2>2, <2>3 DEF BookTrade, TypeOK, Ids, exchangeVars, dbVars
  <1>12. CASE Commit
    <2>1. cursor' \in Nat
      BY <1>12, LedgerAssumption DEF Commit
    <2>2. row' \in [Orders -> RowStatus]
      BY <1>12 DEF Commit, TypeOK
    <2>3. UNCHANGED <<tape, accepted, now, left>> /\ trades' \subseteq Ids
      BY <1>12 DEF Commit, TypeOK, exchangeVars
    <2>4. positions' \in Seq(PositionType) /\ pending' = pending
      BY <1>12 DEF Commit, TypeOK
    <2> QED
      BY <2>1, <2>2, <2>3, <2>4, <1>12, SessionEnds DEF Commit, TypeOK, Ids
  <1>13. CASE Abort \/ Crash
    <2>1. EndSession /\ UNCHANGED <<exchangeVars, dbVars>>
          /\ pending' \in {pending, NoOrder}
      BY <1>13 DEF Abort, Crash
    <2> QED
      BY <2>1, SessionEnds DEF TypeOK, Ids, exchangeVars, dbVars
  <1>14. CASE UNCHANGED vars
    BY <1>14 DEF vars, TypeOK, Ids
  <1> QED
    BY <1>1, <1>2, <1>3, <1>4, <1>5, <1>6, <1>7, <1>8, <1>9, <1>10, <1>11,
       <1>12, <1>13, <1>14, LedgerAssumption
       DEF Next, Exchange, Bot, OtherBot, Faults,
           PlaceLimit, PlaceLimitLost, OtherPlaces

\* The steps that touch neither the tape, nor the booked trades, nor the
\* session: they place, record, cancel or synchronise orders, or wait.
LEMMA OrderSteps ==
  ASSUME [Next]_vars
  PROVE  \/ \E o \in Orders : \E n \in 1 .. SizeOf[o] : Match(o, n)
         \/ Fetch
         \/ \E i \in todo : SkipTrade(i)
         \/ \E i \in todo : BookTrade(i)
         \/ Commit
         \/ /\ EndSession
            /\ UNCHANGED <<exchangeVars, dbVars>>
            /\ pending' \in {pending, NoOrder}
         \/ /\ UNCHANGED <<tape, trades, positions, cursor>>
            /\ UNCHANGED <<fetched, todo, booking, work, marks>>
            /\ pc' = "session" <=> pc = "session"
  <1>1. CASE Tick
    BY <1>1 DEF Tick, dbVars, sessionVars
  <1>2. CASE \E o \in Orders : OtherPlaces(o) \/ OtherRecords(o)
    BY <1>2 DEF OtherPlaces, OtherRecords, Accept, dbVars, sessionVars,
                exchangeVars
  <1>3. CASE \E o \in Mine : PlaceLimit(o) \/ CancelOrder(o)
    BY <1>3 DEF PlaceLimit, CancelOrder, Accept, dbVars, sessionVars
  <1>4. CASE \E o \in Mine : PlaceLimitLost(o) \/ CancelOrderLost(o)
    BY <1>4 DEF PlaceLimitLost, CancelOrderLost, Accept, dbVars, sessionVars
  <1>5. CASE RecordOrder \/ SyncOpenOrders
    BY <1>5 DEF RecordOrder, SyncOpenOrders, sessionVars, exchangeVars
  <1>6. CASE Abort \/ Crash
    BY <1>6 DEF Abort, Crash
  <1>7. CASE UNCHANGED vars
    BY <1>7 DEF vars
  <1> QED
    BY <1>1, <1>2, <1>3, <1>4, <1>5, <1>6, <1>7
       DEF Next, Exchange, Bot, OtherBot, Faults

\* The cursor and the trades behind it move together, in Commit.
LEMMA CursorStep ==
  ASSUME BooksInv, [Next]_vars
  PROVE  CursorInv'
  <1> USE DEF BooksInv, CursorInv
  <1>1. ASSUME NEW o \in Orders, NEW n \in 1 .. SizeOf[o], Match(o, n)
        PROVE  CursorInv'
    <2>1. UNCHANGED <<trades, fetched, cursor>>
      BY <1>1 DEF Match, dbVars, sessionVars
    <2>2. \A i \in trades \cup fetched : tape'[i] = tape[i]
      BY <1>1, MatchExtendsTape DEF TypeOK
    <2> QED
      BY <2>1, <2>2
  <1>2. CASE Fetch
    BY <1>2 DEF Fetch, exchangeVars, dbVars
  <1>3. ASSUME NEW i \in todo, SkipTrade(i) \/ BookTrade(i)
        PROVE  CursorInv'
    BY <1>3 DEF SkipTrade, BookTrade, exchangeVars, dbVars
  <1>4. CASE Commit
    <2>1. PICK t \in 0 .. MaxClock : IsMaxTs(t) /\ cursor' = t
      BY <1>4 DEF Commit
    <2>2. /\ cursor =< t
          /\ \A i \in fetched : tape[i].ts =< t
      BY <2>1 DEF IsMaxTs
    <2>3. /\ trades' = trades \cup booking /\ booking \subseteq fetched
          /\ fetched' = {} /\ tape' = tape
      BY <1>4 DEF Commit, EndSession, TypeOK, exchangeVars
    <2>4. \A i \in trades : tape[i].ts \in Nat /\ tape[i].ts =< t
      BY <2>1, <2>2, TradeFields, LedgerAssumption DEF TypeOK
    <2> QED
      BY <2>1, <2>2, <2>3, <2>4
  <1>5. CASE EndSession /\ UNCHANGED <<exchangeVars, dbVars>>
    BY <1>5 DEF EndSession, exchangeVars, dbVars
  <1>6. CASE UNCHANGED <<tape, trades, cursor, fetched>>
    BY <1>6
  <1> QED
    BY <1>1, <1>2, <1>3, <1>4, <1>5, <1>6, OrderSteps

\* What the other bot commits during the session makes the session stale.
LEMMA SessionStep ==
  ASSUME BooksInv, [Next]_vars
  PROVE  SessionInv'
  <1> USE DEF BooksInv, SessionInv
  <1>1. ASSUME NEW o \in Orders, NEW n \in 1 .. SizeOf[o], Match(o, n)
        PROVE  SessionInv'
    <2>1. UNCHANGED <<todo, booking, row, stale>>
      BY <1>1 DEF Match, dbVars, sessionVars
    <2>2. \A i \in booking : tape'[i] = tape[i]
      BY <1>1, MatchExtendsTape DEF TypeOK
    <2> QED
      BY <2>1, <2>2
  <1>2. CASE Fetch
    BY <1>2 DEF Fetch
  <1>3. ASSUME NEW i \in todo, SkipTrade(i)
        PROVE  SessionInv'
    BY <1>3 DEF SkipTrade, exchangeVars, dbVars
  <1>4. ASSUME NEW i \in todo, BookTrade(i)
        PROVE  SessionInv'
    <2>1. tape[i].order \in Mine \/ row[tape[i].order] = "absent"
      BY <1>4 DEF BookTrade, Skipped
    <2> QED
      BY <1>4, <2>1 DEF BookTrade, exchangeVars, dbVars
  <1>5. CASE EndSession
    BY <1>5 DEF EndSession
  <1>6. ASSUME NEW o \in Orders, OtherRecords(o)
        PROVE  SessionInv'
    <2>1. UNCHANGED <<tape, todo, booking>>
      BY <1>6 DEF OtherRecords, exchangeVars
    <2>2. booking # {} => stale'
      BY <1>6 DEF OtherRecords, TypeOK
    <2> QED
      BY <2>1, <2>2
  <1>7. CASE /\ UNCHANGED <<tape, todo, booking, stale>>
             /\ \A o \in Orders \ Mine : row'[o] = row[o]
    BY <1>7, TradeFields DEF TypeOK
  <1>8. CASE \/ Tick \/ RecordOrder \/ SyncOpenOrders \/ UNCHANGED vars
             \/ \E o \in Orders : OtherPlaces(o)
             \/ \E o \in Mine : \/ PlaceLimit(o) \/ CancelOrder(o)
                                \/ PlaceLimitLost(o) \/ CancelOrderLost(o)
    <2>1. UNCHANGED <<tape, todo, booking, stale>>
      BY <1>8 DEF Tick, RecordOrder, SyncOpenOrders, OtherPlaces, PlaceLimit,
                  CancelOrder, PlaceLimitLost, CancelOrderLost, Accept,
                  exchangeVars, dbVars, sessionVars, vars
    <2>2. \A o \in Orders \ Mine : row'[o] = row[o]
      <3>1. CASE RecordOrder
        BY <3>1 DEF RecordOrder, OrdersInv, TypeOK
      <3>2. CASE SyncOpenOrders
        BY <3>2 DEF SyncOpenOrders
      <3>3. CASE \E o \in Mine : CancelOrder(o)
        BY <3>3 DEF CancelOrder, TypeOK
      <3>4. CASE row' = row
        BY <3>4
      <3> QED
        BY <1>8, <3>1, <3>2, <3>3, <3>4
           DEF Tick, OtherPlaces, PlaceLimit, PlaceLimitLost, CancelOrderLost,
               Accept, dbVars, vars
    <2> QED
      BY <2>1, <2>2, <1>7
  <1> QED
    BY <1>1, <1>2, <1>3, <1>4, <1>5, <1>6, <1>8
       DEF Next, Exchange, Bot, OtherBot, Faults, Commit, Abort, Crash

\* A trade is booked once: it is on no row before, and on one afterwards.
LEMMA RowsStep ==
  ASSUME BooksInv, [Next]_vars
  PROVE  RowsInv'
  <1> USE DEF BooksInv, RowsInv
  <1>1. ASSUME NEW o \in Orders, NEW n \in 1 .. SizeOf[o], Match(o, n)
        PROVE  RowsInv'
    <2>1. UNCHANGED <<trades, booking, positions, work, pc>>
      BY <1>1 DEF Match, dbVars, sessionVars
    <2>2. \A i \in trades \cup booking : IsBuy(i)' = IsBuy(i)
      BY <1>1, MatchExtendsTape DEF TypeOK, IsBuy
    <2> QED
      BY <2>1, <2>2 DEF BuysOnRows
  <1>2. CASE Fetch
    BY <1>2 DEF Fetch, exchangeVars, dbVars, BuysOnRows, IsBuy, TypeOK
  <1>3. ASSUME NEW i \in todo, SkipTrade(i)
        PROVE  RowsInv'
    BY <1>3 DEF SkipTrade, exchangeVars, dbVars, BuysOnRows, IsBuy
  <1>4. ASSUME NEW i \in todo, BookTrade(i)
        PROVE  RowsInv'
    <2>1. /\ pc = "session" /\ pc' = "session"
          /\ UNCHANGED <<tape, trades, positions>>
          /\ booking' = booking \cup {i}
      BY <1>4 DEF BookTrade, exchangeVars, dbVars
    <2>2. i \in Ids /\ Len(positions) =< Len(work)
      BY <1>4, <2>1 DEF TypeOK
    <2>3. i \notin trades \cup booking
      <3>1. tape[i].ts \in Nat /\ cursor \in Nat /\ cursor < tape[i].ts
        BY <2>2, TradeFields DEF CursorInv, TypeOK
      <3>2. i \notin trades
        BY <3>1 DEF CursorInv
      <3> QED
        BY <3>2 DEF SessionInv
    <2>4. work \in Seq(PositionType) /\ BuysOnRows(trades \cup booking, work)
      BY <2>1 DEF TypeOK
    <2>5. BuysOnRows(trades, positions)'
      BY <2>1 DEF BuysOnRows, IsBuy
    <2>6. CASE IsBuy(i)
      <3>1. /\ work' \in Seq(PositionType) /\ Len(work) =< Len(work')
            /\ \E p \in 1 .. Len(work') : \A q \in 1 .. Len(work') :
                 work'[q].buys = (IF q =< Len(work) THEN work[q].buys ELSE {})
                                   \cup (IF q = p THEN {i} ELSE {})
        BY <1>4, <2>2, <2>6, BuyEntersOneRow DEF BookTrade
      <3>2. PICK p \in 1 .. Len(work') : \A q \in 1 .. Len(work') :
                 work'[q].buys = (IF q =< Len(work) THEN work[q].buys ELSE {})
                                   \cup (IF q = p THEN {i} ELSE {})
        BY <3>1
      <3>3. \A q \in 1 .. Len(work') :
              work'[q].buys \subseteq (trades \cup booking) \cup {i}
        BY <3>2, <2>4 DEF BuysOnRows
      <3>4. \A q \in 1 .. Len(work') : i \in work'[q].buys <=> p = q
        BY <3>2, <2>3, <2>4 DEF BuysOnRows
      <3>5. ASSUME NEW j \in trades \cup booking, IsBuy(j)
            PROVE  \E r \in 1 .. Len(work') :
                     \A q \in 1 .. Len(work') : j \in work'[q].buys <=> r = q
        <4>1. PICK r \in 1 .. Len(work) :
                \A q \in 1 .. Len(work) : j \in work[q].buys <=> r = q
          BY <3>5, <2>4 DEF BuysOnRows
        <4>2. r \in 1 .. Len(work') /\ j # i
          BY <3>1, <2>3, <2>4
        <4>3. \A q \in 1 .. Len(work') : j \in work'[q].buys <=> r = q
          BY <3>1, <3>2, <4>1, <4>2, <2>4
        <4> QED
          BY <4>2, <4>3
      <3>6. Len(positions) =< Len(work')
        BY <3>1, <2>2, <2>4 DEF TypeOK
      <3>7. BuysOnRows(trades \cup booking, work)'
        BY <2>1, <3>3, <3>4, <3>5 DEF BuysOnRows, IsBuy
      <3> QED
        BY <2>1, <2>5, <3>6, <3>7
    <2>7. CASE ~IsBuy(i)
      <3>1. /\ Len(work') = Len(work)
            /\ \A q \in 1 .. Len(work) : work'[q].buys = work[q].buys
        BY <1>4, <2>2, <2>7, SellKeepsBuys DEF BookTrade
      <3>2. \A p \in 1 .. Len(work') :
              work'[p].buys \subseteq (trades \cup booking) \cup {i}
        BY <2>4, <3>1 DEF BuysOnRows
      <3>3. ASSUME NEW j \in (trades \cup booking) \cup {i}, IsBuy(j)
            PROVE  \E p \in 1 .. Len(work') :
                     \A q \in 1 .. Len(work') : j \in work'[q].buys <=> p = q
        <4>1. PICK p \in 1 .. Len(work) :
                \A q \in 1 .. Len(work) : j \in work[q].buys <=> p = q
          BY <3>3, <2>4, <2>7 DEF BuysOnRows
        <4>2. p \in 1 .. Len(work')
          BY <3>1
        <4>3. \A q \in 1 .. Len(work') : j \in work'[q].buys <=> p = q
          BY <4>1, <3>1
        <4> QED
          BY <4>2, <4>3
      <3>4. BuysOnRows(trades \cup booking, work)'
        BY <2>1, <3>2, <3>3 DEF BuysOnRows, IsBuy
      <3> QED
        BY <2>1, <2>2, <2>5, <3>1, <3>4
    <2> QED
      BY <2>6, <2>7
  <1>5. CASE Commit
    <2>1. /\ pc = "session" /\ pc' = "idle"
          /\ tape' = tape /\ trades' = trades \cup booking /\ positions' = work
      BY <1>5 DEF Commit, EndSession, exchangeVars
    <2>2. BuysOnRows(trades \cup booking, work)
      BY <2>1
    <2>3. BuysOnRows(trades, positions)'
      BY <2>1, <2>2 DEF BuysOnRows, IsBuy
    <2> QED
      BY <2>1, <2>3
  <1>6. CASE EndSession /\ UNCHANGED <<exchangeVars, dbVars>>
    BY <1>6 DEF EndSession, exchangeVars, dbVars, BuysOnRows, IsBuy
  <1>7. CASE /\ UNCHANGED <<tape, trades, positions, booking, work>>
             /\ pc' = "session" <=> pc = "session"
    BY <1>7 DEF BuysOnRows, IsBuy
  <1> QED
    BY <1>1, <1>2, <1>3, <1>4, <1>5, <1>6, <1>7, OrderSteps

\* A match takes from the order what it puts on the tape.
LEMMA FillsStep ==
  ASSUME BooksInv, [Next]_vars
  PROVE  FillsInv'
  <1> USE DEF BooksInv, FillsInv
  <1>1. ASSUME NEW o \in Orders, NEW n \in 1 .. SizeOf[o], Match(o, n)
        PROVE  FillsInv'
    <2>1. /\ accepted' = accepted
          /\ left' = [left EXCEPT ![o] = @ - n] /\ n \in 1 .. left[o]
      BY <1>1 DEF Match
    <2>2. o \in accepted
      BY <2>1 DEF OrdersInv, TypeOK
    <2>3. left \in [Orders -> Nat] /\ SizeOf[o] \in Nat /\ n \in Nat
      BY LedgerAssumption DEF TypeOK
    <2>4. left[o] =< SizeOf[o] /\ left[o] \in Nat
      BY <2>3 DEF OrdersInv
    <2> DEFINE k == Len(tape) + 1
    <2>5. /\ tape'[k].order = o /\ tape'[k].size = n
          /\ \A i \in Ids : tape'[i] = tape[i] /\ i # k
          /\ \A i \in Ids' : i \in Ids \/ i = k
      <3>1. \A i \in Ids : i # k
        BY DEF Ids, TypeOK
      <3>2. /\ tape'[k] = [order |-> o, size |-> n, ts |-> now]
            /\ \A i \in Ids : tape'[i] = tape[i]
            /\ \A i \in Ids' : i \in Ids \/ i = k
        BY <1>1, MatchExtendsTape, Zenon
      <3>3. tape'[k].order = o /\ tape'[k].size = n
        BY <3>2
      <3> QED
        BY <3>1, <3>2, <3>3, Zenon
    <2> HIDE DEF k
    <2>6. \A i \in Ids : /\ tape[i].order \in Orders /\ tape[i].size \in Nat
                         /\ SizeOf[tape[i].order] \in Nat
      BY TradeFields, LedgerAssumption
    <2>7. ASSUME NEW i \in Ids'
          PROVE  /\ tape'[i].order \in accepted
                 /\ tape'[i].size + left'[tape'[i].order] =< SizeOf[tape'[i].order]
      <3>1. CASE i = k
        BY <3>1, <2>1, <2>2, <2>3, <2>4, <2>5
      <3>2. CASE i \in Ids
        BY <3>2, <2>1, <2>3, <2>4, <2>5, <2>6
      <3> QED
        BY <3>1, <3>2, <2>5
    <2>8. ASSUME NEW i \in Ids', NEW j \in Ids', i # j,
                 tape'[i].order = tape'[j].order
          PROVE  tape'[i].size + tape'[j].size + left'[tape'[i].order]
                   =< SizeOf[tape'[i].order]
      <3>1. CASE i \in Ids /\ j \in Ids
        BY <2>8, <3>1, <2>1, <2>3, <2>4, <2>5, <2>6
      <3>2. CASE i = k /\ j \in Ids
        BY <2>8, <3>2, <2>1, <2>3, <2>4, <2>5, <2>6
      <3>3. CASE i \in Ids /\ j = k
        BY <2>8, <3>3, <2>1, <2>3, <2>4, <2>5, <2>6
      <3> QED
        BY <3>1, <3>2, <3>3, <2>5, <2>8
    <2> QED
      BY <2>1, <2>7, <2>8
  <1>2. ASSUME NEW o \in Orders, Accept(o)
        PROVE  FillsInv'
    <2>1. /\ accepted' = accepted \cup {o} /\ tape' = tape /\ Ids' = Ids
          /\ \A i \in Ids : tape[i].order # o
      BY <1>2 DEF Accept, Ids
    <2>2. \A i \in Ids : left'[tape[i].order] = left[tape[i].order]
      BY <1>2, <2>1, TradeFields DEF Accept, TypeOK
    <2> QED
      BY <2>1, <2>2
  <1>3. ASSUME NEW o \in Mine, CancelOrder(o) \/ CancelOrderLost(o)
        PROVE  FillsInv'
    <2>1. /\ UNCHANGED <<accepted, tape>> /\ Ids' = Ids
          /\ left' = [left EXCEPT ![o] = 0]
      BY <1>3 DEF CancelOrder, CancelOrderLost, Ids
    <2>2. \A i \in Ids : /\ left'[tape[i].order] =< left[tape[i].order]
                         /\ left'[tape[i].order] \in Nat
                         /\ left[tape[i].order] \in Nat
      BY <2>1, TradeFields DEF TypeOK
    <2>3. \A i \in Ids : tape[i].size \in Nat /\ SizeOf[tape[i].order] \in Nat
      BY TradeFields, LedgerAssumption
    <2> QED
      BY <2>1, <2>2, <2>3
  <1>4. CASE UNCHANGED <<accepted, left, tape>>
    BY <1>4 DEF Ids
  <1> QED
    BY <1>1, <1>2, <1>3, <1>4, LedgerAssumption
       DEF Next, Exchange, Bot, OtherBot, Faults, Tick, PlaceLimit,
           PlaceLimitLost, RecordOrder, OtherPlaces, OtherRecords,
           SyncOpenOrders, Fetch, SkipTrade, BookTrade, Commit, Abort, Crash,
           exchangeVars, vars

\* The trades of an order are a finite set of terms, so their sum is a number.
LEMMA TradesAreTerms ==
  ASSUME TypeOK
  PROVE  /\ IsFiniteSet(Ids)
         /\ \A S \in SUBSET Ids : IsFiniteSet(S)
         /\ \A i \in Ids : Sizes(tape)[i] = tape[i].size /\ Sizes(tape)[i] \in Nat
         /\ \A S \in SUBSET Ids : SumFunctionOnSet(Sizes(tape), S) \in Nat
         /\ \A o \in Orders : Filled(o) \in Nat
  <1>1. IsFiniteSet(Ids)
    BY FS_Interval DEF TypeOK, Ids
  <1>2. \A S \in SUBSET Ids : IsFiniteSet(S)
    BY <1>1, FS_Subset
  <1>3. \A i \in Ids : Sizes(tape)[i] = tape[i].size /\ tape[i].size \in Nat
    BY TradeFields DEF Sizes, Ids
  <1>4. ASSUME NEW S \in SUBSET Ids
        PROVE  SumFunctionOnSet(Sizes(tape), S) \in Nat
    <2>1. \A i \in S : Sizes(tape)[i] \in Nat
      BY <1>3
    <2> QED
      BY <1>2, <2>1, SumType
  <1>5. ASSUME NEW o \in Orders
        PROVE  Filled(o) \in Nat
    BY <1>4 DEF Filled
  <1> QED
    BY <1>1, <1>2, <1>3, <1>4, <1>5

\* A match adds its size to the filled size of its order, and to no other.
LEMMA MatchFills ==
  ASSUME TypeOK, TypeOK', NEW o \in Orders, NEW n \in 1 .. SizeOf[o], Match(o, n),
         NEW q \in Orders
  PROVE  Filled(q)' = Filled(q) + (IF q = o THEN n ELSE 0)
  <1> DEFINE k == Len(tape) + 1
             T == {i \in Ids : tape[i].order = q}
  <1>1. /\ \A i \in Ids : i \in Ids' /\ tape'[i] = tape[i] /\ i # k
        /\ \A i \in Ids' : i \in Ids \/ i = k
        /\ tape'[k].order = o /\ tape'[k].size = n /\ k \in Ids'
    <2>1. /\ \A i \in Ids : i \in Ids' /\ tape'[i] = tape[i]
          /\ \A i \in Ids' : i \in Ids \/ i = k
          /\ tape'[k] = [order |-> o, size |-> n, ts |-> now]
      BY MatchExtendsTape, Zenon
    <2>2. Len(tape) \in Nat /\ Len(tape') = Len(tape) + 1
      <3>1. Len(tape') = Len(tape) + 1
        BY MatchExtendsTape, Zenon
      <3>2. Len(tape) \in Nat
        BY DEF TypeOK
      <3> QED
        BY <3>1, <3>2
    <2>3. tape'[k].order = o /\ tape'[k].size = n
      BY <2>1
    <2> QED
      BY <2>1, <2>2, <2>3 DEF Ids
  <1> HIDE DEF k
  <1>2. /\ IsFiniteSet(T) /\ T \in SUBSET Ids
        /\ \A i \in Ids : Sizes(tape)[i] = tape[i].size /\ Sizes(tape)[i] \in Nat
        /\ SumFunctionOnSet(Sizes(tape), T) \in Nat
    BY TradesAreTerms
  <1>3. \A i \in Ids' : Sizes(tape)'[i] = tape'[i].size
    BY DEF Sizes, Ids
  <1>4. \A i \in T : Sizes(tape)[i] = Sizes(tape)'[i]
    BY <1>1, <1>2, <1>3
  <1>5. SumFunctionOnSet(Sizes(tape)', T) = SumFunctionOnSet(Sizes(tape), T)
    BY <1>2, <1>4, SumEqual
  <1>6. CASE q # o
    <2>1. {i \in Ids' : tape'[i].order = q} = T
      BY <1>1, <1>6
    <2>2. Filled(q)' = SumFunctionOnSet(Sizes(tape)', T)
      BY <2>1 DEF Filled
    <2>3. Filled(q) = SumFunctionOnSet(Sizes(tape), T)
      BY DEF Filled
    <2> HIDE DEF T
    <2> QED
      BY <1>2, <1>5, <1>6, <2>2, <2>3
  <1>7. CASE q = o
    <2>1. {i \in Ids' : tape'[i].order = q} = T \cup {k} /\ k \notin T
      BY <1>1, <1>7
    <2> DEFINE g == Sizes(tape)'
    <2>2. \A i \in T \cup {k} : g[i] \in Int
      <3>1. n \in Int
        BY LedgerAssumption
      <3> QED
        BY <1>1, <1>2, <1>3, <1>4, <3>1
    <2>3. SumFunctionOnSet(g, T \cup {k}) = SumFunctionOnSet(g, T) + g[k]
      <3>1. IsFiniteSet(T) /\ k \notin T
        BY <1>2, <2>1
      <3> HIDE DEF g, T
      <3> QED
        BY <2>2, <3>1, SumAdd
    <2>4. Sizes(tape)'[k] = n
      BY <1>1, <1>3
    <2>5. Filled(q)' = SumFunctionOnSet(Sizes(tape)', T \cup {k})
      BY <2>1 DEF Filled
    <2>6. Filled(q) = SumFunctionOnSet(Sizes(tape), T)
      BY DEF Filled
    <2> HIDE DEF T
    <2> QED
      BY <1>5, <1>7, <2>3, <2>4, <2>5, <2>6
  <1> QED
    BY <1>6, <1>7

\* A match moves shares from what is left to what is filled; nothing else fills.
LEMMA FilledStep ==
  ASSUME BooksInv, TypeOK', [Next]_vars
  PROVE  FilledInv'
  <1> USE DEF BooksInv, FilledInv
  <1>0. /\ left \in [Orders -> Nat] /\ SizeOf \in [Orders -> Nat]
        /\ \A o \in Orders : Filled(o) \in Nat
    BY LedgerAssumption, TradesAreTerms DEF TypeOK
  <1>1. ASSUME NEW o \in Orders, NEW n \in 1 .. SizeOf[o], Match(o, n)
        PROVE  FilledInv'
    <2>1. left' = [left EXCEPT ![o] = @ - n] /\ n \in 1 .. left[o]
      BY <1>1 DEF Match
    <2>2. \A q \in Orders : Filled(q)' = Filled(q) + (IF q = o THEN n ELSE 0)
      BY <1>1, MatchFills
    <2>3. \A q \in Orders : left'[q] = left[q] - (IF q = o THEN n ELSE 0)
      BY <2>1, <1>0
    <2> QED
      BY <2>1, <2>2, <2>3, <1>0
  <1>2. ASSUME NEW o \in Orders, Accept(o)
        PROVE  FilledInv'
    <2>1. tape' = tape /\ \A i \in Ids : tape[i].order # o
      BY <1>2 DEF Accept, FillsInv
    <2>2. \A q \in Orders : Filled(q)' = Filled(q)
      BY <2>1 DEF Filled, Ids, Sizes
    <2>3. Filled(o) = 0
      <3>1. {i \in Ids : tape[i].order = o} = {}
        BY <2>1
      <3> QED
        BY <3>1, SumEmpty DEF Filled
    <2>4. \A q \in Orders : left'[q] = IF q = o THEN SizeOf[o] ELSE left[q]
      BY <1>2, <1>0 DEF Accept
    <2> QED
      BY <2>2, <2>3, <2>4, <1>0
  <1>3. ASSUME UNCHANGED tape, \A o \in Orders : left'[o] =< left[o] /\ left'[o] \in Nat
        PROVE  FilledInv'
    <2>1. \A q \in Orders : Filled(q)' = Filled(q)
      BY <1>3 DEF Filled, Ids, Sizes
    <2> QED
      BY <1>3, <2>1, <1>0
  <1>4. ASSUME NEW o \in Mine, CancelOrder(o) \/ CancelOrderLost(o)
        PROVE  FilledInv'
    BY <1>3, <1>4, <1>0 DEF CancelOrder, CancelOrderLost
  <1>5. CASE UNCHANGED <<left, tape>>
    BY <1>3, <1>5, <1>0
  <1> QED
    BY <1>1, <1>2, <1>4, <1>5, LedgerAssumption
       DEF Next, Exchange, Bot, OtherBot, Faults, Tick, PlaceLimit,
           PlaceLimitLost, RecordOrder, OtherPlaces, OtherRecords,
           SyncOpenOrders, Fetch, SkipTrade, BookTrade, Commit, Abort, Crash,
           exchangeVars, vars

\* An order is accepted once, with its whole size, and has a row only later.
LEMMA OrdersStep ==
  ASSUME BooksInv, [Next]_vars
  PROVE  OrdersInv'
  <1> USE DEF BooksInv, OrdersInv
  <1>1. ASSUME NEW o \in Orders, NEW n \in 1 .. SizeOf[o], Match(o, n)
        PROVE  OrdersInv'
    <2>1. /\ UNCHANGED <<accepted, row, pc, pending>>
          /\ left' = [left EXCEPT ![o] = @ - n] /\ n \in 1 .. left[o]
      BY <1>1 DEF Match, dbVars
    <2>2. left \in [Orders -> Nat] /\ n \in Nat \ {0} /\ SizeOf \in [Orders -> Nat]
      BY LedgerAssumption DEF TypeOK
    <2>3. \A q \in Orders : left'[q] =< left[q]
      BY <2>1, <2>2
    <2>4. o \in accepted
      BY <2>1, <2>2
    <2>5. \A q \in Orders : left'[q] =< SizeOf[q]
      <3>1. ASSUME NEW q \in Orders
            PROVE  left'[q] =< SizeOf[q]
        BY <2>1, <2>2, <2>3
      <3> QED
        BY <3>1
    <2>6. \A q \in Orders \ accepted : left'[q] = 0
      BY <2>1, <2>2, <2>4
    <2> QED
      BY <2>1, <2>5, <2>6
  <1>2. ASSUME NEW o \in Orders, Accept(o), row' = row,
               \/ pc' = pc /\ pending' = pending
               \/ pc' = "placed" /\ pending' = o /\ o \in Mine
        PROVE  OrdersInv'
    <2>1. /\ o \notin accepted /\ accepted' = accepted \cup {o}
          /\ left' = [left EXCEPT ![o] = SizeOf[o]]
      BY <1>2 DEF Accept
    <2>2. left \in [Orders -> Nat] /\ SizeOf \in [Orders -> Nat]
      BY LedgerAssumption DEF TypeOK
    <2>3. \A q \in Orders : left'[q] = IF q = o THEN SizeOf[o] ELSE left[q]
      BY <2>1, <2>2
    <2>4. \A q \in Orders : left'[q] =< SizeOf[q]
      BY <2>2, <2>3
    <2>5. \A q \in Orders \ accepted' : left'[q] = 0 /\ row'[q] = "absent"
      BY <1>2, <2>1, <2>3
    <2>6. pc' = "placed" => pending' \in accepted' \cap Mine /\ row'[pending'] = "absent"
      BY <1>2, <2>1
    <2> QED
      BY <2>4, <2>5, <2>6
  <1>3. CASE RecordOrder
    <2>1. /\ pending \in accepted /\ pc' = "idle" /\ UNCHANGED <<accepted, left>>
          /\ \E s \in {"live", "matched"} : row' = [row EXCEPT ![pending] = s]
      BY <1>3 DEF RecordOrder, exchangeVars
    <2>2. \A o \in Orders \ accepted : row'[o] = row[o]
      BY <2>1 DEF TypeOK
    <2> QED
      BY <2>1, <2>2
  <1>4. ASSUME NEW o \in Orders, OtherRecords(o)
        PROVE  OrdersInv'
    BY <1>4 DEF OtherRecords, exchangeVars, TypeOK
  <1>5. ASSUME NEW o \in Mine, CancelOrder(o) \/ CancelOrderLost(o)
        PROVE  OrdersInv'
    <2>1. /\ UNCHANGED <<accepted, pc, pending>> /\ pc = "idle"
          /\ left' = [left EXCEPT ![o] = 0]
          /\ \A q \in Orders : row[q] = "absent" => row'[q] = "absent"
      BY <1>5 DEF CancelOrder, CancelOrderLost, dbVars, OpenStatus, TypeOK
    <2>2. left \in [Orders -> Nat] /\ SizeOf \in [Orders -> Nat]
      BY LedgerAssumption DEF TypeOK
    <2> QED
      BY <2>1, <2>2
  <1>6. CASE SyncOpenOrders
    BY <1>6 DEF SyncOpenOrders, exchangeVars, OpenStatus
  <1>7. CASE Commit
    <2>1. /\ UNCHANGED <<accepted, left>> /\ pc' = "idle"
          /\ row' = [o \in Orders |->
                       IF marks[o] = "absent" THEN row[o] ELSE marks[o]]
      BY <1>7 DEF Commit, EndSession, exchangeVars
    <2> QED
      BY <2>1 DEF MarksInv
  <1>8. CASE /\ UNCHANGED <<accepted, left, row, pending>>
             /\ pc' \in {pc, "idle", "session"}
    BY <1>8
  <1>9. CASE Abort \/ Crash
    BY <1>9 DEF Abort, Crash, EndSession, exchangeVars, dbVars
  <1>10. CASE \/ Tick \/ Fetch \/ UNCHANGED vars
              \/ \E i \in todo : SkipTrade(i) \/ BookTrade(i)
    BY <1>8, <1>10 DEF Tick, Fetch, SkipTrade, BookTrade, exchangeVars, dbVars, vars
  <1> QED
    BY <1>1, <1>2, <1>3, <1>4, <1>5, <1>6, <1>7, <1>9, <1>10, LedgerAssumption
       DEF Next, Exchange, Bot, OtherBot, Faults, PlaceLimit, PlaceLimitLost,
           OtherPlaces, dbVars

\* A trade that is booked keeps its order and its size.
LEMMA FilledByKept ==
  ASSUME BooksInv, [Next]_vars, NEW o \in Orders, NEW S \in SUBSET Ids,
         FilledBy(o, S)
  PROVE  \E i \in S : tape'[i].order = o /\ tape'[i].size = SizeOf[o]
  <1>1. \A i \in Ids : tape'[i] = tape[i]
    <2>1. CASE \E q \in Orders : \E n \in 1 .. SizeOf[q] : Match(q, n)
      BY <2>1, MatchExtendsTape DEF BooksInv
    <2>2. CASE UNCHANGED tape
      BY <2>2
    <2> QED
      BY <2>1, <2>2, OrderSteps
         DEF Fetch, SkipTrade, BookTrade, Commit, exchangeVars
  <1> QED
    BY <1>1 DEF FilledBy

\* An order some fill takes whole has nothing left to match.
LEMMA FilledLeavesNothing ==
  ASSUME BooksInv, NEW o \in Orders, NEW S \in SUBSET Ids, FilledBy(o, S)
  PROVE  /\ left[o] = 0
         /\ \A j \in Ids : tape[j].order = o => j \in S
  <1>1. PICK i \in S : tape[i].order = o /\ tape[i].size = SizeOf[o]
    BY DEF FilledBy
  <1>2. i \in Ids /\ left[o] \in Nat /\ SizeOf[o] \in Nat
    BY LedgerAssumption DEF BooksInv, TypeOK
  <1>3. SizeOf[o] + left[o] =< SizeOf[o]
    BY <1>1, <1>2 DEF BooksInv, FillsInv
  <1>4. ASSUME NEW j \in Ids, tape[j].order = o
        PROVE  j \in S
    <2>1. tape[j].size \in Nat \ {0}
      BY TradeFields DEF BooksInv
    <2>2. i # j => SizeOf[o] + tape[j].size + left[o] =< SizeOf[o]
      BY <1>1, <1>2, <1>4 DEF BooksInv, FillsInv
    <2>3. i = j
      BY <1>2, <2>1, <2>2
    <2> QED
      BY <2>3
  <1> QED
    BY <1>2, <1>3, <1>4

\* A row is never deleted.
LEMMA RowsStay ==
  ASSUME BooksInv, [Next]_vars
  PROVE  \A o \in Orders : row[o] # "absent" => row'[o] # "absent"
  <1> USE DEF BooksInv
  <1>1. CASE Commit
    BY <1>1 DEF Commit
  <1>2. CASE RecordOrder
    BY <1>2 DEF RecordOrder, TypeOK
  <1>3. CASE \E o \in Orders : OtherRecords(o)
    BY <1>3 DEF OtherRecords, TypeOK
  <1>4. CASE \E o \in Mine : CancelOrder(o)
    BY <1>4 DEF CancelOrder, TypeOK
  <1>5. CASE SyncOpenOrders
    BY <1>5 DEF SyncOpenOrders
  <1>6. CASE row' = row
    BY <1>6
  <1> QED
    BY <1>1, <1>2, <1>3, <1>4, <1>5, <1>6
       DEF Next, Exchange, Bot, OtherBot, Faults, Tick, Match, PlaceLimit,
           PlaceLimitLost, OtherPlaces, CancelOrderLost, Fetch, SkipTrade,
           BookTrade, Abort, Crash, dbVars, vars

\* A pending status says what the session's trades say.
LEMMA MarksStep ==
  ASSUME BooksInv, [Next]_vars
  PROVE  MarksInv'
  <1> USE DEF BooksInv
  <1>0. \A o \in Orders : row[o] # "absent" => row'[o] # "absent"
    BY RowsStay
  <1>1. ASSUME NEW o \in Orders, NEW n \in 1 .. SizeOf[o], Match(o, n)
        PROVE  MarksInv'
    <2>1. UNCHANGED <<row, marks, booking>>
      BY <1>1 DEF Match, dbVars, sessionVars
    <2>2. \A i \in booking : tape'[i] = tape[i]
      BY <1>1, MatchExtendsTape DEF TypeOK
    <2> QED
      BY <2>1, <2>2 DEF MarksInv, FilledBy
  <1>2. ASSUME NEW i \in todo, BookTrade(i)
        PROVE  MarksInv'
    <2> DEFINE q == tape[i].order
    <2>1. /\ UNCHANGED <<left, tape, row>>
          /\ booking' = booking \cup {i}
          /\ marks' = IF row[q] = "absent" THEN marks
                      ELSE [marks EXCEPT ![q] = StatusAfter(i)]
      BY <1>2 DEF BookTrade, exchangeVars, dbVars
    <2>2. /\ i \in Ids /\ q \in Orders /\ tape[i].size \in Nat
          /\ SizeOf[q] \in Nat /\ left[q] \in Nat
          /\ tape[i].size + left[q] =< SizeOf[q]
      BY TradeFields, LedgerAssumption DEF FillsInv, TypeOK
    <2>3. /\ StatusAfter(i) \in {"PARTIAL", "FILLED"}
          /\ StatusAfter(i) = "FILLED" => tape[i].size = SizeOf[q]
      BY <2>2 DEF StatusAfter
    <2>4. \A o \in Orders : FilledBy(o, booking) => FilledBy(o, booking)'
      BY <2>1 DEF FilledBy
    <2>5. \A o \in Orders :
            \/ marks'[o] = marks[o]
            \/ o = q /\ marks'[o] = StatusAfter(i) /\ row[o] # "absent"
      BY <2>1, <2>2 DEF TypeOK
    <2>6. ASSUME NEW o \in Orders, o = q, StatusAfter(i) = "FILLED"
          PROVE  FilledBy(o, booking)'
      <3>1. i \in booking' /\ tape'[i].order = o /\ tape'[i].size = SizeOf[o]
        BY <2>1, <2>3, <2>6
      <3> QED
        BY <3>1 DEF FilledBy
    <2> HIDE DEF q
    <2>7. i \in booking' /\ tape'[i].order = q
      BY <2>1 DEF q
    <2>8. ASSUME NEW o \in Orders
          PROVE  /\ marks'[o] \in {"absent", "PARTIAL", "FILLED"}
                 /\ marks'[o] = "FILLED" => FilledBy(o, booking)'
                 /\ marks'[o] # "absent" => /\ row'[o] # "absent"
                                           /\ \E j \in booking' : tape'[j].order = o
      <3>1. CASE marks'[o] = marks[o]
        BY <3>1, <2>1, <2>4 DEF MarksInv
      <3>2. CASE o = q /\ marks'[o] = StatusAfter(i) /\ row[o] # "absent"
        <4>1. marks'[o] \in {"PARTIAL", "FILLED"}
          BY <3>2, <2>3
        <4>2. marks'[o] = "FILLED" => FilledBy(o, booking)'
          BY <3>2, <2>6
        <4>3. row'[o] # "absent"
          BY <3>2, <2>1
        <4>4. \E j \in booking' : tape'[j].order = o
          BY <3>2, <2>7
        <4> QED
          BY <4>1, <4>2, <4>3, <4>4
      <3> QED
        BY <2>5, <3>1, <3>2
    <2> QED
      BY <2>8 DEF MarksInv
  <1>3. CASE \A o \in Orders : marks'[o] = "absent"
    BY <1>3 DEF MarksInv
  <1>4. CASE UNCHANGED <<tape, marks, booking>>
    BY <1>0, <1>4 DEF MarksInv, FilledBy
  <1>5. CASE Fetch \/ Commit \/ EndSession
    BY <1>3, <1>5, SessionEnds DEF Fetch, Commit
  <1>6. ASSUME NEW i \in todo, SkipTrade(i)
        PROVE  MarksInv'
    BY <1>4, <1>6 DEF SkipTrade, exchangeVars
  <1> QED
    BY <1>1, <1>2, <1>4, <1>5, <1>6, OrderSteps

\* A status says what the tape says.
LEMMA StatusStep ==
  ASSUME LedgerInv, [Next]_vars
  PROVE  StatusInv'
  <1> USE DEF LedgerInv, BooksInv, StatusInv, MarksInv
  <1> DEFINE Kept(S) == \A o \in Orders : FilledBy(o, S) =>
                          \E i \in S : /\ tape'[i].order = o
                                       /\ tape'[i].size = SizeOf[o]
  <1>a. Kept(trades) /\ Kept(booking)
    <2>1. trades \in SUBSET Ids /\ booking \in SUBSET Ids
      BY DEF TypeOK
    <2>2. ASSUME NEW S \in SUBSET Ids
          PROVE  Kept(S)
      BY FilledByKept
    <2> QED
      BY <2>1, <2>2
  <1>b. ASSUME UNCHANGED <<trades, booking>>
        PROVE  \A o \in Orders : /\ FilledBy(o, trades) => FilledBy(o, trades)'
                                 /\ FilledBy(o, booking) => FilledBy(o, booking)'
    BY <1>a, <1>b DEF FilledBy
  <1> HIDE DEF Kept
  <1>1. ASSUME NEW o \in Orders, NEW n \in 1 .. SizeOf[o], Match(o, n)
        PROVE  StatusInv'
    <2>1. /\ UNCHANGED <<row, marks, trades, booking>>
          /\ left' = [left EXCEPT ![o] = @ - n] /\ n \in 1 .. left[o]
      BY <1>1 DEF Match, dbVars, sessionVars
    <2>2. \A i \in booking : tape'[i] = tape[i]
      BY <1>1, MatchExtendsTape DEF TypeOK
    <2>3. \A q \in Orders : row[q] \in {"CANCELLED", "matched"} => left'[q] = 0
      BY <2>1, LedgerAssumption DEF TypeOK
    <2> QED
      BY <1>b, <2>1, <2>2, <2>3
  <1>2. ASSUME NEW o \in Orders, Accept(o),
               UNCHANGED <<row, marks, trades, booking>>
        PROVE  StatusInv'
    <2>1. tape' = tape /\ row[o] = "absent"
      BY <1>2 DEF Accept, OrdersInv
    <2>2. \A q \in Orders : row[q] \in {"CANCELLED", "matched"} => left'[q] = 0
      BY <1>2, <2>1 DEF Accept, TypeOK
    <2> QED
      BY <1>2, <1>b, <2>1, <2>2
  <1>3. ASSUME NEW o \in Orders, NEW s \in {"live", "matched"},
               row' = [row EXCEPT ![o] = s],
               row[o] = "absent", s = "matched" => left[o] = 0,
               UNCHANGED <<left, tape, marks, trades, booking>>
        PROVE  StatusInv'
    <2>1. \A q \in Orders : row'[q] = IF q = o THEN s ELSE row[q]
      BY <1>3 DEF TypeOK
    <2> QED
      BY <1>3, <1>b, <2>1
  <1>4. ASSUME NEW o \in Mine, CancelOrder(o) \/ CancelOrderLost(o)
        PROVE  StatusInv'
    <2>1. /\ UNCHANGED <<tape, marks, trades, booking>>
          /\ left' = [left EXCEPT ![o] = 0]
          /\ row[o] \in OpenStatus
          /\ row' = row \/ row' = [row EXCEPT ![o] = "CANCELLED"]
      BY <1>4 DEF CancelOrder, CancelOrderLost, dbVars, sessionVars
    <2>2. \A q \in Orders : /\ left'[q] = IF q = o THEN 0 ELSE left[q]
                            /\ row'[q] = row[q] \/ (q = o /\ row'[q] = "CANCELLED")
      BY <2>1 DEF TypeOK
    <2> QED
      BY <1>b, <2>1, <2>2 DEF OpenStatus
  <1>5. CASE SyncOpenOrders
    <2>1. /\ UNCHANGED <<left, tape, marks, trades, booking>>
          /\ \A o \in Orders : \/ row'[o] = row[o]
                               \/ /\ row[o] # "absent" /\ left[o] = 0
                                  /\ row'[o] = "CANCELLED"
      BY <1>5 DEF SyncOpenOrders, exchangeVars, sessionVars, OpenStatus
    <2> QED
      BY <1>b, <2>1
  <1>6. CASE Fetch
    <2>1. /\ UNCHANGED <<left, tape, row, trades>>
          /\ \A o \in Orders : marks'[o] = "absent"
      BY <1>6 DEF Fetch, exchangeVars, dbVars
    <2>2. \A o \in Orders : row'[o] = "FILLED" => FilledBy(o, trades)'
      BY <2>1 DEF FilledBy
    <2> QED
      BY <2>1, <2>2
  <1>7. ASSUME NEW i \in todo, SkipTrade(i)
        PROVE  StatusInv'
    <2>1. UNCHANGED <<left, tape, row, marks, trades, booking>>
      BY <1>7 DEF SkipTrade, exchangeVars, dbVars
    <2> QED
      BY <2>1, <1>b
  <1>8. ASSUME NEW i \in todo, BookTrade(i)
        PROVE  StatusInv'
    <2>1. UNCHANGED <<left, tape, row, trades>>
      BY <1>8 DEF BookTrade, exchangeVars, dbVars
    <2> QED
      BY <2>1 DEF FilledBy
  <1>9. CASE Commit
    <2>1. /\ UNCHANGED <<left, tape>> /\ trades' = trades \cup booking
          /\ \A o \in Orders : /\ row'[o] = (IF marks[o] = "absent" THEN row[o]
                                                                   ELSE marks[o])
                               /\ marks'[o] = "absent"
      BY <1>9, SessionEnds DEF Commit, exchangeVars
    <2>2. \A o \in Orders :
            FilledBy(o, trades) \/ FilledBy(o, booking) => FilledBy(o, trades)'
      BY <2>1 DEF FilledBy
    <2> QED
      BY <2>1, <2>2
  <1>10. CASE EndSession /\ UNCHANGED <<exchangeVars, dbVars>>
    <2>1. /\ UNCHANGED <<left, tape, row, trades>>
          /\ \A o \in Orders : marks'[o] = "absent"
      BY <1>10, SessionEnds DEF exchangeVars, dbVars
    <2>2. \A o \in Orders : row'[o] = "FILLED" => FilledBy(o, trades)'
      BY <2>1 DEF FilledBy
    <2> QED
      BY <2>1, <2>2
  <1>11. CASE Tick \/ UNCHANGED vars
    <2>1. UNCHANGED <<left, tape, row, marks, trades, booking>>
      BY <1>11 DEF Tick, vars, dbVars, sessionVars
    <2> QED
      BY <2>1, <1>b
  <1>12. CASE RecordOrder \/ \E o \in Orders : OtherRecords(o)
    <2>1. \E o \in Orders, s \in {"live", "matched"} :
            /\ row' = [row EXCEPT ![o] = s] /\ row[o] = "absent"
            /\ s = "matched" => left[o] = 0
      BY <1>12, LedgerAssumption DEF RecordOrder, OtherRecords, OrdersInv
    <2>2. UNCHANGED <<left, tape, marks, trades, booking>>
      BY <1>12 DEF RecordOrder, OtherRecords, exchangeVars, sessionVars
    <2> QED
      BY <2>1, <2>2, <1>3
  <1>13. CASE \/ \E o \in Orders : OtherPlaces(o)
              \/ \E o \in Mine : PlaceLimit(o) \/ PlaceLimitLost(o)
    <2>1. UNCHANGED <<row, marks, trades, booking>>
      BY <1>13 DEF PlaceLimit, PlaceLimitLost, OtherPlaces, dbVars, sessionVars
    <2>2. \E o \in Orders : Accept(o)
      BY <1>13, LedgerAssumption DEF PlaceLimit, PlaceLimitLost, OtherPlaces
    <2> QED
      BY <2>1, <2>2, <1>2
  <1> QED
    BY <1>1, <1>4, <1>5, <1>6, <1>7, <1>8, <1>9, <1>10, <1>11, <1>12, <1>13
       DEF Next, Exchange, Bot, OtherBot, Faults, Abort, Crash

\* Only Commit books trades, and the foreign key and the snapshot let it book
\* those of the bot's own recorded orders only.
LEMMA OwnStep ==
  ASSUME BooksInv, [Next]_vars
  PROVE  OnlyOwnFillsBooked'
  <1> USE DEF BooksInv, OnlyOwnFillsBooked
  <1>1. \A o \in Orders : row[o] # "absent" => row'[o] # "absent"
    BY RowsStay
  <1>2. ASSUME NEW o \in Orders, NEW n \in 1 .. SizeOf[o], Match(o, n)
        PROVE  OnlyOwnFillsBooked'
    <2>1. UNCHANGED <<trades, row>>
      BY <1>2 DEF Match, dbVars
    <2>2. \A i \in trades : tape'[i] = tape[i]
      BY <1>2, MatchExtendsTape DEF TypeOK
    <2> QED
      BY <2>1, <2>2
  <1>3. CASE Commit
    <2>1. /\ trades' = trades \cup booking /\ tape' = tape
          /\ \A i \in booking : row[tape[i].order] # "absent"
          /\ ~stale
      BY <1>3 DEF Commit, ForeignKeysHold, exchangeVars
    <2>2. \A i \in booking : tape[i].order \in Mine
      BY <2>1 DEF SessionInv
    <2>3. \A i \in trades \cup booking : tape[i].order \in Orders
      BY TradeFields DEF TypeOK
    <2> QED
      BY <1>1, <2>1, <2>2, <2>3
  <1>4. CASE UNCHANGED <<tape, trades>>
    <2>1. \A i \in trades : tape[i].order \in Orders
      BY TradeFields DEF TypeOK
    <2> QED
      BY <1>1, <1>4, <2>1
  <1> QED
    BY <1>2, <1>3, <1>4, OrderSteps
       DEF Fetch, SkipTrade, BookTrade, exchangeVars, dbVars

-----------------------------------------------------------------------------
(* The theorems.                                                           *)

LEMMA LedgerInit == Init => LedgerInv
  <1> SUFFICES ASSUME Init PROVE LedgerInv
    OBVIOUS
  <1> USE DEF Init
  <1>1. Ids = {} /\ tape = <<>> /\ positions = <<>> /\ work = <<>>
    BY DEF Ids
  <1>2. TypeOK
    <2>1. left \in [Orders -> Nat]
      OBVIOUS
    <2>2. row \in [Orders -> RowStatus] /\ marks \in [Orders -> RowStatus]
      BY DEF RowStatus
    <2>3. /\ tape \in Seq(TradeType)
          /\ positions \in Seq(PositionType) /\ work \in Seq(PositionType)
      BY <1>1
    <2> QED
      BY <2>1, <2>2, <2>3 DEF TypeOK
  <1>3. CursorInv /\ SessionInv /\ OnlyOwnFillsBooked
    BY DEF CursorInv, SessionInv, OnlyOwnFillsBooked
  <1>4. RowsInv /\ FillsInv
    BY <1>1 DEF RowsInv, BuysOnRows, FillsInv
  <1>5. OrdersInv /\ MarksInv /\ StatusInv
    BY LedgerAssumption DEF OrdersInv, MarksInv, StatusInv
  <1>6. FilledInv
    <2>1. \A o \in Orders : Filled(o) = 0
      BY <1>1, SumEmpty DEF Filled
    <2> QED
      BY <2>1, LedgerAssumption DEF FilledInv
  <1> QED
    BY <1>2, <1>3, <1>4, <1>5, <1>6 DEF LedgerInv, BooksInv

\* Every step of the ledger keeps the books, whatever the statuses say.
LEMMA BooksStep ==
  ASSUME BooksInv, [Next]_vars
  PROVE  BooksInv'
  <1>1. TypeOK' /\ CursorInv' /\ SessionInv' /\ RowsInv'
    BY TypeStep, CursorStep, SessionStep, RowsStep
  <1>2. FillsInv' /\ OrdersInv' /\ FilledInv' /\ MarksInv' /\ OnlyOwnFillsBooked'
    BY <1>1, FillsStep, OrdersStep, FilledStep, MarksStep, OwnStep
  <1> QED
    BY <1>1, <1>2 DEF BooksInv

\* What the bots' own loops do to the orders keeps the books: less rests on the
\* exchange, and rows of accepted orders of the bot change, or appear between
\* two sessions.
LEMMA OrdersMove ==
  ASSUME BooksInv, left' \in [Orders -> Nat], row' \in [Orders -> RowStatus],
         UNCHANGED <<now, accepted, tape, trades, positions, cursor, pc, pending, sessionVars>>,
         \A o \in Orders : left'[o] =< left[o],
         \A o \in Orders : row'[o] # row[o] =>
           /\ o \in accepted \cap Mine /\ row'[o] # "absent"
           /\ row[o] # "absent" \/ pc = "idle"
  PROVE  BooksInv'
  <1>0. /\ left \in [Orders -> Nat] /\ SizeOf \in [Orders -> Nat] /\ TypeOK
        /\ \A i \in Ids : tape[i].order \in Orders /\ tape[i].size \in Nat
        /\ booking \in SUBSET Ids /\ trades \in SUBSET Ids
    BY TradeFields, LedgerAssumption DEF BooksInv, TypeOK
  <1>1. TypeOK' /\ CursorInv'
    BY DEF BooksInv, TypeOK, CursorInv, Ids, sessionVars
  <1>2. RowsInv'
    BY DEF BooksInv, RowsInv, BuysOnRows, IsBuy, sessionVars
  <1>3. FillsInv'
    <2>1. Ids' = Ids /\ tape' = tape /\ accepted' = accepted
      BY DEF Ids
    <2> QED
      BY <1>0, <2>1 DEF BooksInv, FillsInv
  <1>4. OrdersInv'
    <2>1. OrdersInv /\ Mine \in SUBSET Orders
      BY LedgerAssumption DEF BooksInv
    <2>2. \A o \in Orders : left'[o] =< SizeOf[o]
      BY <1>0, <2>1 DEF OrdersInv
    <2>3. \A o \in Orders \ accepted' : left'[o] = 0 /\ row'[o] = "absent"
      BY <1>0, <2>1 DEF OrdersInv
    <2>4. pc' = "placed" =>
            pending' \in accepted' \cap Mine /\ row'[pending'] = "absent"
      BY <2>1 DEF OrdersInv
    <2> QED
      BY <2>2, <2>3, <2>4 DEF OrdersInv
  <1>5. FilledInv'
    <2>1. \A o \in Orders : Filled(o)' = Filled(o) /\ Filled(o) \in Nat
      <3>1. \A o \in Orders : Filled(o)' = Filled(o)
        BY DEF Filled, Ids, Sizes
      <3> QED
        BY <1>0, <3>1, TradesAreTerms
    <2> QED
      BY <1>0, <2>1 DEF BooksInv, FilledInv
  <1>6. MarksInv' /\ OnlyOwnFillsBooked' /\ SessionInv'
    <2>1. \A o \in Orders : /\ row[o] # "absent" => row'[o] # "absent"
                            /\ o \notin Mine => row'[o] = row[o]
      OBVIOUS
    <2>2. MarksInv'
      BY <2>1 DEF BooksInv, MarksInv, FilledBy, sessionVars
    <2>3. OnlyOwnFillsBooked'
      BY <1>0, <2>1 DEF BooksInv, OnlyOwnFillsBooked
    <2>4. SessionInv'
      BY <1>0, <2>1 DEF BooksInv, SessionInv, sessionVars
    <2> QED
      BY <2>2, <2>3, <2>4
  <1> QED
    BY <1>1, <1>2, <1>3, <1>4, <1>5, <1>6 DEF BooksInv

LEMMA LedgerStep ==
  ASSUME LedgerInv, [Next]_vars
  PROVE  LedgerInv'
  <1> QED
    BY BooksStep, StatusStep DEF LedgerInv

\* The strengthened invariant holds in every state of the ledger.
THEOREM LedgerInvariant == Spec => []LedgerInv
  <1>1. LedgerInv /\ [Next]_vars => LedgerInv'
    BY LedgerStep
  <1> QED
    BY LedgerInit, <1>1, PTL DEF Spec

\* Every variable keeps its type (the state of core/portfolio.py's live half).
THEOREM LedgerTypes == Spec => []TypeOK
  <1>1. LedgerInv => TypeOK
    BY DEF LedgerInv, BooksInv
  <1> QED
    BY <1>1, LedgerInvariant, PTL

\* A crash neither loses a booked trade nor imports it again: the Trade rows
\* and the cursor event reach the database together (reconcile_live_fills).
THEOREM LedgerCursor == Spec => []BookedBehindCursor
  <1>1. LedgerInv => BookedBehindCursor
    BY DEF LedgerInv, BooksInv, CursorInv, BookedBehindCursor
  <1> QED
    BY <1>1, LedgerInvariant, PTL

\* Each booked BUY is counted in exactly one position row, however the
\* session's queries pick the row (_apply_to_position).
THEOREM LedgerRows == Spec => []EachBuyInOneRow
  <1>1. LedgerInv => EachBuyInOneRow
    BY DEF LedgerInv, BooksInv, RowsInv, BuysOnRows, EachBuyInOneRow
  <1> QED
    BY <1>1, LedgerInvariant, PTL

\* The bot books fills of its own recorded orders only, whether or not it asks
\* for known orders, and whatever the other bot commits meanwhile.
THEOREM LedgerOwner == Spec => []OnlyOwnFillsBooked
  <1>1. LedgerInv => OnlyOwnFillsBooked
    BY DEF LedgerInv, BooksInv
  <1> QED
    BY <1>1, LedgerInvariant, PTL

\* An order whose row is closed has nothing left to match.
LEMMA ClosedLeavesNothing ==
  ASSUME LedgerInv, NEW o \in Orders, row[o] \notin OpenStatus \cup {"absent"}
  PROVE  left[o] = 0
  <1>1. row[o] \in {"CANCELLED", "matched", "FILLED"} /\ trades \in SUBSET Ids
    BY DEF LedgerInv, BooksInv, TypeOK, RowStatus, OpenStatus
  <1>2. CASE row[o] = "FILLED"
    BY <1>1, <1>2, FilledLeavesNothing DEF LedgerInv, BooksInv, StatusInv
  <1>3. CASE row[o] # "FILLED"
    BY <1>1, <1>3 DEF LedgerInv, BooksInv, StatusInv
  <1> QED
    BY <1>2, <1>3

LEMMA RestingIsOpen == LedgerInv => RestingRowIsOpen
  BY ClosedLeavesNothing, LedgerAssumption DEF RestingRowIsOpen

\* The bot never takes for closed an order that can still match: the makers'
\* cancel and sync, and the fills' statuses, agree with the book.
THEOREM LedgerResting == Spec => []RestingRowIsOpen
  BY RestingIsOpen, LedgerInvariant, PTL

\* A FILLED row is final: a later fill of the order would exceed its size, and
\* the sync and the cancel touch open rows only.
THEOREM LedgerFinal == Spec => FilledIsFinal
  <1>1. LedgerInv /\ [Next]_vars
          => [\A o \in Orders : row[o] = "FILLED" => row'[o] = "FILLED"]_vars
    <2> SUFFICES ASSUME LedgerInv, Next, NEW o \in Orders, row[o] = "FILLED"
                 PROVE  row'[o] = "FILLED"
      OBVIOUS
    <2>1. CASE Commit
      <3>1. trades \in SUBSET Ids /\ booking \subseteq Ids
        BY DEF LedgerInv, BooksInv, TypeOK
      <3>2. \A j \in Ids : tape[j].order = o => j \in trades
        BY <3>1, FilledLeavesNothing DEF LedgerInv, BooksInv, StatusInv
      <3>3. trades \cap booking = {}
        <4>1. TypeOK /\ CursorInv
          BY DEF LedgerInv, BooksInv
        <4> QED
          BY <3>1, <4>1, TradeFields DEF CursorInv, TypeOK
      <3>4. marks[o] = "absent"
        BY <3>1, <3>2, <3>3 DEF LedgerInv, BooksInv, MarksInv
      <3> QED
        BY <2>1, <3>4 DEF Commit
    <2>2. CASE RecordOrder
      BY <2>2 DEF RecordOrder, LedgerInv, BooksInv, TypeOK, OrdersInv
    <2>3. CASE \E q \in Orders : OtherRecords(q)
      BY <2>3 DEF OtherRecords, LedgerInv, BooksInv, TypeOK
    <2>4. CASE \E q \in Mine : CancelOrder(q)
      BY <2>4 DEF CancelOrder, OpenStatus, LedgerInv, BooksInv, TypeOK
    <2>5. CASE SyncOpenOrders
      BY <2>5 DEF SyncOpenOrders, OpenStatus
    <2>6. CASE row' = row
      BY <2>6
    <2> QED
      BY <2>1, <2>2, <2>3, <2>4, <2>5, <2>6
         DEF Next, Exchange, Bot, OtherBot, Faults, Tick, Match, PlaceLimit,
             PlaceLimitLost, OtherPlaces, CancelOrderLost, Fetch, SkipTrade,
             BookTrade, Abort, Crash, dbVars
  <1> QED
    BY <1>1, LedgerInvariant, PTL DEF Spec, FilledIsFinal
-----------------------------------------------------------------------------
(* LiveLedger implements FillJournal.  LedgerInv is not enough: it does    *)
(* not say that a BUY stays on the row it was committed to while the       *)
(* session works on a copy of the rows, nor that only BUYs are put among   *)
(* the `buys' of a row.  WorkInv adds both.                                *)

BuysOnly(rows) == \A p \in 1 .. Len(rows) : \A i \in rows[p].buys : IsBuy(i)

\* No BUY leaves its row in the session's copy.
WorkInv ==
  /\ BuysOnly(positions)
  /\ pc = "session" =>
       /\ BuysOnly(work)
       /\ Len(positions) =< Len(work)
       /\ \A p \in 1 .. Len(positions) : positions[p].buys \subseteq work[p].buys

\* The session starts from the committed rows and only adds BUYs to rows.
LEMMA WorkStep ==
  ASSUME BooksInv, WorkInv, [Next]_vars
  PROVE  WorkInv'
  <1> USE DEF BooksInv, WorkInv
  <1>0. positions \in Seq(PositionType) /\ work \in Seq(PositionType)
    BY DEF TypeOK
  <1>1. ASSUME NEW o \in Orders, NEW n \in 1 .. SizeOf[o], Match(o, n)
        PROVE  WorkInv'
    <2>1. UNCHANGED <<trades, booking, positions, work, pc>>
      BY <1>1 DEF Match, dbVars, sessionVars
    <2>2. \A i \in trades \cup booking : IsBuy(i)' = IsBuy(i)
      BY <1>1, MatchExtendsTape DEF TypeOK, IsBuy
    <2>3. /\ \A p \in 1 .. Len(positions) : positions[p].buys \subseteq trades
          /\ pc = "session" => \A p \in 1 .. Len(work) :
                                work[p].buys \subseteq trades \cup booking
      BY DEF RowsInv, BuysOnRows
    <2> QED
      BY <2>1, <2>2, <2>3 DEF BuysOnly
  <1>2. CASE Fetch
    <2>1. work' = positions /\ positions' = positions /\ tape' = tape
      BY <1>2 DEF Fetch, dbVars, exchangeVars
    <2> QED
      BY <2>1, <1>0 DEF BuysOnly, IsBuy
  <1>3. ASSUME NEW i \in todo, SkipTrade(i)
        PROVE  WorkInv'
    BY <1>3 DEF SkipTrade, dbVars, exchangeVars, BuysOnly, IsBuy
  <1>4. ASSUME NEW i \in todo, BookTrade(i)
        PROVE  WorkInv'
    <2>1. pc = "session" /\ positions' = positions /\ tape' = tape
      BY <1>4 DEF BookTrade, dbVars, exchangeVars
    <2>2. i \in Ids /\ Len(positions) =< Len(work)
      BY <1>4, <2>1 DEF TypeOK
    <2>3. /\ Len(work) =< Len(work') /\ work' \in Seq(PositionType)
          /\ \A q \in 1 .. Len(work) : work[q].buys \subseteq work'[q].buys
          /\ \A q \in 1 .. Len(work') : \A j \in work'[q].buys :
               IsBuy(j) \/ (q =< Len(work) /\ j \in work[q].buys)
      <3>1. CASE IsBuy(i)
        <4>1. ApplyBuy(i)
          BY <1>4, <3>1 DEF BookTrade
        <4>2. /\ work' \in Seq(PositionType) /\ Len(work) =< Len(work')
              /\ \E p \in 1 .. Len(work') : \A q \in 1 .. Len(work') :
                   work'[q].buys = (IF q =< Len(work) THEN work[q].buys ELSE {})
                                     \cup (IF q = p THEN {i} ELSE {})
          BY <2>2, <4>1, BuyEntersOneRow
        <4> QED
          BY <4>2, <1>0, <3>1
      <3>2. CASE ~IsBuy(i)
        <4>1. ApplySell(i)
          BY <1>4, <3>2 DEF BookTrade
        <4> QED
          BY <2>2, <4>1, SellKeepsBuys, <1>0
      <3> QED
        BY <3>1, <3>2
    <2> QED
      BY <2>1, <2>2, <2>3, <1>0 DEF BuysOnly, IsBuy
  <1>5. CASE Commit
    BY <1>5 DEF Commit, EndSession, exchangeVars, BuysOnly, IsBuy
  <1>6. CASE EndSession /\ UNCHANGED <<exchangeVars, dbVars>>
    BY <1>6 DEF EndSession, exchangeVars, dbVars, BuysOnly, IsBuy
  <1>7. CASE /\ UNCHANGED <<tape, positions, work>>
             /\ pc' = "session" <=> pc = "session"
    BY <1>7 DEF BuysOnly, IsBuy
  <1> QED
    BY <1>1, <1>2, <1>3, <1>4, <1>5, <1>6, <1>7, OrderSteps

\* A match is a trade of the journal.
LEMMA MatchIsTrade ==
  ASSUME BooksInv, NEW o \in Orders, NEW n \in 1 .. SizeOf[o], Match(o, n)
  PROVE  Journal!Trade
  <1>1. UNCHANGED <<trades, positions, cursor>>
    BY DEF Match, dbVars
  <1>2. /\ Len(tape') = Len(tape) + 1
        /\ \A i \in Ids : i \in Ids' /\ tape'[i] = tape[i]
    BY MatchExtendsTape DEF BooksInv
  <1>3. \A p \in 1 .. Len(positions) : positions[p].buys \subseteq Ids
    BY DEF BooksInv, RowsInv, BuysOnRows, TypeOK
  <1>4. Homes(positions)' = Homes(positions)
    BY <1>1, <1>2, <1>3 DEF Homes
  <1> QED
    BY <1>1, <1>2, <1>4 DEF Journal!Trade, Journal!Ids, Ids

\* A commit books a batch: each of its BUYs gets one row, and every BUY of the
\* old rows keeps its own.
LEMMA CommitBooks ==
  ASSUME BooksInv, WorkInv, Commit
  PROVE  Journal!Book
  <1> USE DEF BooksInv
  <1>1. /\ pc = "session" /\ tape' = tape
        /\ trades' = trades \cup booking /\ positions' = work
    BY DEF Commit, exchangeVars
  <1>2. /\ positions \in Seq(PositionType) /\ work \in Seq(PositionType)
        /\ Len(positions) =< Len(work)
        /\ \A p \in 1 .. Len(positions) : positions[p].buys \subseteq work[p].buys
    BY <1>1 DEF TypeOK, WorkInv
  <1>3. BuysOnRows(trades, positions) /\ BuysOnRows(trades \cup booking, work)
    BY <1>1 DEF RowsInv
  <1>4. booking \in SUBSET {i \in Ids : tape[i].ts > cursor}
    BY TradeFields DEF TypeOK, CursorInv
  <1>5. /\ cursor =< cursor' /\ \A i \in booking : tape[i].ts =< cursor'
    BY DEF Commit, IsMaxTs, TypeOK
  <1>6. Homes(positions)' = Homes(work)
    BY <1>1 DEF Homes, Ids
  <1>7. Homes(positions) \subseteq Homes(work)
    BY <1>2 DEF Homes
  <1>8. ASSUME NEW h \in Homes(work), h \notin Homes(positions)
        PROVE  h[2] \in booking /\ SideOf[tape[h[2]].order] = "BUY"
    <2>1. PICK p \in 1 .. Len(work), i \in Ids : h = <<p, i>> /\ i \in work[p].buys
      BY <1>8 DEF Homes
    <2>2. i \in trades \cup booking
      BY <2>1, <1>3 DEF BuysOnRows
    <2>3. IsBuy(i)
      BY <2>1, <1>1 DEF WorkInv, BuysOnly
    <2>4. i \notin trades
      <3> SUFFICES ASSUME i \in trades PROVE FALSE
        OBVIOUS
      <3>1. PICK q \in 1 .. Len(positions) : i \in positions[q].buys
        BY <2>3, <1>3 DEF BuysOnRows
      <3>2. q \in 1 .. Len(work) /\ i \in work[q].buys
        BY <3>1, <1>2
      <3>3. p = q
        BY <2>1, <2>2, <2>3, <3>2, <1>3 DEF BuysOnRows
      <3> QED
        BY <2>1, <3>1, <3>3, <1>8 DEF Homes
    <2> QED
      BY <2>1, <2>2, <2>3, <2>4 DEF IsBuy
  <1>9. ASSUME NEW i \in booking, SideOf[tape[i].order] = "BUY"
        PROVE  /\ \E h \in Homes(work) : h[2] = i
               /\ \A h, g \in Homes(work) : h[2] = i /\ g[2] = i => h = g
    <2>1. IsBuy(i) /\ i \in Ids
      BY <1>9 DEF IsBuy, TypeOK
    <2>2. PICK p \in 1 .. Len(work) :
            \A q \in 1 .. Len(work) : i \in work[q].buys <=> p = q
      BY <1>3, <2>1 DEF BuysOnRows
    <2>3. <<p, i>> \in Homes(work)
      BY <2>1, <2>2 DEF Homes
    <2>4. ASSUME NEW h \in Homes(work), h[2] = i
          PROVE  h = <<p, i>>
      BY <2>2, <2>4 DEF Homes
    <2> QED
      BY <2>3, <2>4
  <1>10. Journal!Housed(booking)
    BY <1>6, <1>7, <1>8, <1>9 DEF Journal!Housed
  <1> QED
    BY <1>1, <1>4, <1>5, <1>10 DEF Journal!Book, Journal!Ids, Ids

\* Every step of the ledger is a step of the journal or leaves it as it is.
LEMMA StepOfJournal ==
  ASSUME BooksInv, WorkInv, [Next]_vars
  PROVE  [Journal!Trade \/ Journal!Book]_(Journal!vars)
  <1>1. ASSUME NEW o \in Orders, NEW n \in 1 .. SizeOf[o], Match(o, n)
        PROVE  Journal!Trade
    BY <1>1, MatchIsTrade
  <1>2. CASE Commit
    BY <1>2, CommitBooks
  <1>3. ASSUME UNCHANGED <<tape, trades, positions, cursor>>
        PROVE  UNCHANGED Journal!vars
    BY <1>3 DEF Journal!vars, Homes, Ids
  <1>4. CASE Fetch
    BY <1>3, <1>4 DEF Fetch, exchangeVars, dbVars
  <1>5. ASSUME NEW i \in todo, SkipTrade(i) \/ BookTrade(i)
        PROVE  UNCHANGED <<tape, trades, positions, cursor>>
    BY <1>5 DEF SkipTrade, BookTrade, exchangeVars, dbVars
  <1>6. CASE EndSession /\ UNCHANGED <<exchangeVars, dbVars>>
    BY <1>3, <1>6 DEF exchangeVars, dbVars
  <1> QED
    BY <1>1, <1>2, <1>3, <1>4, <1>5, <1>6, OrderSteps

\* The ledger implements the journal: fills are booked in batches that take
\* effect whole, once, and for good, whatever dies, aborts or is lost.
THEOREM LedgerImplementsJournal == Spec => BooksLikeJournal
  <1>1. Init => WorkInv
    BY DEF Init, WorkInv, BuysOnly
  <1>2. Init => Journal!Init
    BY DEF Init, Journal!Init, Homes
  <1>3. Spec => []WorkInv
    <2>1. LedgerInv /\ WorkInv /\ [Next]_vars => WorkInv'
      BY WorkStep DEF LedgerInv
    <2> QED
      BY <1>1, <2>1, LedgerInvariant, PTL DEF Spec
  <1>4. LedgerInv /\ WorkInv /\ [Next]_vars
          => [Journal!Trade \/ Journal!Book]_(Journal!vars)
    BY StepOfJournal DEF LedgerInv
  <1> QED
    BY <1>2, <1>3, <1>4, LedgerInvariant, PTL
       DEF Spec, BooksLikeJournal, Journal!Spec

-----------------------------------------------------------------------------
(* A fill is skipped only for an earlier trade of its second.              *)

\* Trades carry times in the past, and the cursor is one of them.
TimesInv ==
  /\ now >= 1 /\ \A i \in Ids : tape[i].ts =< now
  /\ cursor = 0 \/ \E j \in Ids : tape[j].ts = cursor

\* An order of the bot that has a row, or will get one if nothing crashes.
Own(o) == o \in Mine /\ (row[o] # "absent" \/ (pc = "placed" /\ pending = o))

\* Trade i is not the first of its second.
Twin(i) == \E j \in Ids : j < i /\ tape[j].ts = tape[i].ts

\* The own trades the cursor has passed are booked; those a session will make it
\* pass are in its answer, unless a trade of their second came before them; and
\* those the session has been through are booked or pending.
SkipInv ==
  /\ TimesInv
  /\ \A i \in Ids : Own(tape[i].order) =>
       /\ tape[i].ts =< cursor => i \in trades \/ Twin(i)
       /\ (\E j \in fetched : tape[i].ts =< tape[j].ts) /\ cursor < tape[i].ts
            => i \in fetched \/ Twin(i)
       /\ i \in fetched \ todo => i \in trades \cup booking

\* The steps that move the clock, the tape or the cursor.
LEMMA TimesStep ==
  ASSUME LedgerInv, TimesInv, [Next]_vars
  PROVE  TimesInv'
  <1> USE DEF TimesInv
  <1>0. now \in Nat /\ cursor \in Nat /\ \A i \in Ids : tape[i].ts \in Nat
    BY TradeFields DEF LedgerInv, BooksInv, TypeOK
  <1>1. CASE Tick
    BY <1>0, <1>1 DEF Tick, Ids, dbVars
  <1>2. ASSUME NEW o \in Orders, NEW n \in 1 .. SizeOf[o], Match(o, n)
        PROVE  TimesInv'
    <2> DEFINE k == Len(tape) + 1
    <2>1. /\ \A i \in Ids : i \in Ids' /\ tape'[i] = tape[i]
          /\ \A i \in Ids' : i \in Ids \/ i = k
          /\ tape'[k] = [order |-> o, size |-> n, ts |-> now]
      BY <1>2, MatchExtendsTape, Zenon DEF LedgerInv, BooksInv
    <2>2. tape'[k].ts = now
      BY <2>1
    <2>3. UNCHANGED <<now, cursor>>
      BY <1>2 DEF Match, dbVars
    <2> HIDE DEF k
    <2>6. \A i \in Ids' : tape'[i].ts =< now
      BY <2>1, <2>2, <1>0
    <2>7. cursor = 0 \/ \E j \in Ids' : tape'[j].ts = cursor
      BY <2>1
    <2> QED
      BY <2>3, <2>6, <2>7
  <1>3. CASE Commit
    <2>1. PICK t \in 0 .. MaxClock : IsMaxTs(t) /\ cursor' = t
      BY <1>3 DEF Commit
    <2>2. t = cursor \/ \E j \in Ids : tape[j].ts = t
      BY <2>1 DEF IsMaxTs, LedgerInv, BooksInv, TypeOK
    <2>3. UNCHANGED <<now, tape>>
      BY <1>3 DEF Commit, exchangeVars
    <2> QED
      BY <2>1, <2>2, <2>3 DEF Ids
  <1>4. CASE UNCHANGED <<now, tape, cursor>>
    BY <1>4 DEF Ids
  <1> QED
    BY <1>1, <1>2, <1>3, <1>4
       DEF Next, Exchange, Bot, OtherBot, Faults, PlaceLimit, PlaceLimitLost,
           RecordOrder, OtherPlaces, OtherRecords, CancelOrder, CancelOrderLost,
           SyncOpenOrders, Fetch, SkipTrade, BookTrade, Abort, Crash, Accept,
           exchangeVars, dbVars, vars

\* An accepted order of the bot gets a row only if it was about to.
LEMMA OwnKept ==
  ASSUME LedgerInv, [Next]_vars, NEW o \in accepted, Own(o)'
  PROVE  Own(o)
  <1> USE DEF Own
  <1>0. o \in Orders /\ row \in [Orders -> RowStatus]
    BY DEF LedgerInv, BooksInv, TypeOK
  <1>1. CASE \E q \in Mine : PlaceLimit(q)
    BY <1>1 DEF PlaceLimit, Accept, dbVars
  <1>2. CASE RecordOrder
    BY <1>2, <1>0 DEF RecordOrder
  <1>3. CASE \E q \in Orders : OtherRecords(q)
    BY <1>3, <1>0 DEF OtherRecords
  <1>4. CASE \E q \in Mine : CancelOrder(q)
    BY <1>4, <1>0 DEF CancelOrder, OpenStatus
  <1>5. CASE SyncOpenOrders
    BY <1>5, <1>0 DEF SyncOpenOrders, OpenStatus
  <1>6. CASE Commit
    BY <1>6, <1>0 DEF Commit, EndSession, LedgerInv, BooksInv, MarksInv
  <1>7. CASE row' = row /\ (pc' # "placed" \/ UNCHANGED <<pc, pending>>)
    BY <1>7
  <1>8. CASE Abort \/ Crash
    BY <1>7, <1>8 DEF Abort, Crash, EndSession, dbVars
  <1> QED
    BY <1>1, <1>2, <1>3, <1>4, <1>5, <1>6, <1>7, <1>8
       DEF Next, Exchange, Bot, OtherBot, Faults, Tick, Match, PlaceLimitLost,
           OtherPlaces, CancelOrderLost, Fetch, SkipTrade, BookTrade,
           dbVars, vars

\* The commit is where the cursor could pass a fill that is not booked.
LEMMA SkipStep ==
  ASSUME LedgerInv, SkipInv, [Next]_vars
  PROVE  SkipInv'
  <1> USE DEF LedgerInv, BooksInv, SkipInv
  <1> DEFINE Seen(i) ==
               /\ tape[i].ts =< cursor => i \in trades \/ Twin(i)
               /\ (\E j \in fetched : tape[i].ts =< tape[j].ts) /\ cursor < tape[i].ts
                    => i \in fetched \/ Twin(i)
               /\ i \in fetched \ todo => i \in trades \cup booking
  <1>a. TimesInv'
    BY TimesStep
  <1>b. \A i \in Ids : tape[i].order \in accepted /\ tape[i].ts \in Nat
    BY TradeFields DEF FillsInv
  <1>c. ASSUME tape' = tape
        PROVE  \A i \in Ids : Own(tape[i].order)' => Own(tape[i].order)
    <2>1. \A o \in accepted : Own(o)' => Own(o)
      BY OwnKept
    <2> QED
      BY <1>b, <1>c, <2>1 DEF Own
  <1>d. fetched \subseteq Ids /\ cursor \in Nat /\ now \in Nat
    BY DEF TypeOK
  <1>e. ASSUME tape' = tape
        PROVE  \A i \in Ids : Twin(i)' <=> Twin(i)
    BY <1>e DEF Twin, Ids
  <1>1. ASSUME NEW o \in Orders, NEW n \in 1 .. SizeOf[o], Match(o, n)
        PROVE  SkipInv'
    <2>0. PICK k \in Nat : k = Len(tape) + 1
      BY DEF TypeOK
    <2>1. UNCHANGED <<row, trades, cursor, pc, pending, fetched, todo, booking, now>>
      BY <1>1 DEF Match, dbVars, sessionVars
    <2>2. /\ \A i \in Ids : i \in Ids' /\ tape'[i] = tape[i] /\ i # k
          /\ \A i \in Ids' : i \in Ids \/ i = k
          /\ tape'[k].ts = now /\ k \in Ids'
      <3>1. /\ \A i \in Ids : i \in Ids' /\ tape'[i] = tape[i]
            /\ \A i \in Ids' : i \in Ids \/ i = k
            /\ tape'[k] = [order |-> o, size |-> n, ts |-> now]
        BY <1>1, <2>0, MatchExtendsTape, Zenon
      <3>2. Len(tape) \in Nat
        BY DEF TypeOK
      <3>3. Len(tape') = Len(tape) + 1
        BY <1>1, MatchExtendsTape, Zenon
      <3>4. tape'[k].ts = now
        BY <3>1
      <3> QED
        BY <2>0, <3>1, <3>2, <3>3, <3>4 DEF Ids
    <2>3. \A j \in Ids : j < k /\ tape[j].ts =< now
      BY <2>0, <1>d DEF TimesInv, Ids, TypeOK
    <2>4. \A j \in Ids : Twin(j) => Twin(j)'
      BY <2>2 DEF Twin
    <2>5. (\E j \in Ids : now =< tape[j].ts) => Twin(k)'
      <3>1. ASSUME NEW j \in Ids, now =< tape[j].ts
            PROVE  Twin(k)'
        <4>1. tape'[j].ts = tape'[k].ts
          BY <2>2, <2>3, <3>1, <1>b, <1>d
        <4> QED
          BY <2>2, <2>3, <4>1 DEF Twin
      <3> QED
        BY <3>1
    <2>6. now =< cursor => Twin(k)'
      BY <2>5, <1>d DEF TimesInv
    <2>7. ASSUME NEW i \in Ids', Own(tape[i].order)'
          PROVE  Seen(i)'
      <3>1. CASE i \in Ids
        <4>1. Own(tape[i].order)
          BY <2>7, <3>1, <2>1, <2>2 DEF Own
        <4>2. Seen(i)
          BY <4>1, <3>1
        <4>3. \A j \in fetched : tape'[j] = tape[j]
          BY <2>2, <1>d
        <4> QED
          BY <4>2, <4>3, <3>1, <2>1, <2>2, <2>4
      <3>2. CASE i = k
        <4>1. tape'[i].ts =< cursor' => Twin(i)'
          BY <3>2, <2>1, <2>2, <2>6
        <4>2. (\E j \in fetched' : tape'[i].ts =< tape'[j].ts) => Twin(i)'
          BY <3>2, <2>1, <2>2, <2>5, <1>d
        <4>3. i \notin fetched'
          BY <3>2, <2>1, <2>3, <1>d
        <4> QED
          BY <4>1, <4>2, <4>3
      <3> QED
        BY <2>2, <3>1, <3>2
    <2> QED
      BY <1>a, <2>7
  <1>2. ASSUME tape' = tape,
               \A i \in Ids : Own(tape[i].order) /\ Seen(i) => Seen(i)'
        PROVE  SkipInv'
    <2>1. Ids' = Ids
      BY <1>2 DEF Ids
    <2>2. \A i \in Ids : Own(tape[i].order)' => Own(tape[i].order)
      BY <1>2, <1>c
    <2>3. \A i \in Ids : Own(tape[i].order)' => Seen(i)'
      BY <1>2, <2>2
    <2> QED
      BY <1>a, <2>1, <2>3
  <1>3. CASE Fetch
    <2>1. /\ UNCHANGED <<tape, trades, cursor>>
          /\ fetched' = {i \in Ids : tape[i].ts > cursor} /\ todo' = fetched'
      BY <1>3 DEF Fetch, exchangeVars, dbVars
    <2>2. \A i \in Ids : Seen(i) => Seen(i)'
      BY <2>1, <1>b, <1>d, <1>e
    <2> QED
      BY <1>2, <2>1, <2>2
  <1>4. ASSUME NEW i \in todo, SkipTrade(i)
        PROVE  SkipInv'
    <2>1. /\ UNCHANGED <<tape, trades, cursor, fetched, booking>>
          /\ todo' = todo \ {i} /\ pc = "session" /\ Skipped(i)
      BY <1>4 DEF SkipTrade, exchangeVars, dbVars
    <2>2. Own(tape[i].order) => i \in trades
      BY <2>1 DEF Skipped, Own
    <2>3. \A j \in Ids : Own(tape[j].order) /\ Seen(j) => Seen(j)'
      BY <2>1, <2>2, <1>e
    <2> QED
      BY <1>2, <2>1, <2>3
  <1>5. ASSUME NEW i \in todo, BookTrade(i)
        PROVE  SkipInv'
    <2>1. /\ UNCHANGED <<tape, trades, cursor, fetched>>
          /\ todo' = todo \ {i} /\ booking' = booking \cup {i}
      BY <1>5 DEF BookTrade, exchangeVars, dbVars
    <2>2. \A j \in Ids : Seen(j) => Seen(j)'
      BY <2>1, <1>e
    <2> QED
      BY <1>2, <2>1, <2>2
  <1>6. CASE Commit
    <2>1. PICK t \in 0 .. MaxClock : IsMaxTs(t) /\ cursor' = t
      BY <1>6 DEF Commit
    <2>2. /\ tape' = tape /\ trades' = trades \cup booking
          /\ todo = {} /\ fetched' = {}
      BY <1>6 DEF Commit, EndSession, exchangeVars
    <2>3. ASSUME NEW i \in Ids, Seen(i), tape[i].ts =< t
          PROVE  i \in trades' \/ Twin(i)
      <3>1. CASE tape[i].ts =< cursor
        BY <2>2, <2>3, <3>1
      <3>2. CASE cursor < tape[i].ts
        <4>1. PICK j \in fetched : tape[j].ts = t
          BY <2>1, <2>3, <3>2, <1>b, <1>d DEF IsMaxTs
        <4>2. i \in fetched \/ Twin(i)
          BY <2>3, <3>2, <4>1
        <4> QED
          BY <2>2, <2>3, <4>2
      <3> QED
        BY <3>1, <3>2, <1>b, <1>d
    <2>4. \A i \in Ids : Seen(i) => Seen(i)'
      BY <2>1, <2>2, <2>3, <1>e
    <2> QED
      BY <1>2, <2>2, <2>4
  <1>7. CASE EndSession /\ UNCHANGED <<exchangeVars, dbVars>>
    <2>1. UNCHANGED <<tape, trades, cursor>> /\ fetched' = {}
      BY <1>7 DEF EndSession, exchangeVars, dbVars
    <2>2. \A i \in Ids : Seen(i) => Seen(i)'
      BY <2>1, <1>e
    <2> QED
      BY <1>2, <2>1, <2>2
  <1>8. CASE UNCHANGED <<tape, trades, cursor, fetched, todo, booking>>
    <2>1. \A i \in Ids : Seen(i) => Seen(i)'
      BY <1>8, <1>e
    <2> QED
      BY <1>2, <1>8, <2>1
  <1> QED
    BY <1>1, <1>3, <1>4, <1>5, <1>6, <1>7, <1>8, OrderSteps

\* Between two polls a fill of a recorded order that the cursor has passed is in
\* the ledger, or it is not the first trade of its second: the cursor keeps whole
\* seconds, so two trades of one second can be split by it.
THEOREM LedgerSkipsNone == Spec => []SkippedSharesItsSecond
  <1>1. Init => SkipInv
    <2> SUFFICES ASSUME Init PROVE SkipInv
      OBVIOUS
    <2>1. Ids = {} /\ now = 1 /\ cursor = 0
      BY DEF Init, Ids
    <2> QED
      BY <2>1 DEF SkipInv, TimesInv
  <1>2. LedgerInv /\ SkipInv /\ [Next]_vars => SkipInv'
    BY SkipStep
  <1>3. SkipInv => SkippedSharesItsSecond
    BY DEF SkipInv, SkippedSharesItsSecond, SkippedFills, Own, Twin, Ids
  <1> QED
    BY <1>1, <1>2, <1>3, LedgerInvariant, PTL DEF Spec

-----------------------------------------------------------------------------
(* The shares of a bot that only buys.                                     *)

BuyOnly == RequireKnown /\ \A o \in Mine : SideOf[o] = "BUY"

\* The shares the rows hold of a set of tokens.
HeldOf(rows, K) ==
  SumFunctionOnSet(Sizes(rows), {p \in 1 .. Len(rows) : rows[p].token \in K})

\* Rows are a finite set of terms.
LEMMA RowsAreTerms ==
  ASSUME NEW rows \in Seq(PositionType)
  PROVE  /\ Len(rows) \in Nat
         /\ \A S \in SUBSET (1 .. Len(rows)) : IsFiniteSet(S)
         /\ \A p \in 1 .. Len(rows) : /\ rows[p] \in PositionType
                                      /\ Sizes(rows)[p] = rows[p].size
                                      /\ Sizes(rows)[p] \in Nat
         /\ \A S \in SUBSET (1 .. Len(rows)) :
              SumFunctionOnSet(Sizes(rows), S) \in Nat
  <1>1. Len(rows) \in Nat
    OBVIOUS
  <1>2. \A S \in SUBSET (1 .. Len(rows)) : IsFiniteSet(S)
    <2>1. IsFiniteSet(1 .. Len(rows))
      BY <1>1, FS_Interval
    <2> QED
      BY <2>1, FS_Subset
  <1>3. ASSUME NEW p \in 1 .. Len(rows)
        PROVE  /\ rows[p] \in PositionType
               /\ Sizes(rows)[p] = rows[p].size
               /\ Sizes(rows)[p] \in Nat
    <2>1. rows[p] \in PositionType
      OBVIOUS
    <2>2. rows[p].size \in Nat
      BY <2>1 DEF PositionType
    <2>3. Sizes(rows)[p] = rows[p].size
      BY DEF Sizes
    <2> QED
      BY <2>1, <2>2, <2>3
  <1>4. ASSUME NEW S \in SUBSET (1 .. Len(rows))
        PROVE  SumFunctionOnSet(Sizes(rows), S) \in Nat
    <2>1. IsFiniteSet(S) /\ \A p \in S : Sizes(rows)[p] \in Nat
      BY <1>2, <1>3
    <2> QED
      BY <2>1, SumType
  <1> QED
    BY <1>1, <1>2, <1>3, <1>4

\* A new row adds its shares.
LEMMA HeldAppend ==
  ASSUME NEW rows \in Seq(PositionType), NEW r \in PositionType, NEW K
  PROVE  HeldOf(Append(rows, r), K)
           = HeldOf(rows, K) + (IF r.token \in K THEN r.size ELSE 0)
  <1> DEFINE new == Append(rows, r)
             T == {p \in 1 .. Len(rows) : rows[p].token \in K}
             U == {p \in 1 .. Len(new) : new[p].token \in K}
             k == Len(rows) + 1
  <1>1. /\ new \in Seq(PositionType) /\ Len(new) = k /\ new[k] = r
        /\ \A p \in 1 .. Len(rows) : new[p] = rows[p] /\ p # k
    OBVIOUS
  <1>2. /\ \A p \in 1 .. Len(rows) : Sizes(rows)[p] = rows[p].size
        /\ \A p \in 1 .. k : /\ Sizes(new)[p] = new[p].size
                             /\ Sizes(new)[p] \in Nat
        /\ Sizes(new)[k] = r.size /\ r.size \in Nat
    <2>1. \A p \in 1 .. Len(rows) : Sizes(rows)[p] = rows[p].size
      BY RowsAreTerms
    <2> HIDE DEF new
    <2>2. \A p \in 1 .. Len(new) : /\ Sizes(new)[p] = new[p].size
                                   /\ Sizes(new)[p] \in Nat
      BY <1>1, RowsAreTerms
    <2>3. k \in 1 .. k
      OBVIOUS
    <2>4. r.size \in Nat
      BY DEF PositionType
    <2> QED
      BY <1>1, <2>1, <2>2, <2>3, <2>4
  <1>3. IsFiniteSet(T) /\ SumFunctionOnSet(Sizes(rows), T) \in Nat
    BY RowsAreTerms
  <1>4. \A p \in T : Sizes(rows)[p] = Sizes(new)[p] /\ Sizes(new)[p] \in Int
    BY <1>1, <1>2
  <1> HIDE DEF new
  <1>5. SumFunctionOnSet(Sizes(new), T) = SumFunctionOnSet(Sizes(rows), T)
    <2> HIDE DEF T
    <2> QED
      BY <1>3, <1>4, SumEqual
  <1>6. CASE r.token \in K
    <2>1. U = T \cup {k} /\ k \notin T
      BY <1>1, <1>6
    <2>2. SumFunctionOnSet(Sizes(new), T \cup {k})
            = SumFunctionOnSet(Sizes(new), T) + Sizes(new)[k]
      <3>1. \A p \in T \cup {k} : Sizes(new)[p] \in Int
        BY <1>2, <1>4
      <3>2. IsFiniteSet(T) /\ k \notin T
        BY <1>3, <2>1
      <3> HIDE DEF T, k
      <3> QED
        BY <3>1, <3>2, SumAdd
    <2>3. SumFunctionOnSet(Sizes(new), U) = SumFunctionOnSet(Sizes(rows), T) + r.size
      BY <1>2, <1>5, <2>1, <2>2
    <2> QED
      BY <1>6, <2>3 DEF HeldOf, new
  <1>7. CASE r.token \notin K
    <2>1. U = T
      BY <1>1, <1>7
    <2>2. SumFunctionOnSet(Sizes(new), U) = SumFunctionOnSet(Sizes(rows), T) + 0
      <3> HIDE DEF T, U
      <3> QED
        BY <1>3, <1>5, <2>1
    <2> QED
      BY <1>7, <2>2 DEF HeldOf, new
  <1> QED
    BY <1>6, <1>7

\* A row that is topped up adds the difference.
LEMMA HeldChange ==
  ASSUME NEW rows \in Seq(PositionType), NEW p \in 1 .. Len(rows),
         NEW r \in PositionType, r.token = rows[p].token, NEW K
  PROVE  HeldOf([rows EXCEPT ![p] = r], K)
           = HeldOf(rows, K) + (IF r.token \in K THEN r.size - rows[p].size ELSE 0)
  <1> DEFINE new == [rows EXCEPT ![p] = r]
             T == {q \in 1 .. Len(rows) : rows[q].token \in K}
  <1>1. /\ new \in Seq(PositionType) /\ Len(new) = Len(rows) /\ new[p] = r
        /\ \A q \in 1 .. Len(rows) : q # p => new[q] = rows[q]
    OBVIOUS
  <1>2. /\ \A q \in 1 .. Len(rows) : /\ Sizes(rows)[q] = rows[q].size
                                     /\ Sizes(rows)[q] \in Int
        /\ \A q \in 1 .. Len(rows) : /\ Sizes(new)[q] = new[q].size
                                     /\ Sizes(new)[q] \in Int
    <2>1. \A q \in 1 .. Len(rows) : /\ Sizes(rows)[q] = rows[q].size
                                    /\ Sizes(rows)[q] \in Nat
      BY RowsAreTerms
    <2> HIDE DEF new
    <2>2. \A q \in 1 .. Len(new) : /\ Sizes(new)[q] = new[q].size
                                   /\ Sizes(new)[q] \in Nat
      BY <1>1, RowsAreTerms
    <2> QED
      BY <1>1, <2>1, <2>2
  <1>3. IsFiniteSet(T) /\ SumFunctionOnSet(Sizes(rows), T) \in Nat
    BY RowsAreTerms
  <1>4. {q \in 1 .. Len(new) : new[q].token \in K} = T
    BY <1>1
  <1>5. HeldOf(new, K) = SumFunctionOnSet(Sizes(new), T)
    BY <1>4 DEF HeldOf
  <1>6. HeldOf(rows, K) = SumFunctionOnSet(Sizes(rows), T)
    BY DEF HeldOf
  <1>7. \A q \in T \ {p} : Sizes(rows)[q] = Sizes(new)[q]
    BY <1>1, <1>2
  <1>8. \A q \in T : Sizes(rows)[q] \in Int /\ Sizes(new)[q] \in Int
    BY <1>2
  <1>9. Sizes(new)[p] = r.size /\ Sizes(rows)[p] = rows[p].size
    BY <1>1, <1>2
  <1>10. (p \in T) <=> (r.token \in K)
    OBVIOUS
  <1> HIDE DEF new, T
  <1>11. CASE p \in T
    <2>1. SumFunctionOnSet(Sizes(new), T)
            = SumFunctionOnSet(Sizes(rows), T) + (Sizes(new)[p] - Sizes(rows)[p])
      <3>1. IsFiniteSet(T)
        BY <1>3
      <3> DEFINE f == Sizes(rows)
                 g == Sizes(new)
                 e == p
      <3>2. e \in T /\ \A q \in T : f[q] \in Int /\ g[q] \in Int
        BY <1>8, <1>11
      <3>3. \A q \in T \ {e} : f[q] = g[q]
        BY <1>7
      <3> HIDE DEF f, g, e
      <3>4. SumFunctionOnSet(g, T) = SumFunctionOnSet(f, T) + (g[e] - f[e])
        BY <3>1, <3>2, <3>3, SumChange
      <3> QED
        BY <3>4 DEF f, g, e
    <2> QED
      BY <1>5, <1>6, <1>9, <1>10, <1>11, <2>1 DEF new
  <1>12. CASE p \notin T
    <2>1. SumFunctionOnSet(Sizes(new), T) = SumFunctionOnSet(Sizes(rows), T)
      BY <1>3, <1>7, <1>12, SumEqual
    <2> QED
      BY <1>3, <1>5, <1>6, <1>10, <1>12, <2>1 DEF new
  <1> QED
    BY <1>11, <1>12

\* The booked shares of a set of tokens grow by the trade's.
LEMMA BookedGrows ==
  ASSUME TypeOK, NEW S \in SUBSET Ids, NEW i \in Ids, i \notin S, NEW K
  PROVE  SumFunctionOnSet(Sizes(tape), {j \in S \cup {i} : TokenOfTrade(j) \in K})
           = SumFunctionOnSet(Sizes(tape), {j \in S : TokenOfTrade(j) \in K})
               + (IF TokenOfTrade(i) \in K THEN tape[i].size ELSE 0)
  <1> DEFINE T == {j \in S : TokenOfTrade(j) \in K}
  <1>1. T \in SUBSET Ids /\ i \notin T
    OBVIOUS
  <1>2. /\ IsFiniteSet(T) /\ SumFunctionOnSet(Sizes(tape), T) \in Nat
        /\ \A j \in T \cup {i} : Sizes(tape)[j] \in Int
        /\ Sizes(tape)[i] = tape[i].size
    BY <1>1, TradesAreTerms
  <1>3. CASE TokenOfTrade(i) \in K
    <2>1. {j \in S \cup {i} : TokenOfTrade(j) \in K} = T \cup {i}
      BY <1>3
    <2>2. SumFunctionOnSet(Sizes(tape), T \cup {i})
            = SumFunctionOnSet(Sizes(tape), T) + Sizes(tape)[i]
      <3> DEFINE f == Sizes(tape)
      <3>1. IsFiniteSet(T) /\ i \notin T /\ \A j \in T \cup {i} : f[j] \in Int
        BY <1>1, <1>2
      <3> HIDE DEF T, f
      <3>2. SumFunctionOnSet(f, T \cup {i}) = SumFunctionOnSet(f, T) + f[i]
        BY <3>1, SumAdd
      <3> QED
        BY <3>2 DEF f
    <2> QED
      BY <1>2, <1>3, <2>1, <2>2
  <1>4. CASE TokenOfTrade(i) \notin K
    <2>1. {j \in S \cup {i} : TokenOfTrade(j) \in K} = T
      BY <1>4
    <2>2. SumFunctionOnSet(Sizes(tape), T) = SumFunctionOnSet(Sizes(tape), T) + 0
      BY <1>2
    <2> QED
      BY <1>4, <2>1, <2>2
  <1> QED
    BY <1>3, <1>4

\* A BUY adds its shares to the rows, whichever row the session's query picks.
LEMMA BuyAddsShares ==
  ASSUME TypeOK, NEW i \in Ids, ApplyBuy(i), Len(positions) =< Len(work),
         \A p \in 1 .. Len(positions) : work[p].token = positions[p].token,
         \A p \in 1 .. Len(work) : work[p].status = "OPEN"
  PROVE  /\ Len(work) =< Len(work')
         /\ \A p \in 1 .. Len(work) : work'[p].token = work[p].token
         /\ \A p \in 1 .. Len(work') : work'[p].status = "OPEN"
         /\ \A K : HeldOf(work', K) = HeldOf(work, K)
                     + (IF TokenOfTrade(i) \in K THEN tape[i].size ELSE 0)
  <1> DEFINE k == TokenOfTrade(i)
             n == tape[i].size
  <1>1. work \in Seq(PositionType) /\ positions \in Seq(PositionType)
    BY DEF TypeOK
  <1>2. n \in Nat /\ k \in Tokens /\ i \in Nat
    BY TradeFields DEF Ids
  <1> HIDE DEF k, n
  <1>3. ASSUME NEW r, r = [token |-> k, size |-> n, status |-> "OPEN",
                           buys |-> {i}, sells |-> {}],
               work' = Append(work, r)
        PROVE  /\ Len(work) =< Len(work')
               /\ \A p \in 1 .. Len(work) : work'[p].token = work[p].token
               /\ \A p \in 1 .. Len(work') : work'[p].status = "OPEN"
               /\ \A K : HeldOf(work', K) = HeldOf(work, K) + (IF k \in K THEN n ELSE 0)
    <2>1. r \in PositionType /\ r.token = k /\ r.size = n /\ r.status = "OPEN"
      BY <1>2, <1>3 DEF PositionType
    <2>2. /\ Len(work') = Len(work) + 1 /\ Len(work) \in Nat
          /\ \A p \in 1 .. Len(work) : work'[p] = work[p]
          /\ work'[Len(work) + 1] = r
      BY <2>1, <1>1, <1>3
    <2>3. \A K : HeldOf(work', K) = HeldOf(work, K) + (IF k \in K THEN n ELSE 0)
      BY <2>1, <1>1, <1>3, HeldAppend
    <2> QED
      BY <2>1, <2>2, <2>3
  <1>4. ASSUME NEW p \in OpenRows(k),
               work' = [work EXCEPT ![p].size = @ + n, ![p].buys = @ \cup {i}]
        PROVE  /\ Len(work) =< Len(work')
               /\ \A q \in 1 .. Len(work) : work'[q].token = work[q].token
               /\ \A q \in 1 .. Len(work') : work'[q].status = "OPEN"
               /\ \A K : HeldOf(work', K) = HeldOf(work, K) + (IF k \in K THEN n ELSE 0)
    <2>1. p \in 1 .. Len(work) /\ work[p].token = k
      BY <1>1 DEF OpenRows
    <2>2. work[p] \in PositionType /\ work[p].status = "OPEN"
      BY <1>1, <2>1
    <2> DEFINE r == [work[p] EXCEPT !.size = @ + n, !.buys = @ \cup {i}]
    <2>3. /\ r \in PositionType /\ r.token = k /\ r.status = "OPEN"
          /\ r.size = work[p].size + n /\ work[p].size \in Nat
      <3>1. /\ work[p].size + n \in Nat /\ work[p].buys \cup {i} \in SUBSET Nat
            /\ work[p].size \in Nat
        BY <2>2, <1>2 DEF PositionType
      <3> QED
        BY <2>1, <2>2, <3>1 DEF PositionType
    <2>4. work' = [work EXCEPT ![p] = r]
      BY <1>4, <1>1, <2>1, <2>2 DEF PositionType
    <2> HIDE DEF r
    <2>5. /\ Len(work') = Len(work) /\ Len(work) \in Nat
          /\ \A q \in 1 .. Len(work) : work'[q] = IF q = p THEN r ELSE work[q]
      BY <2>1, <2>3, <2>4, <1>1
    <2>6. ASSUME NEW K
          PROVE  HeldOf(work', K) = HeldOf(work, K) + (IF k \in K THEN n ELSE 0)
      <3>1. HeldOf(work', K)
              = HeldOf(work, K) + (IF r.token \in K THEN r.size - work[p].size ELSE 0)
        <4>1. r.token = work[p].token
          BY <2>1, <2>3
        <4>2. HeldOf([work EXCEPT ![p] = r], K)
                = HeldOf(work, K) + (IF r.token \in K THEN r.size - work[p].size ELSE 0)
          BY <1>1, <2>1, <2>3, <4>1, HeldChange
        <4> QED
          BY <2>4, <4>2
      <3>2. r.size - work[p].size = n
        BY <2>3, <1>2
      <3> QED
        BY <2>3, <3>1, <3>2
    <2> QED
      BY <2>1, <2>3, <2>5, <2>6
  <1>5. CASE \E p \in OpenRows(k) :
               work' = [work EXCEPT ![p].size = @ + n, ![p].buys = @ \cup {i}]
    <2>1. PICK p \in OpenRows(k) :
               work' = [work EXCEPT ![p].size = @ + n, ![p].buys = @ \cup {i}]
      BY <1>5
    <2> QED
      BY <2>1, <1>4 DEF k, n
  <1>6. CASE work' = Append(work, [token |-> k, size |-> n, status |-> "OPEN",
                                   buys |-> {i}, sells |-> {}])
    BY <1>3, <1>6 DEF k, n
  <1> QED
    BY <1>5, <1>6 DEF ApplyBuy, k, n

\* All the rows are open, and of any set of tokens they hold what was booked.
SharesOn(S, rows) ==
  /\ \A p \in 1 .. Len(rows) : rows[p].status = "OPEN"
  /\ \A K \in SUBSET Tokens :
       HeldOf(rows, K)
         = SumFunctionOnSet(Sizes(tape), {i \in S : TokenOfTrade(i) \in K})

SharesInv ==
  /\ SharesOn(trades, positions)
  /\ pc = "session" =>
       /\ SharesOn(trades \cup booking, work)
       /\ Len(positions) =< Len(work)
       /\ \A p \in 1 .. Len(positions) : work[p].token = positions[p].token

\* A match leaves the booked shares alone.
LEMMA MatchKeepsBooked ==
  ASSUME TypeOK, NEW o \in Orders, NEW n \in 1 .. SizeOf[o], Match(o, n),
         NEW S \in SUBSET Ids, NEW K
  PROVE  SumFunctionOnSet(Sizes(tape)', {i \in S : TokenOfTrade(i)' \in K})
           = SumFunctionOnSet(Sizes(tape), {i \in S : TokenOfTrade(i) \in K})
  <1> DEFINE T == {i \in S : TokenOfTrade(i) \in K}
             f == Sizes(tape)
             g == Sizes(tape)'
  <1>1. \A i \in Ids : i \in Ids' /\ tape'[i] = tape[i]
    BY MatchExtendsTape
  <1>2. {i \in S : TokenOfTrade(i)' \in K} = T
    BY <1>1 DEF TokenOfTrade
  <1>3. \A i \in Ids : f[i] = tape[i].size
    BY DEF Sizes, Ids
  <1>4. \A i \in Ids' : g[i] = tape'[i].size
    BY DEF Sizes, Ids
  <1>5. IsFiniteSet(T)
    BY TradesAreTerms
  <1>6. \A i \in T : f[i] = g[i]
    BY <1>1, <1>3, <1>4
  <1> HIDE DEF T, f, g
  <1>7. SumFunctionOnSet(f, T) = SumFunctionOnSet(g, T)
    BY <1>5, <1>6, SumEqual
  <1> QED
    BY <1>2, <1>7 DEF T, f, g

\* What a session books of a bot that only buys is a BUY of its own.
LEMMA BookedIsBuy ==
  ASSUME LedgerInv, BuyOnly, NEW i \in todo, BookTrade(i)
  PROVE  IsBuy(i)
  BY DEF BuyOnly, BookTrade, Skipped, IsBuy

\* The session adds each BUY to a row of its copy, and commits copy and trades
\* together.
LEMMA SharesStep ==
  ASSUME LedgerInv, SharesInv, BuyOnly, [Next]_vars
  PROVE  SharesInv'
  <1> USE DEF SharesInv
  <1>0. /\ TypeOK
        /\ trades \in SUBSET Ids /\ booking \in SUBSET Ids /\ todo \in SUBSET Ids
        /\ positions \in Seq(PositionType) /\ work \in Seq(PositionType)
    BY DEF LedgerInv, BooksInv, TypeOK
  <1>1. ASSUME NEW o \in Orders, NEW n \in 1 .. SizeOf[o], Match(o, n)
        PROVE  SharesInv'
    <2>1. UNCHANGED <<trades, booking, positions, work, pc>>
      BY <1>1 DEF Match, dbVars, sessionVars
    <2>2. \A S \in SUBSET Ids, K \in SUBSET Tokens :
            SumFunctionOnSet(Sizes(tape)', {i \in S : TokenOfTrade(i)' \in K})
              = SumFunctionOnSet(Sizes(tape), {i \in S : TokenOfTrade(i) \in K})
      BY <1>0, <1>1, MatchKeepsBooked
    <2>3. \A S \in SUBSET Ids : \A rows : SharesOn(S, rows) =>
            /\ \A p \in 1 .. Len(rows) : rows[p].status = "OPEN"
            /\ \A K \in SUBSET Tokens : HeldOf(rows, K) =
                 SumFunctionOnSet(Sizes(tape)', {i \in S : TokenOfTrade(i)' \in K})
      BY <2>2 DEF SharesOn
    <2>4. trades \cup booking \in SUBSET Ids
      BY <1>0
    <2>5. SharesOn(trades, positions)'
      <3>1. SharesOn(trades, positions) /\ trades \in SUBSET Ids
        BY <1>0
      <3> QED
        BY <3>1, <2>1, <2>3 DEF SharesOn
    <2>6. pc = "session" => SharesOn(trades \cup booking, work)'
      BY <2>1, <2>3, <2>4 DEF SharesOn
    <2> QED
      BY <2>1, <2>5, <2>6
  <1>2. CASE Fetch
    <2>1. /\ UNCHANGED <<tape, trades, positions>>
          /\ work' = positions /\ booking' = {}
      BY <1>2 DEF Fetch, exchangeVars, dbVars
    <2>2. SharesOn(trades, positions)'
      BY <2>1 DEF SharesOn, TokenOfTrade
    <2>3. trades' \cup booking' = trades'
      BY <2>1
    <2>4. SharesOn(trades \cup booking, work)'
      BY <2>1, <2>2, <2>3 DEF SharesOn
    <2> QED
      BY <2>1, <2>2, <2>4, <1>0
  <1>3. ASSUME NEW i \in todo, SkipTrade(i)
        PROVE  SharesInv'
    BY <1>3 DEF SkipTrade, exchangeVars, dbVars, SharesOn, TokenOfTrade
  <1>4. ASSUME NEW i \in todo, BookTrade(i)
        PROVE  SharesInv'
    <2>1. /\ pc = "session" /\ pc' = "session"
          /\ UNCHANGED <<tape, trades, positions>>
          /\ booking' = booking \cup {i}
      BY <1>4 DEF BookTrade, exchangeVars, dbVars
    <2>2. i \in Ids /\ i \notin trades \cup booking
      <3>1. i \in Ids
        BY <1>0
      <3>2. tape[i].ts \in Nat /\ cursor \in Nat /\ cursor < tape[i].ts
        BY <3>1, <1>0, TradeFields DEF LedgerInv, BooksInv, CursorInv, TypeOK
      <3>3. i \notin trades
        BY <3>2 DEF LedgerInv, BooksInv, CursorInv
      <3> QED
        BY <3>1, <3>3 DEF LedgerInv, BooksInv, SessionInv
    <2>3. ApplyBuy(i)
      BY <1>4, BookedIsBuy DEF BookTrade
    <2>4. /\ SharesOn(trades \cup booking, work) /\ Len(positions) =< Len(work)
          /\ \A p \in 1 .. Len(positions) : work[p].token = positions[p].token
      BY <2>1
    <2>5. /\ Len(work) =< Len(work')
          /\ \A p \in 1 .. Len(work) : work'[p].token = work[p].token
          /\ \A p \in 1 .. Len(work') : work'[p].status = "OPEN"
          /\ \A K : HeldOf(work', K) = HeldOf(work, K)
                      + (IF TokenOfTrade(i) \in K THEN tape[i].size ELSE 0)
      <3>1. \A p \in 1 .. Len(work) : work[p].status = "OPEN"
        BY <2>4 DEF SharesOn
      <3> QED
        BY <1>0, <2>2, <2>3, <2>4, <3>1, BuyAddsShares
    <2> DEFINE S == trades \cup booking
    <2>6. \A K : SumFunctionOnSet(Sizes(tape), {j \in S \cup {i} : TokenOfTrade(j) \in K})
                   = SumFunctionOnSet(Sizes(tape), {j \in S : TokenOfTrade(j) \in K})
                       + (IF TokenOfTrade(i) \in K THEN tape[i].size ELSE 0)
      <3>1. S \in SUBSET Ids /\ i \notin S
        BY <1>0, <2>2
      <3> HIDE DEF S
      <3> QED
        BY <1>0, <2>2, <3>1, BookedGrows
    <2>7. ASSUME NEW K \in SUBSET Tokens
          PROVE  HeldOf(work', K)
            = SumFunctionOnSet(Sizes(tape), {j \in S \cup {i} : TokenOfTrade(j) \in K})
      <3>1. HeldOf(work, K)
              = SumFunctionOnSet(Sizes(tape), {j \in S : TokenOfTrade(j) \in K})
        BY <2>4 DEF SharesOn
      <3> HIDE DEF S
      <3> QED
        BY <2>5, <2>6, <3>1
    <2>8. (trades \cup booking)' = S \cup {i}
      BY <2>1
    <2>9. SharesOn(trades \cup booking, work)'
      BY <2>1, <2>5, <2>7, <2>8 DEF SharesOn, TokenOfTrade
    <2>10. SharesOn(trades, positions)'
      BY <2>1 DEF SharesOn, TokenOfTrade
    <2>11. /\ Len(positions) =< Len(work')
           /\ \A p \in 1 .. Len(positions) : work'[p].token = positions[p].token
      <3>1. Len(positions) \in Nat /\ Len(work) \in Nat /\ Len(work') \in Int
        <4>1. work' \in Seq(PositionType)
          BY <1>0, <2>2, <2>3, <2>4, BuyEntersOneRow
        <4> QED
          BY <1>0, <4>1
      <3> QED
        BY <2>4, <2>5, <3>1
    <2> QED
      BY <2>1, <2>9, <2>10, <2>11
  <1>5. CASE Commit
    <2>1. /\ pc = "session" /\ pc' = "idle" /\ tape' = tape
          /\ trades' = trades \cup booking /\ positions' = work
      BY <1>5 DEF Commit, EndSession, exchangeVars
    <2>2. SharesOn(trades \cup booking, work)
      BY <2>1
    <2>3. SharesOn(trades, positions)'
      BY <2>1, <2>2 DEF SharesOn, TokenOfTrade
    <2> QED
      BY <2>1, <2>3
  <1>6. CASE EndSession /\ UNCHANGED <<exchangeVars, dbVars>>
    BY <1>6 DEF EndSession, exchangeVars, dbVars, SharesOn, TokenOfTrade
  <1>7. CASE /\ UNCHANGED <<tape, trades, positions, booking, work>>
             /\ pc' = "session" <=> pc = "session"
    BY <1>7 DEF SharesOn, TokenOfTrade
  <1> QED
    BY <1>1, <1>2, <1>3, <1>4, <1>5, <1>6, <1>7, OrderSteps

LEMMA SharesInit == Init => SharesInv
  <1> SUFFICES ASSUME Init PROVE SharesInv
    OBVIOUS
  <1>1. positions = <<>> /\ Len(positions) = 0 /\ trades = {} /\ pc = "idle"
    BY DEF Init
  <1>2. ASSUME NEW K
        PROVE  HeldOf(positions, K) = 0
    <2>1. {p \in 1 .. Len(positions) : positions[p].token \in K} = {}
      BY <1>1
    <2> QED
      BY <2>1, SumEmpty DEF HeldOf
  <1>3. ASSUME NEW K
        PROVE  SumFunctionOnSet(Sizes(tape), {i \in trades : TokenOfTrade(i) \in K}) = 0
    <2>1. {i \in trades : TokenOfTrade(i) \in K} = {}
      BY <1>1
    <2> QED
      BY <2>1, SumEmpty
  <1> QED
    BY <1>1, <1>2, <1>3 DEF SharesInv, SharesOn

\* All the positions of such a bot are open and cost what it has booked.
LEMMA PositionsCostBooked ==
  ASSUME LedgerInv, SharesInv
  PROVE  SumFunctionOnSet(Sizes(positions),
                          {p \in 1 .. Len(positions) : positions[p].status = "OPEN"})
           = SumFunctionOnSet(Sizes(tape), trades)
  <1>1. positions \in Seq(PositionType) /\ trades \in SUBSET Ids /\ TypeOK
    BY DEF LedgerInv, BooksInv, TypeOK
  <1>2. \A p \in 1 .. Len(positions) : positions[p].token \in Tokens
    BY <1>1, RowsAreTerms DEF PositionType
  <1>3. {p \in 1 .. Len(positions) : positions[p].status = "OPEN"}
          = {p \in 1 .. Len(positions) : positions[p].token \in Tokens}
    BY <1>2 DEF SharesInv, SharesOn
  <1>4. {i \in trades : TokenOfTrade(i) \in Tokens} = trades
    BY <1>1, TradeFields
  <1>5. HeldOf(positions, Tokens)
          = SumFunctionOnSet(Sizes(tape), {i \in trades : TokenOfTrade(i) \in Tokens})
    BY DEF SharesInv, SharesOn
  <1> QED
    BY <1>3, <1>4, <1>5 DEF HeldOf

\* So the open rows show, token by token, what is booked as bought.
LEMMA SharesShown ==
  ASSUME LedgerInv, SharesInv, BuyOnly
  PROVE  SharesNotUnderstated
  <1> SUFFICES ASSUME NEW k \in Tokens
               PROVE  OpenShares(k) >= BookedShares(k, "BUY") - BookedShares(k, "SELL")
    BY DEF SharesNotUnderstated
  <1>1. positions \in Seq(PositionType) /\ trades \in SUBSET Ids /\ TypeOK
    BY DEF LedgerInv, BooksInv, TypeOK
  <1>2. \A i \in trades : SideOf[tape[i].order] = "BUY"
    BY DEF BuyOnly, LedgerInv, BooksInv, OnlyOwnFillsBooked
  <1>3. OpenRows(k) = {p \in 1 .. Len(positions) : positions[p].token \in {k}}
    BY DEF OpenRows, SharesInv, SharesOn
  <1>4. {i \in trades : TokenOfTrade(i) = k /\ SideOf[tape[i].order] = "BUY"}
          = {i \in trades : TokenOfTrade(i) \in {k}}
    BY <1>2
  <1>5. {i \in trades : TokenOfTrade(i) = k /\ SideOf[tape[i].order] = "SELL"} = {}
    BY <1>2
  <1>6. HeldOf(positions, {k})
          = SumFunctionOnSet(Sizes(tape), {i \in trades : TokenOfTrade(i) \in {k}})
    BY DEF SharesInv, SharesOn
  <1>7. OpenShares(k) = HeldOf(positions, {k})
    BY <1>3 DEF OpenShares, HeldOf
  <1>8. BookedShares(k, "BUY") = HeldOf(positions, {k})
    BY <1>4, <1>6 DEF BookedShares
  <1>9. BookedShares(k, "SELL") = 0
    BY <1>5, SumEmpty DEF BookedShares
  <1>10. HeldOf(positions, {k}) \in Nat
    BY <1>1, RowsAreTerms DEF HeldOf
  <1> QED
    BY <1>7, <1>8, <1>9, <1>10
=============================================================================
