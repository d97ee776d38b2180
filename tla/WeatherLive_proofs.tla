------------------------- MODULE WeatherLive_proofs -------------------------
(***************************************************************************)
(* Proofs about the weather taker's loop, for every order, size and bound. *)
(* The loop is not a schedule of the ledger's bot: its reviews close rows  *)
(* whatever the exchange answered and its wallet sync closes positions, so *)
(* StatusInv does not hold of it.  BooksInv does; WeatherInv adds where    *)
(* the loop stands and what its statuses are still worth.                  *)
(***************************************************************************)
EXTENDS WeatherLive, LiveLedger_proofs

\* A session is open in the part that books, and in no other.
PartInv ==
  /\ step \in {"fetch", "book", "wallet", "enter", "sync", "stale", "collapse", "exit"}
  /\ step = "book" <=> pc = "session"

\* An order the CLOB matched at once has nothing left to match.
MatchedInv == \A o \in Orders : row[o] = "matched" => left[o] = 0

WeatherInv ==
  /\ BooksInv /\ WorkInv
  /\ PartInv
  /\ accepted \subseteq Mine
  /\ MatchedInv
  /\ FilledMeansBooked

-----------------------------------------------------------------------------
(* What the steps of the loop do to the ledger.                            *)

\* A review closes one open row, or none, and less may rest on the exchange.
Reviewed ==
  \E o \in Mine : row[o] \in OpenStatus /\ (RowCancelled(o) \/ CancelRaised(o))

\* Four steps of the loop are not the ledger's.
LEMMA LoopSteps ==
  ASSUME [WeatherNext]_weatherVars
  PROVE  [Next]_vars \/ WalletSync \/ SyncBuys \/ Reviewed
  <1>1. CASE StepEnds
    BY <1>1 DEF StepEnds
  <1>2. CASE LoopFetch
    BY <1>2 DEF LoopFetch, Next, Bot
  <1>3. CASE LoopBook
    BY <1>3 DEF LoopBook, Next, Bot
  <1>4. CASE Record
    BY <1>4 DEF Record, Next, Bot
  <1>5. ASSUME NEW o \in Mine, Enter(o) \/ Exit(o)
        PROVE  Next
    BY <1>5 DEF Enter, Exit, Next, Bot, Faults
  <1>6. ASSUME NEW o \in Mine, CancelStaleExit(o) \/ CancelEntry(o) \/ CancelLost(o)
        PROVE  Reviewed
    BY <1>6 DEF CancelStaleExit, CancelEntry, CancelLost, OpenRowsOf, Reviewed
  <1>7. CASE LoopCrash
    BY <1>7 DEF LoopCrash, Next, Faults
  <1>8. CASE World
    BY <1>8 DEF World, Next
  <1>9. CASE UNCHANGED weatherVars
    BY <1>9 DEF weatherVars
  <1> QED
    BY <1>1, <1>2, <1>3, <1>4, <1>5, <1>6, <1>7, <1>8, <1>9
       DEF WeatherNext, SteadyNext, Loop

\* The reviews and the order sync change statuses and resting sizes only.
LEMMA ReviewsMoveOrders ==
  ASSUME BooksInv, SyncBuys \/ Reviewed
  PROVE  /\ BooksInv'
         /\ UNCHANGED <<tape, trades, positions, cursor, accepted, pc, sessionVars>>
         /\ \A o \in Orders :
              /\ left'[o] =< left[o]
              /\ \/ row'[o] = row[o]
                 \/ row'[o] = "CANCELLED"
                 \/ row'[o] = "FILLED" /\ BookedOf(o) >= SizeOf[o]
  <1>0. /\ left \in [Orders -> Nat] /\ row \in [Orders -> RowStatus] /\ Mine \in SUBSET Orders
        /\ \A o \in Orders : row[o] # "absent" => o \in accepted
    BY LedgerAssumption DEF BooksInv, TypeOK, OrdersInv
  <1>1. CASE SyncBuys
    <2> DEFINE gone == {o \in OpenRowsOf("BUY") : left[o] = 0}
    <2>1. /\ row' = [o \in Orders |-> IF o \in gone THEN SyncedStatus(o) ELSE row[o]]
          /\ UNCHANGED <<exchangeVars, trades, positions, cursor, pc, pending, sessionVars>>
      BY <1>1 DEF SyncBuys
    <2>2. \A o \in gone : o \in Mine /\ row[o] \in {"live", "PARTIAL"}
      BY DEF OpenRowsOf, OpenStatus
    <2>3. \A o \in Orders : \/ SyncedStatus(o) = "CANCELLED"
                            \/ SyncedStatus(o) = "FILLED" /\ BookedOf(o) >= SizeOf[o]
      BY DEF SyncedStatus
    <2> HIDE DEF gone
    <2>4. row' \in [Orders -> RowStatus]
      BY <1>0, <2>1, <2>3 DEF RowStatus
    <2>5. left' = left /\ \A o \in Orders : left'[o] =< left[o]
      BY <1>0, <2>1 DEF exchangeVars
    <2>6. \A o \in Orders : row'[o] # row[o] =>
            o \in accepted \cap Mine /\ row'[o] # "absent" /\ row[o] # "absent"
      BY <1>0, <2>1, <2>2, <2>3
    <2>7. BooksInv'
      BY <1>0, <2>1, <2>4, <2>5, <2>6, OrdersMove DEF exchangeVars
    <2> QED
      BY <2>1, <2>3, <2>5, <2>7 DEF exchangeVars
  <1>2. CASE Reviewed
    <2>1. PICK q \in Mine : row[q] \in OpenStatus /\ (RowCancelled(q) \/ CancelRaised(q))
      BY <1>2 DEF Reviewed
    <2>2. /\ left' \in {left, [left EXCEPT ![q] = 0]}
          /\ row' \in {row, [row EXCEPT ![q] = "CANCELLED"]}
          /\ UNCHANGED <<now, accepted, tape, trades, positions, cursor, pc, pending, sessionVars>>
      BY <2>1 DEF RowCancelled, CancelRaised, dbVars
    <2>3. left' \in [Orders -> Nat] /\ \A o \in Orders : left'[o] =< left[o]
      BY <1>0, <2>2
    <2>4. row' \in [Orders -> RowStatus]
      BY <1>0, <2>2 DEF RowStatus
    <2>5. \A o \in Orders : row'[o] # row[o] =>
            o \in accepted \cap Mine /\ row'[o] = "CANCELLED" /\ row[o] # "absent"
      BY <1>0, <2>1, <2>2 DEF OpenStatus
    <2>6. BooksInv'
      BY <1>0, <2>2, <2>3, <2>4, <2>5, OrdersMove
    <2> QED
      BY <2>2, <2>3, <2>5, <2>6
  <1> QED
    BY <1>1, <1>2

\* The wallet sync changes the status of position rows, and no BUY leaves its row.
LEMMA WalletMovesStatus ==
  ASSUME TypeOK, WalletSync
  PROVE  /\ positions' \in Seq(PositionType) /\ Len(positions') = Len(positions)
         /\ \A p \in 1 .. Len(positions) : positions'[p].buys = positions[p].buys
         /\ UNCHANGED <<exchangeVars, row, trades, cursor, pc, pending, sessionVars>>
         /\ step = "wallet" /\ step' = "enter"
  <1> DEFINE Swept(p) == IF p \in GhostRows THEN [positions[p] EXCEPT !.status = "CLOSED"]
                         ELSE positions[p]
  <1>1. positions' = [p \in 1 .. Len(positions) |-> Swept(p)]
    BY DEF WalletSync
  <1>2. \A p \in 1 .. Len(positions) : positions[p] \in PositionType
    BY DEF TypeOK
  <1>3. \A p \in 1 .. Len(positions) : /\ Swept(p) \in PositionType
                                       /\ Swept(p).buys = positions[p].buys
    BY <1>2 DEF PositionType
  <1> HIDE DEF Swept
  <1>4. Len(positions) \in Nat
    BY DEF TypeOK
  <1>5. positions' \in Seq(PositionType) /\ Len(positions') = Len(positions)
    BY <1>1, <1>3, <1>4
  <1>6. \A p \in 1 .. Len(positions) : positions'[p] = Swept(p)
    BY <1>1
  <1> QED
    BY <1>3, <1>5, <1>6 DEF WalletSync

LEMMA WalletKeepsBooks ==
  ASSUME BooksInv, WorkInv, PartInv, WalletSync
  PROVE  BooksInv' /\ WorkInv' /\ UNCHANGED Journal!vars
  <1>0. /\ positions' \in Seq(PositionType) /\ Len(positions') = Len(positions)
        /\ \A p \in 1 .. Len(positions) : positions'[p].buys = positions[p].buys
        /\ UNCHANGED <<exchangeVars, row, trades, cursor, pc, pending, sessionVars>>
        /\ pc # "session"
    BY WalletMovesStatus DEF BooksInv, PartInv
  <1>1. TypeOK' /\ CursorInv' /\ SessionInv' /\ MarksInv'
    BY <1>0 DEF BooksInv, TypeOK, CursorInv, SessionInv, MarksInv, FilledBy, Ids,
                exchangeVars, sessionVars
  <1>2. RowsInv'
    <2>1. BuysOnRows(trades, positions)
      BY DEF BooksInv, RowsInv
    <2>2. BuysOnRows(trades, positions)'
      <3>1. /\ trades' = trades /\ tape' = tape
            /\ 1 .. Len(positions') = 1 .. Len(positions)
        BY <1>0 DEF exchangeVars
      <3>2. \A p \in 1 .. Len(positions') : positions'[p].buys \subseteq trades'
        BY <1>0, <2>1, <3>1 DEF BuysOnRows
      <3>3. ASSUME NEW i \in trades, IsBuy(i)
            PROVE  \E p \in 1 .. Len(positions') :
                     \A q \in 1 .. Len(positions') : i \in positions'[q].buys <=> p = q
        <4>1. PICK p \in 1 .. Len(positions) :
                \A q \in 1 .. Len(positions) : i \in positions[q].buys <=> p = q
          BY <2>1, <3>3 DEF BuysOnRows
        <4>2. \A q \in 1 .. Len(positions) : positions'[q].buys = positions[q].buys
          BY <1>0
        <4>3. \A q \in 1 .. Len(positions) : i \in positions'[q].buys <=> p = q
          BY <4>1, <4>2
        <4> QED
          BY <3>1, <4>3
      <3> QED
        BY <3>1, <3>2, <3>3 DEF BuysOnRows, IsBuy
    <2> QED
      BY <1>0, <2>2 DEF RowsInv
  <1>3. FillsInv' /\ OrdersInv' /\ FilledInv' /\ OnlyOwnFillsBooked'
    BY <1>0 DEF BooksInv, FillsInv, OrdersInv, FilledInv, Filled, Sizes,
                OnlyOwnFillsBooked, Ids, exchangeVars
  <1>4. WorkInv'
    BY <1>0 DEF WorkInv, BuysOnly, IsBuy, exchangeVars
  <1>5. UNCHANGED Journal!vars
    <2>1. Homes(positions)' = Homes(positions)
      BY <1>0 DEF Homes, Ids, exchangeVars
    <2> QED
      BY <1>0, <2>1 DEF Journal!vars, exchangeVars
  <1> QED
    BY <1>1, <1>2, <1>3, <1>4, <1>5 DEF BooksInv

\* Whatever the loop does, the books are kept as the journal has it.
LEMMA LoopKeepsBooks ==
  ASSUME BooksInv, WorkInv, PartInv, [WeatherNext]_weatherVars
  PROVE  BooksInv' /\ WorkInv' /\ [Journal!Trade \/ Journal!Book]_(Journal!vars)
  <1>1. CASE [Next]_vars
    BY <1>1, BooksStep, WorkStep, StepOfJournal
  <1>2. CASE WalletSync
    BY <1>2, WalletKeepsBooks
  <1>3. CASE SyncBuys \/ Reviewed
    <2>1. /\ BooksInv'
          /\ UNCHANGED <<tape, trades, positions, cursor, pc, sessionVars>>
      BY <1>3, ReviewsMoveOrders
    <2>2. WorkInv'
      BY <2>1 DEF WorkInv, BuysOnly, IsBuy, sessionVars
    <2>3. UNCHANGED Journal!vars
      BY <2>1 DEF Journal!vars, Homes, Ids
    <2> QED
      BY <2>1, <2>2, <2>3
  <1> QED
    BY <1>1, <1>2, <1>3, LoopSteps

-----------------------------------------------------------------------------
(* Where the loop stands, and what its statuses say.                       *)

LEMMA PartStep ==
  ASSUME PartInv, [WeatherNext]_weatherVars
  PROVE  PartInv'
  <1> USE DEF PartInv
  <1>1. CASE StepEnds
    BY <1>1 DEF StepEnds, NextStep, vars
  <1>2. CASE LoopFetch
    BY <1>2 DEF LoopFetch, Fetch
  <1>3. CASE LoopBook
    BY <1>3 DEF LoopBook, SkipTrade, BookTrade, Commit, Abort, EndSession
  <1>4. CASE WalletSync
    BY <1>4 DEF WalletSync
  <1>5. CASE Record
    BY <1>5 DEF Record, RecordOrder
  <1>6. CASE SyncBuys
    BY <1>6 DEF SyncBuys
  <1>7. ASSUME NEW o \in Mine, Enter(o) \/ Exit(o)
        PROVE  PartInv'
    BY <1>7 DEF Enter, Exit, PlaceLimit, PlaceLimitLost
  <1>8. ASSUME NEW o \in Mine, CancelStaleExit(o) \/ CancelEntry(o) \/ CancelLost(o)
        PROVE  PartInv'
    BY <1>8 DEF CancelStaleExit, CancelEntry, CancelLost, RowCancelled, CancelRaised
  <1>9. CASE LoopCrash
    BY <1>9 DEF LoopCrash, Crash, EndSession, vars
  <1>10. CASE World
    BY <1>10 DEF World, Exchange, Tick, Match
  <1>11. CASE UNCHANGED weatherVars
    BY <1>11 DEF weatherVars, vars
  <1> QED
    BY <1>1, <1>2, <1>3, <1>4, <1>5, <1>6, <1>7, <1>8, <1>9, <1>10, <1>11
       DEF WeatherNext, SteadyNext, Loop

\* Only an entry or an exit of the bot adds an order, and it is an exit only if
\* no exit of its token has an open row.
LEMMA OnlyOwnAccepted ==
  ASSUME [WeatherNext]_weatherVars, NEW o \in accepted' \ accepted
  PROVE  o \in Mine /\ (IsSell(o) => MayExit(o))
  <1>1. CASE UNCHANGED accepted
    BY <1>1
  <1>2. ASSUME NEW q \in Mine, Enter(q) \/ Exit(q)
        PROVE  o \in Mine /\ (IsSell(o) => MayExit(o))
    <2>1. accepted' = accepted \cup {q}
      BY <1>2 DEF Enter, Exit, PlaceLimit, PlaceLimitLost, Accept
    <2>2. o = q
      BY <2>1
    <2> QED
      BY <1>2, <2>2 DEF Enter, Exit
  <1>3. CASE StepEnds \/ LoopFetch \/ LoopBook \/ WalletSync \/ Record \/ SyncBuys
    BY <1>1, <1>3 DEF StepEnds, LoopFetch, LoopBook, WalletSync, Record, SyncBuys, Fetch,
                      SkipTrade, BookTrade, Commit, Abort, RecordOrder, exchangeVars, vars
  <1>4. ASSUME NEW q \in Mine, CancelStaleExit(q) \/ CancelEntry(q) \/ CancelLost(q)
        PROVE  UNCHANGED accepted
    BY <1>4 DEF CancelStaleExit, CancelEntry, CancelLost, RowCancelled, CancelRaised
  <1>5. CASE LoopCrash \/ World \/ UNCHANGED weatherVars
    BY <1>1, <1>5 DEF LoopCrash, World, Crash, Exchange, Tick, Match, exchangeVars,
                      weatherVars, vars
  <1> QED
    BY <1>1, <1>2, <1>3, <1>4, <1>5 DEF WeatherNext, SteadyNext, Loop

\* What a step of the ledger's bot does to the statuses and the resting sizes.
LEMMA LedgerMovesRows ==
  ASSUME BooksInv, [Next]_vars, NEW o \in Orders
  PROVE  /\ \/ row'[o] \in {row[o], "live", "PARTIAL", "CANCELLED"}
            \/ row'[o] = "matched" /\ left'[o] = 0
            \/ row'[o] = "FILLED" /\ Commit /\ marks[o] = "FILLED"
         /\ o \in accepted => left'[o] =< left[o]
  <1>0. /\ left \in [Orders -> Nat] /\ row \in [Orders -> RowStatus]
        /\ pc = "placed" => pending \in Orders
        /\ marks[o] \in {"absent", "PARTIAL", "FILLED"}
    BY LedgerAssumption DEF BooksInv, TypeOK, OrdersInv, MarksInv
  <1>1. CASE Commit
    BY <1>0, <1>1 DEF Commit, exchangeVars
  <1>2. CASE RecordOrder
    BY <1>0, <1>2 DEF RecordOrder, exchangeVars
  <1>3. ASSUME NEW q \in Orders, OtherRecords(q)
        PROVE  row'[o] \in {row[o], "live"} /\ left' = left
    BY <1>0, <1>3 DEF OtherRecords, exchangeVars
  <1>4. ASSUME NEW q \in Mine, CancelOrder(q) \/ CancelOrderLost(q)
        PROVE  row'[o] \in {row[o], "CANCELLED"} /\ left'[o] =< left[o]
    BY <1>0, <1>4 DEF CancelOrder, CancelOrderLost, dbVars
  <1>5. CASE SyncOpenOrders
    BY <1>0, <1>5 DEF SyncOpenOrders, exchangeVars
  <1>6. ASSUME NEW q \in Orders, NEW n \in 1 .. SizeOf[q], Match(q, n)
        PROVE  row' = row /\ left'[o] =< left[o]
    <2>1. SizeOf[q] \in Nat /\ n \in Nat
      BY LedgerAssumption
    <2> QED
      BY <1>0, <1>6, <2>1 DEF Match, dbVars
  <1>7. ASSUME NEW q \in Orders, Accept(q), UNCHANGED dbVars
        PROVE  row' = row /\ (o \in accepted => left'[o] = left[o])
    BY <1>0, <1>7 DEF Accept, dbVars
  <1>8. CASE UNCHANGED <<row, left>>
    BY <1>0, <1>8
  <1>9. CASE OtherBot \/ \E q \in Mine : PlaceLimit(q) \/ PlaceLimitLost(q)
    BY <1>0, <1>3, <1>7, <1>9, LedgerAssumption DEF OtherBot, OtherPlaces, PlaceLimit, PlaceLimitLost
  <1>10. CASE Fetch \/ Abort \/ Crash \/ Tick \/ UNCHANGED vars
    BY <1>8, <1>10 DEF Fetch, Abort, Crash, Tick, exchangeVars, dbVars, vars
  <1>11. ASSUME NEW i \in todo, SkipTrade(i) \/ BookTrade(i)
         PROVE  UNCHANGED <<row, left>>
    BY <1>11 DEF SkipTrade, BookTrade, exchangeVars, dbVars
  <1> QED
    BY <1>0, <1>1, <1>2, <1>4, <1>5, <1>6, <1>8, <1>9, <1>10, <1>11
       DEF Next, Exchange, Bot, Faults

\* What is booked of an order is not taken back.
LEMMA BookedStays ==
  ASSUME BooksInv, [WeatherNext]_weatherVars, NEW o \in Orders
  PROVE  /\ BookedOf(o) \in Nat /\ BookedOf(o)' \in Nat
         /\ BookedOf(o)' >= BookedOf(o)
  <1> DEFINE S == {i \in trades : tape[i].order = o}
  <1>0. TypeOK /\ trades \in SUBSET Ids /\ S \in SUBSET Ids /\ S \in SUBSET trades
    BY DEF BooksInv, TypeOK
  <1>1. BookedOf(o) \in Nat
    BY <1>0, TradesAreTerms DEF BookedOf
  <1>2. ASSUME UNCHANGED <<tape, trades>>
        PROVE  BookedOf(o)' = BookedOf(o)
    BY <1>2 DEF BookedOf, Sizes
  <1>3. CASE Commit
    <2> DEFINE R == {i \in trades \cup booking : tape[i].order = o}
    <2>1. tape' = tape /\ trades' = trades \cup booking /\ R \in SUBSET Ids
      BY <1>0, <1>3 DEF Commit, exchangeVars, TypeOK
    <2>2. BookedOf(o)' = SumFunctionOnSet(Sizes(tape), R)
      BY <2>1 DEF BookedOf, Sizes
    <2>3. SumFunctionOnSet(Sizes(tape), S) =< SumFunctionOnSet(Sizes(tape), R)
      <3> DEFINE f == Sizes(tape)
      <3>1. IsFiniteSet(R) /\ S \in SUBSET R /\ \A i \in R : f[i] \in Nat
        BY <1>0, <2>1, TradesAreTerms
      <3> HIDE DEF f, S, R
      <3> QED
        BY <3>1, SumSubset DEF f
    <2> QED
      BY <1>0, <1>1, <2>1, <2>2, <2>3, TradesAreTerms DEF BookedOf
  <1>4. ASSUME NEW q \in Orders, NEW n \in 1 .. SizeOf[q], Match(q, n)
        PROVE  BookedOf(o)' = BookedOf(o)
    <2>1. /\ trades' = trades
          /\ \A i \in Ids : i \in Ids' /\ tape'[i] = tape[i]
      BY <1>0, <1>4, MatchExtendsTape DEF Match, dbVars
    <2>2. {i \in trades' : tape'[i].order = o} = S
      BY <1>0, <2>1
    <2>3. IsFiniteSet(S) /\ \A i \in S : Sizes(tape)[i] = Sizes(tape)'[i]
      BY <1>0, <2>1, TradesAreTerms DEF Sizes, Ids
    <2>4. SumFunctionOnSet(Sizes(tape), S) = SumFunctionOnSet(Sizes(tape)', S)
      BY <2>3, SumEqual
    <2> QED
      BY <2>2, <2>4 DEF BookedOf
  <1>5. CASE [Next]_vars
    <2>1. ASSUME NEW i \in todo, SkipTrade(i) \/ BookTrade(i)
          PROVE  UNCHANGED <<tape, trades>>
      BY <2>1 DEF SkipTrade, BookTrade, exchangeVars, dbVars
    <2>2. CASE Fetch \/ (EndSession /\ UNCHANGED <<exchangeVars, dbVars>>)
      BY <1>1, <1>2, <2>2 DEF Fetch, exchangeVars, dbVars
    <2> QED
      BY <1>1, <1>2, <1>3, <1>4, <1>5, <2>1, <2>2, OrderSteps
  <1>6. CASE WalletSync \/ SyncBuys \/ Reviewed
    BY <1>0, <1>1, <1>2, <1>6, WalletMovesStatus, ReviewsMoveOrders DEF exchangeVars
  <1> QED
    BY <1>1, <1>5, <1>6, LoopSteps

\* A row is FILLED by a fill of the whole order, or by the sync when the trades
\* add up to it; either way it is booked by then.
LEMMA StatusesStep ==
  ASSUME WeatherInv, BooksInv', [WeatherNext]_weatherVars
  PROVE  MatchedInv' /\ FilledMeansBooked'
  <1> USE DEF WeatherInv
  <1>0. /\ Mine \in SUBSET Orders /\ left \in [Orders -> Nat] /\ left' \in [Orders -> Nat]
        /\ SizeOf \in [Orders -> Nat]
        /\ \A o \in Orders : row[o] # "absent" => o \in accepted
    BY LedgerAssumption DEF BooksInv, TypeOK, OrdersInv
  <1>1. \A o \in Orders : /\ BookedOf(o) \in Nat /\ BookedOf(o)' \in Nat
                          /\ BookedOf(o)' >= BookedOf(o)
    BY BookedStays
  <1>2. ASSUME NEW o \in Orders
        PROVE  /\ \/ row'[o] \in {row[o], "live", "PARTIAL", "CANCELLED"}
                  \/ row'[o] = "matched" /\ left'[o] = 0
                  \/ row'[o] = "FILLED" /\ BookedOf(o)' >= SizeOf[o]
               /\ o \in accepted => left'[o] =< left[o]
    <2>1. CASE [Next]_vars
      <3>1. ASSUME Commit, marks[o] = "FILLED"
            PROVE  BookedOf(o)' >= SizeOf[o]
        <4> DEFINE R == {i \in trades \cup booking : tape[i].order = o}
        <4>1. TypeOK /\ tape' = tape /\ trades' = trades \cup booking /\ R \in SUBSET Ids
          BY <3>1 DEF Commit, exchangeVars, BooksInv, TypeOK
        <4>2. PICK i \in booking : tape[i].order = o /\ tape[i].size = SizeOf[o]
          BY <3>1 DEF BooksInv, MarksInv, FilledBy
        <4>3. SizeOf[o] =< SumFunctionOnSet(Sizes(tape), R)
          <5> DEFINE f == Sizes(tape)
          <5>1. /\ IsFiniteSet(R) /\ \A j \in R : f[j] \in Nat
                /\ i \in R /\ f[i] = SizeOf[o]
            BY <4>1, <4>2, TradesAreTerms
          <5> HIDE DEF f, R
          <5>2. f[i] =< SumFunctionOnSet(f, R)
            BY <5>1, SumTerm
          <5> QED
            BY <5>1, <5>2 DEF f
        <4>4. BookedOf(o)' = SumFunctionOnSet(Sizes(tape), R)
          BY <4>1 DEF BookedOf, Sizes
        <4> HIDE DEF R
        <4> QED
          BY <1>0, <1>1, <4>3, <4>4
      <3> QED
        BY <2>1, <3>1, LedgerMovesRows
    <2>2. CASE WalletSync
      <3>1. UNCHANGED <<row, left>>
        BY <2>2 DEF WalletSync, exchangeVars
      <3> QED
        BY <1>0, <3>1
    <2>3. CASE SyncBuys \/ Reviewed
      <3>1. /\ left'[o] =< left[o]
            /\ \/ row'[o] = row[o] \/ row'[o] = "CANCELLED"
               \/ row'[o] = "FILLED" /\ BookedOf(o) >= SizeOf[o]
        BY <2>3, ReviewsMoveOrders
      <3> QED
        BY <1>0, <1>1, <3>1
    <2> QED
      BY <2>1, <2>2, <2>3, LoopSteps
  <1>3. MatchedInv'
    BY <1>0, <1>2 DEF MatchedInv
  <1>4. FilledMeansBooked'
    BY <1>0, <1>1, <1>2 DEF FilledMeansBooked
  <1> QED
    BY <1>3, <1>4

-----------------------------------------------------------------------------
(* The theorems.                                                           *)

LEMMA WeatherStep ==
  ASSUME WeatherInv, [WeatherNext]_weatherVars
  PROVE  WeatherInv'
  <1>1. BooksInv' /\ WorkInv' /\ PartInv'
    BY LoopKeepsBooks, PartStep DEF WeatherInv
  <1>2. MatchedInv' /\ FilledMeansBooked'
    BY <1>1, StatusesStep
  <1>3. accepted' \subseteq Mine
    BY OnlyOwnAccepted DEF WeatherInv
  <1> QED
    BY <1>1, <1>2, <1>3 DEF WeatherInv

\* The books are kept under the weather taker's loop too, where neither a CANCELLED
\* nor a FILLED row means what it means to the ledger's own bot.
THEOREM WeatherInvariant == WeatherSpec => []WeatherInv
  <1>1. WeatherInit => WeatherInv
    <2> SUFFICES ASSUME WeatherInit PROVE WeatherInv
      OBVIOUS
    <2>1. Init /\ step = "fetch"
      BY DEF WeatherInit
    <2>2. BooksInv
      BY <2>1, LedgerInit DEF LedgerInv
    <2>3. WorkInv /\ PartInv /\ accepted \subseteq Mine
      BY <2>1 DEF WorkInv, BuysOnly, PartInv, Init
    <2>4. MatchedInv /\ FilledMeansBooked
      BY <2>1, LedgerAssumption DEF MatchedInv, FilledMeansBooked, Init
    <2> QED
      BY <2>2, <2>3, <2>4 DEF WeatherInv
  <1>2. WeatherInv /\ [WeatherNext]_weatherVars => WeatherInv'
    BY WeatherStep
  <1> QED
    BY <1>1, <1>2, PTL DEF WeatherSpec

\* A FILLED row is backed by booked trades for the whole order, in however many
\* parts (_sync_live_open_order_statuses beside _do_on_fill).
THEOREM WeatherFilled == WeatherSpec => []FilledMeansBooked
  BY WeatherInvariant, PTL DEF WeatherInv

\* With two more writers of the rows fills are still booked whole, once and for
\* good (the order sync and the wallet sync beside reconcile_live_fills).
THEOREM WeatherImplementsJournal == WeatherSpec => WeatherBooksLikeJournal
  <1>1. WeatherInit => Journal!Init
    BY DEF WeatherInit, Init, Journal!Init, Homes
  <1>2. WeatherInv /\ [WeatherNext]_weatherVars
          => [Journal!Trade \/ Journal!Book]_(Journal!vars)
    BY LoopKeepsBooks DEF WeatherInv
  <1> QED
    BY <1>1, <1>2, WeatherInvariant, PTL
       DEF WeatherSpec, WeatherBooksLikeJournal, BooksLikeJournal, Journal!Spec

\* An exit joins one that still rests only if the ledger had given that one up
\* ("live pending exists", _exit_position): an open row stops it, a FILLED or
\* "matched" one has nothing left to match.
THEOREM WeatherExits == WeatherSpec => ExitNotDoubled
  <1>1. WeatherInv /\ [WeatherNext]_weatherVars
          => [\A o \in accepted' \ accepted : IsSell(o) =>
                \A q \in accepted : IsSell(q) /\ TokenOf[q] = TokenOf[o] /\ left[q] > 0
                  => row[q] \in {"CANCELLED", "absent"}]_weatherVars
    <2> SUFFICES ASSUME WeatherInv, [WeatherNext]_weatherVars,
                        NEW o \in accepted' \ accepted, IsSell(o),
                        NEW q \in accepted, IsSell(q), TokenOf[q] = TokenOf[o], left[q] > 0
                 PROVE  row[q] \in {"CANCELLED", "absent"}
      OBVIOUS
    <2>1. /\ q \in Mine /\ q \in Orders
          /\ left[q] \in Nat /\ SizeOf[q] \in Nat /\ row[q] \in RowStatus
      BY LedgerAssumption DEF WeatherInv, BooksInv, TypeOK
    <2>2. row[q] \notin OpenStatus
      BY <2>1, OnlyOwnAccepted DEF MayExit, OpenRowsOf, IsSell
    <2>3. row[q] # "matched"
      BY <2>1 DEF WeatherInv, MatchedInv
    <2>4. row[q] # "FILLED"
      <3> SUFFICES ASSUME row[q] = "FILLED" PROVE FALSE
        OBVIOUS
      <3>1. BookedOf(q) >= SizeOf[q]
        BY <2>1 DEF WeatherInv, FilledMeansBooked
      <3>2. BookedOf(q) \in Nat /\ Filled(q) \in Nat /\ BookedOf(q) =< Filled(q)
        <4> DEFINE f == Sizes(tape)
                   R == {i \in trades : tape[i].order = q}
                   S == {i \in Ids : tape[i].order = q}
        <4>1. TypeOK /\ R \in SUBSET Ids /\ S \in SUBSET Ids /\ R \in SUBSET S
          BY DEF WeatherInv, BooksInv, TypeOK
        <4>2. /\ IsFiniteSet(S) /\ \A i \in S : f[i] \in Nat
              /\ SumFunctionOnSet(f, R) \in Nat /\ SumFunctionOnSet(f, S) \in Nat
          BY <4>1, TradesAreTerms
        <4>3. BookedOf(q) = SumFunctionOnSet(f, R) /\ Filled(q) = SumFunctionOnSet(f, S)
          BY DEF BookedOf, Filled
        <4> HIDE DEF f, R, S
        <4>4. SumFunctionOnSet(f, R) =< SumFunctionOnSet(f, S)
          BY <4>1, <4>2, SumSubset
        <4> QED
          BY <4>2, <4>3, <4>4
      <3>3. left[q] + Filled(q) =< SizeOf[q]
        BY <2>1 DEF WeatherInv, BooksInv, FilledInv
      <3> QED
        BY <2>1, <3>1, <3>2, <3>3
    <2> QED
      BY <2>1, <2>2, <2>3, <2>4 DEF RowStatus, OpenStatus
  <1> QED
    BY <1>1, WeatherInvariant, PTL DEF WeatherSpec, ExitNotDoubled
=============================================================================
