------------------------- MODULE BuyingBots_proofs -------------------------
(***************************************************************************)
(* Proofs about the two live bots that only ever buy: the maker, whose     *)
(* loop is a schedule of the ledger's bot, and the complete-set probe,     *)
(* whose passes are not.  Each theorem is about one of them; the constants *)
(* of the other, and its assumptions on them, play no part in it.          *)
(***************************************************************************)
EXTENDS MakerLive, CompleteSet, LiveLedger_proofs

-----------------------------------------------------------------------------
(* The maker implements the live ledger, so what is proved of LiveLedger   *)
(* holds of a bot that runs maker_live.py.  From it follows what the       *)
(* maker's own tests add: one resting quote per market, and a cap on the   *)
(* money at stake that fails only by what the database cannot know.        *)

\* Every part of the scan, its faults included, does one thing the ledger's bot
\* may do, or nothing to the ledger.
LEMMA ScanStepsLedger == [MakerNext]_makerVars => [Next]_vars
  <1> SUFFICES ASSUME [MakerNext]_makerVars PROVE [Next]_vars
    OBVIOUS
  <1>1. CASE ScanSync
    BY <1>1 DEF ScanSync, Next, Bot
  <1>2. CASE ScanFetch
    BY <1>2 DEF ScanFetch, Next, Bot
  <1>3. CASE ScanBook
    BY <1>3 DEF ScanBook, Next, Bot
  <1>4. CASE ScanRecord
    BY <1>4 DEF ScanRecord, Next, Bot
  <1>5. CASE ScanQuotes \/ ScanEnd \/ ScanFetchFails
    BY <1>5 DEF ScanQuotes, ScanEnd, ScanFetchFails
  <1>6. ASSUME NEW o \in Mine, ScanCancel(o) \/ ScanQuote(o)
        PROVE  Next
    BY <1>6 DEF ScanCancel, ScanQuote, Next, Bot
  <1>7. ASSUME NEW o \in Mine, ScanCancelLost(o) \/ ScanQuoteLost(o)
        PROVE  Next
    BY <1>7 DEF ScanCancelLost, ScanQuoteLost, Next, Faults
  <1>8. CASE ScanCrash
    BY <1>8 DEF ScanCrash, Next, Faults
  <1>9. CASE World
    BY <1>9 DEF World, Next
  <1>10. CASE UNCHANGED makerVars
    BY <1>10 DEF makerVars
  <1> QED
    BY <1>1, <1>2, <1>3, <1>4, <1>5, <1>6, <1>7, <1>8, <1>9, <1>10
       DEF MakerNext, Scan, ScanFaults

\* The scan is a schedule over the ledger's actions: the ledger's theorems hold
\* of this bot.
LEMMA MakerSchedulesLedger == MakerSpec => Spec
  BY ScanStepsLedger, PTL DEF MakerSpec, MakerInit, Spec

\* A quote of the maker that can still be matched has an open row or none
\* (cancel_stale_quotes and _sync_open_orders against the CLOB's answers).
THEOREM MakerResting == MakerSpec => []RestingRowIsOpen
  BY MakerSchedulesLedger, LedgerResting

\* And its fills are booked in whole batches, once and for good.
THEOREM MakerBooksLikeJournal == MakerSpec => BooksLikeJournal
  BY MakerSchedulesLedger, LedgerImplementsJournal

-----------------------------------------------------------------------------
(* The invariants of the ledger, in the maker.                             *)

LEMMA MakerBuysOnly == BuyOnly
  BY MakerAssumption DEF BuyOnly, MakerAssumption

\* The ledger's invariants hold of the maker, whose position rows moreover hold
\* all the shares it has booked, since it only buys.
LEMMA MakerInvariant == MakerSpec => [](LedgerInv /\ SharesInv)
  <1>1. LedgerInv /\ SharesInv /\ [Next]_vars => SharesInv'
    BY SharesStep, MakerBuysOnly
  <1>2. Spec => []SharesInv
    BY <1>1, SharesInit, LedgerInvariant, PTL DEF Spec
  <1> QED
    BY <1>2, LedgerInvariant, MakerSchedulesLedger, PTL

\* The exposure the maker computes never misses a booked share
\* (get_open_exposure over _apply_to_position's rows).
THEOREM MakerSharesShown == MakerSpec => []SharesNotUnderstated
  <1>1. LedgerInv /\ SharesInv => SharesNotUnderstated
    BY SharesShown, MakerBuysOnly
  <1> QED
    BY <1>1, MakerInvariant, PTL

-----------------------------------------------------------------------------
(* One resting quote per market.                                           *)

\* The claim of OneQuotePerMarket, for the order about to get its row as well.
QuoteInv ==
  \A o, q \in Mine :
    /\ Own(o) /\ left[o] > 0
    /\ Own(q) /\ left[q] > 0
    /\ TokenOf[o] = TokenOf[q]
    => o = q

\* Once accepted, an order never gets more to match.
LEMMA LeftShrinks ==
  ASSUME LedgerInv, [Next]_vars, NEW o \in accepted, left'[o] > 0
  PROVE  left[o] > 0
  <1>1. o \in Orders /\ left \in [Orders -> Nat]
    BY DEF LedgerInv, BooksInv, TypeOK
  <1>2. ASSUME NEW q \in Orders, Accept(q)
        PROVE  left'[o] = left[o]
    BY <1>1, <1>2 DEF Accept
  <1>3. ASSUME NEW q \in Orders, NEW n \in 1 .. SizeOf[q], Match(q, n)
        PROVE  left[o] > 0
    BY <1>1, <1>3, LedgerAssumption DEF Match
  <1>4. ASSUME NEW q \in Mine, CancelOrder(q) \/ CancelOrderLost(q)
        PROVE  left[o] > 0
    BY <1>1, <1>4 DEF CancelOrder, CancelOrderLost
  <1>5. CASE left' = left
    BY <1>5
  <1> QED
    BY <1>2, <1>3, <1>4, <1>5, LedgerAssumption
       DEF Next, Exchange, Bot, OtherBot, Faults, Tick, PlaceLimit,
           PlaceLimitLost, RecordOrder, OtherPlaces, OtherRecords,
           SyncOpenOrders, Fetch, SkipTrade, BookTrade, Commit, Abort, Crash,
           exchangeVars, vars

\* What the scan does when it quotes, and only then: the tests, and an order.
LEMMA OnlyQuotesAccept ==
  ASSUME LedgerInv, [MakerNext]_makerVars, accepted' # accepted
  PROVE  \E o \in Mine : /\ MayQuote(o) /\ Accept(o) /\ row' = row /\ pc = "idle"
                         /\ \/ pc' = "placed" /\ pending' = o
                            \/ UNCHANGED <<pc, pending>>
  <1>1. ASSUME NEW o \in Mine, ScanQuote(o)
        PROVE  /\ MayQuote(o) /\ Accept(o) /\ row' = row /\ pc = "idle"
               /\ pc' = "placed" /\ pending' = o
    BY <1>1 DEF ScanQuote, PlaceLimit, dbVars
  <1>2. ASSUME NEW o \in Mine, ScanQuoteLost(o)
        PROVE  /\ MayQuote(o) /\ Accept(o) /\ row' = row /\ pc = "idle"
               /\ UNCHANGED <<pc, pending>>
    BY <1>2 DEF ScanQuoteLost, PlaceLimitLost, dbVars
  <1>3. CASE ScanSync \/ ScanFetch \/ ScanBook
    BY <1>3 DEF ScanSync, ScanFetch, ScanBook, SyncOpenOrders, Fetch, SkipTrade,
                BookTrade, Commit, Abort, exchangeVars, vars
  <1>4. CASE ScanQuotes \/ ScanRecord \/ ScanEnd \/ ScanFetchFails \/ ScanCrash
    BY <1>4 DEF ScanQuotes, ScanRecord, ScanEnd, ScanFetchFails, ScanCrash,
                RecordOrder, Crash, exchangeVars, vars
  <1>5. CASE \E o \in Mine : ScanCancel(o) \/ ScanCancelLost(o)
    BY <1>5 DEF ScanCancel, ScanCancelLost, CancelOrder, CancelOrderLost
  <1>6. CASE World \/ UNCHANGED makerVars
    BY <1>6 DEF World, Exchange, Tick, Match, makerVars, vars
  <1> QED
    BY <1>1, <1>2, <1>3, <1>4, <1>5, <1>6 DEF MakerNext, Scan, ScanFaults

\* A new quote meets no resting quote of its market: that one would be on an
\* open row, which MayQuote looks for.
LEMMA QuoteStep ==
  ASSUME LedgerInv, LedgerInv', QuoteInv, [MakerNext]_makerVars
  PROVE  QuoteInv'
  <1>0. [Next]_vars
    BY ScanStepsLedger
  <1>1. SUFFICES ASSUME NEW o \in Mine, NEW q \in Mine,
                        Own(o)', left'[o] > 0, Own(q)', left'[q] > 0,
                        TokenOf[o] = TokenOf[q]
                 PROVE  o = q
    BY DEF QuoteInv
  <1>2. o \in accepted' /\ q \in accepted'
    <2>1. o \in Orders /\ q \in Orders
      BY LedgerAssumption
    <2>2. \A p \in Orders \ accepted' : left'[p] = 0
      BY DEF LedgerInv, BooksInv, OrdersInv
    <2> QED
      BY <1>1, <2>1, <2>2
  <1>3. ASSUME NEW p \in accepted, Own(p)', left'[p] > 0
        PROVE  Own(p) /\ left[p] > 0
    BY <1>0, <1>3, OwnKept, LeftShrinks
  <1>4. CASE o \in accepted /\ q \in accepted
    BY <1>1, <1>3, <1>4 DEF QuoteInv
  <1>5. ASSUME NEW n \in Mine, n \notin accepted, n \in accepted', Own(n)',
               NEW p \in Mine, p \in accepted, Own(p)', left'[p] > 0
        PROVE  TokenOf[n] # TokenOf[p]
    <2>1. PICK m \in Mine : /\ MayQuote(m) /\ Accept(m) /\ row' = row /\ pc = "idle"
                            /\ \/ pc' = "placed" /\ pending' = m
                               \/ UNCHANGED <<pc, pending>>
      BY <1>5, OnlyQuotesAccept
    <2>2. m = n
      BY <1>5, <2>1 DEF Accept
    <2>3. Own(p) /\ left[p] > 0
      BY <1>3, <1>5
    <2>4. row[p] \in OpenStatus
      BY <2>1, <2>3, RestingIsOpen DEF RestingRowIsOpen, Own
    <2>5. TokenOf[p] \in BusyTokens
      BY <2>4 DEF BusyTokens, OpenOrders
    <2> QED
      BY <2>1, <2>2, <2>5 DEF MayQuote
  <1>6. CASE o \in accepted /\ q \notin accepted
    BY <1>1, <1>2, <1>5, <1>6
  <1>7. CASE o \notin accepted /\ q \in accepted
    BY <1>1, <1>2, <1>5, <1>7
  <1>8. CASE o \notin accepted /\ q \notin accepted
    <2>1. PICK m \in Mine : Accept(m)
      BY <1>2, <1>8, OnlyQuotesAccept
    <2> QED
      BY <1>2, <1>8, <2>1 DEF Accept
  <1> QED
    BY <1>4, <1>6, <1>7, <1>8

\* The maker rests at most one quote per market among the orders it has a row
\* for, whatever fills, cancels, lost answers and crashes come in between
\* (has_open_order_or_position).
THEOREM MakerOneQuote == MakerSpec => []OneQuotePerMarket
  <1>1. MakerInit => QuoteInv
    BY LedgerAssumption DEF MakerInit, Init, QuoteInv
  <1>2. LedgerInv /\ LedgerInv' /\ QuoteInv /\ [MakerNext]_makerVars => QuoteInv'
    BY QuoteStep
  <1>3. QuoteInv => OneQuotePerMarket
    BY DEF QuoteInv, OneQuotePerMarket, Own, Recorded
  <1> QED
    BY <1>1, <1>2, <1>3, MakerInvariant, PTL DEF MakerSpec

-----------------------------------------------------------------------------
(* The cap.                                                                *)

\* What an order has at stake is a number, and no more than its size.
LEMMA StakesAreTerms ==
  ASSUME LedgerInv
  PROVE  /\ \A S \in SUBSET Mine : IsFiniteSet(S)
         /\ \A o \in Mine : /\ AtStake[o] = left[o] + Filled(o)
                            /\ AtStake[o] \in Nat /\ SizeOf[o] \in Nat
                            /\ AtStake[o] =< SizeOf[o]
         /\ \A S \in SUBSET Mine : /\ SumFunctionOnSet(AtStake, S) \in Nat
                                   /\ Notional(S) \in Nat
                                   /\ SumFunctionOnSet(AtStake, S) =< Notional(S)
  <1>1. \A S \in SUBSET Mine : IsFiniteSet(S)
    BY LedgerAssumption, FS_Subset
  <1>2. \A o \in Orders : /\ left[o] \in Nat /\ Filled(o) \in Nat /\ SizeOf[o] \in Nat
                          /\ left[o] + Filled(o) =< SizeOf[o]
    BY TradesAreTerms, LedgerAssumption DEF LedgerInv, BooksInv, TypeOK, FilledInv
  <1>3. \A o \in Mine : /\ AtStake[o] = left[o] + Filled(o)
                        /\ AtStake[o] \in Nat /\ SizeOf[o] \in Nat
                        /\ AtStake[o] =< SizeOf[o]
    BY <1>2, LedgerAssumption DEF AtStake
  <1>4. ASSUME NEW S \in SUBSET Mine
        PROVE  /\ SumFunctionOnSet(AtStake, S) \in Nat
               /\ Notional(S) \in Nat
               /\ SumFunctionOnSet(AtStake, S) =< Notional(S)
    <2>1. IsFiniteSet(S) /\ \A o \in S : /\ AtStake[o] \in Nat /\ SizeOf[o] \in Nat
                                         /\ AtStake[o] =< SizeOf[o]
      BY <1>1, <1>3
    <2>2. SumFunctionOnSet(AtStake, S) \in Nat
      BY <2>1, SumType
    <2>3. SumFunctionOnSet(SizeOf, S) \in Nat
      BY <2>1, SumType
    <2>4. SumFunctionOnSet(AtStake, S) =< SumFunctionOnSet(SizeOf, S)
      BY <2>1, SumLeq
    <2> QED
      BY <2>2, <2>3, <2>4 DEF Notional
  <1> QED
    BY <1>1, <1>3, <1>4

\* An order whose row is closed costs what was matched of it: trades that are
\* booked, and so on a position row, or that are not, and so uncounted.
LEMMA ClosedIsCounted ==
  ASSUME LedgerInv, SharesInv
  PROVE  SumFunctionOnSet(AtStake, Recorded \ OpenOrders)
           =< SumFunctionOnSet(Sizes(positions), OpenPositions)
                + SumFunctionOnSet(Sizes(tape),
                    {i \in Ids \ trades : /\ tape[i].order \in Recorded
                                          /\ row[tape[i].order] \notin OpenStatus})
  <1> DEFINE C == Recorded \ OpenOrders
             f == Sizes(tape)
             h == [o \in Orders |-> {i \in Ids : tape[i].order = o}]
             R == {i \in Ids : tape[i].order \in C}
             B == {i \in trades : tape[i].order \in C}
             U == {i \in Ids \ trades : tape[i].order \in C}
  <1>1. C \in SUBSET Mine /\ IsFiniteSet(C) /\ C \subseteq Orders
    BY LedgerAssumption, FS_Subset DEF Recorded
  <1>2. TypeOK /\ trades \in SUBSET Ids
    BY DEF LedgerInv, BooksInv, TypeOK
  <1>3. /\ IsFiniteSet(Ids) /\ IsFiniteSet(trades) /\ IsFiniteSet(B) /\ IsFiniteSet(U)
        /\ \A i \in Ids : f[i] \in Nat
    BY <1>2, TradesAreTerms
  <1>4. \A o \in C : AtStake[o] = SumFunctionOnSet(f, h[o])
    <2>1. ASSUME NEW o \in C
          PROVE  AtStake[o] = SumFunctionOnSet(f, h[o])
      <3>1. left[o] = 0
        BY <1>1, ClosedLeavesNothing DEF Recorded, OpenOrders
      <3>2. AtStake[o] = left[o] + Filled(o) /\ Filled(o) \in Nat
        BY <1>1, <1>2, StakesAreTerms, TradesAreTerms
      <3>3. h[o] = {i \in Ids : tape[i].order = o}
        BY <1>1
      <3>4. Filled(o) = SumFunctionOnSet(f, h[o])
        BY <3>3 DEF Filled
      <3> HIDE DEF f, h
      <3> QED
        BY <3>1, <3>2, <3>4
    <2> QED
      BY <2>1
  <1>5. SumFunctionOnSet(AtStake, C) = SumFunctionOnSet(f, R)
    <2> DEFINE S == Ids
    <2>1. IsFiniteSet(C) /\ IsFiniteSet(S) /\ \A i \in S : f[i] \in Nat
      BY <1>1, <1>3
    <2>2. \A o \in C : h[o] = {i \in S : tape[i].order = o}
      BY <1>1
    <2>3. \A o \in C : h[o] \in SUBSET S /\ AtStake[o] = SumFunctionOnSet(f, h[o])
      BY <1>4, <2>2
    <2>4. \A o, q \in C : o # q => h[o] \cap h[q] = {}
      BY <2>2
    <2>5. R \in SUBSET S /\ \A i \in S : i \in R <=> \E o \in C : i \in h[o]
      BY <2>2
    <2> HIDE DEF C, f, h, S, R
    <2> QED
      BY <2>1, <2>3, <2>4, <2>5, SumGroups
  <1>6. R = B \cup U /\ B \cap U = {}
    BY <1>2
  <1>7. SumFunctionOnSet(f, B \cup U) = SumFunctionOnSet(f, B) + SumFunctionOnSet(f, U)
    <2>1. \A i \in B \cup U : f[i] \in Int
      BY <1>2, <1>3
    <2>2. IsFiniteSet(B) /\ IsFiniteSet(U) /\ B \cap U = {}
      BY <1>3, <1>6
    <2> HIDE DEF B, U, f
    <2> QED
      BY <2>1, <2>2, SumUnion
  <1>8. SumFunctionOnSet(f, B) =< SumFunctionOnSet(f, trades)
    <2>1. B \in SUBSET trades /\ \A i \in trades : f[i] \in Nat
      BY <1>2, <1>3
    <2> HIDE DEF B, f
    <2> QED
      BY <1>3, <2>1, SumSubset
  <1>9. SumFunctionOnSet(f, trades) = SumFunctionOnSet(Sizes(positions), OpenPositions)
    BY PositionsCostBooked DEF OpenPositions
  <1>10. U = {i \in Ids \ trades : /\ tape[i].order \in Recorded
                                   /\ row[tape[i].order] \notin OpenStatus}
    BY DEF Recorded, OpenOrders
  <1>11. /\ SumFunctionOnSet(f, B) \in Nat /\ SumFunctionOnSet(f, U) \in Nat
         /\ SumFunctionOnSet(f, trades) \in Nat
    BY <1>2, TradesAreTerms
  <1>12. SumFunctionOnSet(AtStake, C) = SumFunctionOnSet(f, B) + SumFunctionOnSet(f, U)
    BY <1>5, <1>6, <1>7
  <1>13. SumFunctionOnSet(AtStake, C)
           =< SumFunctionOnSet(Sizes(positions), OpenPositions) + SumFunctionOnSet(f, U)
    BY <1>8, <1>9, <1>11, <1>12
  <1> QED
    BY <1>10, <1>13

\* The money at stake is what the database shows, or uncounted.
LEMMA StakeIsCounted ==
  ASSUME LedgerInv, SharesInv
  PROVE  /\ TrueExposure =< LocalExposure + Uncounted
         /\ TrueExposure \in Nat /\ LocalExposure \in Nat /\ Uncounted \in Nat
  <1> DEFINE A == {o \in Mine : row[o] = "absent"}
             C == Recorded \ OpenOrders
             s(S) == SumFunctionOnSet(AtStake, S)
  <1>1. /\ Mine = A \cup (OpenOrders \cup C)
        /\ A \cap (OpenOrders \cup C) = {} /\ OpenOrders \cap C = {}
        /\ A \in SUBSET Mine /\ OpenOrders \in SUBSET Mine /\ C \in SUBSET Mine
        /\ OpenOrders \cup C \in SUBSET Mine
    BY DEF Recorded, OpenOrders, OpenStatus
  <1>2. /\ IsFiniteSet(A) /\ IsFiniteSet(OpenOrders) /\ IsFiniteSet(C)
        /\ IsFiniteSet(OpenOrders \cup C)
        /\ \A o \in Mine : AtStake[o] \in Int
        /\ s(A) \in Nat /\ s(C) \in Nat /\ s(OpenOrders) \in Nat /\ s(Mine) \in Nat
        /\ Notional(OpenOrders) \in Nat
        /\ s(OpenOrders) =< Notional(OpenOrders)
    BY <1>1, StakesAreTerms
  <1>3. s(OpenOrders \cup C) = s(OpenOrders) + s(C)
    <2>1. \A o \in OpenOrders \cup C : AtStake[o] \in Int
      BY <1>1, <1>2
    <2> HIDE DEF C
    <2> QED
      BY <1>1, <1>2, <2>1, SumUnion
  <1>4. s(A \cup (OpenOrders \cup C)) = s(A) + s(OpenOrders \cup C)
    <2>1. \A o \in A \cup (OpenOrders \cup C) : AtStake[o] \in Int
      BY <1>1, <1>2
    <2> HIDE DEF C, A
    <2> QED
      BY <1>1, <1>2, <2>1, SumUnion
  <1>5. TrueExposure = s(A) + s(OpenOrders) + s(C)
    <2>1. TrueExposure = s(A \cup (OpenOrders \cup C))
      BY <1>1 DEF TrueExposure
    <2> HIDE DEF s, A, C
    <2> QED
      BY <1>2, <1>3, <1>4, <2>1
  <1> DEFINE w == SumFunctionOnSet(Sizes(positions), OpenPositions)
             u == SumFunctionOnSet(Sizes(tape),
                    {i \in Ids \ trades : /\ tape[i].order \in Recorded
                                          /\ row[tape[i].order] \notin OpenStatus})
  <1>6. s(C) =< w + u
    BY ClosedIsCounted
  <1>7. w \in Nat /\ u \in Nat
    <2>1. positions \in Seq(PositionType) /\ OpenPositions \in SUBSET (1 .. Len(positions))
      BY DEF LedgerInv, BooksInv, TypeOK, OpenPositions
    <2> QED
      BY <2>1, RowsAreTerms, TradesAreTerms DEF LedgerInv, BooksInv
  <1>8. LocalExposure = w + Notional(OpenOrders) /\ Uncounted = s(A) + u
    BY DEF LocalExposure, Uncounted
  <1> HIDE DEF s, w, u
  <1> QED
    BY <1>2, <1>5, <1>6, <1>7, <1>8

\* A new quote adds its size to the money at stake.
LEMMA QuoteAddsSize ==
  ASSUME LedgerInv, LedgerInv', NEW o \in Mine, Accept(o)
  PROVE  TrueExposure' = TrueExposure + SizeOf[o]
  <1>1. o \in Orders /\ Mine \subseteq Orders /\ IsFiniteSet(Mine) /\ SizeOf[o] \in Nat
    BY LedgerAssumption, FS_Subset
  <1>2. \A q \in Orders : Filled(q)' = Filled(q)
    BY DEF Accept, Filled, Ids, Sizes
  <1>3. left[o] = 0 /\ left \in [Orders -> Nat] /\ left' = [left EXCEPT ![o] = SizeOf[o]]
    BY <1>1 DEF Accept, LedgerInv, BooksInv, OrdersInv, TypeOK
  <1> DEFINE f == AtStake
             g == AtStake'
  <1>4. \A q \in Mine : /\ f[q] = left[q] + Filled(q) /\ g[q] = left'[q] + Filled(q)
                        /\ f[q] \in Int /\ g[q] \in Int /\ Filled(q) \in Nat
    <2>1. \A q \in Mine : f[q] = left[q] + Filled(q) /\ f[q] \in Nat
      BY StakesAreTerms
    <2>2. \A q \in Mine : g[q] = left'[q] + Filled(q)'
      BY <1>1 DEF AtStake
    <2>3. \A q \in Mine : Filled(q) \in Nat /\ left'[q] \in Nat
      BY <1>1, <1>3, TradesAreTerms DEF LedgerInv, BooksInv
    <2> QED
      BY <1>1, <1>2, <2>1, <2>2, <2>3
  <1>5. \A q \in Mine \ {o} : f[q] = g[q]
    BY <1>1, <1>3, <1>4
  <1>6. g[o] - f[o] = SizeOf[o]
    BY <1>1, <1>3, <1>4
  <1>7. \A q \in Mine : f[q] \in Int /\ g[q] \in Int
    BY <1>4
  <1> HIDE DEF f, g
  <1>8. SumFunctionOnSet(g, Mine) = SumFunctionOnSet(f, Mine) + (g[o] - f[o])
    <2>1. IsFiniteSet(Mine)
      BY <1>1
    <2> QED
      BY <1>5, <1>7, <2>1, SumChange
  <1> QED
    BY <1>6, <1>8 DEF TrueExposure, f, g

\* Whenever a quote is placed, the money really at stake stays within the cap
\* but for the orders and fills the database could not know of: no fill, cancel,
\* crash or lost answer makes quote_for_decision count a known order too low.
THEOREM MakerCap == MakerSpec => QuoteWithinCap
  <1>1. ASSUME LedgerInv, LedgerInv', SharesInv, [MakerNext]_makerVars,
               accepted' # accepted
        PROVE  TrueExposure' =< MaxOpenExposure + Uncounted
    <2>1. PICK o \in Mine : MayQuote(o) /\ Accept(o)
      BY <1>1, OnlyQuotesAccept
    <2>2. TrueExposure' = TrueExposure + SizeOf[o]
      BY <1>1, <2>1, QuoteAddsSize
    <2>3. LocalExposure + SizeOf[o] =< MaxOpenExposure
      BY <2>1 DEF MayQuote
    <2>4. /\ TrueExposure =< LocalExposure + Uncounted
          /\ TrueExposure \in Nat /\ LocalExposure \in Nat /\ Uncounted \in Nat
      BY <1>1, StakeIsCounted
    <2>5. SizeOf[o] \in Nat /\ MaxOpenExposure \in Nat
      BY LedgerAssumption, MakerAssumption
    <2> QED
      BY <2>2, <2>3, <2>4, <2>5
  <1>2. LedgerInv /\ LedgerInv' /\ SharesInv /\ [MakerNext]_makerVars
          => [accepted' # accepted
                => TrueExposure' =< MaxOpenExposure + Uncounted]_makerVars
    BY <1>1
  <1> QED
    BY <1>2, MakerInvariant, PTL DEF MakerSpec, QuoteWithinCap

-----------------------------------------------------------------------------
(* The complete-set probe cancels and records orders in its own way, but   *)
(* its steps keep the ledger's invariants all the same.  BundleInv says    *)
(* what a pass holds at each of its parts, RecordsInv what its rows say of *)
(* the orders it has recorded, and CapsInv that what a pass has tested     *)
(* still holds when it saves.                                              *)

Placing == part \in {"no", "cancel", "save"}

\* What the pass holds: the YES order from its placing to its row, and the NO
\* order when that one is known too.
BundleInv ==
  /\ part \in {"off", "fetch", "book", "yes", "no", "cancel", "save"}
  /\ pc = (IF part = "book" THEN "session" ELSE "idle")
  /\ part \in {"off", "fetch", "book", "yes", "no", "cancel"} => yesStatus = "live"
  /\ part \in {"off", "fetch", "book", "yes"} => bundle = Nothing
  /\ Placing => /\ bundle[1] \in accepted \cap Mine /\ row[bundle[1]] = "absent"
                /\ signal \notin Attempted
  /\ part \in {"no", "cancel"} => bundle[2] = NoOrder
  /\ part = "save" =>
       \/ bundle[2] = NoOrder /\ yesStatus = "live"
       \/ bundle[2] = NoOrder /\ yesStatus = "CANCELLED" /\ left[bundle[1]] = 0
       \/ /\ bundle \in Bundles /\ yesStatus = "live"
          /\ bundle[2] \in accepted /\ row[bundle[2]] = "absent"

\* A recorded order that was not cancelled is counted by the caps, whatever
\* fills did to its status, and on the day it was saved.
RecordsInv ==
  /\ today \in Nat /\ placedOn \in [Orders -> Nat]
  /\ \A o \in Kept : /\ o \in Mine /\ row[o] \in OpenStatus \cup {"FILLED"}
                     /\ placedOn[o] =< today

KeptOn(d) == {o \in Kept : placedOn[o] = d}

\* What the caps test, counted by the orders' whole sizes.
CapsInv ==
  /\ \A d \in 1 .. MaxDay : Notional(KeptOn(d)) =< DailyCap
  /\ Notional(Kept) =< OpenCap
  /\ Placing => /\ Notional(KeptOn(today)) + 2 * SizeOf[bundle[1]] =< DailyCap
                /\ Notional(Kept) + 2 * SizeOf[bundle[1]] =< OpenCap

LEMMA SetBuysOnly == BuyOnly
  BY CompleteSetAssumption DEF BuyOnly, CompleteSetAssumption

-----------------------------------------------------------------------------
(* The ledger's invariants, in the pass.                                   *)

\* Two steps of the pass are not the ledger's: the unconditional cancel of the
\* YES leg, and the commit of both rows.
LEMMA PassStepsLedger ==
  ASSUME BundleInv, [SetNext]_setVars
  PROVE  [Next]_vars \/ CancelYes \/ Save
  <1>1. CASE Start \/ ReconcileFetchFails \/ Quit \/ Midnight \/ UNCHANGED setVars
    BY <1>1 DEF Start, ReconcileFetchFails, Quit, Midnight, setVars
  <1>2. CASE ReconcileFetch \/ ReconcileBook
    BY <1>2 DEF ReconcileFetch, ReconcileBook, Next, Bot
  <1>3. CASE PassCrash
    BY <1>3 DEF PassCrash, Next, Faults
  <1>4. ASSUME NEW o \in Mine, Accepts(o), pc = "idle"
        PROVE  Next
    <2>1. PlaceLimitLost(o)
      BY <1>4, CompleteSetAssumption DEF Accepts, PlaceLimitLost, CompleteSetAssumption
    <2> QED
      BY <2>1 DEF Next, Faults
  <1>5. ASSUME NEW b \in Bundles,
               PlaceYes(b) \/ PlaceYesLost(b) \/ PlaceNo(b) \/ PlaceNoFails(b)
        PROVE  [Next]_vars
    <2>1. b[1] \in Mine /\ b[2] \in Mine
      BY CompleteSetAssumption DEF CompleteSetAssumption
    <2>2. pc = "idle"
      BY <1>5 DEF PlaceYes, PlaceYesLost, PlaceNo, PlaceNoFails, Goes, BundleInv
    <2>3. Accepts(b[1]) \/ Accepts(b[2]) \/ UNCHANGED vars
      BY <1>5 DEF PlaceYes, PlaceYesLost, PlaceNo, PlaceNoFails
    <2> QED
      BY <1>4, <2>1, <2>2, <2>3
  <1>6. CASE Exchange /\ UNCHANGED passVars
    BY <1>6 DEF Next
  <1> QED
    BY <1>1, <1>2, <1>3, <1>5, <1>6 DEF SetNext, Pass, PassFaults

\* Taking from what rests on the book disturbs nothing.
LEMMA LeftDrops ==
  ASSUME LedgerInv, left' \in [Orders -> Nat], \A o \in Orders : left'[o] =< left[o],
         UNCHANGED <<now, accepted, tape, dbVars, pc, pending, sessionVars>>
  PROVE  LedgerInv'
  <1>1. BooksInv'
    <2>1. row' = row /\ row \in [Orders -> RowStatus]
      BY DEF LedgerInv, BooksInv, TypeOK, dbVars
    <2> QED
      BY <2>1, OrdersMove DEF LedgerInv, dbVars
  <1>2. StatusInv'
    <2>1. StatusInv /\ left \in [Orders -> Nat]
      BY DEF LedgerInv, BooksInv, TypeOK
    <2>2. \A o \in Orders : left[o] = 0 => left'[o] = 0
      BY <2>1
    <2> QED
      BY <2>1, <2>2 DEF StatusInv, FilledBy, dbVars
  <1> QED
    BY <1>1, <1>2 DEF LedgerInv

\* Rows may appear between two sessions, open, or cancelled for orders of which
\* nothing rests.
LEMMA RowsAppear ==
  ASSUME LedgerInv, pc = "idle", row' \in [Orders -> RowStatus],
         UNCHANGED <<exchangeVars, trades, positions, cursor, pc, pending, sessionVars>>,
         \A o \in Orders : \/ row'[o] = row[o]
                           \/ /\ row[o] = "absent" /\ o \in accepted \cap Mine
                              /\ \/ row'[o] = "live"
                                 \/ row'[o] = "CANCELLED" /\ left[o] = 0
  PROVE  LedgerInv'
  <1>1. BooksInv'
    <2>1. left' = left /\ left \in [Orders -> Nat]
      BY DEF LedgerInv, BooksInv, TypeOK, exchangeVars
    <2>2. \A o \in Orders : left'[o] =< left[o]
      BY <2>1
    <2> QED
      BY <2>1, <2>2, OrdersMove DEF LedgerInv, exchangeVars
  <1>2. StatusInv'
    BY DEF LedgerInv, StatusInv, FilledBy, exchangeVars
  <1> QED
    BY <1>1, <1>2 DEF LedgerInv

LEMMA PassKeepsLedger ==
  ASSUME LedgerInv, SharesInv, BundleInv, [SetNext]_setVars
  PROVE  LedgerInv' /\ SharesInv'
  <1>1. CASE [Next]_vars
    BY <1>1, LedgerStep, SharesStep, SetBuysOnly
  <1>2. CASE CancelYes
    <2>1. /\ left' \in {left, [left EXCEPT ![bundle[1]] = 0]}
          /\ UNCHANGED <<now, accepted, tape, dbVars, pc, pending, sessionVars>>
      BY <1>2 DEF CancelYes
    <2>2. left \in [Orders -> Nat]
      BY DEF LedgerInv, BooksInv, TypeOK
    <2>3. left' \in [Orders -> Nat] /\ \A o \in Orders : left'[o] =< left[o]
      BY <2>1, <2>2
    <2>4. LedgerInv'
      BY <2>1, <2>3, LeftDrops
    <2>5. SharesInv'
      BY <2>1 DEF SharesInv, SharesOn, TokenOfTrade, dbVars, sessionVars
    <2> QED
      BY <2>4, <2>5
  <1>3. CASE Save
    <2>1. /\ part = "save" /\ pc = "idle"
          /\ UNCHANGED <<exchangeVars, trades, positions, cursor, pc, pending, sessionVars>>
      BY <1>3 DEF Save, BundleInv
    <2>2. /\ bundle[1] \in accepted \cap Mine /\ row[bundle[1]] = "absent"
          /\ bundle[2] # NoOrder =>
               bundle[2] \in accepted \cap Mine /\ row[bundle[2]] = "absent"
          /\ yesStatus \in {"live", "CANCELLED"}
          /\ yesStatus = "CANCELLED" => left[bundle[1]] = 0
      BY <2>1, CompleteSetAssumption DEF BundleInv, Placing, CompleteSetAssumption
    <2>3. row \in [Orders -> RowStatus]
      BY DEF LedgerInv, BooksInv, TypeOK
    <2>4. row' = [o \in Orders |->
                    IF o = bundle[1] THEN yesStatus
                    ELSE IF o \in {bundle[1], bundle[2]} \ {NoOrder} THEN "live"
                    ELSE row[o]]
      BY <1>3 DEF Save
    <2>5. row' \in [Orders -> RowStatus]
      BY <2>2, <2>3, <2>4 DEF RowStatus
    <2>6. \A o \in Orders : \/ row'[o] = row[o]
                            \/ /\ row[o] = "absent" /\ o \in accepted \cap Mine
                               /\ \/ row'[o] = "live"
                                  \/ row'[o] = "CANCELLED" /\ left[o] = 0
      BY <2>2, <2>4
    <2>7. LedgerInv'
      BY <2>1, <2>5, <2>6, RowsAppear
    <2>8. SharesInv'
      BY <2>1 DEF SharesInv, SharesOn, TokenOfTrade, exchangeVars, sessionVars
    <2> QED
      BY <2>7, <2>8
  <1> QED
    BY <1>1, <1>2, <1>3, PassStepsLedger

-----------------------------------------------------------------------------
(* What the steps of the pass do to the rows.                              *)

\* But for the commit of a pass, a row changes only by a fill that is booked.
LEMMA RowsMove ==
  ASSUME LedgerInv, BundleInv, [SetNext]_setVars, ~Save
  PROVE  /\ UNCHANGED <<attempts, placedOn>> /\ accepted \subseteq accepted'
         /\ \A o \in Orders : \/ row'[o] = row[o]
                              \/ row[o] # "absent" /\ row'[o] \in {"PARTIAL", "FILLED"}
         /\ \A o \in accepted \cap Mine : left[o] = 0 => left'[o] = 0
  <1>1. CASE Start \/ ReconcileFetchFails \/ Quit \/ Midnight \/ UNCHANGED setVars
    BY <1>1 DEF Start, ReconcileFetchFails, Quit, Midnight, setVars, vars, passVars
  <1>2. CASE ReconcileFetch
    BY <1>2 DEF ReconcileFetch, Fetch, exchangeVars, dbVars
  <1>3. CASE ReconcileBook
    <2>1. UNCHANGED <<attempts, placedOn, accepted, left>>
      BY <1>3 DEF ReconcileBook, SkipTrade, BookTrade, Commit, Abort, exchangeVars
    <2>2. CASE Commit
      <3>1. \A o \in Orders : row'[o] = IF marks[o] = "absent" THEN row[o] ELSE marks[o]
        BY <2>2 DEF Commit
      <3>2. \A o \in Orders : marks[o] # "absent" =>
              marks[o] \in {"PARTIAL", "FILLED"} /\ row[o] # "absent"
        BY DEF LedgerInv, BooksInv, MarksInv
      <3> QED
        BY <2>1, <3>1, <3>2
    <2>3. CASE row' = row
      BY <2>1, <2>3
    <2> QED
      BY <1>3, <2>2, <2>3 DEF ReconcileBook, SkipTrade, BookTrade, Abort, dbVars
  <1>4. ASSUME NEW b \in Bundles,
               PlaceYes(b) \/ PlaceYesLost(b) \/ PlaceNo(b) \/ PlaceNoFails(b)
        PROVE  /\ UNCHANGED <<attempts, placedOn, row>> /\ accepted \subseteq accepted'
               /\ \A o \in accepted \cap Mine : left[o] = 0 => left'[o] = 0
    <2>1. UNCHANGED <<attempts, placedOn>>
      BY <1>4 DEF PlaceYes, PlaceYesLost, PlaceNo, PlaceNoFails
    <2>2. CASE UNCHANGED vars
      BY <2>1, <2>2 DEF vars
    <2>3. ASSUME NEW o \in Orders, Accepts(o)
          PROVE  /\ row' = row /\ accepted \subseteq accepted'
                 /\ \A q \in accepted \cap Mine : left[q] = 0 => left'[q] = 0
      BY <2>3, LedgerAssumption DEF Accepts, Accept, dbVars, LedgerInv, BooksInv, TypeOK
    <2>4. b[1] \in Orders /\ b[2] \in Orders
      BY CompleteSetAssumption, LedgerAssumption DEF CompleteSetAssumption
    <2> QED
      BY <1>4, <2>1, <2>2, <2>3, <2>4 DEF PlaceYes, PlaceYesLost, PlaceNo, PlaceNoFails
  <1>5. CASE CancelYes
    <2>1. /\ UNCHANGED <<attempts, placedOn, row, accepted>>
          /\ left' \in {left, [left EXCEPT ![bundle[1]] = 0]}
      BY <1>5 DEF CancelYes, dbVars
    <2>2. left \in [Orders -> Nat] /\ accepted \subseteq Orders
      BY DEF LedgerInv, BooksInv, TypeOK
    <2> QED
      BY <2>1, <2>2
  <1>6. CASE PassCrash
    BY <1>6 DEF PassCrash, Crash, vars, exchangeVars, dbVars
  <1>7. CASE Exchange /\ UNCHANGED passVars
    <2>1. UNCHANGED <<attempts, placedOn, row, accepted>>
      BY <1>7 DEF Exchange, Tick, Match, passVars, dbVars
    <2>2. left \in [Orders -> Nat] /\ accepted \subseteq Orders
      BY DEF LedgerInv, BooksInv, TypeOK
    <2>3. CASE left' = left
      BY <2>1, <2>3
    <2>4. ASSUME NEW o \in Orders, NEW n \in 1 .. SizeOf[o], Match(o, n)
          PROVE  \A q \in Orders : left[q] = 0 => left'[q] = 0
      BY <2>2, <2>4 DEF Match
    <2> QED
      BY <1>7, <2>1, <2>2, <2>3, <2>4 DEF Exchange, Tick
  <1> QED
    BY <1>1, <1>2, <1>3, <1>4, <1>5, <1>6, <1>7 DEF SetNext, Pass, PassFaults

-----------------------------------------------------------------------------
(* The pass's own invariants.                                              *)

\* A bundle is two orders of the bot, of one size.
LEMMA BundleFields ==
  ASSUME NEW b \in Bundles
  PROVE  /\ b[1] \in Mine /\ b[2] \in Mine /\ b = <<b[1], b[2]>>
         /\ SizeOf[b[1]] = SizeOf[b[2]] /\ SizeOf[b[1]] \in Nat /\ b[1] # b[2]
         /\ b[1] # NoOrder /\ b[2] # NoOrder
  <1>1. b \in Mine \X Mine
    BY CompleteSetAssumption DEF CompleteSetAssumption
  <1>2. b[1] # b[2] /\ SizeOf[b[1]] = SizeOf[b[2]]
    BY CompleteSetAssumption DEF CompleteSetAssumption
  <1> QED
    BY <1>1, <1>2, LedgerAssumption DEF NoOrder

LEMMA BundleStep ==
  ASSUME LedgerInv, BundleInv, [SetNext]_setVars
  PROVE  BundleInv'
  <1>1. CASE \/ Start \/ ReconcileFetch \/ ReconcileFetchFails \/ Quit \/ Save
             \/ PassCrash \/ \E b \in Bundles : PlaceYesLost(b)
    <2>1. part' \in {"off", "fetch", "book", "yes"} /\ bundle' = Nothing
          /\ yesStatus' = "live"
      BY <1>1 DEF Start, ReconcileFetch, ReconcileFetchFails, Quit, Save, PassCrash,
                  PlaceYesLost, Goes, EndPass, BundleInv
    <2>2. pc' = (IF part' = "book" THEN "session" ELSE "idle")
      BY <1>1 DEF Start, ReconcileFetch, ReconcileFetchFails, Quit, Save, PassCrash,
                  PlaceYesLost, Goes, EndPass, BundleInv, Fetch, Accepts, Crash,
                  EndSession, vars
    <2> QED
      BY <2>1, <2>2 DEF BundleInv, Placing
  <1>2. CASE ReconcileBook
    <2>1. part' \in {"off", "book", "yes"} /\ UNCHANGED <<bundle, yesStatus>>
          /\ part = "book"
      BY <1>2 DEF ReconcileBook
    <2>2. pc' = (IF part' = "book" THEN "session" ELSE "idle")
      BY <1>2 DEF ReconcileBook, SkipTrade, BookTrade, Commit, Abort, EndSession,
                  BundleInv
    <2> QED
      BY <2>1, <2>2 DEF BundleInv, Placing
  <1>3. ASSUME NEW b \in Bundles, PlaceYes(b)
        PROVE  BundleInv'
    <2>1. /\ part = "yes" /\ part' = "no" /\ bundle' = <<b[1], NoOrder>>
          /\ signal \notin Attempted /\ UNCHANGED <<signal, attempts, yesStatus>>
          /\ b[1] \notin accepted /\ b[1] \in accepted' /\ UNCHANGED <<row, pc>>
      BY <1>3 DEF PlaceYes, MayBuy, Goes, Accepts, Accept, dbVars
    <2>2. b[1] \in Mine /\ row[b[1]] = "absent"
      BY <2>1, BundleFields, LedgerAssumption DEF LedgerInv, BooksInv, OrdersInv
    <2> QED
      BY <2>1, <2>2 DEF BundleInv, Placing, Attempted
  <1>4. ASSUME NEW b \in Bundles, PlaceNo(b)
        PROVE  BundleInv'
    <2>1. /\ part = "no" /\ part' = "save" /\ bundle' = b /\ b[1] = bundle[1]
          /\ UNCHANGED <<signal, attempts, yesStatus>>
          /\ b[2] \notin accepted /\ b[2] \in accepted' /\ accepted \subseteq accepted'
          /\ UNCHANGED <<row, pc>>
      BY <1>4 DEF PlaceNo, Goes, Accepts, Accept, dbVars
    <2>2. b[2] \in Mine /\ row[b[2]] = "absent"
      BY <2>1, BundleFields, LedgerAssumption DEF LedgerInv, BooksInv, OrdersInv
    <2> QED
      BY <2>1, <2>2 DEF BundleInv, Placing, Attempted
  <1>5. ASSUME NEW b \in Bundles, PlaceNoFails(b)
        PROVE  BundleInv'
    <2>1. /\ part = "no" /\ part' = "cancel"
          /\ UNCHANGED <<signal, attempts, yesStatus, bundle>>
          /\ accepted \subseteq accepted' /\ UNCHANGED <<row, pc>>
      BY <1>5 DEF PlaceNoFails, Goes, Accepts, Accept, dbVars, vars
    <2> QED
      BY <2>1 DEF BundleInv, Placing, Attempted
  <1>6. CASE CancelYes
    <2>1. /\ part = "cancel" /\ part' = "save"
          /\ UNCHANGED <<signal, attempts, bundle, accepted, row, pc>>
          /\ \/ yesStatus' = yesStatus
             \/ yesStatus' = "CANCELLED" /\ left' = [left EXCEPT ![bundle[1]] = 0]
      BY <1>6 DEF CancelYes, Goes, dbVars
    <2>2. left \in [Orders -> Nat] /\ accepted \subseteq Orders
      BY DEF LedgerInv, BooksInv, TypeOK
    <2>3. bundle[1] \in Orders
      BY <2>1, <2>2 DEF BundleInv, Placing
    <2>4. left' = [left EXCEPT ![bundle[1]] = 0] => left'[bundle[1]] = 0
      BY <2>2, <2>3
    <2> QED
      BY <2>1, <2>4 DEF BundleInv, Placing, Attempted
  <1>7. CASE UNCHANGED <<part, pc, bundle, yesStatus, signal>> /\ ~Save
    <2>1. /\ UNCHANGED attempts /\ accepted \subseteq accepted'
          /\ \A o \in Orders : row[o] = "absent" => row'[o] = "absent"
          /\ \A o \in accepted \cap Mine : left[o] = 0 => left'[o] = 0
      BY <1>7, RowsMove
    <2>2. accepted \subseteq Orders
      BY DEF LedgerInv, BooksInv, TypeOK
    <2> QED
      BY <1>7, <2>1, <2>2 DEF BundleInv, Placing, Attempted
  <1>8. CASE Midnight \/ UNCHANGED setVars
    <2>1. UNCHANGED <<part, pc, bundle, yesStatus, signal, row, accepted, left, attempts>>
      BY <1>8 DEF Midnight, setVars, vars, passVars
    <2> QED
      BY <2>1 DEF BundleInv, Placing, Attempted
  <1>9. CASE Exchange /\ UNCHANGED passVars
    <2>1. UNCHANGED <<part, pc, bundle, yesStatus, signal>>
      BY <1>9 DEF Exchange, Tick, Match, passVars
    <2>2. CASE Save
      BY <2>1, <2>2 DEF Save, EndPass
    <2> QED
      BY <1>7, <2>1, <2>2
  <1> QED
    BY <1>1, <1>2, <1>3, <1>4, <1>5, <1>6, <1>8, <1>9 DEF SetNext, Pass, PassFaults

LEMMA KeptIs ==
  \A o : o \in Kept <=> \E a \in attempts : /\ a.status = "live"
                                            /\ o \in {a.yes, a.no} \ {NoOrder}
  BY DEF Kept

\* The commit of a pass adds the orders it holds, and touches no older row.
LEMMA SaveAdds ==
  ASSUME LedgerInv, BundleInv, RecordsInv, Save
  PROVE  /\ Kept' \subseteq Kept \cup ({bundle[1], bundle[2]} \ {NoOrder})
         /\ \A o \in Kept : /\ o \notin {bundle[1], bundle[2]} \ {NoOrder}
                            /\ row'[o] = row[o] /\ placedOn'[o] = placedOn[o]
         /\ \A o \in Kept' \ Kept : row'[o] = "live" /\ placedOn'[o] = today
         /\ placedOn' \in [Orders -> Nat]
  <1> DEFINE new == [signal |-> signal, yes |-> bundle[1], no |-> bundle[2],
                     status |-> yesStatus]
             rows == {bundle[1], bundle[2]} \ {NoOrder}
  <1>1. /\ attempts' = attempts \cup {new}
        /\ row' = [o \in Orders |-> IF o = bundle[1] THEN yesStatus
                                    ELSE IF o \in rows THEN "live" ELSE row[o]]
        /\ placedOn' = [o \in Orders |-> IF o \in rows THEN today ELSE placedOn[o]]
    BY DEF Save
  <1>2. \A o \in rows : o \in Mine /\ row[o] = "absent"
    BY CompleteSetAssumption DEF Save, BundleInv, Placing, CompleteSetAssumption
  <1>3. Mine \subseteq Orders
    BY LedgerAssumption
  <1>4. \A o \in Kept : o \in Mine /\ o \notin rows
    BY <1>2 DEF RecordsInv, OpenStatus
  <1>5. \A o : o \in Kept' <=> o \in Kept \/ (yesStatus = "live" /\ o \in rows)
    <2>1. \A o : o \in Kept' <=> \E a \in attempts' : /\ a.status = "live"
                                                      /\ o \in {a.yes, a.no} \ {NoOrder}
      BY DEF Kept
    <2>2. new.status = yesStatus /\ new.yes = bundle[1] /\ new.no = bundle[2]
      OBVIOUS
    <2>3. attempts' = attempts \cup {new}
      BY <1>1
    <2> HIDE DEF new
    <2> QED
      BY <2>1, <2>2, <2>3, KeptIs
  <1>6. \A o \in Kept : row'[o] = row[o] /\ placedOn'[o] = placedOn[o]
    <2>1. \A o \in Kept : o # bundle[1]
      <3>1. part = "save"
        BY DEF Save
      <3>2. bundle[1] \in rows
        BY <3>1, LedgerAssumption DEF BundleInv, Placing, NoOrder
      <3> QED
        BY <1>4, <3>2
    <2> HIDE DEF rows
    <2> QED
      BY <1>1, <1>3, <1>4, <2>1
  <1>7. \A o \in Kept' \ Kept : row'[o] = "live" /\ placedOn'[o] = today
    <2>1. \A o \in Kept' \ Kept : yesStatus = "live" /\ o \in rows /\ o \in Orders
      BY <1>2, <1>3, <1>5
    <2> HIDE DEF rows
    <2> QED
      BY <1>1, <2>1
  <1>8. placedOn' \in [Orders -> Nat]
    <2>1. today \in Nat /\ placedOn \in [Orders -> Nat]
      BY DEF RecordsInv
    <2> QED
      BY <1>1, <2>1
  <1> QED
    BY <1>4, <1>5, <1>6, <1>7, <1>8

\* The day changes at midnight only.
LEMMA DayMoves ==
  ASSUME BundleInv, [SetNext]_setVars
  PROVE  today' = today \/ (Midnight /\ today' = today + 1 /\ UNCHANGED <<vars, part, bundle>>)
  BY DEF SetNext, Pass, PassFaults, Start, ReconcileFetch, ReconcileFetchFails,
         ReconcileBook, Quit, PlaceYes, PlaceYesLost, PlaceNo, PlaceNoFails, CancelYes,
         Save, PassCrash, Midnight, setVars, passVars

LEMMA RecordsStep ==
  ASSUME LedgerInv, BundleInv, RecordsInv, [SetNext]_setVars
  PROVE  RecordsInv'
  <1>0. today' \in Nat /\ today =< today' /\ today \in Nat
    BY DayMoves DEF RecordsInv
  <1>1. CASE Save
    <2>1. \A o \in Kept' : o \in Mine
      <3>1. \A o \in {bundle[1], bundle[2]} \ {NoOrder} : o \in Mine
        BY <1>1, CompleteSetAssumption
           DEF Save, BundleInv, Placing, CompleteSetAssumption
      <3> QED
        BY <1>1, <3>1, SaveAdds DEF RecordsInv
    <2>2. today' = today
      BY <1>1 DEF Save
    <2>3. \A o \in Kept : /\ row[o] \in OpenStatus \cup {"FILLED"} /\ placedOn[o] =< today
                          /\ row'[o] = row[o] /\ placedOn'[o] = placedOn[o]
      BY <1>1, SaveAdds DEF RecordsInv
    <2>4. \A o \in Kept' \ Kept : row'[o] \in OpenStatus /\ placedOn'[o] =< today
      BY <1>0, <1>1, SaveAdds DEF OpenStatus
    <2>5. placedOn' \in [Orders -> Nat]
      BY <1>1, SaveAdds
    <2> QED
      BY <1>0, <2>1, <2>2, <2>3, <2>4, <2>5 DEF RecordsInv
  <1>2. CASE ~Save
    <2>1. UNCHANGED <<attempts, placedOn>> /\ Kept' = Kept
      <3>1. UNCHANGED <<attempts, placedOn>>
        BY <1>2, RowsMove
      <3> QED
        BY <3>1 DEF Kept
    <2>2. \A o \in Orders : \/ row'[o] = row[o]
                            \/ row[o] # "absent" /\ row'[o] \in {"PARTIAL", "FILLED"}
      BY <1>2, RowsMove
    <2>3. \A o \in Kept : o \in Orders /\ placedOn[o] \in Nat
      BY LedgerAssumption DEF RecordsInv
    <2> QED
      BY <1>0, <2>1, <2>2, <2>3 DEF RecordsInv, OpenStatus
  <1> QED
    BY <1>1, <1>2

-----------------------------------------------------------------------------
(* The caps.                                                               *)

\* The notional of a set of orders is a number, and grows with the set.
LEMMA OrdersAreTerms ==
  /\ \A S \in SUBSET Mine : IsFiniteSet(S) /\ Notional(S) \in Nat
  /\ \A S \in SUBSET Mine : \A R \in SUBSET S : Notional(R) =< Notional(S)
  /\ \A o \in Mine : SizeOf[o] \in Nat
  <1>1. \A o \in Mine : SizeOf[o] \in Nat
    BY LedgerAssumption
  <1>2. ASSUME NEW S \in SUBSET Mine
        PROVE  IsFiniteSet(S) /\ Notional(S) \in Nat
    <2>1. IsFiniteSet(S)
      BY LedgerAssumption, FS_Subset
    <2>2. SumFunctionOnSet(SizeOf, S) \in Nat
      BY <1>1, <2>1, SumType
    <2> QED
      BY <2>1, <2>2 DEF Notional
  <1>3. ASSUME NEW S \in SUBSET Mine, NEW R \in SUBSET S
        PROVE  Notional(R) =< Notional(S)
    <2>1. \A o \in S : SizeOf[o] \in Nat
      BY <1>1
    <2>2. SumFunctionOnSet(SizeOf, R) =< SumFunctionOnSet(SizeOf, S)
      BY <1>2, <2>1, SumSubset
    <2> QED
      BY <2>2 DEF Notional
  <1> QED
    BY <1>1, <1>2, <1>3

\* A FILLED order has cost what its fill in the ledger says.
LEMMA FilledAreBooked ==
  ASSUME LedgerInv, SharesInv, NEW F \in SUBSET Mine, \A o \in F : row[o] = "FILLED"
  PROVE  Notional(F) =< PositionCost /\ PositionCost \in Nat
  <1> DEFINE f == Sizes(tape)
             h == [o \in F |-> {i \in trades : tape[i].order = o}]
             g == [o \in F |-> SumFunctionOnSet(f, h[o])]
             R == {i \in trades : tape[i].order \in F}
  <1>1. trades \in SUBSET Ids /\ TypeOK /\ F \in SUBSET Orders
    BY LedgerAssumption DEF LedgerInv, BooksInv, TypeOK
  <1>2. /\ IsFiniteSet(F) /\ IsFiniteSet(trades)
        /\ \A i \in trades : f[i] = tape[i].size /\ f[i] \in Nat
        /\ \A S \in SUBSET trades : IsFiniteSet(S) /\ SumFunctionOnSet(f, S) \in Nat
    BY <1>1, OrdersAreTerms, TradesAreTerms
  <1>3. \A o \in F : /\ h[o] = {i \in trades : tape[i].order = o}
                     /\ h[o] \in SUBSET trades /\ g[o] = SumFunctionOnSet(f, h[o])
    OBVIOUS
  <1>4. ASSUME NEW o \in F
        PROVE  SizeOf[o] =< g[o]
    <2>1. FilledBy(o, trades)
      BY <1>1 DEF LedgerInv, BooksInv, StatusInv
    <2>2. PICK i \in trades : tape[i].order = o /\ tape[i].size = SizeOf[o]
      BY <2>1 DEF FilledBy
    <2>3. i \in h[o] /\ f[i] = SizeOf[o]
      BY <1>2, <1>3, <2>2
    <2>4. IsFiniteSet(h[o]) /\ \A j \in h[o] : f[j] \in Nat
      BY <1>2, <1>3
    <2>5. g[o] = SumFunctionOnSet(f, h[o])
      BY <1>3
    <2> DEFINE H == h[o]
               e == i
    <2>6. e \in H /\ IsFiniteSet(H) /\ \A j \in H : f[j] \in Nat
      BY <2>3, <2>4
    <2> HIDE DEF f, h, g, H, e
    <2>7. f[e] =< SumFunctionOnSet(f, H)
      BY <2>6, SumTerm
    <2> QED
      BY <2>3, <2>5, <2>7 DEF H, e
  <1>5. \A o \in F : SizeOf[o] \in Int /\ g[o] \in Int
    BY <1>2, <1>3, LedgerAssumption
  <1>6. SumFunctionOnSet(SizeOf, F) =< SumFunctionOnSet(g, F)
    <2> HIDE DEF g
    <2> QED
      BY <1>2, <1>4, <1>5, SumLeq
  <1>7. SumFunctionOnSet(g, F) = SumFunctionOnSet(f, R)
    <2> DEFINE S == trades
    <2>1. IsFiniteSet(F) /\ IsFiniteSet(S) /\ \A i \in S : f[i] \in Nat
      BY <1>2
    <2>2. \A o \in F : h[o] \in SUBSET S /\ g[o] = SumFunctionOnSet(f, h[o])
      BY <1>3
    <2>3. \A o, q \in F : o # q => h[o] \cap h[q] = {}
      BY <1>3
    <2>4. R \in SUBSET S /\ \A i \in S : i \in R <=> \E o \in F : i \in h[o]
      BY <1>3
    <2> HIDE DEF f, h, g, S, R
    <2> QED
      BY <2>1, <2>2, <2>3, <2>4, SumGroups
  <1>8. SumFunctionOnSet(f, R) =< SumFunctionOnSet(f, trades)
    <2>1. R \in SUBSET trades /\ \A i \in trades : f[i] \in Nat
      BY <1>2
    <2> HIDE DEF R, f
    <2> QED
      BY <1>2, <2>1, SumSubset
  <1>9. PositionCost = SumFunctionOnSet(f, trades)
    BY PositionsCostBooked DEF PositionCost
  <1>10. /\ SumFunctionOnSet(f, R) \in Nat /\ SumFunctionOnSet(f, trades) \in Nat
         /\ Notional(F) \in Nat
    BY <1>2, OrdersAreTerms
  <1>11. Notional(F) = SumFunctionOnSet(SizeOf, F)
    BY DEF Notional
  <1> HIDE DEF f, g, R
  <1> QED
    BY <1>6, <1>7, <1>8, <1>9, <1>10, <1>11

\* So every order the pass has recorded is in the exposure it computes.
LEMMA KeptIsCounted ==
  ASSUME LedgerInv, SharesInv, RecordsInv
  PROVE  Notional(Kept) =< OpenExposure
  <1> DEFINE F == {o \in Kept : row[o] = "FILLED"}
             O == {o \in Kept : row[o] \in OpenStatus}
             A == {o \in Mine : row[o] \in OpenStatus}
  <1>1. /\ Kept = O \cup F /\ O \cap F = {} /\ O \in SUBSET A /\ A \in SUBSET Mine
        /\ F \in SUBSET Mine /\ O \in SUBSET Mine /\ Kept \in SUBSET Mine
        /\ \A o \in F : row[o] = "FILLED"
    BY DEF RecordsInv, OpenStatus
  <1>2. OpenNotional = Notional(A)
    BY DEF OpenNotional
  <1> HIDE DEF F, O, A
  <1>3. Notional(F) =< PositionCost /\ PositionCost \in Nat
    BY <1>1, FilledAreBooked
  <1>4. /\ Notional(O) =< Notional(A) /\ Notional(A) \in Nat
        /\ Notional(O) \in Nat /\ Notional(F) \in Nat
    BY <1>1, OrdersAreTerms
  <1>5. Notional(O \cup F) = Notional(O) + Notional(F)
    <2>1. IsFiniteSet(O) /\ IsFiniteSet(F) /\ \A o \in O \cup F : SizeOf[o] \in Int
      BY <1>1, OrdersAreTerms
    <2>2. SumFunctionOnSet(SizeOf, O \cup F)
            = SumFunctionOnSet(SizeOf, O) + SumFunctionOnSet(SizeOf, F)
      BY <1>1, <2>1, SumUnion
    <2> QED
      BY <2>2 DEF Notional
  <1>6. Notional(Kept) = Notional(O) + Notional(F)
    BY <1>1, <1>5
  <1>7. OpenExposure = PositionCost + 2 * Notional(A)
    BY <1>2 DEF OpenExposure
  <1> QED
    BY <1>3, <1>4, <1>6, <1>7

\* And every order of the day is in the day's gross.
LEMMA KeptTodayIsUsed ==
  ASSUME RecordsInv
  PROVE  Notional(KeptOn(today)) =< DailyGrossUsed
  <1> DEFINE D == {o \in Mine : placedOn[o] = today /\ row[o] \in OpenStatus \cup {"FILLED"}}
  <1>1. KeptOn(today) \in SUBSET D /\ D \in SUBSET Mine
    BY DEF RecordsInv, KeptOn
  <1>2. DailyGrossUsed = Notional(D)
    BY DEF DailyGrossUsed
  <1> HIDE DEF D
  <1> QED
    BY <1>1, <1>2, OrdersAreTerms

\* A set of orders that grows by the orders of the pass grows by their sizes.
LEMMA GrowsByBundle ==
  ASSUME BundleInv, part = "save", NEW K \in SUBSET Mine,
         K \cap ({bundle[1], bundle[2]} \ {NoOrder}) = {},
         NEW L, L \in SUBSET (K \cup ({bundle[1], bundle[2]} \ {NoOrder}))
  PROVE  /\ Notional(L) =< Notional(K) + 2 * SizeOf[bundle[1]]
         /\ L \in SUBSET Mine
  <1> DEFINE y == bundle[1]
             n == bundle[2]
             B == {y, n} \ {NoOrder}
  <1>1. y \in Mine /\ y # NoOrder /\ SizeOf[y] \in Nat
    BY LedgerAssumption DEF BundleInv, Placing, NoOrder
  <1>2. n # NoOrder => n \in Mine /\ n # y /\ SizeOf[n] = SizeOf[y]
    BY BundleFields DEF BundleInv
  <1> HIDE DEF y, n
  <1>3. B \in SUBSET Mine /\ K \cap B = {} /\ L \in SUBSET (K \cup B)
    BY <1>1, <1>2 DEF y, n
  <1>4. Notional({y}) = SizeOf[y]
    <2>1. SumFunctionOnSet(SizeOf, {} \cup {y}) = SumFunctionOnSet(SizeOf, {}) + SizeOf[y]
      <3>1. IsFiniteSet({}) /\ y \notin {} /\ \A o \in {} \cup {y} : SizeOf[o] \in Int
        BY <1>1, FS_EmptySet
      <3> QED
        BY <3>1, SumAdd
    <2>2. {} \cup {y} = {y}
      OBVIOUS
    <2> QED
      BY <1>1, <2>1, <2>2, SumEmpty DEF Notional
  <1>5. Notional(B) =< 2 * SizeOf[y]
    <2>1. CASE n = NoOrder
      <3>1. B = {y}
        BY <1>1, <2>1
      <3> HIDE DEF B
      <3>2. Notional(B) = SizeOf[y]
        BY <1>4, <3>1
      <3> QED
        BY <1>1, <3>2
    <2>2. CASE n # NoOrder
      <3>1. B = {y} \cup {n} /\ n \notin {y}
        BY <1>1, <1>2, <2>2
      <3>2. SumFunctionOnSet(SizeOf, {y} \cup {n}) = SumFunctionOnSet(SizeOf, {y}) + SizeOf[n]
        <4>1. IsFiniteSet({y})
          BY FS_Singleton
        <4>2. SizeOf[y] \in Int /\ SizeOf[n] \in Int
          BY <1>1, <1>2, <2>2
        <4> DEFINE S == {y}
                   f == SizeOf
        <4>3. IsFiniteSet(S) /\ n \notin S /\ \A x \in S \cup {n} : f[x] \in Int
          BY <3>1, <4>1, <4>2
        <4> HIDE DEF S, f
        <4>4. SumFunctionOnSet(f, S \cup {n}) = SumFunctionOnSet(f, S) + f[n]
          BY <4>3, SumAdd
        <4> QED
          BY <4>4 DEF S, f
      <3>3. Notional(B) = SizeOf[y] + SizeOf[y]
        BY <1>2, <1>4, <2>2, <3>1, <3>2 DEF Notional
      <3> QED
        BY <1>1, <3>3
    <2> QED
      BY <2>1, <2>2
  <1> HIDE DEF B
  <1>6. Notional(K \cup B) = Notional(K) + Notional(B)
    <2>1. IsFiniteSet(K) /\ IsFiniteSet(B) /\ \A o \in K \cup B : SizeOf[o] \in Int
      BY <1>3, OrdersAreTerms
    <2>2. SumFunctionOnSet(SizeOf, K \cup B)
            = SumFunctionOnSet(SizeOf, K) + SumFunctionOnSet(SizeOf, B)
      BY <1>3, <2>1, SumUnion
    <2> QED
      BY <2>2 DEF Notional
  <1>7. /\ K \cup B \in SUBSET Mine /\ Notional(L) =< Notional(K \cup B)
        /\ Notional(K) \in Nat /\ Notional(B) \in Nat /\ Notional(L) \in Nat
    <2>1. K \cup B \in SUBSET Mine /\ L \in SUBSET Mine
      BY <1>3
    <2> QED
      BY <1>3, <2>1, OrdersAreTerms
  <1> QED
    BY <1>1, <1>3, <1>5, <1>6, <1>7 DEF y

\* What PlaceYes has tested holds until the commit: midnight only makes room,
\* and no other step records an order.
LEMMA CapsStep ==
  ASSUME LedgerInv, SharesInv, BundleInv, BundleInv', RecordsInv, CapsInv,
         [SetNext]_setVars
  PROVE  CapsInv'
  <1>0. /\ Kept \in SUBSET Mine /\ \A d : KeptOn(d) \in SUBSET Mine
        /\ \A d : Notional(KeptOn(d)) \in Nat /\ Notional(Kept) \in Nat
        /\ DailyCap \in Nat /\ OpenCap \in Nat
        /\ \A o \in Mine : SizeOf[o] \in Nat
    <2>1. Kept \in SUBSET Mine /\ \A d : KeptOn(d) \in SUBSET Mine
      BY DEF RecordsInv, KeptOn
    <2> QED
      BY <2>1, OrdersAreTerms, CompleteSetAssumption DEF CompleteSetAssumption
  <1>1. CASE Save
    <2> DEFINE B == {bundle[1], bundle[2]} \ {NoOrder}
    <2>1. /\ part = "save" /\ part' = "off" /\ today' = today
      BY <1>1 DEF Save, EndPass
    <2>2. /\ Kept' \subseteq Kept \cup B
          /\ \A o \in Kept : o \notin B /\ placedOn'[o] = placedOn[o]
          /\ \A o \in Kept' \ Kept : placedOn'[o] = today
      BY <1>1, SaveAdds
    <2>3. /\ Notional(KeptOn(today)) + 2 * SizeOf[bundle[1]] =< DailyCap
          /\ Notional(Kept) + 2 * SizeOf[bundle[1]] =< OpenCap
          /\ SizeOf[bundle[1]] \in Nat
      BY <2>1, <1>0 DEF CapsInv, BundleInv, Placing
    <2>4. Notional(Kept') =< OpenCap
      <3>1. /\ Notional(Kept') =< Notional(Kept) + 2 * SizeOf[bundle[1]]
            /\ Kept' \in SUBSET Mine
        <4> DEFINE K == Kept
                   L == Kept'
        <4>1. L \in SUBSET (K \cup B) /\ K \cap B = {} /\ K \in SUBSET Mine
          BY <1>0, <2>2
        <4> HIDE DEF K, L
        <4>2. Notional(L) =< Notional(K) + 2 * SizeOf[bundle[1]] /\ L \in SUBSET Mine
          BY <4>1, <2>1, GrowsByBundle
        <4> QED
          BY <4>2 DEF K, L
      <3>2. Notional(Kept') \in Nat
        BY <3>1, OrdersAreTerms
      <3> QED
        BY <1>0, <2>3, <3>1, <3>2
    <2>5. ASSUME NEW d \in 1 .. MaxDay
          PROVE  Notional(KeptOn(d)') =< DailyCap
      <3>1. KeptOn(d)' = {o \in Kept' : placedOn'[o] = d}
        BY DEF KeptOn
      <3>2. CASE d = today
        <4> DEFINE K == KeptOn(today)
                   L == KeptOn(d)'
        <4>1. L \subseteq K \cup B /\ K \cap B = {} /\ K \in SUBSET Mine
          BY <3>1, <3>2, <2>2, <1>0 DEF KeptOn
        <4> HIDE DEF K, L
        <4>2. Notional(L) =< Notional(K) + 2 * SizeOf[bundle[1]] /\ L \in SUBSET Mine
          BY <4>1, <2>1, GrowsByBundle
        <4>3. Notional(L) \in Nat
          BY <4>2, OrdersAreTerms
        <4>4. Notional(K) + 2 * SizeOf[bundle[1]] =< DailyCap /\ Notional(K) \in Nat
          BY <1>0, <2>3 DEF K
        <4>5. Notional(L) =< DailyCap
          BY <1>0, <2>3, <4>2, <4>3, <4>4
        <4> QED
          BY <4>5 DEF L
      <3>3. CASE d # today
        <4>1. KeptOn(d)' \subseteq KeptOn(d)
          BY <3>1, <3>3, <2>2 DEF KeptOn
        <4> DEFINE K == KeptOn(d)
                   L == KeptOn(d)'
        <4>2. L \in SUBSET K /\ K \in SUBSET Mine
          BY <4>1, <1>0
        <4>3. Notional(K) =< DailyCap /\ Notional(K) \in Nat
          BY <1>0 DEF CapsInv
        <4> HIDE DEF K, L
        <4>4. Notional(L) =< Notional(K) /\ Notional(L) \in Nat
          BY <4>2, OrdersAreTerms
        <4>5. Notional(L) =< DailyCap
          BY <1>0, <4>3, <4>4
        <4> QED
          BY <4>5 DEF L
      <3> QED
        BY <3>2, <3>3
    <2>6. ~Placing'
      BY <2>1 DEF Placing
    <2> QED
      BY <2>4, <2>5, <2>6 DEF CapsInv, Notional
  <1>2. CASE ~Save
    <2>1. UNCHANGED <<Kept, placedOn>> /\ \A d : KeptOn(d)' = KeptOn(d)
      <3>1. UNCHANGED <<attempts, placedOn>>
        BY <1>2, RowsMove
      <3> QED
        BY <3>1 DEF Kept, KeptOn
    <2>2. /\ \A d \in 1 .. MaxDay : Notional(KeptOn(d))' =< DailyCap
          /\ Notional(Kept)' =< OpenCap
      BY <2>1 DEF CapsInv, Notional
    <2>3. CASE Midnight /\ today' = today + 1 /\ UNCHANGED <<vars, part, bundle>>
      <3>1. KeptOn(today') = {}
        BY <2>3 DEF RecordsInv, KeptOn
      <3>2. Notional({}) = 0
        BY SumEmpty DEF Notional
      <3>3. Placing => /\ bundle[1] \in Mine
                       /\ Notional(KeptOn(today)) + 2 * SizeOf[bundle[1]] =< DailyCap
                       /\ Notional(Kept) + 2 * SizeOf[bundle[1]] =< OpenCap
        BY DEF CapsInv, BundleInv
      <3>4. Placing => 2 * SizeOf[bundle[1]] =< DailyCap /\ SizeOf[bundle[1]] \in Nat
        <4> DEFINE z == KeptOn(today)
        <4>1. Notional(z) \in Nat
          BY <1>0
        <4> HIDE DEF z
        <4> QED
          BY <1>0, <3>3, <4>1 DEF z
      <3>5. KeptOn(today)' = {}
        BY <2>1, <3>1 DEF KeptOn
      <3>6. Notional(KeptOn(today))' = 0
        BY <3>2, <3>5 DEF Notional
      <3>7. Placing' => /\ Notional(KeptOn(today))' + 2 * SizeOf[bundle[1]]' =< DailyCap
                        /\ Notional(Kept)' + 2 * SizeOf[bundle[1]]' =< OpenCap
        BY <2>1, <2>3, <3>3, <3>4, <3>6 DEF Placing, Notional
      <3> QED
        BY <2>2, <3>7 DEF CapsInv
    <2>4. CASE today' = today
      <3>1. KeptOn(today)' = KeptOn(today)
        BY <2>1, <2>4 DEF KeptOn
      <3>2. CASE Placing /\ bundle'[1] = bundle[1]
        <4>1. /\ Notional(KeptOn(today))' + 2 * SizeOf[bundle[1]]' =< DailyCap
              /\ Notional(Kept)' + 2 * SizeOf[bundle[1]]' =< OpenCap
          BY <2>1, <3>1, <3>2 DEF CapsInv, Notional
        <4> QED
          BY <2>2, <4>1 DEF CapsInv
      <3>3. ASSUME NEW b \in Bundles, PlaceYes(b)
            PROVE  CapsInv'
        <4>1. /\ DailyGrossUsed + Gross(b) =< DailyCap
              /\ OpenExposure + Gross(b) =< OpenCap
              /\ bundle' = <<b[1], NoOrder>>
          BY <3>3 DEF PlaceYes, MayBuy
        <4>2. Gross(b) = 2 * SizeOf[b[1]] /\ SizeOf[b[1]] \in Nat
          BY BundleFields DEF Gross
        <4>3. /\ Notional(KeptOn(today)) =< DailyGrossUsed
              /\ Notional(Kept) =< OpenExposure
          BY KeptTodayIsUsed, KeptIsCounted
        <4>4. DailyGrossUsed \in Int /\ OpenExposure \in Int
          <5>1. DailyGrossUsed \in Nat /\ OpenNotional \in Nat
            BY OrdersAreTerms DEF DailyGrossUsed, OpenNotional
          <5>2. PositionCost \in Nat
            <6>1. {} \in SUBSET Mine /\ \A o \in {} : row[o] = "FILLED"
              OBVIOUS
            <6> QED
              BY <6>1, FilledAreBooked
          <5> QED
            BY <5>1, <5>2 DEF OpenExposure
        <4>5. /\ Notional(KeptOn(today)) + 2 * SizeOf[b[1]] =< DailyCap
              /\ Notional(Kept) + 2 * SizeOf[b[1]] =< OpenCap
          <5> DEFINE z == KeptOn(today)
          <5>1. Notional(z) \in Nat /\ Notional(z) =< DailyGrossUsed
            BY <1>0, <4>3
          <5> HIDE DEF z
          <5>2. Notional(z) + 2 * SizeOf[b[1]] =< DailyCap
            BY <1>0, <4>1, <4>2, <4>4, <5>1
          <5>3. Notional(Kept) + 2 * SizeOf[b[1]] =< OpenCap
            BY <1>0, <4>1, <4>2, <4>3, <4>4
          <5> QED
            BY <5>2, <5>3 DEF z
        <4>6. /\ Notional(KeptOn(today))' + 2 * SizeOf[bundle[1]]' =< DailyCap
              /\ Notional(Kept)' + 2 * SizeOf[bundle[1]]' =< OpenCap
          BY <2>1, <3>1, <4>1, <4>5 DEF Notional
        <4> QED
          BY <2>2, <4>6 DEF CapsInv
      <3>4. CASE ~Placing'
        BY <2>2, <3>4 DEF CapsInv
      <3>5. \/ Placing /\ bundle'[1] = bundle[1]
            \/ ~Placing'
            \/ \E b \in Bundles : PlaceYes(b)
        BY <1>2 DEF SetNext, Pass, PassFaults, Start, ReconcileFetch, ReconcileFetchFails,
               ReconcileBook, Quit, PlaceYesLost, PlaceNo, PlaceNoFails, CancelYes,
               PassCrash, Midnight, setVars, passVars, Placing, Goes, EndPass
      <3> QED
        BY <3>2, <3>3, <3>4, <3>5
    <2> QED
      BY <2>3, <2>4, DayMoves
  <1> QED
    BY <1>1, <1>2

-----------------------------------------------------------------------------
(* The theorems.                                                           *)

SetInv ==
  /\ LedgerInv /\ SharesInv
  /\ BundleInv /\ RecordsInv /\ CapsInv
  /\ SignalBoughtOnce

\* The dedupe has looked for the signal before the first order, and nothing but
\* the pass's own commit adds an event.
LEMMA OnceStep ==
  ASSUME LedgerInv, BundleInv, SignalBoughtOnce, [SetNext]_setVars
  PROVE  SignalBoughtOnce'
  <1>1. CASE Save
    <2>1. /\ part = "save"
          /\ attempts' = attempts \cup {[signal |-> signal, yes |-> bundle[1],
                                         no |-> bundle[2], status |-> yesStatus]}
      BY <1>1 DEF Save
    <2>2. \A a \in attempts : a.signal # signal
      BY <2>1 DEF BundleInv, Placing, Attempted
    <2> QED
      BY <2>1, <2>2 DEF SignalBoughtOnce
  <1>2. CASE ~Save
    BY <1>2, RowsMove DEF SignalBoughtOnce
  <1> QED
    BY <1>1, <1>2

LEMMA SetInvInit == SetInit => SetInv
  <1> SUFFICES ASSUME SetInit PROVE SetInv
    OBVIOUS
  <1>1. LedgerInv /\ SharesInv
    BY LedgerInit, SharesInit DEF SetInit
  <1>2. BundleInv /\ SignalBoughtOnce
    BY DEF SetInit, Init, BundleInv, Placing, SignalBoughtOnce
  <1>3. Kept = {} /\ \A d : KeptOn(d) = {}
    BY KeptIs DEF SetInit, KeptOn
  <1>4. RecordsInv
    BY <1>3 DEF SetInit, RecordsInv
  <1>5. Notional({}) = 0
    BY SumEmpty DEF Notional
  <1>6. CapsInv
    BY <1>3, <1>5, CompleteSetAssumption
       DEF SetInit, CapsInv, Placing, CompleteSetAssumption
  <1> QED
    BY <1>1, <1>2, <1>4, <1>6 DEF SetInv

\* The invariant holds in every state of the probe.
THEOREM SetInvariant == SetSpec => []SetInv
  <1>1. SetInv /\ [SetNext]_setVars => SetInv'
    <2> SUFFICES ASSUME SetInv, [SetNext]_setVars PROVE SetInv'
      OBVIOUS
    <2>1. LedgerInv' /\ SharesInv' /\ BundleInv'
      BY PassKeepsLedger, BundleStep DEF SetInv
    <2>2. RecordsInv' /\ CapsInv' /\ SignalBoughtOnce'
      BY <2>1, RecordsStep, CapsStep, OnceStep DEF SetInv
    <2> QED
      BY <2>1, <2>2 DEF SetInv
  <1> QED
    BY SetInvInit, <1>1, PTL DEF SetSpec

\* A signal opens one attempt, whatever crashes, lost answers and newer signals
\* come in between (_signal_already_attempted).
THEOREM SetBuysOnce == SetSpec => []SignalBoughtOnce
  <1>1. SetInv => SignalBoughtOnce
    BY DEF SetInv
  <1> QED
    BY <1>1, SetInvariant, PTL

\* A leg that may still be filled keeps an open row, or has none: a cancel that
\* is refused or lost never closes it (_persist_incomplete_bundle).
THEOREM SetLegs == SetSpec => []LegNotWrittenOff
  <1>1. SetInv => LegNotWrittenOff
    BY RestingIsOpen DEF SetInv, LegNotWrittenOff
  <1> QED
    BY <1>1, SetInvariant, PTL

\* An order costs no more than its size.
LEMMA CostsNoMore ==
  ASSUME LedgerInv, NEW S \in SUBSET Mine
  PROVE  CostOfAll(S) =< Notional(S) /\ CostOfAll(S) \in Nat
  <1>1. \A o \in S : CostOf[o] \in Nat /\ SizeOf[o] \in Nat /\ CostOf[o] =< SizeOf[o]
    <2>1. \A o \in Orders : CostOf[o] = left[o] + Filled(o)
      BY DEF CostOf
    <2>2. \A o \in Orders : left[o] \in Nat /\ Filled(o) \in Nat /\ SizeOf[o] \in Nat
      BY TradesAreTerms, LedgerAssumption DEF LedgerInv, BooksInv, TypeOK
    <2> QED
      BY <2>1, <2>2, LedgerAssumption DEF LedgerInv, BooksInv, FilledInv
  <1>2. IsFiniteSet(S)
    BY OrdersAreTerms
  <1>3. SumFunctionOnSet(CostOf, S) =< SumFunctionOnSet(SizeOf, S)
    <2>1. \A o \in S : CostOf[o] \in Int /\ SizeOf[o] \in Int /\ CostOf[o] =< SizeOf[o]
      BY <1>1
    <2> QED
      BY <1>2, <2>1, SumLeq
  <1>4. SumFunctionOnSet(CostOf, S) \in Nat
    BY <1>1, <1>2, SumType
  <1> QED
    BY <1>3, <1>4 DEF CostOfAll, Notional

\* The recorded orders of a day cost no more than --daily-gross-cap-usd, even
\* when a pass is overtaken by midnight or its fills are reconciled later.
THEOREM SetDailyCap == SetSpec => []DailyCapHolds
  <1>1. ASSUME SetInv, NEW d \in 1 .. MaxDay
        PROVE  CostOfAll({o \in Kept : placedOn[o] = d}) =< DailyCap
    <2> DEFINE K == KeptOn(d)
    <2>1. K \in SUBSET Mine /\ Notional(K) =< DailyCap /\ LedgerInv
      BY <1>1 DEF SetInv, RecordsInv, CapsInv, KeptOn
    <2>2. {o \in Kept : placedOn[o] = d} = K
      BY DEF KeptOn
    <2> HIDE DEF K
    <2>3. CostOfAll(K) =< Notional(K) /\ CostOfAll(K) \in Nat /\ Notional(K) \in Nat
      BY <2>1, CostsNoMore, OrdersAreTerms
    <2>4. CostOfAll(K) =< DailyCap
      BY <2>1, <2>3, CompleteSetAssumption DEF CompleteSetAssumption
    <2> QED
      BY <2>2, <2>4
  <1>2. SetInv => DailyCapHolds
    BY <1>1 DEF DailyCapHolds
  <1> QED
    BY <1>2, SetInvariant, PTL

\* All the recorded orders cost no more than --open-exposure-cap-usd: a share
\* leaves the open orders only for a position that the exposure counts.
THEOREM SetOpenCap == SetSpec => []OpenCapHolds
  <1>1. ASSUME SetInv
        PROVE  CostOfAll(Kept) =< OpenCap
    <2>1. Kept \in SUBSET Mine /\ Notional(Kept) =< OpenCap /\ LedgerInv
      BY <1>1 DEF SetInv, RecordsInv, CapsInv
    <2>2. CostOfAll(Kept) =< Notional(Kept) /\ CostOfAll(Kept) \in Nat /\ Notional(Kept) \in Nat
      BY <2>1, CostsNoMore, OrdersAreTerms
    <2> QED
      BY <2>1, <2>2, CompleteSetAssumption DEF CompleteSetAssumption
  <1>2. SetInv => OpenCapHolds
    BY <1>1 DEF OpenCapHolds
  <1> QED
    BY <1>2, SetInvariant, PTL
=============================================================================
