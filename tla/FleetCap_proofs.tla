--------------------------- MODULE FleetCap_proofs ---------------------------
(***************************************************************************)
(* Proofs about FleetCap, for every fleet, every set of orders and every   *)
(* cap: what a live order that asked the cap can do to it.                 *)
(*                                                                         *)
(* SeenInv ties what a check has summed so far to what it would sum now,   *)
(* but for the two histories; IntentInv keeps the order of an entry in     *)
(* progress out of every other bot's reach.                                *)
(***************************************************************************)
EXTENDS FleetCap, SumLemmas

\* The order being entered is the bot's own, and has no row yet.
IntentInv ==
  \A b \in Bots : pc[b] # "idle" =>
    /\ OwnerOf[intent[b]] = b
    /\ status[intent[b]] = IF pc[b] = "record" THEN "flight" ELSE "absent"

\* Past its verdict, a check's order fits but for what it could not see.
SeenFits(b) ==
  /\ pc[b] \in {"orders", "decide"} =>
       /\ Stake(b) =< seen[b] + behind[b]
       /\ seen[b] =< Seeable(b) + freed[b]
  /\ pc[b] \in {"submit", "record"} =>
       AtStake(Live) + NotionalOf[intent[b]] =< Cap + behind[b]
SeenInv == \A b \in Live \cap Checking : SeenFits(b)

FleetInv == TypeOK /\ IntentInv /\ SeenInv

-----------------------------------------------------------------------------
(* The two sums.                                                           *)

LEMMA PositionsNat ==
  ASSUME TypeOK, NEW S \in SUBSET Bots
  PROVE  PositionsUsd(S) \in Nat
<1>1. IsFiniteSet(S)
  BY FS_Subset, FleetAssumption
<1>2. \A b \in S : held[b] \in Nat
  BY DEF TypeOK
<1> QED BY <1>1, <1>2, SumType DEF PositionsUsd

LEMMA RowsNat ==
  ASSUME NEW S, NEW st
  PROVE  RowsUsd(S, st) \in Nat /\ RowsUsd(S, st)' \in Nat
<1> SUFFICES ASSUME NEW row
             PROVE  SumFunctionOnSet(NotionalOf, {o \in Orders : OwnerOf[o] \in S
                                                   /\ row[o] \in st}) \in Nat
  BY DEF RowsUsd
<1> DEFINE in == {o \in Orders : OwnerOf[o] \in S /\ row[o] \in st}
<1>1. IsFiniteSet(in)
  BY FS_Subset, FleetAssumption
<1>2. \A o \in in : NotionalOf[o] \in Nat
  BY FleetAssumption
<1> HIDE DEF in
<1>3. SumFunctionOnSet(NotionalOf, in) \in Nat
  BY <1>1, <1>2, SumType
<1> QED BY <1>3 DEF in

LEMMA OrdersNat ==
  ASSUME NEW S
  PROVE  /\ OpenOrdersUsd(S) \in Nat /\ OpenOrdersUsd(S)' \in Nat
         /\ Uncounted(S) \in Nat /\ Uncounted(S)' \in Nat
  BY RowsNat DEF OpenOrdersUsd, Uncounted

\* One row gets a status: a sum that counts it grows by its notional at most.
LEMMA OneOpens ==
  ASSUME TypeOK, NEW S, NEW st, NEW o \in Orders, NEW v,
         status' = [status EXCEPT ![o] = v]
  PROVE  RowsUsd(S, st)' =< RowsUsd(S, st) + NotionalOf[o]
<1> DEFINE old == {q \in Orders : OwnerOf[q] \in S /\ status[q] \in st}
           new == {q \in Orders : OwnerOf[q] \in S /\ status'[q] \in st}
<1>1. \/ new = old
      \/ o \notin old /\ new = old \cup {o}
      \/ o \notin new /\ old = new \cup {o}
  BY DEF TypeOK
<1>2. /\ IsFiniteSet(old) /\ \A q \in old \cup {o} : NotionalOf[q] \in Nat
      /\ IsFiniteSet(new) /\ \A q \in new \cup {o} : NotionalOf[q] \in Nat
  BY FS_Subset, FleetAssumption
<1>3. RowsUsd(S, st) = SumFunctionOnSet(NotionalOf, old)
      /\ RowsUsd(S, st)' = SumFunctionOnSet(NotionalOf, new)
  BY DEF RowsUsd
<1> HIDE DEF old, new
<1>4. SumFunctionOnSet(NotionalOf, old) \in Nat /\ SumFunctionOnSet(NotionalOf, new) \in Nat
  BY <1>2, SumType
<1>5. ASSUME NEW R, o \notin R, IsFiniteSet(R), \A q \in R \cup {o} : NotionalOf[q] \in Nat
      PROVE  SumFunctionOnSet(NotionalOf, R \cup {o})
               = SumFunctionOnSet(NotionalOf, R) + NotionalOf[o]
  <2>1. \A q \in R \cup {o} : NotionalOf[q] \in Int
    BY <1>5
  <2> QED BY <1>5, <2>1, SumAdd
<1>6. NotionalOf[o] \in Nat
  BY <1>2
<1>7. CASE new = old
  BY <1>3, <1>4, <1>6, <1>7
<1>8. CASE o \notin old /\ new = old \cup {o}
  BY <1>2, <1>3, <1>4, <1>5, <1>6, <1>8
<1>9. CASE o \notin new /\ old = new \cup {o}
  BY <1>2, <1>3, <1>4, <1>5, <1>6, <1>9
<1> QED BY <1>1, <1>7, <1>8, <1>9

\* Rows that stay in a sum, or out of it, do not change it.
LEMMA NoneOpens ==
  ASSUME NEW S, NEW st, \A o \in Orders : status'[o] \in st <=> status[o] \in st
  PROVE  RowsUsd(S, st)' = RowsUsd(S, st)
<1>1. {o \in Orders : OwnerOf[o] \in S /\ status'[o] \in st}
        = {o \in Orders : OwnerOf[o] \in S /\ status[o] \in st}
  OBVIOUS
<1> QED BY <1>1 DEF RowsUsd

\* Rows without the status of a live order before and after a step.
SameRows ==
  \A o \in Orders : /\ status'[o] \in OpenStatus <=> status[o] \in OpenStatus
                    /\ status'[o] \in {"matched"} <=> status[o] \in {"matched"}

LEMMA SameRowsSums ==
  ASSUME SameRows, NEW S
  PROVE  OpenOrdersUsd(S)' = OpenOrdersUsd(S) /\ Uncounted(S)' = Uncounted(S)
<1>1. RowsUsd(S, OpenStatus)' = RowsUsd(S, OpenStatus)
  BY NoneOpens DEF SameRows
<1>2. RowsUsd(S, {"matched"})' = RowsUsd(S, {"matched"})
  BY NoneOpens DEF SameRows
<1> QED BY <1>1, <1>2 DEF OpenOrdersUsd, Uncounted

-----------------------------------------------------------------------------
(* Type correctness.                                                       *)

LEMMA FleetTypeStep ==
  ASSUME FleetInv, [Next]_vars
  PROVE  TypeOK'
<1> USE FleetAssumption DEF FleetInv, TypeOK, Status
<1>1. ASSUME NEW b \in Bots, NEW o \in Orders, ReadPositions(b, o) PROVE TypeOK'
  <2>1. PositionsUsd(SameMode(b)) \in Nat
    BY PositionsNat DEF SameMode
  <2> QED BY <1>1, <2>1 DEF ReadPositions, NoOrder
<1>2. ASSUME NEW b \in Bots, NEW o \in Orders, EnterUnchecked(b, o) PROVE TypeOK'
  BY <1>2 DEF EnterUnchecked, NoOrder
<1>3. ASSUME NEW b \in Bots, ReadOrders(b) PROVE TypeOK'
  <2>1. OpenOrdersUsd(SameMode(b)) \in Nat /\ Uncounted(SameMode(b)) \in Nat
    BY OrdersNat
  <2> QED BY <1>3, <2>1 DEF ReadOrders
<1>4. ASSUME NEW b \in Bots, Approve(b) PROVE TypeOK'
  BY <1>4 DEF Approve
<1>5. ASSUME NEW b \in Bots, Refuse(b) \/ SubmitFails(b) PROVE TypeOK'
  BY <1>5 DEF Refuse, SubmitFails, Leave, Forget
<1>6. ASSUME NEW b \in Bots, Submit(b) PROVE TypeOK'
  BY <1>6 DEF Submit
<1>7. ASSUME NEW b \in Bots, ReadFails(b) PROVE TypeOK'
  BY <1>7 DEF ReadFails, Leave, Forget
<1>8. ASSUME NEW b \in Bots, CrashBot(b) PROVE TypeOK'
  BY <1>8 DEF CrashBot, Leave, Forget
<1>9. ASSUME NEW S, Watch(S), held \in [Bots -> Nat], held' \in [Bots -> Nat]
      PROVE  behind' \in [Bots -> Nat] /\ freed' \in [Bots -> Nat]
  <2>1. ASSUME NEW b \in Bots
        PROVE  /\ Seeable(b) \in Nat /\ Seeable(b)' \in Nat
               /\ Stake(b) \in Nat /\ Stake(b)' \in Nat
    <3>1. SameMode(b) \in SUBSET Bots
      BY DEF SameMode
    <3>2. /\ PositionsUsd(SameMode(b)) \in Nat
          /\ OpenOrdersUsd(SameMode(b)) \in Nat /\ Uncounted(SameMode(b)) \in Nat
      BY <3>1, PositionsNat, OrdersNat
    <3>3. PositionsUsd(SameMode(b))' \in Nat
      <4>1. IsFiniteSet(SameMode(b))
        BY <3>1, FS_Subset
      <4>2. \A c \in SameMode(b) : held'[c] \in Nat
        BY <1>9, <3>1
      <4>3. SumFunctionOnSet(held', SameMode(b)) \in Nat
        BY <4>1, <4>2, SumType
      <4> QED BY <4>3 DEF PositionsUsd, SameMode
    <3>4. OpenOrdersUsd(SameMode(b))' \in Nat /\ Uncounted(SameMode(b))' \in Nat
      <4>1. SameMode(b)' = SameMode(b)
        BY DEF SameMode
      <4> QED BY <4>1, OrdersNat
    <3> QED BY <3>2, <3>3, <3>4 DEF Seeable, Stake, Checked, Recorded, AtStake
  <2>2. ASSUME NEW b \in Bots
        PROVE  Gain(Stake(b)', Stake(b)) \in Nat /\ Gain(Seeable(b), Seeable(b)') \in Nat
    BY <2>1 DEF Gain
  <2> HIDE DEF FleetInv
  <2>3. behind \in [Bots -> Nat] /\ freed \in [Bots -> Nat]
    BY DEF FleetInv
  <2> QED BY <1>9, <2>2, <2>3 DEF Watch
<1>10. ASSUME NEW b \in Bots, Record(b) PROVE TypeOK'
  <2>1. held' = held
    BY <1>10 DEF Record
  <2>2. behind' \in [Bots -> Nat] /\ freed' \in [Bots -> Nat]
    BY <1>9, <1>10, <2>1 DEF Record
  <2>3. status' \in [Orders -> Status]
    <3>1. PICK s \in {"OPEN", "matched"} : status' = [status EXCEPT ![intent[b]] = s]
      BY <1>10 DEF Record
    <3> QED BY <3>1
  <2>4. UNCHANGED <<booked, held>> /\ Leave(b)
    BY <1>10 DEF Record
  <2> QED BY <2>2, <2>3, <2>4 DEF Leave
<1>11. ASSUME NEW o \in Orders, NEW n \in 1 .. NotionalOf[o], BookFill(o, n)
       PROVE  TypeOK'
  <2>1. held' \in [Bots -> Nat]
    BY <1>11 DEF BookFill
  <2>2. behind' \in [Bots -> Nat] /\ freed' \in [Bots -> Nat]
    BY <1>9, <1>11, <2>1 DEF BookFill
  <2>3. booked' \in [Orders -> Nat] /\ \A q \in Orders : booked'[q] =< NotionalOf[q]
    BY <1>11 DEF BookFill
  <2>4. status' \in [Orders -> Status] /\ UNCHANGED <<pc, intent, seen>>
    BY <1>11 DEF BookFill, checkVars
  <2> QED BY <2>1, <2>2, <2>3, <2>4
<1>12. ASSUME NEW o \in Orders, CloseOrder(o) PROVE TypeOK'
  <2>1. behind' \in [Bots -> Nat] /\ freed' \in [Bots -> Nat]
    BY <1>9, <1>12 DEF CloseOrder
  <2> QED BY <1>12, <2>1 DEF CloseOrder, checkVars
<1>13. ASSUME NEW b \in Bots, ClosePositions(b) PROVE TypeOK'
  <2>1. held' \in [Bots -> Nat]
    BY <1>13 DEF ClosePositions
  <2>2. behind' \in [Bots -> Nat] /\ freed' \in [Bots -> Nat]
    BY <1>9, <1>13, <2>1 DEF ClosePositions
  <2> QED BY <1>13, <2>1, <2>2 DEF ClosePositions, checkVars
<1>14. CASE UNCHANGED vars
  BY <1>14 DEF vars
<1> QED BY <1>1, <1>2, <1>3, <1>4, <1>5, <1>6, <1>7, <1>8, <1>10, <1>11, <1>12,
           <1>13, <1>14 DEF Next, Enter, Ledger

-----------------------------------------------------------------------------
(* The entry in progress.                                                  *)

LEMMA IntentStep ==
  ASSUME FleetInv, [Next]_vars
  PROVE  IntentInv'
<1> USE FleetAssumption DEF FleetInv, IntentInv, TypeOK
<1>1. ASSUME NEW b \in Bots, NEW o \in Orders,
             ReadPositions(b, o) \/ EnterUnchecked(b, o)
      PROVE  IntentInv'
  BY <1>1 DEF ReadPositions, EnterUnchecked
<1>2. ASSUME NEW b \in Bots,
             ReadOrders(b) \/ Approve(b) \/ Refuse(b) \/ SubmitFails(b) \/ ReadFails(b)
      PROVE  IntentInv'
  BY <1>2 DEF ReadOrders, Approve, Refuse, SubmitFails, ReadFails, Leave
<1>3. ASSUME NEW b \in Bots, Submit(b) \/ Record(b) \/ CrashBot(b)
      PROVE  IntentInv'
  <2>1. \A c \in Bots : c # b => pc'[c] = pc[c] /\ intent'[c] = intent[c]
    BY <1>3 DEF Submit, Record, CrashBot, Leave
  <2>2. \A o \in Orders : o # intent[b] => status'[o] = status[o]
    BY <1>3 DEF Submit, Record, CrashBot
  <2>3. \A c \in Bots \ {b} : pc[c] # "idle" => intent[c] # intent[b]
    BY <1>3 DEF Submit, Record, CrashBot
  <2>4. pc'[b] # "idle" => /\ OwnerOf[intent'[b]] = b
                           /\ pc'[b] = "record" /\ status'[intent'[b]] = "flight"
    BY <1>3 DEF Submit, Record, CrashBot, Leave, NoOrder
  <2>5. \A c \in Bots : pc[c] # "idle" => intent[c] \in Orders
    OBVIOUS
  <2> QED BY <2>1, <2>2, <2>3, <2>4, <2>5
<1>4. ASSUME NEW o \in Orders, CloseOrder(o) \/ \E n \in 1 .. NotionalOf[o] : BookFill(o, n)
      PROVE  IntentInv'
  <2>1. /\ UNCHANGED <<pc, intent>>
        /\ status[o] \in OpenStatus \cup {"matched"}
        /\ \A q \in Orders : q # o => status'[q] = status[q]
    BY <1>4 DEF CloseOrder, BookFill, checkVars
  <2>2. \A c \in Bots : pc[c] # "idle" => intent[c] \in Orders /\ intent[c] # o
    BY <2>1 DEF OpenStatus
  <2> QED BY <2>1, <2>2
<1>5. ASSUME NEW b \in Bots, ClosePositions(b) PROVE IntentInv'
  BY <1>5 DEF ClosePositions, checkVars
<1>6. CASE UNCHANGED vars
  BY <1>6 DEF vars
<1> QED BY <1>1, <1>2, <1>3, <1>4, <1>5, <1>6 DEF Next, Enter, Ledger

-----------------------------------------------------------------------------
(* What a check has seen.                                                  *)

\* Of a live bot the check sees the live bots.
LEMMA LiveSums ==
  ASSUME TypeOK, NEW b \in Live
  PROVE  /\ SameMode(b) = Live
         /\ PositionsUsd(Live) \in Nat /\ OpenOrdersUsd(Live) \in Nat
         /\ Recorded(Live) = PositionsUsd(Live) + OpenOrdersUsd(Live)
         /\ pc[b] = "orders" => Seeable(b) = PositionsUsd(Live)
         /\ pc[b] \in {"decide", "submit", "record"} => Seeable(b) = Recorded(Live)
         /\ Uncounted(Live) \in Nat
         /\ AtStake(Live) = Recorded(Live) + Uncounted(Live)
         /\ pc[b] = "orders" => Stake(b) = PositionsUsd(Live)
         /\ pc[b] \in {"decide", "submit", "record"} => Stake(b) = AtStake(Live)
         /\ Seeable(b) \in Nat /\ Stake(b) \in Nat
<1>1. SameMode(b) = Live
  BY DEF SameMode
<1>2. /\ PositionsUsd(Live) \in Nat
      /\ OpenOrdersUsd(Live) \in Nat /\ Uncounted(Live) \in Nat
  BY FleetAssumption, PositionsNat, OrdersNat
<1> QED BY <1>1, <1>2 DEF Recorded, AtStake, Seeable, Stake, Checked

\* A step that leaves b, the positions and the open rows alone.
LEMMA SeenQuiet ==
  ASSUME FleetInv, NEW b \in Live \cap Checking, held' = held,
         pc'[b] = pc[b], intent'[b] = intent[b], seen'[b] = seen[b],
         behind'[b] = behind[b], freed'[b] = freed[b], SameRows
  PROVE  SeenFits(b)'
<1>1. PositionsUsd(Live)' = PositionsUsd(Live)
  BY DEF PositionsUsd
<1>2. OpenOrdersUsd(Live)' = OpenOrdersUsd(Live) /\ Uncounted(Live)' = Uncounted(Live)
  BY SameRowsSums
<1>3. Recorded(Live)' = Recorded(Live) /\ AtStake(Live)' = AtStake(Live)
  BY <1>1, <1>2 DEF Recorded, AtStake
<1>4. Seeable(b)' = Seeable(b) /\ Stake(b)' = Stake(b)
  BY <1>1, <1>3 DEF Seeable, Stake, Checked, SameMode
<1> QED BY <1>3, <1>4 DEF FleetInv, SeenInv, SeenFits

\* A step that b's histories record.
LEMMA SeenWatched ==
  ASSUME FleetInv, TypeOK', NEW b \in Live \cap Checking, NEW S, b \in S, Watch(S),
         pc'[b] = pc[b], intent'[b] = intent[b], seen'[b] = seen[b]
  PROVE  SeenFits(b)'
<1>1. b \in Bots
  BY FleetAssumption
<1>2. /\ behind'[b] = behind[b] + Gain(Stake(b)', Stake(b))
      /\ freed'[b] = freed[b] + Gain(Seeable(b), Seeable(b)')
  BY <1>1 DEF Watch
<1>3. /\ Seeable(b) \in Nat /\ Seeable(b)' \in Nat
      /\ Stake(b) \in Nat /\ Stake(b)' \in Nat
  <2>1. Seeable(b) \in Nat /\ Stake(b) \in Nat
    BY LiveSums DEF FleetInv
  <2>2. /\ PositionsUsd(Live)' \in Nat
        /\ OpenOrdersUsd(Live)' \in Nat /\ Uncounted(Live)' \in Nat
    <3>1. IsFiniteSet(Live) /\ \A c \in Live : held'[c] \in Nat
      BY FleetAssumption, FS_Subset DEF TypeOK
    <3>2. SumFunctionOnSet(held', Live) \in Nat
      BY <3>1, SumType
    <3> QED BY <3>2, OrdersNat DEF PositionsUsd
  <2>3. Seeable(b)' \in Nat /\ Stake(b)' \in Nat
    BY <2>2 DEF Seeable, Stake, Checked, Recorded, AtStake, SameMode
  <2> QED BY <2>1, <2>3
<1>4. behind[b] \in Nat /\ freed[b] \in Nat /\ seen[b] \in Nat
  BY <1>1 DEF FleetInv, TypeOK
<1>5. /\ Stake(b)' - Stake(b) =< behind'[b] - behind[b]
      /\ Seeable(b) - Seeable(b)' =< freed'[b] - freed[b]
      /\ behind'[b] \in Nat /\ freed'[b] \in Nat
  BY <1>2, <1>3, <1>4 DEF Gain
<1>6. CASE pc[b] \in {"orders", "decide"}
  <2>1. Stake(b) =< seen[b] + behind[b] /\ seen[b] =< Seeable(b) + freed[b]
    BY <1>6 DEF FleetInv, SeenInv, SeenFits
  <2>2. Stake(b)' =< seen[b] + behind'[b] /\ seen[b] =< Seeable(b)' + freed'[b]
    BY <1>3, <1>4, <1>5, <2>1
  <2> QED BY <1>6, <2>2 DEF SeenFits
<1>7. CASE pc[b] \in {"submit", "record"}
  <2>1. AtStake(Live) = Stake(b) /\ AtStake(Live)' = Stake(b)'
    BY <1>7 DEF Stake, Checked, SameMode
  <2>2. AtStake(Live) + NotionalOf[intent[b]] =< Cap + behind[b]
    BY <1>7 DEF FleetInv, SeenInv, SeenFits
  <2>3. intent[b] \in Orders
    BY <1>1, <1>7 DEF FleetInv, TypeOK
  <2>4. NotionalOf[intent[b]] \in Nat /\ Cap \in Nat
    BY <2>3, FleetAssumption
  <2>5. AtStake(Live)' + NotionalOf[intent[b]] =< Cap + behind'[b]
    BY <1>3, <1>4, <1>5, <2>1, <2>2, <2>4
  <2> QED BY <1>7, <2>5 DEF SeenFits
<1>8. CASE pc[b] \notin {"orders", "decide", "submit", "record"}
  BY <1>8 DEF SeenFits
<1> QED BY <1>6, <1>7, <1>8

LEMMA SeenStep ==
  ASSUME FleetInv, [Next]_vars
  PROVE  SeenInv'
<1>0. TypeOK' /\ \A b \in Bots : pc[b] # "idle" => intent[b] \in Orders
  BY FleetTypeStep DEF FleetInv, TypeOK
<1> SUFFICES ASSUME NEW c \in Live \cap Checking PROVE SeenFits(c)'
  BY DEF SeenInv
<1>c. c \in Bots /\ c \in Live /\ c \in Checking
  BY FleetAssumption
<1>t. /\ seen[c] \in Nat /\ behind[c] \in Nat /\ freed[c] \in Nat
      /\ pc \in [Bots -> {"idle", "orders", "decide", "submit", "record"}]
      /\ intent \in [Bots -> Orders \cup {NoOrder}] /\ seen \in [Bots -> Nat]
      /\ behind \in [Bots -> Nat] /\ freed \in [Bots -> Nat] /\ Cap \in Nat
      /\ status \in [Orders -> Status]
  BY <1>c, FleetAssumption DEF FleetInv, TypeOK
<1>p. /\ PositionsUsd(Live) \in Nat /\ OpenOrdersUsd(Live) \in Nat
      /\ SameMode(c) = Live
      /\ Recorded(Live) = PositionsUsd(Live) + OpenOrdersUsd(Live)
      /\ pc[c] = "orders" => Seeable(c) = PositionsUsd(Live)
      /\ pc[c] \in {"decide", "submit", "record"} => Seeable(c) = Recorded(Live)
      /\ Uncounted(Live) \in Nat
      /\ AtStake(Live) = Recorded(Live) + Uncounted(Live)
      /\ pc[c] = "orders" => Stake(c) = PositionsUsd(Live)
      /\ pc[c] \in {"decide", "submit", "record"} => Stake(c) = AtStake(Live)
  BY <1>c, LiveSums DEF FleetInv
<1>f. SeenFits(c)
  BY DEF FleetInv, SeenInv
<1>1. ASSUME NEW b \in Bots, NEW o \in Orders, ReadPositions(b, o) PROVE SeenFits(c)'
  <2>1. /\ UNCHANGED <<status, held, behind, freed>>
        /\ b # c => pc'[c] = pc[c] /\ intent'[c] = intent[c] /\ seen'[c] = seen[c]
    BY <1>1 DEF ReadPositions
  <2>2. CASE b # c
    BY <2>1, <2>2, SeenQuiet DEF SameRows
  <2>3. CASE b = c
    <3>1. pc'[c] = "orders" /\ seen'[c] = PositionsUsd(Live)
      BY <1>1, <1>c, <1>t, <1>p, <2>3 DEF ReadPositions
    <3>2. Seeable(c)' = PositionsUsd(Live) /\ Stake(c)' = PositionsUsd(Live)
      BY <1>p, <2>1, <3>1 DEF Seeable, Stake, Checked, PositionsUsd, SameMode
    <3> QED BY <1>t, <1>p, <2>1, <3>1, <3>2 DEF SeenFits
  <2> QED BY <2>2, <2>3
<1>2. ASSUME NEW b \in Bots, ReadOrders(b) PROVE SeenFits(c)'
  <2>1. /\ UNCHANGED <<status, held, freed>>
        /\ b # c => /\ pc'[c] = pc[c] /\ intent'[c] = intent[c]
                    /\ seen'[c] = seen[c] /\ behind'[c] = behind[c]
    BY <1>2 DEF ReadOrders
  <2>2. CASE b # c
    BY <2>1, <2>2, SeenQuiet DEF SameRows
  <2>3. CASE b = c
    <3>1. /\ pc[c] = "orders" /\ pc'[c] = "decide"
          /\ seen'[c] = seen[c] + OpenOrdersUsd(Live)
          /\ behind'[c] = behind[c] + Uncounted(Live)
      BY <1>2, <1>c, <1>t, <1>p, <2>3 DEF ReadOrders
    <3>2. /\ Seeable(c)' = PositionsUsd(Live) + OpenOrdersUsd(Live)
          /\ Stake(c)' = PositionsUsd(Live) + OpenOrdersUsd(Live) + Uncounted(Live)
      <4>1. /\ PositionsUsd(Live)' = PositionsUsd(Live)
            /\ OpenOrdersUsd(Live)' = OpenOrdersUsd(Live)
            /\ Uncounted(Live)' = Uncounted(Live)
        BY <2>1 DEF PositionsUsd, OpenOrdersUsd, Uncounted, RowsUsd
      <4> QED BY <1>p, <3>1, <4>1
              DEF Seeable, Stake, Checked, Recorded, AtStake, SameMode
    <3>3. /\ PositionsUsd(Live) =< seen[c] + behind[c]
          /\ seen[c] =< PositionsUsd(Live) + freed[c]
      BY <1>f, <1>p, <3>1 DEF SeenFits
    <3> QED BY <1>t, <1>p, <2>1, <3>1, <3>2, <3>3 DEF SeenFits
  <2> QED BY <2>2, <2>3
<1>3. ASSUME NEW b \in Bots, Approve(b) PROVE SeenFits(c)'
  <2>1. /\ UNCHANGED <<status, held, behind, freed, intent, seen>>
        /\ b # c => pc'[c] = pc[c]
    BY <1>3 DEF Approve
  <2>2. CASE b # c
    BY <2>1, <2>2, SeenQuiet DEF SameRows
  <2>3. CASE b = c
    <3>1. pc[c] = "decide" /\ pc'[c] = "submit" /\ Allowed(c)
      BY <1>3, <1>c, <1>t, <2>3 DEF Approve
    <3>2. seen[c] + NotionalOf[intent[c]] =< Cap
      BY <1>c, <3>1 DEF Allowed
    <3>3. AtStake(Live) =< seen[c] + behind[c]
      BY <1>f, <1>p, <3>1 DEF SeenFits
    <3>4. NotionalOf[intent[c]] \in Nat
      BY <1>0, <1>c, <3>1, FleetAssumption
    <3>5. AtStake(Live) + NotionalOf[intent[c]] =< Cap + behind[c]
      BY <1>t, <1>p, <3>2, <3>3, <3>4
    <3>6. AtStake(Live)' = AtStake(Live)
      BY <2>1 DEF AtStake, Recorded, PositionsUsd, OpenOrdersUsd, Uncounted, RowsUsd
    <3> QED BY <2>1, <3>1, <3>5, <3>6 DEF SeenFits
  <2> QED BY <2>2, <2>3
<1>4. ASSUME NEW b \in Bots, Leave(b), Forget(b), held' = held, SameRows
      PROVE  SeenFits(c)'
  <2>1. CASE b # c
    BY <1>4, <1>c, <1>t, <2>1, SeenQuiet DEF Leave, Forget
  <2>2. CASE b = c
    BY <1>4, <1>c, <1>t, <2>2 DEF Leave, SeenFits
  <2> QED BY <2>1, <2>2
<1>5. ASSUME NEW b \in Bots, Refuse(b) \/ SubmitFails(b) PROVE SeenFits(c)'
  BY <1>4, <1>5 DEF Refuse, SubmitFails, SameRows
<1>6. ASSUME NEW b \in Bots, ReadFails(b) PROVE SeenFits(c)'
  <2>1. CASE b \in Live
    BY <1>4, <1>6, <2>1 DEF ReadFails, SameRows
  <2>2. CASE b \notin Live
    BY <1>6, <1>c, <1>t, <2>2, SeenQuiet DEF ReadFails, SameRows
  <2> QED BY <2>1, <2>2
<1>7. ASSUME NEW b \in Bots, CrashBot(b) PROVE SeenFits(c)'
  <2>1. SameRows
    BY <1>7 DEF CrashBot, OpenStatus, SameRows
  <2> QED BY <1>4, <1>7, <2>1 DEF CrashBot
<1>8. ASSUME NEW b \in Bots, NEW o \in Orders, EnterUnchecked(b, o) PROVE SeenFits(c)'
  <2>1. b # c
    BY <1>8, <1>c DEF EnterUnchecked
  <2> QED BY <1>8, <1>c, <1>t, <2>1, SeenQuiet DEF EnterUnchecked, SameRows
<1>9. ASSUME NEW b \in Bots, Submit(b) PROVE SeenFits(c)'
  <2>1. /\ UNCHANGED <<held, intent, seen, behind, freed>>
        /\ pc[b] = "submit" /\ pc' = [pc EXCEPT ![b] = "record"]
        /\ status' = [status EXCEPT ![intent[b]] = "flight"]
    BY <1>9 DEF Submit
  <2>2. intent[b] \in Orders /\ status[intent[b]] = "absent"
    BY <1>0, <2>1 DEF FleetInv, IntentInv
  <2>3. SameRows
    BY <1>t, <2>1, <2>2 DEF OpenStatus, SameRows
  <2>4. CASE b # c
    BY <1>c, <1>t, <2>1, <2>3, <2>4, SeenQuiet
  <2>5. CASE b = c
    <3>1. OpenOrdersUsd(Live)' = OpenOrdersUsd(Live) /\ Uncounted(Live)' = Uncounted(Live)
      BY <2>3, SameRowsSums
    <3>2. AtStake(Live)' = AtStake(Live)
      BY <2>1, <3>1 DEF AtStake, Recorded, PositionsUsd
    <3> QED BY <1>c, <1>t, <1>f, <2>1, <2>5, <3>2 DEF SeenFits
  <2> QED BY <2>4, <2>5
<1>10. ASSUME NEW b \in Bots, Record(b) PROVE SeenFits(c)'
  <2>1. CASE b # c
    <3>1. /\ Watch(Bots \ {b}) /\ c \in Bots \ {b}
          /\ pc'[c] = pc[c] /\ intent'[c] = intent[c] /\ seen'[c] = seen[c]
      BY <1>10, <1>c, <1>t, <2>1 DEF Record, Leave
    <3> QED BY <1>0, <3>1, SeenWatched
  <2>2. CASE b = c
    BY <1>10, <1>c, <1>t, <2>2 DEF Record, Leave, SeenFits
  <2> QED BY <2>1, <2>2
<1>11. ASSUME UNCHANGED checkVars, Watch(Bots) PROVE SeenFits(c)'
  BY <1>0, <1>11, <1>c, SeenWatched DEF checkVars
<1>12. CASE Ledger
  BY <1>11, <1>12 DEF Ledger, CloseOrder, BookFill, ClosePositions
<1>13. CASE UNCHANGED vars
  BY <1>13, SeenQuiet DEF vars, SameRows
<1> QED BY <1>1, <1>2, <1>3, <1>5, <1>6, <1>7, <1>8, <1>9, <1>10, <1>12, <1>13
        DEF Next, Enter

-----------------------------------------------------------------------------
(* Theorems.                                                               *)

\* In every state an entering bot's order is its own and not recorded yet, and
\* what its check has read is the fleet's exposure but for what other bots
\* recorded or gave up since and the rows the snapshot leaves out (snapshot_fleet_exposure's two reads, the verdict
\* and the commit of the row, core/fleet.py): an inductive invariant.
THEOREM FleetInvariant == Spec => []FleetInv
<1>1. Init => FleetInv
  <2> SUFFICES ASSUME Init PROVE FleetInv
    OBVIOUS
  <2>1. TypeOK /\ IntentInv
    BY FleetAssumption DEF Init, TypeOK, IntentInv, Status
  <2>2. SeenInv
    BY FleetAssumption DEF Init, SeenInv, SeenFits
  <2> QED BY <2>1, <2>2 DEF FleetInv
<1>2. FleetInv /\ [Next]_vars => FleetInv'
  BY FleetTypeStep, IntentStep, SeenStep DEF FleetInv
<1> QED BY <1>1, <1>2, PTL DEF Spec

\* Every variable keeps its type; in particular no order is booked for more
\* than its notional.
THEOREM FleetTypes == Spec => []TypeOK
<1>1. FleetInv => TypeOK
  BY DEF FleetInv
<1> QED BY <1>1, FleetInvariant, PTL

\* A live order that passed check_fleet_exposure takes what is at stake over the
\* cap by no more than other bots added behind the check's back and the rows the
\* snapshot does not count.
THEOREM FleetOvershoot == Spec => OvershootIsUnseen
<1>1. ASSUME FleetInv, FleetInv', NEW b \in Live \cap Checking, Record(b)
      PROVE  AtStake(Live)' =< Cap + behind[b]
  <2>1. b \in Bots /\ pc[b] = "record" /\ held' = held
    BY <1>1, FleetAssumption DEF Record
  <2>2. intent[b] \in Orders /\ behind[b] \in Nat /\ status[intent[b]] = "flight"
    BY <1>1, <2>1 DEF FleetInv, TypeOK, IntentInv
  <2>3. AtStake(Live) + NotionalOf[intent[b]] =< Cap + behind[b]
    BY <1>1, <2>1 DEF FleetInv, SeenInv, SeenFits
  <2>4. PICK s \in {"OPEN", "matched"} : status' = [status EXCEPT ![intent[b]] = s]
    BY <1>1 DEF Record
  <2>5. /\ OpenOrdersUsd(Live)' =< OpenOrdersUsd(Live) + NotionalOf[intent[b]]
        /\ Uncounted(Live)' =< Uncounted(Live) + NotionalOf[intent[b]]
    BY <1>1, <2>2, <2>4, OneOpens DEF FleetInv, OpenOrdersUsd, Uncounted
  <2>6. s = "OPEN" => Uncounted(Live)' = Uncounted(Live)
    <3>1. s = "OPEN" =>
            \A o \in Orders : status'[o] \in {"matched"} <=> status[o] \in {"matched"}
      BY <1>1, <2>2, <2>4 DEF FleetInv, TypeOK
    <3> QED BY <3>1, NoneOpens DEF Uncounted
  <2>7. s = "matched" => OpenOrdersUsd(Live)' = OpenOrdersUsd(Live)
    <3>1. s = "matched" =>
            \A o \in Orders : status'[o] \in OpenStatus <=> status[o] \in OpenStatus
      BY <1>1, <2>2, <2>4 DEF FleetInv, TypeOK, OpenStatus
    <3> QED BY <3>1, NoneOpens DEF OpenOrdersUsd
  <2>8. PositionsUsd(Live)' = PositionsUsd(Live)
    BY <2>1 DEF PositionsUsd
  <2>9. /\ PositionsUsd(Live) \in Nat
        /\ OpenOrdersUsd(Live) \in Nat /\ OpenOrdersUsd(Live)' \in Nat
        /\ Uncounted(Live) \in Nat /\ Uncounted(Live)' \in Nat
        /\ NotionalOf[intent[b]] \in Nat /\ Cap \in Nat
    BY <1>1, <2>2, FleetAssumption, PositionsNat, OrdersNat DEF FleetInv
  <2> QED BY <2>2, <2>3, <2>4, <2>5, <2>6, <2>7, <2>8, <2>9 DEF AtStake, Recorded
<1>2. FleetInv /\ FleetInv' /\ [Next]_vars =>
        [\A b \in Live \cap Checking :
           Record(b) => AtStake(Live)' =< Cap + behind[b]]_vars
  BY <1>1
<1> QED BY <1>2, FleetInvariant, PTL DEF Spec, OvershootIsUnseen

\* A live order is refused only when it does not fit beside what the live bots
\* have recorded, but for what they gave up behind the check's back.
THEOREM FleetRefusal == Spec => RefusedOnlyIfFull
<1>1. ASSUME FleetInv, NEW b \in Live \cap Checking, Refuse(b)
      PROVE  Recorded(Live) + freed[b] + NotionalOf[intent[b]] > Cap
  <2>1. b \in Bots /\ pc[b] = "decide" /\ ~Allowed(b)
    BY <1>1, FleetAssumption DEF Refuse
  <2>2. intent[b] \in Orders /\ freed[b] \in Nat /\ seen[b] \in Nat
    BY <1>1, <2>1 DEF FleetInv, TypeOK
  <2>3. NotionalOf[intent[b]] \in Nat /\ NotionalOf[intent[b]] > 0 /\ Cap \in Nat
    BY <2>2, FleetAssumption
  <2>4. Recorded(Live) \in Nat /\ Seeable(b) = Recorded(Live)
    BY <1>1, <2>1, LiveSums DEF FleetInv
  <2>5. seen[b] =< Recorded(Live) + freed[b]
    BY <1>1, <2>1, <2>4 DEF FleetInv, SeenInv, SeenFits
  <2>6. Cap = 0 \/ seen[b] + NotionalOf[intent[b]] > Cap
    BY <1>1, <2>1, <2>2, <2>3 DEF Allowed
  <2>7. CASE Cap = 0
    BY <2>2, <2>3, <2>4, <2>7
  <2>8. CASE seen[b] + NotionalOf[intent[b]] > Cap
    BY <2>2, <2>3, <2>4, <2>5, <2>8
  <2> QED BY <2>6, <2>7, <2>8
<1>2. FleetInv /\ [Next]_vars =>
        [\A b \in Live \cap Checking : Refuse(b) =>
           Recorded(Live) + freed[b] + NotionalOf[intent[b]] > Cap]_vars
  BY <1>1
<1> QED BY <1>2, FleetInvariant, PTL DEF Spec, RefusedOnlyIfFull
=============================================================================
