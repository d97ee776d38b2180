------------------------------- MODULE FleetCap -------------------------------
(***************************************************************************)
(* The fleet's exposure cap: core/fleet.py, and the entry path of the bots *)
(* that call it.                                                           *)
(*                                                                         *)
(* Each bot is a process of its own.  To enter, it sums the cost of every  *)
(* bot's open positions, then the notional of every open order row, in two *)
(* statements that each see the database of their own moment; compares the *)
(* sum and the intended notional with the cap; places the order; and only  *)
(* then commits its Order row.  Fills, cancels and closes of other bots    *)
(* arrive in between.                                                      *)
(***************************************************************************)
EXTENDS Integers, FiniteSets, Functions

CONSTANTS
  Bots,
  Live,       \* the bots in live mode; the others trade on paper
  Checking,   \* the bots whose entry path calls check_fleet_exposure
  Orders,     \* order ids; each is used at most once
  OwnerOf,    \* [Orders -> Bots]
  NotionalOf, \* [Orders -> Nat \ {0}], price times size
  Cap         \* the deployable cap of the wallet

ASSUME FleetAssumption ==
  /\ IsFiniteSet(Bots) /\ IsFiniteSet(Orders) /\ "none" \notin Orders
  /\ Live \subseteq Bots /\ Checking \subseteq Bots
  /\ OwnerOf \in [Orders -> Bots]
  /\ NotionalOf \in [Orders -> Nat \ {0}]
  /\ Cap \in Nat

VARIABLES
  status,  \* [Orders -> Status]: the order row, or what comes before one
  booked,  \* [Orders -> Nat]: notional of its fills in the ledger
  held,    \* [Bots -> Nat]: cost basis of the bot's open positions
  pc,      \* [Bots -> "idle", "orders", "decide", "submit", "record"]
  intent,  \* [Bots -> Orders]: the order a bot is about to enter
  seen,    \* [Bots -> Nat]: what its check has summed so far
  behind,  \* history: what its mode gained where the check could not see it
  freed    \* history: what its mode gave up where the check could not see it

vars == <<status, booked, held, pc, intent, seen, behind, freed>>
checkVars == <<pc, intent, seen>>

NoOrder == "none"
\* "flight": on the CLOB, row not committed; "lost": the process died there;
\* "matched": a row with a status of the CLOB's that no list of open ones names.
Status == {"absent", "flight", "lost",
           "OPEN", "PARTIAL", "matched", "FILLED", "CANCELLED"}
OpenStatus == {"OPEN", "PARTIAL"}

\* Mutant: a live bot is held to what every bot has at stake.
WholeFleet(b) == Bots

\* snapshot_fleet_exposure keeps to the bots in the mode of the caller.
SameMode(b) == IF b \in Live THEN Live ELSE Bots \ Live

\* The two sums of snapshot_fleet_exposure.  An open order counts in full, a
\* partly filled one too.
RowsUsd(S, st) ==
  SumFunctionOnSet(NotionalOf, {o \in Orders : OwnerOf[o] \in S /\ status[o] \in st})
PositionsUsd(S)  == SumFunctionOnSet(held, S)
OpenOrdersUsd(S) == RowsUsd(S, OpenStatus)
Recorded(S) == PositionsUsd(S) + OpenOrdersUsd(S)

\* Live orders the snapshot leaves out, and what is at stake with them.
Uncounted(S) == RowsUsd(S, {"matched"})
AtStake(S)   == Recorded(S) + Uncounted(S)

Init ==
  /\ status = [o \in Orders |-> "absent"]
  /\ booked = [o \in Orders |-> 0]
  /\ held = [b \in Bots |-> 0]
  /\ pc = [b \in Bots |-> "idle"]
  /\ intent = [b \in Bots |-> NoOrder]
  /\ seen = [b \in Bots |-> 0]
  /\ behind = [b \in Bots |-> 0] /\ freed = [b \in Bots |-> 0]

-----------------------------------------------------------------------------
(* What a check cannot see: positions that change after it has read them, *)
(* then everything, and at all times the orders it does not count.         *)

Checked(b, total) ==
  CASE pc[b] = "orders" -> PositionsUsd(SameMode(b))
    [] pc[b] \in {"decide", "submit", "record"} -> total
    [] OTHER -> 0
Seeable(b) == Checked(b, Recorded(SameMode(b)))
Stake(b)   == Checked(b, AtStake(SameMode(b)))

Gain(new, old) == IF new > old THEN new - old ELSE 0

\* Kept for the bots in S; any other is done.
Watch(S) ==
  /\ behind' = [b \in Bots |->
       IF b \in S THEN behind[b] + Gain(Stake(b)', Stake(b)) ELSE 0]
  /\ freed' = [b \in Bots |->
       IF b \in S THEN freed[b] + Gain(Seeable(b), Seeable(b)') ELSE 0]

-----------------------------------------------------------------------------
(* Entering a trade.                                                       *)

\* try_enter returns: nothing of the check outlives the call.
Leave(b) ==
  /\ pc' = [pc EXCEPT ![b] = "idle"]
  /\ intent' = [intent EXCEPT ![b] = NoOrder]
  /\ seen' = [seen EXCEPT ![b] = 0]
Forget(b) ==
  /\ behind' = [behind EXCEPT ![b] = 0] /\ freed' = [freed EXCEPT ![b] = 0]

\* The first statement of check_fleet_exposure: the open positions.
ReadPositions(b, o) ==
  /\ b \in Checking /\ pc[b] = "idle"
  /\ OwnerOf[o] = b /\ status[o] = "absent"
  /\ pc' = [pc EXCEPT ![b] = "orders"]
  /\ intent' = [intent EXCEPT ![b] = o]
  /\ seen' = [seen EXCEPT ![b] = PositionsUsd(SameMode(b))]
  /\ UNCHANGED <<status, booked, held, behind, freed>>

\* Mutant: an order that is partly filled no longer counts.
ReadWholeOrders(b) ==
  /\ pc[b] = "orders"
  /\ pc' = [pc EXCEPT ![b] = "decide"]
  /\ seen' = [seen EXCEPT ![b] = @ + RowsUsd(SameMode(b), {"OPEN"})]
  /\ behind' = [behind EXCEPT ![b] = @ + Uncounted(SameMode(b))]
  /\ UNCHANGED <<status, booked, held, intent, freed>>

\* The second one: the open orders.
ReadOrders(b) ==
  /\ pc[b] = "orders"
  /\ pc' = [pc EXCEPT ![b] = "decide"]
  /\ seen' = [seen EXCEPT ![b] = @ + OpenOrdersUsd(SameMode(b))]
  /\ behind' = [behind EXCEPT ![b] = @ + Uncounted(SameMode(b))]
  /\ UNCHANGED <<status, booked, held, intent, freed>>

\* A database error blocks a live bot and lets a paper one pass.
ReadFails(b) ==
  /\ pc[b] = "orders"
  /\ \/ b \in Live /\ Leave(b) /\ Forget(b)
     \/ /\ b \notin Live /\ pc' = [pc EXCEPT ![b] = "submit"]
        /\ UNCHANGED <<intent, seen, behind, freed>>
  /\ UNCHANGED <<status, booked, held>>

\* check_fleet_exposure's verdict: a cap of zero is a misconfiguration that
\* blocks live bots only.
Allowed(b) ==
  IF Cap = 0 THEN b \notin Live ELSE seen[b] + NotionalOf[intent[b]] =< Cap

Approve(b) ==
  /\ pc[b] = "decide" /\ Allowed(b)
  /\ pc' = [pc EXCEPT ![b] = "submit"]
  /\ UNCHANGED <<status, booked, held, intent, seen, behind, freed>>

Refuse(b) ==
  /\ pc[b] = "decide" /\ ~Allowed(b)
  /\ Leave(b) /\ Forget(b)
  /\ UNCHANGED <<status, booked, held>>

\* A bot that never calls the check.
EnterUnchecked(b, o) ==
  /\ b \notin Checking /\ pc[b] = "idle"
  /\ OwnerOf[o] = b /\ status[o] = "absent"
  /\ pc' = [pc EXCEPT ![b] = "submit"] /\ intent' = [intent EXCEPT ![b] = o]
  /\ UNCHANGED <<status, booked, held, seen, behind, freed>>

\* place_limit returns an order id ...
Submit(b) ==
  /\ pc[b] = "submit"
  /\ pc' = [pc EXCEPT ![b] = "record"]
  /\ status' = [status EXCEPT ![intent[b]] = "flight"]
  /\ UNCHANGED <<booked, held, intent, seen, behind, freed>>

\* ... or raises, or a later gate (depth, book) turns the trade down.
SubmitFails(b) ==
  /\ pc[b] = "submit"
  /\ Leave(b) /\ Forget(b)
  /\ UNCHANGED <<status, booked, held>>

\* The Order row is committed, with the status of the answer: "live", counted
\* like OPEN, or for an order that traded at once "matched", in lower case.  A
\* paper order is PAPER_OPEN.
Record(b) ==
  /\ pc[b] = "record"
  /\ \E s \in {"OPEN"} \cup (IF b \in Live THEN {"matched"} ELSE {}) :
       status' = [status EXCEPT ![intent[b]] = s]
  /\ Leave(b)
  /\ UNCHANGED <<booked, held>>
  /\ Watch(Bots \ {b})

\* The process dies and starts over; an order in flight never gets a row.
CrashBot(b) ==
  /\ pc[b] # "idle"
  /\ status' = [o \in Orders |->
       IF o = intent[b] /\ status[o] = "flight" THEN "lost" ELSE status[o]]
  /\ Leave(b) /\ Forget(b)
  /\ UNCHANGED <<booked, held>>

-----------------------------------------------------------------------------
(* The rest of a bot's loop.                                               *)

\* Mutant: a fill delivered again is booked again.
BookFillAgain(o, n) ==
  /\ status[o] \in OpenStatus \cup {"matched"} /\ pc[OwnerOf[o]] = "idle"
  /\ n \in 1 .. NotionalOf[o]
  /\ booked' = [booked EXCEPT ![o] = @ + n]
  /\ held' = [held EXCEPT ![OwnerOf[o]] = @ + n]
  /\ status' = [status EXCEPT ![o] = IF n = NotionalOf[o] THEN "FILLED" ELSE "PARTIAL"]
  /\ UNCHANGED checkVars
  /\ Watch(Bots)

\* A fill of an order with a row is booked: position and order status change
\* in one commit (LiveLedger has the way there).  One fill of the whole order
\* makes it FILLED, any other PARTIAL.
BookFill(o, n) ==
  /\ status[o] \in OpenStatus \cup {"matched"} /\ pc[OwnerOf[o]] = "idle"
  /\ n \in 1 .. NotionalOf[o] - booked[o]
  /\ booked' = [booked EXCEPT ![o] = @ + n]
  /\ held' = [held EXCEPT ![OwnerOf[o]] = @ + n]
  /\ status' = [status EXCEPT ![o] = IF n = NotionalOf[o] THEN "FILLED" ELSE "PARTIAL"]
  /\ UNCHANGED checkVars
  /\ Watch(Bots)

\* Cancelled by the bot, or found gone from the exchange's open orders: every
\* such path picks rows by a list of statuses without "matched".
CloseOrder(o) ==
  /\ status[o] \in OpenStatus /\ pc[OwnerOf[o]] = "idle"
  /\ status' = [status EXCEPT ![o] = "CANCELLED"]
  /\ UNCHANGED <<booked, held, checkVars>>
  /\ Watch(Bots)

\* The positions of a bot are sold or redeemed.
ClosePositions(b) ==
  /\ held[b] > 0 /\ pc[b] = "idle"
  /\ held' = [held EXCEPT ![b] = 0]
  /\ UNCHANGED <<status, booked, checkVars>>
  /\ Watch(Bots)

-----------------------------------------------------------------------------
Enter(b) ==
  \/ \E o \in Orders : ReadPositions(b, o) \/ EnterUnchecked(b, o)
  \/ ReadOrders(b) \/ Approve(b) \/ Refuse(b) \/ Submit(b) \/ Record(b)

Ledger ==
  \/ \E o \in Orders : CloseOrder(o) \/ \E n \in 1 .. NotionalOf[o] : BookFill(o, n)
  \/ \E b \in Bots : ClosePositions(b)

Next ==
  \/ Ledger
  \/ \E b \in Bots : Enter(b) \/ ReadFails(b) \/ SubmitFails(b) \/ CrashBot(b)

Spec == Init /\ [][Next]_vars

-----------------------------------------------------------------------------
(* Properties.                                                             *)

\* Every variable keeps its type.
TypeOK ==
  /\ status \in [Orders -> Status]
  /\ booked \in [Orders -> Nat] /\ \A o \in Orders : booked[o] =< NotionalOf[o]
  /\ held \in [Bots -> Nat]
  /\ pc \in [Bots -> {"idle", "orders", "decide", "submit", "record"}]
  /\ intent \in [Bots -> Orders \cup {NoOrder}]
  /\ \A b \in Bots : pc[b] # "idle" <=> intent[b] # NoOrder
  /\ seen \in [Bots -> Nat] /\ behind \in [Bots -> Nat] /\ freed \in [Bots -> Nat]

\* A live order that passed the check takes what is at stake over the cap by no
\* more than other bots added behind the check's back and the rows it does not
\* count, whose status is the CLOB's own: nothing else the check could see is
\* left out of it, and nothing is counted for the wrong mode, in whatever order
\* other bots' entries, fills and closes arrive.
OvershootIsUnseen ==
  [][\A b \in Live \cap Checking :
       Record(b) => AtStake(Live)' =< Cap + behind[b]]_vars

\* A live order is refused only when it does not fit beside what the live bots
\* have recorded, but for what they gave up behind the check's back: no paper
\* exposure and nothing closed long ago starves a live bot (M-01).
RefusedOnlyIfFull ==
  [][\A b \in Live \cap Checking : Refuse(b) =>
       Recorded(Live) + freed[b] + NotionalOf[intent[b]] > Cap]_vars
=============================================================================
