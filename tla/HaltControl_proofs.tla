-------------------------- MODULE HaltControl_proofs --------------------------
(***************************************************************************)
(* What HaltControl guarantees for every set of bots and checks: the type  *)
(* invariant, and that a flag that rises lets at most one order pass.      *)
(***************************************************************************)
EXTENDS HaltControl, FiniteSetTheorems, TLAPS

\* An order that passed the test of a flag before it rose is the first one, and
\* a flag that is down has no late orders.  OneOrderAfterHalt alone is not
\* inductive: it does not say why the order in hand is the first.
InFlightIsFirst ==
  \A b \in Bots, f \in Flags : f \in seen[b] \/ ~Up(b, f) => late[b][f] = 0

\* No halt is left to carry out before a tick has run its checks.
QueueWhileActing == wd \in {"sleep", "check"} => queue = {}

HaltInv == TypeOK /\ QueueWhileActing /\ OneOrderAfterHalt /\ InFlightIsFirst

\* Saturating counters stay within their bound.
LEMMA CappedRange ==
  ASSUME NEW n \in Nat, NEW max \in Nat
  PROVE  Capped(n, max) \in 0 .. max /\ Capped(n, max) =< n
  BY DEF Capped

\* One value of a function is changed.
LEMMA ExceptType ==
  ASSUME NEW S, NEW T, NEW f \in [S -> T], NEW x \in S, NEW y \in T
  PROVE  [f EXCEPT ![x] = y] \in [S -> T]
  OBVIOUS

LEMMA CheckCount == Cardinality(Checks) \in Nat
  BY HaltAssumption, FS_CardinalityType

\* Every action keeps the types.
LEMMA HaltTypeStep == TypeOK /\ QueueWhileActing /\ [Next]_vars => TypeOK'
<1> SUFFICES ASSUME TypeOK, QueueWhileActing, [Next]_vars PROVE TypeOK'
  OBVIOUS
<1> USE HaltAssumption, CheckCount DEF TypeOK, Reasons, vars, flagVars,
          worldVars, wdVars, history
<1>1. ASSUME NEW b \in Bots, NEW f \in Flags, TestFlag(b, f) PROVE TypeOK'
  BY <1>1 DEF TestFlag, Reads
<1>1a. ASSUME NEW b \in Bots, EmergencyUnread(b) PROVE TypeOK'
  BY <1>1a DEF EmergencyUnread, Reads
<1>2. ASSUME NEW b \in Bots, PlaceOrder(b) PROVE TypeOK'
  <2>1. ASSUME NEW f \in Flags PROVE Capped(late[b][f] + 1, 2) \in 0 .. 2
    <3>1. late[b][f] + 1 \in Nat
      OBVIOUS
    <3> QED
      BY <3>1, CappedRange
  <2>2. late' \in [Bots -> [Flags -> 0 .. 2]]
    <3> DEFINE row == [f \in Flags |-> IF Up(b, f) /\ f \in seen[b]
                                       THEN Capped(late[b][f] + 1, 2) ELSE late[b][f]]
    <3>1. row \in [Flags -> 0 .. 2]
      BY <2>1
    <3>2. late' = [late EXCEPT ![b] = row]
      BY <1>2 DEF PlaceOrder, CountLate
    <3>3. late \in [Bots -> [Flags -> 0 .. 2]]
      OBVIOUS
    <3> HIDE DEF row
    <3> QED
      BY <3>1, <3>2, <3>3, ExceptType
  <2>3. seen' \in [Bots -> SUBSET Reads]
    BY <1>2 DEF PlaceOrder
  <2> QED
    BY <1>2, <2>2, <2>3 DEF PlaceOrder
<1>3. ASSUME NEW b \in Bots, NoOrder(b) PROVE TypeOK'
  BY <1>3 DEF NoOrder
<1>5. CASE ToggleEmergency
  <2>1. late' \in [Bots -> [Flags -> 0 .. 2]]
    <3>1. ASSUME NEW d \in Bots
          PROVE  [late[d] EXCEPT !["all"] = 0] \in [Flags -> 0 .. 2]
      <4>1. late[d] \in [Flags -> 0 .. 2] /\ 0 \in 0 .. 2 /\ "all" \in Flags
        BY DEF Flags
      <4> QED
        BY <4>1, ExceptType
    <3> QED
      BY <1>5, <3>1 DEF ToggleEmergency
  <2> QED
    BY <1>5, <2>1 DEF ToggleEmergency
<1>6. ASSUME NEW b \in Bots, OperatorHalts(b) PROVE TypeOK'
  BY <1>6 DEF OperatorHalts, SetAtMoves
<1>7. ASSUME NEW b \in Bots, Unhalt(b) PROVE TypeOK'
  <2>1. late' \in [Bots -> [Flags -> 0 .. 2]]
    <3>1. late[b] \in [Flags -> 0 .. 2] /\ 0 \in 0 .. 2 /\ "own" \in Flags
      BY DEF Flags
    <3>2. [late[b] EXCEPT !["own"] = 0] \in [Flags -> 0 .. 2]
      BY <3>1, ExceptType
    <3>3. late' = [late EXCEPT ![b] = [late[b] EXCEPT !["own"] = 0]]
      BY <1>7 DEF Unhalt
    <3> QED
      BY <3>2, <3>3, ExceptType
  <2> QED
    BY <1>7, <2>1 DEF Unhalt, SetAtMoves
<1>8. ASSUME NEW b \in Bots, SetAtAges(b) PROVE TypeOK'
  BY <1>8 DEF SetAtAges
<1>9. ASSUME NEW c \in Checks, ConditionChanges(c) \/ QueryChanges(c) PROVE TypeOK'
  BY <1>9 DEF ConditionChanges, QueryChanges
<1>10. CASE StartTick
  BY <1>10 DEF StartTick, QueueWhileActing
<1>11. CASE StartActing
  BY <1>11 DEF StartActing
<1>12. CASE EndTick
  BY <1>12 DEF EndTick
<1>13. ASSUME NEW c \in Checks, RunCheck(c) PROVE TypeOK'
  BY <1>13 DEF RunCheck
<1>14. ASSUME Stop, calls' = calls \/ calls' = [b \in Bots |-> 0]
       PROVE  TypeOK'
  <2>1. calls' \in [Bots -> 0 .. Cardinality(Checks) + 1]
    BY <1>14
  <2> QED
    BY <1>14, <2>1 DEF Stop, NoJob
<1>15. ASSUME NEW c \in Checks, NEW b \in Bots, Decide(c, b) PROVE TypeOK'
  <2>1. SkipCancel(c, b) \in BOOLEAN
    BY Zenon DEF SkipCancel
  <2>2. job' = [check |-> c, bot |-> b, skip |-> SkipCancel(c, b),
                halted |-> FALSE, reason |-> "none"]
    BY <1>15 DEF Decide, NoJob
  <2>3. job' \in [check: Checks \cup {"none"}, bot: Bots \cup {"none"},
                  skip: BOOLEAN, halted: BOOLEAN, reason: Checks \cup {"none"}]
    BY <2>1, <2>2
  <2>4. queue' \subseteq failed \X Bots
    BY <1>15 DEF Decide
  <2> QED
    BY <1>15, <2>2, <2>3, <2>4 DEF Decide
<1>16. CASE CancelAll
  <2>1. job.bot \in Bots
    BY <1>16 DEF CancelAll
  <2>2. Capped(calls[job.bot] + 1, Cardinality(Checks) + 1)
          \in 0 .. Cardinality(Checks) + 1
    <3>1. calls[job.bot] + 1 \in Nat /\ Cardinality(Checks) + 1 \in Nat
      BY <2>1
    <3> QED
      BY <3>1, CappedRange
  <2>3. calls' \in [Bots -> 0 .. Cardinality(Checks) + 1]
    BY <1>16, <2>1, <2>2 DEF CancelAll
  <2> QED
    BY <1>16, <2>3 DEF CancelAll
<1>17. CASE CancelSkipped
  BY <1>17 DEF CancelSkipped
<1>18. CASE ReadFlag
  BY <1>18 DEF ReadFlag
<1>19. CASE WriteFlag
  <2>1. job.bot \in Bots /\ job.check \in Checks
    BY <1>19 DEF WriteFlag
  <2>2. reason' \in [Bots -> Reasons]
    BY <1>19, <2>1 DEF WriteFlag
  <2>3. /\ halted' \in [Bots -> BOOLEAN] /\ recent' \in [Bots -> BOOLEAN]
        /\ calls' \in [Bots -> 0 .. Cardinality(Checks) + 1]
    <3>1. CASE job.halted
      BY <1>19, <3>1 DEF WriteFlag
    <3>2. CASE ~job.halted
      <4>1. /\ halted' = [halted EXCEPT ![job.bot] = TRUE]
            /\ recent' = [recent EXCEPT ![job.bot] = TRUE]
            /\ calls' = [calls EXCEPT ![job.bot] = 0]
        BY <1>19, <3>2 DEF WriteFlag, SetAtMoves
      <4> QED
        BY <2>1, <4>1
    <3> QED
      BY <3>1, <3>2
  <2> QED
    BY <1>19, <2>2, <2>3 DEF WriteFlag, NoJob
<1>20. CASE UNCHANGED vars
  BY <1>20
<1> QED
  BY <1>1, <1>1a, <1>2, <1>3, <1>5, <1>6, <1>7, <1>8, <1>9, <1>10, <1>11, <1>12,
     <1>13, <1>14, <1>15, <1>16, <1>17, <1>18, <1>19, <1>20
     DEF Next, CalmNext, BotNext, People, World, Tick, Halt, CheckRaises,
         WatchdogDies, InsertFails


\* Halts to carry out exist only while the watchdog acts.
LEMMA QueueStep == TypeOK /\ QueueWhileActing /\ [Next]_vars => QueueWhileActing'
<1> SUFFICES ASSUME TypeOK, QueueWhileActing, [Next]_vars PROVE QueueWhileActing'
  OBVIOUS
<1> USE DEF QueueWhileActing, TypeOK, vars, wdVars
<1>1. CASE UNCHANGED wdVars
  BY <1>1
<1>2. CASE StartTick \/ StartActing \/ EndTick
  BY <1>2 DEF StartTick, StartActing, EndTick
<1>3. ASSUME NEW c \in Checks, RunCheck(c) PROVE QueueWhileActing'
  BY <1>3 DEF RunCheck
<1>4. CASE Stop
  BY <1>4 DEF Stop
<1>5. CASE Halt
  BY <1>4, <1>5 DEF Halt, Decide, CancelAll, CancelSkipped, ReadFlag,
                    WriteFlag, InsertFails
<1>6. ASSUME BotNext \/ People \/ World PROVE UNCHANGED wdVars
  BY <1>6 DEF BotNext, TestFlag, EmergencyUnread, PlaceOrder, NoOrder,
              People, ToggleEmergency, OperatorHalts, Unhalt, SetAtAges,
              World, ConditionChanges, QueryChanges
<1> QED
  BY <1>1, <1>2, <1>3, <1>4, <1>5, <1>6
     DEF Next, CalmNext, Tick, CheckRaises, WatchdogDies

\* One flag of one bot: the order in hand is its first since the flag rose.
FirstOf(b, f) == late[b][f] =< 1 /\ (f \in seen[b] \/ ~Up(b, f) => late[b][f] = 0)

\* A step that counts no order and makes the bot pass no test of a flag that is
\* up; if the flag comes down, the count starts again.
CountsNone(b, f) ==
  \/ late'[b][f] = 0
  \/ /\ late'[b][f] = late[b][f]
     /\ f \in seen'[b] => f \in seen[b]
     /\ Up(b, f) => Up(b, f)'

\* Such a step keeps the count.
LEMMA CountsNoneStep ==
  ASSUME NEW b \in Bots, NEW f \in Flags, TypeOK, TypeOK', FirstOf(b, f), CountsNone(b, f)
  PROVE  FirstOf(b, f)'
  BY DEF FirstOf, CountsNone, TypeOK

\* Every action keeps the counts of every bot.
LEMMA HaltCountStep ==
  TypeOK /\ TypeOK' /\ [Next]_vars /\ (\A b \in Bots, f \in Flags : FirstOf(b, f))
    => \A b \in Bots, f \in Flags : FirstOf(b, f)'
<1> SUFFICES ASSUME TypeOK, TypeOK', [Next]_vars,
                    \A b \in Bots, f \in Flags : FirstOf(b, f),
                    NEW b \in Bots, NEW f \in Flags
             PROVE  FirstOf(b, f)'
  OBVIOUS
<1> USE DEF flagVars, wdVars, worldVars, history
<1>1. ASSUME NEW d \in Bots, NEW g \in Flags, TestFlag(d, g) PROVE FirstOf(b, f)'
  <2>1. /\ ~Up(d, g) /\ seen' = [seen EXCEPT ![d] = @ \cup {g}]
        /\ UNCHANGED <<halted, emergency, late>>
    BY <1>1 DEF TestFlag
  <2>2. FirstOf(b, f) /\ Up(b, f)' = Up(b, f)
    BY <2>1 DEF Up
  <2>3. f \in seen'[b] => f \in seen[b] \/ ~Up(b, f)
    BY <2>1 DEF TypeOK
  <2>4. late'[b][f] =< 1
    BY <2>1, <2>2 DEF FirstOf
  <2>5. f \in seen'[b] \/ ~Up(b, f)' => late'[b][f] = 0
    BY <2>1, <2>2, <2>3 DEF FirstOf, Up
  <2> QED
    BY <2>4, <2>5 DEF FirstOf, Up
<1>2. ASSUME NEW d \in Bots, PlaceOrder(d) PROVE FirstOf(b, f)'
  <2>1. CASE d = b
    <3>1. f \notin seen'[b] /\ Up(b, f)' = Up(b, f)
      BY <1>2, <2>1 DEF PlaceOrder, TypeOK, Up
    <3>2. late'[b][f] = IF Up(b, f) /\ f \in seen[b] THEN Capped(late[b][f] + 1, 2)
                                                    ELSE late[b][f]
      BY <1>2, <2>1 DEF PlaceOrder, CountLate, TypeOK
    <3>3. Up(b, f) /\ f \in seen[b] => late'[b][f] = 1
      BY <3>2 DEF FirstOf, Capped
    <3> QED
      BY <3>1, <3>2, <3>3 DEF FirstOf
  <2>2. CASE d # b
    <3>1. late'[b] = late[b] /\ seen'[b] = seen[b] /\ UNCHANGED <<halted, emergency>>
      BY <1>2, <2>2 DEF PlaceOrder, CountLate, TypeOK
    <3> QED
      BY <3>1 DEF FirstOf, Up
  <2> QED
    BY <2>1, <2>2
<1>3. ASSUME CountsNone(b, f) PROVE FirstOf(b, f)'
  BY <1>3, CountsNoneStep
<1>4. ASSUME UNCHANGED <<halted, emergency, late, seen>> PROVE CountsNone(b, f)
  BY <1>4 DEF CountsNone, Up
<1>5. ASSUME NEW d \in Bots, NoOrder(d) PROVE CountsNone(b, f)
  BY <1>5 DEF NoOrder, CountsNone, Up, TypeOK
<1>6. ASSUME NEW d \in Bots, EmergencyUnread(d) PROVE CountsNone(b, f)
  BY <1>6 DEF EmergencyUnread, CountsNone, Up, TypeOK, Flags
<1>7. CASE ToggleEmergency
  <2>1. /\ UNCHANGED <<halted, seen>>
        /\ late' = [d \in Bots |-> [late[d] EXCEPT !["all"] = 0]]
    BY <1>7 DEF ToggleEmergency
  <2>2. f = "all" => late'[b][f] = 0
    BY <2>1 DEF TypeOK
  <2>3. f # "all" => late'[b][f] = late[b][f]
    BY <2>1 DEF TypeOK
  <2>4. CountsNone(b, f)
    BY <2>1, <2>2, <2>3 DEF CountsNone, Up, Flags
  <2> QED
    BY <2>4, <1>3
<1>8. ASSUME NEW d \in Bots, OperatorHalts(d) PROVE CountsNone(b, f)
  BY <1>8 DEF OperatorHalts, CountsNone, Up, TypeOK
<1>9. ASSUME NEW d \in Bots, Unhalt(d) PROVE CountsNone(b, f)
  <2>1. /\ UNCHANGED <<emergency, seen>>
        /\ halted' = [halted EXCEPT ![d] = FALSE]
        /\ late' = [late EXCEPT ![d]["own"] = 0]
    BY <1>9 DEF Unhalt
  <2>2. CASE d = b /\ f = "own"
    BY <2>1, <2>2 DEF CountsNone, TypeOK
  <2>3. CASE d # b
    BY <2>1, <2>3 DEF CountsNone, Up, TypeOK
  <2>4. CASE f # "own"
    <3>1. late'[b][f] = late[b][f]
      BY <2>1, <2>4 DEF TypeOK
    <3> QED
      BY <2>1, <2>4, <3>1 DEF CountsNone, Up
  <2> QED
    BY <2>2, <2>3, <2>4
<1>10. ASSUME NEW d \in Bots, SetAtAges(d) PROVE CountsNone(b, f)
  BY <1>4, <1>10 DEF SetAtAges
<1>11. ASSUME World \/ Tick \/ WatchdogDies PROVE CountsNone(b, f)
  BY <1>4, <1>11 DEF World, ConditionChanges, QueryChanges, Tick, StartTick,
       StartActing, EndTick, RunCheck, CheckRaises, Stop, WatchdogDies
<1>12. ASSUME Halt, ~WriteFlag PROVE CountsNone(b, f)
  BY <1>4, <1>12 DEF Halt, Decide, CancelAll, CancelSkipped, ReadFlag,
       InsertFails, Stop
<1>13. ASSUME WriteFlag PROVE CountsNone(b, f)
  <2>1. job.bot \in Bots /\ UNCHANGED <<emergency, seen, late>>
    BY <1>13 DEF WriteFlag, TypeOK
  <2>2. CASE job.halted
    BY <1>4, <1>13, <2>1, <2>2 DEF WriteFlag
  <2>3. CASE ~job.halted
    <3>1. halted' = [halted EXCEPT ![job.bot] = TRUE]
      BY <1>13, <2>3 DEF WriteFlag
    <3> QED
      BY <2>1, <3>1 DEF CountsNone, Up, TypeOK
  <2> QED
    BY <2>2, <2>3
<1>14. CASE UNCHANGED vars
  BY <1>3, <1>4, <1>14 DEF vars
<1>15. CASE BotNext
  BY <1>1, <1>2, <1>3, <1>5, <1>6, <1>15 DEF BotNext
<1>16. CASE People
  BY <1>3, <1>7, <1>8, <1>9, <1>10, <1>16 DEF People
<1> QED
  BY <1>3, <1>11, <1>12, <1>13, <1>14, <1>15, <1>16 DEF Next, CalmNext

\* The inductive invariant: in every reachable state, for every set of bots,
\* and checks, the types hold and an order that is past the test of a flag that
\* has risen is the first (core/watchdog.py, _halt; the bots' halt tests, made
\* one after the other).
THEOREM HaltInvariant == Spec => []HaltInv
<1>1. Init => HaltInv
  <2> SUFFICES ASSUME Init PROVE HaltInv
    OBVIOUS
  <2>1. TypeOK
    <3>1. job \in [check: Checks \cup {"none"}, bot: Bots \cup {"none"},
                   skip: BOOLEAN, halted: BOOLEAN, reason: Reasons]
      BY DEF Init, NoJob, Reasons
    <3>2. calls \in [Bots -> 0 .. Cardinality(Checks) + 1]
      BY CheckCount DEF Init
    <3>3. manual \in 0 .. MaxManual
      BY HaltAssumption DEF Init
    <3>4. /\ halted \in [Bots -> BOOLEAN] /\ recent \in [Bots -> BOOLEAN]
          /\ reason \in [Bots -> Reasons] /\ seen \in [Bots -> SUBSET Reads]
          /\ late \in [Bots -> [Flags -> 0 .. 2]]
      BY DEF Init, Reasons
    <3>5. /\ emergency \in BOOLEAN
          /\ bad \subseteq Checks /\ raises \subseteq Checks
          /\ wd \in {"sleep", "check", "act", "cancel", "read", "write"}
          /\ toCheck \subseteq Checks /\ failed \subseteq Checks
          /\ queue \subseteq failed \X Bots
      BY DEF Init
    <3>6. wd \in {"cancel", "read", "write"} => job.bot \in Bots /\ job.check \in Checks
      BY DEF Init
    <3> QED
      BY <3>1, <3>2, <3>3, <3>4, <3>5, <3>6 DEF TypeOK
  <2>2. QueueWhileActing
    BY DEF Init, QueueWhileActing
  <2>3. OneOrderAfterHalt /\ InFlightIsFirst
    BY DEF Init, OneOrderAfterHalt, InFlightIsFirst
  <2> QED
    BY <2>1, <2>2, <2>3 DEF HaltInv
<1>2. HaltInv /\ [Next]_vars => HaltInv'
  <2> SUFFICES ASSUME HaltInv, [Next]_vars PROVE HaltInv'
    OBVIOUS
  <2>1. TypeOK' /\ QueueWhileActing'
    BY HaltTypeStep, QueueStep DEF HaltInv
  <2>2. \A b \in Bots, f \in Flags : FirstOf(b, f)
    BY DEF HaltInv, OneOrderAfterHalt, InFlightIsFirst, FirstOf
  <2>3. \A b \in Bots, f \in Flags : FirstOf(b, f)'
    BY <2>1, <2>2, HaltCountStep DEF HaltInv
  <2>4. OneOrderAfterHalt' /\ InFlightIsFirst'
    BY <2>3 DEF OneOrderAfterHalt, InFlightIsFirst, FirstOf, Up
  <2> QED
    BY <2>1, <2>4 DEF HaltInv
<1> QED
  BY <1>1, <1>2, PTL DEF Spec

\* Every variable of the halt protocol keeps its type.
THEOREM HaltTypes == Spec => []TypeOK
<1>1. HaltInv => TypeOK
  BY DEF HaltInv
<1> QED
  BY <1>1, HaltInvariant, PTL

\* While a flag is up at most one order that passed the test of it is placed, the
\* one in hand when the flag rose, in whatever order the two flags are read and
\* move, and whatever the watchdog, the operator and the Telegram
\* listener do in between (is_halted, halt_reason, Watchdog._halt, unhalt).
THEOREM HaltOrders == Spec => []OneOrderAfterHalt
<1>1. HaltInv => OneOrderAfterHalt
  BY DEF HaltInv
<1> QED
  BY <1>1, HaltInvariant, PTL

-----------------------------------------------------------------------------
(* The cancel_all calls.  FewCancels says nothing of the halts the tick has *)
(* still to carry out.  CallsInv counts these with the calls made, unless   *)
(* the bot has been halted for so long that they will all be skipped.       *)

HaltersOf(b) == {c \in Checks : b \in Scope[c]}

\* The checks of this tick for which cancel_all may still be called.
Pending(b) ==
  {c \in Checks : \/ <<c, b>> \in queue
                  \/ /\ wd = "cancel" /\ ~job.skip
                     /\ job.bot = b /\ job.check = c}

\* Halted for more than a minute: every halt of the tick skips its cancel_all.
LongHalted(b) ==
  halted[b] /\ ~recent[b] /\ (wd = "cancel" /\ job.bot = b => job.skip)

CallsOf(b) ==
  /\ Pending(b) \subseteq HaltersOf(b)
  /\ \/ calls[b] + Cardinality(Pending(b)) =< Cardinality(HaltersOf(b))
     \/ calls[b] =< Cardinality(HaltersOf(b)) /\ LongHalted(b)
  /\ wd \in {"sleep", "check"} /\ calls[b] > 0 => LongHalted(b)
  /\ calls[b] > 0 => \/ halted[b]
                     \/ job.bot = b /\ wd = "read"
                     \/ job.bot = b /\ wd = "write" /\ ~job.halted

\* A pair is taken off the queue when its halt starts.
JobTaken == wd = "cancel" => <<job.check, job.bot>> \notin queue

CallsInv == JobTaken /\ \A b \in Bots : CallsOf(b)

\* The sets of checks are finite, and no larger than the set that holds them.
LEMMA HaltersAreFinite ==
  ASSUME NEW b \in Bots
  PROVE  /\ Cardinality(HaltersOf(b)) \in Nat
         /\ \A S \in SUBSET HaltersOf(b) :
              /\ IsFiniteSet(S) /\ Cardinality(S) \in Nat
              /\ Cardinality(S) =< Cardinality(HaltersOf(b))
         /\ \A S \in SUBSET HaltersOf(b) : \A R \in SUBSET S :
              Cardinality(R) =< Cardinality(S)
<1>1. IsFiniteSet(HaltersOf(b))
  BY HaltAssumption, FS_Subset DEF HaltersOf
<1>2. ASSUME NEW S \in SUBSET HaltersOf(b)
      PROVE  /\ IsFiniteSet(S) /\ Cardinality(S) \in Nat
             /\ Cardinality(S) =< Cardinality(HaltersOf(b))
  BY <1>1, FS_Subset, FS_CardinalityType
<1>3. ASSUME NEW S \in SUBSET HaltersOf(b), NEW R \in SUBSET S
      PROVE  Cardinality(R) =< Cardinality(S)
  BY <1>2, FS_Subset
<1> QED
  BY <1>1, <1>2, <1>3, FS_CardinalityType

\* Fewer halts to carry out, and no call more, keep the count.
LEMMA CallsKept ==
  ASSUME NEW b \in Bots, TypeOK, CallsOf(b), calls'[b] = calls[b],
         Pending(b)' \subseteq Pending(b),
         LongHalted(b) => LongHalted(b)'
  PROVE  /\ Pending(b)' \subseteq HaltersOf(b)
         /\ \/ calls'[b] + Cardinality(Pending(b)') =< Cardinality(HaltersOf(b))
            \/ calls'[b] =< Cardinality(HaltersOf(b)) /\ LongHalted(b)'
<1>1. /\ Pending(b) \subseteq HaltersOf(b) /\ calls[b] \in Nat
      /\ \/ calls[b] + Cardinality(Pending(b)) =< Cardinality(HaltersOf(b))
         \/ calls[b] =< Cardinality(HaltersOf(b)) /\ LongHalted(b)
  BY CheckCount DEF CallsOf, TypeOK
<1> DEFINE P == Pending(b)
           Q == Pending(b)'
           H == HaltersOf(b)
<1>2. /\ Cardinality(Q) =< Cardinality(P) /\ Cardinality(Q) \in Nat
      /\ Cardinality(P) \in Nat /\ Cardinality(H) \in Nat
  BY <1>1, HaltersAreFinite
<1> HIDE DEF P, Q, H
<1>3. calls[b] + Cardinality(P) =< Cardinality(H) => calls[b] + Cardinality(Q) =< Cardinality(H)
  BY <1>1, <1>2
<1> QED
  BY <1>1, <1>3 DEF P, Q, H

\* When set_at moves, the calls are counted anew.
LEMMA CallsAnew ==
  ASSUME NEW b \in Bots, calls'[b] = 0, Pending(b)' \subseteq HaltersOf(b)
  PROVE  CallsOf(b)'
<1> DEFINE Q == Pending(b)'
           H == HaltersOf(b)
<1>1. Cardinality(Q) =< Cardinality(H) /\ Cardinality(Q) \in Nat /\ Cardinality(H) \in Nat
  BY HaltersAreFinite
<1> HIDE DEF Q, H
<1>2. 0 + Cardinality(Q) =< Cardinality(H)
  BY <1>1
<1>3. HaltersOf(b)' = HaltersOf(b)
  BY DEF HaltersOf
<1> QED
  BY <1>2, <1>3 DEF CallsOf, Q, H

\* The steps that leave the watchdog alone.
LEMMA CallsOutside ==
  ASSUME NEW b \in Bots, TypeOK, CallsOf(b), UNCHANGED <<wd, queue, job>>,
         \/ calls'[b] = 0
         \/ /\ calls'[b] = calls[b] /\ halted'[b] = halted[b]
            /\ recent'[b] => recent[b]
  PROVE  CallsOf(b)'
<1>1. Pending(b)' = Pending(b)
  BY DEF Pending
<1>2. CASE calls'[b] = 0
  BY <1>1, <1>2, CallsAnew DEF CallsOf
<1>3. CASE calls'[b] = calls[b] /\ halted'[b] = halted[b] /\ (recent'[b] => recent[b])
  <2>1. LongHalted(b) => LongHalted(b)'
    BY <1>3 DEF LongHalted
  <2>2. /\ Pending(b)' \subseteq HaltersOf(b)
        /\ \/ calls'[b] + Cardinality(Pending(b)') =< Cardinality(HaltersOf(b))
           \/ calls'[b] =< Cardinality(HaltersOf(b)) /\ LongHalted(b)'
    BY <1>1, <1>3, <2>1, CallsKept
  <2>3. HaltersOf(b)' = HaltersOf(b)
    BY DEF HaltersOf
  <2> QED
    BY <1>3, <2>1, <2>2, <2>3 DEF CallsOf
<1> QED
  BY <1>2, <1>3

\* What the watchdog does at each of its parts.
LEMMA CallsStep ==
  ASSUME TypeOK, TypeOK', QueueWhileActing, CallsInv, [Next]_vars, NEW b \in Bots
  PROVE  CallsOf(b)'
<1> USE DEF flagVars, wdVars, worldVars, history
<1>0. /\ CallsOf(b) /\ JobTaken /\ HaltersOf(b)' = HaltersOf(b)
      /\ calls[b] \in Nat /\ calls'[b] \in Nat /\ Pending(b) \subseteq HaltersOf(b)
  <2>1. /\ CallsOf(b) /\ JobTaken /\ HaltersOf(b)' = HaltersOf(b)
        /\ Pending(b) \subseteq HaltersOf(b)
    BY DEF CallsInv, CallsOf, HaltersOf
  <2>2. calls[b] \in Nat /\ calls'[b] \in Nat
    BY CheckCount DEF TypeOK
  <2> QED
    BY <2>1, <2>2
<1>1. CASE BotNext \/ World \/ ToggleEmergency \/ UNCHANGED vars
           \/ \E c \in Checks : RunCheck(c)
  <2>1. UNCHANGED <<wd, queue, job, calls, halted, recent>>
    BY <1>1 DEF BotNext, TestFlag, EmergencyUnread, PlaceOrder, NoOrder, World,
         ConditionChanges, QueryChanges, ToggleEmergency, RunCheck, vars
  <2> QED
    BY <1>0, <2>1, CallsOutside
<1>2. ASSUME NEW d \in Bots, OperatorHalts(d) \/ Unhalt(d) \/ SetAtAges(d)
      PROVE  CallsOf(b)'
  <2>1. /\ UNCHANGED <<wd, queue, job>>
        /\ \/ calls'[b] = 0
           \/ /\ calls'[b] = calls[b] /\ halted'[b] = halted[b]
              /\ recent'[b] => recent[b]
    BY <1>2 DEF OperatorHalts, Unhalt, SetAtAges, SetAtMoves, TypeOK
  <2> QED
    BY <1>0, <2>1, CallsOutside
<1>3. ASSUME calls'[b] = calls[b], Pending(b)' \subseteq Pending(b),
             LongHalted(b) => LongHalted(b)',
             wd' \in {"sleep", "check"} /\ calls[b] > 0 => LongHalted(b)',
             calls[b] > 0 => \/ halted'[b]
                             \/ job'.bot = b /\ wd' = "read"
                             \/ job'.bot = b /\ wd' = "write" /\ ~job'.halted
      PROVE  CallsOf(b)'
  <2>1. /\ Pending(b)' \subseteq HaltersOf(b)
        /\ \/ calls'[b] + Cardinality(Pending(b)') =< Cardinality(HaltersOf(b))
           \/ calls'[b] =< Cardinality(HaltersOf(b)) /\ LongHalted(b)'
    BY <1>0, <1>3, CallsKept
  <2> QED
    BY <1>0, <1>3, <2>1 DEF CallsOf
<1>4. CASE StartTick
  <2>1. wd = "sleep" /\ wd' = "check" /\ UNCHANGED <<queue, job, calls, halted, recent>>
    BY <1>4 DEF StartTick
  <2>2. Pending(b)' = Pending(b)
    BY <2>1 DEF Pending
  <2>3. LongHalted(b)' <=> LongHalted(b)
    BY <2>1 DEF LongHalted
  <2> QED
    BY <1>0, <1>3, <2>1, <2>2, <2>3 DEF CallsOf
<1>5. CASE StartActing
  <2>1. /\ wd = "check" /\ wd' = "act" /\ UNCHANGED <<job, calls, halted, recent>>
        /\ queue' = {p \in failed \X Bots : p[2] \in Scope[p[1]]}
    BY <1>5 DEF StartActing
  <2>2. Pending(b)' \subseteq HaltersOf(b)
    BY <2>1 DEF Pending, HaltersOf
  <2>3. CASE calls[b] = 0
    BY <2>1, <2>2, <2>3, CallsAnew
  <2>4. CASE calls[b] # 0
    <3>1. LongHalted(b)
      BY <1>0, <2>1, <2>4 DEF CallsOf
    <3>2. halted'[b] /\ LongHalted(b)'
      BY <2>1, <3>1 DEF LongHalted
    <3>3. calls'[b] =< Cardinality(HaltersOf(b))
      <4> DEFINE P == Pending(b)
                 H == HaltersOf(b)
      <4>1. Cardinality(P) \in Nat /\ Cardinality(H) \in Nat
        BY <1>0, HaltersAreFinite
      <4>2. calls[b] + Cardinality(P) =< Cardinality(H) \/ calls[b] =< Cardinality(H)
        BY <1>0 DEF CallsOf
      <4> HIDE DEF P, H
      <4>3. calls'[b] =< Cardinality(H)
        BY <1>0, <2>1, <4>1, <4>2
      <4> QED
        BY <4>3 DEF H
    <3> QED
      BY <1>0, <2>1, <2>2, <3>2, <3>3 DEF CallsOf
  <2> QED
    BY <2>3, <2>4
<1>6. CASE EndTick
  <2>1. /\ wd = "act" /\ wd' = "sleep" /\ UNCHANGED <<queue, job, calls, halted>>
        /\ recent' = [d \in Bots |-> FALSE]
    BY <1>6 DEF EndTick
  <2>2. Pending(b)' = Pending(b)
    BY <2>1 DEF Pending
  <2>3. calls[b] > 0 => halted[b]
    BY <1>0, <2>1 DEF CallsOf
  <2>4. LongHalted(b)' <=> halted[b]
    BY <2>1 DEF LongHalted
  <2>5. LongHalted(b) => LongHalted(b)'
    BY <2>4 DEF LongHalted
  <2> QED
    BY <1>3, <2>1, <2>2, <2>3, <2>4, <2>5
<1>7. ASSUME NEW c \in Checks, CheckRaises(c)
      PROVE  CallsOf(b)'
  <2>1. /\ wd = "check" /\ wd' = "sleep" /\ queue' = {}
        /\ UNCHANGED <<calls, halted, recent>>
    BY <1>7 DEF CheckRaises, Stop
  <2>2. Pending(b)' \subseteq Pending(b)
    BY <2>1 DEF Pending
  <2>3. LongHalted(b) => LongHalted(b)' /\ halted'[b]
    BY <2>1 DEF LongHalted
  <2>4. calls[b] > 0 => LongHalted(b)
    BY <1>0, <2>1 DEF CallsOf
  <2> QED
    BY <1>3, <2>1, <2>2, <2>3, <2>4
<1>8. CASE WatchdogDies \/ InsertFails
  <2>1. wd' = "sleep" /\ queue' = {} /\ calls' = [d \in Bots |-> 0]
    BY <1>8 DEF WatchdogDies, InsertFails, Stop
  <2>2. Pending(b)' \subseteq HaltersOf(b) /\ calls'[b] = 0
    BY <2>1 DEF Pending
  <2> QED
    BY <2>2, CallsAnew
<1>9. ASSUME NEW c \in Checks, NEW d \in Bots, Decide(c, d)
      PROVE  CallsOf(b)'
  <2>1. /\ wd = "act" /\ wd' = "cancel" /\ <<c, d>> \in queue
        /\ queue' = queue \ {<<c, d>>} /\ UNCHANGED <<calls, halted, recent, reason>>
    BY <1>9 DEF Decide
  <2>2. job'.check = c /\ job'.bot = d /\ job'.skip = SkipCancel(c, d)
    BY <1>9 DEF Decide, NoJob
  <2>3. Pending(b)' \subseteq Pending(b)
    BY <2>1, <2>2 DEF Pending
  <2>4. LongHalted(b) => LongHalted(b)'
    BY <2>1, <2>2 DEF LongHalted, SkipCancel
  <2>5. calls[b] > 0 => halted'[b]
    BY <1>0, <2>1 DEF CallsOf
  <2> QED
    BY <1>3, <2>1, <2>3, <2>4, <2>5
<1>10. CASE CancelAll
  <2>1. /\ wd = "cancel" /\ ~job.skip /\ wd' = "read"
        /\ UNCHANGED <<queue, job, halted, recent>>
        /\ calls' = [calls EXCEPT ![job.bot] = Capped(@ + 1, Cardinality(Checks) + 1)]
        /\ job.bot \in Bots /\ job.check \in Checks
    BY <1>10 DEF CancelAll, TypeOK
  <2>2. CASE job.bot # b
    <3>1. calls'[b] = calls[b]
      BY <2>1, <2>2 DEF TypeOK
    <3>2. Pending(b)' \subseteq Pending(b)
      BY <2>1 DEF Pending
    <3>3. LongHalted(b) => LongHalted(b)'
      BY <2>1 DEF LongHalted
    <3>4. calls[b] > 0 => halted'[b]
      BY <1>0, <2>1, <2>2 DEF CallsOf
    <3> QED
      BY <1>3, <2>1, <3>1, <3>2, <3>3, <3>4
  <2>3. CASE job.bot = b
    <3> DEFINE P == Pending(b)
               Q == Pending(b)'
               H == HaltersOf(b)
               c == job.check
    <3>1. c \in P
      BY <2>1, <2>3 DEF Pending
    <3>2. Q = P \ {c}
      BY <1>0, <2>1, <2>3 DEF Pending, JobTaken
    <3>3. calls[b] + Cardinality(P) =< Cardinality(H) /\ P \in SUBSET H
      BY <1>0, <2>1, <2>3 DEF CallsOf, LongHalted
    <3>4. calls'[b] =< calls[b] + 1
      <4>1. calls'[b] = Capped(calls[b] + 1, Cardinality(Checks) + 1)
        BY <2>1, <2>3 DEF TypeOK
      <4>2. calls[b] + 1 \in Nat /\ Cardinality(Checks) + 1 \in Nat
        BY <1>0, CheckCount
      <4> QED
        BY <4>1, <4>2, CappedRange
    <3>5. Q \subseteq H /\ wd' = "read" /\ job'.bot = b
      BY <2>1, <2>3, <3>2, <3>3
    <3>6. IsFiniteSet(P) /\ Cardinality(P) \in Nat /\ Cardinality(H) \in Nat
      BY <3>3, HaltersAreFinite
    <3> HIDE DEF P, Q, H, c
    <3>7. Cardinality(Q) = Cardinality(P) - 1
      BY <3>1, <3>2, <3>6, FS_RemoveElement
    <3>8. calls'[b] + Cardinality(Q) =< Cardinality(H)
      BY <1>0, <3>3, <3>4, <3>6, <3>7
    <3> QED
      BY <1>0, <3>5, <3>8 DEF CallsOf, Q, H
  <2> QED
    BY <2>2, <2>3
<1>11. CASE CancelSkipped
  <2>1. wd = "cancel" /\ job.skip /\ wd' = "read" /\ UNCHANGED <<queue, job, calls, halted, recent>>
    BY <1>11 DEF CancelSkipped
  <2>2. Pending(b)' \subseteq Pending(b)
    BY <2>1 DEF Pending
  <2>3. LongHalted(b) => LongHalted(b)'
    BY <2>1 DEF LongHalted
  <2>4. calls[b] > 0 => halted'[b]
    BY <1>0, <2>1 DEF CallsOf
  <2> QED
    BY <1>3, <2>1, <2>2, <2>3, <2>4
<1>12. CASE ReadFlag
  <2>1. /\ wd = "read" /\ wd' = "write" /\ UNCHANGED <<queue, calls, halted, recent>>
        /\ job' = [job EXCEPT !.halted = halted[job.bot], !.reason = reason[job.bot]]
    BY <1>12 DEF ReadFlag
  <2>2. job'.bot = job.bot /\ job'.halted = halted[job.bot]
    BY <2>1 DEF TypeOK
  <2>3. Pending(b)' \subseteq Pending(b)
    BY <2>1 DEF Pending
  <2>4. LongHalted(b) => LongHalted(b)'
    BY <2>1 DEF LongHalted
  <2>5. calls[b] > 0 => halted[b] \/ job.bot = b
    BY <1>0, <2>1 DEF CallsOf
  <2> QED
    BY <1>3, <2>1, <2>2, <2>3, <2>4, <2>5
<1>13. CASE WriteFlag
  <2>1. wd = "write" /\ wd' = "act" /\ UNCHANGED queue /\ job.bot \in Bots
    BY <1>13 DEF WriteFlag, TypeOK
  <2>2. Pending(b)' \subseteq Pending(b)
    BY <2>1 DEF Pending
  <2>3. CASE job.halted
    <3>1. UNCHANGED <<halted, recent, calls>>
      BY <1>13, <2>3 DEF WriteFlag
    <3>2. calls[b] > 0 => halted[b]
      BY <1>0, <2>1, <2>3 DEF CallsOf
    <3>3. LongHalted(b) => LongHalted(b)'
      BY <2>1, <3>1 DEF LongHalted
    <3> QED
      BY <1>3, <2>1, <2>2, <3>1, <3>2, <3>3
  <2>4. CASE ~job.halted
    <3>1. /\ halted' = [halted EXCEPT ![job.bot] = TRUE]
          /\ recent' = [recent EXCEPT ![job.bot] = TRUE]
          /\ calls' = [calls EXCEPT ![job.bot] = 0]
      BY <1>13, <2>4 DEF WriteFlag, SetAtMoves
    <3>2. CASE job.bot = b
      <4>1. calls'[b] = 0
        BY <2>1, <3>1, <3>2 DEF TypeOK
      <4> QED
        BY <1>0, <2>2, <4>1, CallsAnew
    <3>3. CASE job.bot # b
      <4>1. halted'[b] = halted[b] /\ recent'[b] = recent[b] /\ calls'[b] = calls[b]
        BY <3>1, <3>3 DEF TypeOK
      <4>2. LongHalted(b) => LongHalted(b)'
        BY <2>1, <4>1 DEF LongHalted
      <4>3. calls[b] > 0 => halted[b]
        BY <1>0, <2>1, <3>3 DEF CallsOf
      <4> QED
        BY <1>3, <2>1, <2>2, <4>1, <4>2, <4>3
    <3> QED
      BY <3>2, <3>3
  <2> QED
    BY <2>3, <2>4
<1> QED
  BY <1>1, <1>2, <1>4, <1>5, <1>6, <1>7, <1>8, <1>9, <1>10, <1>11, <1>12, <1>13
     DEF Next, CalmNext, People, Tick, Halt

LEMMA JobTakenStep == TypeOK /\ JobTaken /\ [Next]_vars => JobTaken'
<1> SUFFICES ASSUME TypeOK, JobTaken, [Next]_vars PROVE JobTaken'
  OBVIOUS
<1>1. ASSUME NEW c \in Checks, NEW b \in Bots, Decide(c, b) PROVE JobTaken'
  BY <1>1 DEF Decide, NoJob, JobTaken
<1>2. CASE UNCHANGED <<wd, queue, job>>
  BY <1>2 DEF JobTaken
<1>3. CASE wd' # "cancel"
  BY <1>3 DEF JobTaken
<1> QED
  BY <1>1, <1>2, <1>3
     DEF Next, CalmNext, BotNext, TestFlag, EmergencyUnread, PlaceOrder, NoOrder,
         People, ToggleEmergency, OperatorHalts, Unhalt, SetAtAges, World,
         ConditionChanges, QueryChanges, Tick, StartTick, StartActing, EndTick, RunCheck,
         CheckRaises, Halt, CancelAll, CancelSkipped, ReadFlag, WriteFlag,
         InsertFails, Stop, WatchdogDies, vars, wdVars

\* The watchdog calls cancel_all at most once per check that halts the bot,
\* until set_at moves or the daemon dies between two halts, for every fleet and
\* every set of checks (Watchdog._halt, "U-12").
THEOREM HaltFewCancels == Spec => []FewCancels
<1>1. Init => CallsInv
  <2> SUFFICES ASSUME Init PROVE CallsInv
    OBVIOUS
  <2>1. ASSUME NEW b \in Bots PROVE CallsOf(b)
    <3>1. Pending(b) = {} /\ calls[b] = 0
      BY DEF Init, Pending
    <3>2. Cardinality(HaltersOf(b)) \in Nat
      BY HaltersAreFinite
    <3>3. Cardinality({}) = 0
      BY FS_EmptySet
    <3> QED
      BY <3>1, <3>2, <3>3 DEF CallsOf
  <2> QED
    BY <2>1 DEF Init, CallsInv, JobTaken
<1>2. HaltInv /\ HaltInv' /\ CallsInv /\ [Next]_vars => CallsInv'
  BY CallsStep, JobTakenStep DEF HaltInv, CallsInv
<1>3. HaltInv /\ CallsInv => FewCancels
  <2> SUFFICES ASSUME HaltInv, CallsInv, NEW b \in Bots
               PROVE  calls[b] =< Cardinality(HaltersOf(b))
    BY DEF FewCancels, HaltersOf
  <2> DEFINE P == Pending(b)
             H == HaltersOf(b)
  <2>1. Cardinality(P) \in Nat /\ Cardinality(H) \in Nat
    BY HaltersAreFinite DEF CallsInv, CallsOf
  <2>2. calls[b] + Cardinality(P) =< Cardinality(H) \/ calls[b] =< Cardinality(H)
    BY DEF CallsInv, CallsOf
  <2>3. calls[b] \in Nat
    BY CheckCount DEF HaltInv, TypeOK
  <2> HIDE DEF P, H
  <2>4. calls[b] =< Cardinality(H)
    BY <2>1, <2>2, <2>3
  <2> QED
    BY <2>4 DEF H
<1> QED
  BY <1>1, <1>2, <1>3, HaltInvariant, PTL DEF Spec
=============================================================================
